\* Two values tell an old value of a key from a new one; the third is too long
\* for a reply.
CONSTANTS
  k1 = k1
  k2 = k2
  k3 = k3
  k4 = k4
  s1 = s1
  s2 = s2
  NULL = NULL
  Key <- MCKey
  Slot <- MCSlot
  Hash <- MCHash
  v1 = v1
  v2 = v2
  long = long
  Value <- MCValue
  Fit <- MCFit
SPECIFICATION HSpec
INVARIANTS HTypeOK ChainsOK CountExact
PROPERTIES ImplementsMap
