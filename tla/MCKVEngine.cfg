\* Two keys in one chain: saving writes it from the head, loading rebuilds it
\* at the head, so its order turns at each restart.  One value has a colon, one
\* a newline; what is behind them are keys too.
CONSTANTS
  a = a
  b = b
  w = w
  Torn = Torn
  NoFile = NoFile
  MAX_TABLE_SIZE = 2
  NULL = NULL
  Word <- MCWord
  Broken <- BrokenWords
  Upper <- MCUpper
  Lower <- MCLower
  Fit <- MCFit
  Key <- OneWordKeys
  Value <- MCStrings
  ClientKey <- PlainKeys
  ClientValue <- ClientValues
  Slot = {0, 1}
  Hash <- PlainChain
SPECIFICATION ESpec
INVARIANTS ETypeOK CountExact RestoresWhatWasSaved SalvagesOnlySaved
PROPERTY ImplementsStore
