CONSTANTS
  a = a
  b = b
  w = w
  Torn = Torn
  NoFile = NoFile
  MAX_TABLE_SIZE = 2
  NULL = NULL
  Word <- MCWord
  Broken <- BrokenWords
  Upper <- MCUpper
  Lower <- MCLower
  Fit <- MCFit
  Key <- MCKey
  Value <- MCStrings
  ClientKey <- ColonKeys
  ClientValue <- ClientValues
  Slot = {0, 1}
  Hash <- MCHash
SPECIFICATION ESpec
INVARIANTS RestoresWhatWasSaved
