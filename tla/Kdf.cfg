SPECIFICATION KdfSpec
CONSTANTS
  BlockSize = 8
  HashSize = 2
  WordBits = 7
  InputLen = 10
  BlockLen = 4
  Calls <- MCCalls
INVARIANTS
  KdfTypeOK
  ContextHolds
  DerivedKey
  KdfOutput
CHECK_DEADLOCK FALSE
