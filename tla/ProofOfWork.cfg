SPECIFICATION PowSpec
CONSTANTS
  Bits = 3
  Rounds = 2
  XorWord <- MCXorWord
  Jobs <- MCJobs
INVARIANTS
  PowTypeOK
  OwnDataOnly
PROPERTY
  ImplementsROMix
CHECK_DEADLOCK FALSE
