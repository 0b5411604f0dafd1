SPECIFICATION MCFairSpec
CONSTANTS
  t1 = t1
  t2 = t2
  Reader = Reader
  NoOne = NoOne
  NoRequest = NoRequest
  Threads <- MCThreads
  Bodies = {"submit"}
  MaxAnswers = 1
  MaxRequests = 3
  MaxCuts = 1
CHECK_DEADLOCK FALSE
INVARIANTS
  RpcTypeOK
  LockDiscipline
  RepliesFindRequest
  CollisionsAcrossThreads
  DamageContained
PROPERTIES
  NeverOverwritten
  SendsEnd
