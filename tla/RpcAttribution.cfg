SPECIFICATION MCSpec
CONSTANTS
  t1 = t1
  t2 = t2
  Reader = Reader
  NoOne = NoOne
  NoRequest = NoRequest
  Threads <- MCThreads
  Bodies = {"submit"}
  MaxAnswers = 1
  MaxRequests = 2
  MaxCuts = 0
CHECK_DEADLOCK FALSE
INVARIANTS
  ReplyAttribution
