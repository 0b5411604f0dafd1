SPECIFICATION MCSpec
CONSTANTS
  j1 = j1
  j2 = j2
  T1 = T1
  Main = Main
  Reader = Reader
  NoOne = NoOne
  NoRequest = NoRequest
  None = None
  Subscription = Subscription
  Username = Username
  EmptyUsername = FALSE
  Jobs <- MCJobs
  Threads <- MCThreads
  Bodies <- MCBodies
  Start <- MCStart
  Stride = 1
  MaxNonce = 2
  MaxAnswers = 1
  MaxCuts = 0
  MaxShares = 2
  Targets = {None, T1}
CHECK_DEADLOCK FALSE
INVARIANTS
  ReaderSurvivesWarning
