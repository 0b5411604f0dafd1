SPECIFICATION MetricSpec
CONSTANTS
  p0 = p0
  p1 = p1
  T = T
  None = None
  Jobs <- MCJobs
  Start <- MCStart
  Stride = 2
  MaxNonce = 3
  MaxWait = 1
  Targets = {None, T}
CHECK_DEADLOCK FALSE
INVARIANTS
  JobTypeOK
  NoRetry
  LanesDisjoint
  LaneCovered
  StopAfterCurrent
  TimeAccounted
PROPERTIES
  StopEnds
