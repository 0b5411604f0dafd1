SPECIFICATION FeedSpec
CONSTANTS
  Base = 4
  Width = 4
  Diff1 = 13
  Shift = 4
  Difficulties <- MCDifficulties
  sub = sub
  garbage = garbage
  Ids <- MCIds
  None = None
  Calls <- MCCalls
  Noise <- MCNoise
  Blank = Blank
  NL = NL
  Sessions <- MCSessions
  MaxLines = 5
  ChunkSize = 4
CHECK_DEADLOCK FALSE
INVARIANTS
  
  
  LinesInOrder
  JobsFollowLines
PROPERTIES
  LinesHandled
