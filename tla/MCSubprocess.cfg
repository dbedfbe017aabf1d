\* A buffer that the output may exceed, a pipe that fills, a program that may
\* be too slow.
SPECIFICATION FairSpec
CONSTANTS
  OutSize = 2
  PipeSize = 2
  MaxOutput = 3
  Timeout = 2
CHECK_DEADLOCK FALSE
INVARIANTS
  NoStrangerKilled
  NothingLeft
  OutputOfSuccess
PROPERTY
  RunEnds
