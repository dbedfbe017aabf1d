\* Three programs, two processes.
SPECIFICATION Spec
CONSTANTS
  p1 = p1
  p2 = p2
  d1 = d1
  d2 = d2
  NoProc = NoProc
  NoDir = NoDir
  NoName = NoName
  Proc = {p1, p2}
  Dir = {d1, d2}
  Settings <- Programs
  BufSecs = 1
  MaxClock = 1
CHECK_DEADLOCK FALSE
INVARIANTS
  LinesInOnePlace
  LengthIsActual
  LinesKept
  ExclusiveWriter
  DropsSound
PROPERTY
  AttemptsSpaced
