\* Two threads that log, fail and take signals in every order; PID 1 or not.
SPECIFICATION FairSpec
CONSTANTS
  t1 = t1
  t2 = t2
  Thread = {t1, t2}
  NoThread = NoThread
  NoMsg = NoMsg
  Logs <- MixedLogs
  FailFunctions = {"dump", "return"}
  MaxMsgs = 1
  MaxTerms = 1
  MaxFaults = 1
CHECK_DEADLOCK FALSE
INVARIANTS
  OneDumpAtATime
  ReasonIsComplete
  FatalIsOnDisk
PROPERTIES
  ReasonKept
  FailureEnds
