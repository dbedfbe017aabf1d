\* Two threads that log two messages each and flush, under fairness: one also
\* exits, the other logs a fatal message, both fork, and a sink may call exit()
\* on the logging thread.  A process that ended does nothing more.
SPECIFICATION FairSpec
CONSTANTS
  t1 = t1
  t2 = t2
  Thread = {t1, t2}
  LT = LT
  NoMsg = NoMsg
  MaxMsgs = 2
  Size <- TwoSizes
  Capacity = 3
  ExitThreads = {t1, LT}
  FatalThreads = {t2}
  MayFork = TRUE
CHECK_DEADLOCK FALSE
INVARIANT
  QueueWithinCapacity
PROPERTIES
  PromiseKept
  PushReturns
  WaitReturns
