\* Two threads, two sinks, nested callbacks that may remove any sink.
\* Callbacks that remove each other's sinks wait for each other, so the system
\* may stop.
SPECIFICATION Spec
CONSTANTS
  t1 = t1
  t2 = t2
  s1 = s1
  s2 = s2
  Thread = {t1, t2}
  Sink = {s1, s2}
  NoThread = NoThread
  NoSink = NoSink
  CallbackRemoves <- AnyRemovals
  ShutdownThreads = {t1}
  MaxAdds = 2
  MaxDepth = 2
SYMMETRY SinkSymmetry
CHECK_DEADLOCK FALSE
INVARIANTS
  CountsMatchCalls
  PresentFlagMissesNoSink
  RetiredSinksAreNotCalled
  NoLostWakeup
PROPERTY
  RemovalInsideWaitsForOthers
