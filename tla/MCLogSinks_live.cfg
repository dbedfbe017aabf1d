\* Two threads whose callbacks never remove each other's sinks in a cycle:
\* every removal that waits returns.
SPECIFICATION FairSpec
CONSTANTS
  t1 = t1
  t2 = t2
  s1 = s1
  s2 = s2
  Thread = {t1, t2}
  Sink = {s1, s2}
  NoThread = NoThread
  NoSink = NoSink
  CallbackRemoves <- AcyclicRemovals
  ShutdownThreads = {}
  MaxAdds = 2
  MaxDepth = 1
PROPERTY
  RemovalReturns
