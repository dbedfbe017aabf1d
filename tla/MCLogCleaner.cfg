\* One thread enables and disables the cleaner, twice, while both create and
\* write to files, beside one that an earlier process left.  The workers run
\* out and the clock stops: a state without a successor is not an error.
SPECIFICATION FairSpec
CONSTANTS
  c1 = c1
  c2 = c2
  w1 = w1
  w2 = w2
  f1 = f1
  f2 = f2
  a = a
  NoWorker = NoWorker
  Caller = {c1, c2}
  Controllers = {c1}
  Worker = {w1, w2}
  File = {f1, f2}
  Pattern = {a}
  PatternOf <- OnePattern
  Old = {f2}
  Windows = {0, 1}
  CleanSecs = 1
  MayTouch = TRUE
  MaxClock = 1
CHECK_DEADLOCK FALSE
PROPERTIES
  DisableCleansUp
  DisableReturns
  OverdueIsRemoved
