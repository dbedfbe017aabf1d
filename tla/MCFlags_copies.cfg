\* Two copies of the library in a process that forks.
SPECIFICATION Spec
CONSTANTS
  t1 = t1
  t2 = t2
  c1 = c1
  c2 = c2
  static = static
  dynamic = dynamic
  other = other
  Thread = {t1, t2}
  NoThread = NoThread
  Copy = {c1, c2}
  Flag = {static, dynamic, other}
  NoFlag = NoFlag
  CopyOf <- MCCopyOf
  NameOf <- MCNameOf
  Owner <- MCOwner
  Before <- MCBefore
  MaxOps = 3
CHECK_DEADLOCK FALSE
INVARIANT
  ForkTakesLocksOnce
