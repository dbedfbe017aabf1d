CONSTANTS
  t1 = t1  t2 = t2
  l1 = l1  l2 = l2  l3 = l3
  Thread <- Threads
  Location <- Locations
  Key <- Keys
  Hash <- Hashes
  Type <- Types
  NoLocation = NoLocation
  AliasSlots = 2
  MaxAliasProbes = 2
  StateSlots = 1
  MaxLookups = 3
  N = 2
  MaxValue = 2
  Period = 1
  MaxClock = 3
SPECIFICATION Spec
INVARIANTS
  OneState
  EveryNExact
  FirstNExact
  PeriodsApart
SYMMETRY Symmetric
CHECK_DEADLOCK FALSE
