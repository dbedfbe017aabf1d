\* A site is tested by one thread while another fills its cache.
SPECIFICATION Spec
CONSTANTS
  t1 = t1
  t2 = t2
  s1 = s1
  s2 = s2
  Thread = {t1, t2}
  Site = {s1, s2}
  NoSite = NoSite
  Module <- TwoModules
  VModule <- Wildcard
  Patterns <- ThreePatterns
  Levels = {0, 2}
  MaxSets = 2
CHECK_DEADLOCK FALSE
INVARIANTS
  DefaultIsThere
