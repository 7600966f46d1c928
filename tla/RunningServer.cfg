SPECIFICATION FairSpec
CONSTANTS
  o1 = o1
  o2 = o2
  o3 = o3
  None = None
  Objs <- ThreeObjs
  MaxLocks = 1
INVARIANTS
  TypeOK
  EndMissesOnlyNewcomers
  NoExitBeforeFirstClient
PROPERTIES
  ExitsWhenUnused
