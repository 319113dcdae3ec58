SPECIFICATION FairSpec
CONSTANTS
  py = py
  ns3 = ns3
  None = None
  PyIds = {1, 2, 3}
  NsIds = {1}
  Size <- ThreeSizes
  PoolSize = 8
  ByHand = FALSE
  MaxScripts = 3
  MaxRuns = 3
INVARIANTS TypeOK SameMemory BlocksDisjoint NoPoolError
PROPERTIES FreshBlock LockComesFree
CHECK_DEADLOCK FALSE
