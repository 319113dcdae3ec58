SPECIFICATION Spec
CONSTANTS
  py = py
  ns3 = ns3
  None = None
  PyIds = {1}
  NsIds = {1}
  Size <- UnitSizes
  PoolSize = 8
  ByHand = TRUE
  MaxScripts = 1
  MaxRuns = 1
INVARIANT SameMemory
CHECK_DEADLOCK FALSE
