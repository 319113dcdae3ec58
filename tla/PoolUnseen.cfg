SPECIFICATION Spec
CONSTANTS
  py = py
  ns3 = ns3
  None = None
  PyIds = {1358}
  NsIds = {1357}
  Size <- UnitSizes
  PoolSize = 12
  ByHand = FALSE
  MaxScripts = 1
  MaxRuns = 3
INVARIANT NoPoolError
CHECK_DEADLOCK FALSE
