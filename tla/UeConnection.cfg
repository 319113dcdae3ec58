SPECIFICATION FairSpec
CONSTANTS
  Cells = {1, 2, 3}
  ClosedCells = {3}
  Bearers = 2
  N310 = 2
  N311 = 3
  QoutFrames = 2
  QinFrames = 1
  PreambleTransMax = 1
  ConnEstFailCount = 2
INVARIANTS TypeOK NoAssertFails TimersOfState LayersAgree SameCell FailuresOfOneCell
PROPERTIES SyncEarned Reconnects
