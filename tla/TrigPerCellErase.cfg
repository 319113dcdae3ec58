CONSTANTS
  Cells = {1, 2, 3}
  Delays <- PerCellDelay
  LeaveDelay <- PerCellLeave
  ReportInterval = 3
  Ids = {1, 2, 3, 4, 5, 6, 7, 8}
  Cap = 3
SPECIFICATION Spec
INVARIANT NoAssertFails
CHECK_DEADLOCK FALSE
