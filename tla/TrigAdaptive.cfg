CONSTANTS
  Cells = {1, 2}
  Delays <- AdaptiveDelay
  LeaveDelay <- FixedLeave
  ReportInterval = 3
  Ids = {1, 2, 3, 4, 5, 6, 7, 8}
  Cap = 3
SPECIFICATION Spec
INVARIANT PendingStillEnters
CHECK_DEADLOCK FALSE
