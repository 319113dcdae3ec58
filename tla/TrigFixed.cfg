CONSTANTS
  Cells = {1, 2, 3}
  Delays <- FixedDelay
  LeaveDelay <- FixedLeave
  ReportInterval = 3
  Ids = {1, 2, 3, 4, 5, 6, 7, 8}
  Cap = 3
SPECIFICATION Spec
INVARIANTS
  OneReportRuns
  PendingStillEnters
  TriggerPrompt
  QueuesNameTimers
  NoAssertFails
PROPERTY
  TriggerSustained
