SPECIFICATION FairSpec
CONSTANTS
  Cells = {1, 2}
  MaxRnti = 4
  MaxRntiFaulty = 2
  MaxData = 2
  FaultSets <- GoodAndBad
INVARIANTS TypeOK NoAbort ServedWhereItIs TimerOfState SourceKept ReportsFindContext PacketsAccountedFor
PROPERTIES HandoverEnds PacketsTransmitted
CHECK_DEADLOCK FALSE
