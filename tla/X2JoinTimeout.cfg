SPECIFICATION Spec
CONSTANTS
  Cells = {1, 2}
  MaxRnti = 2
  MaxRntiFaulty = 2
  MaxData = 0
  FaultSets <- NoContact
INVARIANTS NoAssertFails
CHECK_DEADLOCK FALSE
