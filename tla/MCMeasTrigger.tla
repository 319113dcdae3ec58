--------------------------- MODULE MCMeasTrigger ---------------------------
(* Instances of MeasTrigger: a serving cell and its neighbours.            *)
EXTENDS MeasTrigger

(* The same fixed time to trigger everywhere.                              *)
FixedDelay == [c \in Cells |-> {2}]
FixedLeave == [c \in Cells |-> 2]

(* perCellTimeToTrigger: cell 3 is quicker than the others.                *)
PerCellDelay == [c \in Cells |-> IF c = 3 THEN {1} ELSE {2}]
PerCellLeave == [c \in Cells |-> IF c = 3 THEN 1 ELSE 2]

(* The agent's tttAdjustment: any delay at every trigger.                  *)
AdaptiveDelay == [c \in Cells |-> {0, 1, 2}]
=============================================================================
