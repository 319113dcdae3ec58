----------------------------- MODULE MCMroLoop -----------------------------
(* Instances of MroLoop: SetCond(2, 0) on the ns-3 side, mod 2 and res 1   *)
(* on the Python side, counters that wrap at W.                            *)
EXTENDS MroLoop

TurnByParity ==
  [c \in {ns3, py} |-> {v \in Word : v % 2 = IF c = ns3 THEN 0 ELSE 1}]
=============================================================================
