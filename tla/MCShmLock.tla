----------------------------- MODULE MCShmLock -----------------------------
(* Instances of ShmLock.  Versions wrap at 6, so that a wrap-around is a   *)
(* few operations away; mod 2 divides it, as it divides the 256 of the     *)
(* code.                                                                   *)
EXTENDS ShmLock

CONSTANTS ns3, py

(* Both sides call plain AcquireMemory: EnvSetter, IncMemoryVersion, ...   *)
TurnAlways == [c \in {ns3, py} |-> Word]
=============================================================================
