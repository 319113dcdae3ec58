---------------------------- MODULE Rendezvous -----------------------------
(***************************************************************************)
(* What the MROENV object promises its two users: the simulator and the    *)
(* agent take turns.  The simulator posts an observation, the agent serves *)
(* it exactly once and hands the turn back, and only then can the          *)
(* simulator post again or read the agent's answer.  When the simulator    *)
(* is over, an observation it posted last may stay unserved.               *)
(***************************************************************************)
CONSTANTS Env, Act          \* observations and answers

VARIABLES turn, env, act, over

vars == <<turn, env, act, over>>

TypeOK ==
  /\ turn \in {"sim", "agent"}
  /\ env \in Env
  /\ act \in Act
  /\ over \in BOOLEAN

Init ==
  /\ turn = "sim"
  /\ env \in Env
  /\ act \in Act
  /\ over = FALSE

Post ==
  /\ turn = "sim"
  /\ ~over
  /\ env' \in Env
  /\ turn' = "agent"
  /\ UNCHANGED <<act, over>>

(* The agent may clear flags of the observation as it serves it.           *)
Serve ==
  /\ turn = "agent"
  /\ env' \in Env
  /\ act' \in Act
  /\ turn' = "sim"
  /\ UNCHANGED over

Finish ==
  /\ ~over
  /\ over' = TRUE
  /\ UNCHANGED <<turn, env, act>>

Next == Post \/ Serve \/ Finish

Spec == Init /\ [][Next]_vars
=============================================================================
