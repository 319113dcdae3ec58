------------------------------ MODULE MroLoop ------------------------------
(***************************************************************************)
(* The learning loop: the ns-3 process calls MROENV from its event         *)
(* handlers (LteUeRrc's A3 evaluation, VarMeasReportListAdd, PacketSink)   *)
(* and the Python agent of run11.py serves it, both through one block of   *)
(* the shared memory pool, whose lock is ShmLock.                          *)
(***************************************************************************)
EXTENDS ShmLock, Sequences

CONSTANTS
  ns3, py,       \* the two processes
  UEs,           \* the UEs of the simulation (their IMSIs)
  NoUe,          \* the IMSI 0 of a block nobody has written
  RunModes,      \* run11.py --runMode: some of "DQN", "MRO", "no_ML"
  MaxEvents      \* bound: handlers the simulator executes

ASSUME TwoProcesses ==
  Clients = {ns3, py} /\ ns3 # py /\ Raising = {py} /\ Readers = {}
ASSUME TurnsAlternate ==
  /\ Turn[ns3] \cap Turn[py] = {}
  /\ \A v \in Turn[ns3] : Inc(v) \in Turn[py]
  /\ \A v \in Turn[py] : Inc(v) \in Turn[ns3]
  /\ 0 \in Turn[ns3]
ASSUME EventsBound == MaxEvents \in Nat
ASSUME NoUeIsNone == NoUe \notin UEs
ASSUME ModesKnown == RunModes \subseteq {"DQN", "MRO", "no_ML"}

VARIABLES
  runMode,       \* the mode the script was started in
  env, act,      \* the payload: mlInput and mlOutput
  isFinish,      \* the flag behind the payload
  todo,          \* MROENV calls the current handler has still to make
  getting,       \* a table read has posted and is about to read its answer
  events,        \* handlers started; identifies their observations
  trig,          \* per UE: its neighbour is "out", "pending" or "triggered"
  nsState, pyState,
  served,        \* the observation the agent served last
  trail, stored, \* per DQN: not_first_trail, memory_couter > 0
  posted, recorded \* packets written to the block, and logged by the agent

appVars == <<runMode, env, act, isFinish, todo, getting, events, trig, nsState, pyState,
             served, trail, stored, posted, recorded>>
allVars == <<vars, appVars>>

(* An observation is identified by the handler that made it and its UE.    *)
Request == [pos : 0 .. MaxEvents, imsi : UEs \cup {NoUe}]
NoRequest == [pos |-> 0, imsi |-> NoUe]

Env == [pos : 0 .. MaxEvents, imsi : UEs \cup {NoUe}, pkt : 0 .. MaxEvents,
        packetRxFlag : BOOLEAN, hoInProgress : BOOLEAN, hoEnded : BOOLEAN]
Act == [ttt : Request, hyst : Request]

RequestOf(e) == [pos |-> e.pos, imsi |-> e.imsi]

Ops == {"loadIds", "tableRead", "tableRead2", "hoStarted", "hoEnded", "passPacketReception"}
Reads == {"tableRead", "tableRead2"}
Call(op, u) == [op |-> op, ue |-> u, pos |-> events + 1]
mroExp == runMode # "no_ML"

AppTypeOK ==
  /\ TypeOK
  /\ runMode \in RunModes
  /\ env \in Env
  /\ act \in Act
  /\ isFinish \in BOOLEAN
  /\ todo \in Seq([op : Ops, ue : UEs, pos : 1 .. MaxEvents])
  /\ getting \in BOOLEAN
  /\ events \in 0 .. MaxEvents
  /\ trig \in [UEs -> {"out", "pending", "triggered"}]
  /\ nsState \in {"running", "done", "crashed", "killed"}
  /\ pyState \in {"running", "done", "failed"}
  /\ served \in Request
  /\ trail \in [UEs \cup {NoUe} -> BOOLEAN]
  /\ stored \in [UEs \cup {NoUe} -> BOOLEAN]
  /\ posted \in Seq(1 .. MaxEvents)
  /\ recorded \in Seq(1 .. MaxEvents)

(* The pool was zeroed by its creator and by Experiment.reset.  Both       *)
(* processes have registered one and the same block of it.                 *)
AppInit ==
  /\ Init
  /\ runMode \in RunModes
  /\ env = [pos |-> 0, imsi |-> NoUe, pkt |-> 0, packetRxFlag |-> FALSE,
            hoInProgress |-> FALSE, hoEnded |-> FALSE]
  /\ act = [ttt |-> NoRequest, hyst |-> NoRequest]
  /\ isFinish = FALSE
  /\ todo = <<>>
  /\ getting = FALSE
  /\ events = 0
  /\ trig = [u \in UEs |-> "out"]
  /\ nsState = "running"
  /\ pyState = "running"
  /\ served = NoRequest
  /\ trail = [u \in UEs \cup {NoUe} |-> FALSE]
  /\ stored = [u \in UEs \cup {NoUe} |-> FALSE]
  /\ posted = <<>>
  /\ recorded = <<>>

----------------------------------------------------------------------------
(* The simulator's event handlers.  ns-3 runs one at a time.               *)
StartHandler(calls) ==
  /\ nsState = "running"
  /\ todo = <<>>
  /\ pc[ns3] = "idle"
  /\ events < MaxEvents
  /\ events' = events + 1
  /\ todo' = calls
  /\ UNCHANGED <<vars, runMode, env, act, isFinish, getting, nsState, pyState, served, trail,
                 stored, posted, recorded>>

(* One neighbour of UE u in MeasurementReportTriggering, event A3.  The    *)
(* hysteresis is read even without mroExp.  A cell that enters, and is not *)
(* triggered yet, starts one more time-to-trigger timer; one whose entry   *)
(* condition fails cancels them.                                           *)
A3CallsIdsLate(u, starts) ==
  <<Call("tableRead2", u)>>
  \o (IF mroExp THEN <<Call("loadIds", u)>> ELSE <<>>)
  \o (IF mroExp /\ starts THEN <<Call("tableRead", u), Call("hoStarted", u)>> ELSE <<>>)

A3Calls(u, starts) ==
  (IF mroExp THEN <<Call("loadIds", u)>> ELSE <<>>)
  \o <<Call("tableRead2", u)>>
  \o (IF mroExp /\ starts THEN <<Call("tableRead", u), Call("hoStarted", u)>> ELSE <<>>)

EvaluateA3(u, enters) ==
  /\ StartHandler(A3Calls(u, enters /\ trig[u] # "triggered"))
  /\ trig' = [trig EXCEPT ![u] =
                IF @ = "triggered" THEN @ ELSE IF enters THEN "pending" ELSE "out"]

(* VarMeasReportListAdd, when a timer expires: hoEnded unless a report of  *)
(* the same measurement, for another neighbour, is scheduled already.      *)
ReportTriggered(u, reporting) ==
  /\ trig[u] = "pending"
  /\ StartHandler(IF reporting THEN <<>> ELSE <<Call("hoEnded", u)>>)
  /\ trig' = [trig EXCEPT ![u] = "triggered"]

(* VarMeasReportListErase and VarMeasReportListClear forget a neighbour    *)
(* without a call to MROENV.                                               *)
ReportsForgotten(u) ==
  /\ nsState = "running"
  /\ todo = <<>>
  /\ pc[ns3] = "idle"
  /\ trig[u] # "out"
  /\ trig' = [trig EXCEPT ![u] = "out"]
  /\ UNCHANGED <<vars, runMode, env, act, isFinish, todo, getting, events, nsState, pyState,
                 served, trail, stored, posted, recorded>>

(* PacketSink::HandleRead.                                                 *)
ReceivePacket(u) ==
  /\ mroExp
  /\ StartHandler(<<Call("passPacketReception", u)>>)
  /\ UNCHANGED trig

(* Simulator::Destroy runs SetFinish, which takes no lock.                 *)
SetFinishForgotten ==
  /\ nsState = "running"
  /\ todo = <<>>
  /\ pc[ns3] = "idle"
  /\ nsState' = "done"
  /\ UNCHANGED <<vars, runMode, env, act, isFinish, todo, getting, events, trig, pyState, served,
                 trail, stored, posted, recorded>>

SetFinish ==
  /\ nsState = "running"
  /\ todo = <<>>
  /\ pc[ns3] = "idle"
  /\ isFinish' = TRUE
  /\ nsState' = "done"
  /\ UNCHANGED <<vars, runMode, env, act, todo, getting, events, trig, pyState, served, trail,
                 stored, posted, recorded>>

(* A fatal error of the simulator: no destructor, no SetFinish.            *)
NsCrash ==
  /\ nsState = "running"
  /\ pc[ns3] = "idle"
  /\ nsState' = "crashed"
  /\ UNCHANGED <<vars, runMode, env, act, isFinish, todo, getting, events, trig, pyState, served,
                 trail, stored, posted, recorded>>

----------------------------------------------------------------------------
(* The MROENV methods: EnvSetterCond, fields, SetCompleted; the two table  *)
(* reads go on with ActionGetterCond, one field, GetCompleted.             *)
SetterFields(e, call) ==
  CASE call.op \in Reads -> [e EXCEPT !.pos = call.pos]
    [] call.op = "loadIds" -> [e EXCEPT !.imsi = call.ue]
    [] call.op = "hoStarted" -> [e EXCEPT !.hoInProgress = TRUE]
    [] call.op = "hoEnded" -> [e EXCEPT !.hoInProgress = FALSE, !.hoEnded = TRUE]
    [] call.op = "passPacketReception" -> [e EXCEPT !.pkt = call.pos, !.packetRxFlag = TRUE]

NsAcquire ==
  /\ nsState = "running"
  /\ todo # <<>>
  /\ StartAcquire(ns3)
  /\ UNCHANGED appVars

NsSet ==
  /\ nsState = "running"
  /\ pc[ns3] = "held"
  /\ ~getting
  /\ env' = SetterFields(env, Head(todo))
  /\ StartRelease(ns3)
  /\ getting' = (Head(todo).op \in Reads)
  /\ todo' = IF Head(todo).op \in Reads THEN todo ELSE Tail(todo)
  /\ posted' = IF Head(todo).op = "passPacketReception"
               THEN Append(posted, Head(todo).pos) ELSE posted
  /\ UNCHANGED <<runMode, act, isFinish, events, trig, nsState, pyState, served, trail, stored,
                 recorded>>

NsGet ==
  /\ nsState = "running"
  /\ pc[ns3] = "held"
  /\ getting
  /\ StartRollback(ns3)
  /\ getting' = FALSE
  /\ todo' = Tail(todo)
  /\ UNCHANGED <<runMode, env, act, isFinish, events, trig, nsState, pyState, served, trail,
                 stored, posted, recorded>>

NsPool ==
  /\ nsState = "running"
  /\ PoolStep(ns3)
  /\ UNCHANGED appVars

----------------------------------------------------------------------------
(* The agent: while not r1.isFinish(): with r1 as data: ...                *)
PyLoop ==
  /\ pyState = "running"
  /\ pc[py] = "idle"
  /\ \/ /\ isFinish
        /\ pyState' = "done"
        /\ UNCHANGED vars
     \/ /\ ~isFinish
        /\ StartAcquire(py)
        /\ UNCHANGED pyState
  /\ UNCHANGED <<runMode, env, act, isFinish, todo, getting, events, trig, nsState, served,
                 trail, stored, posted, recorded>>

(* Acquire returns None: the loop breaks and __exit__ releases nothing.    *)
PyGiveUp ==
  /\ isFinish
  /\ Abandon(py)
  /\ pyState' = "done"
  /\ UNCHANGED <<runMode, env, act, isFinish, todo, getting, events, trig, nsState, served,
                 trail, stored, posted, recorded>>

PyPool ==
  /\ PoolStep(py)
  /\ pc[py] = "passed" => ~isFinish
  /\ UNCHANGED appVars

(* The body of the loop, on a block the agent holds.  A DQN acts, and      *)
(* stores the previous transition, only while a handover is in progress;   *)
(* it learns when one has ended, from the memory of the UE that env.imsi   *)
(* names.  Sampling an empty memory raises, and __exit__ releases.         *)
Acting == runMode = "DQN" /\ env.hoInProgress
LoggingUnflagged == runMode = "DQN"
Logging == runMode = "DQN" /\ env.packetRxFlag
Learning == runMode = "DQN" /\ env.hoEnded
Storing == Acting /\ trail[env.imsi]
LearnFails == Learning /\ ~stored[env.imsi] /\ ~Storing

Decide ==
  CASE Acting -> [ttt |-> RequestOf(env), hyst |-> RequestOf(env)]
    [] runMode = "MRO" -> [act EXCEPT !.ttt = RequestOf(env)]
    [] OTHER -> act

(* The flags the agent resets in the observation; an exception in learn    *)
(* leaves hoEnded set.                                                     *)
ClearFlagsKeepRx == [env EXCEPT !.hoEnded = @ /\ (~Learning \/ LearnFails)]

ClearFlags ==
  [env EXCEPT !.packetRxFlag = @ /\ ~Logging,
              !.hoEnded = @ /\ (~Learning \/ LearnFails)]

(* __exit__, after an exception as well.                                   *)
HandBackRollback == StartRollback(py)
HandBack == StartRelease(py)

PyServe ==
  /\ HandBack
  /\ served' = RequestOf(env)
  /\ act' = Decide
  /\ trail' = [trail EXCEPT ![env.imsi] = @ \/ Acting]
  /\ stored' = [stored EXCEPT ![env.imsi] = @ \/ Storing]
  /\ recorded' = IF Logging THEN Append(recorded, env.pkt) ELSE recorded
  /\ env' = ClearFlags
  /\ pyState' = IF LearnFails THEN "failed" ELSE pyState
  /\ UNCHANGED <<runMode, isFinish, todo, getting, events, trig, nsState, posted>>

(* The exception ends the script; Experiment.__del__ kills the simulator.  *)
PyKill ==
  /\ pyState = "failed"
  /\ pc[py] = "idle"
  /\ nsState = "running"
  /\ nsState' = "killed"
  /\ UNCHANGED <<vars, runMode, env, act, isFinish, todo, getting, events, trig, pyState, served,
                 trail, stored, posted, recorded>>

----------------------------------------------------------------------------
Handler ==
  \E u \in UEs :
    \/ \E enters \in BOOLEAN : EvaluateA3(u, enters)
    \/ \E reporting \in BOOLEAN : ReportTriggered(u, reporting)
    \/ ReportsForgotten(u)
    \/ ReceivePacket(u)

NsCode == NsAcquire \/ NsSet \/ NsGet \/ NsPool
PyCode == PyLoop \/ PyGiveUp \/ PyPool \/ PyServe \/ PyKill

AppNext == Handler \/ SetFinish \/ NsCrash \/ NsCode \/ PyCode

AppSpec == AppInit /\ [][AppNext]_allVars

(* Two running processes on a preemptive system: each keeps executing, and *)
(* the simulator's event queue runs dry at last.                           *)
FairAppSpec ==
  /\ AppSpec
  /\ WF_allVars(NsCode)
  /\ WF_allVars(PyCode)
  /\ WF_allVars(SetFinish)

----------------------------------------------------------------------------
(* The abstract turn: it passes with the write, inside the critical        *)
(* section, not with the compare-and-swap that ends it.                    *)
TurnBar ==
  IF \/ (version \in Turn[ns3] /\ pc[ns3] = "release")
     \/ (version \in Turn[py] /\ pc[py] # "release")
  THEN "agent" ELSE "sim"

R == INSTANCE Rendezvous WITH turn <- TurnBar, over <- isFinish

(* MROENV and the agent take turns on the payload.                         *)
ImplementsRendezvous == R!Spec

(* When a table read is about to take its answer, the observation the      *)
(* agent served last is the one this very call posted, with the IMSI its   *)
(* handler loaded.                                                         *)
AnswerFollowsRequest ==
  getting /\ pc[ns3] = "held" =>
    /\ served.pos = Head(todo).pos
    /\ mroExp => served.imsi = Head(todo).ue

(* The field of mlOutput that a table read returns.                        *)
Answer(op) == IF op = "tableRead" THEN act.ttt ELSE act.hyst

(* A DQN chooses both fields while a handover is in progress; in MRO mode  *)
(* the script chooses tttAdjustment at every turn, hystAdjustment never.   *)
Decides(op) == Acting \/ (runMode = "MRO" /\ op = "tableRead")

(* Where the agent decides on the field a table read returns, what the     *)
(* read takes was computed for that call: for its position and its UE.     *)
(* tableRead2 in MRO mode is not such a read: it returns the initial 0.    *)
AnswerIsFresh ==
  getting /\ pc[ns3] = "held" /\ Decides(Head(todo).op) =>
    Answer(Head(todo).op) = [pos |-> Head(todo).pos, imsi |-> Head(todo).ue]

(* PacketSink's reports are logged once each and in order; only the last   *)
(* may be missing, while it is in flight or because the simulation ended.  *)
PacketsLoggedOnce ==
  runMode = "DQN" =>
    /\ Len(recorded) \in {Len(posted), Len(posted) - 1}
    /\ \A i \in 1 .. Len(recorded) : recorded[i] = posted[i]

(* DQN.learn samples "from all memory": there is a transition to sample.   *)
LearnHasMemory == pyState # "failed"

(* Unless the simulator crashed, which its agent does not notice, both     *)
(* processes stop.  This, like the rest, is for two processes that share   *)
(* one block; with different ids each waits on a block of its own.         *)
BothStop == <>(nsState # "running" /\ (pyState # "running" \/ nsState = "crashed"))

(* A handler returns: no MROENV call waits for ever, given an agent that   *)
(* serves the same block.                                                  *)
HandlersReturn == todo # <<>> ~> (todo = <<>> \/ nsState # "running")
=============================================================================
