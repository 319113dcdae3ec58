-------------------------- MODULE MroLoop_proofs ---------------------------
(***************************************************************************)
(* The learning loop uses the lock as it must be used, and so implements   *)
(* the turn-taking of Rendezvous, for any UEs, any number of handlers, any *)
(* run mode and any counter width.                                         *)
(***************************************************************************)
EXTENDS MroLoop, ShmLock_proofs

Calls == [op : Ops, ue : UEs, pos : 1 .. MaxEvents]

(* The block's contents, and the calls they are made from, are well formed.*)
PayloadOK ==
  /\ env \in Env
  /\ act \in Act
  /\ todo \in Seq(Calls)
  /\ events \in 0 .. MaxEvents

(* ns-3 uses the block only on behalf of a call, and only while it runs.   *)
CallUnderway ==
  /\ pc[ns3] \in {"await", "passed", "acquire", "held"} => todo # <<>>
  /\ getting \in BOOLEAN
  /\ getting => todo # <<>>
  /\ nsState = "running" => isFinish = FALSE
  /\ isFinish \in BOOLEAN

LoopInv == IInv /\ PayloadOK /\ CallUnderway

----------------------------------------------------------------------------
(* The two processes keep the lock's discipline: they wait for disjoint    *)
(* versions.                                                               *)
LEMMA KeepsDiscipline == Discipline
BY TwoProcesses, TurnsAlternate DEF Discipline

(* Every step of the loop is a step of the lock, or none.                  *)
LEMMA LockStep == [AppNext]_allVars => [Next]_vars
<1> SUFFICES ASSUME [AppNext]_allVars PROVE [Next]_vars
  OBVIOUS
<1>0. ns3 \in Clients /\ py \in Clients
  BY TwoProcesses
<1>1. CASE Handler
  BY <1>1 DEF Handler, EvaluateA3, ReportTriggered, ReportsForgotten, ReceivePacket,
              StartHandler, vars
<1>2. CASE SetFinish \/ NsCrash \/ PyKill
  BY <1>2 DEF SetFinish, NsCrash, PyKill, vars
<1>3. CASE NsAcquire \/ NsSet \/ NsGet \/ NsPool
  BY <1>0, <1>3 DEF NsAcquire, NsSet, NsGet, NsPool, Next, CallerStep
<1>4. CASE PyLoop \/ PyGiveUp \/ PyPool \/ PyServe
  BY <1>0, <1>4 DEF PyLoop, PyGiveUp, PyPool, PyServe, HandBack, Next, CallerStep, vars
<1>5. CASE UNCHANGED allVars
  BY <1>5 DEF allVars, vars
<1> QED
  BY <1>1, <1>2, <1>3, <1>4, <1>5 DEF AppNext, NsCode, PyCode

(* The learning loop is a client program of the lock: what is proved of    *)
(* ShmLock holds of it.                                                    *)
THEOREM LoopUsesLock == AppSpec => Spec
<1>1. AppInit => Init
  BY DEF AppInit
<1> QED
  BY <1>1, LockStep, PTL DEF AppSpec, Spec

(* The payload of the learning loop has one user at a time.                *)
THEOREM LoopExcludes == AppSpec => []MutualExclusion
BY LoopUsesLock, LockExcludes, KeepsDiscipline, PTL

----------------------------------------------------------------------------
(* What an MROENV method writes is a well-formed observation.              *)
LEMMA SetterTyped ==
  ASSUME NEW e \in Env, NEW call \in Calls
  PROVE  SetterFields(e, call) \in Env
<1>1. call.pos \in 0 .. MaxEvents /\ call.ue \in UEs /\ call.op \in Ops
  BY EventsBound DEF Calls
<1> QED
  BY <1>1 DEF SetterFields, Env, Ops, Reads

(* What the agent writes is well formed.                                   *)
LEMMA AgentTyped ==
  ASSUME env \in Env, act \in Act
  PROVE  Decide \in Act /\ ClearFlags \in Env
<1>1. RequestOf(env) \in Request
  BY DEF RequestOf, Env, Request
<1>2. Decide \in Act
  BY <1>1 DEF Decide, Act
<1>3. (env.packetRxFlag /\ ~Logging) \in BOOLEAN
      /\ (env.hoEnded /\ (~Learning \/ LearnFails)) \in BOOLEAN
  OBVIOUS
<1>4. ClearFlags \in Env
  BY <1>3 DEF ClearFlags, Env
<1> QED
  BY <1>2, <1>4

(* The calls of a handler are well formed.                                 *)
LEMMA CallsTyped ==
  ASSUME NEW u \in UEs, NEW op \in Ops, events \in 0 .. MaxEvents, events < MaxEvents
  PROVE  Call(op, u) \in Calls
BY EventsBound DEF Call, Calls

(* So are those of the A3 evaluation of one neighbour.                     *)
LEMMA A3CallsTyped ==
  ASSUME NEW u \in UEs, NEW starts \in BOOLEAN, events \in 0 .. MaxEvents, events < MaxEvents
  PROVE  A3Calls(u, starts) \in Seq(Calls)
<1>1. {"loadIds", "tableRead2", "tableRead", "hoStarted"} \subseteq Ops
  BY DEF Ops
<1>2. /\ Call("loadIds", u) \in Calls
      /\ Call("tableRead2", u) \in Calls
      /\ Call("tableRead", u) \in Calls
      /\ Call("hoStarted", u) \in Calls
  BY <1>1, CallsTyped
<1>3. <<Call("tableRead", u), Call("hoStarted", u)>> \in Seq(Calls)
  BY <1>2
<1>4. /\ <<Call("loadIds", u)>> \in Seq(Calls)
      /\ <<Call("tableRead2", u)>> \in Seq(Calls)
      /\ <<>> \in Seq(Calls)
  BY <1>2
<1> QED
  BY <1>3, <1>4 DEF A3Calls

----------------------------------------------------------------------------
(* The invariant of the loop.  The lock's part is the lock's theorem.      *)
LEMMA InitLoopInv == AppInit => LoopInv
<1> SUFFICES ASSUME AppInit PROVE LoopInv
  OBVIOUS
<1>1. IInv
  BY InitIInv DEF AppInit
<1>2. PayloadOK
  <2>1. env \in Env
    BY EventsBound DEF AppInit, Env
  <2>2. act \in Act
    BY EventsBound DEF AppInit, Act, Request, NoRequest
  <2> QED
    BY <2>1, <2>2, EventsBound DEF AppInit, PayloadOK
<1>3. CallUnderway
  BY TwoProcesses DEF AppInit, Init, CallUnderway
<1> QED
  BY <1>1, <1>2, <1>3 DEF LoopInv

(* Every step leaves the payload and the calls well formed.                *)
LEMMA StepPayload ==
  ASSUME LoopInv, [AppNext]_allVars
  PROVE  PayloadOK'
<1> USE DEF LoopInv, PayloadOK
<1>1. ASSUME NEW calls \in Seq(Calls), StartHandler(calls) PROVE PayloadOK'
  BY <1>1, EventsBound DEF StartHandler
<1>2. ASSUME NEW u \in UEs, NEW enters \in BOOLEAN, EvaluateA3(u, enters) PROVE PayloadOK'
  <2>1. events < MaxEvents /\ (enters /\ trig[u] # "triggered") \in BOOLEAN
    BY <1>2 DEF EvaluateA3, StartHandler
  <2>2. A3Calls(u, enters /\ trig[u] # "triggered") \in Seq(Calls)
    BY <2>1, A3CallsTyped
  <2> QED
    BY <1>1, <1>2, <2>2 DEF EvaluateA3
<1>3. ASSUME NEW u \in UEs, NEW reporting \in BOOLEAN, ReportTriggered(u, reporting)
      PROVE PayloadOK'
  <2>1. events < MaxEvents /\ "hoEnded" \in Ops
    BY <1>3 DEF ReportTriggered, StartHandler, Ops
  <2>2. Call("hoEnded", u) \in Calls
    BY <2>1, CallsTyped
  <2>3. (IF reporting THEN <<>> ELSE <<Call("hoEnded", u)>>) \in Seq(Calls)
    BY <2>2
  <2> QED
    BY <1>1, <1>3, <2>3 DEF ReportTriggered
<1>4. ASSUME NEW u \in UEs, ReceivePacket(u) PROVE PayloadOK'
  <2>1. events < MaxEvents /\ "passPacketReception" \in Ops
    BY <1>4 DEF ReceivePacket, StartHandler, Ops
  <2>2. <<Call("passPacketReception", u)>> \in Seq(Calls)
    BY <2>1, CallsTyped
  <2> QED
    BY <1>1, <1>4, <2>2 DEF ReceivePacket
<1>5. CASE NsSet
  <2>1. todo # <<>>
    BY <1>5 DEF CallUnderway, NsSet
  <2>2. Head(todo) \in Calls /\ Tail(todo) \in Seq(Calls)
    BY <2>1
  <2>3. env' \in Env
    BY <1>5, <2>2, SetterTyped DEF NsSet
  <2> QED
    BY <1>5, <2>2, <2>3 DEF NsSet
<1>6. CASE NsGet
  <2>1. todo # <<>>
    BY <1>6 DEF CallUnderway, NsGet
  <2> QED
    BY <1>6, <2>1 DEF NsGet
<1>7. CASE PyServe
  BY <1>7, AgentTyped DEF PyServe
<1>8. CASE SetFinish \/ NsCrash \/ PyKill \/ NsAcquire \/ NsPool \/ PyLoop \/ PyGiveUp \/ PyPool
  BY <1>8 DEF SetFinish, NsCrash, PyKill, NsAcquire, NsPool, PyLoop, PyGiveUp, PyPool, appVars
<1>9. CASE UNCHANGED allVars
  BY <1>9 DEF allVars, appVars
<1>10. ASSUME NEW u \in UEs, ReportsForgotten(u) PROVE PayloadOK'
  BY <1>10 DEF ReportsForgotten
<1> QED
  BY <1>2, <1>3, <1>4, <1>5, <1>6, <1>7, <1>8, <1>9, <1>10
  DEF AppNext, Handler, NsCode, PyCode

(* A step of the agent on the lock leaves ns-3 where it is.                *)
LEMMA AgentKeepsPlace ==
  ASSUME TypeOK, PoolStep(py) \/ CallerStep(py)
  PROVE  pc'[ns3] = pc[ns3]
BY TwoProcesses
DEF TypeOK, PoolStep, CallerStep, StartAcquire, PassCondition, EnterCasLoop, Abandon,
    ReadExpected, ReadDesired, CasIn, CasAcquire, CasRelease, CasRollback, StartRelease,
    StartRollback, Goto

(* Inside the pool functions ns-3 goes from "await" to "held" and from a   *)
(* release to "idle": it never starts a call of its own.                   *)
LEMMA PoolKeepsCall ==
  ASSUME TypeOK, PoolStep(ns3),
         pc'[ns3] \in {"await", "passed", "acquire", "held"}
  PROVE  pc[ns3] \in {"await", "passed", "acquire", "held"}
BY TwoProcesses
DEF TypeOK, PoolStep, PassCondition, EnterCasLoop, ReadExpected, ReadDesired, CasIn,
    CasAcquire, CasRelease, CasRollback, Goto, AfterFailure, CasLoops

(* Inside a pool function ns-3 has a call to make, in every next state too.*)
LEMMA StepCall ==
  ASSUME LoopInv, [AppNext]_allVars
  PROVE  CallUnderway'
<1> USE DEF LoopInv, CallUnderway
<1>0. TypeOK /\ ns3 \in Clients /\ py \in Clients /\ ns3 # py
  BY TwoProcesses DEF IInv
<1>1. CASE Handler
  BY <1>1 DEF Handler, EvaluateA3, ReportTriggered, ReportsForgotten, ReceivePacket,
              StartHandler, vars
<1>2. CASE SetFinish \/ NsCrash \/ PyKill
  <2>1. CASE SetFinish
    BY <2>1 DEF SetFinish, vars
  <2>2. CASE NsCrash
    BY <2>2 DEF NsCrash, vars
  <2>3. CASE PyKill
    BY <2>3 DEF PyKill, vars
  <2> QED
    BY <1>2, <2>1, <2>2, <2>3
<1>3. CASE NsAcquire
  BY <1>0, <1>3 DEF NsAcquire, appVars
<1>4. CASE NsSet
  <2>1. pc'[ns3] = "release"
    BY <1>0, <1>4 DEF NsSet, StartRelease, Goto, TypeOK
  <2>2. todo # <<>>
    BY <1>4 DEF NsSet
  <2> QED
    BY <1>4, <2>1, <2>2 DEF NsSet
<1>5. CASE NsGet
  <2>1. pc'[ns3] = "rollback"
    BY <1>0, <1>5 DEF NsGet, StartRollback, Goto, TypeOK
  <2> QED
    BY <1>5, <2>1 DEF NsGet
<1>6. CASE NsPool
  BY <1>0, <1>6, PoolKeepsCall DEF NsPool, appVars
<1>7. CASE PyLoop \/ PyGiveUp \/ PyPool \/ PyServe
  <2>1. pc'[ns3] = pc[ns3]
    BY <1>0, <1>7, AgentKeepsPlace
    DEF PyLoop, PyGiveUp, PyPool, PyServe, HandBack, CallerStep, vars
  <2> QED
    BY <1>7, <2>1 DEF PyLoop, PyGiveUp, PyPool, PyServe, appVars
<1>8. CASE UNCHANGED allVars
  BY <1>8 DEF allVars, appVars, vars
<1> QED
  BY <1>1, <1>2, <1>3, <1>4, <1>5, <1>6, <1>7, <1>8 DEF AppNext, NsCode, PyCode

(* The invariant is inductive.                                             *)
THEOREM LoopInvariance == AppSpec => []LoopInv
<1>1. LoopInv /\ [AppNext]_allVars => LoopInv'
  <2> SUFFICES ASSUME LoopInv, [AppNext]_allVars PROVE LoopInv'
    OBVIOUS
  <2>1. IInv'
    BY LockStep, StepIInv, KeepsDiscipline DEF LoopInv
  <2> QED
    BY <2>1, StepPayload, StepCall DEF LoopInv
<1> QED
  BY <1>1, InitLoopInv, PTL DEF AppSpec

----------------------------------------------------------------------------
(* The turn of Rendezvous stands still in every step of the lock but the   *)
(* start of a release: the compare-and-swap that ends the release moves    *)
(* the version to the other process, to which the turn had passed already. *)
LEMMA ReleaseKeepsTurn ==
  ASSUME IInv, NEW c \in Clients, CasRelease(c)
  PROVE  TurnBar' = TurnBar
<1>0. ns3 # py /\ Clients = {ns3, py}
  BY TwoProcesses
<1>1. /\ pc[c] = "release" /\ version \in Word /\ nextVersion = Inc(version)
      /\ version \in Turn[c]
      /\ expected[c] = Dec(nextVersion) /\ desired[c] = nextVersion
  BY DEF CasRelease, CasIn, IInv, TypeOK, BusyWhenHeld, Holding, EngagedInTurn, Engaged,
         ArgsCurrent, CasLoops, ExpectedArg, DesiredArg
<1>2. expected[c] = version
  BY <1>1, WordArithmetic
<1>3. version' = Inc(version) /\ pc' = [pc EXCEPT ![c] = "idle"]
  BY <1>1, <1>2 DEF CasRelease, Swap, Swapped, Goto
<1>4. \A d \in Clients \ {c} : pc[d] # "release"
  BY <1>1 DEF IInv, MutualExclusion, Holding
<1>5. CASE c = ns3
  <2>1. Inc(version) \in Turn[py] /\ Inc(version) \notin Turn[ns3]
    BY <1>1, <1>5, TurnsAlternate
  <2>2. pc'[py] # "release"
    BY <1>0, <1>3, <1>4, <1>5 DEF IInv, TypeOK
  <2> QED
    BY <1>1, <1>3, <1>5, <2>1, <2>2 DEF TurnBar
<1>6. CASE c = py
  <2>1. Inc(version) \in Turn[ns3] /\ Inc(version) \notin Turn[py] /\ version \notin Turn[ns3]
    BY <1>1, <1>6, TurnsAlternate
  <2>2. pc'[ns3] # "release"
    BY <1>0, <1>3, <1>4, <1>6 DEF IInv, TypeOK
  <2> QED
    BY <1>1, <1>3, <1>6, <2>1, <2>2 DEF TurnBar
<1> QED
  BY <1>0, <1>5, <1>6

(* No step inside the pool functions moves the abstract turn.              *)
LEMMA PoolKeepsTurn ==
  ASSUME IInv, NEW c \in Clients,
         PoolStep(c) \/ StartAcquire(c) \/ Abandon(c) \/ StartRollback(c)
  PROVE  TurnBar' = TurnBar
<1>1. CASE CasRelease(c)
  BY <1>1, ReleaseKeepsTurn
<1>2. CASE ~CasRelease(c)
  <2>1. version' = version
    BY <1>2 DEF PoolStep, StartAcquire, Abandon, StartRollback, PassCondition, EnterCasLoop,
                ReadExpected, ReadDesired, CasAcquire, CasRollback
  <2>2. CASE CasRollback(c)
    <3>1. pc[c] = "rollback" /\ pc' \in {[pc EXCEPT ![c] = "idle"], [pc EXCEPT ![c] = "error"],
                                       [pc EXCEPT ![c] = "rollback"]}
      BY <2>2 DEF CasRollback, CasIn, Goto, AfterFailure
    <3> QED
      BY <2>1, <3>1, TwoProcesses DEF TurnBar, IInv, TypeOK
  <2>3. CASE ~CasRollback(c)
    <3>1. \/ pc' = pc
          \/ /\ pc[c] # "release"
             /\ pc' \in {[pc EXCEPT ![c] = p] : p \in Places \ {"release"}}
      BY <1>2, <2>3
      DEF PoolStep, StartAcquire, Abandon, StartRollback, PassCondition, EnterCasLoop,
          ReadExpected, ReadDesired, CasAcquire, CasIn, Goto, Places, CasLoops
    <3> QED
      BY <2>1, <3>1, TwoProcesses DEF TurnBar, IInv, TypeOK
  <2> QED
    BY <2>2, <2>3
<1> QED
  BY <1>1, <1>2

(* NsSet hands the turn to the agent.                                      *)
LEMMA SetPosts ==
  ASSUME LoopInv, PayloadOK', NsSet
  PROVE  R!Post
<1>0. /\ ns3 \in Clients /\ py \in Clients /\ ns3 # py /\ pc[ns3] = "held"
      /\ pc' = [pc EXCEPT ![ns3] = "release"] /\ version' = version
  BY TwoProcesses DEF NsSet, StartRelease, Goto
<1>1. version \in Turn[ns3] /\ version \notin Turn[py]
  BY <1>0, TurnsAlternate DEF LoopInv, IInv, EngagedInTurn, Engaged, Holding
<1>2. TurnBar = "sim"
  BY <1>0, <1>1 DEF TurnBar
<1>3. TurnBar' = "agent"
  BY <1>0, <1>1 DEF TurnBar, LoopInv, IInv, TypeOK
<1> QED
  BY <1>2, <1>3 DEF R!Post, NsSet, LoopInv, CallUnderway, PayloadOK

(* PyServe hands it back.                                                  *)
LEMMA ServeServes ==
  ASSUME LoopInv, PayloadOK', PyServe
  PROVE  R!Serve
<1>0. /\ ns3 \in Clients /\ py \in Clients /\ ns3 # py /\ pc[py] = "held"
      /\ pc' = [pc EXCEPT ![py] = "release"] /\ version' = version
  BY TwoProcesses DEF PyServe, HandBack, StartRelease, Goto
<1>1. version \in Turn[py] /\ version \notin Turn[ns3]
  BY <1>0, TurnsAlternate DEF LoopInv, IInv, EngagedInTurn, Engaged, Holding
<1>2. TurnBar = "agent"
  BY <1>0, <1>1 DEF TurnBar
<1>3. TurnBar' = "sim"
  BY <1>0, <1>1 DEF TurnBar, LoopInv, IInv, TypeOK
<1> QED
  BY <1>2, <1>3 DEF R!Serve, PyServe, PayloadOK

(* Every step of the loop is a step of the rendezvous or a stutter.        *)
LEMMA StepRendezvous ==
  ASSUME LoopInv, LoopInv', [AppNext]_allVars
  PROVE  [R!Next]_(R!vars)
<1>0. ns3 \in Clients /\ py \in Clients /\ IInv
  BY TwoProcesses DEF LoopInv
<1>1. CASE Handler
  BY <1>1 DEF Handler, EvaluateA3, ReportTriggered, ReportsForgotten, ReceivePacket,
              StartHandler, vars, TurnBar, R!vars
<1>2. CASE SetFinish
  <2>1. TurnBar' = TurnBar
    BY <1>2 DEF SetFinish, vars, TurnBar
  <2>2. R!Finish
    BY <1>2, <2>1 DEF SetFinish, R!Finish, LoopInv, CallUnderway
  <2> QED
    BY <2>2 DEF R!Next
<1>3. CASE NsCrash \/ PyKill
  BY <1>3 DEF NsCrash, PyKill, vars, TurnBar, R!vars
<1>4. CASE NsSet
  BY <1>4, SetPosts DEF LoopInv, R!Next
<1>5. CASE PyServe
  BY <1>5, ServeServes DEF LoopInv, R!Next
<1>6. CASE NsAcquire \/ NsGet \/ NsPool
  <2>1. TurnBar' = TurnBar
    BY <1>0, <1>6, PoolKeepsTurn DEF NsAcquire, NsGet, NsPool
  <2> QED
    BY <1>6, <2>1 DEF NsAcquire, NsGet, NsPool, appVars, R!vars
<1>7. CASE PyLoop \/ PyGiveUp \/ PyPool
  <2>1. TurnBar' = TurnBar
    <3>1. CASE UNCHANGED vars
      BY <3>1 DEF TurnBar, vars
    <3>2. CASE ~UNCHANGED vars
      BY <1>0, <1>7, <3>2, PoolKeepsTurn DEF PyLoop, PyGiveUp, PyPool
    <3> QED
      BY <3>1, <3>2
  <2> QED
    BY <1>7, <2>1 DEF PyLoop, PyGiveUp, PyPool, appVars, R!vars
<1>8. CASE UNCHANGED allVars
  BY <1>8 DEF allVars, appVars, vars, TurnBar, R!vars
<1> QED
  BY <1>1, <1>2, <1>3, <1>4, <1>5, <1>6, <1>7, <1>8 DEF AppNext, NsCode, PyCode

(* MROENV and the agent take turns on the payload: each observation is     *)
(* served before the next one is posted, whatever the interleaving of the  *)
(* two processes' accesses to the shared counters.                         *)
THEOREM LoopTakesTurns == AppSpec => ImplementsRendezvous
<1>1. AppInit => R!Init
  <2> SUFFICES ASSUME AppInit PROVE R!Init
    OBVIOUS
  <2>1. TurnBar = "sim"
    BY TwoProcesses, TurnsAlternate DEF AppInit, Init, TurnBar
  <2>2. env \in Env /\ act \in Act
    BY InitLoopInv DEF LoopInv, PayloadOK
  <2> QED
    BY <2>1, <2>2 DEF AppInit, R!Init
<1>2. LoopInv /\ LoopInv' /\ [AppNext]_allVars => [R!Next]_(R!vars)
  BY StepRendezvous
<1> QED
  BY <1>1, <1>2, LoopInvariance, PTL DEF AppSpec, ImplementsRendezvous, R!Spec

----------------------------------------------------------------------------
(* What the calls get for an answer.  The abstract turn decides who may    *)
(* change the block, so the invariant relates the block to the turn.       *)
(* A handler makes all its calls for one UE.                               *)
CallsOfOneUe == \A i, j \in 1 .. Len(todo) : todo[i].ue = todo[j].ue

(* With mroExp, the block names the UE of a table read, unless a loadIds   *)
(* is still to come before it.                                             *)
IdsLoaded ==
  mroExp /\ todo # <<>> /\ todo[1].op # "loadIds" =>
    \A i \in 1 .. Len(todo) : todo[i].op \in Reads => env.imsi = todo[i].ue

(* A table read that has posted finds its own position in the block.       *)
RequestPosted == getting => todo[1].op \in Reads /\ env.pos = todo[1].pos

(* While the turn is ns-3's, the agent's answer belongs to what the block  *)
(* holds.                                                                  *)
AnswerStands ==
  TurnBar = "sim" =>
    /\ served = RequestOf(env)
    /\ \A op \in Reads : Decides(op) => Answer(op) = RequestOf(env)

(* The packet flag is up exactly while the agent owes the log one packet.  *)
PacketOwed ==
  runMode = "DQN" =>
    IF env.packetRxFlag
      THEN TurnBar = "agent" /\ posted = Append(recorded, env.pkt)
      ELSE posted = recorded

ProtocolInv == CallsOfOneUe /\ IdsLoaded /\ RequestPosted /\ AnswerStands /\ PacketOwed
----------------------------------------------------------------------------
(* Only the two writes move the turn.                                      *)
LEMMA TurnMoves ==
  ASSUME LoopInv, LoopInv', [AppNext]_allVars
  PROVE  /\ NsSet => TurnBar = "sim" /\ TurnBar' = "agent"
         /\ PyServe => TurnBar = "agent" /\ TurnBar' = "sim"
         /\ ~NsSet /\ ~PyServe => TurnBar' = TurnBar
<1>0. ns3 \in Clients /\ py \in Clients /\ IInv
  BY TwoProcesses DEF LoopInv
<1>1. NsSet => TurnBar = "sim" /\ TurnBar' = "agent"
  BY SetPosts DEF LoopInv, R!Post
<1>2. PyServe => TurnBar = "agent" /\ TurnBar' = "sim"
  BY ServeServes DEF LoopInv, R!Serve
<1>3. UNCHANGED vars => TurnBar' = TurnBar
  BY DEF TurnBar, vars
<1>4. CASE ~UNCHANGED vars /\ ~NsSet /\ ~PyServe
  <2>1. CASE NsAcquire \/ NsGet \/ NsPool
    BY <1>0, <1>4, <2>1, PoolKeepsTurn DEF NsAcquire, NsGet, NsPool
  <2>2. CASE PyLoop \/ PyGiveUp \/ PyPool
    BY <1>0, <1>4, <2>2, PoolKeepsTurn DEF PyLoop, PyGiveUp, PyPool
  <2>3. ~Handler /\ ~SetFinish /\ ~NsCrash /\ ~PyKill /\ ~UNCHANGED allVars
    BY <1>4 DEF Handler, EvaluateA3, ReportTriggered, ReportsForgotten, ReceivePacket,
                StartHandler, SetFinish, NsCrash, PyKill, vars, allVars
  <2> QED
    BY <1>4, <2>1, <2>2, <2>3 DEF AppNext, NsCode, PyCode
<1> QED
  BY <1>1, <1>2, <1>3, <1>4

(* ns-3 reads an answer only in its own turn.                              *)
LEMMA HeldInTurn ==
  ASSUME LoopInv, pc[ns3] = "held"
  PROVE  TurnBar = "sim"
<1>1. ns3 \in Clients /\ version \in Turn[ns3]
  BY TwoProcesses DEF LoopInv, IInv, EngagedInTurn, Engaged, Holding
<1> QED
  BY <1>1, TurnsAlternate DEF TurnBar

(* What an MROENV method leaves of the block, field by field.              *)
LEMMA SetterWrites ==
  ASSUME NEW e \in Env, NEW call \in Calls
  PROVE  LET f == SetterFields(e, call) IN
         /\ f.pos = IF call.op \in Reads THEN call.pos ELSE e.pos
         /\ f.imsi = IF call.op = "loadIds" THEN call.ue ELSE e.imsi
         /\ f.pkt = IF call.op = "passPacketReception" THEN call.pos ELSE e.pkt
         /\ f.packetRxFlag = (call.op = "passPacketReception" \/ e.packetRxFlag)
<1>1. call.op \in Ops
  BY DEF Calls
<1>2. e.packetRxFlag \in BOOLEAN
  BY DEF Env
<1> QED
  BY <1>1, <1>2 DEF SetterFields, Env, Ops, Reads

(* The calls of UE u.                                                      *)
CallsOf(u) == [op : Ops, ue : {u}, pos : Nat]

(* A sequence in front of another begins the whole.                        *)
LEMMA ConcatFirst ==
  ASSUME NEW S, NEW s \in Seq(S), NEW t \in Seq(S), Len(s) >= 1
  PROVE  s \o t \in Seq(S) /\ (s \o t)[1] = s[1] /\ Len(s \o t) >= 1
<1>1. Len(s) \in Nat /\ Len(t) \in Nat
  OBVIOUS
<1>2. Len(s \o t) = Len(s) + Len(t)
  OBVIOUS
<1>3. 1 \in 1 .. Len(s) + Len(t) /\ 1 <= Len(s)
  BY <1>1
<1> QED
  BY <1>1, <1>2, <1>3

(* The A3 evaluation of one neighbour calls for its UE only, and begins    *)
(* with loadIds if there is an agent to act on the answer.                 *)
LEMMA A3CallsOneUe ==
  ASSUME NEW u \in UEs, NEW starts \in BOOLEAN, events \in 0 .. MaxEvents
  PROVE  /\ A3Calls(u, starts) \in Seq(CallsOf(u))
         /\ mroExp => A3Calls(u, starts)[1].op = "loadIds"
<1>1. \A op \in Ops : Call(op, u) \in CallsOf(u) /\ Call(op, u).op = op
  BY EventsBound DEF Call, CallsOf
<1>2. {"loadIds", "tableRead2", "tableRead", "hoStarted"} \subseteq Ops
  BY DEF Ops
<1> DEFINE first == IF mroExp THEN <<Call("loadIds", u)>> ELSE <<>>
           rest == IF mroExp /\ starts THEN <<Call("tableRead", u), Call("hoStarted", u)>>
                   ELSE <<>>
<1>3. first \in Seq(CallsOf(u)) /\ <<Call("tableRead2", u)>> \in Seq(CallsOf(u))
  BY <1>1, <1>2
<1>4. rest \in Seq(CallsOf(u))
  BY <1>1, <1>2
<1>5. A3Calls(u, starts) = first \o <<Call("tableRead2", u)>> \o rest
  BY DEF A3Calls
<1>6. mroExp => Len(first) = 1 /\ first[1] = Call("loadIds", u)
  OBVIOUS
<1> HIDE DEF first, rest
<1>7. mroExp => A3Calls(u, starts)[1] = first[1]
  <2> SUFFICES ASSUME mroExp PROVE A3Calls(u, starts)[1] = first[1]
    OBVIOUS
  <2> DEFINE two == first \o <<Call("tableRead2", u)>>
  <2>1. two \in Seq(CallsOf(u)) /\ Len(two) >= 1 /\ two[1] = first[1]
    BY <1>3, <1>6, ConcatFirst
  <2>2. A3Calls(u, starts) = two \o rest
    BY <1>5
  <2> HIDE DEF two
  <2> QED
    BY <1>4, <2>1, <2>2, ConcatFirst
<1> QED
  BY <1>1, <1>2, <1>3, <1>4, <1>5, <1>6, <1>7

----------------------------------------------------------------------------
(* The invariant holds at the start.                                       *)
LEMMA InitProtocol == AppInit => ProtocolInv
BY DEF AppInit, ProtocolInv, CallsOfOneUe, IdsLoaded, RequestPosted, AnswerStands, PacketOwed,
       RequestOf, NoRequest, Decides, Answer, Acting

(* A handler that starts brings the calls of one UE, its ids first; the    *)
(* block stays as it is.                                                   *)
LEMMA HandlerProtocol ==
  ASSUME LoopInv, ProtocolInv, TurnBar' = TurnBar,
         NEW u \in UEs, NEW calls \in Seq(CallsOf(u)), StartHandler(calls),
         mroExp /\ calls # <<>> /\ calls[1].op # "loadIds" =>
           \A i \in 1 .. Len(calls) : calls[i].op \notin Reads
  PROVE  ProtocolInv'
<1>1. /\ todo' = calls /\ ~getting' /\ env' = env /\ act' = act /\ runMode' = runMode
      /\ served' = served /\ posted' = posted /\ recorded' = recorded
  BY DEF StartHandler, LoopInv, CallUnderway
<1>2. CallsOfOneUe'
  <2>1. \A i \in 1 .. Len(calls) : calls[i] \in CallsOf(u)
    OBVIOUS
  <2>2. \A call \in CallsOf(u) : call.ue = u
    BY DEF CallsOf
  <2> QED
    BY <1>1, <2>1, <2>2 DEF CallsOfOneUe
<1>3. IdsLoaded'
  BY <1>1 DEF IdsLoaded, mroExp
<1>4. RequestPosted' /\ AnswerStands' /\ PacketOwed'
  BY <1>1 DEF ProtocolInv, RequestPosted, AnswerStands, PacketOwed, RequestOf, Decides, Answer, Acting
<1> QED
  BY <1>2, <1>3, <1>4 DEF ProtocolInv

(* The calls that remain are still those of one UE.                        *)
LEMMA TailOneUe ==
  ASSUME CallsOfOneUe, todo \in Seq(Calls), todo # <<>>, todo' = Tail(todo)
  PROVE  CallsOfOneUe'
BY DEF CallsOfOneUe

(* So do the ids they need.                                                *)
LEMMA TailIdsLoaded ==
  ASSUME CallsOfOneUe, IdsLoaded, todo \in Seq(Calls), todo # <<>>, todo' = Tail(todo),
         runMode' = runMode,
         env'.imsi = IF todo[1].op = "loadIds" THEN todo[1].ue ELSE env.imsi
  PROVE  IdsLoaded'
<1> SUFFICES ASSUME mroExp', NEW i \in 1 .. Len(todo'), todo'[i].op \in Reads
             PROVE  env'.imsi = todo'[i].ue
  BY DEF IdsLoaded
<1>1. i + 1 \in 1 .. Len(todo) /\ 1 \in 1 .. Len(todo) /\ todo'[i] = todo[i + 1]
  OBVIOUS
<1>2. CASE todo[1].op = "loadIds"
  BY <1>1, <1>2 DEF CallsOfOneUe
<1>3. CASE todo[1].op # "loadIds"
  BY <1>1, <1>3 DEF IdsLoaded, mroExp
<1> QED
  BY <1>2, <1>3

(* A method that writes the block.                                         *)
LEMMA SetProtocol ==
  ASSUME LoopInv, ProtocolInv, NsSet, TurnBar = "sim", TurnBar' = "agent"
  PROVE  ProtocolInv'
<1> DEFINE call == Head(todo)
<1>1. todo # <<>> /\ todo \in Seq(Calls) /\ env \in Env
  BY DEF LoopInv, PayloadOK, CallUnderway, NsSet
<1>2. call \in Calls /\ call = todo[1] /\ 1 \in 1 .. Len(todo)
  BY <1>1
<1>3. /\ env' = SetterFields(env, call) /\ runMode' = runMode /\ recorded' = recorded
      /\ getting' = (call.op \in Reads)
      /\ todo' = IF call.op \in Reads THEN todo ELSE Tail(todo)
      /\ posted' = IF call.op = "passPacketReception" THEN Append(posted, call.pos) ELSE posted
  BY DEF NsSet
<1> HIDE DEF call
<1>4. /\ env'.pos = IF call.op \in Reads THEN call.pos ELSE env.pos
      /\ env'.imsi = IF call.op = "loadIds" THEN call.ue ELSE env.imsi
      /\ env'.pkt = IF call.op = "passPacketReception" THEN call.pos ELSE env.pkt
      /\ env'.packetRxFlag = (call.op = "passPacketReception" \/ env.packetRxFlag)
  BY <1>1, <1>2, <1>3, SetterWrites
<1>5. CallsOfOneUe'
  <2>1. CASE call.op \in Reads
    BY <1>3, <2>1 DEF ProtocolInv, CallsOfOneUe
  <2>2. CASE call.op \notin Reads
    BY <1>1, <1>3, <2>2, TailOneUe DEF ProtocolInv
  <2> QED
    BY <2>1, <2>2
<1>6. IdsLoaded'
  <2>1. CASE call.op \in Reads
    <3>1. todo' = todo /\ env'.imsi = env.imsi
      BY <1>3, <1>4, <2>1 DEF Reads
    <3> QED
      BY <1>3, <3>1 DEF ProtocolInv, IdsLoaded, mroExp
  <2>2. CASE call.op \notin Reads
    BY <1>1, <1>2, <1>3, <1>4, <2>2, TailIdsLoaded DEF ProtocolInv
  <2> QED
    BY <2>1, <2>2
<1>7. RequestPosted'
  BY <1>2, <1>3, <1>4 DEF RequestPosted
<1>8. AnswerStands'
  BY DEF AnswerStands
<1>9. PacketOwed'
  <2> SUFFICES ASSUME runMode = "DQN"
               PROVE  IF env'.packetRxFlag
                        THEN posted' = Append(recorded, env'.pkt)
                        ELSE posted' = recorded
    BY <1>3 DEF PacketOwed
  <2>1. ~env.packetRxFlag /\ posted = recorded
    BY DEF ProtocolInv, PacketOwed
  <2> QED
    BY <1>3, <1>4, <2>1
<1> QED
  BY <1>5, <1>6, <1>7, <1>8, <1>9 DEF ProtocolInv

(* A table read that takes its answer.                                     *)
LEMMA GetProtocol ==
  ASSUME LoopInv, ProtocolInv, NsGet, TurnBar' = TurnBar
  PROVE  ProtocolInv'
<1>1. todo # <<>> /\ todo \in Seq(Calls)
  BY DEF LoopInv, PayloadOK, CallUnderway, NsGet
<1>2. /\ todo' = Tail(todo) /\ ~getting' /\ env' = env /\ act' = act /\ runMode' = runMode
      /\ served' = served /\ posted' = posted /\ recorded' = recorded
  BY DEF NsGet
<1>3. todo[1].op # "loadIds"
  BY DEF ProtocolInv, RequestPosted, NsGet, Reads
<1>4. CallsOfOneUe' /\ IdsLoaded'
  BY <1>1, <1>2, <1>3, TailOneUe, TailIdsLoaded DEF ProtocolInv
<1>5. RequestPosted' /\ AnswerStands' /\ PacketOwed'
  BY <1>2 DEF ProtocolInv, RequestPosted, AnswerStands, PacketOwed, RequestOf, Decides, Answer, Acting
<1> QED
  BY <1>4, <1>5 DEF ProtocolInv

(* The agent serves the block.                                             *)
LEMMA ServeProtocol ==
  ASSUME LoopInv, ProtocolInv, PyServe, TurnBar = "agent", TurnBar' = "sim"
  PROVE  ProtocolInv'
<1>1. /\ served' = RequestOf(env) /\ act' = Decide /\ env' = ClearFlags
      /\ recorded' = IF Logging THEN Append(recorded, env.pkt) ELSE recorded
      /\ todo' = todo /\ getting' = getting /\ posted' = posted /\ runMode' = runMode
  BY DEF PyServe
<1>2. env \in Env /\ act \in Act
  BY DEF LoopInv, PayloadOK
<1>3. /\ env'.pos = env.pos /\ env'.imsi = env.imsi /\ env'.pkt = env.pkt
      /\ env'.hoInProgress = env.hoInProgress
      /\ env'.packetRxFlag = (env.packetRxFlag /\ ~Logging)
  BY <1>1, <1>2 DEF ClearFlags, Env
<1>4. RequestOf(env)' = RequestOf(env)
  BY <1>3 DEF RequestOf
<1>5. CallsOfOneUe' /\ IdsLoaded' /\ RequestPosted'
  BY <1>1, <1>3 DEF ProtocolInv, CallsOfOneUe, IdsLoaded, RequestPosted, mroExp
<1>6. AnswerStands'
  <2> SUFFICES ASSUME NEW op \in Reads, Decides(op)' PROVE Answer(op)' = RequestOf(env)
    BY <1>1, <1>4 DEF AnswerStands
  <2>1. Decides(op)
    BY <1>1, <1>3 DEF Decides, Acting
  <2>2. Decide \in Act /\ (op = "tableRead" => Decide.ttt = RequestOf(env))
                      /\ (Acting => Decide.hyst = RequestOf(env))
    BY <1>2, <2>1 DEF Decides, Decide, Act, Acting, RequestOf, Request, Env
  <2> QED
    BY <1>1, <2>1, <2>2 DEF Answer, Decides, Reads
<1>7. PacketOwed'
  <2> SUFFICES ASSUME runMode = "DQN" PROVE ~env'.packetRxFlag /\ posted' = recorded'
    BY <1>1 DEF PacketOwed
  <2>1. Logging = env.packetRxFlag
    BY <1>2 DEF Logging, Env
  <2> QED
    BY <1>1, <1>3, <2>1 DEF ProtocolInv, PacketOwed
<1> QED
  BY <1>5, <1>6, <1>7 DEF ProtocolInv

(* Every step keeps the invariant.                                         *)
LEMMA StepProtocol ==
  ASSUME LoopInv, LoopInv', ProtocolInv, [AppNext]_allVars
  PROVE  ProtocolInv'
<1>0. events \in 0 .. MaxEvents
  BY DEF LoopInv, PayloadOK
<1>1. CASE NsSet
  BY <1>1, TurnMoves, SetProtocol
<1>2. CASE PyServe
  BY <1>2, TurnMoves, ServeProtocol
<1>3. CASE ~NsSet /\ ~PyServe
  <2>0. TurnBar' = TurnBar
    BY <1>3, TurnMoves
  <2>1. ASSUME NEW u \in UEs, NEW enters \in BOOLEAN, EvaluateA3(u, enters)
        PROVE  ProtocolInv'
    <3> DEFINE starts == enters /\ trig[u] # "triggered"
    <3>1. starts \in BOOLEAN /\ StartHandler(A3Calls(u, starts))
      BY <2>1 DEF EvaluateA3
    <3> HIDE DEF starts
    <3> QED
      BY <1>0, <2>0, <3>1, A3CallsOneUe, HandlerProtocol
  <2>2. ASSUME NEW u \in UEs, NEW calls \in {<<>>, <<Call("hoEnded", u)>>,
                                             <<Call("passPacketReception", u)>>},
               StartHandler(calls)
        PROVE  ProtocolInv'
    <3>1. \A op \in {"hoEnded", "passPacketReception"} :
            Call(op, u) \in CallsOf(u) /\ Call(op, u).op \notin Reads
      BY <1>0, EventsBound DEF Call, CallsOf, Ops, Reads
    <3>2. calls \in Seq(CallsOf(u))
      <4>1. /\ <<>> \in Seq(CallsOf(u)) /\ <<Call("hoEnded", u)>> \in Seq(CallsOf(u))
            /\ <<Call("passPacketReception", u)>> \in Seq(CallsOf(u))
        BY <3>1
      <4> QED
        BY <4>1
    <3>3. \A i \in 1 .. Len(calls) : calls[i].op \notin Reads
      <4>1. CASE calls = <<>>
        BY <4>1
      <4>2. ASSUME NEW op \in {"hoEnded", "passPacketReception"}, calls = <<Call(op, u)>>
            PROVE  \A i \in 1 .. Len(calls) : calls[i] = Call(op, u)
        BY <4>2
      <4> QED
        BY <3>1, <4>1, <4>2
    <3> QED
      BY <2>0, <2>2, <3>2, <3>3, HandlerProtocol
  <2>3. CASE NsGet
    BY <2>0, <2>3, GetProtocol
  <2>4. CASE UNCHANGED <<todo, getting, env, act, runMode, served, posted, recorded>>
    BY <2>0, <2>4
    DEF ProtocolInv, CallsOfOneUe, IdsLoaded, RequestPosted, AnswerStands, PacketOwed,
        RequestOf, Decides, Answer, Acting, mroExp
  <2>5. ASSUME NEW u \in UEs, NEW reporting \in BOOLEAN, ReportTriggered(u, reporting)
        PROVE  ProtocolInv'
    BY <2>2, <2>5 DEF ReportTriggered
  <2>6. ASSUME NEW u \in UEs, ReceivePacket(u) PROVE ProtocolInv'
    BY <2>2, <2>6 DEF ReceivePacket
  <2>7. ASSUME NEW u \in UEs, ReportsForgotten(u) PROVE ProtocolInv'
    BY <2>4, <2>7 DEF ReportsForgotten
  <2>8. CASE SetFinish \/ NsCrash \/ PyKill \/ NsAcquire \/ NsPool \/ PyLoop \/ PyGiveUp \/ PyPool
    BY <2>4, <2>8 DEF SetFinish, NsCrash, PyKill, NsAcquire, NsPool, PyLoop, PyGiveUp, PyPool,
                      appVars
  <2>9. CASE UNCHANGED allVars
    BY <2>4, <2>9 DEF allVars, appVars
  <2> QED
    BY <1>3, <2>1, <2>3, <2>5, <2>6, <2>7, <2>8, <2>9
    DEF AppNext, Handler, NsCode, PyCode
<1> QED
  BY <1>1, <1>2, <1>3

(* What the block holds follows the turn, in every reachable state.        *)
THEOREM ProtocolInvariance == AppSpec => []ProtocolInv
<1>1. LoopInv /\ LoopInv' /\ ProtocolInv /\ [AppNext]_allVars => ProtocolInv'
  BY StepProtocol
<1> QED
  BY <1>1, InitProtocol, LoopInvariance, PTL DEF AppSpec

(* A table read never takes the answer to another call: what the agent     *)
(* served last is the observation this call posted.                        *)
THEOREM ReadsGetTheirAnswer == AppSpec => []AnswerFollowsRequest
<1>1. LoopInv /\ ProtocolInv => AnswerFollowsRequest
  <2> SUFFICES ASSUME LoopInv, ProtocolInv, getting, pc[ns3] = "held"
               PROVE  served.pos = Head(todo).pos /\ (mroExp => served.imsi = Head(todo).ue)
    BY DEF AnswerFollowsRequest
  <2>1. todo # <<>> /\ todo \in Seq(Calls)
    BY DEF LoopInv, CallUnderway, PayloadOK
  <2>2. Head(todo) = todo[1] /\ 1 \in 1 .. Len(todo)
    BY <2>1
  <2>3. served.pos = env.pos /\ served.imsi = env.imsi
    BY HeldInTurn DEF ProtocolInv, AnswerStands, RequestOf
  <2> QED
    BY <2>1, <2>2, <2>3 DEF ProtocolInv, RequestPosted, IdsLoaded, Reads
<1> QED
  BY <1>1, LoopInvariance, ProtocolInvariance, PTL

(* Where the agent decides on the field a read returns, tttAdjustment for  *)
(* tableRead and hystAdjustment for tableRead2, the answer taken was       *)
(* computed for this call and this UE.                                     *)
THEOREM AnswersAreFresh == AppSpec => []AnswerIsFresh
<1>1. LoopInv /\ ProtocolInv => AnswerIsFresh
  <2> SUFFICES ASSUME LoopInv, ProtocolInv, getting, pc[ns3] = "held",
                      Decides(Head(todo).op)
               PROVE  Answer(Head(todo).op) = [pos |-> Head(todo).pos, imsi |-> Head(todo).ue]
    BY DEF AnswerIsFresh
  <2>1. todo # <<>> /\ todo \in Seq(Calls)
    BY DEF LoopInv, CallUnderway, PayloadOK
  <2>2. Head(todo) = todo[1] /\ 1 \in 1 .. Len(todo)
    BY <2>1
  <2>3. Head(todo).op \in Reads
    BY <2>2 DEF ProtocolInv, RequestPosted
  <2>4. Answer(Head(todo).op) = [pos |-> env.pos, imsi |-> env.imsi]
    BY <2>3, HeldInTurn DEF ProtocolInv, AnswerStands, RequestOf
  <2>5. mroExp
    BY DEF Decides, Acting, mroExp
  <2> QED
    BY <2>1, <2>2, <2>4, <2>5 DEF ProtocolInv, RequestPosted, IdsLoaded, Reads
<1> QED
  BY <1>1, LoopInvariance, ProtocolInvariance, PTL

----------------------------------------------------------------------------
(* The rest of the type: what the two processes keep for themselves.       *)
OwnStateOK ==
  /\ runMode \in RunModes
  /\ trig \in [UEs -> {"out", "pending", "triggered"}]
  /\ nsState \in {"running", "done", "crashed", "killed"}
  /\ pyState \in {"running", "done", "failed"}
  /\ served \in Request
  /\ trail \in [UEs \cup {NoUe} -> BOOLEAN]
  /\ stored \in [UEs \cup {NoUe} -> BOOLEAN]
LogsOK == posted \in Seq(1 .. MaxEvents) /\ recorded \in Seq(1 .. MaxEvents)

(* Types hold at the start.                                                *)
LEMMA InitOwnState == AppInit => OwnStateOK /\ LogsOK
BY EventsBound DEF AppInit, OwnStateOK, LogsOK, Request, NoRequest

(* Every step keeps the type of what the processes keep.                   *)
LEMMA StepOwnState ==
  ASSUME LoopInv, OwnStateOK, [AppNext]_allVars
  PROVE  OwnStateOK'
<1> USE DEF OwnStateOK
<1>1. CASE Handler
  <2>1. UNCHANGED <<runMode, nsState, pyState, served, trail, stored>>
    BY <1>1 DEF Handler, EvaluateA3, ReportTriggered, ReportsForgotten, ReceivePacket,
                StartHandler
  <2>2. \/ trig' = trig
        \/ \E u \in UEs, t \in {"out", "pending", "triggered"} : trig' = [trig EXCEPT ![u] = t]
    BY <1>1 DEF Handler, EvaluateA3, ReportTriggered, ReportsForgotten, ReceivePacket,
                StartHandler
  <2> QED
    BY <2>1, <2>2
<1>2. CASE SetFinish \/ NsCrash \/ PyKill
  BY <1>2 DEF SetFinish, NsCrash, PyKill
<1>3. CASE NsAcquire \/ NsSet \/ NsGet \/ NsPool
  BY <1>3 DEF NsAcquire, NsSet, NsGet, NsPool, appVars
<1>4. CASE PyLoop \/ PyGiveUp \/ PyPool
  BY <1>4 DEF PyLoop, PyGiveUp, PyPool, appVars
<1>5. CASE PyServe
  <2>1. RequestOf(env) \in Request /\ env.imsi \in UEs \cup {NoUe}
    BY DEF LoopInv, PayloadOK, Env, Request, RequestOf
  <2>2. /\ (trail[env.imsi] \/ Acting) \in BOOLEAN
        /\ (stored[env.imsi] \/ Storing) \in BOOLEAN
    OBVIOUS
  <2>3. trail' = [trail EXCEPT ![env.imsi] = trail[env.imsi] \/ Acting]
        /\ stored' = [stored EXCEPT ![env.imsi] = stored[env.imsi] \/ Storing]
    BY <1>5 DEF PyServe
  <2>4. /\ trail' \in [UEs \cup {NoUe} -> BOOLEAN]
        /\ stored' \in [UEs \cup {NoUe} -> BOOLEAN]
    BY <2>1, <2>2, <2>3
  <2> QED
    BY <1>5, <2>1, <2>4 DEF PyServe
<1>6. CASE UNCHANGED allVars
  BY <1>6 DEF allVars, appVars
<1> QED
  BY <1>1, <1>2, <1>3, <1>4, <1>5, <1>6 DEF AppNext, NsCode, PyCode

(* The two logs hold numbers of handlers.                                  *)
LEMMA StepLogs ==
  ASSUME LoopInv, ProtocolInv, LogsOK, [AppNext]_allVars
  PROVE  LogsOK'
<1> USE DEF LogsOK
<1>1. CASE UNCHANGED <<posted, recorded>>
  BY <1>1
<1>2. CASE NsSet
  <2>1. Head(todo).pos \in 1 .. MaxEvents
    <3>1. todo # <<>> /\ todo \in Seq(Calls)
      BY <1>2 DEF LoopInv, PayloadOK, CallUnderway, NsSet
    <3>2. Head(todo) \in Calls
      BY <3>1
    <3> QED
      BY <3>2 DEF Calls
  <2>2. Append(posted, Head(todo).pos) \in Seq(1 .. MaxEvents)
    BY <2>1
  <2>3. recorded' = recorded /\ posted' \in {posted, Append(posted, Head(todo).pos)}
    BY <1>2 DEF NsSet
  <2> QED
    BY <2>2, <2>3
<1>3. CASE PyServe
  <2>1. CASE ~Logging
    BY <1>3, <2>1 DEF PyServe
  <2>2. CASE Logging
    <3>1. posted = Append(recorded, env.pkt)
      BY <2>2 DEF Logging, ProtocolInv, PacketOwed
    <3>2. recorded' = posted /\ posted' = posted
      BY <1>3, <2>2, <3>1 DEF PyServe
    <3> QED
      BY <3>2
  <2> QED
    BY <2>1, <2>2
<1>4. NsSet \/ PyServe \/ UNCHANGED <<posted, recorded>>
  BY DEF AppNext, Handler, NsCode, PyCode, EvaluateA3, ReportTriggered, ReportsForgotten,
         ReceivePacket, StartHandler, SetFinish, NsCrash, PyKill, NsAcquire, NsGet, NsPool,
         PyLoop, PyGiveUp, PyPool, appVars, allVars
<1> QED
  BY <1>1, <1>2, <1>3, <1>4

(* Both keep their types, in every reachable state.                        *)
THEOREM OwnStateInvariance == AppSpec => [](OwnStateOK /\ LogsOK)
<1>1. LoopInv /\ ProtocolInv /\ OwnStateOK /\ LogsOK /\ [AppNext]_allVars
        => (OwnStateOK /\ LogsOK)'
  BY StepOwnState, StepLogs
<1> QED
  BY <1>1, InitOwnState, LoopInvariance, ProtocolInvariance, PTL DEF AppSpec

(* Type correctness of the whole loop.                                     *)
THEOREM LoopTypeCorrect == AppSpec => []AppTypeOK
<1>1. LoopInv /\ OwnStateOK /\ LogsOK => AppTypeOK
  BY DEF LoopInv, IInv, PayloadOK, CallUnderway, OwnStateOK, LogsOK, AppTypeOK, Calls
<1> QED
  BY <1>1, LoopInvariance, OwnStateInvariance, PTL

(* The agent logs each packet PacketSink reported once and in order, and   *)
(* never lags by more than the one in flight.                              *)
THEOREM EveryPacketLoggedOnce == AppSpec => []PacketsLoggedOnce
<1>1. ProtocolInv /\ LogsOK => PacketsLoggedOnce
  <2> SUFFICES ASSUME ProtocolInv, LogsOK, runMode = "DQN"
               PROVE  /\ Len(recorded) \in {Len(posted), Len(posted) - 1}
                      /\ \A i \in 1 .. Len(recorded) : recorded[i] = posted[i]
    BY DEF PacketsLoggedOnce
  <2>1. CASE posted = recorded
    BY <2>1
  <2>2. ASSUME NEW p, posted = Append(recorded, p)
        PROVE  /\ Len(recorded) = Len(posted) - 1
               /\ \A i \in 1 .. Len(recorded) : recorded[i] = posted[i]
    BY <2>2 DEF LogsOK
  <2> QED
    BY <2>1, <2>2 DEF ProtocolInv, PacketOwed
<1> QED
  BY <1>1, ProtocolInvariance, OwnStateInvariance, PTL
=============================================================================
