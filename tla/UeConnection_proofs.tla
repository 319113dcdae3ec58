------------------------- MODULE UeConnection_proofs -------------------------
(***************************************************************************)
(* Proofs about UeConnection, for every set of cells, number of bearers    *)
(* and limit of the counters: the type invariant, that no assertion fails, *)
(* the agreement of timers, layers and cells with the state of the RRC,    *)
(* the count of T300 failures, and that T310 starts and stops only after   *)
(* the consecutive frames it needs.                                        *)
(*                                                                         *)
(* A handler is a function from a state of the UE to its next state.  The  *)
(* first lemmas say what the handlers that are called by several others do *)
(* to each field (camping, leaving the connected mode, counting a frame),  *)
(* the others that every action keeps the inductive invariant.             *)
(***************************************************************************)
EXTENDS UeConnection, TLAPS

(* Between two events the UE is never in a state it only passes through.   *)
RestingState == ue.state \notin {"IDLE_START", "CONNECTED_PHY_PROBLEM"}

(* What the UE has read of its cell: a camped UE has the MIB, one that     *)
(* reads SIB1 also has a measurement of the cell; without a connection a   *)
(* SIB2 that is remembered has configured the RACH, and so has the one     *)
(* that random access started with.                                        *)
ReadBefore ==
  /\ ue.state \in Camped \cup {"IDLE_WAIT_SIB1"} => ue.mib
  /\ ue.state \in {"IDLE_WAIT_MIB_SIB1", "IDLE_WAIT_SIB1"} => ue.phyCell \in ue.measured
  /\ ue.state \notin Connected /\ ue.sib2 => ue.rach
  /\ ue.state = "IDLE_RANDOM_ACCESS" => ue.rach

(* A UE that waits for SIB2 has to connect, and a connected one does not   *)
(* leave.                                                                  *)
Intentions ==
  /\ ue.state = "IDLE_WAIT_SIB2" => ue.pending
  /\ ue.state \in Connected => ~ue.leave

(* A response that both PHY and MAC wait for has its window running, with  *)
(* transmissions left.                                                     *)
ResponseWindow ==
  /\ ue.preamble /\ ue.waiting => ue.raTimer # "none"
  /\ ue.raTimer # "none" => ue.tries <= PreambleTransMax

(* T300 failures are only remembered while the UE is camped.               *)
FailuresWhileCamped == ue.failCount > 0 => ue.state \in Camped

(* Neither counter has reached the limit at which it is reset.             *)
CountsBelowLimits ==
  /\ ue.state \notin Connected => ue.inSync /\ ue.syncs = 0 /\ ue.frames = 0
  /\ ue.inSync => ue.syncs < N310 /\ ue.frames < QoutFrames
  /\ ~ue.inSync => ue.syncs < N311 /\ ue.frames < QinFrames

(* The inductive invariant.                                                *)
IInv ==
  /\ TypeOK
  /\ NoAssertFails
  /\ TimersOfState
  /\ LayersAgree
  /\ SameCell
  /\ FailuresOfOneCell
  /\ RestingState
  /\ ReadBefore
  /\ Intentions
  /\ ResponseWindow
  /\ FailuresWhileCamped
  /\ CountsBelowLimits

(* The frames that have been counted were of one kind and the last ones.   *)
Counted ==
  LET period == IF ue.inSync THEN QoutFrames ELSE QinFrames
      counted == ue.syncs * period + ue.frames
  IN  /\ run.length >= counted
      /\ counted > 0 => run.of = (IF ue.inSync THEN "bad" ELSE "good")

(* What any event but a frame does to the counts: nothing that matters     *)
(* without a connection; otherwise they are kept, up to frames that did    *)
(* not make an indication, or set back, and T310 does not start, and does  *)
(* not stop for a UE that stays connected.                                 *)
LinkStep ==
  \/ ue'.state \notin Connected
  \/ /\ ue'.t310 = ue.t310 /\ ue'.inSync = ue.inSync /\ ue'.syncs = ue.syncs
     /\ ue'.frames \in {0, ue.frames} /\ run' = run
  \/ /\ ~ue'.t310 /\ ue'.inSync /\ ue'.syncs = 0 /\ ue'.frames = 0
     /\ ue.t310 => ue'.state # "CONNECTED_NORMALLY"

----------------------------------------------------------------------------
(* Zero is a value of every counter.                                       *)
LEMMA ZeroCounts ==
  /\ 0 \in 0 .. N310 + N311
  /\ 0 \in 0 .. QoutFrames + QinFrames
  /\ 0 \in 0 .. PreambleTransMax + 1
  /\ 0 \in 0 .. 11
  /\ Bearers \in 0 .. Bearers
  /\ NoMeasurements \in SUBSET Cells
BY UeConstants DEF NoMeasurements

(* What the limits of the counters are.                                    *)
LEMMA Limits ==
  /\ Bearers \in Nat /\ 0 < Bearers /\ Bearers <= 11
  /\ N310 \in Nat /\ 0 < N310 /\ N311 \in Nat /\ 0 < N311
  /\ QoutFrames \in Nat /\ 0 < QoutFrames /\ QinFrames \in Nat /\ 0 < QinFrames
  /\ PreambleTransMax \in Nat /\ 0 < PreambleTransMax
  /\ ConnEstFailCount \in Nat /\ 0 < ConnEstFailCount
BY UeConstants

(* A state of the UE has every name.                                       *)
LEMMA StateNames ==
  /\ "IDLE_START" \in States /\ "IDLE_CELL_SEARCH" \in States
  /\ "IDLE_WAIT_MIB_SIB1" \in States /\ "IDLE_WAIT_SIB1" \in States
  /\ "IDLE_WAIT_MIB" \in States /\ "IDLE_CAMPED_NORMALLY" \in States
  /\ "IDLE_WAIT_SIB2" \in States /\ "IDLE_RANDOM_ACCESS" \in States
  /\ "IDLE_CONNECTING" \in States /\ "CONNECTED_NORMALLY" \in States
  /\ "CONNECTED_HANDOVER" \in States /\ "CONNECTED_PHY_PROBLEM" \in States
BY DEF States, Searching, Camped, Connected

(* Entering a state in which the RRC has nothing else to do.               *)
LEMMA PlainSwitch ==
  ASSUME NEW u, NEW s, s \notin {"IDLE_START", "IDLE_CAMPED_NORMALLY", "IDLE_WAIT_SIB2"}
  PROVE  SwitchToState(u, s) = [u EXCEPT !.state = s]
BY DEF SwitchToState

(* Random access begins.                                                   *)
Accessing(u) ==
  [u EXCEPT !.pending = FALSE, !.state = "IDLE_RANDOM_ACCESS", !.tries = 0, !.preamble = TRUE,
            !.waiting = TRUE, !.raTimer = "contention"]

(* It begins when the MIB, the SIB2 and the RACH are there.                *)
LEMMA StartConnectionEffect ==
  ASSUME NEW u \in UeStates, u.ok, u.mib, u.sib2, u.rach
  PROVE  StartConnection(u) = Accessing(u)
<1> DEFINE w == [u EXCEPT !.pending = FALSE, !.state = "IDLE_RANDOM_ACCESS"]
           x == [w EXCEPT !.tries = 0]
<1>1. Asserted(u, u.mib /\ u.sib2) = u
  BY DEF Asserted, UeStates
<1>2. StartConnection(u) = StartRandomAccess(w, "contention")
  BY <1>1 DEF StartConnection
<1>3. SendRaPreamble(x, "contention") = Accessing(u)
  BY DEF SendRaPreamble, Asserted, UeStates, Accessing
<1> QED
  BY <1>2, <1>3 DEF StartRandomAccess

(* A UE that camps on a cell starts to connect, waits for SIB2, or rests.  *)
LEMMA CampEffect ==
  ASSUME NEW u \in UeStates, u.ok, u.mib, u.sib2 => u.rach
  PROVE  SwitchToState(u, "IDLE_CAMPED_NORMALLY") =
           IF u.pending
             THEN IF u.sib2 THEN Accessing(u) ELSE [u EXCEPT !.state = "IDLE_WAIT_SIB2"]
             ELSE [u EXCEPT !.state = "IDLE_CAMPED_NORMALLY"]
<1> DEFINE v == [u EXCEPT !.state = "IDLE_CAMPED_NORMALLY"]
           w == [v EXCEPT !.state = "IDLE_WAIT_SIB2"]
<1>1. v \in UeStates /\ v.pending = u.pending /\ v.sib2 = u.sib2 
  BY StateNames DEF UeStates
<1>2. w \in UeStates /\ w.ok /\ w.mib /\ w.sib2 = u.sib2 /\ w.rach = u.rach
  BY StateNames DEF UeStates
<1>3. CASE ~u.pending
  BY <1>3 DEF SwitchToState
<1>4. CASE u.pending /\ ~u.sib2
  <2>1. SwitchToState(u, "IDLE_CAMPED_NORMALLY") = WaitSib2(v)
    BY <1>4 DEF SwitchToState
  <2>2. WaitSib2(v) = w
    BY <1>1, <1>4 DEF WaitSib2
  <2>3. w = [u EXCEPT !.state = "IDLE_WAIT_SIB2"]
    BY DEF UeStates
  <2> QED BY <1>4, <2>1, <2>2, <2>3
<1>5. CASE u.pending /\ u.sib2
  <2>1. SwitchToState(u, "IDLE_CAMPED_NORMALLY") = WaitSib2(v)
    BY <1>5 DEF SwitchToState
  <2>2. Asserted(w, v.pending) = w
    BY <1>1, <1>5 DEF Asserted, UeStates
  <2>3. WaitSib2(v) = StartConnection(w)
    BY <1>1, <1>5, <2>2 DEF WaitSib2
  <2>4. StartConnection(w) = Accessing(w)
    BY <1>2, <1>5, StartConnectionEffect
  <2>5. Accessing(w) = Accessing(u)
    BY DEF Accessing, UeStates
  <2> QED BY <1>5, <2>1, <2>3, <2>4, <2>5
<1>6. u.pending \in BOOLEAN /\ u.sib2 \in BOOLEAN
  BY DEF UeStates
<1> QED BY <1>3, <1>4, <1>5, <1>6

KeepsCell(u, v) ==
  /\ v.sib1 = u.sib1 /\ v.sib2 = u.sib2 /\ v.cellId = u.cellId /\ v.phyCell = u.phyCell
  /\ v.acceptable = u.acceptable /\ v.measured = u.measured
KeepsLink(u, v) ==
  /\ v.t310 = u.t310 /\ v.syncs = u.syncs /\ v.frames = u.frames /\ v.inSync = u.inSync
  /\ v.isConnected = u.isConnected
KeepsNas(u, v) ==
  /\ v.nas = u.nas /\ v.bid = u.bid /\ v.toActivate = u.toActivate
KeepsAccess(u, v) ==
  /\ v.preamble = u.preamble /\ v.waiting = u.waiting /\ v.raTimer = u.raTimer
  /\ v.tries = u.tries

KeepsRest(u, v) ==
  /\ v.state = u.state /\ v.pending = u.pending /\ v.mib = u.mib /\ v.leave = u.leave
  /\ v.failCount = u.failCount /\ v.t300 = u.t300 /\ v.rach = u.rach /\ v.ok = u.ok

(* The same, field by field.                                               *)
Camps(u, v) ==
  /\ v \in UeStates
  /\ v.ok /\ v.mib /\ KeepsCell(u, v) /\ KeepsLink(u, v) /\ KeepsNas(u, v)
  /\ v.rach = u.rach /\ v.leave = u.leave /\ v.failCount = u.failCount /\ v.t300 = u.t300
  /\ \/ v.state = "IDLE_CAMPED_NORMALLY" /\ KeepsAccess(u, v)
     \/ v.state = "IDLE_WAIT_SIB2" /\ v.pending /\ KeepsAccess(u, v)
     \/ /\ v.state = "IDLE_RANDOM_ACCESS" /\ v.rach
        /\ v.raTimer = "contention" /\ v.tries = 0

(* Camping does this and nothing else.                                     *)
LEMMA CampFields ==
  ASSUME NEW u \in UeStates, u.ok, u.mib, u.sib2 => u.rach
  PROVE  Camps(u, SwitchToState(u, "IDLE_CAMPED_NORMALLY"))
<1> USE DEF Camps, KeepsCell, KeepsLink, KeepsNas, KeepsAccess
<1>1. CASE ~u.pending
  BY <1>1, CampEffect, StateNames DEF UeStates
<1>2. CASE u.pending /\ ~u.sib2
  BY <1>2, CampEffect, StateNames DEF UeStates
<1>3. CASE u.pending /\ u.sib2
  <2> DEFINE v == Accessing(u)
  <2>1. SwitchToState(u, "IDLE_CAMPED_NORMALLY") = v
    BY <1>3, CampEffect
  <2>2. v \in UeStates
    BY StateNames, ZeroCounts, ZenonT(60) DEF UeStates, Accessing
  <2>3. /\ v.state = "IDLE_RANDOM_ACCESS" /\ v.raTimer = "contention" /\ v.tries = 0
        /\ v.rach = u.rach /\ v.ok = u.ok /\ v.mib = u.mib
    BY DEF UeStates, Accessing
  <2>4. KeepsCell(u, v) /\ KeepsLink(u, v)
    BY DEF UeStates, Accessing
  <2>5. /\ KeepsNas(u, v)
        /\ v.leave = u.leave /\ v.failCount = u.failCount /\ v.t300 = u.t300
    BY DEF UeStates, Accessing
  <2> HIDE DEF v
  <2> QED BY <1>3, <2>1, <2>2, <2>3, <2>4, <2>5
<1>4. u.pending \in BOOLEAN /\ u.sib2 \in BOOLEAN
  BY DEF UeStates
<1> QED
  BY <1>1, <1>2, <1>3, <1>4

(* A UE that has left its connection looks for a cell; only what it wants  *)
(* and what it knows of closed cells, of failures and of an access that    *)
(* has been reset is kept.                                                 *)
HasLeft(u, v) ==
  /\ v \in UeStates
  /\ v.state = "IDLE_CELL_SEARCH" /\ v.leave /\ v.measured = NoMeasurements
  /\ ~v.mib /\ ~v.sib1 /\ ~v.sib2 /\ v.cellId = 0
  /\ ~v.t310 /\ v.syncs = 0 /\ v.frames = 0 /\ v.inSync
  /\ v.phyCell = 0 /\ ~v.isConnected /\ ~v.preamble
  /\ v.raTimer = "none" /\ ~v.rach
  /\ v.pending = u.pending /\ v.acceptable = u.acceptable
  /\ v.t300 = u.t300 /\ v.waiting = u.waiting /\ v.tries = u.tries
  /\ v.connect = u.connect /\ v.ok = u.ok

(* LeaveConnectedMode leaves, and the NAS keeps what it has.               *)
LEMMA LeaveEffect ==
  ASSUME NEW u \in UeStates
  PROVE  /\ HasLeft(u, LeaveConnectedMode(u))
         /\ LeaveConnectedMode(u).failCount = u.failCount
         /\ LeaveConnectedMode(u).nas = u.nas
         /\ LeaveConnectedMode(u).bid = u.bid
         /\ LeaveConnectedMode(u).toActivate = u.toActivate
<1> DEFINE a == [u EXCEPT !.leave = TRUE, !.measured = NoMeasurements]
           b == ResetRlfParams(a)
           c == MacReset(b)
           d == [c EXCEPT !.mib = FALSE, !.sib1 = FALSE, !.sib2 = FALSE]
           w == PhyReset(d)
           x == SwitchToState(w, "IDLE_START")
           y == DoStartCellSelection(x)
           Kept(v) == /\ v \in UeStates
                      /\ v.leave /\ v.measured = NoMeasurements
                      /\ v.pending = u.pending /\ v.acceptable = u.acceptable
                      /\ v.failCount = u.failCount /\ v.t300 = u.t300
                      /\ v.waiting = u.waiting /\ v.tries = u.tries
                      /\ v.connect = u.connect /\ v.ok = u.ok
                      /\ v.nas = u.nas /\ v.bid = u.bid /\ v.toActivate = u.toActivate
           LinkReset(v) == ~v.t310 /\ v.syncs = 0 /\ v.frames = 0 /\ v.inSync
           Forgotten(v) == /\ v.raTimer = "none" /\ ~v.rach
                           /\ ~v.mib /\ ~v.sib1 /\ ~v.sib2
                           /\ v.phyCell = 0 /\ ~v.isConnected /\ ~v.preamble
<1>1. Kept(b) /\ LinkReset(b)
  BY ZeroCounts, ZenonT(60) DEF ResetRlfParams, InitializeRlfParams, UeStates
<1>2. Kept(w) /\ LinkReset(w) /\ Forgotten(w)
  <2> HIDE DEF a, b
  <2>1. Kept(c) /\ LinkReset(c) /\ c.raTimer = "none" /\ ~c.rach
    BY <1>1, ZenonT(60) DEF MacReset, UeStates
  <2> HIDE DEF c
  <2>2. /\ Kept(d) /\ LinkReset(d) /\ d.raTimer = "none" /\ ~d.rach
        /\ ~d.mib /\ ~d.sib1 /\ ~d.sib2
    <3>1. d \in UeStates
      BY <2>1, ZenonT(60) DEF UeStates
    <3>2. ~d.mib /\ ~d.sib1 /\ ~d.sib2
      BY <2>1 DEF UeStates
    <3>3. LinkReset(d) /\ d.raTimer = "none" /\ ~d.rach
      BY <2>1 DEF UeStates
    <3>4. Kept(d)
      BY <2>1, <3>1 DEF UeStates
    <3> QED BY <3>1, <3>2, <3>3, <3>4
  <2> HIDE DEF d
  <2> QED
    BY <2>2, ZenonT(60) DEF PhyReset, UeStates
<1>3. Kept(x) /\ LinkReset(x) /\ Forgotten(x) /\ x.state = "IDLE_START"
  <2> HIDE DEF w
  <2>1. x = [w EXCEPT !.state = "IDLE_START"]
    BY <1>2 DEF SwitchToState, Asserted, UeStates
  <2> QED
    BY <1>2, <2>1, StateNames DEF UeStates
<1>4. Kept(y) /\ LinkReset(y) /\ Forgotten(y) /\ y.state = "IDLE_CELL_SEARCH"
  <2> HIDE DEF x
  <2>1. y = [x EXCEPT !.state = "IDLE_CELL_SEARCH"]
    BY <1>3, ZenonT(60) DEF DoStartCellSelection, SwitchToState, Asserted, UeStates
  <2> QED
    BY <1>3, <2>1, StateNames DEF UeStates
<1>5. LeaveConnectedMode(u) = ForgetCell(y)
  BY DEF LeaveConnectedMode
<1> HIDE DEF y
<1> QED
  BY <1>4, <1>5 DEF ForgetCell, HasLeft, UeStates

(* After a release every bearer is to be activated again.                  *)
LEMMA ReleasedEffect ==
  ASSUME NEW u \in UeStates
  PROVE  /\ HasLeft(u, Released(u))
         /\ Released(u).failCount = u.failCount
         /\ Released(u).nas = "OFF"
         /\ Released(u).bid = 0
         /\ Released(u).toActivate = Bearers
<1> DEFINE a == [u EXCEPT !.state = "CONNECTED_PHY_PROBLEM"]
           b == [RestoreBearers(a) EXCEPT !.nas = "OFF"]
<1>1. Released(u) = NotifyConnectionReleased(a)
  BY DEF Released, SwitchToState
<1>2. /\ b \in UeStates /\ b.state = "CONNECTED_PHY_PROBLEM"
      /\ b.nas = "OFF" /\ b.bid = 0 /\ b.toActivate = Bearers
      /\ b.pending = u.pending /\ b.acceptable = u.acceptable /\ b.failCount = u.failCount
      /\ b.t300 = u.t300 /\ b.waiting = u.waiting /\ b.tries = u.tries
      /\ b.connect = u.connect /\ b.ok = u.ok
  BY StateNames, ZeroCounts DEF RestoreBearers, UeStates
<1>3. NotifyConnectionReleased(a) = DoDisconnect(b)
  BY DEF NotifyConnectionReleased
<1> HIDE DEF b
<1>4. DoDisconnect(b) = LeaveConnectedMode(b)
  BY <1>2 DEF DoDisconnect, Searching, Connected
<1> QED
  BY <1>1, <1>2, <1>3, <1>4, LeaveEffect DEF HasLeft


(* A UE without a connection, but with a cell, that has stopped its timers *)
(* may camp.                                                               *)
MayCamp(u) ==
  /\ u \in UeStates /\ u.ok /\ u.mib /\ (u.sib2 => u.rach)
  /\ ~u.t300 /\ ~u.t310 /\ u.raTimer = "none" /\ ~(u.preamble /\ u.waiting)
  /\ u.inSync /\ ~u.isConnected /\ u.syncs = 0 /\ u.frames = 0
  /\ u.nas = "OFF" /\ u.bid = 0 /\ u.toActivate = Bearers
  /\ u.cellId # 0 /\ u.cellId = u.phyCell

(* Camping keeps the invariant, and so does the NAS asking again.          *)
LEMMA CampKeeps ==
  ASSUME NEW u, MayCamp(u), Camps(u, ue'), TypeOK',
         u.failCount > 0 => failedAt' = u.cellId
  PROVE  IInv' /\ LinkStep
<1>1. IInv'
  BY Limits DEF IInv, TypeOK, NoAssertFails, TimersOfState, LayersAgree, SameCell,
        FailuresOfOneCell, RestingState, ReadBefore, Intentions, ResponseWindow,
        FailuresWhileCamped, CountsBelowLimits, UeStates, Camps, MayCamp, KeepsCell, KeepsLink,
        KeepsNas, KeepsAccess,
       Camped, Connected, Searching
<1>2. LinkStep
  BY DEF LinkStep, Camps, Connected
<1> QED BY <1>1, <1>2

(* The NAS is told that the connection failed.                             *)
LEMMA FailedEffect ==
  ASSUME NEW v \in UeStates
  PROVE  /\ NotifyConnectionFailed(v) \in UeStates
         /\ KeepsCell(v, NotifyConnectionFailed(v))
         /\ KeepsLink(v, NotifyConnectionFailed(v))
         /\ KeepsNas(v, NotifyConnectionFailed(v))
         /\ KeepsAccess(v, NotifyConnectionFailed(v))
         /\ KeepsRest(v, NotifyConnectionFailed(v))
BY DEF NotifyConnectionFailed, UeStates, KeepsCell, KeepsLink, KeepsNas, KeepsAccess, KeepsRest

(* Camping and asking again differ only in what the NAS will do.           *)
LEMMA CampAndAskAgain ==
  ASSUME NEW u \in UeStates, u.ok, u.mib, u.sib2 => u.rach
  PROVE  Camps(u, NotifyConnectionFailed(SwitchToState(u, "IDLE_CAMPED_NORMALLY")))
<1> DEFINE v == SwitchToState(u, "IDLE_CAMPED_NORMALLY")
<1>1. Camps(u, v)
  BY CampFields
<1> DEFINE w == NotifyConnectionFailed(v)
<1> HIDE DEF v
<1>2. /\ w \in UeStates /\ KeepsCell(v, w) /\ KeepsLink(v, w) /\ KeepsNas(v, w)
      /\ KeepsAccess(v, w) /\ KeepsRest(v, w)
  BY <1>1, FailedEffect DEF Camps
<1> HIDE DEF w
<1>3. Camps(u, w)
  BY <1>1, <1>2 DEF Camps, KeepsCell, KeepsLink, KeepsNas, KeepsAccess, KeepsRest
<1> QED
  BY <1>3 DEF v, w

(* Leaving a connection or an attempt to connect keeps the invariant.      *)
LEMMA LeavingKeeps ==
  ASSUME NEW u, HasLeft(u, ue'), u.ok, ~u.t300, ue'.failCount = 0, TypeOK',
         ue'.nas = "OFF", ue'.bid = 0, ue'.toActivate = Bearers
  PROVE  IInv' /\ LinkStep
<1>1. 0 < N310 /\ 0 < QoutFrames
  BY UeConstants
<1>2. IInv'
  BY <1>1 DEF IInv, TypeOK, NoAssertFails, TimersOfState, LayersAgree, SameCell,
        FailuresOfOneCell, RestingState, ReadBefore, Intentions, ResponseWindow,
        FailuresWhileCamped, CountsBelowLimits, UeStates, HasLeft, Camped, Connected, Searching
<1>3. LinkStep
  BY DEF LinkStep, HasLeft, Connected
<1> QED BY <1>2, <1>3

----------------------------------------------------------------------------
(* A preamble is answered.                                                 *)
LEMMA RaResponseKeeps ==
  ASSUME IInv, RecvRaResponse
  PROVE  IInv' /\ LinkStep
<1> DEFINE x == [ue EXCEPT !.preamble = FALSE, !.waiting = FALSE, !.raTimer = "none"]
<1>1. ue \in UeStates
  BY DEF IInv, TypeOK
<1>2. ue.waiting => ue.state \in {"IDLE_RANDOM_ACCESS", "CONNECTED_HANDOVER"}
  BY <1>1 DEF RecvRaResponse, IInv, UeStates, TimersOfState, ResponseWindow
<1>3. UNCHANGED <<run, failedAt>>
  BY DEF RecvRaResponse, Becomes
<1>4. 0 < QoutFrames /\ 0 < N310
  BY UeConstants
<1>5. CASE ~ue.waiting
  <2>1. ue' = [ue EXCEPT !.preamble = FALSE]
    BY <1>1, <1>5 DEF RecvRaResponse, Becomes
  <2>2. ue' \in UeStates
    BY <1>1, <2>1, ZenonT(60) DEF UeStates
  <2>3. IInv'
    BY <1>1, <1>3, <1>5, <2>1, <2>2 DEF IInv, TypeOK, NoAssertFails, TimersOfState, LayersAgree,
       SameCell,
        FailuresOfOneCell, RestingState, ReadBefore, Intentions, ResponseWindow,
        FailuresWhileCamped, CountsBelowLimits, UeStates
  <2>4. LinkStep
    BY <1>1, <1>3, <2>1 DEF LinkStep, UeStates
  <2> QED BY <2>3, <2>4
<1>6. CASE ue.waiting /\ ue.state = "IDLE_RANDOM_ACCESS"
  <2>1. ue' = [x EXCEPT !.state = "IDLE_CONNECTING", !.t300 = TRUE]
    BY <1>1, <1>6 DEF RecvRaResponse, Becomes, DoNotifyRandomAccessSuccessful, SwitchToState,
                      UeStates
  <2>2. ue' \in UeStates
    BY <1>1, <2>1, StateNames, ZenonT(60) DEF UeStates
  <2>3. IInv'
    BY <1>1, <1>3, <1>6, <2>1, <2>2 DEF IInv, TypeOK, NoAssertFails, TimersOfState, LayersAgree,
       SameCell,
        FailuresOfOneCell, RestingState, ReadBefore, Intentions, ResponseWindow,
        FailuresWhileCamped, CountsBelowLimits, UeStates, Camped, Connected, Searching
  <2>4. LinkStep
    BY <1>1, <2>1 DEF LinkStep, UeStates, Connected
  <2> QED BY <2>3, <2>4
<1>7. CASE ue.waiting /\ ue.state = "CONNECTED_HANDOVER"
  <2>1. ue' = [x EXCEPT !.state = "CONNECTED_NORMALLY", !.isConnected = TRUE,
                        !.frames = 0, !.inSync = TRUE]
    BY <1>1, <1>7 DEF RecvRaResponse, Becomes, DoNotifyRandomAccessSuccessful, SwitchToState,
                      UeStates, NotifyConnectionSuccessful, InitializeRlfParams
  <2>2. ue' \in UeStates
    BY <1>1, <2>1, StateNames, ZeroCounts, ZenonT(60) DEF UeStates
  <2>3. IInv'
    BY <1>1, <1>3, <1>4, <1>7, <2>1, <2>2 DEF IInv, TypeOK, NoAssertFails, TimersOfState,
       LayersAgree, SameCell,
        FailuresOfOneCell, RestingState, ReadBefore, Intentions, ResponseWindow,
        FailuresWhileCamped, CountsBelowLimits, UeStates, Camped, Connected, Searching
  <2>4. LinkStep
    BY <1>1, <1>3, <1>7, <2>1 DEF LinkStep, UeStates, IInv, TimersOfState
  <2> QED BY <2>3, <2>4
<1> QED
  BY <1>1, <1>2, <1>5, <1>6, <1>7 DEF UeStates

(* The window closes: the preamble is sent again or the access failed.     *)
LEMMA RaTimeoutKeeps ==
  ASSUME IInv, RaResponseTimeout
  PROVE  IInv' /\ LinkStep
<1> DEFINE v == [ue EXCEPT !.waiting = FALSE, !.raTimer = "none", !.tries = @ + 1]
<1>1. ue \in UeStates /\ TypeOK
  BY DEF IInv, TypeOK
<1>2. UNCHANGED <<run, failedAt>>
  BY DEF RaResponseTimeout, Becomes
<1>3. /\ ue.state \in {"IDLE_RANDOM_ACCESS", "CONNECTED_HANDOVER"}
      /\ ue.tries <= PreambleTransMax
  BY <1>1 DEF RaResponseTimeout, IInv, UeStates, TimersOfState, ResponseWindow
<1>4. v \in UeStates /\ v.tries = ue.tries + 1
  <2>1. ue.tries + 1 \in 0 .. PreambleTransMax + 1
    BY <1>1, <1>3, Limits DEF UeStates
  <2> QED
    BY <1>1, <2>1, ZenonT(60) DEF UeStates
<1>5. CASE v.tries # PreambleTransMax + 1
  <2>1. ue.ok /\ (ue.raTimer = "contention" => ue.rach)
    BY DEF IInv, NoAssertFails, TimersOfState, ReadBefore
  <2>2. ue' = [v EXCEPT !.preamble = TRUE, !.waiting = TRUE, !.raTimer = ue.raTimer]
    BY <1>1, <1>5, <2>1 DEF RaResponseTimeout, Becomes, SendRaPreamble, Asserted, UeStates
  <2>3. ue' \in UeStates
    <3> HIDE DEF v
    <3> QED BY <1>1, <1>4, <2>2, ZenonT(60) DEF UeStates
  <2>4. ue'.tries <= PreambleTransMax
    BY <1>1, <1>3, <1>4, <1>5, <2>2, Limits DEF UeStates
  <2>5. /\ KeepsCell(ue, ue') /\ KeepsLink(ue, ue') /\ KeepsNas(ue, ue') /\ KeepsRest(ue, ue')
        /\ ue'.raTimer = ue.raTimer
    BY <1>1, <2>2 DEF UeStates, KeepsCell, KeepsLink, KeepsNas, KeepsRest
  <2>6. IInv'
    BY <1>1, <1>2, <2>3, <2>4, <2>5 DEF RaResponseTimeout, IInv, NoAssertFails, TimersOfState,
       LayersAgree, SameCell,
       FailuresOfOneCell, RestingState, ReadBefore, Intentions, ResponseWindow,
       FailuresWhileCamped, CountsBelowLimits, TypeOK,
       KeepsCell, KeepsLink, KeepsNas, KeepsRest
  <2>7. LinkStep
    BY <1>2, <2>5 DEF LinkStep, KeepsLink
  <2> QED BY <2>6, <2>7
<1>6. CASE v.tries = PreambleTransMax + 1 /\ ue.state = "IDLE_RANDOM_ACCESS"
  <2>1. MayCamp(v)
    BY <1>1, <1>4, <1>6, UeConstants DEF MayCamp, IInv, TypeOK, NoAssertFails, TimersOfState,
       LayersAgree, SameCell,
        FailuresOfOneCell, RestingState, ReadBefore, Intentions, ResponseWindow,
        FailuresWhileCamped, CountsBelowLimits, UeStates, Camped, Connected, Searching
  <2>2. ue' = NotifyConnectionFailed(SwitchToState(v, "IDLE_CAMPED_NORMALLY"))
    BY <1>1, <1>6 DEF RaResponseTimeout, Becomes, DoNotifyRandomAccessFailed, UeStates
  <2>3. /\ v.failCount > 0 => failedAt' = v.cellId
        /\ v.failCount < ConnEstFailCount
    BY <1>1, <1>2 DEF IInv, TypeOK, FailuresOfOneCell, UeStates
  <2> HIDE DEF v
  <2>4. Camps(v, ue')
    BY <2>1, <2>2, CampAndAskAgain DEF MayCamp
  <2>5. TypeOK'
    BY <1>1, <1>2, <2>3, <2>4 DEF TypeOK, Camps
  <2> QED
    BY <2>1, <2>3, <2>4, <2>5, CampKeeps
<1>7. CASE v.tries = PreambleTransMax + 1 /\ ue.state = "CONNECTED_HANDOVER"
  <2> DEFINE w == [v EXCEPT !.leave = TRUE]
  <2>1. ~ue.leave /\ ue.failCount = 0 /\ ue.ok /\ ~ue.t300
    BY <1>1, <1>7 DEF IInv, Intentions, NoAssertFails, TimersOfState, FailuresWhileCamped,
                      Connected, Camped, UeStates
  <2>2. ue' = LeaveOnce(v)
    BY <1>1, <1>7 DEF RaResponseTimeout, Becomes, DoNotifyRandomAccessFailed, UeStates
  <2>3. ue' = Released(w)
    BY <1>1, <2>1, <2>2 DEF LeaveOnce, UeStates
  <2>4. w \in UeStates /\ w.ok /\ ~w.t300 /\ w.failCount = 0
    <3>1. v.ok /\ ~v.t300 /\ v.failCount = 0
      BY <1>1, <2>1 DEF UeStates
    <3> HIDE DEF v
    <3>2. w \in UeStates
      BY <1>4 DEF UeStates
    <3>3. w.ok /\ ~w.t300 /\ w.failCount = 0
      BY <1>4, <3>1 DEF UeStates
    <3> QED BY <3>2, <3>3
  <2> HIDE DEF w
  <2>5. /\ HasLeft(w, ue') /\ ue'.failCount = 0 /\ ue'.nas = "OFF" /\ ue'.bid = 0
        /\ ue'.toActivate = Bearers
    BY <2>3, <2>4, ReleasedEffect
  <2>6. TypeOK'
    BY <1>1, <1>2, <2>5, Limits DEF TypeOK, HasLeft
  <2> QED
    BY <2>4, <2>5, <2>6, LeavingKeeps
<1> QED
  BY <1>3, <1>5, <1>6, <1>7

(* The connection is set up.                                               *)
LEMMA SetupKeeps ==
  ASSUME IInv, RecvRrcConnectionSetup
  PROVE  IInv' /\ LinkStep
<1> DEFINE a == [ue EXCEPT !.failCount = 0, !.t300 = FALSE, !.leave = FALSE,
                           !.state = "CONNECTED_NORMALLY"]
           b == [a EXCEPT !.nas = "ACTIVE", !.bid = Bearers, !.toActivate = 0]
           c == [b EXCEPT !.isConnected = TRUE, !.frames = 0, !.inSync = TRUE]
<1>1. ue \in UeStates /\ TypeOK
  BY DEF IInv, TypeOK
<1>2. /\ ue.state = "IDLE_CONNECTING" /\ ue.ok /\ ue.syncs = 0
      /\ ue.bid = 0 /\ ue.toActivate = Bearers
      /\ ~ue.t310 /\ ue.raTimer = "none" /\ ue.cellId # 0 /\ ue.cellId = ue.phyCell
      /\ ~(ue.preamble /\ ue.waiting)
  BY <1>1 DEF RecvRrcConnectionSetup, IInv, TypeOK, NoAssertFails, TimersOfState, LayersAgree,
     SameCell,
        FailuresOfOneCell, RestingState, ReadBefore, Intentions, ResponseWindow,
        FailuresWhileCamped, CountsBelowLimits, UeStates, Connected, Searching
<1>3. a \in UeStates /\ a.bid = 0 /\ a.toActivate = Bearers /\ a.ok /\ a.syncs = 0
  <2>1. 0 \in 0 .. ConnEstFailCount
    BY Limits
  <2> QED
    BY <1>1, <1>2, <2>1, StateNames, ZenonT(60) DEF UeStates
<1>4. SwitchToState(ConnectionEstablished(ue), "CONNECTED_NORMALLY") = a
  BY <1>1 DEF ConnectionEstablished, SwitchToState, UeStates
<1>5. ActivateBearers(a) = b /\ b \in UeStates /\ b.ok
  <2> HIDE DEF a
  <2>1. Asserted(a, a.bid + a.toActivate <= 11) = a
    BY <1>3, UeConstants DEF Asserted, UeStates
  <2>2. 0 + Bearers = Bearers /\ Bearers \in 0 .. 11 /\ 0 \in 0 .. Bearers
    BY UeConstants
  <2>3. ActivateBearers(a) = b
    BY <1>3, <2>1, <2>2 DEF ActivateBearers
  <2> QED BY <1>3, <2>2, <2>3, ZenonT(60) DEF UeStates
<1>6. NotifyConnectionSuccessful(b) = c /\ c \in UeStates /\ c.ok
  <2> HIDE DEF a, b
  <2>1. NotifyConnectionSuccessful(b) = c
    BY <1>5 DEF NotifyConnectionSuccessful, InitializeRlfParams, UeStates
  <2>2. c \in UeStates
    BY <1>5, ZeroCounts, ZenonT(60) DEF UeStates
  <2>3. c.ok
    BY <1>5 DEF UeStates
  <2> QED BY <2>1, <2>2, <2>3
<1>7. ue' = c
  <2> HIDE DEF a, b, c
  <2>1. ue' = Asserted(c, ue.state = "IDLE_CONNECTING" /\ ue.syncs = 0)
    BY <1>4, <1>5, <1>6 DEF RecvRrcConnectionSetup, DoRecvRrcConnectionSetup
  <2> QED
    BY <1>2, <1>6, <2>1 DEF Asserted, UeStates
<1>8. TypeOK'
  BY <1>1, <1>6, <1>7, UeConstants DEF TypeOK, RecvRrcConnectionSetup, MaxRun
<1>9. /\ ue'.state = "CONNECTED_NORMALLY" /\ ue'.nas = "ACTIVE" /\ ue'.bid = Bearers
      /\ ue'.toActivate = 0 /\ ue'.isConnected /\ ue'.frames = 0 /\ ue'.inSync
      /\ ue'.failCount = 0 /\ ~ue'.t300 /\ ~ue'.leave
      /\ ue'.ok /\ ue'.syncs = 0 /\ ~ue'.t310 /\ ue'.raTimer = "none"
      /\ ue'.cellId # 0 /\ ue'.cellId = ue'.phyCell /\ ~(ue'.preamble /\ ue'.waiting)
  BY <1>1, <1>2, <1>7 DEF UeStates
<1>10. 0 < N310 /\ 0 < QoutFrames
  BY UeConstants
<1> HIDE DEF c
<1>11. IInv'
  BY <1>8, <1>9, <1>10 DEF IInv, NoAssertFails, TimersOfState, LayersAgree, SameCell,
       FailuresOfOneCell, RestingState, ReadBefore, Intentions, ResponseWindow,
       FailuresWhileCamped, CountsBelowLimits, Camped, Connected, Searching
<1>12. LinkStep
  BY <1>2, <1>9 DEF LinkStep
<1> QED BY <1>11, <1>12

(* After a reject or a T300 that is not the last, the UE camps again.      *)
LEMMA TryAgainKeeps ==
  ASSUME IInv, ue.state = "IDLE_CONNECTING", NEW u \in UeStates, ue' = TryAgain(u),
         KeepsCell(ue, u), KeepsLink(ue, u), KeepsNas(ue, u), KeepsAccess(ue, u),
         u.ok, u.mib, ~u.t300, u.failCount < ConnEstFailCount, run' = run,
         failedAt' \in Cells \cup {0},
         u.failCount > 0 => failedAt' = ue.cellId
  PROVE  IInv' /\ LinkStep
<1> DEFINE a == MacReset(u)
           v == [a EXCEPT !.sib2 = FALSE]
<1>1. /\ ~ue.t310 /\ ue.raTimer = "none" /\ ~(ue.preamble /\ ue.waiting)
      /\ ue.inSync /\ ~ue.isConnected /\ ue.syncs = 0 /\ ue.frames = 0
      /\ ue.nas = "OFF" /\ ue.bid = 0 /\ ue.toActivate = Bearers
      /\ ue.cellId # 0 /\ ue.cellId = ue.phyCell
  BY DEF IInv, TypeOK, NoAssertFails, TimersOfState, LayersAgree, SameCell,
        FailuresOfOneCell, RestingState, ReadBefore, Intentions, ResponseWindow,
        FailuresWhileCamped, CountsBelowLimits, UeStates, Connected, Searching
<1>2. a \in UeStates
  BY DEF MacReset, UeStates
<1>3. /\ KeepsLink(u, a) /\ KeepsNas(u, a) /\ a.raTimer = "none" /\ a.preamble = u.preamble
      /\ a.waiting = u.waiting /\ a.failCount = u.failCount /\ a.t300 = u.t300
      /\ a.ok = u.ok /\ a.mib = u.mib /\ a.cellId = u.cellId /\ a.phyCell = u.phyCell
  BY DEF MacReset, UeStates, KeepsLink, KeepsNas
<1> HIDE DEF a
<1>4. v \in UeStates
  BY <1>2, ZenonT(60) DEF UeStates
<1>5. /\ KeepsLink(a, v) /\ KeepsNas(a, v) /\ v.raTimer = a.raTimer /\ v.preamble = a.preamble
      /\ v.waiting = a.waiting /\ v.failCount = a.failCount /\ v.t300 = a.t300
      /\ v.ok = a.ok /\ v.mib = a.mib /\ v.cellId = a.cellId /\ v.phyCell = a.phyCell
      /\ ~v.sib2
  BY <1>2 DEF UeStates, KeepsLink, KeepsNas
<1>6. ue' = NotifyConnectionFailed(SwitchToState(v, "IDLE_CAMPED_NORMALLY"))
  BY DEF TryAgain, a
<1> HIDE DEF v
<1>7. MayCamp(v)
  BY <1>1, <1>3, <1>4, <1>5 DEF MayCamp, KeepsCell, KeepsLink, KeepsNas, KeepsAccess
<1>8. Camps(v, ue')
  BY <1>6, <1>7, CampAndAskAgain DEF MayCamp
<1>9. v.failCount > 0 => failedAt' = v.cellId
  BY <1>3, <1>5 DEF KeepsCell
<1>10. TypeOK'
  BY <1>3, <1>5, <1>8 DEF IInv, TypeOK, Camps
<1> QED
  BY <1>7, <1>8, <1>9, <1>10, CampKeeps

(* The connection is rejected.                                             *)
LEMMA RejectKeeps ==
  ASSUME IInv, RecvRrcConnectionReject
  PROVE  IInv' /\ LinkStep
<1> DEFINE u == [ue EXCEPT !.t300 = FALSE]
<1>1. /\ ue \in UeStates /\ ue.ok /\ ue.mib /\ ue.state = "IDLE_CONNECTING"
      /\ failedAt \in Cells \cup {0}
      /\ (ue.failCount > 0 => failedAt = ue.cellId)
  BY DEF IInv, TypeOK, NoAssertFails, ReadBefore, Camped, FailuresOfOneCell,
     RecvRrcConnectionReject
<1>2. ue' = TryAgain(u) /\ UNCHANGED <<run, failedAt>>
  BY DEF RecvRrcConnectionReject, Becomes, DoRecvRrcConnectionReject
<1>3. u \in UeStates
  BY <1>1 DEF UeStates
<1>4. KeepsCell(ue, u) /\ KeepsLink(ue, u) /\ KeepsNas(ue, u) /\ KeepsAccess(ue, u)
  BY <1>1 DEF UeStates, KeepsCell, KeepsLink, KeepsNas, KeepsAccess
<1>5. /\ u.ok /\ u.mib /\ ~u.t300 /\ u.failCount = ue.failCount
      /\ u.failCount < ConnEstFailCount
  BY <1>1 DEF UeStates, IInv, TypeOK
<1> HIDE DEF u
<1> QED
  BY <1>1, <1>2, <1>3, <1>4, <1>5, TryAgainKeeps

(* The connection request is not answered.                                 *)
LEMMA T300Keeps ==
  ASSUME IInv, T300Expires
  PROVE  IInv' /\ LinkStep
<1> DEFINE u == [ue EXCEPT !.failCount = @ + 1, !.t300 = FALSE]
<1>1. /\ ue \in UeStates /\ ue.ok /\ ue.mib /\ ue.state = "IDLE_CONNECTING"
      /\ ue.cellId \in Cells \cup {0}
      /\ failedAt \in Cells \cup {0}
  BY DEF IInv, TypeOK, NoAssertFails, ReadBefore, Camped, TimersOfState, T300Expires, UeStates
<1>2. u.failCount = ue.failCount + 1 /\ ue.failCount + 1 \in 0 .. ConnEstFailCount
  BY <1>1, Limits DEF UeStates, IInv, TypeOK
<1>3. run' = run /\ failedAt' = ue.cellId
  BY DEF T300Expires
<1>6. u \in UeStates
  BY <1>1, <1>2 DEF UeStates
<1>7. u.ok /\ u.mib /\ ~u.t300
  BY <1>1 DEF UeStates
<1>4. CASE u.failCount >= ConnEstFailCount
  <2> DEFINE r == Released(u)
  <2>1. ue' = [r EXCEPT !.failCount = 0]
    BY <1>4 DEF T300Expires, ConnectionTimeout, LastFailure
  <2>2. /\ HasLeft(u, r) /\ r.nas = "OFF" /\ r.bid = 0 /\ r.toActivate = Bearers
    BY <1>6, ReleasedEffect
  <2> HIDE DEF r, u
  <2>3. 0 \in 0 .. ConnEstFailCount /\ 0 < ConnEstFailCount
    BY Limits
  <2>4. ue' \in UeStates
    BY <2>1, <2>2, <2>3 DEF HasLeft, UeStates
  <2>5. HasLeft(u, ue')
    BY <2>1, <2>2, <2>4 DEF HasLeft, UeStates
  <2>6. ue'.nas = "OFF" /\ ue'.bid = 0 /\ ue'.toActivate = Bearers /\ ue'.failCount = 0
    BY <2>1, <2>2 DEF HasLeft, UeStates
  <2>7. TypeOK'
    BY <1>1, <1>3, <2>3, <2>4, <2>6 DEF IInv, TypeOK
  <2> QED
    BY <1>7, <2>5, <2>6, <2>7, LeavingKeeps
<1>5. CASE ~(u.failCount >= ConnEstFailCount)
  <2>1. ue' = TryAgain(u)
    BY <1>5 DEF T300Expires, ConnectionTimeout, LastFailure
  <2>2. KeepsCell(ue, u) /\ KeepsLink(ue, u) /\ KeepsNas(ue, u) /\ KeepsAccess(ue, u)
    BY <1>1 DEF UeStates, KeepsCell, KeepsLink, KeepsNas, KeepsAccess
  <2>3. u.failCount < ConnEstFailCount
    BY <1>2, <1>5, Limits
  <2> HIDE DEF u
  <2> QED
    BY <1>1, <1>3, <1>6, <1>7, <2>1, <2>2, <2>3, TryAgainKeeps
<1> QED
  BY <1>4, <1>5

(* An order to leave, or a radio link that failed, ends the connection.    *)
LEMMA EndKeeps ==
  ASSUME IInv, ue.state \in Connected, NEW u \in UeStates, ue' = Released(u),
         u.ok, ~u.t300, u.failCount = ue.failCount, UNCHANGED <<run, failedAt>>
  PROVE  IInv' /\ LinkStep
<1>1. u.failCount = 0
  BY DEF IInv, TypeOK, UeStates, FailuresWhileCamped, Connected, Camped
<1>2. /\ HasLeft(u, ue') /\ ue'.failCount = 0 /\ ue'.nas = "OFF" /\ ue'.bid = 0
      /\ ue'.toActivate = Bearers
  BY <1>1, ReleasedEffect
<1>3. TypeOK'
  BY <1>2, Limits DEF IInv, TypeOK, HasLeft
<1> QED
  BY <1>2, <1>3, LeavingKeeps

(* The eNB releases the UE.                                                *)
LEMMA ReleaseKeeps ==
  ASSUME IInv, RecvRrcConnectionRelease
  PROVE  IInv' /\ LinkStep
<1> DEFINE u == [ue EXCEPT !.leave = TRUE]
<1>1. ue \in UeStates /\ ue.ok /\ ue.state \in Connected /\ ~ue.leave /\ ~ue.t300
  BY DEF IInv, TypeOK, NoAssertFails, Intentions, TimersOfState, RecvRrcConnectionRelease,
         Connected
<1>2. ue' = Released(u) /\ UNCHANGED <<run, failedAt>>
  BY <1>1 DEF RecvRrcConnectionRelease, Becomes, LeaveOnce
<1>3. u \in UeStates
  BY <1>1 DEF UeStates
<1>4. u.ok /\ ~u.t300 /\ u.failCount = ue.failCount
  BY <1>1 DEF UeStates
<1> HIDE DEF u
<1> QED
  BY <1>1, <1>2, <1>3, <1>4, EndKeeps

(* T310 expires.                                                           *)
LEMMA LinkFailureKeeps ==
  ASSUME IInv, RadioLinkFailureDetected
  PROVE  IInv' /\ LinkStep
<1> DEFINE u == [ue EXCEPT !.t310 = FALSE]
<1>1. ue \in UeStates /\ ue.ok /\ ue.state \in Connected /\ ~ue.t300
  BY DEF IInv, TypeOK, NoAssertFails, TimersOfState, RadioLinkFailureDetected, Connected
<1>2. ue' = Released(u) /\ UNCHANGED <<run, failedAt>>
  BY <1>1 DEF RadioLinkFailureDetected, Becomes
<1>3. u \in UeStates
  BY <1>1 DEF UeStates
<1>4. u.ok /\ ~u.t300 /\ u.failCount = ue.failCount
  BY <1>1 DEF UeStates
<1> HIDE DEF u
<1> QED
  BY <1>1, <1>2, <1>3, <1>4, EndKeeps

(* The RRC takes the cell of the handover command, the MAC its preamble.   *)
LEMMA HandoverKeeps ==
  ASSUME IInv, RecvHandoverCommand
  PROVE  IInv' /\ LinkStep
<1>1. PICK target \in Cells \ {ue.cellId} :
        Becomes(DoRecvRrcConnectionReconfiguration(ue, target))
  BY DEF RecvHandoverCommand
<1> DEFINE a == [ue EXCEPT !.state = "CONNECTED_HANDOVER"]
           b == StopT310(a)
           c == MacReset(b)
           d == PhyReset(c)
           e == [d EXCEPT !.cellId = target, !.phyCell = target]
           f == [e EXCEPT !.tries = 0]
           Link(x) == /\ ~x.t310 /\ x.inSync
                      /\ x.syncs < N310 /\ x.frames < QoutFrames
                      /\ \/ x.syncs = 0 /\ x.frames = 0
                         \/ ~ue.t310 /\ ue.inSync /\ x.syncs = ue.syncs /\ x.frames = ue.frames
           Kept(x) == /\ x.state = "CONNECTED_HANDOVER" /\ x.nas = ue.nas /\ x.bid = ue.bid
                      /\ x.toActivate = ue.toActivate /\ x.t300 = ue.t300
                      /\ x.leave = ue.leave /\ x.failCount = ue.failCount /\ x.ok = ue.ok
<1>2. ue \in UeStates /\ ue.state = "CONNECTED_NORMALLY" /\ UNCHANGED <<run, failedAt>>
  BY <1>1 DEF IInv, TypeOK, RecvHandoverCommand, Becomes
<1>3. a \in UeStates
  BY <1>2, StateNames DEF UeStates
<1>4. /\ Kept(a) /\ (a.t310 <=> ~a.inSync)
      /\ a.inSync => a.syncs < N310 /\ a.frames < QoutFrames
      /\ KeepsLink(ue, a)
  BY <1>2 DEF UeStates, IInv, TimersOfState, CountsBelowLimits, KeepsLink
<1>5. SwitchToState(ue, "CONNECTED_HANDOVER") = a
  BY PlainSwitch
<1> HIDE DEF a
<1>6. b \in UeStates /\ Kept(b) /\ Link(b)
  <2>1. CASE a.t310
    <3>1. b = [a EXCEPT !.t310 = FALSE, !.syncs = 0, !.frames = 0, !.inSync = TRUE]
      BY <1>3, <2>1 DEF StopT310, ResetRlfParams, InitializeRlfParams, UeStates
    <3>2. b \in UeStates
      <4> HIDE DEF b
      <4> QED BY <1>3, <3>1, ZeroCounts, ZenonT(60) DEF UeStates
    <3>3. Kept(b) /\ ~b.t310 /\ b.inSync /\ b.syncs = 0 /\ b.frames = 0
      <4> HIDE DEF b
      <4> QED BY <1>3, <1>4, <3>1 DEF UeStates
    <3> QED BY <3>2, <3>3, Limits
  <2>2. CASE ~a.t310
    BY <1>3, <1>4, <2>2 DEF StopT310, KeepsLink
  <2> QED BY <2>1, <2>2
<1> HIDE DEF b
<1>7. c \in UeStates
  BY <1>6 DEF MacReset, UeStates
<1>8. Kept(c) /\ Link(c)
  BY <1>6 DEF MacReset, UeStates
<1> HIDE DEF c
<1>9. d \in UeStates
  <2>1. 0 \in Cells \cup {0}
    OBVIOUS
  <2> QED BY <1>7, <2>1 DEF PhyReset, UeStates
<1>10. Kept(d) /\ Link(d) /\ ~d.isConnected
  BY <1>7, <1>8 DEF PhyReset, UeStates
<1> HIDE DEF d
<1>11. e \in UeStates
  BY <1>9 DEF UeStates
<1>12. /\ Kept(e) /\ Link(e) /\ ~e.isConnected /\ e.cellId = target /\ e.phyCell = target
  BY <1>9, <1>10 DEF UeStates
<1>13. ue' = StartRandomAccess(e, "dedicated")
  BY <1>1, <1>5 DEF Becomes, DoRecvRrcConnectionReconfiguration, b, c, d
<1> HIDE DEF e
<1>14. f \in UeStates /\ f.ok = e.ok
  BY <1>11, ZeroCounts DEF UeStates
<1>15. ue' = [f EXCEPT !.preamble = TRUE, !.waiting = TRUE, !.raTimer = "dedicated"]
  BY <1>13, <1>14, ZenonT(60) DEF StartRandomAccess, SendRaPreamble, Asserted, UeStates
<1>16. ue' \in UeStates
  <2> HIDE DEF f
  <2> QED BY <1>14, <1>15, ZenonT(60) DEF UeStates
<1>17. /\ Kept(ue') /\ Link(ue') /\ ~ue'.isConnected /\ ue'.cellId = target
       /\ ue'.phyCell = target /\ ue'.raTimer = "dedicated" /\ ue'.tries = 0
  BY <1>11, <1>12, <1>15 DEF UeStates
<1>18. target # 0
  BY UeConstants
<1> HIDE DEF f
<1>19. IInv'
  BY <1>2, <1>16, <1>17, <1>18, Limits DEF IInv, NoAssertFails, TimersOfState, LayersAgree,
     SameCell,
       FailuresOfOneCell, RestingState, ReadBefore, Intentions, ResponseWindow,
       FailuresWhileCamped, CountsBelowLimits, TypeOK, Connected, Camped, Searching
<1>20. /\ ue.t310 \in BOOLEAN /\ ue.inSync \in BOOLEAN /\ ue'.t310 \in BOOLEAN
       /\ ue'.inSync \in BOOLEAN
  BY <1>2, <1>16 DEF UeStates
<1>21. LinkStep
  BY <1>2, <1>17, <1>20 DEF LinkStep
<1> QED BY <1>19, <1>21

(* A run is counted at least as far as either kind of indication needs.    *)
LEMMA RunLimit ==
  /\ MaxRun \in Nat /\ MaxRun >= 1
  /\ N310 * QoutFrames \in Nat /\ MaxRun >= N310 * QoutFrames
  /\ N311 * QinFrames \in Nat /\ MaxRun >= N311 * QinFrames
<1>1. \A m, n \in Nat : m * n \in Nat
  OBVIOUS
<1>2. \A m, n \in Nat \ {0} : m * n >= 1
  OBVIOUS
<1>3. N310 * QoutFrames \in Nat /\ N311 * QinFrames \in Nat
  BY <1>1, Limits
<1>4. N310 * QoutFrames >= 1
  BY <1>2, UeConstants
<1> QED
  BY <1>3, <1>4 DEF MaxRun

(* What a frame does to the monitoring of the link: a frame of another     *)
(* kind starts the counts over, the others are counted, make an            *)
(* indication, or with the last indication start or stop T310.             *)
Period(u) == IF u.inSync THEN QoutFrames ELSE QinFrames
Indications(u) == IF u.inSync THEN N310 ELSE N311
Counts(u, frame) == frame = (IF u.inSync THEN "bad" ELSE "good")
Monitored(u, frame, v) ==
  \/ /\ ~Counts(u, frame)
     /\ v.syncs = 0 /\ v.frames = 0 /\ v.t310 = u.t310 /\ v.inSync = u.inSync
  \/ /\ Counts(u, frame) /\ u.frames + 1 # Period(u)
     /\ v.syncs = u.syncs /\ v.frames = u.frames + 1 /\ v.t310 = u.t310 /\ v.inSync = u.inSync
  \/ /\ Counts(u, frame) /\ u.frames + 1 = Period(u) /\ u.syncs + 1 # Indications(u)
     /\ v.syncs = u.syncs + 1 /\ v.frames = 0 /\ v.t310 = u.t310 /\ v.inSync = u.inSync
  \/ /\ Counts(u, frame) /\ u.frames + 1 = Period(u) /\ u.syncs + 1 = Indications(u)
     /\ v.syncs = 0 /\ v.frames = 0 /\ v.t310 = u.inSync /\ v.inSync = ~u.inSync

KeepsButLink(u, v) ==
  /\ KeepsCell(u, v) /\ KeepsNas(u, v) /\ KeepsAccess(u, v) /\ KeepsRest(u, v)
  /\ v.isConnected = u.isConnected

(* Counting keeps the types, and so do the start and the end of T310.      *)
LEMMA CountTypes ==
  ASSUME NEW u \in UeStates, NEW m \in 0 .. QoutFrames + QinFrames, NEW n \in 0 .. N310 + N311
  PROVE  /\ [u EXCEPT !.frames = m] \in UeStates
         /\ [u EXCEPT !.frames = 0, !.syncs = 0] \in UeStates
         /\ [u EXCEPT !.syncs = n, !.frames = 0] \in UeStates
         /\ [u EXCEPT !.t310 = TRUE, !.inSync = FALSE, !.syncs = 0, !.frames = 0] \in UeStates
         /\ [u EXCEPT !.t310 = FALSE, !.inSync = TRUE, !.syncs = 0, !.frames = 0] \in UeStates
<1>1. 0 \in 0 .. N310 + N311 /\ 0 \in 0 .. QoutFrames + QinFrames
  BY ZeroCounts
<1>2. /\ [u EXCEPT !.frames = m] \in UeStates
      /\ [u EXCEPT !.frames = 0, !.syncs = 0] \in UeStates
      /\ [u EXCEPT !.syncs = n, !.frames = 0] \in UeStates
  BY <1>1, ZenonT(60) DEF UeStates
<1>3. /\ [u EXCEPT !.t310 = TRUE, !.inSync = FALSE, !.syncs = 0, !.frames = 0] \in UeStates
      /\ [u EXCEPT !.t310 = FALSE, !.inSync = TRUE, !.syncs = 0, !.frames = 0] \in UeStates
  BY <1>1, ZenonT(60) DEF UeStates
<1> QED BY <1>2, <1>3

(* What a frame does, for counters below their limits.                     *)
LEMMA FrameEffect ==
  ASSUME NEW u \in UeStates, NEW frame \in Frames, NEW v, v = RlfDetection(u, frame),
         u.frames < Period(u), u.syncs < Indications(u)
  PROVE  v \in UeStates /\ KeepsButLink(u, v) /\ Monitored(u, frame, v)
<1> DEFINE counted == [u EXCEPT !.frames = @ + 1]
           noted == [counted EXCEPT !.syncs = @ + 1]
<1> USE DEF KeepsButLink, KeepsCell, KeepsNas, KeepsAccess, KeepsRest
<1>1. u.inSync \in BOOLEAN /\ u.t310 \in BOOLEAN /\ u.syncs \in Nat /\ u.frames \in Nat
  BY Limits DEF UeStates
<1>2. u.frames + 1 \in 0 .. QoutFrames + QinFrames /\ u.syncs + 1 \in 0 .. N310 + N311
  BY <1>1, Limits DEF Period, Indications
<1>3. counted.frames = u.frames + 1 /\ noted.syncs = u.syncs + 1
  BY DEF UeStates
<1>4. CASE ~Counts(u, frame)
  <2>1. v = [u EXCEPT !.frames = 0, !.syncs = 0]
    BY <1>4 DEF RlfDetection, Counts
  <2>2. v \in UeStates
    BY <1>2, <2>1, CountTypes
  <2>3. /\ KeepsButLink(u, v) /\ v.syncs = 0 /\ v.frames = 0
        /\ v.t310 = u.t310 /\ v.inSync = u.inSync
    BY <2>1 DEF UeStates
  <2> QED BY <1>4, <2>2, <2>3 DEF Monitored
<1>5. CASE Counts(u, frame) /\ u.frames + 1 # Period(u)
  <2>1. v = [u EXCEPT !.frames = u.frames + 1]
    BY <1>3, <1>5 DEF RlfDetection, Counts, Period
  <2>2. v \in UeStates
    BY <1>2, <2>1, CountTypes
  <2>3. /\ KeepsButLink(u, v) /\ v.syncs = u.syncs /\ v.frames = u.frames + 1
        /\ v.t310 = u.t310 /\ v.inSync = u.inSync
    BY <2>1 DEF UeStates
  <2> HIDE DEF counted, noted
  <2> QED BY <1>5, <2>2, <2>3 DEF Monitored
<1>6. CASE Counts(u, frame) /\ u.frames + 1 = Period(u)
  <2>1. v = IF u.inSync THEN [DoNotifyOutOfSync(counted) EXCEPT !.frames = 0]
                        ELSE [DoNotifyInSync(counted) EXCEPT !.frames = 0]
    BY <1>1, <1>3, <1>6 DEF RlfDetection, Counts, Period
  <2>2. CASE u.syncs + 1 # Indications(u)
    <3>1. v = [u EXCEPT !.syncs = u.syncs + 1, !.frames = 0]
      BY <1>1, <1>3, <2>1, <2>2 DEF DoNotifyOutOfSync, DoNotifyInSync, Indications, UeStates
    <3>2. v \in UeStates
      BY <1>2, <3>1, CountTypes
    <3>3. /\ KeepsButLink(u, v) /\ v.syncs = u.syncs + 1 /\ v.frames = 0
          /\ v.t310 = u.t310 /\ v.inSync = u.inSync
      BY <3>1 DEF UeStates
    <3> HIDE DEF counted, noted
    <3> QED BY <1>6, <2>2, <3>2, <3>3 DEF Monitored
  <2>3. CASE u.syncs + 1 = Indications(u) /\ u.inSync
    <3>1. v = [u EXCEPT !.t310 = TRUE, !.inSync = FALSE, !.syncs = 0, !.frames = 0]
      BY <1>1, <1>3, <2>1, <2>3 DEF DoNotifyOutOfSync, StartInSyncDetection, Indications, UeStates
    <3> HIDE DEF counted, noted
    <3>2. v \in UeStates
      BY <1>2, <3>1, CountTypes
    <3>3. KeepsButLink(u, v) /\ v.syncs = 0 /\ v.frames = 0 /\ v.t310 = TRUE /\ v.inSync = FALSE
      BY <3>1 DEF UeStates
    <3>4. u.inSync = TRUE
      BY <1>1, <2>3
    <3> HIDE DEF counted, noted
    <3> QED BY <1>6, <2>3, <3>2, <3>3, <3>4 DEF Monitored
  <2>4. CASE u.syncs + 1 = Indications(u) /\ ~u.inSync
    <3>1. v = [u EXCEPT !.t310 = FALSE, !.inSync = TRUE, !.syncs = 0, !.frames = 0]
      BY <1>1, <1>3, <2>1, <2>4 DEF DoNotifyInSync, ResetRlfParams, InitializeRlfParams,
                                   Indications, UeStates
    <3> HIDE DEF counted, noted
    <3>2. v \in UeStates
      BY <1>2, <3>1, CountTypes
    <3>3. KeepsButLink(u, v) /\ v.syncs = 0 /\ v.frames = 0 /\ v.t310 = FALSE /\ v.inSync = TRUE
      BY <3>1 DEF UeStates
    <3>4. u.inSync = FALSE
      BY <1>1, <2>4
    <3> HIDE DEF counted, noted
    <3> QED BY <1>6, <2>4, <3>2, <3>3, <3>4 DEF Monitored
  <2> QED BY <2>2, <2>3, <2>4
<1> QED
  BY <1>4, <1>5, <1>6

(* A frame keeps the counters below their limits.                          *)
LEMMA FrameKeeps ==
  ASSUME IInv, FrameReceived
  PROVE  IInv'
<1>1. PICK frame \in Frames :
        /\ ue' = RlfDetection(ue, frame)
        /\ run' = [of |-> frame,
                   length |-> IF frame # run.of THEN 1
                              ELSE IF run.length < MaxRun THEN run.length + 1 ELSE MaxRun]
  BY DEF FrameReceived
<1>2. ue \in UeStates /\ ue.state = "CONNECTED_NORMALLY" /\ failedAt' = failedAt
  BY DEF IInv, TypeOK, FrameReceived, LayersAgree
<1>3. run' \in [of : Frames, length : 0 .. MaxRun]
  BY <1>1, RunLimit DEF IInv, TypeOK
<1>4. /\ (ue.t310 <=> ~ue.inSync)
      /\ ue.frames < Period(ue) /\ ue.syncs < Indications(ue)
      /\ ue.inSync \in BOOLEAN /\ ue.t310 \in BOOLEAN /\ ue.syncs \in Nat /\ ue.frames \in Nat
  BY <1>2, Limits DEF IInv, TimersOfState, CountsBelowLimits, UeStates, Period, Indications
<1>5. ue' \in UeStates /\ KeepsButLink(ue, ue') /\ Monitored(ue, frame, ue')
  BY <1>1, <1>2, <1>4, FrameEffect
<1>6. /\ (ue'.t310 <=> ~ue'.inSync)
      /\ ue'.inSync => ue'.syncs < N310 /\ ue'.frames < QoutFrames
      /\ ~ue'.inSync => ue'.syncs < N311 /\ ue'.frames < QinFrames
  BY <1>4, <1>5, Limits DEF Monitored, Period, Indications
<1> QED
  BY <1>2, <1>3, <1>5, <1>6 DEF IInv, NoAssertFails, TimersOfState, LayersAgree, SameCell,
       FailuresOfOneCell, RestingState, ReadBefore, Intentions, ResponseWindow,
       FailuresWhileCamped, CountsBelowLimits, TypeOK, Connected, Camped, Searching,
     KeepsButLink, KeepsCell, KeepsNas, KeepsAccess, KeepsRest

(* The types of the fields that the invariant compares.                    *)
LEMMA FieldTypes ==
  ASSUME NEW u \in UeStates
  PROVE  /\ u.nas \in {"OFF", "ACTIVE"} /\ u.raTimer \in {"none", "contention", "dedicated"}
         /\ u.inSync \in BOOLEAN /\ u.t310 \in BOOLEAN /\ u.t300 \in BOOLEAN
         /\ u.isConnected \in BOOLEAN /\ u.sib2 \in BOOLEAN /\ u.pending \in BOOLEAN
         /\ u.failCount \in Nat /\ u.cellId \in Cells \cup {0} /\ u.state \in States
BY Limits DEF UeStates

(* What the UE reads or wants besides leaves the invariant alone.          *)
LEMMA ReadKeeps ==
  ASSUME IInv, ue' \in UeStates, UNCHANGED <<run, failedAt>>,
         KeepsLink(ue, ue'), KeepsNas(ue, ue'), KeepsAccess(ue, ue'),
         ue'.state = ue.state, ue'.leave = ue.leave, ue'.failCount = ue.failCount,
         ue'.t300 = ue.t300, ue'.ok = ue.ok, ue'.cellId = ue.cellId, ue'.phyCell = ue.phyCell,
         ue.mib => ue'.mib, ue.pending => ue'.pending, ue.rach => ue'.rach,
         ue'.sib2 => ue'.rach \/ ue.sib2,
         ue.phyCell \in ue.measured => ue'.phyCell \in ue'.measured
  PROVE  IInv' /\ LinkStep
<1>1. TypeOK' /\ NoAssertFails'
  BY DEF IInv, TypeOK, NoAssertFails
<1>2. TimersOfState' /\ LayersAgree'
  BY DEF IInv, TimersOfState, LayersAgree, KeepsLink, KeepsAccess, KeepsNas
<1>3. SameCell' /\ FailuresOfOneCell' /\ RestingState'
  BY DEF IInv, SameCell, FailuresOfOneCell, RestingState
<1>4. ReadBefore' /\ Intentions'
  BY DEF IInv, ReadBefore, Intentions
<1>5. ResponseWindow' /\ FailuresWhileCamped' /\ CountsBelowLimits'
  BY DEF IInv, ResponseWindow, FailuresWhileCamped, CountsBelowLimits, KeepsLink, KeepsAccess
<1>6. LinkStep
  BY DEF LinkStep, KeepsLink
<1> QED
  BY <1>1, <1>2, <1>3, <1>4, <1>5, <1>6 DEF IInv

(* The MIB is read again in every state and waited for in two.             *)
LEMMA MibKeeps ==
  ASSUME IInv, RecvMib
  PROVE  IInv' /\ LinkStep
<1> DEFINE v == [ue EXCEPT !.mib = TRUE]
<1>1. ue \in UeStates /\ UNCHANGED <<run, failedAt>>
  BY DEF IInv, TypeOK, RecvMib, Becomes
<1>2. v \in UeStates
  BY <1>1 DEF UeStates
<1>3. CASE ue.state = "IDLE_WAIT_MIB"
  <2>1. ue' = SwitchToState(v, "IDLE_CAMPED_NORMALLY")
    BY <1>3 DEF RecvMib, Becomes, DoRecvMasterInformationBlock
  <2>2. MayCamp(v)
    BY <1>1, <1>2, <1>3, Limits, ZenonT(60) DEF MayCamp, IInv, TypeOK, NoAssertFails,
       TimersOfState, LayersAgree, SameCell,
        FailuresOfOneCell, RestingState, ReadBefore, Intentions, ResponseWindow,
        FailuresWhileCamped, CountsBelowLimits, UeStates, Camped, Connected, Searching
  <2>3. /\ v.failCount > 0 => failedAt' = v.cellId
        /\ v.failCount < ConnEstFailCount
    BY <1>1 DEF IInv, TypeOK, FailuresOfOneCell, UeStates
  <2> HIDE DEF v
  <2>4. Camps(v, ue')
    BY <2>1, <2>2, CampFields DEF MayCamp
  <2>5. TypeOK'
    BY <1>1, <2>3, <2>4 DEF IInv, TypeOK, Camps
  <2> QED
    BY <2>2, <2>3, <2>4, <2>5, CampKeeps
<1>4. CASE ue.state = "IDLE_WAIT_MIB_SIB1"
  <2>1. ue' = [ue EXCEPT !.mib = TRUE, !.state = "IDLE_WAIT_SIB1"]
    BY <1>1, <1>4, PlainSwitch, ZenonT(60) DEF RecvMib, Becomes, DoRecvMasterInformationBlock,
       UeStates
  <2>2. ue' \in UeStates
    BY <1>1, <2>1, StateNames, ZenonT(60) DEF UeStates
  <2>3. IInv'
    BY <1>1, <1>4, <2>1, <2>2 DEF IInv, TypeOK, NoAssertFails, TimersOfState, LayersAgree,
       SameCell,
        FailuresOfOneCell, RestingState, ReadBefore, Intentions, ResponseWindow,
        FailuresWhileCamped, CountsBelowLimits, UeStates, Camped, Connected, Searching
  <2>4. LinkStep
    BY <1>1, <1>4, <2>1 DEF LinkStep, UeStates, Connected
  <2> QED BY <2>3, <2>4
<1>5. CASE ue.state \notin {"IDLE_WAIT_MIB", "IDLE_WAIT_MIB_SIB1"}
  <2>1. ue' = v
    BY <1>5 DEF RecvMib, Becomes, DoRecvMasterInformationBlock
  <2>2. /\ KeepsCell(ue, v) /\ KeepsLink(ue, v) /\ KeepsNas(ue, v) /\ KeepsAccess(ue, v)
        /\ v.mib = TRUE
    BY <1>1 DEF UeStates, KeepsCell, KeepsLink, KeepsNas, KeepsAccess
  <2>3. /\ v.state = ue.state /\ v.pending = ue.pending /\ v.leave = ue.leave
        /\ v.failCount = ue.failCount /\ v.t300 = ue.t300 /\ v.rach = ue.rach /\ v.ok = ue.ok
    BY <1>1 DEF UeStates
  <2> HIDE DEF v
  <2> QED
    BY <1>1, <1>2, <2>1, <2>2, <2>3, ReadKeeps DEF KeepsCell
<1> QED
  BY <1>3, <1>4, <1>5

(* The strongest cell is one of the measured ones.                         *)
LEMMA SynchronizeEffect ==
  ASSUME NEW u \in UeStates, NEW next \in SynchronizeToStrongestCell(u)
  PROVE  \/ next = u
         \/ \E c \in u.measured : next = [u EXCEPT !.phyCell = c, !.state = "IDLE_WAIT_MIB_SIB1"]
<1>1. CASE u.measured \ u.acceptable = {}
  BY <1>1 DEF SynchronizeToStrongestCell
<1>2. CASE u.measured \ u.acceptable # {}
  <2>1. PICK c \in u.measured \ u.acceptable :
          next = SwitchToState([u EXCEPT !.phyCell = c], "IDLE_WAIT_MIB_SIB1")
    BY <1>2 DEF SynchronizeToStrongestCell
  <2>2. next = [u EXCEPT !.phyCell = c, !.state = "IDLE_WAIT_MIB_SIB1"]
    BY <2>1 DEF SwitchToState, UeStates
  <2> QED BY <2>2
<1> QED BY <1>1, <1>2

(* A UE that has no cell, no connection and no timer may look for a cell.  *)
MaySearch(u) ==
  /\ u \in UeStates /\ u.ok /\ (u.sib2 => u.rach)
  /\ ~u.t300 /\ ~u.t310 /\ u.raTimer = "none" /\ ~(u.preamble /\ u.waiting)
  /\ u.inSync /\ ~u.isConnected /\ u.syncs = 0 /\ u.frames = 0
  /\ u.nas = "OFF" /\ u.bid = 0 /\ u.toActivate = Bearers
  /\ u.cellId = 0 /\ u.failCount = 0 /\ u.state = "IDLE_CELL_SEARCH"

(* Such a UE synchronizes to the strongest cell, or goes on searching.     *)
LEMMA SearchKeeps ==
  ASSUME NEW u, MaySearch(u), ue' \in SynchronizeToStrongestCell(u), TypeOK,
         UNCHANGED <<run, failedAt>>
  PROVE  IInv' /\ LinkStep
<1>1. u \in UeStates
  BY DEF MaySearch
<1>2. CASE ue' = u
  <2>1. IInv'
    BY <1>2, Limits DEF MaySearch, IInv, NoAssertFails, TimersOfState, LayersAgree, SameCell,
       FailuresOfOneCell, RestingState, ReadBefore, Intentions, ResponseWindow,
       FailuresWhileCamped, CountsBelowLimits, TypeOK, Camped, Connected, Searching
  <2>2. LinkStep
    BY <1>2 DEF MaySearch, LinkStep, Connected
  <2> QED BY <2>1, <2>2
<1>3. ASSUME NEW c \in u.measured, ue' = [u EXCEPT !.phyCell = c, !.state = "IDLE_WAIT_MIB_SIB1"]
      PROVE  IInv' /\ LinkStep
  <2>1. c \in Cells
    BY <1>1 DEF UeStates
  <2>2. ue' \in UeStates
    BY <1>1, <1>3, <2>1, StateNames, ZenonT(60) DEF UeStates
  <2>3. KeepsLink(u, ue') /\ KeepsNas(u, ue') /\ KeepsAccess(u, ue')
    BY <1>1, <1>3 DEF UeStates, KeepsLink, KeepsNas, KeepsAccess
  <2>4. /\ ue'.state = "IDLE_WAIT_MIB_SIB1" /\ ue'.phyCell \in ue'.measured /\ ue'.cellId = u.cellId
        /\ ue'.t300 = u.t300 /\ ue'.failCount = u.failCount /\ ue'.ok = u.ok /\ ue'.sib2 = u.sib2
        /\ ue'.rach = u.rach
    BY <1>1, <1>3 DEF UeStates
  <2>5. IInv'
    BY <2>2, <2>3, <2>4, Limits DEF MaySearch, IInv, NoAssertFails, TimersOfState, LayersAgree,
       SameCell,
       FailuresOfOneCell, RestingState, ReadBefore, Intentions, ResponseWindow,
       FailuresWhileCamped, CountsBelowLimits, TypeOK, Camped, Connected, Searching,
       KeepsLink, KeepsNas, KeepsAccess
  <2>6. LinkStep
    BY <2>4 DEF LinkStep, Connected
  <2> QED BY <2>5, <2>6
<1> QED
  BY <1>1, <1>2, <1>3, SynchronizeEffect

(* Measurements are reported.                                              *)
LEMMA MeasuredKeeps ==
  ASSUME IInv, Measured
  PROVE  IInv' /\ LinkStep
<1>1. PICK cells \in SUBSET Cells : \E next \in DoReportUeMeasurements(ue, cells) : Becomes(next)
  BY DEF Measured
<1> DEFINE v == [ue EXCEPT !.measured = @ \cup cells]
<1>2. ue' \in DoReportUeMeasurements(ue, cells) /\ UNCHANGED <<run, failedAt>>
  BY <1>1 DEF Becomes
<1>3. ue \in UeStates /\ TypeOK
  BY DEF IInv, TypeOK
<1>4. v \in UeStates
  BY <1>3 DEF UeStates
<1>5. KeepsLink(ue, v) /\ KeepsNas(ue, v) /\ KeepsAccess(ue, v) /\ KeepsRest(ue, v)
  BY <1>3 DEF UeStates, KeepsLink, KeepsNas, KeepsAccess, KeepsRest
<1>6. /\ v.sib2 = ue.sib2 /\ v.cellId = ue.cellId /\ v.phyCell = ue.phyCell
      /\ ue.phyCell \in ue.measured => v.phyCell \in v.measured
  BY <1>3 DEF UeStates
<1>7. CASE ue.state = "IDLE_CELL_SEARCH"
  <2>1. ue' \in SynchronizeToStrongestCell(v)
    BY <1>2, <1>7 DEF DoReportUeMeasurements
  <2> HIDE DEF v
  <2>2. ue.failCount = 0
    BY <1>3, <1>7 DEF IInv, FailuresWhileCamped, Camped, UeStates
  <2>3. MaySearch(v)
    BY <1>3, <1>4, <1>5, <1>6, <1>7, <2>2, FieldTypes DEF MaySearch, IInv, NoAssertFails,
       TimersOfState, LayersAgree, SameCell,
       FailuresOfOneCell, RestingState, ReadBefore, Intentions, ResponseWindow,
       FailuresWhileCamped, CountsBelowLimits, KeepsLink, KeepsNas, KeepsAccess,
       KeepsRest, Camped, Connected, Searching
  <2> QED
    BY <1>2, <1>3, <2>1, <2>3, SearchKeeps
<1>8. CASE ue.state # "IDLE_CELL_SEARCH"
  <2>1. ue' = v
    BY <1>2, <1>8 DEF DoReportUeMeasurements
  <2> HIDE DEF v
  <2> QED
    BY <1>2, <1>4, <1>5, <1>6, <2>1, ReadKeeps DEF KeepsRest
<1> QED
  BY <1>7, <1>8

(* The cell whose SIB1 has been read is taken or passed over.              *)
LEMMA EvaluateKeeps ==
  ASSUME IInv, ue.state = "IDLE_WAIT_SIB1", NEW strong \in BOOLEAN,
         ue' \in EvaluateCellForSelection([ue EXCEPT !.sib1 = TRUE], strong),
         UNCHANGED <<run, failedAt>>
  PROVE  IInv' /\ LinkStep
<1> DEFINE v == [ue EXCEPT !.sib1 = TRUE]
           cell == v.phyCell
<1>1. ue \in UeStates /\ TypeOK
  BY DEF IInv, TypeOK
<1>2. v \in UeStates
  BY <1>1 DEF UeStates
<1>3. /\ KeepsLink(ue, v) /\ KeepsNas(ue, v) /\ KeepsAccess(ue, v) /\ KeepsRest(ue, v)
      /\ v.sib1 /\ v.sib2 = ue.sib2 /\ v.cellId = ue.cellId /\ v.phyCell = ue.phyCell
      /\ v.measured = ue.measured
  BY <1>1 DEF UeStates, KeepsLink, KeepsNas, KeepsAccess, KeepsRest
<1>4. ue' \in EvaluateCellForSelection(v, strong)
  OBVIOUS
<1> HIDE DEF v
<1>5. ue.failCount = 0 /\ ConnEstFailCount > 0
  BY <1>1, Limits DEF IInv, FailuresWhileCamped, Camped, UeStates
<1>6. /\ v.ok /\ v.mib /\ v.sib1 /\ (v.sib2 => v.rach) /\ cell \in v.measured
      /\ ~v.t300 /\ ~v.t310 /\ v.raTimer = "none" /\ ~(v.preamble /\ v.waiting)
      /\ v.inSync /\ ~v.isConnected /\ v.syncs = 0 /\ v.frames = 0
      /\ v.nas = "OFF" /\ v.bid = 0 /\ v.toActivate = Bearers
      /\ v.cellId = 0 /\ v.failCount = 0 /\ v.state = "IDLE_WAIT_SIB1"
  BY <1>1, <1>3, <1>5, FieldTypes DEF IInv, NoAssertFails, TimersOfState, LayersAgree, SameCell,
       FailuresOfOneCell, RestingState, ReadBefore, Intentions, ResponseWindow,
       FailuresWhileCamped, CountsBelowLimits, KeepsLink, KeepsNas, KeepsAccess, KeepsRest,
     Camped, Connected, Searching
<1>7. Asserted(v, v.mib /\ v.sib1 /\ cell \in v.measured) = v
  BY <1>2, <1>6 DEF Asserted, UeStates
<1>8. cell \in Cells /\ cell # 0
  BY <1>2, <1>6, UeConstants DEF UeStates
<1>9. CASE strong /\ cell \notin ClosedCells
  <2> DEFINE s == [v EXCEPT !.cellId = cell]
             t == [s EXCEPT !.pending = TRUE]
             x == IF s.pending THEN s ELSE t
  <2>1. s \in UeStates
    BY <1>2, <1>8 DEF UeStates
  <2>2. /\ KeepsLink(v, s) /\ KeepsNas(v, s) /\ KeepsAccess(v, s) /\ KeepsRest(v, s)
        /\ s.cellId = cell /\ s.phyCell = cell /\ s.sib2 = v.sib2
    BY <1>2 DEF UeStates, KeepsLink, KeepsNas, KeepsAccess, KeepsRest
  <2> HIDE DEF s
  <2>3. t \in UeStates
    BY <2>1 DEF UeStates
  <2>4. /\ KeepsLink(s, t) /\ KeepsNas(s, t) /\ KeepsAccess(s, t)
        /\ t.cellId = s.cellId /\ t.phyCell = s.phyCell /\ t.sib2 = s.sib2
        /\ t.rach = s.rach /\ t.mib = s.mib /\ t.ok = s.ok /\ t.t300 = s.t300
        /\ t.failCount = s.failCount
    BY <2>1 DEF UeStates, KeepsLink, KeepsNas, KeepsAccess
  <2> HIDE DEF t
  <2>5. MayCamp(s)
    BY <1>6, <1>8, <2>1, <2>2 DEF MayCamp, KeepsLink, KeepsNas, KeepsAccess, KeepsRest
  <2>6. MayCamp(t)
    BY <2>3, <2>4, <2>5 DEF MayCamp, KeepsLink, KeepsNas, KeepsAccess
  <2>7. s.failCount = 0 /\ t.failCount = 0
    BY <1>6, <2>2, <2>4 DEF KeepsRest
  <2>8. DoConnect(s) = t
    BY <1>6, <2>2 DEF DoConnect, Searching, KeepsRest, t
  <2>9. s.pending = v.pending
    BY <2>2 DEF KeepsRest
  <2>10. ue' = SwitchToState(x, "IDLE_CAMPED_NORMALLY")
    BY <1>4, <1>7, <1>9, <2>8, <2>9 DEF EvaluateCellForSelection, s
  <2>11. MayCamp(x) /\ x.failCount = 0
    BY <2>5, <2>6, <2>7
  <2> HIDE DEF x
  <2>12. Camps(x, ue')
    BY <2>10, <2>11, CampFields DEF MayCamp
  <2>13. TypeOK'
    BY <1>1, <1>5, <2>11, <2>12 DEF TypeOK, Camps
  <2>14. ~(x.failCount > 0)
    BY <2>11
  <2> QED
    BY <2>11, <2>12, <2>13, <2>14, CampKeeps
<1>10. CASE ~(strong /\ cell \notin ClosedCells)
  <2> DEFINE known == IF strong THEN v.acceptable \cup {cell} ELSE v.acceptable
             a == [v EXCEPT !.mib = FALSE, !.sib1 = FALSE, !.acceptable = known]
             b == [a EXCEPT !.state = "IDLE_CELL_SEARCH"]
  <2>1. known \in SUBSET ClosedCells
    BY <1>2, <1>10 DEF UeStates
  <2>2. ue' \in SynchronizeToStrongestCell(SwitchToState(a, "IDLE_CELL_SEARCH"))
    BY <1>4, <1>7, <1>10 DEF EvaluateCellForSelection
  <2> HIDE DEF known
  <2>3. a \in UeStates
    BY <1>2, <2>1 DEF UeStates
  <2>4. /\ KeepsLink(v, a) /\ KeepsNas(v, a) /\ KeepsAccess(v, a)
        /\ a.cellId = v.cellId /\ a.sib2 = v.sib2 /\ a.rach = v.rach /\ a.ok = v.ok
        /\ a.t300 = v.t300 /\ a.failCount = v.failCount
    BY <1>2 DEF UeStates, KeepsLink, KeepsNas, KeepsAccess
  <2>5. SwitchToState(a, "IDLE_CELL_SEARCH") = b
    BY PlainSwitch
  <2> HIDE DEF a
  <2>6. b \in UeStates
    BY <2>3, StateNames DEF UeStates
  <2>7. /\ KeepsLink(a, b) /\ KeepsNas(a, b) /\ KeepsAccess(a, b)
        /\ b.cellId = a.cellId /\ b.sib2 = a.sib2 /\ b.rach = a.rach /\ b.ok = a.ok
        /\ b.t300 = a.t300 /\ b.failCount = a.failCount /\ b.state = "IDLE_CELL_SEARCH"
    BY <2>3 DEF UeStates, KeepsLink, KeepsNas, KeepsAccess
  <2> HIDE DEF b
  <2>8. MaySearch(b)
    BY <1>6, <2>4, <2>6, <2>7 DEF MaySearch, KeepsLink, KeepsNas, KeepsAccess
  <2> QED
    BY <1>1, <2>2, <2>5, <2>8, SearchKeeps
<1> QED
  BY <1>9, <1>10

(* SIB1 is read, and evaluated by a UE that selects a cell.                *)
LEMMA Sib1Keeps ==
  ASSUME IInv, RecvSib1
  PROVE  IInv' /\ LinkStep
<1> DEFINE v == [ue EXCEPT !.sib1 = TRUE]
<1>1. PICK strong \in BOOLEAN :
        ue' \in DoRecvSystemInformationBlockType1(ue, strong) /\ UNCHANGED <<run, failedAt>>
  BY DEF RecvSib1, Becomes
<1>2. ue \in UeStates /\ TypeOK
  BY DEF IInv, TypeOK
<1>3. CASE ue.state = "IDLE_WAIT_SIB1"
  <2>1. ue' \in EvaluateCellForSelection(v, strong)
    <3>1. DoRecvSystemInformationBlockType1(ue, strong) = EvaluateCellForSelection(v, strong)
      BY <1>3 DEF DoRecvSystemInformationBlockType1, Camped, Connected
    <3> QED BY <1>1, <3>1
  <2> QED
    BY <1>1, <1>3, <2>1, EvaluateKeeps
<1>4. CASE ue.state # "IDLE_WAIT_SIB1" /\ ue' = ue
  BY <1>1, <1>2, <1>4, ReadKeeps DEF KeepsLink, KeepsNas, KeepsAccess
<1>5. CASE ue.state # "IDLE_WAIT_SIB1" /\ ue' = v
  <2>1. v \in UeStates
    BY <1>2 DEF UeStates
  <2>2. /\ KeepsLink(ue, v) /\ KeepsNas(ue, v) /\ KeepsAccess(ue, v) /\ KeepsRest(ue, v)
        /\ v.sib2 = ue.sib2 /\ v.cellId = ue.cellId /\ v.phyCell = ue.phyCell
        /\ v.measured = ue.measured
    BY <1>2 DEF UeStates, KeepsLink, KeepsNas, KeepsAccess, KeepsRest
  <2> HIDE DEF v
  <2> QED
    BY <1>1, <1>5, <2>1, <2>2, ReadKeeps DEF KeepsRest
<1>6. ue' \in {ue, v} \/ ue.state = "IDLE_WAIT_SIB1"
  BY <1>1 DEF DoRecvSystemInformationBlockType1
<1> QED
  BY <1>3, <1>4, <1>5, <1>6

(* A NAS or a RRC that has to connect does so on a camped UE.              *)
LEMMA WaitIsCamp ==
  ASSUME NEW u \in UeStates, u.pending
  PROVE  SwitchToState(u, "IDLE_WAIT_SIB2") = SwitchToState(u, "IDLE_CAMPED_NORMALLY")
<1> DEFINE a == [u EXCEPT !.state = "IDLE_WAIT_SIB2"]
           b == [u EXCEPT !.state = "IDLE_CAMPED_NORMALLY"]
<1>1. /\ [a EXCEPT !.state = "IDLE_WAIT_SIB2"] = [b EXCEPT !.state = "IDLE_WAIT_SIB2"]
      /\ a.sib2 = b.sib2 /\ a.pending = b.pending
  BY DEF UeStates
<1>2. SwitchToState(u, "IDLE_WAIT_SIB2") = WaitSib2(a)
  BY DEF SwitchToState
<1>3. SwitchToState(u, "IDLE_CAMPED_NORMALLY") = WaitSib2(b)
  BY DEF SwitchToState
<1> HIDE DEF a, b
<1> QED
  BY <1>1, <1>2, <1>3 DEF WaitSib2

(* What the NAS asks for is remembered, or done at once.                   *)
LEMMA ConnectKeeps ==
  ASSUME IInv, NasConnect
  PROVE  IInv' /\ LinkStep
<1> DEFINE u == [ue EXCEPT !.connect = FALSE]
           v == [u EXCEPT !.pending = TRUE]
<1>1. ue \in UeStates /\ TypeOK /\ UNCHANGED <<run, failedAt>>
  BY DEF IInv, TypeOK, NasConnect, Becomes
<1>2. u \in UeStates
  BY <1>1 DEF UeStates
<1>3. /\ KeepsCell(ue, u) /\ KeepsLink(ue, u) /\ KeepsNas(ue, u) /\ KeepsAccess(ue, u)
      /\ KeepsRest(ue, u)
  BY <1>1 DEF UeStates, KeepsCell, KeepsLink, KeepsNas, KeepsAccess, KeepsRest
<1>4. ue' = DoConnect(u)
  BY DEF NasConnect, Becomes
<1> HIDE DEF u
<1>5. v \in UeStates
  BY <1>2 DEF UeStates
<1>6. /\ KeepsCell(u, v) /\ KeepsLink(u, v) /\ KeepsNas(u, v) /\ KeepsAccess(u, v)
      /\ v.state = u.state /\ v.pending = TRUE /\ v.mib = u.mib /\ v.leave = u.leave
      /\ v.failCount = u.failCount /\ v.t300 = u.t300 /\ v.rach = u.rach /\ v.ok = u.ok
  BY <1>2 DEF UeStates, KeepsCell, KeepsLink, KeepsNas, KeepsAccess
<1>7. CASE u.state \in Searching \cup {"IDLE_START", "IDLE_WAIT_MIB"}
  <2>1. ue' = v
    BY <1>4, <1>7 DEF DoConnect, Searching
  <2> HIDE DEF v
  <2>2. KeepsLink(ue, v) /\ KeepsNas(ue, v) /\ KeepsAccess(ue, v)
    BY <1>3, <1>6 DEF KeepsLink, KeepsNas, KeepsAccess
  <2> QED
    BY <1>1, <1>3, <1>5, <1>6, <2>1, <2>2, ReadKeeps DEF KeepsRest, KeepsCell
<1>8. CASE u.state = "IDLE_CAMPED_NORMALLY"
  <2>1. ue' = SwitchToState(v, "IDLE_WAIT_SIB2")
    BY <1>4, <1>8 DEF DoConnect, Searching
  <2> HIDE DEF v
  <2>2. ue' = SwitchToState(v, "IDLE_CAMPED_NORMALLY")
    BY <1>5, <1>6, <2>1, WaitIsCamp
  <2>3. ue.state = "IDLE_CAMPED_NORMALLY"
    BY <1>3, <1>8 DEF KeepsRest
  <2>4. MayCamp(ue)
    BY <1>1, <2>3, FieldTypes DEF IInv, NoAssertFails, TimersOfState, LayersAgree, SameCell,
       FailuresOfOneCell, RestingState, ReadBefore, Intentions, ResponseWindow,
       FailuresWhileCamped, CountsBelowLimits, MayCamp, Camped, Connected, Searching
  <2>5. MayCamp(u)
    BY <1>2, <1>3, <2>4 DEF MayCamp, KeepsCell, KeepsLink, KeepsNas, KeepsAccess, KeepsRest
  <2>6. MayCamp(v)
    BY <1>5, <1>6, <2>5 DEF MayCamp, KeepsCell, KeepsLink, KeepsNas, KeepsAccess
  <2>7. Camps(v, ue')
    BY <2>2, <2>6, CampFields DEF MayCamp
  <2>8. v.failCount = ue.failCount /\ v.cellId = ue.cellId
    BY <1>3, <1>6 DEF KeepsRest, KeepsCell
  <2>9. TypeOK'
    BY <1>1, <2>7, <2>8 DEF TypeOK, Camps
  <2>10. v.failCount > 0 => failedAt' = v.cellId
    BY <1>1, <2>8 DEF IInv, FailuresOfOneCell
  <2> QED
    BY <2>6, <2>7, <2>9, <2>10, CampKeeps
<1>9. CASE u.state \notin Searching \cup {"IDLE_START", "IDLE_WAIT_MIB", "IDLE_CAMPED_NORMALLY"}
  <2>1. u.state # "CONNECTED_PHY_PROBLEM"
    BY <1>3 DEF KeepsRest, IInv, RestingState
  <2>2. ue' = Asserted(u, u.state # "CONNECTED_PHY_PROBLEM")
    BY <1>4, <1>9 DEF DoConnect
  <2>3. ue' = u
    BY <1>2, <2>1, <2>2 DEF Asserted, UeStates
  <2> QED
    BY <1>1, <1>2, <1>3, <2>3, ReadKeeps DEF KeepsRest, KeepsCell
<1> QED
  BY <1>7, <1>8, <1>9

(* SIB2 is read, and starts the access of a UE that waits for it.          *)
LEMMA Sib2Keeps ==
  ASSUME IInv, RecvSib2
  PROVE  IInv' /\ LinkStep
<1> DEFINE v == [ue EXCEPT !.sib2 = TRUE, !.rach = TRUE]
<1>1. ue \in UeStates /\ TypeOK /\ UNCHANGED <<run, failedAt>>
  BY DEF IInv, TypeOK, RecvSib2, Becomes
<1>2. v \in UeStates
  BY <1>1 DEF UeStates
<1>3. /\ KeepsLink(ue, v) /\ KeepsNas(ue, v) /\ KeepsAccess(ue, v)
      /\ v.sib2 = TRUE /\ v.rach = TRUE
  BY <1>1 DEF UeStates, KeepsLink, KeepsNas, KeepsAccess
<1>4. /\ v.state = ue.state /\ v.pending = ue.pending /\ v.mib = ue.mib /\ v.leave = ue.leave
      /\ v.failCount = ue.failCount /\ v.t300 = ue.t300 /\ v.ok = ue.ok
      /\ v.cellId = ue.cellId /\ v.phyCell = ue.phyCell /\ v.measured = ue.measured
  BY <1>1 DEF UeStates
<1>5. CASE ue.state = "IDLE_WAIT_SIB2"
  <2>1. ue.pending /\ ue.mib /\ ue.ok
    BY <1>5 DEF IInv, Intentions, ReadBefore, NoAssertFails, Camped
  <2>2. ue' = StartConnection(Asserted(v, ue.pending))
    BY <1>5 DEF RecvSib2, Becomes, DoRecvSystemInformation, Camped, Connected
  <2> HIDE DEF v
  <2>3. Asserted(v, ue.pending) = v
    BY <1>2, <2>1 DEF Asserted, UeStates
  <2>4. MayCamp(v)
    BY <1>1, <1>2, <1>3, <1>4, <1>5, <2>1, FieldTypes DEF IInv, NoAssertFails, TimersOfState,
       LayersAgree, SameCell,
       FailuresOfOneCell, RestingState, ReadBefore, Intentions, ResponseWindow,
       FailuresWhileCamped, CountsBelowLimits, MayCamp, KeepsLink, KeepsNas,
       KeepsAccess, Camped, Connected, Searching
  <2>5. ue' = Accessing(v)
    BY <1>3, <1>4, <2>1, <2>2, <2>3, <2>4, StartConnectionEffect DEF MayCamp
  <2>6. ue' = SwitchToState(v, "IDLE_CAMPED_NORMALLY")
    BY <1>3, <1>4, <2>1, <2>4, <2>5, CampEffect DEF MayCamp
  <2>7. Camps(v, ue')
    BY <2>4, <2>6, CampFields DEF MayCamp
  <2>8. TypeOK'
    BY <1>1, <1>4, <2>7 DEF TypeOK, Camps
  <2>9. v.failCount > 0 => failedAt' = v.cellId
    BY <1>1, <1>4 DEF IInv, FailuresOfOneCell
  <2> QED
    BY <2>4, <2>7, <2>8, <2>9, CampKeeps
<1>6. CASE ue.state # "IDLE_WAIT_SIB2"
  <2>1. ue' \in {ue, v}
    BY <1>6 DEF RecvSib2, Becomes, DoRecvSystemInformation
  <2>2. CASE ue' = ue
    BY <1>1, <2>2, ReadKeeps DEF KeepsLink, KeepsNas, KeepsAccess
  <2>3. CASE ue' = v
    <3> HIDE DEF v
    <3> QED BY <1>1, <1>2, <1>3, <1>4, <2>3, ReadKeeps
  <2> QED BY <2>1, <2>2, <2>3
<1> QED
  BY <1>5, <1>6

(* The UE starts searching or on a given cell.                             *)
LEMMA InitKeeps ==
  ASSUME Init
  PROVE  IInv /\ Counted
<1>1. Fresh \in UeStates
  BY StateNames, ZeroCounts, Limits DEF Fresh, UeStates
<1>2. run \in [of : Frames, length : 0 .. MaxRun] /\ failedAt \in Cells \cup {0} /\ run.length = 0
  BY RunLimit DEF Init, Frames
<1>3. CASE ue = DoStartCellSelection(Fresh)
  <2>1. ue = [Fresh EXCEPT !.state = "IDLE_CELL_SEARCH"]
    <3>1. Asserted(Fresh, Fresh.state = "IDLE_START") = Fresh
      BY ZenonT(60) DEF Asserted, Fresh
    <3> QED BY <1>3, <3>1, PlainSwitch DEF DoStartCellSelection
  <2>2. ue \in UeStates
    BY <1>1, <2>1, StateNames DEF UeStates
  <2>3. IInv
    BY <1>2, <2>1, <2>2, Limits DEF Fresh, IInv, NoAssertFails, TimersOfState, LayersAgree,
       SameCell,
       FailuresOfOneCell, RestingState, ReadBefore, Intentions, ResponseWindow,
       FailuresWhileCamped, CountsBelowLimits, TypeOK, Camped, Connected, Searching
  <2> QED
    BY <1>2, <2>1, <2>3, Limits DEF Counted, Fresh
<1>4. ASSUME NEW c \in Cells, ue = DoForceCampedOnEnb(Fresh, c)
      PROVE  IInv /\ Counted
  <2>1. ue = [Fresh EXCEPT !.cellId = c, !.phyCell = c, !.state = "IDLE_WAIT_MIB"]
    BY <1>4 DEF DoForceCampedOnEnb, SwitchToState, Fresh
  <2>2. ue \in UeStates
    BY <1>1, <2>1, StateNames, ZenonT(60) DEF UeStates
  <2>3. c # 0
    BY UeConstants
  <2>4. IInv
    BY <1>2, <2>1, <2>2, <2>3, Limits DEF Fresh, IInv, NoAssertFails, TimersOfState,
       LayersAgree, SameCell,
       FailuresOfOneCell, RestingState, ReadBefore, Intentions, ResponseWindow,
       FailuresWhileCamped, CountsBelowLimits, TypeOK, Camped, Connected, Searching
  <2> QED
    BY <1>2, <2>1, <2>4, Limits DEF Counted, Fresh
<1> QED
  BY <1>3, <1>4 DEF Init

(* Products of naturals, which the provers take no further by themselves.  *)
LEMMA Products ==
  ASSUME NEW m \in Nat, NEW n \in Nat, NEW p \in Nat
  PROVE  /\ m * p \in Nat /\ 0 * p = 0
         /\ (m + 1) * p = m * p + p
         /\ m < n => (m + 1) * p <= n * p
<1>1. m * p \in Nat /\ 0 * p = 0 /\ (m + 1) * p = m * p + p
  OBVIOUS
<1>2. ASSUME m < n PROVE (m + 1) * p <= n * p
  <2>1. PICK k \in Nat : n = (m + 1) + k
    <3>1. n - (m + 1) \in Nat /\ n = (m + 1) + (n - (m + 1))
      BY <1>2
    <3> QED BY <3>1
  <2>2. n * p = (m + 1) * p + k * p /\ k * p \in Nat /\ (m + 1) * p \in Nat
    BY <2>1
  <2> QED BY <2>2
<1> QED BY <1>1, <1>2

(* The frames counted so far, this one included, are at most all the       *)
(* frames that the next indication of the last kind needs, and the run is  *)
(* as long.                                                                *)
LEMMA RunGrows ==
  ASSUME IInv, Counted, NEW frame \in Frames, Counts(ue, frame),
         run' = [of |-> frame,
                 length |-> IF frame # run.of THEN 1
                            ELSE IF run.length < MaxRun THEN run.length + 1 ELSE MaxRun]
  PROVE  run'.of = frame /\ run'.length >= ue.syncs * Period(ue) + ue.frames + 1
<1> DEFINE counted == ue.syncs * Period(ue) + ue.frames
<1>1. /\ ue.syncs \in Nat /\ ue.frames \in Nat /\ Period(ue) \in Nat /\ Indications(ue) \in Nat
      /\ ue.frames < Period(ue) /\ ue.syncs < Indications(ue)
      /\ run.length \in Nat
  BY Limits, RunLimit DEF IInv, TypeOK, CountsBelowLimits, UeStates, Period, Indications
<1>2. ue.syncs * Period(ue) \in Nat
  BY <1>1, Products
<1>3. counted + 1 <= Indications(ue) * Period(ue)
  <2>1. /\ (ue.syncs + 1) * Period(ue) = ue.syncs * Period(ue) + Period(ue)
        /\ (ue.syncs + 1) * Period(ue) <= Indications(ue) * Period(ue)
        /\ Indications(ue) * Period(ue) \in Nat
    BY <1>1, Products
  <2> QED
    BY <1>1, <1>2, <2>1
<1>4. Indications(ue) * Period(ue) <= MaxRun /\ MaxRun \in Nat
  BY RunLimit DEF Indications, Period
<1>5. Indications(ue) * Period(ue) \in Nat
  BY <1>1, Products
<1>6. run.length >= counted /\ (counted > 0 => run.of = frame)
  BY DEF Counted, Period, Counts
<1>7. run'.of = frame
  OBVIOUS
<1>8. /\ frame # run.of => run'.length = 1
      /\ frame = run.of /\ run.length < MaxRun => run'.length = run.length + 1
      /\ frame = run.of /\ ~(run.length < MaxRun) => run'.length = MaxRun
  OBVIOUS
<1>9. counted \in Nat
  BY <1>1, <1>2
<1> HIDE DEF counted
<1>10. run'.length >= counted + 1
  BY <1>1, <1>3, <1>4, <1>5, <1>6, <1>8, <1>9
<1> QED
  BY <1>7, <1>10 DEF counted

(* A frame keeps the counts true, and makes or ends T310 only with the     *)
(* last indication.                                                        *)
LEMMA FrameCounted ==
  ASSUME IInv, Counted, FrameReceived
  PROVE  /\ Counted'
         /\ ~ue.t310 /\ ue'.t310 => run'.of = "bad" /\ run'.length >= N310 * QoutFrames
         /\ ue.t310 /\ ~ue'.t310 => run'.of = "good" /\ run'.length >= N311 * QinFrames
<1>1. PICK frame \in Frames :
        /\ ue' = RlfDetection(ue, frame)
        /\ run' = [of |-> frame,
                   length |-> IF frame # run.of THEN 1
                              ELSE IF run.length < MaxRun THEN run.length + 1 ELSE MaxRun]
  BY DEF FrameReceived
<1>2. /\ ue \in UeStates /\ ue' \in UeStates /\ (ue.t310 <=> ~ue.inSync)
      /\ ue.frames < Period(ue) /\ ue.syncs < Indications(ue)
      /\ run'.length \in Nat
  BY FrameKeeps, RunLimit DEF IInv, TypeOK, TimersOfState, CountsBelowLimits, Period, Indications
<1>3. Monitored(ue, frame, ue')
  BY <1>1, <1>2, FrameEffect
<1>4. /\ ue.inSync \in BOOLEAN /\ ue.t310 \in BOOLEAN /\ ue.syncs \in Nat /\ ue.frames \in Nat
      /\ Period(ue) \in Nat /\ Period(ue') \in Nat
  BY <1>2, Limits DEF UeStates, Period
<1>5. Counted' <=> /\ run'.length >= ue'.syncs * Period(ue') + ue'.frames
                   /\ ue'.syncs * Period(ue') + ue'.frames > 0 =>
                        run'.of = (IF ue'.inSync THEN "bad" ELSE "good")
  BY DEF Counted, Period
<1>6. 0 * Period(ue') + 0 = 0
  BY <1>4, Products
<1>7. CASE ~Counts(ue, frame)
  <2>1. ue'.syncs = 0 /\ ue'.frames = 0 /\ ue'.t310 = ue.t310
    BY <1>3, <1>7 DEF Monitored
  <2> QED BY <1>2, <1>5, <1>6, <2>1
<1>8. CASE Counts(ue, frame)
  <2>1. run'.of = frame /\ run'.length >= ue.syncs * Period(ue) + ue.frames + 1
    BY <1>1, <1>8, RunGrows
  <2>2. CASE ue.frames + 1 # Period(ue)
    <3>1. /\ ue'.syncs = ue.syncs /\ ue'.frames = ue.frames + 1 /\ ue'.t310 = ue.t310
          /\ ue'.inSync = ue.inSync
      BY <1>3, <1>8, <2>2 DEF Monitored
    <3>2. ue'.syncs * Period(ue') + ue'.frames = ue.syncs * Period(ue) + ue.frames + 1
      BY <1>4, <3>1, Products DEF Period
    <3> QED BY <1>5, <1>8, <2>1, <3>1, <3>2 DEF Counts
  <2>3. CASE ue.frames + 1 = Period(ue) /\ ue.syncs + 1 # Indications(ue)
    <3>1. /\ ue'.syncs = ue.syncs + 1 /\ ue'.frames = 0 /\ ue'.t310 = ue.t310
          /\ ue'.inSync = ue.inSync
      BY <1>3, <1>8, <2>3 DEF Monitored
    <3>2. Period(ue') = Period(ue)
      BY <3>1 DEF Period
    <3>3. /\ (ue.syncs + 1) * Period(ue) = ue.syncs * Period(ue) + Period(ue)
          /\ ue.syncs * Period(ue) \in Nat
      BY <1>4, Products
    <3>4. ue'.syncs * Period(ue') + ue'.frames = ue.syncs * Period(ue) + ue.frames + 1
      BY <1>4, <2>3, <3>1, <3>2, <3>3
    <3> QED BY <1>5, <1>8, <2>1, <3>1, <3>4 DEF Counts
  <2>4. CASE ue.frames + 1 = Period(ue) /\ ue.syncs + 1 = Indications(ue)
    <3>1. /\ ue'.syncs = 0 /\ ue'.frames = 0 /\ ue'.t310 = ue.inSync
      BY <1>3, <1>8, <2>4 DEF Monitored
    <3>2. Counted'
      BY <1>2, <1>5, <1>6, <3>1
    <3>3. ue.syncs * Period(ue) + ue.frames + 1 = Indications(ue) * Period(ue)
      <4>1. /\ (ue.syncs + 1) * Period(ue) = ue.syncs * Period(ue) + Period(ue)
            /\ ue.syncs * Period(ue) \in Nat
        BY <1>4, Products
      <4> QED BY <1>4, <2>4, <4>1
    <3>4. ue.inSync => frame = "bad" /\ Indications(ue) * Period(ue) = N310 * QoutFrames
      BY <1>8 DEF Counts, Indications, Period
    <3>5. ~ue.inSync => frame = "good" /\ Indications(ue) * Period(ue) = N311 * QinFrames
      BY <1>8 DEF Counts, Indications, Period
    <3> QED BY <1>2, <1>4, <2>1, <3>1, <3>2, <3>3, <3>4, <3>5
  <2> QED BY <2>2, <2>3, <2>4
<1> QED BY <1>7, <1>8

(* Other events neither count frames nor start T310.                       *)
LEMMA OtherCounted ==
  ASSUME IInv, Counted, IInv', LinkStep
  PROVE  /\ Counted'
         /\ ~(~ue.t310 /\ ue'.t310)
         /\ ~(ue.t310 /\ ~ue'.t310 /\ ue'.state = "CONNECTED_NORMALLY")
<1>1. /\ ue'.syncs \in Nat /\ ue'.frames \in Nat /\ Period(ue') \in Nat
      /\ run'.length \in Nat /\ run.length \in Nat /\ ue.syncs \in Nat /\ ue.frames \in Nat
      /\ Period(ue) \in Nat
  BY Limits, RunLimit DEF IInv, TypeOK, UeStates, Period
<1>2. Counted' <=> /\ run'.length >= ue'.syncs * Period(ue') + ue'.frames
                   /\ ue'.syncs * Period(ue') + ue'.frames > 0 =>
                        run'.of = (IF ue'.inSync THEN "bad" ELSE "good")
  BY DEF Counted, Period
<1>3. 0 * Period(ue') + 0 = 0
  BY <1>1, Products
<1>4. CASE ue'.state \notin Connected
  <2>1. ue'.syncs = 0 /\ ue'.frames = 0 /\ ~ue'.t310 /\ ue'.state # "CONNECTED_NORMALLY"
    BY <1>4 DEF IInv, CountsBelowLimits, TimersOfState, Connected
  <2> QED BY <1>1, <1>2, <1>3, <2>1
<1>5. CASE /\ ue'.t310 = ue.t310 /\ ue'.inSync = ue.inSync /\ ue'.syncs = ue.syncs
           /\ ue'.frames \in {0, ue.frames} /\ run' = run
  <2>1. Period(ue') = Period(ue)
    BY <1>5 DEF Period
  <2>2. /\ run.length >= ue.syncs * Period(ue) + ue.frames
        /\ ue.syncs * Period(ue) + ue.frames > 0 =>
             run.of = (IF ue.inSync THEN "bad" ELSE "good")
    BY DEF Counted, Period
  <2>3. ue.syncs * Period(ue) \in Nat
    BY <1>1, Products
  <2> DEFINE P == ue.syncs * Period(ue)
  <2>4. ue'.syncs * Period(ue') = P
    BY <1>5, <2>1
  <2> HIDE DEF P
  <2>5. P \in Nat
    BY <2>3 DEF P
  <2>6. /\ run.length >= P + ue.frames
        /\ (P + ue.frames > 0 => run.of = (IF ue.inSync THEN "bad" ELSE "good"))
    BY <2>2 DEF P
  <2>7. P + ue'.frames <= P + ue.frames
    BY <1>1, <1>5, <2>5
  <2>8. Counted'
    BY <1>1, <1>2, <1>5, <2>4, <2>5, <2>6, <2>7
  <2> QED BY <1>5, <2>8
<1>6. CASE /\ ~ue'.t310 /\ ue'.inSync /\ ue'.syncs = 0 /\ ue'.frames = 0
           /\ ue.t310 => ue'.state # "CONNECTED_NORMALLY"
  BY <1>1, <1>2, <1>3, <1>6
<1> QED BY <1>4, <1>5, <1>6 DEF LinkStep

(* What a step may do to T310 and to the run of frames: SyncEarned.        *)
EarnedStep ==
  /\ ~ue.t310 /\ ue'.t310 => run'.of = "bad" /\ run'.length >= N310 * QoutFrames
  /\ ue.t310 /\ ~ue'.t310 /\ ue'.state = "CONNECTED_NORMALLY" =>
       run'.of = "good" /\ run'.length >= N311 * QinFrames

(* Every step keeps the invariant.                                         *)
LEMMA StepKeeps ==
  ASSUME IInv, [Next]_vars
  PROVE  IInv' /\ (FrameReceived \/ LinkStep)
<1>1. CASE UNCHANGED vars
  <2>1. ue' \in UeStates
    BY <1>1 DEF IInv, TypeOK, vars
  <2> QED
    BY <1>1, <2>1, ReadKeeps DEF KeepsLink, KeepsNas, KeepsAccess, vars
<1>2. CASE Next
  BY <1>2, RaResponseKeeps, RaTimeoutKeeps, SetupKeeps, RejectKeeps, T300Keeps, HandoverKeeps,
     ReleaseKeeps, LinkFailureKeeps, FrameKeeps, MibKeeps, Sib1Keeps, Sib2Keeps, MeasuredKeeps,
     ConnectKeeps DEF Next
<1> QED
  BY <1>1, <1>2

(* The frames that are counted are the last ones, in every state.          *)
LEMMA StepCounted ==
  ASSUME IInv, Counted, [Next]_vars
  PROVE  Counted' /\ EarnedStep
<1>1. CASE FrameReceived
  BY <1>1, FrameCounted DEF EarnedStep
<1>2. CASE LinkStep
  BY <1>2, StepKeeps, OtherCounted DEF EarnedStep
<1> QED
  BY <1>1, <1>2, StepKeeps

(* The inductive invariant holds in every reachable state.                 *)
THEOREM UeInvariance == Spec => []IInv
<1>1. Init => IInv
  BY InitKeeps
<1>2. IInv /\ [Next]_vars => IInv'
  BY StepKeeps
<1> QED
  BY <1>1, <1>2, PTL DEF Spec

(* The fields of the UE keep their types: no counter of failures, of sync  *)
(* indications, of frames or of preambles leaves its range.                *)
THEOREM UeTypeCorrect == Spec => []TypeOK
<1>1. IInv => TypeOK
  BY DEF IInv
<1> QED
  BY <1>1, UeInvariance, PTL

(* No NS_ASSERT, NS_ABORT or NS_FATAL_ERROR of the RRC's handlers is reached *)
(* by any order of answers, timeouts, orders of the eNB and broadcasts.    *)
THEOREM NoAssertEverFails == Spec => []NoAssertFails
<1>1. IInv => NoAssertFails
  BY DEF IInv
<1> QED
  BY <1>1, UeInvariance, PTL

(* The timer a state waits for runs in that state and in no other: T300, the *)
(* response window, T310.                                                  *)
THEOREM TimersFollowState == Spec => []TimersOfState
<1>1. IInv => TimersOfState
  BY DEF IInv
<1> QED
  BY <1>1, UeInvariance, PTL

(* NAS, RRC and PHY agree on the connection, and the NAS has every bearer  *)
(* once, active or to be activated.                                        *)
THEOREM LayersAlwaysAgree == Spec => []LayersAgree
<1>1. IInv => LayersAgree
  BY DEF IInv
<1> QED
  BY <1>1, UeInvariance, PTL

(* The RRC has no cell while it searches, and otherwise that of the PHY.   *)
THEOREM OneCell == Spec => []SameCell
<1>1. IInv => SameCell
  BY DEF IInv
<1> QED
  BY <1>1, UeInvariance, PTL

(* The T300 failures that are counted happened at the cell the UE tries.   *)
THEOREM FailuresCountedPerCell == Spec => []FailuresOfOneCell
<1>1. IInv => FailuresOfOneCell
  BY DEF IInv
<1> QED
  BY <1>1, UeInvariance, PTL

(* T310 starts after N310 periods of bad frames in a row, and stops for a UE *)
(* that stays connected after N311 periods of good ones: Counted relates the *)
(* one counter of both to the frames that really came.                     *)
THEOREM SyncIsEarned == Spec => SyncEarned
<1>1. Init => Counted
  BY InitKeeps
<1>2. IInv /\ Counted /\ [Next]_vars => Counted'
  BY StepCounted
<1>3. IInv /\ Counted /\ [Next]_vars => [EarnedStep]_vars
  BY StepCounted
<1>4. Spec => [][EarnedStep]_vars
  BY <1>1, <1>2, <1>3, UeInvariance, PTL DEF Spec
<1> QED
  BY <1>4 DEF SyncEarned, EarnedStep
=============================================================================
