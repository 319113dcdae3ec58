---------------------------- MODULE UeConnection ----------------------------
(***************************************************************************)
(* How one UE gets a connection, watches it and gets it back: cell search  *)
(* and system information, random access, the RRC connection with T300,    *)
(* radio link monitoring with T310, handover seen from the UE, and the NAS *)
(* that asks for the connection and keeps the EPS bearers.                 *)
(*                                                                         *)
(* The RRC, the PHY, the MAC and the NAS of a UE call each other within    *)
(* one simulator event, so that a handler is a function from the UE's      *)
(* state to its next state.  What the handlers react to is free: which     *)
(* cells are measured and which one is strongest, whether a preamble or a  *)
(* connection request is answered, how good a frame is, when an eNB orders *)
(* a handover or releases the UE.  Simulated time is left out.             *)
(***************************************************************************)
EXTENDS Integers, FiniteSets

CONSTANTS
  Cells,                 \* cell ids
  ClosedCells,           \* cells of a closed subscriber group the UE is not in
  Bearers,               \* EPS bearers of the UE
  N310, N311,            \* m_n310, m_n311
  QoutFrames, QinFrames, \* frames of an evaluation period: m_numOfQoutEvalSf / 10, ...
  PreambleTransMax,      \* of SIB2
  ConnEstFailCount       \* of SIB2: m_connEstFailCountLimit

ASSUME UeConstants ==
  /\ Cells \subseteq Nat \ {0} /\ IsFiniteSet(Cells)
  /\ ClosedCells \subseteq Cells /\ ClosedCells # Cells
  /\ Bearers \in 1 .. 11
  /\ N310 \in 1 .. 20 /\ N311 \in 1 .. 10
  /\ QoutFrames \in Nat \ {0} /\ QinFrames \in Nat \ {0}
  /\ PreambleTransMax \in Nat \ {0}
  /\ ConnEstFailCount \in 1 .. 4

VARIABLES
  ue,       \* the UE: RRC, PHY, MAC and NAS
  run,      \* history: how many frames in a row were as good as the last one
  failedAt  \* history: the cell at which T300 expired last

vars == <<ue, run, failedAt>>

Searching == {"IDLE_CELL_SEARCH", "IDLE_WAIT_MIB_SIB1", "IDLE_WAIT_SIB1"}
Camped == {"IDLE_CAMPED_NORMALLY", "IDLE_WAIT_SIB2", "IDLE_RANDOM_ACCESS", "IDLE_CONNECTING"}
Connected == {"CONNECTED_NORMALLY", "CONNECTED_HANDOVER"}
States == Searching \cup Camped \cup Connected \cup {"IDLE_START", "IDLE_WAIT_MIB",
                                                     "CONNECTED_PHY_PROBLEM"}

Frames == {"bad", "middle", "good"}  \* below Qout, between Qout and Qin, above Qin

(* What a handler may start from and pass through.                         *)
UeStates ==
  [(* RRC *)
   state : States, pending : BOOLEAN, mib : BOOLEAN, sib1 : BOOLEAN, sib2 : BOOLEAN,
   leave : BOOLEAN, cellId : Cells \cup {0}, acceptable : SUBSET ClosedCells,
   measured : SUBSET Cells, failCount : 0 .. ConnEstFailCount, t300 : BOOLEAN,
   t310 : BOOLEAN, syncs : 0 .. N310 + N311,
   (* PHY *)
   phyCell : Cells \cup {0}, isConnected : BOOLEAN, inSync : BOOLEAN,
   frames : 0 .. QoutFrames + QinFrames, preamble : BOOLEAN,
   (* MAC *)
   rach : BOOLEAN, raTimer : {"none", "contention", "dedicated"}, waiting : BOOLEAN,
   tries : 0 .. PreambleTransMax + 1,
   (* NAS *)
   nas : {"OFF", "ACTIVE"}, connect : BOOLEAN, bid : 0 .. 11, toActivate : 0 .. Bearers,
   (* no NS_ASSERT, NS_ABORT or NS_FATAL_ERROR has failed *)
   ok : BOOLEAN]

(* Longer runs of frames need not be told apart.                           *)
MaxRun == IF N310 * QoutFrames > N311 * QinFrames THEN N310 * QoutFrames ELSE N311 * QinFrames

TypeOK ==
  /\ ue \in UeStates /\ ue.failCount < ConnEstFailCount
  /\ run \in [of : Frames, length : 0 .. MaxRun]
  /\ failedAt \in Cells \cup {0}

Asserted(u, cond) == [u EXCEPT !.ok = @ /\ cond]

----------------------------------------------------------------------------
(* PHY and MAC, as the RRC uses them.                                      *)
InitializeRlfParams(u) == [u EXCEPT !.frames = 0, !.inSync = TRUE]

PhyResetKeepPreamble(u) == [u EXCEPT !.phyCell = 0, !.isConnected = FALSE]
PhyReset(u) == [u EXCEPT !.phyCell = 0, !.isConnected = FALSE, !.preamble = FALSE]

NotifyConnectionSuccessful(u) == InitializeRlfParams([u EXCEPT !.isConnected = TRUE])

(* A reset does not take back that the MAC waits for a response.           *)
MacReset(u) == [u EXCEPT !.raTimer = "none", !.rach = FALSE]

(* StartWaitingForRaResponse comes 3 ms later in the code, and no reset    *)
(* cancels it; waiting at once allows more answers than that.              *)
SendRaPreamble(u, kind) ==
  LET v == [u EXCEPT !.preamble = TRUE, !.waiting = TRUE, !.raTimer = kind]
  IN  Asserted(v, kind = "contention" => u.rach)

StartRandomAccess(u, kind) == SendRaPreamble([u EXCEPT !.tries = 0], kind)

ResetRlfParams(u) == InitializeRlfParams([u EXCEPT !.t310 = FALSE, !.syncs = 0])

----------------------------------------------------------------------------
(* RRC: the way from a cell to a connection.                               *)
StartConnection(u) ==
  LET v == Asserted(u, u.mib /\ u.sib2)
  IN  StartRandomAccess([v EXCEPT !.pending = FALSE, !.state = "IDLE_RANDOM_ACCESS"],
                        "contention")

WaitSib2(u) ==
  LET v == [u EXCEPT !.state = "IDLE_WAIT_SIB2"]
  IN  IF u.sib2 THEN StartConnection(Asserted(v, u.pending)) ELSE v

SwitchToState(u, new) ==
  LET v == [u EXCEPT !.state = new]
  IN  CASE new = "IDLE_START" -> Asserted(v, u.leave)
        [] new = "IDLE_CAMPED_NORMALLY" /\ u.pending -> WaitSib2(v)
        [] new = "IDLE_WAIT_SIB2" -> WaitSib2(v)
        [] OTHER -> v

DoConnect(u) ==
  CASE u.state \in Searching \cup {"IDLE_START", "IDLE_WAIT_MIB"} -> [u EXCEPT !.pending = TRUE]
    [] u.state = "IDLE_CAMPED_NORMALLY" ->
         SwitchToState([u EXCEPT !.pending = TRUE], "IDLE_WAIT_SIB2")
    [] OTHER -> Asserted(u, u.state # "CONNECTED_PHY_PROBLEM")

DoStartCellSelection(u) ==
  SwitchToState(Asserted(u, u.state = "IDLE_START"), "IDLE_CELL_SEARCH")

(* m_storedMeasValues.clear ()                                             *)
NoMeasurements == {}

ForgetCellNot(u) == u
ForgetCell(u) == [u EXCEPT !.cellId = 0]

LeaveConnectedMode(u) ==
  LET v == MacReset(ResetRlfParams([u EXCEPT !.leave = TRUE,
                                            !.measured = NoMeasurements]))
      w == PhyReset([v EXCEPT !.mib = FALSE, !.sib1 = FALSE, !.sib2 = FALSE])
  IN  ForgetCell(DoStartCellSelection(SwitchToState(w, "IDLE_START")))

DoDisconnect(u) ==
  CASE u.state \in Searching \cup {"IDLE_START", "IDLE_WAIT_MIB", "IDLE_CAMPED_NORMALLY"} -> u
    [] u.state \in Connected \cup {"CONNECTED_PHY_PROBLEM"} -> LeaveConnectedMode(u)
    [] OTHER -> Asserted(u, FALSE)

----------------------------------------------------------------------------
(* NAS.                                                                    *)
NotifyConnectionFailed(u) == [u EXCEPT !.connect = TRUE]  \* Connect is scheduled for now

ActivateBearers(u) == [Asserted(u, u.bid + u.toActivate <= 11) EXCEPT
                         !.nas = "ACTIVE", !.bid = @ + u.toActivate, !.toActivate = 0]

RestoreBearersKeepTfts(u) == [u EXCEPT !.toActivate = Bearers]
RestoreBearers(u) == [u EXCEPT !.bid = 0, !.toActivate = Bearers]

NotifyConnectionReleased(u) == DoDisconnect([RestoreBearers(u) EXCEPT !.nas = "OFF"])

Released(u) == NotifyConnectionReleased(SwitchToState(u, "CONNECTED_PHY_PROBLEM"))

----------------------------------------------------------------------------
(* RRC: what comes from the other layers and from the eNB.                 *)
DoNotifyRandomAccessSuccessful(u) ==
  CASE u.state = "IDLE_RANDOM_ACCESS" -> [SwitchToState(u, "IDLE_CONNECTING") EXCEPT !.t300 = TRUE]
    [] u.state = "CONNECTED_HANDOVER" ->
         NotifyConnectionSuccessful(SwitchToState(u, "CONNECTED_NORMALLY"))
    [] OTHER -> Asserted(u, FALSE)

(* A UE that is already leaving ignores the order to leave.                *)
LeaveOnce(u) == IF u.leave THEN u ELSE Released([u EXCEPT !.leave = TRUE])

DoNotifyRandomAccessFailed(u) ==
  CASE u.state = "IDLE_RANDOM_ACCESS" ->
         NotifyConnectionFailed(SwitchToState(u, "IDLE_CAMPED_NORMALLY"))
    [] u.state = "CONNECTED_HANDOVER" -> LeaveOnce(u)
    [] OTHER -> Asserted(u, FALSE)

ConnectionEstablishedKeepLeave(u) == [u EXCEPT !.failCount = 0, !.t300 = FALSE]
ConnectionEstablishedKeepCount(u) == [u EXCEPT !.t300 = FALSE, !.leave = FALSE]
ConnectionEstablished(u) == [u EXCEPT !.failCount = 0, !.t300 = FALSE, !.leave = FALSE]

DoRecvRrcConnectionSetup(u) ==
  LET v == ActivateBearers(SwitchToState(ConnectionEstablished(u), "CONNECTED_NORMALLY"))
  IN  Asserted(NotifyConnectionSuccessful(v), u.state = "IDLE_CONNECTING" /\ u.syncs = 0)

(* After a reject, or a T300 that is not the last one: SIB2 is read again  *)
(* and the NAS asks once more.                                             *)
TryAgain(u) ==
  LET v == [MacReset(u) EXCEPT !.sib2 = FALSE]
  IN  NotifyConnectionFailed(SwitchToState(v, "IDLE_CAMPED_NORMALLY"))

DoRecvRrcConnectionReject(u) == TryAgain([u EXCEPT !.t300 = FALSE])

LastFailureLate(u) == u.failCount > ConnEstFailCount
LastFailure(u) == u.failCount >= ConnEstFailCount

ConnectionTimeout(u) ==
  LET v == [u EXCEPT !.failCount = @ + 1, !.t300 = FALSE]
  IN  IF LastFailure(v) THEN [Released(v) EXCEPT !.failCount = 0] ELSE TryAgain(v)

StopT310Not(u) == u
StopT310(u) == IF u.t310 THEN ResetRlfParams(u) ELSE u

(* The handover command.                                                   *)
DoRecvRrcConnectionReconfiguration(u, target) ==
  LET v == PhyReset(MacReset(StopT310(SwitchToState(u, "CONNECTED_HANDOVER"))))
  IN  StartRandomAccess([v EXCEPT !.cellId = target, !.phyCell = target], "dedicated")

DoRecvMasterInformationBlock(u) ==
  LET v == [u EXCEPT !.mib = TRUE]
  IN  CASE u.state = "IDLE_WAIT_MIB" -> SwitchToState(v, "IDLE_CAMPED_NORMALLY")
        [] u.state = "IDLE_WAIT_MIB_SIB1" -> SwitchToState(v, "IDLE_WAIT_SIB1")
        [] OTHER -> v

DoRecvSystemInformation(u) ==
  LET v == [u EXCEPT !.sib2 = TRUE, !.rach = TRUE]
  IN  CASE u.state = "IDLE_WAIT_SIB2" -> StartConnection(Asserted(v, u.pending))
        [] u.state \in (Camped \ {"IDLE_WAIT_SIB2"}) \cup Connected -> v
        [] OTHER -> u

(* Any measured cell that is not known to be closed may be the strongest;  *)
(* one below the cutoff of -140 dBm counts as not measured.                *)
SynchronizeToStrongestCell(u) ==
  LET Untried == u.measured \ u.acceptable
  IN  IF Untried = {} THEN {u}
      ELSE {SwitchToState([u EXCEPT !.phyCell = c], "IDLE_WAIT_MIB_SIB1") : c \in Untried}

(* "strong" tells whether the RSRP exceeds qRxLevMin of the cell.          *)
EvaluateCellForSelection(v, strong) ==
  LET cell == v.phyCell
      u == Asserted(v, v.mib /\ v.sib1 /\ cell \in v.measured)
      Suitable == [u EXCEPT !.cellId = cell]
      Unsuitable == [u EXCEPT !.mib = FALSE, !.sib1 = FALSE,
                              !.acceptable = IF strong THEN @ \cup {cell} ELSE @]
  IN  IF strong /\ cell \notin ClosedCells
      THEN {SwitchToState(IF u.pending THEN Suitable ELSE DoConnect(Suitable),
                          "IDLE_CAMPED_NORMALLY")}
      ELSE SynchronizeToStrongestCell(SwitchToState(Unsuitable, "IDLE_CELL_SEARCH"))

DoRecvSystemInformationBlockType1(u, strong) ==
  LET v == [u EXCEPT !.sib1 = TRUE]
  IN  CASE u.state = "IDLE_WAIT_SIB1" -> EvaluateCellForSelection(v, strong)
        [] u.state \in (Camped \ {"IDLE_WAIT_SIB2"}) \cup Connected -> {v}
        [] OTHER -> {u}

DoReportUeMeasurements(u, cells) ==
  LET v == [u EXCEPT !.measured = @ \cup cells]
  IN  IF u.state = "IDLE_CELL_SEARCH" THEN SynchronizeToStrongestCell(v) ELSE {v}

----------------------------------------------------------------------------
(* Radio link monitoring: m_noOfSyncIndications counts both kinds.         *)
StartInSyncDetectionKeepCount(u) == [u EXCEPT !.t310 = TRUE, !.inSync = FALSE]
StartInSyncDetection(u) == [u EXCEPT !.t310 = TRUE, !.inSync = FALSE, !.syncs = 0]

DoNotifyOutOfSync(u) ==
  LET v == [u EXCEPT !.syncs = @ + 1]
  IN  IF v.syncs = N310 THEN StartInSyncDetection(v) ELSE v

DoNotifyInSync(u) ==
  LET v == [u EXCEPT !.syncs = @ + 1]
  IN  IF v.syncs = N311 THEN ResetRlfParams(v) ELSE v

RlfDetection(u, frame) ==
  LET counted == [u EXCEPT !.frames = @ + 1]
      interrupted == [u EXCEPT !.frames = 0, !.syncs = 0]
      period == IF u.inSync THEN QoutFrames ELSE QinFrames
      notified == IF u.inSync THEN DoNotifyOutOfSync(counted) ELSE DoNotifyInSync(counted)
  IN  IF frame # (IF u.inSync THEN "bad" ELSE "good") THEN interrupted
      ELSE IF counted.frames = period THEN [notified EXCEPT !.frames = 0]
      ELSE counted

----------------------------------------------------------------------------
(* The simulation attaches the UE to a given cell, or lets it search.      *)
Fresh ==
  [state |-> "IDLE_START", pending |-> TRUE, mib |-> FALSE, sib1 |-> FALSE, sib2 |-> FALSE,
   leave |-> FALSE, cellId |-> 0, acceptable |-> {}, measured |-> {}, failCount |-> 0,
   t300 |-> FALSE, t310 |-> FALSE, syncs |-> 0, phyCell |-> 0, isConnected |-> FALSE,
   inSync |-> TRUE, frames |-> 0, preamble |-> FALSE, rach |-> FALSE, raTimer |-> "none",
   waiting |-> FALSE, tries |-> 0, nas |-> "OFF", connect |-> FALSE, bid |-> 0,
   toActivate |-> Bearers, ok |-> TRUE]

DoForceCampedOnEnb(u, cell) ==
  SwitchToState([u EXCEPT !.cellId = cell, !.phyCell = cell], "IDLE_WAIT_MIB")

Init ==
  /\ ue \in {DoStartCellSelection(Fresh)} \cup {DoForceCampedOnEnb(Fresh, c) : c \in Cells}
  /\ run = [of |-> "good", length |-> 0]
  /\ failedAt = 0

Becomes(next) == ue' = next /\ UNCHANGED <<run, failedAt>>

(* A preamble that the PHY remembers is answered.                          *)
RecvRaResponse ==
  LET heard == [ue EXCEPT !.preamble = FALSE]
  IN  /\ ue.preamble
      /\ Becomes(IF ue.waiting
                 THEN DoNotifyRandomAccessSuccessful([heard EXCEPT !.waiting = FALSE,
                                                                   !.raTimer = "none"])
                 ELSE heard)

RaResponseTimeout ==
  LET v == [ue EXCEPT !.waiting = FALSE, !.raTimer = "none", !.tries = @ + 1]
  IN  /\ ue.raTimer # "none"
      /\ Becomes(IF v.tries = PreambleTransMax + 1 THEN DoNotifyRandomAccessFailed(v)
                                                   ELSE SendRaPreamble(v, ue.raTimer))

(* The eNB answers a connection request, unless T300 comes first.          *)
RecvRrcConnectionSetup ==
  /\ ue.state = "IDLE_CONNECTING"
  /\ ue' = DoRecvRrcConnectionSetup(ue)
  /\ run' = [run EXCEPT !.length = 0]
  /\ UNCHANGED failedAt

RecvRrcConnectionReject ==
  ue.state = "IDLE_CONNECTING" /\ Becomes(DoRecvRrcConnectionReject(ue))

T300Expires ==
  /\ ue.t300
  /\ ue' = ConnectionTimeout(ue)
  /\ failedAt' = ue.cellId
  /\ UNCHANGED run

RecvHandoverCommand ==
  /\ ue.state = "CONNECTED_NORMALLY"
  /\ \E target \in Cells \ {ue.cellId} : Becomes(DoRecvRrcConnectionReconfiguration(ue, target))

RecvRrcConnectionRelease == ue.state \in Connected /\ Becomes(LeaveOnce(ue))

RadioLinkFailureDetected == ue.t310 /\ Becomes(Released([ue EXCEPT !.t310 = FALSE]))

FrameReceived ==
  /\ ue.isConnected
  /\ \E frame \in Frames :
       /\ ue' = RlfDetection(ue, frame)
       /\ run' = [of |-> frame,
                  length |-> IF frame # run.of THEN 1
                             ELSE IF run.length < MaxRun THEN run.length + 1 ELSE MaxRun]
  /\ UNCHANGED failedAt

(* Broadcasts: MIB and SIB1 come from the cell of the PHY, SIB2 goes to    *)
(* the UEs whose RRC has the cell.                                         *)
RecvMib == ue.phyCell # 0 /\ Becomes(DoRecvMasterInformationBlock(ue))

RecvSib1 ==
  /\ ue.phyCell # 0
  /\ \E strong \in BOOLEAN : \E next \in DoRecvSystemInformationBlockType1(ue, strong) :
       Becomes(next)

RecvSib2 == ue.cellId # 0 /\ Becomes(DoRecvSystemInformation(ue))

Measured ==
  \E cells \in SUBSET Cells : \E next \in DoReportUeMeasurements(ue, cells) : Becomes(next)

NasConnect == ue.connect /\ Becomes(DoConnect([ue EXCEPT !.connect = FALSE]))

Next ==
  \/ RecvRaResponse \/ RaResponseTimeout
  \/ RecvRrcConnectionSetup \/ RecvRrcConnectionReject \/ T300Expires
  \/ RecvHandoverCommand \/ RecvRrcConnectionRelease
  \/ RadioLinkFailureDetected \/ FrameReceived
  \/ RecvMib \/ RecvSib1 \/ RecvSib2 \/ Measured \/ NasConnect

Spec == Init /\ [][Next]_vars

(* Broadcasts and measurements are periodic and what the RRC schedules is  *)
(* run.  The radio is not hopeless: of the measurements of all cells, the  *)
(* readings of a cell, the preambles and the connection requests that come *)
(* again and again, one succeeds.                                          *)
AllMeasured == \E next \in DoReportUeMeasurements(ue, Cells) : Becomes(next)
StrongCellRead ==
  /\ ue.state = "IDLE_WAIT_SIB1"
  /\ \E next \in DoRecvSystemInformationBlockType1(ue, TRUE) : Becomes(next)
RaResponseInTime == ue.waiting /\ RecvRaResponse

Fairness ==
  /\ WF_vars(RecvMib) /\ WF_vars(RecvSib2) /\ WF_vars(NasConnect)
  /\ WF_vars(RaResponseTimeout) /\ WF_vars(T300Expires)
  /\ SF_vars(AllMeasured) /\ SF_vars(StrongCellRead)
  /\ SF_vars(RaResponseInTime) /\ SF_vars(RecvRrcConnectionSetup)

FairSpec == Spec /\ Fairness

----------------------------------------------------------------------------
(* Properties.                                                             *)

(* No assertion fails, whatever the order of answers, timers and orders of *)
(* the eNB: a preamble answered late finds no RRC that does not expect it, *)
(* random access starts only with the RACH configured by a SIB2 read since *)
(* the last reset of the MAC, a cell is evaluated with its MIB and its     *)
(* measurement at hand, and the count of sync indications is zero when a   *)
(* connection is set up (lte-ue-rrc.cc:1061).  Set-up, command and release *)
(* come without delay with the ideal RRC and so only in states that await  *)
(* them: the defaults at lines 1067 and 1159 are not what this is about.   *)
NoAssertFails == ue.ok

(* Between two events, every state in which the UE waits for a timer has   *)
(* that timer running and no other state has: T300 while it connects, a    *)
(* response window in random access and in handover, T310 only while it is *)
(* connected and the PHY looks for in-sync frames.                         *)
TimersOfState ==
  /\ ue.t300 <=> ue.state = "IDLE_CONNECTING"
  /\ ue.raTimer = "contention" <=> ue.state = "IDLE_RANDOM_ACCESS"
  /\ ue.raTimer = "dedicated" <=> ue.state = "CONNECTED_HANDOVER"
  /\ ue.t310 => ue.state = "CONNECTED_NORMALLY"
  /\ ue.t310 <=> ~ue.inSync

(* NAS, RRC and PHY agree on whether there is a connection, and the NAS    *)
(* has every bearer once: active with the connection, to be activated      *)
(* without it, through any number of failures and reconnections.           *)
LayersAgree ==
  /\ ue.nas = "ACTIVE" <=> ue.state \in Connected
  /\ ue.isConnected <=> ue.state = "CONNECTED_NORMALLY"
  /\ IF ue.nas = "ACTIVE" THEN ue.bid = Bearers /\ ue.toActivate = 0
                          ELSE ue.bid = 0 /\ ue.toActivate = Bearers

(* The RRC has a cell exactly when it is not searching, and the PHY then   *)
(* listens to the same cell: SIB2, sent by the RRC's cell, and MIB and     *)
(* SIB1, received by the PHY, are never of two cells.                      *)
SameCell ==
  IF ue.state \in Searching THEN ue.cellId = 0 ELSE ue.cellId # 0 /\ ue.cellId = ue.phyCell

(* T300 failures are counted per cell (lte-design.rst:2868, "a consecutive *)
(* connEstFailCount times on the same cell"): what is counted happened at  *)
(* the cell the UE is still trying.                                        *)
FailuresOfOneCell == ue.failCount > 0 => failedAt = ue.cellId

(* "only consecutive frames should be considered" (lte-ue-phy.cc:1606):    *)
(* T310 starts after N310 evaluation periods of bad frames without another *)
(* frame between them, since the connection was set up, and stops for a UE *)
(* that stays connected only after N311 periods of good ones, although one *)
(* counter serves both.                                                    *)
SyncEarned ==
  [][/\ ~ue.t310 /\ ue'.t310 => run'.of = "bad" /\ run'.length >= N310 * QoutFrames
     /\ ue.t310 /\ ~ue'.t310 /\ ue'.state = "CONNECTED_NORMALLY" =>
          run'.of = "good" /\ run'.length >= N311 * QinFrames]_vars

(* A UE that has no connection, at the start or after a radio link         *)
(* failure, a release or a failed handover, has one again, as the comment  *)
(* of EvaluateCellForSelection promises (lte-ue-rrc.cc:1335).              *)
Reconnects == ue.state # "CONNECTED_NORMALLY" ~> ue.state = "CONNECTED_NORMALLY"
=============================================================================
