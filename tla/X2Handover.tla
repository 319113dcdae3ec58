----------------------------- MODULE X2Handover -----------------------------
(***************************************************************************)
(* The X2 handover of one UE: the contexts (UeManager) that the eNBs keep  *)
(* for it, the RRC messages between the UE and the eNBs, the X2 messages   *)
(* between eNBs, the S1 answers of the core network, and the three timers  *)
(* of a context.  RRC is ideal: its messages take no time, so that they    *)
(* are all delivered, in order, before anything else happens.  X2 links    *)
(* are FIFO and take time.  Simulated time itself is left out; the         *)
(* comments at the guards say which durations they stand for.              *)
(* An NS_ASSERT or NS_FATAL_ERROR that fails ends the simulation: aborted. *)
(***************************************************************************)
EXTENDS Integers, SequencesExt

CONSTANTS
  Cells,         \* cell ids
  MaxRnti,       \* bound: contexts a cell creates
  MaxRntiFaulty, \* the same, in a simulation with a bad radio
  MaxData,       \* bound: downlink packets
  FaultSets      \* what may go wrong in a simulation, subsets of AllFaults

AllFaults == {"reject", "noPreamble", "lostResponse", "raFailure", "noContact", "rlf", "slow",
              "lateRelease"}

(* The target refuses handovers and links are slow, but the radio is good. *)
Refusals == {"reject", "noPreamble", "slow"}

ASSUME X2Constants ==
  /\ Cells \subseteq Nat \ {0} /\ IsFiniteSet(Cells) /\ Cells # {}
  /\ MaxRnti \in Nat \ {0} /\ MaxRntiFaulty \in 1 .. MaxRnti
  /\ MaxData \in Nat
  /\ FaultSets \subseteq SUBSET AllFaults

VARIABLES
  faults,      \* what may go wrong in this simulation
  ueMap,       \* m_ueMap of every eNB: the context under a cell and an RNTI
  lastRnti,    \* m_lastAllocatedRnti of every eNB
  ue,          \* the UE's state, m_cellId and m_rnti, m_leaveConnectedMode
  peer,        \* the eNB and RNTI the UE's RRC protocol sends to
  air,         \* RRC messages scheduled with no delay
  x2,          \* the X2 link between every two cells
  s1,          \* requests the core network has still to answer
  packets,     \* downlink packets that reached an eNB so far
  transmitted, \* packets handed to PDCP
  aborted

vars == <<faults, ueMap, lastRnti, ue, peer, air, x2, s1, packets, transmitted, aborted>>

GoodRadio == faults \subseteq Refusals
RntiBound == IF GoodRadio THEN MaxRnti ELSE MaxRntiFaulty

Keys == Cells \X (1 .. MaxRnti)
NoKey == <<0, 0>>
Links == {l \in Cells \X Cells : l[1] # l[2]}

(* UeManager::State; "ABSENT" stands for a key that m_ueMap does not hold. *)
Serving == {"CONNECTED_NORMALLY", "CONNECTION_RECONFIGURATION", "HANDOVER_PREPARATION",
            "HANDOVER_PATH_SWITCH"}
States == Serving \cup {"ABSENT", "INITIAL_RANDOM_ACCESS", "CONNECTION_SETUP", "ATTACH_REQUEST",
                        "HANDOVER_JOINING", "HANDOVER_LEAVING"}

(* A context: its running timeout, m_targetCellId, m_sourceCellId with     *)
(* m_sourceX2apId, m_pendingRrcConnectionReconfiguration, its GTP tunnel   *)
(* (named by the context of the attach that created it), whether the       *)
(* tunnel is in m_x2uTeidInfoMap, and m_packetBuffer.                      *)
Contexts == [state : States, timer : {"none", "request", "joining", "leaving"},
             target : Cells \cup {0}, source : Keys \cup {NoKey}, pending : BOOLEAN,
             teid : Keys \cup {NoKey}, x2u : BOOLEAN, buffer : SUBSET (1 .. MaxData)]

Absent == [state |-> "ABSENT", timer |-> "none", target |-> 0, source |-> NoKey,
           pending |-> FALSE, teid |-> NoKey, x2u |-> FALSE, buffer |-> {}]

HasUeManager(k) == k \in Keys /\ ueMap[k].state # "ABSENT"

UeStates == [state : {"idle", "connecting", "normal", "handover"},
             key : Keys \cup {NoKey}, leave : BOOLEAN]

AirMessages == [to : Keys \cup {NoKey},
                kind : {"request", "setup", "setupCompleted", "reconfiguration", "command",
                        "completed", "release", "remove"},
                new : Keys \cup {NoKey}]
X2Messages == [kind : {"request", "ack", "failure", "snStatus", "release", "cancel", "data"},
               old : Keys \cup {NoKey}, new : Keys \cup {NoKey}, teid : Keys \cup {NoKey},
               data : 0 .. MaxData]

TypeOK ==
  /\ faults \in FaultSets
  /\ ueMap \in [Keys -> Contexts]
  /\ lastRnti \in [Cells -> 0 .. MaxRnti]
  /\ ue \in UeStates
  /\ peer \in Keys
  /\ air \in Seq(AirMessages)
  /\ x2 \in [Links -> Seq(X2Messages)]
  /\ s1 \subseteq [kind : {"attach", "pathSwitch"}, key : Keys]
  /\ packets \in 0 .. MaxData
  /\ transmitted \subseteq 1 .. MaxData
  /\ aborted \in BOOLEAN

(* The UE is connected to the first cell.                                  *)
Home == <<Min(Cells), 1>>
Init ==
  /\ faults \in FaultSets
  /\ ueMap = [k \in Keys |->
                IF k = Home THEN [Absent EXCEPT !.state = "CONNECTED_NORMALLY", !.teid = Home]
                            ELSE Absent]
  /\ lastRnti = [c \in Cells |-> IF c = Home[1] THEN 1 ELSE 0]
  /\ ue = [state |-> "normal", key |-> Home, leave |-> FALSE]
  /\ peer = Home
  /\ air = <<>>
  /\ x2 = [l \in Links |-> <<>>]
  /\ s1 = {}
  /\ packets = 0
  /\ transmitted = {}
  /\ aborted = FALSE

----------------------------------------------------------------------------
(* Messages.                                                               *)
ToUe(kind, new) == [to |-> NoKey, kind |-> kind, new |-> new]
ToEnb(kind, k) == [to |-> k, kind |-> kind, new |-> NoKey]
X2(kind, old, new) == [kind |-> kind, old |-> old, new |-> new, teid |-> NoKey, data |-> 0]

Sent(q, from, to, m) == [q EXCEPT ![<<from, to>>] = Append(@, m)]
Received(l) == [x2 EXCEPT ![l] = Tail(@)]

(* Nothing happens while an RRC message is due, or once aborted.           *)
Quiet == ~aborted /\ air = <<>>

X2Head(l, kind) == Quiet /\ x2[l] # <<>> /\ Head(x2[l]).kind = kind
AirHead(kind) == ~aborted /\ air # <<>> /\ Head(air).kind = kind

(* X2 messages travel faster than timers run, cells are selected, random  *)
(* accesses end and measurements come in, unless links are slow.           *)
LinksIdle == "slow" \in faults \/ \A l \in Links : x2[l] = <<>>

----------------------------------------------------------------------------
(* LteEnbRrc::AddUe and RemoveUe, which cancels the timers of the context  *)
(* and erases its tunnel from m_x2uTeidInfoMap, whichever context of the   *)
(* cell the entry points to (UeManager::DoDispose).                        *)
NewKey(c) == <<c, lastRnti[c] + 1>>
AddUe(c, context) ==
  /\ lastRnti[c] < RntiBound
  /\ lastRnti' = [lastRnti EXCEPT ![c] = @ + 1]
  /\ ueMap' = [ueMap EXCEPT ![NewKey(c)] = context]
SharesTunnel(j, k) == j[1] = k[1] /\ ueMap[j].teid = ueMap[k].teid
RemoveUe(k) ==
  ueMap' = [j \in Keys |-> IF j = k THEN Absent
                           ELSE IF SharesTunnel(j, k) THEN [ueMap[j] EXCEPT !.x2u = FALSE]
                           ELSE ueMap[j]]

(* UeManager::SwitchToState (CONNECTED_NORMALLY): a reconfiguration that   *)
(* had to wait is sent at once.                                            *)
ToNormally(x) ==
  [x EXCEPT !.state = IF x.pending THEN "CONNECTION_RECONFIGURATION" ELSE "CONNECTED_NORMALLY",
            !.pending = FALSE]
DueReconfiguration(x) == IF x.pending THEN <<ToUe("reconfiguration", NoKey)>> ELSE <<>>

(* The contexts of cell c to which m_x2uTeidInfoMap sends a tunnel.        *)
X2uTeidInfo(c, teid) == {k \in Keys : k[1] = c /\ ueMap[k].x2u /\ ueMap[k].teid = teid}

----------------------------------------------------------------------------
(* What the handlers assert about a message: GetUeManager finds the        *)
(* context, and the state is one of the cases of the switch.               *)
InState(k, states) == HasUeManager(k) /\ ueMap[k].state \in states

AirAccepted(m) ==
  CASE m.kind \in {"command", "reconfiguration"} -> ue.state = "normal"
    [] m.kind = "setup" -> ue.state = "connecting"
    [] m.kind = "release" -> TRUE
    [] m.kind = "request" -> InState(m.to, {"INITIAL_RANDOM_ACCESS"})
    [] m.kind = "setupCompleted" -> InState(m.to, {"CONNECTION_SETUP"})
    [] m.kind = "completed" ->
         InState(m.to, {"CONNECTION_RECONFIGURATION", "CONNECTED_NORMALLY", "HANDOVER_LEAVING",
                        "HANDOVER_JOINING"})
    [] m.kind = "remove" -> HasUeManager(m.to)

(* EpcX2::RecvFromX2cSocket has no case for a HANDOVER CANCEL.             *)
X2Accepted(l, m) ==
  CASE m.kind = "request" -> X2uTeidInfo(l[2], m.teid) = {}
    [] m.kind = "ack" -> HasUeManager(m.old)
    [] m.kind = "failure" ->
         /\ InState(m.old, {"HANDOVER_PREPARATION", "HANDOVER_LEAVING"})
         /\ ueMap[m.old].target = l[1]
    [] m.kind = "snStatus" -> HasUeManager(m.new)
    [] m.kind = "release" -> InState(m.old, {"HANDOVER_LEAVING"})
    [] m.kind = "cancel" -> FALSE
    [] m.kind = "data" -> X2uTeidInfo(l[2], m.teid) # {}

S1Accepted(r) ==
  InState(r.key, {IF r.kind = "attach" THEN "ATTACH_REQUEST" ELSE "HANDOVER_PATH_SWITCH"})

Abort ==
  /\ ~aborted
  /\ \/ air # <<>> /\ ~AirAccepted(Head(air))
     \/ /\ air = <<>>
        /\ \/ \E l \in Links : x2[l] # <<>> /\ ~X2Accepted(l, Head(x2[l]))
           \/ \E r \in s1 : ~S1Accepted(r)
  /\ aborted' = TRUE
  /\ UNCHANGED <<faults, ueMap, lastRnti, ue, peer, air, x2, s1, packets, transmitted>>

----------------------------------------------------------------------------
(* The source eNB.                                                         *)

(* UeManager::PrepareHandover to cell t.                                   *)
PrepareHandover(k, t) ==
  /\ ueMap' = [ueMap EXCEPT ![k].state = "HANDOVER_PREPARATION", ![k].target = t]
  /\ x2' = Sent(x2, k[1], t, [X2("request", k, NoKey) EXCEPT !.teid = ueMap[k].teid])

(* DoTriggerHandover starts a handover of a CONNECTED_NORMALLY context     *)
(* only.                                                                   *)
HandoverAllowedAlways(k) == InState(k, Serving)
HandoverAllowed(k) == InState(k, {"CONNECTED_NORMALLY"})

(* A measurement report names a better cell t.  It reaches the eNB of the  *)
(* RRC protocol at once, and its handover algorithm picks t.               *)
MeasurementReport(t) ==
  /\ Quiet /\ LinksIdle
  /\ ue.state \in {"normal", "handover"}
  /\ peer[1] # t
  /\ HandoverAllowed(peer)
  /\ PrepareHandover(peer, t)
  /\ UNCHANGED <<faults, lastRnti, ue, peer, air, s1, packets, transmitted, aborted>>

RecvHandoverRequestAck(l) ==
  LET m == Head(x2[l]) IN
  /\ X2Head(l, "ack") /\ X2Accepted(l, m)
  /\ ueMap' = [ueMap EXCEPT ![m.old].state = "HANDOVER_LEAVING", ![m.old].timer = "leaving",
                            ![m.old].target = l[1]]
  /\ air' = Append(air, ToUe("command", m.new))
  /\ x2' = Sent(Received(l), l[2], l[1], X2("snStatus", m.old, m.new))
  /\ UNCHANGED <<faults, lastRnti, ue, peer, s1, packets, transmitted, aborted>>

(* HANDOVER PREPARATION FAILURE: before the handover command the UE stays; *)
(* after it, its connection is released and the context removed.           *)
AbortPreparationRemoves(k) ==
  /\ ueMap[k].state = "HANDOVER_PREPARATION"
  /\ RemoveUe(k)
  /\ UNCHANGED air
AbortPreparation(k) ==
  /\ ueMap[k].state = "HANDOVER_PREPARATION"
  /\ ueMap' = [ueMap EXCEPT ![k] = ToNormally(@)]
  /\ air' = air \o DueReconfiguration(ueMap[k])
SendRrcConnectionReleaseUntold(k) == RemoveUe(k) /\ UNCHANGED air
SendRrcConnectionRelease(k) ==
  /\ RemoveUe(k)
  /\ air' = Append(air, ToUe("release", NoKey))
RecvHandoverPreparationFailure(l) ==
  LET m == Head(x2[l]) IN
  /\ X2Head(l, "failure") /\ X2Accepted(l, m)
  /\ \/ AbortPreparation(m.old)
     \/ ueMap[m.old].state = "HANDOVER_LEAVING" /\ SendRrcConnectionRelease(m.old)
  /\ x2' = Received(l)
  /\ UNCHANGED <<faults, lastRnti, ue, peer, s1, packets, transmitted, aborted>>

RecvUeContextRelease(l) ==
  LET m == Head(x2[l]) IN
  /\ X2Head(l, "release") /\ X2Accepted(l, m)
  /\ RemoveUe(m.old)
  /\ x2' = Received(l)
  /\ UNCHANGED <<faults, lastRnti, ue, peer, air, s1, packets, transmitted, aborted>>

(* 500 ms after the command.  The target's 200 ms started earlier, so that *)
(* this needs answers that take longer than the 300 ms in between.         *)
HandoverLeavingTimeout(k) ==
  /\ Quiet
  /\ "lateRelease" \in faults
  /\ ueMap[k].timer = "leaving"
  /\ ~\E j \in Keys : ueMap[j].timer = "joining" /\ ueMap[j].source = k
  /\ SendRrcConnectionRelease(k)
  /\ x2' = Sent(x2, k[1], ueMap[k].target, X2("cancel", k, NoKey))
  /\ UNCHANGED <<faults, lastRnti, ue, peer, s1, packets, transmitted, aborted>>

----------------------------------------------------------------------------
(* The target eNB.                                                         *)

(* DoRecvHandoverRequest: not admitted; no preamble left, in which case    *)
(* the new context is removed again; or accepted.  The bearers set up for  *)
(* a joining UE leave a reconfiguration pending, and their tunnels must be *)
(* new to m_x2uTeidInfoMap.                                                *)
NotAdmitted == "reject" \in faults /\ UNCHANGED <<ueMap, lastRnti>>
NoPreamble(c) ==
  /\ "noPreamble" \in faults
  /\ lastRnti[c] < RntiBound
  /\ lastRnti' = [lastRnti EXCEPT ![c] = @ + 1]
  /\ UNCHANGED ueMap
Joining(m) ==
  [Absent EXCEPT !.state = "HANDOVER_JOINING", !.timer = "joining", !.source = m.old,
                 !.pending = TRUE, !.teid = m.teid, !.x2u = TRUE]
RecvHandoverRequest(l) ==
  LET m == Head(x2[l]) IN
  /\ X2Head(l, "request")
  /\ \/ /\ NotAdmitted \/ NoPreamble(l[2])
        /\ x2' = Sent(Received(l), l[2], l[1], X2("failure", m.old, NoKey))
     \/ /\ X2Accepted(l, m)
        /\ AddUe(l[2], Joining(m))
        /\ x2' = Sent(Received(l), l[2], l[1], X2("ack", m.old, NewKey(l[2])))
  /\ UNCHANGED <<faults, ue, peer, air, s1, packets, transmitted, aborted>>

(* RecvSnStatusTransfer only looks the context up.                         *)
RecvSnStatusTransfer(l) ==
  /\ X2Head(l, "snStatus") /\ X2Accepted(l, Head(x2[l]))
  /\ x2' = Received(l)
  /\ UNCHANGED <<faults, ueMap, lastRnti, ue, peer, air, s1, packets, transmitted, aborted>>

(* 200 ms after the request, if the UE has neither reached the target nor  *)
(* given up.                                                               *)
PrepFailedSilently(q, k) == q
PrepFailed(q, k) == Sent(q, k[1], ueMap[k].source[1], X2("failure", ueMap[k].source, NoKey))
HandoverJoiningTimeout(k) ==
  /\ Quiet
  /\ "noContact" \in faults /\ LinksIdle
  /\ ueMap[k].timer = "joining"
  /\ x2' = PrepFailed(x2, k)
  /\ RemoveUe(k)
  /\ UNCHANGED <<faults, lastRnti, ue, peer, air, s1, packets, transmitted, aborted>>

(* RecvRrcConnectionReconfigurationCompleted, in HANDOVER_JOINING: what    *)
(* was forwarded is transmitted, and the core asked to switch the path.    *)
JoinCompletedKeepTimer(k) ==
  /\ ueMap' = [ueMap EXCEPT ![k].state = "HANDOVER_PATH_SWITCH", ![k].buffer = {}]
  /\ transmitted' = transmitted \cup ueMap[k].buffer
  /\ s1' = s1 \cup {[kind |-> "pathSwitch", key |-> k]}
  /\ air' = Tail(air)
JoinCompletedNoFlush(k) ==
  /\ ueMap' = [ueMap EXCEPT ![k].state = "HANDOVER_PATH_SWITCH", ![k].timer = "none"]
  /\ s1' = s1 \cup {[kind |-> "pathSwitch", key |-> k]}
  /\ air' = Tail(air)
  /\ UNCHANGED transmitted
JoinCompleted(k) ==
  /\ ueMap' = [ueMap EXCEPT ![k].state = "HANDOVER_PATH_SWITCH", ![k].timer = "none",
                            ![k].buffer = {}]
  /\ transmitted' = transmitted \cup ueMap[k].buffer
  /\ s1' = s1 \cup {[kind |-> "pathSwitch", key |-> k]}
  /\ air' = Tail(air)
RecvReconfigurationCompleted ==
  LET m == Head(air) IN
  /\ AirHead("completed") /\ AirAccepted(m)
  /\ \/ ueMap[m.to].state = "HANDOVER_JOINING" /\ JoinCompleted(m.to)
     \/ /\ ueMap[m.to].state = "CONNECTION_RECONFIGURATION"
        /\ ueMap' = [ueMap EXCEPT ![m.to] = ToNormally(@)]
        /\ air' = Tail(air) \o DueReconfiguration(ueMap[m.to])
        /\ UNCHANGED <<s1, transmitted>>
     \/ /\ ueMap[m.to].state \in {"CONNECTED_NORMALLY", "HANDOVER_LEAVING"}
        /\ air' = Tail(air)
        /\ UNCHANGED <<ueMap, s1, transmitted>>
  /\ UNCHANGED <<faults, lastRnti, ue, peer, x2, packets, aborted>>

(* The path is switched: UeManager::SendUeContextRelease.                  *)
PathSwitchRequestAcknowledge(r) ==
  /\ Quiet
  /\ r \in s1 /\ r.kind = "pathSwitch" /\ S1Accepted(r)
  /\ x2' = Sent(x2, r.key[1], ueMap[r.key].source[1], X2("release", ueMap[r.key].source, r.key))
  /\ ueMap' = [ueMap EXCEPT ![r.key] = ToNormally(@)]
  /\ air' = air \o DueReconfiguration(ueMap[r.key])
  /\ s1' = s1 \ {r}
  /\ UNCHANGED <<faults, lastRnti, ue, peer, packets, transmitted, aborted>>

----------------------------------------------------------------------------
(* Downlink data: UeManager::SendData at context k, q being the X2 links   *)
(* without the packet.                                                     *)
SendData(k, p, q) ==
  /\ transmitted' = IF ueMap[k].state \in Serving THEN transmitted \cup {p} ELSE transmitted
  /\ ueMap' = IF ueMap[k].state = "HANDOVER_JOINING"
                THEN [ueMap EXCEPT ![k].buffer = @ \cup {p}] ELSE ueMap
  /\ x2' = IF ueMap[k].state = "HANDOVER_LEAVING"
             THEN Sent(q, k[1], ueMap[k].target,
                       [X2("data", NoKey, NoKey) EXCEPT !.teid = ueMap[k].teid, !.data = p])
             ELSE q

(* A packet from the core network, over the old path or the new one.  What *)
(* arrives for a tunnel the eNB does not know (any more) is discarded.     *)
RecvS1uData(k) ==
  /\ Quiet
  /\ packets < MaxData
  /\ InState(k, Serving \cup {"HANDOVER_LEAVING"})
  /\ packets' = packets + 1
  /\ SendData(k, packets + 1, x2)
  /\ UNCHANGED <<faults, lastRnti, ue, peer, air, s1, aborted>>

RecvUeData(l) ==
  LET m == Head(x2[l]) IN
  /\ X2Head(l, "data") /\ X2Accepted(l, m)
  /\ \E k \in X2uTeidInfo(l[2], m.teid) : SendData(k, m.data, Received(l))
  /\ UNCHANGED <<faults, lastRnti, ue, peer, air, s1, packets, aborted>>

----------------------------------------------------------------------------
(* The UE.                                                                 *)

(* The handover command: the UE moves to the target and starts a random    *)
(* access there; its protocol object still points to the source.           *)
RecvHandoverCommand ==
  /\ AirHead("command") /\ AirAccepted(Head(air))
  /\ ue' = [ue EXCEPT !.state = "handover", !.key = Head(air).new]
  /\ air' = Tail(air)
  /\ UNCHANGED <<faults, ueMap, lastRnti, peer, x2, s1, packets, transmitted, aborted>>

(* A reconfiguration without mobility is completed at once.                *)
RecvReconfiguration ==
  /\ AirHead("reconfiguration") /\ AirAccepted(Head(air))
  /\ peer' = ue.key
  /\ air' = Append(Tail(air), ToEnb("completed", ue.key))
  /\ UNCHANGED <<faults, ueMap, lastRnti, ue, x2, s1, packets, transmitted, aborted>>

RandomAccessSuccessful ==
  /\ Quiet /\ LinksIdle
  /\ ue.state = "handover"
  /\ ue' = [ue EXCEPT !.state = "normal"]
  /\ peer' = ue.key
  /\ air' = Append(air, ToEnb("completed", ue.key))
  /\ UNCHANGED <<faults, ueMap, lastRnti, x2, s1, packets, transmitted, aborted>>

(* SendIdealUeContextRemoveRequest to the current cell, and               *)
(* LeaveConnectedMode, which EpcUeNas calls back at once.                  *)
LeaveCellFirst(messages) ==
  /\ peer' = NoKey
  /\ air' = Append(messages, ToEnb("remove", NoKey))
  /\ ue' = [state |-> "idle", key |-> NoKey, leave |-> TRUE]
Leave(messages) ==
  /\ peer' = ue.key
  /\ air' = Append(messages, ToEnb("remove", ue.key))
  /\ ue' = [state |-> "idle", key |-> NoKey, leave |-> TRUE]

RandomAccessFailed ==
  /\ Quiet /\ LinksIdle
  /\ "raFailure" \in faults
  /\ ue.state = "handover" /\ ~ue.leave
  /\ Leave(air)
  /\ UNCHANGED <<faults, ueMap, lastRnti, x2, s1, packets, transmitted, aborted>>

(* T310 runs for 1 s and restarts with every connection and handover: the  *)
(* answers of the core and the leaving timeout are over by then.           *)
RadioLinkFailure ==
  /\ Quiet
  /\ "rlf" \in faults
  /\ ue.state = "normal"
  /\ s1 = {} /\ \A k \in Keys : ueMap[k].state # "HANDOVER_LEAVING"
  /\ Leave(air)
  /\ UNCHANGED <<faults, ueMap, lastRnti, x2, s1, packets, transmitted, aborted>>

RecvRrcConnectionRelease ==
  /\ AirHead("release")
  /\ IF ue.leave THEN air' = Tail(air) /\ UNCHANGED <<ue, peer>> ELSE Leave(Tail(air))
  /\ UNCHANGED <<faults, ueMap, lastRnti, x2, s1, packets, transmitted, aborted>>

(* The eNB's DoRecvIdealUeContextRemoveRequest: a joining UE that gives up *)
(* fails the handover at the source.                                       *)
RecvIdealUeContextRemoveRequest ==
  LET k == Head(air).to IN
  /\ AirHead("remove") /\ AirAccepted(Head(air))
  /\ x2' = IF ueMap[k].state = "HANDOVER_JOINING" THEN PrepFailed(x2, k) ELSE x2
  /\ RemoveUe(k)
  /\ air' = Tail(air)
  /\ UNCHANGED <<faults, lastRnti, ue, peer, s1, packets, transmitted, aborted>>

----------------------------------------------------------------------------
(* Connection establishment, after cell selection.  The response of a      *)
(* random access may be lost.                                              *)
Accessing == [Absent EXCEPT !.state = "INITIAL_RANDOM_ACCESS", !.timer = "request"]
RandomAccess(c) ==
  /\ Quiet
  /\ ue.state = "idle" /\ LinksIdle
  /\ AddUe(c, Accessing)
  /\ \/ "lostResponse" \in faults /\ UNCHANGED <<ue, peer, air>>
     \/ /\ ue' = [ue EXCEPT !.state = "connecting", !.key = NewKey(c)]
        /\ peer' = NewKey(c)
        /\ air' = Append(air, ToEnb("request", NewKey(c)))
  /\ UNCHANGED <<faults, x2, s1, packets, transmitted, aborted>>

RecvRrcConnectionRequest ==
  LET k == Head(air).to IN
  /\ AirHead("request") /\ AirAccepted(Head(air))
  /\ ueMap' = [ueMap EXCEPT ![k].state = "CONNECTION_SETUP", ![k].timer = "none"]
  /\ air' = Append(Tail(air), ToUe("setup", NoKey))
  /\ UNCHANGED <<faults, lastRnti, ue, peer, x2, s1, packets, transmitted, aborted>>

RecvRrcConnectionSetup ==
  /\ AirHead("setup") /\ AirAccepted(Head(air))
  /\ ue' = [ue EXCEPT !.state = "normal", !.leave = FALSE]
  /\ air' = Append(Tail(air), ToEnb("setupCompleted", peer))
  /\ UNCHANGED <<faults, ueMap, lastRnti, peer, x2, s1, packets, transmitted, aborted>>

RecvRrcConnectionSetupCompleted ==
  LET k == Head(air).to IN
  /\ AirHead("setupCompleted") /\ AirAccepted(Head(air))
  /\ ueMap' = [ueMap EXCEPT ![k].state = "ATTACH_REQUEST"]
  /\ s1' = s1 \cup {[kind |-> "attach", key |-> k]}
  /\ air' = Tail(air)
  /\ UNCHANGED <<faults, lastRnti, ue, peer, x2, packets, transmitted, aborted>>

(* InitialContextSetupRequest, then SetupDataRadioBearer, which sends a    *)
(* reconfiguration to the UE.                                              *)
InitialContextSetup(r) ==
  /\ Quiet
  /\ r \in s1 /\ r.kind = "attach" /\ S1Accepted(r)
  /\ ueMap' = [ueMap EXCEPT ![r.key].state = "CONNECTION_RECONFIGURATION", ![r.key].teid = r.key]
  /\ air' = Append(air, ToUe("reconfiguration", NoKey))
  /\ s1' = s1 \ {r}
  /\ UNCHANGED <<faults, lastRnti, ue, peer, x2, packets, transmitted, aborted>>

ConnectionRequestTimeout(k) ==
  /\ Quiet
  /\ ueMap[k].timer = "request"
  /\ RemoveUe(k)
  /\ UNCHANGED <<faults, lastRnti, ue, peer, air, x2, s1, packets, transmitted, aborted>>

----------------------------------------------------------------------------
X2Step(l) ==
  \/ RecvHandoverRequest(l) \/ RecvHandoverRequestAck(l) \/ RecvHandoverPreparationFailure(l)
  \/ RecvSnStatusTransfer(l) \/ RecvUeContextRelease(l) \/ RecvUeData(l)
AirStep ==
  \/ RecvHandoverCommand \/ RecvReconfiguration \/ RecvRrcConnectionRelease
  \/ RecvRrcConnectionSetup \/ RecvRrcConnectionRequest \/ RecvRrcConnectionSetupCompleted
  \/ RecvReconfigurationCompleted \/ RecvIdealUeContextRemoveRequest
S1Step == \E r \in s1 : PathSwitchRequestAcknowledge(r) \/ InitialContextSetup(r)
RandomAccessEnds == RandomAccessSuccessful \/ RandomAccessFailed
TimeoutOf(k) ==
  HandoverJoiningTimeout(k) \/ HandoverLeavingTimeout(k) \/ ConnectionRequestTimeout(k)

Next ==
  \/ \E t \in Cells : MeasurementReport(t) \/ RandomAccess(t)
  \/ \E k \in Keys : RecvS1uData(k) \/ TimeoutOf(k)
  \/ \E l \in Links : X2Step(l)
  \/ AirStep \/ S1Step \/ RandomAccessEnds \/ RadioLinkFailure \/ Abort

Spec == Init /\ [][Next]_vars

(* The simulator executes every event that it has scheduled.               *)
Fairness ==
  /\ WF_vars(AirStep \/ Abort)
  /\ \A l \in Links : WF_vars(X2Step(l))
  /\ WF_vars(S1Step)
  /\ WF_vars(RandomAccessEnds)
  /\ \A k \in Keys : WF_vars(ConnectionRequestTimeout(k))
FairSpec == Spec /\ Fairness

----------------------------------------------------------------------------
(* No NS_ASSERT or NS_FATAL_ERROR of the handlers fails.                   *)
NoAssertFails == ~aborted

(* None fails over slow links and with handovers refused.                  *)
NoAbort == GoodRadio => ~aborted

(* Between two events, a UE that believes to be connected has an eNB       *)
(* context that serves it under its own cell and RNTI, and no eNB serves   *)
(* the UE anywhere else: UE and network agree on where the UE is.          *)
ServedWhereItIs ==
  Quiet => \A k \in Keys :
    ueMap[k].state \in Serving \cup {"ATTACH_REQUEST"} <=> ue.state = "normal" /\ ue.key = k

(* A timeout runs exactly in the state its handler asserts, so that no     *)
(* context is left that nothing will ever remove.                          *)
TimerOfState ==
  \A k \in Keys :
    ueMap[k].timer = CASE ueMap[k].state = "INITIAL_RANDOM_ACCESS" -> "request"
                       [] ueMap[k].state = "HANDOVER_JOINING" -> "joining"
                       [] ueMap[k].state = "HANDOVER_LEAVING" -> "leaving"
                       [] OTHER -> "none"

(* While the UE is moving, the eNB it left still holds the context under   *)
(* which the target will report back.                                      *)
SourceKept ==
  Quiet => \A k \in Keys :
    ueMap[k].state = "HANDOVER_PATH_SWITCH" => InState(ueMap[k].source, {"HANDOVER_LEAVING"})

(* Whenever the UE may send a measurement report, the eNB its protocol     *)
(* object points to still has a context for it: the report, which is sent  *)
(* to the source during the handover, never meets a missing UeManager.     *)
ReportsFindContext ==
  Quiet /\ ue.state \in {"normal", "handover"} => HasUeManager(peer)

(* Every packet that reached an eNB was handed to PDCP, waits in the       *)
(* buffer of a joining context, or is on its way over X2: with a good      *)
(* radio a handover loses none.                                            *)
PacketsAccountedFor ==
  GoodRadio => \A p \in 1 .. packets :
    \/ p \in transmitted
    \/ \E k \in Keys : ueMap[k].state = "HANDOVER_JOINING" /\ p \in ueMap[k].buffer
    \/ \E l \in Links : \E i \in DOMAIN x2[l] : x2[l][i].kind = "data" /\ x2[l][i].data = p

(* A handover that began ends: no context stays in a handover state,       *)
(* unless the simulation aborts.                                           *)
HandoverStates == {"HANDOVER_PREPARATION", "HANDOVER_JOINING", "HANDOVER_LEAVING",
                   "HANDOVER_PATH_SWITCH"}
HandoverEnds ==
  \A k \in Keys :
    ueMap[k].state \in HandoverStates ~> aborted \/ ueMap[k].state \notin HandoverStates

(* With a good radio every packet that reached an eNB is eventually handed *)
(* to PDCP.                                                                *)
PacketsTransmitted ==
  \A p \in 1 .. MaxData : GoodRadio /\ packets >= p ~> p \in transmitted
=============================================================================
