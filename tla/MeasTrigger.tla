---------------------------- MODULE MeasTrigger ----------------------------
(***************************************************************************)
(* Event A3 measurement reporting of one UE (LteUeRrc): every measurement  *)
(* of the physical layer may start or cancel time-to-trigger timers of     *)
(* each neighbour cell, expired timers change the list of triggered cells, *)
(* and a periodic report of that list makes the eNB command a handover.    *)
(* One measurement identity is modelled; cells are measured independently. *)
(* The scenario configures timeToTrigger > 0, so that every trigger is     *)
(* delayed, and reportOnLeave = false.                                     *)
(***************************************************************************)
EXTENDS Integers, Sequences, FiniteSets

CONSTANTS
  Cells,          \* cell ids: consecutive numbers from 1
  Delays,         \* Delays[c]: the times to trigger a cell may be given
  LeaveDelay,     \* LeaveDelay[c]: perCellTimeToTrigger, for leaving
  ReportInterval, \* ticks between two reports
  Ids,            \* bound: names for pending timers
  Cap             \* bound: ticks of continued entry that are told apart

ASSUME CellsAreIds == Cells \subseteq Nat \ {0} /\ Ids \subseteq Nat
ASSUME DelaysAreTicks ==
  /\ Delays \in [Cells -> SUBSET Nat]
  /\ LeaveDelay \in [Cells -> Nat]
  /\ ReportInterval \in Nat \ {0}
  /\ Cap \in Nat
  /\ \A c \in Cells : \A d \in Delays[c] : d < Cap

VARIABLES
  mode,       \* "connected", "handover" or "idle" (no measurement identity)
  serving,    \* m_cellId
  timers,     \* the simulator's pending events, oldest first
  entering, leaving, \* the time-to-trigger queues of the measurement identity
  reporting,  \* the VarMeasReport exists ...
  triggered,  \* ... and its cellsTriggeredList
  loop,       \* cells MeasurementReportTriggering has still to evaluate
  measured,   \* this tick's measurement has been taken
  sent,       \* neighbours of the last report, until the eNB acts on it
  since,      \* how long each cell has met the entry condition, or -1
  failed      \* an NS_ASSERT of this code has failed

vars == <<mode, serving, timers, entering, leaving, reporting, triggered, loop, measured, sent,
          since, failed>>

Timers == [id : Ids, kind : {"enter", "leave", "report"}, cell : Cells, left : Nat]
Entries == [id : Ids, cell : Cells]

TypeOK ==
  /\ mode \in {"connected", "handover", "idle"}
  /\ serving \in Cells
  /\ timers \in Seq(Timers)
  /\ entering \in Seq(Entries)
  /\ leaving \in Seq(Entries)
  /\ reporting \in BOOLEAN
  /\ triggered \subseteq Cells
  /\ loop \subseteq Cells
  /\ measured \in BOOLEAN
  /\ sent \subseteq Cells
  /\ since \in [Cells -> -1 .. Cap]
  /\ failed \in BOOLEAN

Init ==
  /\ mode = "connected"
  /\ serving \in Cells
  /\ timers = <<>> /\ entering = <<>> /\ leaving = <<>>
  /\ reporting = FALSE
  /\ triggered = {}
  /\ loop = {}
  /\ measured = FALSE
  /\ sent = {}
  /\ since = [c \in Cells |-> -1]
  /\ failed = FALSE

----------------------------------------------------------------------------
(* The elements of q at the positions P, in their order.                   *)
KeepAt(q, P) ==
  [j \in 1 .. Cardinality(P) |-> q[CHOOSE i \in P : Cardinality(P \cap (1 .. i)) = j]]

IdsOf(q) == {q[i].id : i \in DOMAIN q}
FreeIds == Ids \ (IdsOf(timers) \cup IdsOf(entering) \cup IdsOf(leaving))
Lowest(S) == {id \in S : \A j \in S : id <= j}

(* The timers that Simulator::Cancel of a set of events leaves running.    *)
Uncancelled(ids) == {i \in DOMAIN timers : timers[i].id \notin ids}
Reports == {i \in DOMAIN timers : timers[i].kind = "report"}

(* CancelEnteringTrigger and CancelLeavingTrigger for one cell: the        *)
(* triggers that concern it, of those at positions P of a queue.           *)
ConcerningNone(q, P, c) == {}
ConcerningAll(q, P, c) == {q[i].id : i \in P}
Concerning(q, P, c) == {q[i].id : i \in {j \in P : q[j].cell = c}}
Without(q, c) == KeepAt(q, {i \in DOMAIN q : q[i].cell # c})

----------------------------------------------------------------------------
(* DoReportUeMeasurements runs MeasurementReportTriggering, a loop over    *)
(* the neighbours in the order of their ids.                               *)
Measure ==
  /\ mode # "idle"
  /\ loop = {}
  /\ ~measured
  /\ ~failed
  /\ measured' = TRUE
  /\ loop' = Cells \ {serving}
  /\ UNCHANGED <<mode, serving, timers, entering, leaving, reporting, triggered, sent, since,
                 failed>>

hasTriggered(c) == reporting /\ c \in triggered

Evaluating(c) ==
  /\ c \in Lowest(loop)
  /\ loop' = loop \ {c}
  /\ UNCHANGED <<mode, serving, reporting, triggered, measured, sent, failed>>

(* The entry condition holds.  Unless the cell is in the list already, one *)
(* more trigger of the chosen delay d is queued; a pending leave is off.   *)
CellEnters(c, d) ==
  /\ Evaluating(c)
  /\ since' = [since EXCEPT ![c] = IF @ = -1 THEN 0 ELSE @]
  /\ leaving' = Without(leaving, c)
  /\ LET evs == KeepAt(timers, Uncancelled(Concerning(leaving, DOMAIN leaving, c))) IN
     IF hasTriggered(c)
       THEN timers' = evs /\ UNCHANGED entering
       ELSE \E id \in Lowest(FreeIds) :
              /\ timers' = Append(evs, [id |-> id, kind |-> "enter", cell |-> c, left |-> d])
              /\ entering' = Append(entering, [id |-> id, cell |-> c])

(* Neither condition holds: both kinds of triggers are off.                *)
CellStays(c) ==
  /\ Evaluating(c)
  /\ since' = [since EXCEPT ![c] = -1]
  /\ entering' = Without(entering, c)
  /\ leaving' = Without(leaving, c)
  /\ timers' = KeepAt(timers, Uncancelled(Concerning(entering, DOMAIN entering, c)
                                          \cup Concerning(leaving, DOMAIN leaving, c)))

(* The leaving condition holds: a triggered cell queues one more trigger.  *)
CellLeaves(c) ==
  /\ Evaluating(c)
  /\ since' = [since EXCEPT ![c] = -1]
  /\ entering' = Without(entering, c)
  /\ LET evs == KeepAt(timers, Uncancelled(Concerning(entering, DOMAIN entering, c))) IN
     IF ~hasTriggered(c)
       THEN timers' = evs /\ UNCHANGED leaving
       ELSE \E id \in Lowest(FreeIds) :
              /\ timers' = Append(evs, [id |-> id, kind |-> "leave", cell |-> c,
                                        left |-> LeaveDelay[c]])
              /\ leaving' = Append(leaving, [id |-> id, cell |-> c])

----------------------------------------------------------------------------
(* The simulator runs the events that are due in the order they were       *)
(* scheduled.                                                              *)
Due(kind, i) ==
  /\ loop = {}
  /\ ~failed
  /\ timers[i].left = 0
  /\ \A j \in 1 .. i - 1 : timers[j].left # 0
  /\ timers[i].kind = kind

(* What VarMeasReportListAdd takes out of the queue as the trigger that    *)
(* has fired: the first of the same cell.                                  *)
TakenOut(q, c) == {i \in DOMAIN q : q[i].cell = c /\ \A j \in 1 .. i - 1 : q[j].cell # c}

(* Those of the same cell that are left then are cancelled.                *)
VarMeasReportListAdd ==
  \E i \in DOMAIN timers :
    /\ Due("enter", i)
    /\ LET c    == timers[i].cell
           rest == DOMAIN entering \ TakenOut(entering, c)
           left == KeepAt(timers, Uncancelled(Concerning(entering, rest, c)) \ {i}) IN
       /\ reporting' = TRUE
       /\ triggered' = triggered \cup {c}
       /\ entering' = Without(entering, c)
       /\ IF Reports # {}
            THEN timers' = left
            ELSE \E id \in Lowest(FreeIds \cup {timers[i].id}) :
                   timers' = Append(left, [id |-> id, kind |-> "report", cell |-> c, left |-> 0])
    /\ UNCHANGED <<mode, serving, leaving, loop, measured, sent, since, failed>>

(* The periodic report that is cancelled with the last triggered cell.     *)
ReportEndedNot(c) == {}
ReportEnded(c) == IF triggered \ {c} = {} THEN Reports ELSE {}

(* VarMeasReportListErase takes the first trigger out of the queue,        *)
(* whatever cell it concerns, and cancels the others of the cell.          *)
VarMeasReportListErase ==
  \E i \in DOMAIN timers :
    /\ Due("leave", i)
    /\ LET c    == timers[i].cell
           rest == DOMAIN leaving \ {1}
           left == Uncancelled(Concerning(leaving, rest, c)) \ {i} IN
       /\ triggered' = triggered \ {c}
       /\ reporting' = (triggered \ {c} # {})
       /\ timers' = KeepAt(timers, left \ ReportEnded(c))
       /\ leaving' = KeepAt(leaving, {j \in rest : leaving[j].cell # c})
       /\ failed' = ~reporting
    /\ UNCHANGED <<mode, serving, entering, loop, measured, sent, since>>

(* The report names the triggered neighbours; the next one is scheduled.   *)
SendMeasurementReport ==
  \E i \in DOMAIN timers :
    /\ Due("report", i)
    /\ timers' = Append(KeepAt(timers, DOMAIN timers \ {i}),
                        [timers[i] EXCEPT !.left = ReportInterval])
    /\ sent' = IF mode = "connected" THEN triggered \ {serving} ELSE sent
    /\ failed' = (mode = "idle")
    /\ UNCHANGED <<mode, serving, entering, leaving, reporting, triggered, loop, measured, since>>

----------------------------------------------------------------------------
(* VarMeasReportListClear.                                                 *)
ClearKeepTimers ==
  /\ reporting' = FALSE
  /\ triggered' = {}
  /\ entering' = <<>>
  /\ leaving' = <<>>
  /\ timers' = KeepAt(timers, DOMAIN timers \ Reports)
  /\ since' = [c \in Cells |-> -1]

VarMeasReportListClear ==
  /\ reporting' = FALSE
  /\ triggered' = {}
  /\ entering' = <<>>
  /\ leaving' = <<>>
  /\ timers' = KeepAt(timers, Uncancelled(IdsOf(entering) \cup IdsOf(leaving)) \ Reports)
  /\ since' = [c \in Cells |-> -1]

(* The reconfiguration with mobilityControlInfo, and ApplyMeasConfig.      *)
HandoverCommand(c) ==
  /\ mode = "connected" /\ loop = {} /\ ~failed
  /\ c \in sent
  /\ mode' = "handover"
  /\ serving' = c
  /\ sent' = {}
  /\ VarMeasReportListClear
  /\ UNCHANGED <<loop, measured, failed>>

(* A reconfiguration without mobilityControlInfo.  It carries the whole    *)
(* m_ueMeasConfig, whose quantityConfig clears the reports and triggers of *)
(* every measurement identity before it is added again.                    *)
Reconfiguration ==
  /\ mode = "connected" /\ loop = {} /\ ~failed
  /\ VarMeasReportListClear
  /\ UNCHANGED <<mode, serving, loop, measured, sent, failed>>

(* Random access to the target succeeded.                                  *)
HandoverEnd ==
  /\ mode = "handover" /\ loop = {} /\ ~failed
  /\ mode' = "connected"
  /\ VarMeasReportListClear
  /\ UNCHANGED <<serving, loop, measured, sent, failed>>

LeaveConnectedMode ==
  /\ mode # "idle" /\ loop = {} /\ ~failed
  /\ mode' = "idle"
  /\ sent' = {}
  /\ VarMeasReportListClear
  /\ UNCHANGED <<serving, loop, measured, failed>>

(* A new connection; ApplyMeasConfig adds the measurement identity with    *)
(* empty queues.                                                           *)
Reconnect(c) ==
  /\ mode = "idle" /\ ~failed
  /\ mode' = "connected"
  /\ serving' = c
  /\ reporting' = FALSE
  /\ triggered' = {}
  /\ timers' = KeepAt(timers, DOMAIN timers \ Reports)
  /\ entering' = <<>> /\ leaving' = <<>>
  /\ UNCHANGED <<loop, measured, sent, since, failed>>

(* Time passes when nothing is due.                                        *)
Tick ==
  /\ loop = {} /\ ~failed
  /\ \A i \in DOMAIN timers : timers[i].left > 0
  /\ timers' = [i \in DOMAIN timers |-> [timers[i] EXCEPT !.left = @ - 1]]
  /\ since' = [c \in Cells |-> IF since[c] \in {-1, Cap} THEN since[c] ELSE since[c] + 1]
  /\ measured' = FALSE
  /\ UNCHANGED <<mode, serving, entering, leaving, reporting, triggered, loop, sent, failed>>

Next ==
  \/ Measure
  \/ \E c \in Cells :
       \/ \E d \in Delays[c] : CellEnters(c, d)
       \/ CellStays(c)
       \/ CellLeaves(c)
       \/ HandoverCommand(c)
       \/ Reconnect(c)
  \/ VarMeasReportListAdd
  \/ VarMeasReportListErase
  \/ SendMeasurementReport
  \/ Reconfiguration
  \/ HandoverEnd
  \/ LeaveConnectedMode
  \/ Tick

Spec == Init /\ [][Next]_vars

----------------------------------------------------------------------------
(* "Time during which neighbour cell's RSRP must continuously [be] higher" *)
(* (TimeToTrigger of A3RsrpHandoverAlgorithm): a cell whose trigger is     *)
(* pending has met the entry condition at every measurement since.         *)
PendingStillEnters ==
  loop = {} =>
    \A i \in DOMAIN timers : timers[i].kind = "enter" => since[timers[i].cell] >= 0

(* A cell becomes triggered only after its whole time to trigger.          *)
TriggerSustained ==
  [][\A c \in triggered' \ triggered : \E d \in Delays[c] : since[c] >= d]_vars

(* A neighbour that keeps meeting the entry condition is triggered as soon *)
(* as its time to trigger is over.                                         *)
TriggerPrompt ==
  loop = {} =>
    \A c \in Cells \ {serving} :
      since[c] >= 0 /\ (\A d \in Delays[c] : since[c] > d) => hasTriggered(c)

(* A report "only when there is no periodic event scheduled already": the  *)
(* VarMeasReport exists exactly while some cell is in its list, and then   *)
(* exactly one SendMeasurementReport is scheduled, so that the eNB hears   *)
(* of a triggered neighbour until it leaves, and of none twice.            *)
OneReportRuns ==
  /\ reporting <=> triggered # {}
  /\ reporting <=> Reports # {}
  /\ \A i, j \in Reports : i = j

RunningIds(kind) == {timers[i].id : i \in {j \in DOMAIN timers : timers[j].kind = kind}}

(* Either queue names exactly the running timers of its kind, which is     *)
(* what lets them be cancelled: VarMeasReportListAdd takes out the trigger *)
(* that is "actually triggering", VarMeasReportListErase the one that "is  *)
(* associated with this function call".                                    *)
QueuesNameTimers ==
  IdsOf(entering) = RunningIds("enter") /\ IdsOf(leaving) = RunningIds("leave")

(* NS_ASSERT (measReportIt != m_varMeasReportList.end ()) and the like.    *)
NoAssertFails == ~failed
=============================================================================
