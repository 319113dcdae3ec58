# UW-handover: TLA+ models and proofs

UW-handover is an ns-3 LTE simulation (`scratch/UW-working/UW-lte-handover.cc`) whose UEs decide
when to report a better neighbour cell with the help of a reinforcement-learning agent. The agent
is a Python process (`scratch/UW-working/run11.py`); simulator and agent meet in a block of System V
shared memory that the vendored and modified `contrib/ns3-ai` provides. The repository changes the
stock simulator in the UE's measurement reporting (`src/lte/model/lte-ue-rrc.cc`), in the handover
code around it, and in `PacketSink`, and adds `MRO-env.{h,cc}`.

Paths below are relative to the repository root, which is `src/` in the map of `PROJECT.json`.

## 1. Inventory

| Component | State | Operations | Meets the others through |
|---|---|---|---|
| Block lock (`contrib/ns3-ai/model/memory-pool.cc`, `py_interface/memory-pool.c`) | `version`, `nextVersion` (`uint8_t`) per block | acquire (plain, conditional), release, rollback, `IncMemoryVersion` | two OS processes, compare-and-swap on shared words |
| Learning loop (`MRO-env.cc`, callers in `lte-ue-rrc.cc` and `packet-sink.cc`; `run11.py`, `DQN.py`, `py_interface.py`) | payload (`MROEnv`, `MROAct`), `isFinish`, a DQN per IMSI | `loadIds`, `tableRead`, `tableRead2`, `hoStarted`, `hoEnded`, `passPacketReception`, `SetFinish`; the agent's loop | the block; the agent starts and kills the simulator |
| Measurement reporting (`lte-ue-rrc.cc`, event A3; `a3-rsrp-handover-algorithm.cc`) | entering and leaving queues, the report list, the simulator's timers | evaluate a measurement, time-to-trigger expiry, periodic report, clear | reads delay and hysteresis from the learning loop, reports to the eNB |
| X2 handover (`lte-enb-rrc.cc`, `epc-x2.cc`, `lte-rrc-protocol-ideal.cc`, connection part of `lte-ue-rrc.cc`) | contexts per cell and RNTI with state, timeouts, tunnel, packet buffer; the UE's state; message queues | handover request, ack, failure, SN status, context release, cancel, data; random access, RRC connection set-up and release; three timeouts; path switch | X2 links between eNBs, RRC between UE and eNB, S1 to the core |
| UE connection (`lte-ue-rrc.cc`, with the parts of `lte-ue-phy.cc`, `lte-ue-mac.cc` and `epc-ue-nas.cc` it calls) | RRC state, what it has read of the cell, T300 and T310, sync counter; link monitoring; random access; NAS state and bearers | cell search, MIB, SIB1, SIB2, random access and its time-outs, set-up, reject, release, handover command, sync indications, connect and disconnect | function calls between the layers within an event; the radio and the eNB |
| Pool (`memory-pool.cc`, `memory-pool.c`; `Experiment` in `py_interface.py`, `ns3_util.py`) | the segment: lock word, version, free offset, chain of control blocks; a cache of the chain per process | create, register a block by id, control lock, reset, free; run, reset and end of an experiment | both processes at start-up and at every restart of the simulator |
| `Ns3AIDL`, `TrainVar` | further clients of the pool | | not used by the scenario |
| DQN numerics, scenario set-up, analysis scripts, older `run*.py`, the rest of ns-3 | | | |

What is hard here, and what makes each part correct:

- **Lock.** The arguments of a compare-and-swap are themselves read from shared memory, the
  condition on the version is tested outside the loop, counters wrap, and Python's release raises
  instead of retrying. *Correct when* one process at a time is inside the payload, at a version
  it waited for, and no loop spins for ever.
- **Learning loop.** A table read is two critical sections with the agent's turn in between; ids
  and positions are separate messages; packet reports share one slot; the finish flag is written
  without the lock; either side may die. *Correct when* an answer belongs to its observation, no
  packet report is lost or counted twice, handlers return and both processes stop.
- **Measurement reporting.** Each measurement starts one more timer per neighbour, and timers are
  found again in queues by cell id. *Correct when* queues and timers agree, a triggered cell was
  better for its whole time to trigger, and nothing fires after the connection is gone.
- **X2 handover.** Two eNBs and a UE keep three views of one handover, connected by slow FIFO links
  and guarded by timeouts that race the answers. *Correct when* the views agree, no handover
  dangles, no assertion fails and no forwarded packet is lost.
- **UE connection.** Four layers keep their own idea of the connection and reset each other in a
  fixed order; timers and late answers race releases, handovers and link failures; one counter
  serves in-sync and out-of-sync. *Correct when* layers, timers and cells agree, the link is judged
  on consecutive frames, no assertion fails and the UE gets its connection back.
- **Pool.** Each process appends to a chain it has cached, under a lock that the C++ side does not
  really take; a reset wipes some of it; either process may die and the segment survives them.
  *Correct when* both find the same memory under an id, blocks are disjoint, a simulator starts on
  clean memory and nobody waits for the lock for ever.

Every hazard is listed at its line under `hazards` in `PROJECT.json`, with the properties that
would catch it; those without a property say why.

## 2. Modules

| Module | Models | Size of a step |
|---|---|---|
| `ShmLock` | one block: counters and CAS loops of both languages | one access to shared memory |
| `ShmLock_proofs` | theorems about `ShmLock` | |
| `Rendezvous` | abstract: simulator and agent take turns on the payload | one critical section |
| `MroLoop` (extends `ShmLock`) | ns-3's handlers, the `MROENV` methods, `run11.py` | one access, or one critical section's body |
| `MroLoop_proofs` | theorems about `MroLoop`, and that it implements `Rendezvous` | |
| `MeasTrigger` | event A3 reporting of one UE, one measurement identity | one neighbour evaluated, one timer expired, one tick |
| `MeasTrigger_proofs` | theorems about `MeasTrigger` | |
| `X2Handover` | one UE and the eNBs' contexts for it | one message, timeout or radio event handled |
| `X2Handover_proofs` | theorems about `X2Handover` | |
| `X2FastLinks_proofs` (extends it) | that `X2Handover` never aborts with a good radio and fast links | |
| `UeConnection` | one UE's way to a connection and back to it | one simulator event, through all layers |
| `UeConnection_proofs` | theorems about `UeConnection` | |
| `ShmPool` | the segment, its control blocks, scripts and simulators that come and go | one store to the control blocks, one event of a process's life |
| `ShmPool_proofs` | theorems about `ShmPool` | |
| `MCShmLock`, `MCMroLoop`, `MCMeasTrigger`, `MCX2Handover`, `MCUeConnection`, `MCShmPool` | instances for TLC | |

An operator whose name adds a word to another's (`HandoverAllowedAlways` beside `HandoverAllowed`,
`ClearKeepTimers` beside `VarMeasReportListClear`, ...) is a mutated form of it, the way a
plausible bug would write it. No specification uses these forms; `mutants` in `PROJECT.json` says
which property detects which.

### ShmLock

`pc[c]` is the place of client `c` in `AcquireMemory*` or a release; `expected[c]` and `desired[c]`
are the CAS arguments it has read. `CAS(&info->nextVersion, info->version, info->version + 1)` is
three steps in either order of the reads; the words are volatile and C++ leaves the order open
(GCC reads the desired value first). `Turn[c]` stands for the acquire condition
(`version % mod == res`, a target version, or always), `Raising` for the Python clients,
`Readers` for clients that only roll back. `Inc` and `Dec` are arithmetic modulo `W`
(2^8 in the code). `PassCondition`, `EnterCasLoop`, `ReadExpected`, `ReadDesired`, `CasAcquire`,
`CasRelease` and `CasRollback` are the pool's own code; `StartAcquire`, `StartRelease`,
`StartRollback` and `Abandon` (Python gives up because the simulation finished) are the callers'.

### MroLoop

ns-3 is single-threaded: a handler (`EvaluateA3`, `ReportTriggered`, `ReceivePacket`) fixes the
`MROENV` calls it will make (`todo`) and `NsAcquire`, `NsPool`, `NsSet`, `NsGet` execute them
through the lock. The agent's `with r1 as data` body is `PyServe`; an exception in `learn` hands
the block back (`__exit__`) and leads to `PyKill` (`Experiment.__del__`). Observations are named by
the handler that made them and the IMSI in the block; an answer is named by the observation it was
computed from. `runMode` is read once from the configuration, so it is a variable that `Init`
chooses from `RunModes` and no step changes. `hyst` and `ttt` are kept apart because `tableRead`
returns the one and `tableRead2` the other, and the trained model (`runMode MRO`, `run11.py:234`)
writes only `ttt`: `AnswerIsFresh` looks at the field a read returns and claims nothing for
`tableRead2` in that mode, which returns the initial 0. Both processes use one block, which is what
the design asks for; the ids committed in `run11.py` and `lte-ue-rrc.cc` differ (4.6), and what
`mro_loop` shows, `BothStop` and `HandlersReturn` included, holds once they agree. Of a DQN the model keeps what control depends on: whether
it has acted before and whether it has stored a transition. `SetFinish` takes no lock, as in the
code. `NsCrash` is a failed assertion of the simulator, which does not raise the flag.

### MeasTrigger

`timers` are the simulator's pending events in the order they were scheduled; `entering` and
`leaving` are the code's two time-to-trigger queues. `CellEnters`, `CellStays` and `CellLeaves` are
the three outcomes for one neighbour of the A3 loop in `MeasurementReportTriggering`; RSRP values
are left out, so any outcome may come at any measurement. `since` is a history variable: for how
many ticks the entry condition has been met. `VarMeasReportListAdd` erases the first queued trigger
of the same cell and `VarMeasReportListErase` pops the head of the queue, as the code does.
`Reconfiguration` is the one without mobility: the eNB always sends a `measConfig` with a quantity
configuration (`lte-enb-rrc.cc:1421,2276`), on which `ApplyMeasConfig` clears all reports.
Assumptions taken from the scenario: `timeToTrigger` is 256 ms, not 0
(`UW-lte-handover.cc:237,339`), and `reportOnLeave` is false.

### X2Handover

A context (`UeManager`) is a record under its cell and RNTI; `"ABSENT"` is a key that `m_ueMap`
does not hold. The scenario uses ideal RRC (`UW-lte-handover.cc:285`): messages are
`ScheduleWithContext` events without delay, so `air` is one FIFO queue that is emptied before
anything else (`Quiet`). Ties between such an event and an unrelated event of the same timestamp
are left out. X2 links are FIFO sequences that take any time. `s1` holds requests the core has to
answer. A tunnel is named by the context whose attach created it; the removal of a context erases
the tunnel from the cell's `m_x2uTeidInfoMap` even if another context there has entered it since
(`SharesTunnel`). An action with `X2Accepted`,
`AirAccepted` or `S1Accepted` in its guard is a handler whose assertions hold; if they fail,
`Abort` ends the simulation, after which nothing happens.

Simulated time is not modelled. Where a duration in the code excludes an order of events, the guard
of the event says so:

- `LinksIdle`: X2 messages arrive before timers expire, accesses end and measurements come in,
  unless `"slow"` is among the faults (`x2_delay_ms` is 0 in `protocol_config.json`);
- `HandoverLeavingTimeout` (500 ms) follows the joining timeout (200 ms) of the same handover;
- `RadioLinkFailure` needs T310 (1 s) to run out, after the answers of the core and the leaving
  timeout.

`faults`, chosen by `Init` from `FaultSets`, is what may go wrong in a simulation: a refused
request, no preamble, a lost random access response, a failed random access, a UE that does not
reach the target, radio link failure, slow links, a late release. A simulation whose faults are
only refusals and slow links has a good radio (`GoodRadio`). When the bound on RNTIs is used up,
`"reject"` is what remains for a request.

### UeConnection

RRC, PHY, MAC and NAS call each other within one simulator event, so a handler is a function from
the UE's record to its next record, and an action applies it. `SwitchToState` contains what the
code does on entering a state, `LeaveConnectedMode` resets the layers in the order of the code
(the next cell search starts before the cell is forgotten), `Asserted` collects the `NS_ASSERT`,
`NS_ABORT` and `NS_FATAL_ERROR` conditions in `ok`. Free are: which cells are measured and which is
strongest, whether a cell is above its `qRxLevMin`, whether a preamble or a request is answered and
how, the quality of a frame (below Qout, between, above Qin), and when the eNB orders a handover or
a release. MIB and SIB1 come from the cell of the PHY, SIB2 from the cell of the RRC and possibly
repeatedly, as `DoSendSystemInformation` of the ideal protocol delivers it. `run` and `failedAt`
are history variables. `CONNECTED_REESTABLISHING` is never entered by the code. A connection
request that is answered is answered at once (ideal RRC), so no set-up arrives after T300; a
command and a release are likewise guarded by the states in which the eNB sends them, so that
`NoAssertFails` is about random access, timers, cell search and link monitoring, not about the
defaults of the message handlers (`lte-ue-rrc.cc:1067,1159`). The MAC waits for a response as soon
as the preamble is sent; in the code `StartWaitingForRaResponse` comes 3 ms later and is never
cancelled, which the model's waiting includes. A cell below the cutoff of -140 dBm
(`lte-ue-rrc.cc:1258`) counts as not measured.

`X2Handover` keeps the same UE in four states, because its subject is the eNBs; `UeConnection`
keeps no eNB.

### ShmPool

Positions count control blocks from the top of the segment; position 0 is the `CtrlInfoBlock`.
`cur`, `seen` and `known` are `m_curCtrlInfo`, `m_currentVersion` and `m_memoryCtrlInfo` of each
process. `GetMemory` is `CtrlInfoLock`, `Refresh`, `Find`, `Link`, `Fill`, `Count`, `Advance`,
`Unlock`, in the order of its stores. `Fill` is the four stores into a control block: nobody reads
it before `Count`, and if the process dies between them the lock stays set. `Find` takes the offset
of a known block with the test of its size, where the code reads it after the unlock; the control
block of an experiment's id is not written in between. The C++ `CtrlInfoLock` loops `while (!test_and_set)`: it sets
the lock, goes round again and leaves when it finds the lock set, by itself or by another. Python
compares and swaps. Around the pool are the script (`StartScript`, `Reset`, `Register`, `Run`,
`Close`) and the simulator (`NsAttach`, `NsRegister`, `Use`, `NsExit`, `NsCrash`); `SessionLost`
ends both without clean-up (a script killed alone, with its simulator alive, is left out). `ByHand` says that the user starts the simulator, at any time, instead
of `Experiment.run`. `dirty` marks blocks that hold a message or counters other than zero. The
creator zeroes the segment in one step, because the other process sleeps a second before it looks.

## 3. Runs

| Run | Bounds | Shows |
|---|---|---|
| `lock_plain_race` (violation) | 2 clients, `W` = 6, no condition | two plain `AcquireMemory` calls can both succeed |
| `mro_loop` | 2 UEs, 4 handlers, `W` = 4, three run modes | the block is exclusive, taken in turn and released without error, answers follow requests and are fresh, packets are logged once and in order, `Rendezvous` is implemented, handlers return, both processes stop |
| `mro_learn_empty` (violation) | same, `runMode` DQN | `learn` can be called on an empty memory |
| `trigger_fixed` | 3 cells, delay 2 ticks, report every 3 | queues and timers agree, a trigger means a sustained condition and is prompt, no timer outlives its report list, one periodic report runs while cells are triggered |
| `trigger_per_cell_leave` (violation) | 3 cells, delays 2, 2, 1 | the leaving queue loses a timer and an assertion fails |
| `trigger_adaptive` (violation) | 2 cells, delays 0 to 2 | a timer runs on although its cell stopped entering |
| `x2_handover` | 2 cells; good radio: 4 RNTIs per cell, 2 packets, slow links, refusals; bad radio: 2 RNTIs, all faults | UE and eNBs agree, timeouts match states, sources are kept, reports find a context, handovers end; with a good radio no abort and no packet lost |
| `x2_joining_timeout` (violation) | 2 cells, no data, a UE that does not arrive | the joining timeout leads to an abort |
| `pool_experiments` | ids 1 to 3 of sizes 2, 1, 5 in a pool of 8, 3 scripts, 3 simulators | same memory under an id, disjoint blocks, no id found twice, no stale block, the lock comes free |
| `pool_reset_unseen` (violation) | ids 1358 (script) and 1357 (simulator), 3 simulators | a block only the simulator registers breaks the second reset |
| `pool_ctrl_lock` (violation) | one id, simulator started by hand | overlapping registrations give one id two blocks |
| `ue_connection` | 2 open cells and a closed one, 2 bearers, `N310` 2, `N311` 3, periods of 2 and 1 frames, 1 repeated preamble, 2 T300 failures | no assertion fails, timers, layers and cells agree, failures are counted per cell, T310 starts and stops on consecutive frames, the UE reconnects |

**Why the bounds are enough.** Lock: all behaviour depends on the difference of the counters and
the parity of `version`; 6 and 4 are even, as 256 is, and a wrap-around comes after a few
operations. Two clients are what a block has. The proofs remove these bounds. Learning loop: two
UEs are needed for ids loaded by one and used by the other; four handlers allow a start, an end and
two interleaved events of another UE. Triggers: a serving cell and two neighbours are needed to
confuse queue entries of different cells; with a delay of 2 ticks three timers of a cell overlap;
`Ids` (8) is above the number of timers that can be pending and `Cap` above every delay. X2: four
contexts per cell let the UE return to a cell twice, which is when stale tunnels and late releases
would matter; two packets distinguish the buffered from the forwarded one; the bad radio pays for
its faults with two contexts per cell, one handover and one return. Pool: three simulators are two
restarts, three scripts two segments left over; a pool of 8 is filled by the sizes 2, 1 and 5, so
that the test for room decides. UE: a handover and a search need two cells, the closed one a
reason to search on; `N310` and `N311` differ, and so do the periods, so that a count taken for the
other kind would be seen; nothing else in the model is bounded.

**Deadlock.** It is checked in `trigger_fixed` and `ue_connection`. The learning loop and the pool
end when their processes have stopped; the X2 model ends when an assertion fails or its bounds are
used up.

**Fairness.** `MroLoop`: weak fairness of either process's code, its steps inside the pool
included, because these are running processes under a preemptive scheduler, and of `SetFinish`,
because the simulation has a stop time. Weak fairness of single CAS steps would not exclude
starvation by a stream of successful competitors; `HandlersReturn` holds because a client whose
turn it is has no competitor. `X2Handover`: the simulator executes every scheduled event, so
deliveries, answers of the core, the end of a random access (at most `preambleTransMax` attempts)
and the connection request timeout are weakly fair. The joining and leaving timeouts are not
assumed to fire: they are cancelled in the normal case, and `HandoverEnds` does not rest on them.
`ShmPool`: a process inside the pool's code runs on; nothing is assumed of scripts and users.
`UeConnection`: broadcasts are periodic and timers expire (weak fairness). That the UE reconnects
also needs a radio that is not hopeless, which no code can guarantee: among the measurements,
readings of a cell, preambles and connection requests that come again and again, one succeeds
(strong fairness of `AllMeasured`, `StrongCellRead`, `RaResponseInTime`,
`RecvRrcConnectionSetup`). Link failures, releases, rejects and handovers may still occur for
ever. `MeasTrigger` states its progress as safety (`TriggerPrompt`), because ticks are explicit.

## 4. What the violations say

The `findings` of `PROJECT.json` quote the line each contradicts.

1. `lock_plain_race`: between the two reads of `version` the other process can complete an acquire
   and a release. The swap then writes the value that was there, and the block looks free while it
   is held. The conditional forms avoid it (theorem `LockExcludes`), and the scenario uses those.
2. `mro_learn_empty`: a UE's first handover has one action and stores no transition, or another
   UE's `loadIds` has changed the IMSI: `np.random.choice(0, ...)` raises and the experiment ends.
3. `trigger_per_cell_leave`: the leaving side still pops the front, which is the fired trigger only
   when all delays are equal.
4. `trigger_adaptive`: the entering side finds a trigger by its cell, which is not enough when an
   agent changes the delay from one measurement to the next. A timer remains that nobody cancels.
5. `x2_joining_timeout`: the timeout removes the target's context; the release it causes at the
   source makes the UE ask the target to remove it again, and `GetUeManager` asserts before
   `HasUeManager` is consulted.
6. `pool_reset_unseen`: `Reset` clears the segment up to the last control block that Python has
   read. Blocks appended by the simulator alone are zeroed but stay in the chain; read later, they
   are two blocks of id 0. The ids of the run are those of the source: `run11.py` registers 1358,
   the simulator 1357. (With different ids the two sides also wait on blocks of their own, and the
   first handler never returns.)
7. `pool_ctrl_lock`: the inverted test in the C++ control lock lets a registration overlap one of
   Python. `Experiment.run` avoids it by registering before it starts the simulator
   (`pool_experiments`); a simulator started by hand does not.

With a bad radio `x2_handover` reaches `aborted`: it checks what holds until then. It reaches a
HANDOVER CANCEL, for which `epc-x2.cc` has no branch, and data forwarded to a target that has
dropped the tunnel, during one X2 delay after a failed random access. The comment in the
no-preamble branch (`lte-enb-rrc.cc:2596`) says the source will release the connection; it returns
to `CONNECTED_NORMALLY`, as the model does. `LockComesFree` excludes a process that died with the
control lock: nothing in the code gives it back. In cell selection, a cell that is strongest but
below its `qRxLevMin` is not remembered and is tried again (`lte-ue-rrc.cc:1371`); `Reconnects`
therefore assumes that such readings are sometimes good.

## 5. Proofs

All theorems are about every value of the constants that satisfies the named assumptions, which TLC
evaluates in the runs.

**ShmLock_proofs.** Assumption beyond the types: `Discipline`, no version belongs to two clients
unless both only read. Mutual exclusion is not inductive: a client in the acquire loop may have
read one CAS argument long ago. The inductive invariant is

    IInv == TypeOK /\ EngagedInTurn /\ ArgsCurrent /\ FreeWhenUnheld /\ BusyWhenHeld
            /\ MutualExclusion /\ NoStatusError /\ ReleasersWrite

`EngagedInTurn`: from the moment its condition was seen, a client's turn lasts. `ArgsCurrent`:
arguments already read still have the value a fresh read would give, because only the client in
turn can move the counters. `FreeWhenUnheld` and `BusyWhenHeld` tie the counters to the holder, so
that a swap succeeds only on a free block. `Invariance` proves it, with a step per action;
`LockExcludes`, `LockInTurn`, `LockNeverRaises` and `LockCounters` follow.

**MroLoop_proofs.** `LockStep` shows that every step of the loop is a step of the lock or none, so
`LoopUsesLock == AppSpec => Spec`, and `KeepsDiscipline` that the two processes wait for disjoint
versions: `LoopExcludes` is then the lock's theorem. `LoopInv == IInv /\ PayloadOK /\ CallUnderway`
adds that the payload is well formed and that ns-3 is inside a pool function only on behalf of a
call. From it `LoopTakesTurns` proves the refinement `AppSpec => R!Spec`. The mapping `TurnBar`
passes the turn with the write inside the critical section, not with the swap that ends it; every
other step maps to a stutter.

What the loop exchanges through the block is a second invariant:

    ProtocolInv == CallsOfOneUe /\ IdsLoaded /\ RequestPosted /\ AnswerStands /\ PacketOwed

It relates the contents of the block to the abstract turn `TurnBar`, which only the two writes
`NsSet` and `PyServe` move. `RequestPosted`: a table read that has posted finds its own position in
the block. `AnswerStands`: while the turn is ns-3's, each field the agent decides on belongs to
what the block holds. `PacketOwed`: the packet flag is up exactly while the agent owes the log one packet.
`ReadsGetTheirAnswer`, `AnswersAreFresh` and `EveryPacketLoggedOnce` follow;
`OwnStateInvariance` adds the state of each process for `LoopTypeCorrect`.

**UeConnection_proofs.** For any cells, bearers, limits and counts. The handlers are functions of
one record, so there is a lemma for each shared handler (`SwitchToState`, `LeaveConnectedMode`, the
NAS and MAC calls) that says what record it gives, and a lemma for each action that uses them. The
inductive invariant is `TypeOK`, `NoAssertFails`, `TimersOfState`, `LayersAgree`, `SameCell` and
`FailuresOfOneCell` with

- `RestingState`: between two events the UE is in none of the states it only passes through;
- `ReadBefore`: what the state presupposes has been read or measured (MIB, a measurement of the
  cell, the RACH configuration of SIB2);
- `Intentions`: a UE that waits for SIB2 has to connect, and a connected one does not leave;
- `ResponseWindow`: a response that both PHY and MAC wait for has its window running;
- `FailuresWhileCamped`: T300 failures are only remembered while the UE is camped;
- `CountsBelowLimits`: neither sync counter has reached the limit at which it is reset.

`SyncIsEarned` proves the action property from `Counted` (the frames counted are of one kind and
the last ones) and from what any event but a frame may do to the counts (`LinkStep`).

**ShmPool_proofs.** Hypothesis `Experiments`: the simulator is started by `Experiment.run`, and
registers no id that the script did not register. The committed script meets the first half only:
`run11.py:135` registers 1358 where `lte-ue-rrc.cc:167` creates 1357, and the theorems apply once
the two ids agree; the violation runs show what happens otherwise. The C++ control lock excludes nobody, so mutual exclusion of `GetMemory`
comes from elsewhere: the simulator lives only while the script waits in `run`, and a process that
dies inside leaves the lock set, so that nobody gets in until the segment is made anew. The
inductive invariant has `TypeOK`, `NoPoolError`, `OneAtATime` (two processes are never both
inside), `CallsMatch`, `LockHeld`, `BlocksCounted` (counted blocks have distinct ids, their own
sizes, and offsets in order), `PoolSound` (chain and free memory agree with the count, up to the
block that is being registered, unless somebody died inside), `CachesRight` (what a process has
cached is what the chain says up to where it has read), `AddressesCounted` and `DirtyIsOwn`.
`PoolTypeCorrect`, `PoolNeverFails`, `PoolSharesMemory`, `PoolKeepsBlocksApart` and
`PoolBlocksAreFresh` follow.

**X2Handover_proofs.** For any number of cells, any bounds and any set of faults, slow links and
bad radio included. The inductive invariant is

    IInv == TypeOK /\ TimerOfState /\ RntisKnown /\ ContextsOK /\ MessagesOK /\ OneMessage
            /\ UePlaced /\ SourceWaits /\ PacketsAccountedFor

`MessagesOK` gives, for every kind of message on a link or in the air, the state of the contexts at
both ends. `OneMessage`: a handover has one message of its handshake in flight, except that a
failure may follow an acknowledgement when the radio is bad. `UePlaced` says where the UE is when
the air is empty and which message brings it there when not; `SourceWaits` that the source of a path
switch is leaving as long as the UE is not being sent away. There is a lemma for each action, and
lemmas on what appending to or removing from a link keeps (`Kept`, `Moved`). `X2TypeInvariance`,
`TimersRunWithStates`, `UeAndNetworkAgree`, `SourceIsKept`, `ReportsMeetContexts` and
`NoPacketLost` follow.

**X2FastLinks_proofs.** `FastLinksNeverAbort`: in a simulation whose links are not slow `NoAbort`
holds, for any number of cells, any bounds and whatever the targets refuse. `IInv` allows a message
to meet a context that is gone, since this happens with a bad radio, so that a second invariant
stands on it:

    Calm == ~aborted /\ OnePair /\ Forwards /\ FirstTunnel /\ SwitchesAwaited
            /\ UeExpected /\ AllExpected
    FInv == (GoodRadio /\ "slow" \notin faults) => Calm

`AllExpected` and `UeExpected` sharpen `MessagesOK` and `UePlaced`: each message in flight meets
the context it is for, in the state its handler asserts. `OnePair` says why: two contexts of the UE
are always the two ends of one handover, or the source of the last one, whose release is on its
way. A measurement report starts a handover on empty links only, so that this release has arrived
and the UE has one context then; with slow links this is what fails. `Forwards` keeps a taker for
the packets a leaving context forwards, and `FirstTunnel` makes a tunnel's registration in
`m_x2uTeidInfoMap` unique. `RemovesAlone`: a source that is released has no other context in its cell
whose tunnel it could erase. Actions that need a bad radio or a new connection are shown to be
disabled, `Abort` last (`NothingAborts`).

**MeasTrigger_proofs.** Hypothesis `FixedDelays`: a cell's time to trigger is one value, and all
cells leave after the same delay. `A3RsrpHandoverAlgorithm` configures this from `m_timeToTrigger`
when no agent adjusts the delay and no file gives per-cell values; cells, delays and the bound on
pending timers are arbitrary, and cells may enter with different delays. The two violation runs of
this module each drop one half of the hypothesis. The inductive invariant is

    IInv == TypeOK /\ NoAssertFails /\ UniqueIds(timers)
            /\ Mirrors("enter", timers, entering) /\ Mirrors("leave", timers, leaving)
            /\ OldestFirst(timers) /\ TimersOK /\ Awaited /\ NothingWhenIdle

The code takes a trigger out of a queue by its cell or its place, never by its timer, so that
`QueuesNameTimers` is not inductive. `Mirrors` strengthens it: a queue has the running timers of its
kind in the order of scheduling. `OldestFirst` says that timers of one cell that enter, and all that
leave, are due in that order, which is what `FixedDelays` gives; together the trigger taken out is
the one that fired. `TimersOK` relates what is left of a timer to how long its cell has met the
entry condition, and `Awaited` says that a cell that meets it and is not triggered has a timer that
is due in time. `OneReportIsScheduled`, `TriggerNeverAsserts`, `QueuesTrackTimers`,
`PendingCellsStillEnter`, `TriggersComeInTime` and, for the action property, `TriggersAreSustained`
follow. Queues are cut with `KeepAt` (the elements at a set of positions, in order); that it keeps
exactly those elements and their order is proved from ranks in the set of positions, by cardinality
and least elements. `OneReportRuns` is inductive on top of `IInv` and proved by itself: a timer
is started for the first triggered cell, started again when it fires, and cancelled when the last
cell leaves.

**Only model-checked.** All liveness properties and fairness (`BothStop`, `HandlersReturn`,
`HandoverEnds`, `PacketsTransmitted`, `LockComesFree`, `Reconnects`): the proof system does not
handle them. `NoAbort` of `X2Handover` with slow links, which is checked with two cells: with three
it does not hold (the SN STATUS TRANSFER of section 6). `MeasTrigger` beyond `FixedDelays`: there
the violation runs are what is shown.

## 6. Not modelled

- Nearly all Python lines of the repository are generated bindings (`bindings/modulegen__*.py` of
  each ns-3 module): registration tables for a wrapper generator, without behaviour of their own.
  The rest of ns-3 (Wi-Fi, WiMAX, mesh, internet stack, ...) is the stock simulator, which the
  scenario uses as a library.
- `Ns3AIDL` and `TrainVar`: not used by the handover scenario. `ResetAll` of the pool is
  exported and never called.
- Networks and training numerics, RSRP, positions, throughput: floating-point data. The models
  allow every outcome of the comparisons made on them. That a packet's throughput is credited to
  the DQN of the UE whose ids were loaded last (`run11.py:216`) is therefore not visible.
- Of measurement reporting: events other than A3, several measurement identities, and the branch
  for `timeToTrigger` 0 (`lte-ue-rrc.cc:2281`), which the scenario does not configure.
- Of the handover: several UEs, carrier aggregation, SRS indices, load and resource status
  messages, connection reject and re-establishment (never configured), bearer release on request,
  RLC and PDCP. `RecvS1uData` starts with the packets an eNB accepts: `EpcEnbApplication` discards
  those whose tunnel it does not know or has released (`epc-enb-application.cc:309`), and
  `PacketsAccountedFor` does not count them. No order of packets across the path switch is claimed: the code has no end marker.
  With three cells and X2 slower than a handover, an SN STATUS TRANSFER can meet a context that is
  gone; the scenario does not configure such links.
- Of the UE: layer-3 filtering, measurement configuration, the data of the reconfiguration, real
  RRC with delayed answers. Of the MAC and the PHY, only random access and link monitoring.
- Of the pool: the System V calls below `shmget` and `shmctl`, and the window in which
  `kill_proc_tree` misses a child forked after it listed them (`ns3_util.py:67`).
- Scenario set-up, analysis scripts, `run.py` to `run10.py` (their structures do not match
  `MRO-env.h`), build files.

## 7. Plan

In order of importance; the first twelve are done.

1. `ShmLock` with its proofs.
2. `MroLoop` over it, the abstract `Rendezvous`, the refinement proof.
3. `MeasTrigger` with fixed, per-cell and adaptive delays.
4. `X2Handover` with good and bad radio.
5. `ShmPool`: registration, control lock, reset, crashes.
6. `UeConnection`: idle mode, random access, radio link monitoring, NAS.
7. `UeConnection_proofs`.
8. `ShmPool_proofs`.
9. `X2Handover_proofs`, all invariants but `NoAbort`.
10. Proofs of what the loop exchanges in `MroLoop_proofs`.
11. `MeasTrigger_proofs`, for fixed delays.
12. `X2FastLinks_proofs`: `NoAbort` of `X2Handover` without slow links.
13. A module that composes `MeasTrigger` with `UeConnection`.
