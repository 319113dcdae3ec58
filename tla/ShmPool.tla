------------------------------ MODULE ShmPool ------------------------------
(***************************************************************************)
(* The shared memory pool of ns3-ai around the blocks: who creates the     *)
(* segment, how a block is registered under an id, and what is left when   *)
(* an experiment is reset, ends or dies.  The agent (py) runs the C        *)
(* extension py_interface/memory-pool.c, the simulator (ns3) the C++ class *)
(* SharedMemoryPool.                                                       *)
(*                                                                         *)
(* The top of the segment holds a CtrlInfoBlock and, below it, one control *)
(* block per id: a chain in which each block says whether one follows.     *)
(* Position 0 is the CtrlInfoBlock.  Either process caches how far it has  *)
(* read the chain.  Sizes are in units of a control block.                 *)
(***************************************************************************)
EXTENDS Integers, FiniteSets

CONSTANTS
  py, ns3, None,
  PyIds, NsIds,  \* the block ids a script and the simulator may register
  Size,          \* Size[id]: bytes of the block, its counters included
  PoolSize,      \* size of the segment
  ByHand,        \* the user starts the simulator, instead of Experiment.run
  MaxScripts,    \* bound: times the script is started
  MaxRuns        \* bound: times the simulator is started

ASSUME ProcessesDiffer == py # ns3 /\ None \notin {py, ns3}
ASSUME PoolConstants ==
  /\ PyIds \subseteq Nat \ {0} /\ NsIds \subseteq Nat \ {0}
  /\ Size \in [PyIds \cup NsIds -> Nat \ {0}]
  /\ PoolSize \in Nat \ {0}
  /\ ByHand \in BOOLEAN
  /\ MaxScripts \in Nat /\ MaxRuns \in Nat

Procs == {py, ns3}
Ids == PyIds \cup NsIds
ConfigLen == 1     \* m_configLen, in control blocks
Slots == 1 .. PoolSize

(* A control block that nobody has written, or that was wiped, has id 0.   *)
NoBlock == [id |-> 0, size |-> 0, offset |-> 0]

VARIABLES
  segment,       \* the segment exists
  creator,       \* the living process that created it, or None
  ctrlInfoLock,  \* 0xffff (TRUE) or 0
  ctrlInfoVersion, freeMemOffset,
  follows,       \* follows[i]: ctrlInfo of position i is FollowCtrlBlock
  block,         \* the control blocks
  dirty,         \* offsets of the blocks somebody has written to
  pc, op,        \* where each process is, and the id it registers
  cur, seen,     \* m_curCtrlInfo and m_currentVersion of each process
  known,         \* m_memoryCtrlInfo: position of the control block, or 0
  addr,          \* the addresses handed out to each process
  script, want,  \* how far the script is, and the ids it registers
  scripts, runs, \* times either has been started
  error,         \* what ended a process
  diedInside     \* a process has died between lock and unlock

pool == <<segment, creator, ctrlInfoLock, ctrlInfoVersion, freeMemOffset, follows, block, dirty>>
locals == <<cur, seen, known>>
life == <<script, want, scripts, runs>>
vars == <<pool, pc, op, locals, addr, life, error, diedInside>>

Inside == {"refresh", "find", "link", "fill", "count", "advance", "wipe", "unlock", "leave"}
Places == Inside \cup {"down", "started", "idle", "lock", "raised"}
Ops == {"init", "get", "reset"}

TypeOK ==
  /\ segment \in BOOLEAN
  /\ creator \in Procs \cup {None}
  /\ ctrlInfoLock \in BOOLEAN
  /\ ctrlInfoVersion \in 0 .. PoolSize
  /\ freeMemOffset \in 0 .. PoolSize - ConfigLen
  /\ follows \in [0 .. PoolSize -> BOOLEAN]
  /\ block \in [Slots -> [id : Ids \cup {0}, size : Nat, offset : 0 .. PoolSize]]
  /\ dirty \subseteq 0 .. PoolSize
  /\ pc \in [Procs -> Places]
  /\ op \in [Procs -> [kind : Ops, id : Ids \cup {0}]]
  /\ cur \in [Procs -> 0 .. PoolSize]
  /\ seen \in [Procs -> 0 .. PoolSize]
  /\ known \in [Procs -> [Ids \cup {0} -> 0 .. PoolSize]]
  /\ addr \in [Procs -> [Ids -> 0 .. PoolSize \cup {None}]]
  /\ script \in {"none", "up", "clean", "running"}
  /\ want \subseteq PyIds
  /\ scripts \in 0 .. MaxScripts
  /\ runs \in 0 .. MaxRuns
  /\ error \in [Procs -> {"none", "used", "size", "full", "status"}]
  /\ diedInside \in BOOLEAN

Nothing == [id \in Ids |-> None]
Init ==
  /\ segment = FALSE /\ creator = None
  /\ ctrlInfoLock = FALSE /\ ctrlInfoVersion = 0 /\ freeMemOffset = 0
  /\ follows = [i \in 0 .. PoolSize |-> FALSE]
  /\ block = [i \in Slots |-> NoBlock]
  /\ dirty = {}
  /\ pc = [p \in Procs |-> "down"]
  /\ op = [p \in Procs |-> [kind |-> "init", id |-> 0]]
  /\ cur = [p \in Procs |-> 0]
  /\ seen = [p \in Procs |-> 0]
  /\ known = [p \in Procs |-> [id \in Ids \cup {0} |-> 0]]
  /\ addr = [p \in Procs |-> Nothing]
  /\ script = "none" /\ want = {} /\ scripts = 0 /\ runs = 0
  /\ error = [p \in Procs |-> "none"]
  /\ diedInside = FALSE

(* The C++ CtrlInfoLock may have set the lock and still loop.              *)
Holding(p) == pc[p] \in Inside \/ (p = ns3 /\ pc[p] = "lock" /\ ctrlInfoLock)
Attached(p) == pc[p] \notin {"down", "started"}
Goto(p, place) == pc' = [pc EXCEPT ![p] = place]
Call(p, kind, id) ==
  /\ Goto(p, "lock")
  /\ op' = [op EXCEPT ![p] = [kind |-> kind, id |-> id]]

----------------------------------------------------------------------------
(* py_init and the constructor of SharedMemoryPool.  Whoever creates the   *)
(* segment zeroes it; the other sleeps a second, which keeps it from       *)
(* reading before that.                                                    *)
Attach(p) ==
  /\ segment' = TRUE
  /\ creator' = IF segment THEN creator ELSE p
  /\ ctrlInfoLock' = (segment /\ ctrlInfoLock)
  /\ ctrlInfoVersion' = IF segment THEN ctrlInfoVersion ELSE 0
  /\ freeMemOffset' = IF segment THEN freeMemOffset ELSE 0
  /\ follows' = [i \in 0 .. PoolSize |-> segment /\ follows[i]]
  /\ block' = [i \in Slots |-> IF segment THEN block[i] ELSE NoBlock]
  /\ dirty' = IF segment THEN dirty ELSE {}
  /\ cur' = [cur EXCEPT ![p] = 0]
  /\ seen' = [seen EXCEPT ![p] = 0]
  /\ known' = [known EXCEPT ![p] = [id \in Ids \cup {0} |-> 0]]
  /\ addr' = [addr EXCEPT ![p] = Nothing]
  /\ error' = [error EXCEPT ![p] = "none"]
  /\ Call(p, "init", 0)

(* CtrlInfoLock.  Python swaps 0 for 0xffff; the C++ loop ends when the    *)
(* exchange finds the lock already set, by itself or by anyone else.       *)
Enter(p) == Goto(p, IF op[p].kind = "reset" THEN "wipe" ELSE "refresh")
CtrlInfoLock(p) ==
  /\ pc[p] = "lock"
  /\ ctrlInfoLock' = TRUE
  /\ IF p = py THEN ~ctrlInfoLock /\ Enter(p)
               ELSE IF ctrlInfoLock THEN Enter(p) ELSE UNCHANGED pc
  /\ UNCHANGED <<segment, creator, ctrlInfoVersion, freeMemOffset, follows, block, dirty, op,
                 locals, addr, life, error, diedInside>>

(* An error inside: Python unlocks and raises, an NS_ASSERT or NS_ABORT    *)
(* ends the simulator with the lock as it is.                              *)
Fail(p, what) ==
  /\ error' = [error EXCEPT ![p] = what]
  /\ Goto(p, IF p = py THEN "raised" ELSE "down")
  /\ ctrlInfoLock' = (p # py /\ ctrlInfoLock)
  /\ diedInside' = (diedInside \/ p # py)
  /\ creator' = IF p = ns3 /\ creator = ns3 THEN None ELSE creator

(* The control blocks that have joined the chain since p last looked.      *)
ChainEnd(p) ==
  CHOOSE e \in cur[p] .. PoolSize : ~follows[e] /\ \A i \in cur[p] .. e - 1 : follows[i]
NewBlocks(p) == cur[p] + 1 .. ChainEnd(p)
IdsUsedTwice(p) ==
  \E i \in NewBlocks(p) :
    \/ known[p][block[i].id] # 0
    \/ \E j \in NewBlocks(p) : j < i /\ block[j].id = block[i].id

(* Bring the cache up to date, if anybody has registered since.            *)
RefreshCache(p) ==
  /\ cur' = [cur EXCEPT ![p] = ChainEnd(p)]
  /\ seen' = [seen EXCEPT ![p] = ctrlInfoVersion]
  /\ known' = [known EXCEPT ![p] = [id \in Ids \cup {0} |->
                 IF \E i \in NewBlocks(p) : block[i].id = id
                   THEN CHOOSE i \in NewBlocks(p) : block[i].id = id
                   ELSE @[id]]]
Refresh(p) ==
  /\ pc[p] = "refresh"
  /\ IF ctrlInfoVersion # seen[p] /\ IdsUsedTwice(p)
       THEN Fail(p, "used") /\ UNCHANGED locals
       ELSE /\ IF ctrlInfoVersion # seen[p] THEN RefreshCache(p) ELSE UNCHANGED locals
            /\ Goto(p, IF op[p].kind = "init" THEN "unlock" ELSE "find")
            /\ UNCHANGED <<error, ctrlInfoLock, diedInside, creator>>
  /\ UNCHANGED <<segment, ctrlInfoVersion, freeMemOffset, follows, block, dirty, op, addr, life>>

(* GetMemory: a known id has a control block, of the same size; a new one  *)
(* must leave room for its control block.  The code reads the offset of a  *)
(* known block just after its unlock; nobody writes the block in between.  *)
FitsAlways(size) == size > 0
FitsDataOnly(size) == freeMemOffset + size < PoolSize - ConfigLen
Fits(size) == freeMemOffset + size < PoolSize - ConfigLen - (ctrlInfoVersion + 1)
Find(p) ==
  LET id == op[p].id
      at == known[p][id] IN
  /\ pc[p] = "find"
  /\ IF at # 0
       THEN IF block[at].size = Size[id]
              THEN /\ Goto(p, "leave")
                   /\ addr' = [addr EXCEPT ![p][id] = block[at].offset]
                   /\ UNCHANGED <<error, ctrlInfoLock, diedInside, creator>>
              ELSE Fail(p, "size") /\ UNCHANGED addr
       ELSE IF Fits(Size[id])
              THEN Goto(p, "link") /\ UNCHANGED <<addr, error, ctrlInfoLock, diedInside, creator>>
              ELSE Fail(p, "full") /\ UNCHANGED addr
  /\ UNCHANGED <<segment, ctrlInfoVersion, freeMemOffset, follows, block, dirty, op, locals, life>>

(* Appending a control block, in the order of the stores.                  *)
LinkNot(p) ==
  /\ pc[p] = "link"
  /\ cur' = [cur EXCEPT ![p] = @ + 1]
  /\ Goto(p, "fill")
  /\ UNCHANGED <<pool, op, seen, known, addr, life, error, diedInside>>
Link(p) ==
  /\ pc[p] = "link"
  /\ follows' = [follows EXCEPT ![cur[p]] = TRUE]
  /\ cur' = [cur EXCEPT ![p] = @ + 1]
  /\ Goto(p, "fill")
  /\ UNCHANGED <<segment, creator, ctrlInfoLock, ctrlInfoVersion, freeMemOffset, block, dirty, op,
                 seen, known, addr, life, error, diedInside>>

(* The four stores into the control block, which nobody else reads while   *)
(* the lock is set, as it stays if the process dies between them.          *)
Fill(p) ==
  LET id == op[p].id IN
  /\ pc[p] = "fill"
  /\ follows' = [follows EXCEPT ![cur[p]] = FALSE]
  /\ block' = [block EXCEPT ![cur[p]] =
                 [id |-> id, size |-> Size[id], offset |-> freeMemOffset]]
  /\ known' = [known EXCEPT ![p][id] = cur[p]]
  /\ Goto(p, "count")
  /\ UNCHANGED <<segment, creator, ctrlInfoLock, ctrlInfoVersion, freeMemOffset, dirty, op, cur,
                 seen, addr, life, error, diedInside>>

Count(p) ==
  /\ pc[p] = "count"
  /\ ctrlInfoVersion' = ctrlInfoVersion + 1
  /\ seen' = [seen EXCEPT ![p] = ctrlInfoVersion + 1]
  /\ Goto(p, "advance")
  /\ UNCHANGED <<segment, creator, ctrlInfoLock, freeMemOffset, follows, block, dirty, op, cur,
                 known, addr, life, error, diedInside>>

Advance(p) ==
  /\ pc[p] = "advance"
  /\ addr' = [addr EXCEPT ![p][op[p].id] = freeMemOffset]
  /\ freeMemOffset' = freeMemOffset + Size[op[p].id]
  /\ Goto(p, "unlock")
  /\ UNCHANGED <<segment, creator, ctrlInfoLock, ctrlInfoVersion, follows, block, dirty, op,
                 locals, life, error, diedInside>>

(* py_reset: the segment is zeroed up to the last control block that       *)
(* Python has read.                                                        *)
WipeNothing ==
  /\ pc[py] = "wipe"
  /\ Goto(py, "unlock")
  /\ UNCHANGED <<pool, op, locals, addr, life, error, diedInside>>
Wipe ==
  /\ pc[py] = "wipe"
  /\ dirty' = {}
  /\ follows' = [i \in 0 .. PoolSize |-> i <= cur[py] /\ follows[i]]
  /\ block' = [i \in Slots |-> IF i <= cur[py] THEN block[i] ELSE NoBlock]
  /\ Goto(py, "unlock")
  /\ UNCHANGED <<segment, creator, ctrlInfoLock, ctrlInfoVersion, freeMemOffset, op, locals, addr,
                 life, error, diedInside>>

(* CtrlInfoUnlock.  Python looks at the result of its compare-and-swap,    *)
(* except where GetMemory has found the id.                                *)
Unlocked(p) == IF p = py /\ pc[py] = "unlock" /\ ~ctrlInfoLock THEN "raised" ELSE "idle"
UnlockKeeps(p) ==
  /\ pc[p] \in {"unlock", "leave"}
  /\ Goto(p, "idle")
  /\ script' = IF op[p].kind = "reset" THEN "clean" ELSE script
  /\ UNCHANGED <<pool, op, locals, addr, want, scripts, runs, error, diedInside>>
Unlock(p) ==
  /\ pc[p] \in {"unlock", "leave"}
  /\ ctrlInfoLock' = FALSE
  /\ Goto(p, Unlocked(p))
  /\ error' = [error EXCEPT ![p] = IF Unlocked(p) = "raised" THEN "status" ELSE @]
  /\ script' = IF op[p].kind = "reset" /\ Unlocked(p) = "idle" THEN "clean" ELSE script
  /\ UNCHANGED <<segment, creator, ctrlInfoVersion, freeMemOffset, follows, block, dirty, op,
                 locals, addr, want, scripts, runs, diedInside>>

PoolStep(p) ==
  \/ CtrlInfoLock(p) \/ Refresh(p) \/ Find(p) \/ Link(p) \/ Fill(p) \/ Count(p) \/ Advance(p)
  \/ Unlock(p)
  \/ p = py /\ Wipe

----------------------------------------------------------------------------
(* The end of processes: those in D stop where they are.  The segment      *)
(* outlives them.                                                          *)
Ends(D) ==
  /\ pc' = [p \in Procs |-> IF p \in D THEN "down" ELSE pc[p]]
  /\ creator' = IF creator \in D THEN None ELSE creator
  /\ diedInside' = (diedInside \/ \E p \in D : Holding(p))
  /\ addr' = [p \in Procs |-> IF p \in D THEN Nothing ELSE addr[p]]

(* The script begins; the ids it is going to register include those that   *)
(* the simulator shares with it.                                           *)
StartScript ==
  /\ script = "none" /\ scripts < MaxScripts
  /\ pc[py] = "down"
  /\ scripts' = scripts + 1
  /\ script' = "up"
  /\ want' \in {S \in SUBSET PyIds : S # {} /\ NsIds \cap PyIds \subseteq S}
  /\ Attach(py)
  /\ UNCHANGED <<runs, diedInside>>

(* Experiment.reset: kill the simulator and wait for its end, then Reset.  *)
ResetAlive ==
  /\ pc[py] = "idle" /\ ~ByHand
  /\ script \in {"up", "running"}
  /\ pc' = [pc EXCEPT ![py] = "lock"]
  /\ op' = [op EXCEPT ![py] = [kind |-> "reset", id |-> 0]]
  /\ addr' = [addr EXCEPT ![py] = Nothing]
  /\ UNCHANGED <<pool, locals, life, error, diedInside>>
Reset ==
  /\ pc[py] = "idle" /\ ~ByHand
  /\ script \in {"up", "running"}
  /\ pc' = [pc EXCEPT ![py] = "lock", ![ns3] = "down"]
  /\ op' = [op EXCEPT ![py] = [kind |-> "reset", id |-> 0]]
  /\ addr' = [p \in Procs |-> Nothing]
  /\ diedInside' = (diedInside \/ Holding(ns3))
  /\ UNCHANGED <<pool, locals, life, error>>

(* Ns3AIRL(id, ...): RegisterMemory.                                       *)
Register(id) ==
  /\ pc[py] = "idle"
  /\ script = "clean" \/ (ByHand /\ script = "up")
  /\ id \in want /\ addr[py][id] = None
  /\ Call(py, "get", id)
  /\ UNCHANGED <<pool, locals, addr, life, error, diedInside>>

(* Experiment.run, or the user, starts the simulator, which uses the pool  *)
(* when it creates its first MROENV.                                       *)
Run ==
  /\ pc[ns3] = "down" /\ runs < MaxRuns
  /\ IF ByHand THEN UNCHANGED script
     ELSE /\ pc[py] = "idle" /\ script = "clean"
          /\ \A id \in want : addr[py][id] # None
          /\ script' = "running"
  /\ runs' = runs + 1
  /\ Goto(ns3, "started")
  /\ UNCHANGED <<pool, op, locals, addr, want, scripts, error, diedInside>>

NsAttach == pc[ns3] = "started" /\ Attach(ns3) /\ UNCHANGED <<life, diedInside>>

NsRegister(id) ==
  /\ pc[ns3] = "idle"
  /\ id \in NsIds /\ addr[ns3][id] = None
  /\ Call(ns3, "get", id)
  /\ UNCHANGED <<pool, locals, addr, life, error, diedInside>>

(* Messages: the payload and the counters of a block change.               *)
Use(id) ==
  /\ pc[ns3] = "idle"
  /\ id \in NsIds /\ addr[ns3][id] # None
  /\ dirty' = dirty \cup {addr[ns3][id]}
  /\ UNCHANGED <<segment, creator, ctrlInfoLock, ctrlInfoVersion, freeMemOffset, follows, block,
                 pc, op, locals, addr, life, error, diedInside>>

(* The simulator exits.  Its destructor removes a segment it has created,  *)
(* when nobody else is attached.                                           *)
NsExit ==
  /\ pc[ns3] = "idle"
  /\ creator = ns3 => ~Attached(py)
  /\ segment' = (segment /\ creator # ns3)
  /\ Ends({ns3})
  /\ UNCHANGED <<ctrlInfoLock, ctrlInfoVersion, freeMemOffset, follows, block, dirty, op, locals,
                 life, error>>

(* It crashes, anywhere.                                                   *)
NsCrash ==
  /\ Attached(ns3)
  /\ Ends({ns3})
  /\ UNCHANGED <<segment, ctrlInfoLock, ctrlInfoVersion, freeMemOffset, follows, block, dirty, op,
                 locals, life, error>>

(* The script ends, also after an exception: Experiment.__del__ kills the  *)
(* simulator and removes a segment this script created.                    *)
Close ==
  /\ pc[py] \in {"idle", "raised"}
  /\ script # "none"
  /\ ByHand /\ creator = py => ~Attached(ns3)
  /\ segment' = (segment /\ creator # py)
  /\ Ends(IF ByHand THEN {py} ELSE Procs)
  /\ script' = "none"
  /\ UNCHANGED <<ctrlInfoLock, ctrlInfoVersion, freeMemOffset, follows, block, dirty, op, locals,
                 want, scripts, runs, error>>

(* The session is lost: both processes die at once, with no clean-up.  A   *)
(* script that is killed alone, with a simulator left alive, is left out.  *)
SessionLost ==
  /\ script # "none"
  /\ Ends(Procs)
  /\ script' = "none"
  /\ UNCHANGED <<segment, ctrlInfoLock, ctrlInfoVersion, freeMemOffset, follows, block, dirty, op,
                 locals, want, scripts, runs, error>>

Next ==
  \/ \E p \in Procs : PoolStep(p)
  \/ StartScript \/ Reset \/ Run \/ NsAttach \/ NsExit \/ NsCrash \/ Close \/ SessionLost
  \/ \E id \in Ids : Register(id) \/ NsRegister(id) \/ Use(id)

Spec == Init /\ [][Next]_vars

(* A process inside the pool's code runs.                                  *)
FairSpec == Spec /\ \A p \in Procs : WF_vars(PoolStep(p))

----------------------------------------------------------------------------
(* "Get the memory ... corresponding to the parameter id": agent and       *)
(* simulator find each other's block under an id they share.               *)
SameMemory ==
  \A id \in Ids : None \in {addr[py][id], addr[ns3][id]} \/ addr[py][id] = addr[ns3][id]

(* Blocks of different ids do not overlap, whoever registered them, and    *)
(* none reaches into the control blocks.                                   *)
Extent(p, id) == addr[p][id] .. addr[p][id] + Size[id] - 1
BlocksDisjoint ==
  \A p, q \in Procs : \A i, j \in Ids :
    addr[p][i] # None =>
      /\ \A k \in Extent(p, i) : k < PoolSize - ConfigLen - cur[p]
      /\ addr[q][j] # None /\ i # j => Extent(p, i) \cap Extent(q, j) = {}

(* Neither "Id ... has been used" nor "Lock status error" ends a process,  *)
(* however many experiments the segment has seen.                          *)
NoPoolError == \A p \in Procs : error[p] \notin {"used", "status", "size"}

(* A simulator never starts on what an earlier one has left: when it gets  *)
(* a block, counters and payload are zero.                                 *)
FreshBlock ==
  [][\A id \in NsIds :
       addr[ns3][id] = None /\ addr'[ns3][id] # None => addr'[ns3][id] \notin dirty]_vars

(* The script is never left waiting for the control lock, unless a process *)
(* has died with it.                                                       *)
LockComesFree == pc[py] = "lock" ~> pc[py] # "lock" \/ diedInside
=============================================================================
