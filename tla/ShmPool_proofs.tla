-------------------------- MODULE ShmPool_proofs --------------------------
(***************************************************************************)
(* What holds of the shared memory pool as Experiment uses it, for any     *)
(* ids, block sizes, pool size and number of scripts and simulators.       *)
(*                                                                         *)
(* The pool's lock does not exclude anybody from the C++ side, so the      *)
(* argument is another one: the simulator lives only while the script      *)
(* waits for it, and a process that dies inside leaves the lock set, which *)
(* keeps everybody out of what it left half done.                          *)
(***************************************************************************)
EXTENDS ShmPool, TLAPS

(* How the scripts use the pool: Experiment starts the simulator, and the  *)
(* ids the simulator asks for are among those the script registers.        *)
Experiments == ~ByHand /\ NsIds \subseteq PyIds

----------------------------------------------------------------------------
(* The simulator lives only while the script waits for it.                 *)
OneAtATime ==
  /\ pc[ns3] # "down" => script = "running" /\ pc[py] = "idle"
  /\ (script = "none") <=> (pc[py] = "down")
  /\ script # "none" => segment /\ NsIds \subseteq want
  /\ creator # ns3
  /\ pc[py] # "started"
  /\ pc[ns3] \in {"down", "started", "lock", "refresh", "find", "leave", "unlock", "idle"}

(* What a process does inside follows from the call it is in.              *)
CallOf(p) ==
  /\ op[p].kind = "get" => op[p].id \in Ids
  /\ pc[p] = "wipe" => op[p].kind = "reset"
  /\ pc[p] = "refresh" => op[p].kind # "reset"
  /\ pc[p] \in {"find", "link", "fill", "count", "advance", "leave"} => op[p].kind = "get"
CallsMatch ==
  /\ \A p \in Procs : CallOf(p)
  /\ op[ns3].kind # "reset"
  /\ op[ns3].kind = "get" => op[ns3].id \in NsIds

(* The lock is set while somebody is inside; it stays set for ever after   *)
(* somebody died there, and then nobody gets in.                           *)
LockHeld ==
  /\ \A p \in Procs : pc[p] \in Inside => ctrlInfoLock
  /\ pc[ns3] \in {"started", "idle"} => ~ctrlInfoLock
  /\ script = "clean" /\ pc[py] \notin Inside => ~ctrlInfoLock
Usable == ctrlInfoLock => pc[py] \in Inside \/ pc[ns3] \in Inside \cup {"lock"}

(* The control blocks that have been counted.                              *)
Counted == 1 .. ctrlInfoVersion
End(i) == block[i].offset + block[i].size
BlocksCounted ==
  /\ \A i \in Counted :
       /\ block[i].id \in Ids
       /\ block[i].size = Size[block[i].id]
       /\ End(i) < PoolSize - ConfigLen - ctrlInfoVersion
  /\ \A i, j \in Counted : i < j => block[i].id # block[j].id /\ End(i) <= block[j].offset

(* The chain and the free memory agree with the count, up to the block     *)
(* that is being registered.                                               *)
Registering == pc[py] \in {"link", "fill", "count"}
ChainCounted ==
  \A i \in 0 .. PoolSize :
    follows[i] <=> i < ctrlInfoVersion + (IF pc[py] \in {"fill", "count"} THEN 1 ELSE 0)
FreeAbove ==
  /\ \A i \in Counted :
       (i = ctrlInfoVersion => pc[py] # "advance") => End(i) <= freeMemOffset
  /\ pc[py] = "advance" =>
       /\ ctrlInfoVersion # 0
       /\ block[ctrlInfoVersion].id = op[py].id
       /\ block[ctrlInfoVersion].offset = freeMemOffset
NewBlock ==
  /\ Registering =>
       /\ freeMemOffset + Size[op[py].id] < PoolSize - ConfigLen - (ctrlInfoVersion + 1)
       /\ \A i \in Counted : block[i].id # op[py].id
  /\ pc[py] = "count" =>
       block[ctrlInfoVersion + 1] =
         [id |-> op[py].id, size |-> Size[op[py].id], offset |-> freeMemOffset]
PoolSound == segment /\ Usable => ChainCounted /\ FreeAbove /\ NewBlock

(* What a process has read of the chain.                                   *)
Appending(p) == pc[p] \in {"fill", "count"}
Fresh(p) == pc[p] # "refresh" /\ (pc[p] = "lock" => op[p].kind # "init")
ReadTo(p) == IF pc[p] = "fill" THEN ctrlInfoVersion ELSE cur[p]
CacheOf(p) ==
  /\ IF Appending(p)
       THEN cur[p] = ctrlInfoVersion + 1 /\ seen[p] = ctrlInfoVersion
       ELSE cur[p] <= ctrlInfoVersion /\ seen[p] = cur[p]
  /\ Fresh(p) /\ ~Appending(p) => cur[p] = ctrlInfoVersion
  /\ \A id \in Ids :
       IF known[p][id] = 0
         THEN \A i \in 1 .. ReadTo(p) : block[i].id # id
         ELSE known[p][id] \in 1 .. ReadTo(p) /\ block[known[p][id]].id = id
CachesRight == \A p \in Procs : Attached(p) => CacheOf(p)

(* The addresses handed out are those of counted blocks.                   *)
AddressesCounted ==
  /\ \A p \in Procs : ~Attached(p) => addr[p] = Nothing
  /\ \A p \in Procs : \A id \in Ids :
       addr[p][id] # None =>
         \E i \in Counted : block[i].id = id /\ block[i].offset = addr[p][id]
  /\ script = "running" =>
       \A id \in NsIds : \E i \in Counted : block[i].id = id

(* What is dirty is the running simulator's own.                           *)
DirtyIsOwn ==
  /\ script = "clean" => dirty = {}
  /\ pc[py] = "unlock" /\ op[py].kind = "reset" => dirty = {}
  /\ pc[ns3] # "down" =>
       \A d \in dirty : \E id \in NsIds : addr[ns3][id] # None /\ addr[ns3][id] = d

IInv ==
  /\ TypeOK /\ NoPoolError
  /\ OneAtATime /\ CallsMatch /\ LockHeld /\ BlocksCounted /\ PoolSound /\ CachesRight
  /\ AddressesCounted /\ DirtyIsOwn

----------------------------------------------------------------------------
(* The size of a block is a positive number.                               *)
LEMMA SizesPositive == \A id \in Ids : Size[id] \in Nat /\ Size[id] > 0
BY PoolConstants DEF Ids

(* What holds while the agent appends a control block: there is room for   *)
(* it, and nobody else is in the pool.                                     *)
LEMMA WhileRegistering ==
  ASSUME IInv, Registering
  PROVE  /\ segment /\ Usable /\ pc[ns3] = "down"
         /\ op[py].id \in Ids
         /\ ctrlInfoVersion \in Nat /\ ctrlInfoVersion + 1 \in Slots
         /\ freeMemOffset \in Nat
         /\ freeMemOffset + Size[op[py].id] < PoolSize - ConfigLen - (ctrlInfoVersion + 1)
         /\ \A i \in Counted : block[i].id # op[py].id /\ End(i) <= freeMemOffset
         /\ ChainCounted /\ CacheOf(py)
<1>1. segment /\ Usable /\ pc[ns3] = "down" /\ op[py].id \in Ids
  BY DEF IInv, Registering, OneAtATime, Usable, Inside, CallsMatch, CallOf, Procs
<1>2. ChainCounted /\ FreeAbove /\ NewBlock
  BY <1>1 DEF IInv, PoolSound
<1>3. /\ freeMemOffset + Size[op[py].id] < PoolSize - ConfigLen - (ctrlInfoVersion + 1)
      /\ \A i \in Counted : block[i].id # op[py].id
  BY <1>2 DEF NewBlock
<1>4. ctrlInfoVersion \in Nat /\ freeMemOffset \in Nat /\ PoolSize \in Nat
  BY PoolConstants DEF IInv, TypeOK, ConfigLen
<1>5. ctrlInfoVersion + 1 \in Slots
  BY <1>1, <1>3, <1>4, SizesPositive DEF Slots, ConfigLen
<1>6. \A i \in Counted : End(i) <= freeMemOffset
  BY <1>2 DEF FreeAbove, Registering
<1>7. CacheOf(py)
  BY DEF IInv, CachesRight, Attached, Registering, Procs
<1> QED
  BY <1>1, <1>2, <1>3, <1>4, <1>5, <1>6, <1>7

(* Inside the pool's functions the chain of control blocks is what the     *)
(* counter says, and a process that refreshes its cache reads it to the    *)
(* end and finds no id twice.                                              *)
LEMMA ReadsChain ==
  ASSUME IInv, NEW p \in Procs, pc[p] = "refresh"
  PROVE  /\ ctrlInfoVersion \in 0 .. PoolSize /\ cur[p] \in 0 .. ctrlInfoVersion
         /\ seen[p] = cur[p]
         /\ ChainEnd(p) = ctrlInfoVersion
         /\ ~IdsUsedTwice(p)
<1> DEFINE n == ctrlInfoVersion
<1>1. segment /\ Usable /\ pc[py] \notin {"fill", "count"}
  BY ProcessesDiffer DEF IInv, OneAtATime, Usable, Inside, Procs
<1>2. \A i \in 0 .. PoolSize : follows[i] <=> i < n
  BY <1>1 DEF IInv, TypeOK, PoolSound, ChainCounted
<1>3. CacheOf(p)
  BY DEF IInv, CachesRight, Attached
<1>4. n \in 0 .. PoolSize /\ cur[p] \in 0 .. n /\ seen[p] = cur[p]
  BY <1>3 DEF IInv, TypeOK, CacheOf, Appending
<1>5. ChainEnd(p) = n
  <2> DEFINE Ends_(e) == ~follows[e] /\ \A i \in cur[p] .. e - 1 : follows[i]
  <2>1. n \in cur[p] .. PoolSize /\ Ends_(n)
    BY <1>2, <1>4, PoolConstants
  <2>2. ASSUME NEW e \in cur[p] .. PoolSize, Ends_(e) PROVE e = n
    <3>1. ~(e < n)
      BY <1>2, <1>4, <2>2, PoolConstants
    <3>2. ~(n < e)
      BY <1>2, <1>4, <2>2, PoolConstants
    <3> QED
      BY <1>4, <3>1, <3>2, PoolConstants
  <2>3. ChainEnd(p) = CHOOSE e \in cur[p] .. PoolSize : Ends_(e)
    BY DEF ChainEnd
  <2> HIDE DEF Ends_
  <2> QED
    BY <2>1, <2>2, <2>3
<1>6. ~IdsUsedTwice(p)
  <2>1. NewBlocks(p) \subseteq Counted
    BY <1>4, <1>5 DEF NewBlocks, Counted
  <2>2. ASSUME NEW i \in NewBlocks(p) PROVE known[p][block[i].id] = 0
    <3>1. block[i].id \in Ids /\ i \in Counted /\ i > cur[p]
      BY <1>4, <1>5, <2>1, <2>2 DEF IInv, BlocksCounted, NewBlocks
    <3>2. ASSUME NEW k \in 1 .. cur[p] PROVE block[k].id # block[i].id
      BY <1>4, <3>1, <3>2 DEF IInv, BlocksCounted, Counted
    <3> QED
      BY <1>3, <3>1, <3>2 DEF CacheOf, ReadTo
  <2>3. \A i, j \in NewBlocks(p) : j < i => block[j].id # block[i].id
    BY <2>1 DEF IInv, BlocksCounted
  <2> QED
    BY <2>2, <2>3 DEF IdsUsedTwice
<1> QED
  BY <1>4, <1>5, <1>6

(* So a refresh raises nothing and leaves the cache right.                 *)
LEMMA RefreshReads ==
  ASSUME IInv, NEW p \in Procs, Refresh(p)
  PROVE  /\ pc[p] = "refresh"
         /\ pc' = [pc EXCEPT ![p] = IF op[p].kind = "init" THEN "unlock" ELSE "find"]
         /\ UNCHANGED <<pool, op, addr, life, error, diedInside>>
         /\ cur' = [cur EXCEPT ![p] = ctrlInfoVersion]
         /\ seen' = [seen EXCEPT ![p] = ctrlInfoVersion]
         /\ known' \in [Procs -> [Ids \cup {0} -> 0 .. PoolSize]]
         /\ \A q \in Procs : q # p => known'[q] = known[q]
         /\ CacheOf(p)'
<1>0. pc[p] = "refresh"
  BY DEF Refresh
<1>1. /\ ctrlInfoVersion \in 0 .. PoolSize /\ cur[p] \in 0 .. ctrlInfoVersion
      /\ seen[p] = cur[p] /\ ChainEnd(p) = ctrlInfoVersion /\ ~IdsUsedTwice(p)
  BY <1>0, ReadsChain
<1>2. /\ pc' = [pc EXCEPT ![p] = IF op[p].kind = "init" THEN "unlock" ELSE "find"]
      /\ UNCHANGED <<pool, op, addr, life, error, diedInside>>
  BY <1>1 DEF Refresh, Goto, pool
<1>3. CacheOf(p)
  BY <1>0 DEF IInv, CachesRight, Attached
<1>4. pc'[p] \in {"unlock", "find"} /\ ctrlInfoVersion' = ctrlInfoVersion /\ block' = block
  BY <1>2 DEF IInv, TypeOK, pool
<1>5. CASE ctrlInfoVersion = seen[p]
  <2>1. UNCHANGED <<cur, seen, known>>
    BY <1>5 DEF Refresh, locals
  <2>2. CacheOf(p)'
    BY <1>0, <1>1, <1>3, <1>4, <1>5, <2>1 DEF CacheOf, Fresh, Appending, ReadTo
  <2>3. cur[p] = ctrlInfoVersion /\ seen[p] = ctrlInfoVersion
    BY <1>1, <1>5
  <2>4. /\ cur' = [cur EXCEPT ![p] = ctrlInfoVersion]
        /\ seen' = [seen EXCEPT ![p] = ctrlInfoVersion]
    BY <2>1, <2>3 DEF IInv, TypeOK
  <2> QED
    BY <1>0, <1>2, <2>1, <2>2, <2>4 DEF IInv, TypeOK
<1>6. CASE ctrlInfoVersion # seen[p]
  <2>1. RefreshCache(p)
    BY <1>1, <1>6 DEF Refresh
  <2>2. /\ cur' = [cur EXCEPT ![p] = ctrlInfoVersion]
        /\ seen' = [seen EXCEPT ![p] = ctrlInfoVersion]
    BY <1>1, <2>1 DEF RefreshCache
  <2> DEFINE New == cur[p] + 1 .. ctrlInfoVersion
             Cached(id) == IF \E i \in New : block[i].id = id
                             THEN CHOOSE i \in New : block[i].id = id
                             ELSE known[p][id]
  <2>3. known' = [known EXCEPT ![p] = [id \in Ids \cup {0} |-> Cached(id)]]
    BY <1>1, <2>1 DEF RefreshCache, NewBlocks
  <2>4. \A id \in Ids \cup {0} :
          \/ \E i \in New : block[i].id = id /\ Cached(id) = i
          \/ (\A i \in New : block[i].id # id) /\ Cached(id) = known[p][id]
    OBVIOUS
  <2> HIDE DEF Cached
  <2>5. \A id \in Ids \cup {0} : known'[p][id] = Cached(id)
    BY <2>3 DEF IInv, TypeOK
  <2>6. \A id \in Ids \cup {0} : Cached(id) \in 0 .. PoolSize
    <3>1. New \subseteq 0 .. PoolSize
      BY <1>1, PoolConstants
    <3>2. \A id \in Ids \cup {0} : known[p][id] \in 0 .. PoolSize
      BY DEF IInv, TypeOK
    <3> QED
      BY <2>4, <3>1, <3>2
  <2>7. known' \in [Procs -> [Ids \cup {0} -> 0 .. PoolSize]]
    BY <2>3, <2>6 DEF IInv, TypeOK
  <2>8. ASSUME NEW id \in Ids
        PROVE  IF known'[p][id] = 0
                 THEN \A i \in 1 .. ctrlInfoVersion : block[i].id # id
                 ELSE known'[p][id] \in 1 .. ctrlInfoVersion /\ block[known'[p][id]].id = id
    <3>1. known'[p][id] = Cached(id)
      BY <2>5
    <3>2. ASSUME NEW i \in New, block[i].id = id, Cached(id) = i
          PROVE  i # 0 /\ i \in 1 .. ctrlInfoVersion
      BY <1>1
    <3>3. IF known[p][id] = 0
            THEN \A i \in 1 .. cur[p] : block[i].id # id
            ELSE known[p][id] \in 1 .. cur[p] /\ block[known[p][id]].id = id
      BY <1>0, <1>3 DEF CacheOf, ReadTo
    <3>4. \A i \in 1 .. ctrlInfoVersion : i \in 1 .. cur[p] \/ i \in New
      BY <1>1
    <3>5. \A i \in 1 .. cur[p] : i \in 1 .. ctrlInfoVersion
      BY <1>1
    <3>6. CASE (\A i \in New : block[i].id # id) /\ Cached(id) = known[p][id]
      BY <3>1, <3>3, <3>4, <3>5, <3>6
    <3>7. CASE \E i \in New : block[i].id = id /\ Cached(id) = i
      BY <3>1, <3>2, <3>7
    <3> QED
      BY <2>4, <3>6, <3>7
  <2>9. CacheOf(p)'
    <3>1. cur'[p] = ctrlInfoVersion /\ seen'[p] = ctrlInfoVersion
      BY <2>2 DEF IInv, TypeOK
    <3> QED
      BY <1>1, <1>4, <2>8, <3>1 DEF CacheOf, Fresh, Appending, ReadTo
  <2>10. \A q \in Procs : q # p => known'[q] = known[q]
    BY <2>3 DEF IInv, TypeOK
  <2> QED
    BY <1>0, <1>2, <2>2, <2>7, <2>9, <2>10
<1> QED
  BY <1>5, <1>6

(* Whoever attaches finds the segment as it is, or creates an empty one,   *)
(* and begins with an empty cache.                                         *)
LEMMA AttachFinds ==
  ASSUME IInv, NEW p \in Procs, Attach(p)
  PROVE  /\ segment'
         /\ segment => UNCHANGED <<creator, ctrlInfoLock, ctrlInfoVersion,
                                   freeMemOffset, follows, block, dirty>>
         /\ ~segment => /\ creator' = p /\ ~ctrlInfoLock' /\ ctrlInfoVersion' = 0
                        /\ freeMemOffset' = 0 /\ dirty' = {}
                        /\ \A i \in 0 .. PoolSize : ~follows'[i]
         /\ pc' = [pc EXCEPT ![p] = "lock"]
         /\ op' = [op EXCEPT ![p] = [kind |-> "init", id |-> 0]]
         /\ addr' = [addr EXCEPT ![p] = Nothing]
         /\ error' = [error EXCEPT ![p] = "none"]
         /\ CacheOf(p)'
         /\ \A q \in Procs :
              q # p => cur'[q] = cur[q] /\ seen'[q] = seen[q] /\ known'[q] = known[q]
<1>1. /\ segment'
      /\ pc' = [pc EXCEPT ![p] = "lock"]
      /\ op' = [op EXCEPT ![p] = [kind |-> "init", id |-> 0]]
      /\ addr' = [addr EXCEPT ![p] = Nothing]
      /\ error' = [error EXCEPT ![p] = "none"]
  BY DEF Attach, Call, Goto
<1>2. ASSUME segment
      PROVE  UNCHANGED <<creator, ctrlInfoLock, ctrlInfoVersion, freeMemOffset,
                         follows, block, dirty>>
  <2>1. UNCHANGED <<creator, ctrlInfoVersion, freeMemOffset, dirty>>
    BY <1>2 DEF Attach
  <2>2. ctrlInfoLock' = ctrlInfoLock
    BY <1>2 DEF Attach, IInv, TypeOK
  <2>3. follows' = follows
    BY <1>2, Zenon DEF Attach, IInv, TypeOK
  <2>4. block' = block
    BY <1>2 DEF Attach, IInv, TypeOK
  <2> QED
    BY <2>1, <2>2, <2>3, <2>4
<1>3. ASSUME ~segment
      PROVE  /\ creator' = p /\ ~ctrlInfoLock' /\ ctrlInfoVersion' = 0
             /\ freeMemOffset' = 0 /\ dirty' = {}
             /\ \A i \in 0 .. PoolSize : ~follows'[i]
  BY <1>3 DEF Attach
<1>4. CacheOf(p)'
  <2>1. /\ cur'[p] = 0 /\ seen'[p] = 0 /\ \A id \in Ids : known'[p][id] = 0
        /\ pc'[p] = "lock" /\ op'[p].kind = "init"
    BY DEF Attach, Call, Goto, IInv, TypeOK
  <2>2. ctrlInfoVersion' \in Nat
    BY <1>2, <1>3 DEF IInv, TypeOK
  <2> QED
    BY <2>1, <2>2 DEF CacheOf, Fresh, Appending, ReadTo
<1>5. \A q \in Procs : q # p => cur'[q] = cur[q] /\ seen'[q] = seen[q] /\ known'[q] = known[q]
  BY DEF Attach, IInv, TypeOK
<1> QED
  BY <1>1, <1>2, <1>3, <1>4, <1>5

(* What Attach writes has its type.                                        *)
LEMMA AttachTyped ==
  ASSUME IInv, NEW p \in Procs, Attach(p)
  PROVE  /\ pc' \in [Procs -> Places]
         /\ op' \in [Procs -> [kind : Ops, id : Ids \cup {0}]]
         /\ follows' \in [0 .. PoolSize -> BOOLEAN]
         /\ block' \in [Slots -> [id : Ids \cup {0}, size : Nat, offset : 0 .. PoolSize]]
         /\ segment' \in BOOLEAN /\ creator' \in Procs \cup {None}
         /\ ctrlInfoLock' \in BOOLEAN
         /\ ctrlInfoVersion' \in 0 .. PoolSize
         /\ freeMemOffset' \in 0 .. PoolSize - ConfigLen
         /\ dirty' \subseteq 0 .. PoolSize
         /\ cur' \in [Procs -> 0 .. PoolSize] /\ seen' \in [Procs -> 0 .. PoolSize]
         /\ known' \in [Procs -> [Ids \cup {0} -> 0 .. PoolSize]]
         /\ addr' \in [Procs -> [Ids -> 0 .. PoolSize \cup {None}]]
         /\ error' \in [Procs -> {"none", "used", "size", "full", "status"}]
<1> USE PoolConstants
<1>1. pc' \in [Procs -> Places] /\ op' \in [Procs -> [kind : Ops, id : Ids \cup {0}]]
  BY DEF Attach, Call, Goto, IInv, TypeOK, Places, Ops
<1>2. follows' \in [0 .. PoolSize -> BOOLEAN]
  BY DEF Attach
<1>3. block' \in [Slots -> [id : Ids \cup {0}, size : Nat, offset : 0 .. PoolSize]]
  <2>1. NoBlock \in [id : Ids \cup {0}, size : Nat, offset : 0 .. PoolSize]
    BY DEF NoBlock
  <2>2. \A i \in Slots : (IF segment THEN block[i] ELSE NoBlock)
                           \in [id : Ids \cup {0}, size : Nat, offset : 0 .. PoolSize]
    BY <2>1 DEF IInv, TypeOK
  <2> QED
    BY <2>2 DEF Attach
<1>4. /\ segment' \in BOOLEAN /\ creator' \in Procs \cup {None}
      /\ ctrlInfoLock' \in BOOLEAN
      /\ ctrlInfoVersion' \in 0 .. PoolSize
      /\ freeMemOffset' \in 0 .. PoolSize - ConfigLen
      /\ dirty' \subseteq 0 .. PoolSize
  BY DEF Attach, IInv, TypeOK, ConfigLen
<1>5. /\ cur' \in [Procs -> 0 .. PoolSize] /\ seen' \in [Procs -> 0 .. PoolSize]
      /\ known' \in [Procs -> [Ids \cup {0} -> 0 .. PoolSize]]
  <2>1. [id \in Ids \cup {0} |-> 0] \in [Ids \cup {0} -> 0 .. PoolSize] /\ 0 \in 0 .. PoolSize
    OBVIOUS
  <2>2. /\ cur' = [cur EXCEPT ![p] = 0] /\ seen' = [seen EXCEPT ![p] = 0]
        /\ known' = [known EXCEPT ![p] = [id \in Ids \cup {0} |-> 0]]
    BY DEF Attach
  <2> QED
    BY <2>1, <2>2 DEF IInv, TypeOK
<1>6. addr' \in [Procs -> [Ids -> 0 .. PoolSize \cup {None}]]
      /\ error' \in [Procs -> {"none", "used", "size", "full", "status"}]
  BY DEF Attach, Nothing, IInv, TypeOK
<1> QED
  BY <1>1, <1>2, <1>3, <1>4, <1>5, <1>6

(* A process that looks up an id finds its control block if there is one,  *)
(* and a control block it finds has the size it asks for.                  *)
LEMMA LookupRight ==
  ASSUME IInv, NEW p \in Procs, pc[p] = "find"
  PROVE  /\ op[p].kind = "get" /\ op[p].id \in Ids
         /\ IF known[p][op[p].id] = 0
              THEN \A i \in Counted : block[i].id # op[p].id
              ELSE /\ known[p][op[p].id] \in Counted
                   /\ block[known[p][op[p].id]].id = op[p].id
                   /\ block[known[p][op[p].id]].size = Size[op[p].id]
<1>1. op[p].kind = "get" /\ op[p].id \in Ids
  BY DEF IInv, CallsMatch, CallOf
<1>2. CacheOf(p)
  BY DEF IInv, CachesRight, Attached
<1>3. ReadTo(p) = ctrlInfoVersion
  BY <1>2 DEF CacheOf, Fresh, Appending, ReadTo
<1> QED
  BY <1>1, <1>2, <1>3 DEF IInv, CacheOf, BlocksCounted, Counted


----------------------------------------------------------------------------
(* What a step that registers nothing leaves as it is.                     *)
LEMMA BlocksStay ==
  ASSUME IInv, UNCHANGED <<ctrlInfoVersion, block>>
  PROVE  BlocksCounted'
BY DEF IInv, BlocksCounted, Counted, End

(* The chain and the free memory stay in step with the count.              *)
LEMMA PoolStays ==
  ASSUME IInv, UNCHANGED <<ctrlInfoVersion, freeMemOffset, follows, block>>,
         pc'[py] \notin {"link", "fill", "count", "advance"},
         segment' /\ Usable' =>
           segment /\ Usable /\ pc[py] \notin {"link", "fill", "count", "advance"}
  PROVE  PoolSound'
<1> SUFFICES ASSUME segment', Usable' PROVE ChainCounted' /\ FreeAbove' /\ NewBlock'
  BY DEF PoolSound
<1>1. ChainCounted /\ FreeAbove
  BY DEF IInv, PoolSound
<1> QED
  BY <1>1 DEF ChainCounted, FreeAbove, NewBlock, Registering, Counted, End

(* A cache that is not touched stays right.                                *)
LEMMA CacheStays ==
  ASSUME IInv, NEW p \in Procs, Attached(p), UNCHANGED <<ctrlInfoVersion, block>>,
         cur'[p] = cur[p], seen'[p] = seen[p], known'[p] = known[p],
         pc[p] \notin {"fill", "count"}, pc'[p] \notin {"fill", "count"},
         Fresh(p)' => Fresh(p)
  PROVE  CacheOf(p)'
BY DEF IInv, CachesRight, CacheOf, Appending, ReadTo

(* Addresses that are kept or dropped stay those of counted blocks.        *)
LEMMA AddressesStay ==
  ASSUME IInv, UNCHANGED <<ctrlInfoVersion, block>>,
         \A p \in Procs : addr'[p] = addr[p] \/ addr'[p] = Nothing,
         \A p \in Procs : Attached(p) /\ ~Attached(p)' => addr'[p] = Nothing,
         script' = "running" => script = "running"
  PROVE  AddressesCounted'
<1>1. Counted' = Counted /\ \A id \in Ids : Nothing[id] = None
  BY DEF Counted, Nothing
<1> QED
  BY <1>1 DEF IInv, AddressesCounted

----------------------------------------------------------------------------
(* The agent sets the lock with its compare-and-swap.                      *)
LEMMA AgentLocks ==
  ASSUME Experiments, IInv, CtrlInfoLock(py)
  PROVE  IInv'
<1> USE ProcessesDiffer, PoolConstants DEF Experiments
<1>1. /\ pc[py] = "lock" /\ pc[ns3] = "down" /\ ~ctrlInfoLock /\ ctrlInfoLock'
      /\ pc' = [pc EXCEPT ![py] = IF op[py].kind = "reset" THEN "wipe" ELSE "refresh"]
      /\ pc'[py] = (IF op[py].kind = "reset" THEN "wipe" ELSE "refresh")
      /\ pc'[ns3] = "down"
      /\ UNCHANGED <<segment, creator, ctrlInfoVersion, freeMemOffset, follows,
                     block, dirty, op, cur, seen, known, addr, script, want,
                     scripts, runs, error, diedInside>>
  BY DEF IInv, TypeOK, Procs, OneAtATime, CtrlInfoLock, Enter, Goto, locals, life
<1>2. TypeOK'
  BY <1>1 DEF IInv, TypeOK, Places, Inside, Ops, Nothing
<1>3. NoPoolError' /\ OneAtATime' /\ CallsMatch'
  BY <1>1 DEF IInv, NoPoolError, OneAtATime, CallsMatch, CallOf, Procs
<1>4. LockHeld'
  BY <1>1 DEF IInv, LockHeld, Inside, Procs
<1>5. BlocksCounted' /\ PoolSound'
  BY <1>1, BlocksStay, PoolStays DEF Usable, Inside
<1>6. CachesRight'
  BY <1>1, CacheStays DEF CachesRight, Attached, Fresh, Procs
<1>7. AddressesCounted'
  BY <1>1, AddressesStay DEF Attached, Procs
<1>8. DirtyIsOwn'
  BY <1>1 DEF IInv, DirtyIsOwn
<1> QED
  BY <1>2, <1>3, <1>4, <1>5, <1>6, <1>7, <1>8 DEF IInv

(* The simulator sets the lock, and goes on when it finds it set.          *)
LEMMA SimulatorLocks ==
  ASSUME Experiments, IInv, CtrlInfoLock(ns3)
  PROVE  IInv'
<1> USE ProcessesDiffer, PoolConstants DEF Experiments
<1>1. /\ pc[ns3] = "lock" /\ pc[py] = "idle" /\ script = "running" /\ ctrlInfoLock'
      /\ pc' = pc \/ pc' = [pc EXCEPT ![ns3] = "refresh"]
      /\ pc'[ns3] \in {"lock", "refresh"} /\ pc'[py] = "idle"
      /\ UNCHANGED <<segment, creator, ctrlInfoVersion, freeMemOffset, follows,
                     block, dirty, op, cur, seen, known, addr, script, want,
                     scripts, runs, error, diedInside>>
  BY DEF IInv, TypeOK, Procs, OneAtATime, CallsMatch, CtrlInfoLock, Enter, Goto, locals, life
<1>2. TypeOK'
  BY <1>1 DEF IInv, TypeOK, Places, Inside, Ops, Nothing
<1>3. NoPoolError' /\ OneAtATime' /\ CallsMatch'
  BY <1>1 DEF IInv, NoPoolError, OneAtATime, CallsMatch, CallOf, Procs
<1>4. LockHeld'
  BY <1>1 DEF IInv, LockHeld, Inside, Procs
<1>5. BlocksCounted' /\ PoolSound'
  BY <1>1, BlocksStay, PoolStays DEF Usable, Inside
<1>6. CachesRight'
  BY <1>1, CacheStays DEF CachesRight, Attached, Fresh, Procs
<1>7. AddressesCounted'
  BY <1>1, AddressesStay DEF Attached, Procs
<1>8. DirtyIsOwn'
  BY <1>1 DEF IInv, DirtyIsOwn
<1> QED
  BY <1>2, <1>3, <1>4, <1>5, <1>6, <1>7, <1>8 DEF IInv

(* Either process brings its cache up to date.                             *)
LEMMA RefreshKeeps ==
  ASSUME Experiments, IInv, NEW p \in Procs, Refresh(p)
  PROVE  IInv'
<1> USE ProcessesDiffer, PoolConstants DEF Experiments
<1>1. /\ pc[p] = "refresh"
      /\ pc' = [pc EXCEPT ![p] = IF op[p].kind = "init" THEN "unlock" ELSE "find"]
      /\ UNCHANGED <<segment, creator, ctrlInfoLock, ctrlInfoVersion,
                     freeMemOffset, follows, block, dirty, op, addr, script, want,
                     scripts, runs, error, diedInside>>
  BY RefreshReads DEF pool, life
<1>2. /\ pc[p] \in Inside /\ pc'[p] \in {"unlock", "find"} /\ pc'[p] \in Inside
      /\ \A q \in Procs : q # p => pc'[q] = pc[q]
      /\ p = ns3 \/ pc[ns3] = "down"
      /\ op[p].kind # "reset" /\ (pc'[p] = "find" => op[p].kind = "get")
  BY <1>1 DEF IInv, TypeOK, Procs, Inside, Ops, OneAtATime, CallsMatch, CallOf
<1>3. /\ cur' = [cur EXCEPT ![p] = ctrlInfoVersion]
      /\ seen' = [seen EXCEPT ![p] = ctrlInfoVersion]
      /\ known' \in [Procs -> [Ids \cup {0} -> 0 .. PoolSize]]
      /\ \A q \in Procs : q # p => known'[q] = known[q]
      /\ CacheOf(p)'
  BY RefreshReads
<1>4. TypeOK'
  <2>1. pc' \in [Procs -> Places]
    BY <1>1 DEF IInv, TypeOK, Places, Inside
  <2>2. cur' \in [Procs -> 0 .. PoolSize] /\ seen' \in [Procs -> 0 .. PoolSize]
    BY <1>3 DEF IInv, TypeOK
  <2> QED
    BY <1>1, <1>3, <2>1, <2>2 DEF IInv, TypeOK
<1>5. NoPoolError' /\ OneAtATime' /\ CallsMatch'
  <2>1. NoPoolError' /\ OneAtATime'
    BY <1>1, <1>2 DEF IInv, NoPoolError, OneAtATime, Procs, Inside
  <2>2. \A q \in Procs : CallOf(q)'
    <3>1. CallOf(p)'
      BY <1>1, <1>2 DEF IInv, CallsMatch, CallOf
    <3>2. ASSUME NEW q \in Procs, q # p PROVE CallOf(q)'
      BY <1>1, <1>2, <3>2 DEF IInv, CallsMatch, CallOf
    <3> QED
      BY <3>1, <3>2
  <2> QED
    BY <1>1, <2>1, <2>2 DEF IInv, CallsMatch
<1>6. LockHeld'
  BY <1>1, <1>2 DEF IInv, LockHeld, OneAtATime, Procs, Inside
<1>7. BlocksCounted' /\ PoolSound'
  <2>1. Usable /\ pc[py] \notin {"link", "fill", "count", "advance"}
        /\ pc'[py] \notin {"link", "fill", "count", "advance"}
    BY <1>1, <1>2 DEF IInv, OneAtATime, Usable, Procs, Inside
  <2> QED
    BY <1>1, <2>1, BlocksStay, PoolStays
<1>8. CachesRight'
  <2>1. ASSUME NEW q \in Procs, q # p, Attached(q)' PROVE CacheOf(q)'
    <3>1. pc'[q] = pc[q]
      BY <1>2, <2>1
    <3>2. CacheOf(q)
      BY <2>1, <3>1 DEF IInv, CachesRight, Attached
    <3>3. cur'[q] = cur[q] /\ seen'[q] = seen[q] /\ known'[q] = known[q]
      BY <1>3, <2>1 DEF IInv, TypeOK
    <3> QED
      BY <1>1, <3>1, <3>2, <3>3 DEF CacheOf, Fresh, Appending, ReadTo
  <2> QED
    BY <1>3, <2>1 DEF CachesRight
<1>9. AddressesCounted'
  BY <1>1, <1>2, AddressesStay DEF Attached, Inside
<1>10. DirtyIsOwn'
  BY <1>1, <1>2 DEF IInv, DirtyIsOwn, Procs, OneAtATime
<1> QED
  BY <1>4, <1>5, <1>6, <1>7, <1>8, <1>9, <1>10 DEF IInv

(* The agent looks up an id: known, new, or one that does not fit.         *)
LEMMA AgentFinds ==
  ASSUME Experiments, IInv, Find(py)
  PROVE  IInv'
<1> USE ProcessesDiffer, PoolConstants DEF Experiments
<1>1. pc[py] = "find" /\ py \in Procs /\ pc[ns3] = "down" /\ ctrlInfoLock /\ segment
      /\ pc[ns3] \notin Inside
  BY DEF Find, IInv, OneAtATime, LockHeld, Inside, Procs
<1> DEFINE id == op[py].id
           at == known[py][id]
<1>2. /\ id \in Ids /\ op[py].kind = "get"
      /\ IF at = 0
           THEN \A i \in Counted : block[i].id # id
           ELSE at \in Counted /\ block[at].id = id /\ block[at].size = Size[id]
  BY <1>1, LookupRight
<1>3. /\ UNCHANGED <<segment, creator, ctrlInfoVersion, freeMemOffset, follows,
                     block, dirty, op, cur, seen, known, script, want, scripts,
                     runs, diedInside>>
      /\ \/ /\ pc' = [pc EXCEPT ![py] = "leave"] /\ at # 0
            /\ addr' = [addr EXCEPT ![py][id] = block[at].offset]
            /\ ctrlInfoLock' = ctrlInfoLock /\ error' = error
         \/ /\ pc' = [pc EXCEPT ![py] = "link"] /\ at = 0 /\ Fits(Size[id])
            /\ addr' = addr /\ ctrlInfoLock' = ctrlInfoLock /\ error' = error
         \/ /\ pc' = [pc EXCEPT ![py] = "raised"]
            /\ addr' = addr /\ ~ctrlInfoLock' /\ error' = [error EXCEPT ![py] = "full"]
  <2>1. UNCHANGED <<segment, ctrlInfoVersion, freeMemOffset, follows, block,
                    dirty, op, cur, seen, known, script, want, scripts, runs>>
    BY DEF Find, locals, life
  <2>2. CASE at # 0
    BY <1>2, <2>1, <2>2 DEF Find, Goto
  <2>3. CASE at = 0 /\ Fits(Size[id])
    BY <2>1, <2>3 DEF Find, Goto
  <2>4. CASE at = 0 /\ ~Fits(Size[id])
    <3>1. Fail(py, "full") /\ addr' = addr
      BY <2>4 DEF Find
    <3>2. diedInside' = diedInside
      BY <3>1 DEF Fail, IInv, TypeOK
    <3> QED
      BY <2>1, <3>1, <3>2 DEF Fail, Goto
  <2> QED
    BY <2>2, <2>3, <2>4
<1> HIDE DEF id, at
<1>4. pc'[ns3] = "down" /\ pc'[py] \in {"leave", "link", "raised"}
      /\ (pc'[py] \in Inside => ctrlInfoLock')
  BY <1>1, <1>3 DEF IInv, TypeOK, Procs, Inside
<1>5. addr' = addr \/ (at # 0 /\ addr' = [addr EXCEPT ![py][id] = block[at].offset])
  BY <1>3
<1>6. TypeOK'
  <2>1. pc' \in [Procs -> Places]
    BY <1>3 DEF IInv, TypeOK, Places, Inside
  <2>2. at # 0 => block[at].offset \in 0 .. PoolSize
    <3>1. at # 0 => at \in Slots
      BY <1>2 DEF IInv, TypeOK, Counted, Slots
    <3> QED
      BY <3>1 DEF IInv, TypeOK
  <2>3. addr' \in [Procs -> [Ids -> 0 .. PoolSize \cup {None}]]
    <3>1. CASE addr' = addr
      BY <3>1 DEF IInv, TypeOK
    <3>2. CASE at # 0 /\ addr' = [addr EXCEPT ![py][id] = block[at].offset]
      BY <1>1, <1>2, <2>2, <3>2 DEF IInv, TypeOK
    <3> QED
      BY <1>5, <3>1, <3>2
  <2>4. /\ ctrlInfoLock' \in BOOLEAN
        /\ error' \in [Procs -> {"none", "used", "size", "full", "status"}]
    BY <1>3 DEF IInv, TypeOK, Find, Fail
  <2> QED
    BY <1>3, <2>1, <2>3, <2>4 DEF IInv, TypeOK
<1>7. NoPoolError' /\ OneAtATime' /\ CallsMatch'
  <2>1. NoPoolError'
    BY <1>3 DEF IInv, TypeOK, NoPoolError
  <2> QED
    BY <1>1, <1>2, <1>3, <1>4, <2>1 DEF IInv, OneAtATime, CallsMatch, CallOf, Procs
<1>8. LockHeld'
  <2>1. script' = "clean" /\ pc'[py] \notin Inside => ~ctrlInfoLock'
    BY <1>1, <1>3, <1>4 DEF IInv, TypeOK, Inside, Procs
  <2>2. "down" \notin Inside
    BY DEF Inside
  <2> QED
    BY <1>4, <2>1, <2>2 DEF LockHeld, Procs
<1>9. BlocksCounted' /\ PoolSound'
  <2>1. BlocksCounted'
    BY <1>3, BlocksStay
  <2>2. Usable
    BY <1>1 DEF Usable, Inside
  <2>3. ChainCounted /\ FreeAbove
    BY <1>1, <2>2 DEF IInv, PoolSound
  <2>4. ChainCounted' /\ FreeAbove'
    BY <1>1, <1>3, <1>4, <2>3 DEF ChainCounted, FreeAbove, Counted, End
  <2>5. NewBlock'
    <3>1. pc'[py] = "link" =>
            /\ freeMemOffset + Size[id] < PoolSize - ConfigLen - (ctrlInfoVersion + 1)
            /\ \A i \in Counted : block[i].id # id
      BY <1>1, <1>2, <1>3 DEF IInv, TypeOK, Fits
    <3> QED
      BY <1>3, <1>4, <3>1 DEF NewBlock, Registering, Counted, id
  <2> QED
    BY <2>1, <2>4, <2>5 DEF PoolSound
<1>10. CachesRight'
  BY <1>1, <1>3, <1>4, CacheStays DEF CachesRight, Attached, Fresh, Procs
<1>11. AddressesCounted'
  <2>1. Counted' = Counted /\ block' = block /\ script' = script
    BY <1>3 DEF Counted
  <2>2. \A p \in Procs : \A i \in Ids :
          \/ addr'[p][i] = addr[p][i]
          \/ i = id /\ at # 0 /\ addr'[p][i] = block[at].offset
    <3>1. CASE addr' = addr
      BY <3>1
    <3>2. CASE at # 0 /\ addr' = [addr EXCEPT ![py][id] = block[at].offset]
      BY <1>1, <1>2, <3>2 DEF IInv, TypeOK
    <3> QED
      BY <1>5, <3>1, <3>2
  <2>3. \A p \in Procs : \A i \in Ids :
          addr'[p][i] # None =>
            \E k \in Counted' : block'[k].id = i /\ block'[k].offset = addr'[p][i]
    BY <1>2, <2>1, <2>2 DEF IInv, AddressesCounted
  <2>4. Attached(py)' /\ addr'[ns3] = addr[ns3] /\ addr[ns3] = Nothing
    BY <1>1, <1>3, <1>4 DEF IInv, TypeOK, AddressesCounted, Attached, Procs
  <2>5. script' = "running" => \A i \in NsIds : \E k \in Counted' : block'[k].id = i
    BY <2>1 DEF IInv, AddressesCounted
  <2> QED
    BY <2>3, <2>4, <2>5 DEF AddressesCounted, Procs
<1>12. DirtyIsOwn'
  BY <1>3, <1>4 DEF IInv, DirtyIsOwn
<1> QED
  BY <1>6, <1>7, <1>8, <1>9, <1>10, <1>11, <1>12 DEF IInv

(* The simulator looks up an id, which the script has registered.          *)
LEMMA SimulatorFinds ==
  ASSUME Experiments, IInv, Find(ns3)
  PROVE  IInv'
<1> USE ProcessesDiffer, PoolConstants DEF Experiments
<1>1. /\ pc[ns3] = "find" /\ pc[py] = "idle" /\ script = "running" /\ ns3 \in Procs
      /\ op[ns3].id \in NsIds /\ ctrlInfoLock
  BY DEF Find, IInv, OneAtATime, CallsMatch, CallOf, LockHeld, Inside, Procs
<1> DEFINE id == op[ns3].id
           at == known[ns3][id]
<1>2. /\ id \in Ids /\ at # 0 /\ at \in Counted
      /\ block[at].id = id /\ block[at].size = Size[id]
  <2>1. \E i \in Counted : block[i].id = id
    BY <1>1 DEF IInv, AddressesCounted
  <2>2. /\ id \in Ids
        /\ IF at = 0
             THEN \A i \in Counted : block[i].id # id
             ELSE at \in Counted /\ block[at].id = id /\ block[at].size = Size[id]
    BY <1>1, LookupRight
  <2> QED
    BY <2>1, <2>2
<1>3. /\ pc' = [pc EXCEPT ![ns3] = "leave"]
      /\ addr' = [addr EXCEPT ![ns3][id] = block[at].offset]
      /\ UNCHANGED <<pool, op, locals, life, error, diedInside>>
  BY <1>2 DEF Find, Goto, pool
<1>4. /\ pc'[ns3] = "leave" /\ pc'[py] = "idle"
      /\ UNCHANGED <<segment, creator, ctrlInfoLock, ctrlInfoVersion,
                     freeMemOffset, follows, block, dirty, op, cur, seen, known,
                     script, want, scripts, runs, error, diedInside>>
  BY <1>1, <1>3 DEF IInv, TypeOK, Procs, pool, locals, life
<1>5. \A p \in Procs : \A i \in Ids :
        addr'[p][i] = IF p = ns3 /\ i = id THEN block[at].offset ELSE addr[p][i]
  BY <1>1, <1>2, <1>3 DEF IInv, TypeOK
<1> HIDE DEF id, at
<1>6. TypeOK'
  <2>1. pc' \in [Procs -> Places]
    BY <1>3 DEF IInv, TypeOK, Places, Inside
  <2>2. block[at].offset \in 0 .. PoolSize
    <3>1. at \in Slots
      BY <1>2 DEF IInv, TypeOK, Counted, Slots
    <3> QED
      BY <3>1 DEF IInv, TypeOK
  <2>3. addr' \in [Procs -> [Ids -> 0 .. PoolSize \cup {None}]]
    BY <1>1, <1>2, <1>3, <2>2 DEF IInv, TypeOK
  <2> QED
    BY <1>4, <2>1, <2>3 DEF IInv, TypeOK
<1>7. NoPoolError' /\ OneAtATime' /\ CallsMatch'
  BY <1>1, <1>4 DEF IInv, NoPoolError, OneAtATime, CallsMatch, CallOf, Procs
<1>8. LockHeld'
  BY <1>1, <1>4 DEF IInv, LockHeld, Inside, Procs
<1>9. BlocksCounted' /\ PoolSound'
  BY <1>1, <1>4, BlocksStay, PoolStays DEF Usable, Inside
<1>10. CachesRight'
  BY <1>1, <1>4, CacheStays DEF CachesRight, Attached, Fresh, Procs
<1>11. AddressesCounted'
  <2>1. Counted' = Counted /\ block' = block
    BY <1>4 DEF Counted
  <2>2. \A p \in Procs : \A i \in Ids :
          addr'[p][i] # None =>
            \E k \in Counted' : block'[k].id = i /\ block'[k].offset = addr'[p][i]
    BY <1>2, <1>5, <2>1 DEF IInv, AddressesCounted
  <2>3. \A p \in Procs : Attached(p)'
    BY <1>4 DEF Attached, Procs
  <2>4. \A i \in NsIds : \E k \in Counted' : block'[k].id = i
    BY <1>1, <2>1 DEF IInv, AddressesCounted
  <2> QED
    BY <2>2, <2>3, <2>4 DEF AddressesCounted
<1>12. DirtyIsOwn'
  <2>1. ASSUME NEW d \in dirty
        PROVE  \E i \in NsIds : addr'[ns3][i] # None /\ addr'[ns3][i] = d
    <3>1. PICK i \in NsIds : addr[ns3][i] # None /\ addr[ns3][i] = d
      BY <1>1 DEF IInv, DirtyIsOwn
    <3>2. PICK k \in Counted : block[k].id = i /\ block[k].offset = d
      <4>1. i \in Ids /\ ns3 \in Procs
        BY DEF Ids, Procs
      <4> QED
        BY <3>1, <4>1 DEF IInv, AddressesCounted
    <3>3. addr'[ns3][i] = d
      <4>1. CASE i = id
        <5>1. k = at
          <6>1. k \in Nat /\ at \in Nat
            BY <1>2 DEF Counted
          <6> QED
            BY <1>2, <3>2, <4>1, <6>1 DEF IInv, BlocksCounted
        <5> QED
          BY <1>1, <1>2, <1>5, <3>2, <4>1, <5>1
      <4>2. CASE i # id
        BY <1>1, <1>5, <3>1, <4>2 DEF Ids
      <4> QED
        BY <4>1, <4>2
    <3> QED
      BY <3>1, <3>3
  <2> QED
    BY <1>1, <1>4, <2>1 DEF DirtyIsOwn
<1> QED
  BY <1>6, <1>7, <1>8, <1>9, <1>10, <1>11, <1>12 DEF IInv

(* The agent links a new control block ...                                 *)
LEMMA LinkKeeps ==
  ASSUME Experiments, IInv, Link(py)
  PROVE  IInv'
<1> USE ProcessesDiffer, PoolConstants DEF Experiments
<1>1. /\ pc[py] = "link" /\ pc' = [pc EXCEPT ![py] = "fill"]
      /\ pc'[py] = "fill" /\ pc[ns3] = "down" /\ pc'[ns3] = "down" /\ ctrlInfoLock
      /\ follows' = [follows EXCEPT ![cur[py]] = TRUE]
      /\ cur' = [cur EXCEPT ![py] = @ + 1]
      /\ UNCHANGED <<segment, creator, ctrlInfoLock, ctrlInfoVersion,
                     freeMemOffset, block, dirty, op, seen, known, addr, script,
                     want, scripts, runs, error, diedInside>>
  BY DEF IInv, TypeOK, Procs, OneAtATime, LockHeld, Inside, Link, Goto, life
<1>2. Registering
  BY <1>1 DEF Registering
<1>3. cur[py] = ctrlInfoVersion
  BY <1>1, <1>2, WhileRegistering DEF CacheOf, Appending, Fresh
<1>4. TypeOK'
  <2>1. pc' \in [Procs -> Places]
    BY <1>1 DEF IInv, TypeOK, Places, Inside
  <2>2. cur' \in [Procs -> 0 .. PoolSize]
    <3>1. cur[py] + 1 \in 0 .. PoolSize
      BY <1>2, <1>3, WhileRegistering DEF Slots
    <3> QED
      BY <1>1, <3>1 DEF IInv, TypeOK
  <2>3. follows' \in [0 .. PoolSize -> BOOLEAN]
    BY <1>1 DEF IInv, TypeOK
  <2> QED
    BY <1>1, <2>1, <2>2, <2>3 DEF IInv, TypeOK
<1>5. NoPoolError' /\ OneAtATime' /\ CallsMatch'
  BY <1>1 DEF IInv, NoPoolError, OneAtATime, CallsMatch, CallOf, Procs
<1>6. LockHeld'
  BY <1>1 DEF IInv, LockHeld, Inside, Procs
<1>7. BlocksCounted' /\ PoolSound'
  <2>1. BlocksCounted'
    BY <1>1, BlocksStay
  <2>2. ChainCounted'
    <3>1. \A i \in 0 .. PoolSize : IF i = ctrlInfoVersion THEN follows'[i]
                                                           ELSE follows'[i] = follows[i]
      BY <1>1, <1>2, <1>3, WhileRegistering DEF IInv, TypeOK
    <3>2. \A i \in 0 .. PoolSize : follows[i] <=> i < ctrlInfoVersion
      BY <1>1, <1>2, WhileRegistering DEF ChainCounted
    <3>3. ctrlInfoVersion \in Nat
      BY <1>2, WhileRegistering
    <3>4. \A i \in 0 .. PoolSize : follows'[i] <=> i < ctrlInfoVersion + 1
      <4> TAKE i \in 0 .. PoolSize
      <4>1. (i < ctrlInfoVersion + 1) <=> (i = ctrlInfoVersion \/ i < ctrlInfoVersion)
        BY <3>3
      <4> QED
        BY <3>1, <3>2, <4>1
    <3> QED
      BY <1>1, <3>4 DEF ChainCounted
  <2>3. FreeAbove'
    BY <1>1, <1>2, WhileRegistering DEF FreeAbove, Counted, End
  <2>4. NewBlock'
    BY <1>1, <1>2, WhileRegistering DEF NewBlock, Registering, Counted
  <2> QED
    BY <2>1, <2>2, <2>3, <2>4 DEF PoolSound
<1>8. CachesRight'
  <2>1. CacheOf(py)'
    <3>1. cur'[py] = ctrlInfoVersion + 1 /\ seen[py] = ctrlInfoVersion
      BY <1>1, <1>2, <1>3, WhileRegistering DEF IInv, TypeOK, Procs, CacheOf, Appending
    <3> QED
      BY <1>1, <1>2, <1>3, <3>1, WhileRegistering DEF CacheOf, Appending, Fresh, ReadTo
  <2> QED
    BY <1>1, <2>1 DEF CachesRight, Attached, Procs
<1>9. AddressesCounted'
  BY <1>1, AddressesStay DEF Attached, Procs
<1>10. DirtyIsOwn'
  BY <1>1 DEF IInv, DirtyIsOwn
<1> QED
  BY <1>4, <1>5, <1>6, <1>7, <1>8, <1>9, <1>10 DEF IInv

(* ... fills it ...                                                        *)
LEMMA FillKeeps ==
  ASSUME Experiments, IInv, Fill(py)
  PROVE  IInv'
<1> USE ProcessesDiffer, PoolConstants DEF Experiments
<1>1. /\ pc[py] = "fill" /\ pc' = [pc EXCEPT ![py] = "count"]
      /\ pc'[py] = "count" /\ pc[ns3] = "down" /\ pc'[ns3] = "down" /\ ctrlInfoLock
      /\ follows' = [follows EXCEPT ![cur[py]] = FALSE]
      /\ block' = [block EXCEPT ![cur[py]] = [id |-> op[py].id, size |-> Size[op[py].id],
                                              offset |-> freeMemOffset]]
      /\ known' = [known EXCEPT ![py][op[py].id] = cur[py]]
      /\ UNCHANGED <<segment, creator, ctrlInfoLock, ctrlInfoVersion,
                     freeMemOffset, dirty, op, cur, seen, addr, script, want,
                     scripts, runs, error, diedInside>>
  BY DEF IInv, TypeOK, Procs, OneAtATime, LockHeld, Inside, Fill, Goto, life
<1>2. Registering
  BY <1>1 DEF Registering
<1>3. cur[py] = ctrlInfoVersion + 1 /\ cur[py] \in Slots
  BY <1>1, <1>2, WhileRegistering DEF CacheOf, Appending
<1>4. /\ block'[cur[py]] = [id |-> op[py].id, size |-> Size[op[py].id],
                            offset |-> freeMemOffset]
      /\ \A i \in Slots : i # cur[py] => block'[i] = block[i]
  BY <1>1, <1>3 DEF IInv, TypeOK
<1>5. \A i \in Counted : i \in Slots /\ i # cur[py] /\ block'[i] = block[i]
  BY <1>2, <1>3, <1>4, WhileRegistering DEF Counted, Slots
<1>6. Counted' = Counted
  BY <1>1 DEF Counted
<1>7. TypeOK'
  <2>1. pc' \in [Procs -> Places]
    BY <1>1 DEF IInv, TypeOK, Places, Inside
  <2>2. follows' \in [0 .. PoolSize -> BOOLEAN]
    BY <1>1 DEF IInv, TypeOK
  <2>3. op[py].id \in Ids /\ Size[op[py].id] \in Nat
    BY <1>2, WhileRegistering, SizesPositive
  <2>4. freeMemOffset \in 0 .. PoolSize
    BY DEF IInv, TypeOK, ConfigLen
  <2>5. block' \in [Slots -> [id : Ids \cup {0}, size : Nat, offset : 0 .. PoolSize]]
    BY <1>1, <1>3, <2>3, <2>4 DEF IInv, TypeOK
  <2>6. known' \in [Procs -> [Ids \cup {0} -> 0 .. PoolSize]]
    <3>1. cur[py] \in 0 .. PoolSize
      BY DEF IInv, TypeOK, Procs
    <3> QED
      BY <1>1, <2>3, <3>1 DEF IInv, TypeOK, Procs
  <2> QED
    BY <1>1, <2>1, <2>2, <2>5, <2>6 DEF IInv, TypeOK
<1>8. NoPoolError' /\ OneAtATime' /\ CallsMatch'
  BY <1>1 DEF IInv, NoPoolError, OneAtATime, CallsMatch, CallOf, Procs
<1>9. LockHeld'
  BY <1>1 DEF IInv, LockHeld, Inside, Procs
<1>10. BlocksCounted' /\ PoolSound'
  <2>1. BlocksCounted'
    BY <1>1, <1>5, <1>6 DEF IInv, BlocksCounted, End
  <2>2. ChainCounted'
    <3>1. \A i \in 0 .. PoolSize : follows[i] <=> i < ctrlInfoVersion + 1
      BY <1>1, <1>2, WhileRegistering DEF ChainCounted
    <3>2. \A i \in 0 .. PoolSize : IF i = ctrlInfoVersion + 1 THEN ~follows'[i]
                                                               ELSE follows'[i] = follows[i]
      BY <1>1, <1>3 DEF IInv, TypeOK
    <3>3. \A i \in 0 .. PoolSize : follows'[i] <=> i < ctrlInfoVersion + 1
      <4> TAKE i \in 0 .. PoolSize
      <4>1. i = ctrlInfoVersion + 1 => ~(i < ctrlInfoVersion + 1)
        BY <1>2, WhileRegistering
      <4> QED
        BY <3>1, <3>2, <4>1
    <3> QED
      BY <1>1, <3>3 DEF ChainCounted
  <2>3. FreeAbove'
    BY <1>1, <1>2, <1>5, <1>6, WhileRegistering DEF FreeAbove, End
  <2>4. NewBlock'
    <3>1. \A i \in Counted' : block'[i].id # op'[py].id
      BY <1>1, <1>2, <1>5, <1>6, WhileRegistering
    <3> QED
      BY <1>1, <1>2, <1>3, <1>4, <3>1, WhileRegistering DEF NewBlock
  <2> QED
    BY <2>1, <2>2, <2>3, <2>4 DEF PoolSound
<1>11. CachesRight'
  <2>1. ASSUME NEW id \in Ids
        PROVE  IF known'[py][id] = 0
                 THEN \A i \in 1 .. cur[py] : block'[i].id # id
                 ELSE known'[py][id] \in 1 .. cur[py] /\ block'[known'[py][id]].id = id
    <3>1. /\ known'[py][id] = IF id = op[py].id THEN cur[py] ELSE known[py][id]
          /\ cur[py] # 0 /\ cur[py] \in 1 .. cur[py]
      BY <1>1, <1>3 DEF IInv, TypeOK, Procs, Slots
    <3>2. IF known[py][id] = 0
            THEN \A i \in Counted : block[i].id # id
            ELSE known[py][id] \in Counted /\ block[known[py][id]].id = id
      BY <1>1, <1>2, WhileRegistering DEF CacheOf, ReadTo, Counted
    <3>3. 1 .. cur[py] = Counted \cup {cur[py]}
      BY <1>2, <1>3, WhileRegistering DEF Counted
    <3>4. CASE id = op[py].id
      BY <1>4, <3>1, <3>4
    <3>5. CASE id # op[py].id /\ known[py][id] = 0
      BY <1>4, <1>5, <3>1, <3>2, <3>3, <3>5
    <3>6. CASE id # op[py].id /\ known[py][id] # 0
      BY <1>5, <3>1, <3>2, <3>3, <3>6
    <3> QED
      BY <3>4, <3>5, <3>6
  <2>2. CacheOf(py)'
    BY <1>1, <1>2, <2>1, WhileRegistering DEF CacheOf, Fresh, Appending, ReadTo
  <2> QED
    BY <1>1, <2>2 DEF CachesRight, Attached, Procs
<1>12. AddressesCounted'
  <2>1. addr' = addr /\ script' = script
    BY <1>1
  <2>2. \A p \in Procs : \A id \in Ids :
          addr'[p][id] # None =>
            \E i \in Counted' : block'[i].id = id /\ block'[i].offset = addr'[p][id]
    BY <1>5, <1>6, <2>1 DEF IInv, AddressesCounted
  <2>3. script' = "running" => \A id \in NsIds : \E i \in Counted' : block'[i].id = id
    BY <1>5, <1>6, <2>1 DEF IInv, AddressesCounted
  <2>4. \A p \in Procs : ~Attached(p)' => addr'[p] = Nothing
    BY <1>1, <1>2, <2>1, WhileRegistering DEF IInv, AddressesCounted, Attached, Procs
  <2> QED
    BY <2>2, <2>3, <2>4 DEF AddressesCounted
<1>13. DirtyIsOwn'
  BY <1>1 DEF IInv, DirtyIsOwn
<1> QED
  BY <1>7, <1>8, <1>9, <1>10, <1>11, <1>12, <1>13 DEF IInv

(* ... counts it ...                                                       *)
LEMMA CountKeeps ==
  ASSUME Experiments, IInv, Count(py)
  PROVE  IInv'
<1> USE ProcessesDiffer, PoolConstants DEF Experiments
<1>1. /\ pc[py] = "count" /\ pc' = [pc EXCEPT ![py] = "advance"]
      /\ pc'[py] = "advance" /\ pc[ns3] = "down" /\ pc'[ns3] = "down" /\ ctrlInfoLock
      /\ ctrlInfoVersion' = ctrlInfoVersion + 1
      /\ seen' = [seen EXCEPT ![py] = ctrlInfoVersion + 1]
      /\ UNCHANGED <<segment, creator, ctrlInfoLock, freeMemOffset, follows,
                     block, dirty, op, cur, known, addr, script, want, scripts,
                     runs, error, diedInside>>
  BY DEF IInv, TypeOK, Procs, OneAtATime, LockHeld, Inside, Count, Goto, life
<1>2. Registering
  BY <1>1 DEF Registering
<1>3. block[ctrlInfoVersion + 1] =
        [id |-> op[py].id, size |-> Size[op[py].id], offset |-> freeMemOffset]
  BY <1>1, <1>2, WhileRegistering DEF IInv, PoolSound, NewBlock
<1>4. TypeOK'
  <2>1. pc' \in [Procs -> Places]
    BY <1>1 DEF IInv, TypeOK, Places, Inside
  <2>2. ctrlInfoVersion + 1 \in 0 .. PoolSize
    BY <1>2, WhileRegistering DEF Slots
  <2>3. seen' \in [Procs -> 0 .. PoolSize]
    BY <1>1, <2>2 DEF IInv, TypeOK
  <2> QED
    BY <1>1, <2>1, <2>2, <2>3 DEF IInv, TypeOK
<1>5. NoPoolError' /\ OneAtATime' /\ CallsMatch'
  BY <1>1 DEF IInv, NoPoolError, OneAtATime, CallsMatch, CallOf, Procs
<1>6. LockHeld'
  BY <1>1 DEF IInv, LockHeld, Inside, Procs
<1>7. BlocksCounted'
  <2> DEFINE n == ctrlInfoVersion
  <2>1. n \in Nat /\ Counted' = Counted \cup {n + 1} /\ \A i \in Counted : i < n + 1
    BY <1>1, <1>2, WhileRegistering DEF Counted
  <2>2. \A i \in Counted' : End(i)' = End(i)
    BY <1>1 DEF End
  <2>3. /\ block[n + 1].id = op[py].id /\ block[n + 1].size = Size[op[py].id]
        /\ block[n + 1].offset = freeMemOffset
    BY <1>3
  <2>4. End(n + 1) = freeMemOffset + Size[op[py].id]
    BY <2>3 DEF End
  <2>5. \A i \in Counted : i \in Slots /\ End(i) \in Int
    BY <2>1 DEF IInv, TypeOK, Counted, Slots, End
  <2>6. op[py].id \in Ids /\ Size[op[py].id] \in Nat /\ freeMemOffset \in Nat
    BY <1>2, WhileRegistering, SizesPositive
  <2>7. ASSUME NEW i \in Counted'
        PROVE  /\ block'[i].id \in Ids
               /\ block'[i].size = Size[block'[i].id]
               /\ End(i)' < PoolSize - ConfigLen - ctrlInfoVersion'
    <3>1. CASE i = n + 1
      BY <1>1, <1>2, <2>2, <2>3, <2>4, <3>1, WhileRegistering
    <3>2. CASE i \in Counted
      <4>1. End(i) <= freeMemOffset
        BY <1>2, <3>2, WhileRegistering
      <4>2. End(i) < PoolSize - ConfigLen - (n + 1)
        BY <1>2, <2>1, <2>5, <2>6, <3>2, <4>1, WhileRegistering DEF ConfigLen
      <4> QED
        BY <1>1, <2>2, <3>2, <4>2 DEF IInv, BlocksCounted
    <3> QED
      BY <2>1, <3>1, <3>2
  <2>8. ASSUME NEW i \in Counted', NEW j \in Counted', i < j
        PROVE  block'[i].id # block'[j].id /\ End(i)' <= block'[j].offset
    <3>1. i \in Counted
      BY <1>1, <2>1, <2>8 DEF Counted
    <3>2. CASE j = n + 1
      BY <1>1, <1>2, <2>2, <2>3, <3>1, <3>2, WhileRegistering
    <3>3. CASE j \in Counted
      BY <1>1, <2>2, <2>8, <3>1, <3>3 DEF IInv, BlocksCounted
    <3> QED
      BY <2>1, <3>2, <3>3
  <2> QED
    BY <2>7, <2>8 DEF BlocksCounted
<1>8. PoolSound'
  <2>1. ChainCounted'
    BY <1>1, <1>2, WhileRegistering DEF ChainCounted
  <2>2. FreeAbove'
    <3>1. Counted' = Counted \cup {ctrlInfoVersion + 1} /\ ctrlInfoVersion + 1 # 0
      BY <1>1, <1>2, WhileRegistering DEF Counted
    <3> QED
      BY <1>1, <1>2, <1>3, <3>1, WhileRegistering DEF FreeAbove, End
  <2>3. NewBlock'
    BY <1>1 DEF NewBlock, Registering
  <2> QED
    BY <2>1, <2>2, <2>3 DEF PoolSound
<1>9. CachesRight'
  <2>1. CacheOf(py)'
    <3>1. seen'[py] = ctrlInfoVersion + 1 /\ cur[py] = ctrlInfoVersion + 1
      BY <1>1, <1>2, WhileRegistering DEF IInv, TypeOK, Procs, CacheOf, Appending
    <3> QED
      BY <1>1, <1>2, <3>1, WhileRegistering DEF CacheOf, Appending, Fresh, ReadTo
  <2> QED
    BY <1>1, <2>1 DEF CachesRight, Attached, Procs
<1>10. AddressesCounted'
  <2>1. \A i \in Counted : i \in Counted'
    BY <1>1, <1>2, WhileRegistering DEF Counted
  <2> QED
    BY <1>1, <2>1 DEF IInv, AddressesCounted, Attached, Procs
<1>11. DirtyIsOwn'
  BY <1>1 DEF IInv, DirtyIsOwn
<1> QED
  BY <1>4, <1>5, <1>6, <1>7, <1>8, <1>9, <1>10, <1>11 DEF IInv

(* ... and takes the memory it describes.                                  *)
LEMMA AdvanceKeeps ==
  ASSUME Experiments, IInv, Advance(py)
  PROVE  IInv'
<1> USE ProcessesDiffer, PoolConstants DEF Experiments
<1>1. /\ pc[py] = "advance" /\ pc' = [pc EXCEPT ![py] = "unlock"]
      /\ pc'[py] = "unlock" /\ pc[ns3] = "down" /\ pc'[ns3] = "down" /\ ctrlInfoLock
      /\ addr' = [addr EXCEPT ![py][op[py].id] = freeMemOffset]
      /\ freeMemOffset' = freeMemOffset + Size[op[py].id]
      /\ UNCHANGED <<segment, creator, ctrlInfoLock, ctrlInfoVersion, follows,
                     block, dirty, op, cur, seen, known, script, want, scripts,
                     runs, error, diedInside>>
  BY DEF IInv, TypeOK, Procs, OneAtATime, LockHeld, Inside, Advance, Goto, locals, life
<1>2. /\ segment /\ Usable /\ pc[ns3] = "down" /\ op[py].id \in Ids
      /\ ctrlInfoVersion \in Nat /\ freeMemOffset \in Nat /\ Size[op[py].id] \in Nat
  BY <1>1, SizesPositive
  DEF IInv, TypeOK, OneAtATime, Usable, Inside, CallsMatch, CallOf, Procs, ConfigLen
<1>3. /\ ctrlInfoVersion \in Counted
      /\ block[ctrlInfoVersion].id = op[py].id
      /\ block[ctrlInfoVersion].offset = freeMemOffset
      /\ \A i \in Counted : i # ctrlInfoVersion => End(i) <= freeMemOffset
  BY <1>1, <1>2 DEF IInv, PoolSound, FreeAbove, Counted
<1>4. freeMemOffset' = End(ctrlInfoVersion)
  BY <1>1, <1>3 DEF IInv, BlocksCounted, End
<1>5. Counted' = Counted
  BY <1>1 DEF Counted
<1>6. TypeOK'
  <2>1. pc' \in [Procs -> Places]
    BY <1>1 DEF IInv, TypeOK, Places, Inside
  <2>2. freeMemOffset' \in 0 .. PoolSize - ConfigLen
    <3>1. End(ctrlInfoVersion) < PoolSize - ConfigLen - ctrlInfoVersion
      BY <1>3 DEF IInv, BlocksCounted
    <3> QED
      BY <1>1, <1>2, <1>4, <3>1 DEF ConfigLen
  <2>3. freeMemOffset \in 0 .. PoolSize
    BY DEF IInv, TypeOK, ConfigLen
  <2>4. addr' \in [Procs -> [Ids -> 0 .. PoolSize \cup {None}]]
    BY <1>1, <1>2, <2>3 DEF IInv, TypeOK
  <2> QED
    BY <1>1, <2>1, <2>2, <2>4 DEF IInv, TypeOK
<1>7. NoPoolError' /\ OneAtATime' /\ CallsMatch'
  BY <1>1 DEF IInv, NoPoolError, OneAtATime, CallsMatch, CallOf, Procs
<1>8. LockHeld'
  BY <1>1 DEF IInv, LockHeld, Inside, Procs
<1>9. BlocksCounted' /\ PoolSound'
  <2>1. BlocksCounted'
    BY <1>1, BlocksStay
  <2>2. ChainCounted'
    BY <1>1, <1>2 DEF IInv, PoolSound, ChainCounted
  <2>3. FreeAbove'
    <3>1. \A i \in Counted : i \in Slots /\ End(i) \in Int /\ End(i)' = End(i)
      BY <1>1, <1>2 DEF IInv, TypeOK, Counted, Slots, End
    <3>2. \A i \in Counted : End(i) <= freeMemOffset'
      BY <1>1, <1>2, <1>3, <1>4, <3>1
    <3> QED
      BY <1>1, <1>5, <3>1, <3>2 DEF FreeAbove
  <2>4. NewBlock'
    BY <1>1 DEF NewBlock, Registering
  <2> QED
    BY <2>1, <2>2, <2>3, <2>4 DEF PoolSound
<1>10. CachesRight'
  BY <1>1, CacheStays DEF CachesRight, Attached, Fresh, Procs
<1>11. AddressesCounted'
  <2>1. ASSUME NEW p \in Procs, NEW id \in Ids, addr'[p][id] # None
        PROVE  \E i \in Counted' : block'[i].id = id /\ block'[i].offset = addr'[p][id]
    <3>1. CASE p = py /\ id = op[py].id
      <4>1. addr'[p][id] = freeMemOffset
        BY <1>1, <1>2, <3>1 DEF IInv, TypeOK
      <4> QED
        BY <1>1, <1>3, <1>5, <3>1, <4>1
    <3>2. CASE ~(p = py /\ id = op[py].id)
      <4>1. addr'[p][id] = addr[p][id]
        BY <1>1, <1>2, <3>2 DEF IInv, TypeOK
      <4> QED
        BY <1>1, <1>5, <2>1, <4>1 DEF IInv, AddressesCounted
    <3> QED
      BY <3>1, <3>2
  <2>2. script' = "running" => \A id \in NsIds : \E i \in Counted' : block'[i].id = id
    BY <1>1, <1>5 DEF IInv, AddressesCounted
  <2>3. \A p \in Procs : ~Attached(p)' => addr'[p] = Nothing
    BY <1>1, <1>2 DEF IInv, TypeOK, AddressesCounted, Attached, Procs
  <2> QED
    BY <2>1, <2>2, <2>3 DEF AddressesCounted
<1>12. DirtyIsOwn'
  <2>1. op[py].kind = "get"
    BY <1>1 DEF IInv, CallsMatch, CallOf, Procs
  <2> QED
    BY <1>1, <2>1 DEF IInv, DirtyIsOwn
<1> QED
  BY <1>6, <1>7, <1>8, <1>9, <1>10, <1>11, <1>12 DEF IInv

(* The agent wipes what it has not read: nothing the chain needs.          *)
LEMMA WipeKeeps ==
  ASSUME Experiments, IInv, Wipe
  PROVE  IInv'
<1> USE ProcessesDiffer, PoolConstants DEF Experiments
<1>1. /\ pc[py] = "wipe" /\ pc' = [pc EXCEPT ![py] = "unlock"]
      /\ pc'[py] = "unlock" /\ pc[ns3] = "down" /\ pc'[ns3] = "down" /\ ctrlInfoLock
      /\ dirty' = {}
      /\ follows' = [i \in 0 .. PoolSize |-> i <= cur[py] /\ follows[i]]
      /\ block' = [i \in Slots |-> IF i <= cur[py] THEN block[i] ELSE NoBlock]
      /\ UNCHANGED <<segment, creator, ctrlInfoLock, ctrlInfoVersion,
                     freeMemOffset, op, cur, seen, known, addr, script, want,
                     scripts, runs, error, diedInside>>
  BY DEF IInv, TypeOK, Procs, OneAtATime, LockHeld, Inside, Wipe, Goto, locals, life
<1>2. /\ cur[py] = ctrlInfoVersion /\ ctrlInfoVersion \in 0 .. PoolSize
      /\ segment /\ Usable
  BY <1>1 DEF IInv, TypeOK, Procs, OneAtATime, CachesRight, CacheOf, Fresh, Appending, Attached,
              Usable, Inside
<1>3. \A i \in Slots : block'[i] = IF i <= ctrlInfoVersion THEN block[i] ELSE NoBlock
  BY <1>1, <1>2
<1>4. \A i \in Counted : i \in Slots /\ block'[i] = block[i]
  BY <1>2, <1>3 DEF Counted, Slots
<1>5. \A i \in 0 .. PoolSize : follows'[i] = follows[i]
  BY <1>1, <1>2 DEF IInv, TypeOK, PoolSound, ChainCounted
<1>6. Counted' = Counted
  BY <1>1 DEF Counted
<1>7. TypeOK'
  <2>1. pc' \in [Procs -> Places]
    BY <1>1 DEF IInv, TypeOK, Places, Inside
  <2>2. follows' \in [0 .. PoolSize -> BOOLEAN]
    BY <1>1
  <2>3. NoBlock \in [id : Ids \cup {0}, size : Nat, offset : 0 .. PoolSize]
    BY DEF NoBlock
  <2>4. block' \in [Slots -> [id : Ids \cup {0}, size : Nat, offset : 0 .. PoolSize]]
    BY <1>1, <2>3 DEF IInv, TypeOK
  <2> QED
    BY <1>1, <2>1, <2>2, <2>4 DEF IInv, TypeOK
<1>8. NoPoolError' /\ OneAtATime' /\ CallsMatch'
  BY <1>1 DEF IInv, NoPoolError, OneAtATime, CallsMatch, CallOf, Procs
<1>9. LockHeld'
  BY <1>1 DEF IInv, LockHeld, Inside, Procs
<1>10. BlocksCounted' /\ PoolSound'
  <2>1. BlocksCounted'
    <3>1. ctrlInfoVersion' = ctrlInfoVersion
      BY <1>1
    <3> QED
      BY <1>4, <1>6, <3>1 DEF IInv, BlocksCounted, End
  <2>2. ChainCounted'
    BY <1>1, <1>2, <1>5 DEF IInv, TypeOK, Procs, PoolSound, ChainCounted
  <2>3. FreeAbove'
    BY <1>1, <1>2, <1>4, <1>6 DEF IInv, TypeOK, Procs, PoolSound, FreeAbove, End
  <2>4. NewBlock'
    BY <1>1 DEF IInv, TypeOK, Procs, NewBlock, Registering
  <2> QED
    BY <2>1, <2>2, <2>3, <2>4 DEF PoolSound
<1>11. CachesRight'
  <2>1. CacheOf(py)
    BY <1>1 DEF IInv, CachesRight, Procs, Attached
  <2>2. \A i \in 1 .. ctrlInfoVersion : block'[i] = block[i]
    BY <1>4 DEF Counted
  <2>3. ReadTo(py) = ctrlInfoVersion /\ ReadTo(py)' = ctrlInfoVersion
    BY <1>1, <1>2 DEF ReadTo
  <2>4. \A id \in Ids :
          IF known'[py][id] = 0
            THEN \A i \in 1 .. ctrlInfoVersion : block'[i].id # id
            ELSE known'[py][id] \in 1 .. ctrlInfoVersion /\ block'[known'[py][id]].id = id
    <3>1. known' = known
      BY <1>1
    <3> QED
      BY <2>1, <2>2, <2>3, <3>1 DEF CacheOf
  <2>5. CacheOf(py)'
    BY <1>1, <1>2, <2>1, <2>3, <2>4 DEF CacheOf, Fresh, Appending
  <2> QED
    BY <1>1, <2>5 DEF CachesRight, Attached, Procs
<1>12. AddressesCounted'
  <2>1. addr' = addr /\ script' = script
    BY <1>1
  <2>2. \A p \in Procs : \A id \in Ids :
          addr'[p][id] # None =>
            \E i \in Counted' : block'[i].id = id /\ block'[i].offset = addr'[p][id]
    BY <1>4, <1>6, <2>1 DEF IInv, AddressesCounted
  <2>3. script' = "running" => \A id \in NsIds : \E i \in Counted' : block'[i].id = id
    BY <1>4, <1>6, <2>1 DEF IInv, AddressesCounted
  <2>4. \A p \in Procs : ~Attached(p)' => addr'[p] = Nothing
    BY <1>1 DEF IInv, AddressesCounted, Attached, Procs
  <2> QED
    BY <2>2, <2>3, <2>4 DEF AddressesCounted
<1>13. DirtyIsOwn'
  BY <1>1 DEF IInv, DirtyIsOwn
<1> QED
  BY <1>7, <1>8, <1>9, <1>10, <1>11, <1>12, <1>13 DEF IInv

(* The agent gives the lock back, and finds it set.                        *)
LEMMA AgentUnlocks ==
  ASSUME Experiments, IInv, Unlock(py)
  PROVE  IInv'
<1> USE ProcessesDiffer, PoolConstants DEF Experiments
<1>1. /\ pc[py] \in {"unlock", "leave"} /\ pc[ns3] = "down" /\ ctrlInfoLock
      /\ ctrlInfoLock' = FALSE
      /\ pc' = [pc EXCEPT ![py] = "idle"] /\ pc'[py] = "idle" /\ pc'[ns3] = "down"
      /\ error' = error
      /\ script' = IF op[py].kind = "reset" THEN "clean" ELSE script
      /\ UNCHANGED <<segment, creator, ctrlInfoVersion, freeMemOffset, follows,
                     block, dirty, op, cur, seen, known, addr, want, scripts,
                     runs, diedInside>>
  BY DEF IInv, TypeOK, Procs, OneAtATime, LockHeld, Inside, Unlock, Unlocked, Goto, locals
<1>2. TypeOK'
  BY <1>1 DEF IInv, TypeOK, Places, Inside, Ops, Nothing
<1>3. NoPoolError' /\ OneAtATime' /\ CallsMatch'
  BY <1>1 DEF IInv, NoPoolError, OneAtATime, CallsMatch, CallOf, Procs
<1>4. LockHeld'
  BY <1>1 DEF IInv, LockHeld, Inside, Procs
<1>5. BlocksCounted' /\ PoolSound'
  BY <1>1, BlocksStay, PoolStays DEF Usable, Inside
<1>6. CachesRight'
  BY <1>1, CacheStays DEF CachesRight, Attached, Fresh, Procs
<1>7. AddressesCounted'
  BY <1>1, AddressesStay DEF Attached, Procs
<1>8. DirtyIsOwn'
  BY <1>1 DEF IInv, DirtyIsOwn, CallsMatch, CallOf, Procs
<1> QED
  BY <1>2, <1>3, <1>4, <1>5, <1>6, <1>7, <1>8 DEF IInv

(* The simulator gives the lock back.                                      *)
LEMMA SimulatorUnlocks ==
  ASSUME Experiments, IInv, Unlock(ns3)
  PROVE  IInv'
<1> USE ProcessesDiffer, PoolConstants DEF Experiments
<1>1. /\ pc[ns3] \in {"unlock", "leave"} /\ pc[py] = "idle" /\ script = "running"
      /\ ctrlInfoLock' = FALSE
      /\ pc' = [pc EXCEPT ![ns3] = "idle"] /\ pc'[ns3] = "idle" /\ pc'[py] = "idle"
      /\ error' = error
      /\ UNCHANGED <<segment, creator, ctrlInfoVersion, freeMemOffset, follows,
                     block, dirty, op, cur, seen, known, addr, script, want,
                     scripts, runs, diedInside>>
  BY DEF IInv, TypeOK, Procs, OneAtATime, CallsMatch, Unlock, Unlocked, Goto, locals
<1>2. TypeOK'
  BY <1>1 DEF IInv, TypeOK, Places, Inside, Ops, Nothing
<1>3. NoPoolError' /\ OneAtATime' /\ CallsMatch'
  BY <1>1 DEF IInv, NoPoolError, OneAtATime, CallsMatch, CallOf, Procs
<1>4. LockHeld'
  BY <1>1 DEF IInv, LockHeld, Inside, Procs
<1>5. BlocksCounted' /\ PoolSound'
  BY <1>1, BlocksStay, PoolStays DEF Usable, Inside
<1>6. CachesRight'
  BY <1>1, CacheStays DEF CachesRight, Attached, Fresh, Procs
<1>7. AddressesCounted'
  BY <1>1, AddressesStay DEF Attached, Procs
<1>8. DirtyIsOwn'
  BY <1>1 DEF IInv, DirtyIsOwn
<1> QED
  BY <1>2, <1>3, <1>4, <1>5, <1>6, <1>7, <1>8 DEF IInv

(* A script starts, on a new segment or on one left behind.                *)
LEMMA StartScriptKeeps ==
  ASSUME Experiments, IInv, StartScript
  PROVE  IInv'
<1> USE ProcessesDiffer, PoolConstants DEF Experiments
<1>1. /\ script = "none" /\ pc[py] = "down" /\ Attach(py) /\ py \in Procs
      /\ scripts' \in 0 .. MaxScripts /\ script' = "up" /\ UNCHANGED <<runs,
                                                                       diedInside>>
      /\ want' \subseteq PyIds /\ NsIds \cap PyIds \subseteq want'
      /\ pc[ns3] = "down"
  BY DEF StartScript, IInv, TypeOK, OneAtATime, Procs
<1>2. /\ segment'
      /\ segment => UNCHANGED <<creator, ctrlInfoLock, ctrlInfoVersion,
                                freeMemOffset, follows, block, dirty>>
      /\ ~segment => /\ creator' = py /\ ~ctrlInfoLock' /\ ctrlInfoVersion' = 0
                     /\ freeMemOffset' = 0 /\ dirty' = {}
                     /\ \A i \in 0 .. PoolSize : ~follows'[i]
  BY <1>1, AttachFinds
<1>3. /\ pc' = [pc EXCEPT ![py] = "lock"]
      /\ op' = [op EXCEPT ![py] = [kind |-> "init", id |-> 0]]
      /\ addr' = [addr EXCEPT ![py] = Nothing] /\ error' = [error EXCEPT ![py] = "none"]
      /\ CacheOf(py)'
  BY <1>1, AttachFinds
<1>4. /\ pc'[py] = "lock" /\ pc'[ns3] = "down" /\ op'[ns3] = op[ns3]
      /\ op'[py].kind = "init"
      /\ addr'[py] = Nothing /\ addr'[ns3] = Nothing
  BY <1>1, <1>3 DEF IInv, TypeOK, AddressesCounted, Attached, Procs
<1>5. TypeOK'
  BY <1>1, AttachTyped DEF IInv, TypeOK
<1>6. NoPoolError' /\ OneAtATime' /\ CallsMatch'
  BY <1>1, <1>2, <1>3, <1>4 DEF IInv, TypeOK, NoPoolError, OneAtATime, CallsMatch, CallOf, Procs
<1>7. LockHeld'
  BY <1>1, <1>4 DEF LockHeld, Inside, Procs
<1>8. BlocksCounted' /\ PoolSound'
  <2>1. CASE segment
    BY <1>1, <1>2, <1>4, <2>1, BlocksStay, PoolStays DEF Usable, Inside
  <2>2. CASE ~segment
    <3>1. (\A i \in 0 .. PoolSize : ~(i < ctrlInfoVersion' + 0)) /\ Counted' = {}
      BY <1>2, <2>2 DEF Counted
    <3> QED
      BY <1>2, <1>4, <2>2, <3>1
      DEF BlocksCounted, PoolSound, ChainCounted, FreeAbove, NewBlock, Registering
  <2> QED
    BY <2>1, <2>2
<1>9. CachesRight'
  BY <1>3, <1>4 DEF CachesRight, Attached, Procs
<1>10. AddressesCounted'
  BY <1>1, <1>4 DEF AddressesCounted, Procs, Nothing
<1>11. DirtyIsOwn'
  BY <1>1, <1>4 DEF DirtyIsOwn
<1> QED
  BY <1>5, <1>6, <1>7, <1>8, <1>9, <1>10, <1>11 DEF IInv

(* The simulator attaches to the segment of the script.                    *)
LEMMA NsAttachKeeps ==
  ASSUME Experiments, IInv, NsAttach
  PROVE  IInv'
<1> USE ProcessesDiffer, PoolConstants DEF Experiments
<1>1. /\ pc[ns3] = "started" /\ Attach(ns3) /\ UNCHANGED <<script, want, scripts,
                                                           runs, diedInside>>
      /\ ns3 \in Procs /\ pc[py] = "idle" /\ script = "running" /\ segment
      /\ ~ctrlInfoLock
  BY DEF NsAttach, life, IInv, OneAtATime, LockHeld, Procs
<1>2. /\ UNCHANGED <<creator, ctrlInfoLock, ctrlInfoVersion, freeMemOffset,
                     follows, block, dirty>>
      /\ segment' /\ pc' = [pc EXCEPT ![ns3] = "lock"]
      /\ op' = [op EXCEPT ![ns3] = [kind |-> "init", id |-> 0]]
      /\ addr' = [addr EXCEPT ![ns3] = Nothing]
      /\ error' = [error EXCEPT ![ns3] = "none"]
  BY <1>1, AttachFinds
<1>3. /\ pc'[py] = "idle" /\ pc'[ns3] = "lock" /\ op'[py] = op[py]
      /\ op'[ns3].kind = "init"
      /\ addr'[py] = addr[py] /\ addr'[ns3] = addr[ns3] /\ addr[ns3] = Nothing
  BY <1>1, <1>2 DEF IInv, TypeOK, AddressesCounted, Attached, Procs
<1>4. TypeOK'
  BY <1>1, AttachTyped DEF IInv, TypeOK
<1>5. NoPoolError' /\ OneAtATime' /\ CallsMatch'
  BY <1>1, <1>2, <1>3 DEF IInv, TypeOK, NoPoolError, OneAtATime, CallsMatch, CallOf, Procs
<1>6. LockHeld'
  BY <1>1, <1>2, <1>3 DEF LockHeld, Inside, Procs
<1>7. BlocksCounted' /\ PoolSound'
  BY <1>1, <1>2, <1>3, BlocksStay, PoolStays DEF Usable
<1>8. CachesRight'
  <2>1. cur'[py] = cur[py] /\ seen'[py] = seen[py] /\ known'[py] = known[py]
    BY <1>1, AttachFinds DEF Procs
  <2>2. CacheOf(py)'
    BY <1>1, <1>2, <1>3, <2>1, CacheStays DEF Attached, Fresh, Procs
  <2> QED
    BY <1>1, <2>2, AttachFinds DEF CachesRight, Procs
<1>9. AddressesCounted'
  BY <1>1, <1>2, <1>3, AddressesStay DEF Attached, Procs
<1>10. DirtyIsOwn'
  BY <1>1, <1>2, <1>3 DEF IInv, DirtyIsOwn
<1> QED
  BY <1>4, <1>5, <1>6, <1>7, <1>8, <1>9, <1>10 DEF IInv

(* Experiment.reset kills the simulator wherever it is.                    *)
LEMMA ResetKeeps ==
  ASSUME Experiments, IInv, Reset
  PROVE  IInv'
<1> USE ProcessesDiffer, PoolConstants DEF Experiments
<1>1. /\ pc[py] = "idle" /\ script \in {"up", "running"}
      /\ pc' = [pc EXCEPT ![py] = "lock", ![ns3] = "down"] /\ pc'[py] = "lock"
      /\ pc'[ns3] = "down"
      /\ op' = [op EXCEPT ![py] = [kind |-> "reset", id |-> 0]]
      /\ op'[py] = [kind |-> "reset", id |-> 0] /\ op'[ns3] = op[ns3]
      /\ addr' = [p \in Procs |-> Nothing] /\ diedInside' \in BOOLEAN
      /\ UNCHANGED <<segment, creator, ctrlInfoLock, ctrlInfoVersion,
                     freeMemOffset, follows, block, dirty, cur, seen, known,
                     script, want, scripts, runs, error>>
  BY DEF IInv, TypeOK, Procs, OneAtATime, Reset, pool, locals, life
<1>2. TypeOK'
  BY <1>1 DEF IInv, TypeOK, Places, Inside, Ops, Nothing
<1>3. NoPoolError' /\ OneAtATime' /\ CallsMatch'
  BY <1>1 DEF IInv, NoPoolError, OneAtATime, CallsMatch, CallOf, Procs
<1>4. LockHeld'
  BY <1>1 DEF IInv, LockHeld, Inside, Procs
<1>5. BlocksCounted' /\ PoolSound'
  BY <1>1, BlocksStay, PoolStays DEF Usable, Inside
<1>6. CachesRight'
  BY <1>1, CacheStays DEF CachesRight, Attached, Fresh, Procs
<1>7. AddressesCounted'
  BY <1>1, AddressesStay DEF Attached, Procs
<1>8. DirtyIsOwn'
  BY <1>1 DEF IInv, DirtyIsOwn
<1> QED
  BY <1>2, <1>3, <1>4, <1>5, <1>6, <1>7, <1>8 DEF IInv

(* The script asks for a block.                                            *)
LEMMA RegisterKeeps ==
  ASSUME Experiments, IInv, NEW id \in Ids, Register(id)
  PROVE  IInv'
<1> USE ProcessesDiffer, PoolConstants DEF Experiments
<1>1. /\ pc[py] = "idle" /\ pc[ns3] = "down" /\ script = "clean"
      /\ pc' = [pc EXCEPT ![py] = "lock"] /\ pc'[py] = "lock" /\ pc'[ns3] = "down"
      /\ op' = [op EXCEPT ![py] = [kind |-> "get", id |-> id]]
      /\ op'[py] = [kind |-> "get", id |-> id] /\ op'[ns3] = op[ns3]
      /\ UNCHANGED <<segment, creator, ctrlInfoLock, ctrlInfoVersion,
                     freeMemOffset, follows, block, dirty, cur, seen, known, addr,
                     script, want, scripts, runs, error, diedInside>>
  BY DEF IInv, TypeOK, Procs, OneAtATime, Register, Call, Goto, pool, locals, life
<1>2. TypeOK'
  BY <1>1 DEF IInv, TypeOK, Places, Inside, Ops, Nothing
<1>3. NoPoolError' /\ OneAtATime' /\ CallsMatch'
  BY <1>1 DEF IInv, NoPoolError, OneAtATime, CallsMatch, CallOf, Procs
<1>4. LockHeld'
  BY <1>1 DEF IInv, LockHeld, Inside, Procs
<1>5. BlocksCounted' /\ PoolSound'
  BY <1>1, BlocksStay, PoolStays DEF Usable, Inside
<1>6. CachesRight'
  BY <1>1, CacheStays DEF CachesRight, Attached, Fresh, Procs
<1>7. AddressesCounted'
  BY <1>1, AddressesStay DEF Attached, Procs
<1>8. DirtyIsOwn'
  BY <1>1 DEF IInv, DirtyIsOwn
<1> QED
  BY <1>2, <1>3, <1>4, <1>5, <1>6, <1>7, <1>8 DEF IInv

(* Experiment.run starts the simulator once all blocks are registered.     *)
LEMMA RunKeeps ==
  ASSUME Experiments, IInv, Run
  PROVE  IInv'
<1> USE ProcessesDiffer, PoolConstants DEF Experiments
<1>1. /\ pc[ns3] = "down" /\ pc[py] = "idle" /\ script = "clean" /\ script' = "running"
      /\ \A id \in want : addr[py][id] # None
      /\ runs' \in 0 .. MaxRuns
      /\ pc' = [pc EXCEPT ![ns3] = "started"] /\ pc'[ns3] = "started"
      /\ pc'[py] = "idle"
      /\ UNCHANGED <<segment, creator, ctrlInfoLock, ctrlInfoVersion,
                     freeMemOffset, follows, block, dirty, op, cur, seen, known,
                     addr, want, scripts, error, diedInside>>
  BY DEF IInv, TypeOK, Procs, OneAtATime, Run, Goto, pool, locals
<1>2. TypeOK'
  BY <1>1 DEF IInv, TypeOK, Places, Inside, Ops, Nothing
<1>3. NoPoolError' /\ OneAtATime' /\ CallsMatch'
  BY <1>1 DEF IInv, NoPoolError, OneAtATime, CallsMatch, CallOf, Procs
<1>4. LockHeld'
  BY <1>1 DEF IInv, LockHeld, Inside, Procs
<1>5. BlocksCounted' /\ PoolSound'
  BY <1>1, BlocksStay, PoolStays DEF Usable, Inside
<1>6. CachesRight'
  BY <1>1, CacheStays DEF CachesRight, Attached, Fresh, Procs
<1>7. AddressesCounted'
  <2>1. \A id \in NsIds : \E i \in Counted : block[i].id = id
    <3>1. NsIds \subseteq want
      BY <1>1 DEF IInv, OneAtATime
    <3> QED
      BY <1>1, <3>1 DEF IInv, AddressesCounted, Procs, Ids
  <2> QED
    BY <1>1, <2>1 DEF IInv, AddressesCounted, Attached, Counted, Procs
<1>8. DirtyIsOwn'
  BY <1>1 DEF IInv, DirtyIsOwn
<1> QED
  BY <1>2, <1>3, <1>4, <1>5, <1>6, <1>7, <1>8 DEF IInv

(* The simulator asks for a block.                                         *)
LEMMA NsRegisterKeeps ==
  ASSUME Experiments, IInv, NEW id \in Ids, NsRegister(id)
  PROVE  IInv'
<1> USE ProcessesDiffer, PoolConstants DEF Experiments
<1>1. /\ pc[ns3] = "idle" /\ pc[py] = "idle" /\ script = "running" /\ id \in NsIds
      /\ pc' = [pc EXCEPT ![ns3] = "lock"] /\ pc'[ns3] = "lock" /\ pc'[py] = "idle"
      /\ op' = [op EXCEPT ![ns3] = [kind |-> "get", id |-> id]]
      /\ op'[ns3] = [kind |-> "get", id |-> id] /\ op'[py] = op[py]
      /\ UNCHANGED <<segment, creator, ctrlInfoLock, ctrlInfoVersion,
                     freeMemOffset, follows, block, dirty, cur, seen, known, addr,
                     script, want, scripts, runs, error, diedInside>>
  BY DEF IInv, TypeOK, Procs, OneAtATime, NsRegister, Call, Goto, pool, locals, life
<1>2. TypeOK'
  BY <1>1 DEF IInv, TypeOK, Places, Inside, Ops, Nothing
<1>3. NoPoolError' /\ OneAtATime' /\ CallsMatch'
  BY <1>1 DEF IInv, NoPoolError, OneAtATime, CallsMatch, CallOf, Procs
<1>4. LockHeld'
  BY <1>1 DEF IInv, LockHeld, Inside, Procs
<1>5. BlocksCounted' /\ PoolSound'
  BY <1>1, BlocksStay, PoolStays DEF IInv, LockHeld, Usable, Inside
<1>6. CachesRight'
  BY <1>1, CacheStays DEF CachesRight, Attached, Fresh, Procs
<1>7. AddressesCounted'
  BY <1>1, AddressesStay DEF Attached, Procs
<1>8. DirtyIsOwn'
  BY <1>1 DEF IInv, DirtyIsOwn
<1> QED
  BY <1>2, <1>3, <1>4, <1>5, <1>6, <1>7, <1>8 DEF IInv

(* The simulator writes to a block it has got.                             *)
LEMMA UseKeeps ==
  ASSUME Experiments, IInv, NEW id \in Ids, Use(id)
  PROVE  IInv'
<1> USE ProcessesDiffer, PoolConstants DEF Experiments
<1>1. /\ pc[ns3] = "idle" /\ pc[py] = "idle" /\ script = "running" /\ pc' = pc
      /\ id \in NsIds /\ addr[ns3][id] # None /\ dirty' = dirty \cup {addr[ns3][id]}
      /\ UNCHANGED <<segment, creator, ctrlInfoLock, ctrlInfoVersion,
                     freeMemOffset, follows, block, op, cur, seen, known, addr,
                     script, want, scripts, runs, error, diedInside>>
  BY DEF IInv, TypeOK, Procs, OneAtATime, Use, locals, life
<1>2. TypeOK'
  <2>1. addr[ns3][id] \in 0 .. PoolSize
    BY <1>1 DEF IInv, TypeOK, Procs
  <2> QED
    BY <1>1, <2>1 DEF IInv, TypeOK
<1>3. NoPoolError' /\ OneAtATime' /\ CallsMatch'
  BY <1>1 DEF IInv, NoPoolError, OneAtATime, CallsMatch, CallOf, Procs
<1>4. LockHeld'
  BY <1>1 DEF IInv, LockHeld, Inside, Procs
<1>5. BlocksCounted' /\ PoolSound'
  BY <1>1, BlocksStay, PoolStays DEF Usable, Inside
<1>6. CachesRight'
  BY <1>1, CacheStays DEF CachesRight, Attached, Fresh, Procs
<1>7. AddressesCounted'
  BY <1>1, AddressesStay DEF Attached, Procs
<1>8. DirtyIsOwn'
  BY <1>1 DEF IInv, DirtyIsOwn
<1> QED
  BY <1>2, <1>3, <1>4, <1>5, <1>6, <1>7, <1>8 DEF IInv

(* The simulator exits.                                                    *)
LEMMA NsExitKeeps ==
  ASSUME Experiments, IInv, NsExit
  PROVE  IInv'
<1> USE ProcessesDiffer, PoolConstants DEF Experiments
<1>1. /\ pc[py] = "idle" /\ script = "running" /\ pc[ns3] # "down"
      /\ pc' = [pc EXCEPT ![ns3] = "down"] /\ pc'[ns3] = "down" /\ pc'[py] = "idle"
      /\ addr' = [addr EXCEPT ![ns3] = Nothing] /\ diedInside' \in BOOLEAN
      /\ addr'[ns3] = Nothing /\ addr'[py] = addr[py]
      /\ UNCHANGED <<segment, creator, ctrlInfoLock, ctrlInfoVersion,
                     freeMemOffset, follows, block, dirty, op, cur, seen, known,
                     script, want, scripts, runs, error>>
  BY DEF IInv, TypeOK, Procs, OneAtATime, Ends, locals, NsExit, life
<1>2. TypeOK'
  BY <1>1 DEF IInv, TypeOK, Places, Inside, Ops, Nothing
<1>3. NoPoolError' /\ OneAtATime' /\ CallsMatch'
  BY <1>1 DEF IInv, NoPoolError, OneAtATime, CallsMatch, CallOf, Procs
<1>4. LockHeld'
  BY <1>1 DEF IInv, LockHeld, Inside, Procs
<1>5. BlocksCounted' /\ PoolSound'
  BY <1>1, BlocksStay, PoolStays DEF Usable, Inside
<1>6. CachesRight'
  BY <1>1, CacheStays DEF CachesRight, Attached, Fresh, Procs
<1>7. AddressesCounted'
  BY <1>1, AddressesStay DEF Attached, Procs
<1>8. DirtyIsOwn'
  BY <1>1 DEF IInv, DirtyIsOwn
<1> QED
  BY <1>2, <1>3, <1>4, <1>5, <1>6, <1>7, <1>8 DEF IInv

(* The simulator crashes, perhaps with the lock.                           *)
LEMMA NsCrashKeeps ==
  ASSUME Experiments, IInv, NsCrash
  PROVE  IInv'
<1> USE ProcessesDiffer, PoolConstants DEF Experiments
<1>1. /\ pc[py] = "idle" /\ script = "running" /\ pc[ns3] # "down"
      /\ pc' = [pc EXCEPT ![ns3] = "down"] /\ pc'[ns3] = "down" /\ pc'[py] = "idle"
      /\ addr' = [addr EXCEPT ![ns3] = Nothing] /\ diedInside' \in BOOLEAN
      /\ addr'[ns3] = Nothing /\ addr'[py] = addr[py]
      /\ UNCHANGED <<segment, creator, ctrlInfoLock, ctrlInfoVersion,
                     freeMemOffset, follows, block, dirty, op, cur, seen, known,
                     script, want, scripts, runs, error>>
  BY DEF IInv, TypeOK, Procs, OneAtATime, Ends, locals, NsCrash, Attached, life
<1>2. TypeOK'
  BY <1>1 DEF IInv, TypeOK, Places, Inside, Ops, Nothing
<1>3. NoPoolError' /\ OneAtATime' /\ CallsMatch'
  BY <1>1 DEF IInv, NoPoolError, OneAtATime, CallsMatch, CallOf, Procs
<1>4. LockHeld'
  BY <1>1 DEF IInv, LockHeld, Inside, Procs
<1>5. BlocksCounted' /\ PoolSound'
  BY <1>1, BlocksStay, PoolStays DEF Usable, Inside
<1>6. CachesRight'
  BY <1>1, CacheStays DEF CachesRight, Attached, Fresh, Procs
<1>7. AddressesCounted'
  BY <1>1, AddressesStay DEF Attached, Procs
<1>8. DirtyIsOwn'
  BY <1>1 DEF IInv, DirtyIsOwn
<1> QED
  BY <1>2, <1>3, <1>4, <1>5, <1>6, <1>7, <1>8 DEF IInv

(* The script ends.                                                        *)
LEMMA CloseKeeps ==
  ASSUME Experiments, IInv, Close
  PROVE  IInv'
<1> USE ProcessesDiffer, PoolConstants DEF Experiments
<1>1. /\ script' = "none" /\ pc' = [p \in Procs |-> "down"] /\ pc'[py] = "down"
      /\ pc'[ns3] = "down"
      /\ creator' = None /\ addr' = [p \in Procs |-> Nothing] /\ diedInside' \in BOOLEAN
      /\ pc[py] \in {"idle", "raised"} /\ segment' \in BOOLEAN /\ (segment' => segment)
      /\ UNCHANGED <<ctrlInfoLock, ctrlInfoVersion, freeMemOffset, follows, block,
                     dirty, op, cur, seen, known, want, scripts, runs, error>>
  BY DEF IInv, TypeOK, Procs, OneAtATime, Ends, locals, Close
<1>2. TypeOK'
  BY <1>1 DEF IInv, TypeOK, Places, Inside, Ops, Nothing
<1>3. NoPoolError' /\ OneAtATime' /\ CallsMatch'
  BY <1>1 DEF IInv, NoPoolError, OneAtATime, CallsMatch, CallOf, Procs
<1>4. LockHeld'
  BY <1>1 DEF IInv, LockHeld, Inside, Procs
<1>5. BlocksCounted' /\ PoolSound'
  BY <1>1, BlocksStay, PoolStays DEF IInv, Usable, Inside
<1>6. CachesRight'
  BY <1>1, CacheStays DEF CachesRight, Attached, Fresh, Procs
<1>7. AddressesCounted'
  BY <1>1, AddressesStay DEF Attached, Procs
<1>8. DirtyIsOwn'
  BY <1>1 DEF IInv, DirtyIsOwn
<1> QED
  BY <1>2, <1>3, <1>4, <1>5, <1>6, <1>7, <1>8 DEF IInv

(* Both processes die where they are.                                      *)
LEMMA SessionLostKeeps ==
  ASSUME Experiments, IInv, SessionLost
  PROVE  IInv'
<1> USE ProcessesDiffer, PoolConstants DEF Experiments
<1>1. /\ script' = "none" /\ pc' = [p \in Procs |-> "down"] /\ pc'[py] = "down"
      /\ pc'[ns3] = "down"
      /\ creator' = None /\ addr' = [p \in Procs |-> Nothing] /\ diedInside' \in BOOLEAN
      /\ UNCHANGED <<segment, ctrlInfoLock, ctrlInfoVersion, freeMemOffset,
                     follows, block, dirty, op, cur, seen, known, want, scripts,
                     runs, error>>
  BY DEF IInv, TypeOK, Procs, OneAtATime, Ends, locals, SessionLost
<1>2. TypeOK'
  BY <1>1 DEF IInv, TypeOK, Places, Inside, Ops, Nothing
<1>3. NoPoolError' /\ OneAtATime' /\ CallsMatch'
  BY <1>1 DEF IInv, NoPoolError, OneAtATime, CallsMatch, CallOf, Procs
<1>4. LockHeld'
  BY <1>1 DEF IInv, LockHeld, Inside, Procs
<1>5. BlocksCounted' /\ PoolSound'
  <2>1. Usable' => ~ctrlInfoLock /\ pc[py] \notin Inside
    BY <1>1 DEF IInv, LockHeld, Usable, Inside, Procs
  <2> QED
    BY <1>1, <2>1, BlocksStay, PoolStays DEF Usable, Inside
<1>6. CachesRight'
  BY <1>1, CacheStays DEF CachesRight, Attached, Fresh, Procs
<1>7. AddressesCounted'
  BY <1>1, AddressesStay DEF Attached, Procs
<1>8. DirtyIsOwn'
  BY <1>1 DEF IInv, DirtyIsOwn
<1> QED
  BY <1>2, <1>3, <1>4, <1>5, <1>6, <1>7, <1>8 DEF IInv

----------------------------------------------------------------------------
(* Nothing exists at the start.                                            *)
LEMMA InitIInv == Init => IInv
<1> SUFFICES ASSUME Init PROVE IInv
  OBVIOUS
<1> USE ProcessesDiffer, PoolConstants
<1>1. TypeOK
  <2>1. block \in [Slots -> [id : Ids \cup {0}, size : Nat, offset : 0 .. PoolSize]]
    <3>1. NoBlock \in [id : Ids \cup {0}, size : Nat, offset : 0 .. PoolSize]
      BY DEF NoBlock
    <3> QED
      BY <3>1 DEF Init
  <2>2. /\ op \in [Procs -> [kind : Ops, id : Ids \cup {0}]]
        /\ pc \in [Procs -> Places]
        /\ known \in [Procs -> [Ids \cup {0} -> 0 .. PoolSize]]
        /\ addr \in [Procs -> [Ids -> 0 .. PoolSize \cup {None}]]
    BY DEF Init, Ops, Places, Nothing
  <2>3. /\ follows \in [0 .. PoolSize -> BOOLEAN]
        /\ cur \in [Procs -> 0 .. PoolSize] /\ seen \in [Procs -> 0 .. PoolSize]
        /\ error \in [Procs -> {"none", "used", "size", "full", "status"}]
    BY DEF Init
  <2>4. /\ ctrlInfoVersion \in 0 .. PoolSize /\ freeMemOffset \in 0 .. PoolSize - ConfigLen
        /\ dirty \subseteq 0 .. PoolSize /\ want \subseteq PyIds
        /\ scripts \in 0 .. MaxScripts /\ runs \in 0 .. MaxRuns
    BY DEF Init, ConfigLen
  <2> QED
    BY <2>1, <2>2, <2>3, <2>4 DEF Init, TypeOK
<1>2. NoPoolError /\ OneAtATime /\ CallsMatch /\ LockHeld
  BY DEF Init, NoPoolError, OneAtATime, CallsMatch, CallOf, LockHeld, Inside, Procs
<1>3. BlocksCounted /\ PoolSound
  BY DEF Init, BlocksCounted, PoolSound, Counted
<1>4. CachesRight /\ AddressesCounted /\ DirtyIsOwn
  BY DEF Init, CachesRight, Attached, AddressesCounted, DirtyIsOwn, Nothing, Procs
<1> QED
  BY <1>1, <1>2, <1>3, <1>4 DEF IInv

(* Every step of an experiment keeps the invariant.                        *)
LEMMA StepIInv ==
  ASSUME Experiments, IInv, [Next]_vars
  PROVE  IInv'
<1>1. CASE UNCHANGED vars
  <2>1. UNCHANGED <<segment, creator, ctrlInfoLock, ctrlInfoVersion,
                    freeMemOffset, follows, block, dirty, pc, op, cur, seen,
                    known, addr, script, want, scripts, runs, error, diedInside>>
    BY <1>1 DEF vars, pool, locals, life
  <2>2. TypeOK' /\ NoPoolError' /\ OneAtATime' /\ CallsMatch' /\ LockHeld'
    BY <2>1 DEF IInv, TypeOK, NoPoolError, OneAtATime, CallsMatch, CallOf, LockHeld
  <2>3. BlocksCounted' /\ PoolSound'
    BY <2>1 DEF IInv, BlocksCounted, PoolSound, Usable, ChainCounted, FreeAbove, NewBlock,
                Registering, Counted, End
  <2>4. CachesRight' /\ AddressesCounted' /\ DirtyIsOwn'
    BY <2>1 DEF IInv, CachesRight, CacheOf, Appending, Fresh, ReadTo, Attached,
                AddressesCounted, Counted, DirtyIsOwn
  <2> QED
    BY <2>2, <2>3, <2>4 DEF IInv
<1>2. ASSUME NEW p \in Procs, PoolStep(p) PROVE IInv'
  <2>1. CASE p = py
    BY <1>2, <2>1, AgentLocks, RefreshKeeps, AgentFinds, LinkKeeps, FillKeeps, CountKeeps,
       AdvanceKeeps, AgentUnlocks,
       WipeKeeps
    DEF PoolStep
  <2>2. CASE p = ns3
    <3>1. ~Link(ns3) /\ ~Fill(ns3) /\ ~Count(ns3) /\ ~Advance(ns3)
      BY DEF IInv, OneAtATime, Link, Fill, Count, Advance
    <3> QED
      BY <1>2, <2>2, <3>1, ProcessesDiffer, SimulatorLocks, RefreshKeeps, SimulatorFinds,
         SimulatorUnlocks
      DEF PoolStep
  <2> QED
    BY <2>1, <2>2 DEF Procs
<1>3. CASE StartScript \/ Reset \/ Run \/ NsAttach \/ NsExit \/ NsCrash \/ Close \/ SessionLost
  BY <1>3, StartScriptKeeps, ResetKeeps, RunKeeps, NsAttachKeeps, NsExitKeeps, NsCrashKeeps,
     CloseKeeps, SessionLostKeeps
<1>4. ASSUME NEW id \in Ids, Register(id) \/ NsRegister(id) \/ Use(id) PROVE IInv'
  BY <1>4, RegisterKeeps, NsRegisterKeeps, UseKeeps
<1> QED
  BY <1>1, <1>2, <1>3, <1>4 DEF Next

(* The invariant of the pool under Experiment.                             *)
THEOREM PoolInvariance == ASSUME Experiments PROVE Spec => []IInv
<1>1. IInv /\ [Next]_vars => IInv'
  BY StepIInv
<1> QED
  BY <1>1, InitIInv, PTL DEF Spec

(* Type correctness: the counters and offsets stay inside the segment,     *)
(* however many blocks are registered and however often the segment is     *)
(* used again.                                                             *)
THEOREM PoolTypeCorrect == ASSUME Experiments PROVE Spec => []TypeOK
<1>1. IInv => TypeOK
  BY DEF IInv
<1> QED
  BY <1>1, PoolInvariance, PTL

(* Neither process ever stops with an id used twice, a size that differs   *)
(* or a lock it did not hold.                                              *)
THEOREM PoolNeverFails == ASSUME Experiments PROVE Spec => []NoPoolError
<1>1. IInv => NoPoolError
  BY DEF IInv
<1> QED
  BY <1>1, PoolInvariance, PTL

(* The counted control blocks lie in the segment.                          *)
LEMMA CountedTyped ==
  ASSUME IInv, NEW i \in Counted
  PROVE  i \in Nat /\ i \in Slots /\ block[i].offset \in Nat
<1>1. i \in Nat /\ i \in Slots
  BY PoolConstants DEF IInv, TypeOK, Counted, Slots
<1> QED
  BY <1>1 DEF IInv, TypeOK

(* Counted blocks with the same id, or at the same address, are the same.  *)
LEMMA OneBlockPerId ==
  ASSUME IInv, NEW i \in Counted, NEW j \in Counted,
         block[i].id = block[j].id \/ block[i].offset = block[j].offset
  PROVE  i = j
<1>1. /\ i \in Nat /\ j \in Nat /\ i \in Slots /\ j \in Slots
      /\ block[i].offset \in Nat /\ block[j].offset \in Nat
  BY CountedTyped
<1>2. /\ block[i].size \in Nat /\ block[i].size > 0
      /\ block[j].size \in Nat /\ block[j].size > 0
  BY SizesPositive DEF IInv, BlocksCounted
<1>3. ~(i < j)
  <2>1. i < j => block[i].id # block[j].id /\ End(i) <= block[j].offset
    BY DEF IInv, BlocksCounted
  <2> QED
    BY <1>1, <1>2, <2>1 DEF End
<1>4. ~(j < i)
  <2>1. j < i => block[j].id # block[i].id /\ End(j) <= block[i].offset
    BY DEF IInv, BlocksCounted
  <2> QED
    BY <1>1, <1>2, <2>1 DEF End
<1> QED
  BY <1>1, <1>3, <1>4

(* Agent and simulator always get the same block for the same id.          *)
THEOREM PoolSharesMemory == ASSUME Experiments PROVE Spec => []SameMemory
<1>1. IInv => SameMemory
  <2> SUFFICES ASSUME IInv, NEW id \in Ids, addr[py][id] # None, addr[ns3][id] # None
               PROVE  addr[py][id] = addr[ns3][id]
    BY DEF SameMemory
  <2>1. PICK i \in Counted : block[i].id = id /\ block[i].offset = addr[py][id]
    BY DEF IInv, AddressesCounted, Procs
  <2>2. PICK j \in Counted : block[j].id = id /\ block[j].offset = addr[ns3][id]
    BY DEF IInv, AddressesCounted, Procs
  <2>3. i = j
    BY <2>1, <2>2, OneBlockPerId
  <2> QED
    BY <2>1, <2>2, <2>3
<1> QED
  BY <1>1, PoolInvariance, PTL

(* No block reaches into another or into the control blocks, up to the     *)
(* last one that fits.                                                     *)
THEOREM PoolKeepsBlocksApart == ASSUME Experiments PROVE Spec => []BlocksDisjoint
<1>1. IInv => BlocksDisjoint
  <2> SUFFICES ASSUME IInv PROVE BlocksDisjoint
    OBVIOUS
  <2>1. ASSUME NEW p \in Procs, NEW id \in Ids, addr[p][id] # None
        PROVE  \E i \in Counted :
                 /\ block[i].id = id /\ block[i].offset = addr[p][id]
                 /\ i \in Nat /\ addr[p][id] \in Nat /\ Size[id] \in Nat
                 /\ Extent(p, id) = addr[p][id] .. End(i) - 1
                 /\ End(i) = addr[p][id] + Size[id]
    <3>1. PICK i \in Counted : block[i].id = id /\ block[i].offset = addr[p][id]
      BY <2>1 DEF IInv, AddressesCounted
    <3>2. i \in Nat /\ addr[p][id] \in Nat /\ Size[id] \in Nat
      BY <3>1, CountedTyped, SizesPositive
    <3>3. End(i) = addr[p][id] + Size[id]
      BY <3>1 DEF IInv, BlocksCounted, End
    <3> QED
      BY <3>1, <3>2, <3>3 DEF Extent
  <2>2. ASSUME NEW p \in Procs, NEW id \in Ids, addr[p][id] # None, NEW k \in Extent(p, id)
        PROVE  k < PoolSize - ConfigLen - cur[p]
    <3>1. PICK i \in Counted : /\ Extent(p, id) = addr[p][id] .. End(i) - 1
                              /\ End(i) = addr[p][id] + Size[id]
                              /\ addr[p][id] \in Nat /\ Size[id] \in Nat
      BY <2>1, <2>2
    <3>2. k \in Int /\ k < End(i) /\ End(i) \in Int
      BY <2>2, <3>1
    <3>3. End(i) < PoolSize - ConfigLen - ctrlInfoVersion
      BY DEF IInv, BlocksCounted
    <3>4. /\ ctrlInfoVersion \in Nat /\ cur[p] \in Nat /\ PoolSize \in Nat /\ ConfigLen \in Nat
          /\ freeMemOffset \in Nat
      BY PoolConstants DEF IInv, TypeOK, ConfigLen
    <3>5. CacheOf(p)
      <4>1. Attached(p)
        BY <2>2 DEF IInv, AddressesCounted, Nothing
      <4> QED
        BY <4>1 DEF IInv, CachesRight
    <3>6. CASE ~Appending(p)
      <4>1. cur[p] <= ctrlInfoVersion
        BY <3>5, <3>6 DEF CacheOf
      <4> QED
        BY <3>2, <3>3, <3>4, <4>1
    <3>7. CASE Appending(p)
      <4>1. cur[p] = ctrlInfoVersion + 1
        BY <3>5, <3>7 DEF CacheOf
      <4>2. p = py /\ Registering
        BY <3>7 DEF IInv, OneAtATime, Appending, Registering, Procs
      <4>3. /\ End(i) <= freeMemOffset /\ op[py].id \in Ids
            /\ freeMemOffset + Size[op[py].id] < PoolSize - ConfigLen - (ctrlInfoVersion + 1)
        BY <4>2, WhileRegistering
      <4>4. Size[op[py].id] \in Nat
        BY <4>3, SizesPositive
      <4> QED
        BY <3>2, <3>4, <4>1, <4>3, <4>4
    <3> QED
      BY <3>6, <3>7
  <2>3. ASSUME NEW p \in Procs, NEW q \in Procs, NEW id \in Ids, NEW jd \in Ids,
               addr[p][id] # None, addr[q][jd] # None, id # jd
        PROVE  Extent(p, id) \cap Extent(q, jd) = {}
    <3>1. PICK i \in Counted : /\ block[i].id = id /\ block[i].offset = addr[p][id] /\ i \in Nat
                              /\ Extent(p, id) = addr[p][id] .. End(i) - 1
                              /\ End(i) = addr[p][id] + Size[id]
                              /\ addr[p][id] \in Nat /\ Size[id] \in Nat
      BY <2>1, <2>3
    <3>2. PICK j \in Counted : /\ block[j].id = jd /\ block[j].offset = addr[q][jd] /\ j \in Nat
                              /\ Extent(q, jd) = addr[q][jd] .. End(j) - 1
                              /\ End(j) = addr[q][jd] + Size[jd]
                              /\ addr[q][jd] \in Nat /\ Size[jd] \in Nat
      BY <2>1, <2>3
    <3>3. /\ i < j => End(i) <= addr[q][jd]
          /\ j < i => End(j) <= addr[p][id]
      BY <3>1, <3>2 DEF IInv, BlocksCounted
    <3>4. i # j
      BY <2>3, <3>1, <3>2
    <3> QED
      BY <3>1, <3>2, <3>3, <3>4
  <2> QED
    BY <2>2, <2>3 DEF BlocksDisjoint
<1> QED
  BY <1>1, PoolInvariance, PTL

(* A simulator gets no address but by looking up an id.                    *)
LEMMA OnlyFindGives ==
  ASSUME IInv, Next, NEW id \in NsIds, addr[ns3][id] = None, addr'[ns3][id] # None
  PROVE  Find(ns3)
<1>0. id \in Ids /\ py \in Procs /\ ns3 \in Procs
  BY DEF Ids, Procs
<1>1. ASSUME NEW p \in Procs, PoolStep(p), ~Find(ns3) PROVE FALSE
  <2>1. CASE p = ns3
    <3>1. ~Advance(ns3)
      BY DEF IInv, OneAtATime, Advance
    <3> QED
      BY <1>1, <2>1, <3>1, ProcessesDiffer
      DEF PoolStep, CtrlInfoLock, Refresh, Link, Fill, Count, Unlock
  <2>2. CASE p = py
    <3>1. addr' = addr \/ \E i \in Ids : \E a : addr' = [addr EXCEPT ![py][i] = a]
      BY <1>1, <2>2
      DEF PoolStep, CtrlInfoLock, Refresh, Find, Link, Fill, Count, Advance, Unlock,
          Wipe, IInv, CallsMatch, CallOf, Procs
    <3> QED
      BY <1>0, <3>1, ProcessesDiffer DEF IInv, TypeOK
  <2> QED
    BY <2>1, <2>2 DEF Procs
<1>2. CASE StartScript \/ NsAttach
  <2>1. addr' = [addr EXCEPT ![py] = Nothing] \/ addr' = [addr EXCEPT ![ns3] = Nothing]
    BY <1>2 DEF StartScript, NsAttach, Attach
  <2> QED
    BY <1>0, <2>1, ProcessesDiffer DEF IInv, TypeOK, Nothing
<1>3. CASE Reset \/ NsExit \/ NsCrash \/ Close \/ SessionLost
  BY <1>0, <1>3 DEF Reset, NsExit, NsCrash, Close, SessionLost, Ends, Nothing
<1>4. CASE Run \/ \E i \in Ids : Register(i) \/ NsRegister(i) \/ Use(i)
  BY <1>4 DEF Run, Register, NsRegister, Use
<1> QED
  BY <1>1, <1>2, <1>3, <1>4 DEF Next

(* No simulator starts on what an earlier one has left in its block.       *)
THEOREM PoolBlocksAreFresh == ASSUME Experiments PROVE Spec => FreshBlock
<1>1. IInv /\ IInv' /\ [Next]_vars =>
        [\A id \in NsIds :
           addr[ns3][id] = None /\ addr'[ns3][id] # None => addr'[ns3][id] \notin dirty]_vars
  <2> SUFFICES ASSUME IInv, IInv', Next, NEW id \in NsIds,
                      addr[ns3][id] = None, addr'[ns3][id] # None, addr'[ns3][id] \in dirty
               PROVE  FALSE
    OBVIOUS
  <2>1. Find(ns3)
    BY OnlyFindGives
  <2>2. pc[ns3] = "find" /\ ns3 \in Procs /\ id \in Ids /\ block' = block
        /\ ctrlInfoVersion' = ctrlInfoVersion
    BY <2>1 DEF Find, Procs, Ids
  <2>3. PICK jd \in NsIds : addr[ns3][jd] # None /\ addr[ns3][jd] = addr'[ns3][id]
    BY <2>2 DEF IInv, DirtyIsOwn
  <2>4. PICK j \in Counted : block[j].id = jd /\ block[j].offset = addr[ns3][jd]
    BY <2>2, <2>3 DEF IInv, AddressesCounted, Ids
  <2>5. PICK i \in Counted' : block'[i].id = id /\ block'[i].offset = addr'[ns3][id]
    BY <2>2 DEF IInv, AddressesCounted
  <2>6. i \in Counted /\ block[i].id = id /\ block[i].offset = block[j].offset
    BY <2>2, <2>3, <2>4, <2>5 DEF Counted
  <2>7. i = j
    BY <2>6, OneBlockPerId
  <2> QED
    BY <2>3, <2>4, <2>6, <2>7
<1> QED
  BY <1>1, PoolInvariance, PTL DEF Spec, FreshBlock
=============================================================================
