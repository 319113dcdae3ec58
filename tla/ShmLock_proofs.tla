-------------------------- MODULE ShmLock_proofs ---------------------------
(***************************************************************************)
(* Safety of the versioned lock for any number of clients, any counter     *)
(* width and any acquire conditions, as long as the clients keep the       *)
(* Discipline: no version belongs to two clients of which one advances it. *)
(***************************************************************************)
EXTENDS ShmLock, TLAPS

(* A client past its condition and before the end of its release.          *)
Engaged(c) == Holding(c) \/ pc[c] \in {"passed", "acquire"}

(* While a client is engaged the version stays one of its own.             *)
EngagedInTurn == \A c \in Clients : Engaged(c) => version \in Turn[c]

(* The arguments an engaged client has read are still what it would read.  *)
ArgsCurrent ==
  \A c \in Clients :
    /\ pc[c] \notin CasLoops => expected[c] = None /\ desired[c] = None
    /\ pc[c] \in CasLoops =>
         /\ expected[c] \in {None, ExpectedArg(pc[c])}
         /\ desired[c] \in {None, DesiredArg(pc[c])}

(* The counters tell whether the block is held.                            *)
FreeWhenUnheld == (\A c \in Clients : ~Holding(c)) => nextVersion = version
BusyWhenHeld == (\E c \in Clients : Holding(c)) => nextVersion = Inc(version)

(* Only a client that may advance the version is ever in the release loop. *)
ReleasersWrite == \A c \in Clients : pc[c] = "release" => c \notin Readers

(* The inductive invariant.                                                *)
IInv ==
  /\ TypeOK
  /\ EngagedInTurn
  /\ ArgsCurrent
  /\ FreeWhenUnheld
  /\ BusyWhenHeld
  /\ MutualExclusion
  /\ NoStatusError
  /\ ReleasersWrite

----------------------------------------------------------------------------
(* Arithmetic of the uint8_t counters: incrementing stays in range, moves  *)
(* the counter, and is undone by decrementing.                             *)
LEMMA WordArithmetic ==
  \A v \in Word : /\ Inc(v) \in Word
                  /\ Inc(v) # v
                  /\ Dec(v) \in Word
                  /\ Dec(Inc(v)) = v
<1> SUFFICES ASSUME NEW v \in Word
             PROVE  /\ Inc(v) \in Word
                    /\ Inc(v) # v
                    /\ Dec(v) \in Word
                    /\ Dec(Inc(v)) = v
  OBVIOUS
<1>1. v \in Int /\ 0 <= v /\ v < W /\ W \in Int /\ W > 1
  BY WordSize DEF Word
<1>2. CASE v = W - 1
  <2>1. (v + 1) % W = 0
    BY <1>1, <1>2
  <2>2. (0 - 1) % W = W - 1
    BY <1>1
  <2>3. (v - 1) % W = v - 1
    BY <1>1, <1>2
  <2> QED
    BY <1>1, <1>2, <2>1, <2>2, <2>3 DEF Inc, Dec, Word
<1>3. CASE v # W - 1
  <2>1. (v + 1) % W = v + 1
    BY <1>1, <1>3
  <2>2. ((v + 1) - 1) % W = v
    BY <1>1
  <2>3. (v - 1) % W \in Word
    BY <1>1 DEF Word
  <2> QED
    BY <1>1, <1>3, <2>1, <2>2, <2>3 DEF Inc, Dec, Word
<1> QED
  BY <1>2, <1>3

(* Two engaged clients are both getters: neither advances the version.     *)
LEMMA EngagedTogetherRead ==
  ASSUME Discipline, IInv,
         NEW c \in Clients, NEW d \in Clients, c # d, Engaged(c), Engaged(d)
  PROVE  c \in Readers /\ d \in Readers
<1>1. version \in Turn[c] \cap Turn[d]
  BY DEF IInv, EngagedInTurn
<1> QED
  BY <1>1 DEF Discipline

(* The invariant holds initially.                                          *)
LEMMA InitIInv == Init => IInv
BY WordSize, NoneIsNoWord
DEF Init, IInv, TypeOK, EngagedInTurn, Engaged, Holding, ArgsCurrent, CasLoops, Places,
    FreeWhenUnheld, BusyWhenHeld, MutualExclusion, NoStatusError, ReleasersWrite, Word

(* The steps of a client's caller and the passing of its condition move    *)
(* only its place.                                                         *)
LEMMA StartIInv ==
  ASSUME IInv, NEW c \in Clients,
         CallerStep(c) \/ PassCondition(c) \/ EnterCasLoop(c)
  PROVE  IInv'
<1> USE DEF IInv, TypeOK, EngagedInTurn, Engaged, Holding, ArgsCurrent, CasLoops, Places,
            FreeWhenUnheld, BusyWhenHeld, MutualExclusion, NoStatusError, ReleasersWrite,
            ExpectedArg, DesiredArg, Inc, Dec, Goto
<1>1. CASE StartAcquire(c)
  BY <1>1 DEF StartAcquire
<1>2. CASE StartRelease(c)
  BY <1>2 DEF StartRelease
<1>3. CASE StartRollback(c)
  BY <1>3 DEF StartRollback
<1>4. CASE PassCondition(c)
  BY <1>4 DEF PassCondition
<1>5. CASE EnterCasLoop(c)
  BY <1>5 DEF EnterCasLoop
<1>6. CASE Abandon(c)
  BY <1>6 DEF Abandon
<1> QED
  BY <1>1, <1>2, <1>3, <1>4, <1>5, <1>6 DEF CallerStep

(* Reading an argument reads a word and leaves the counters alone.         *)
LEMMA ReadIInv ==
  ASSUME IInv, NEW c \in Clients,
         ReadExpected(c) \/ ReadDesired(c)
  PROVE  IInv'
<1> USE DEF IInv, TypeOK, EngagedInTurn, Engaged, Holding, ArgsCurrent, CasLoops, Places,
            FreeWhenUnheld, BusyWhenHeld, MutualExclusion, NoStatusError, ReleasersWrite
<1>1. \A l \in CasLoops : ExpectedArg(l) \in Word /\ DesiredArg(l) \in Word
  BY WordArithmetic DEF ExpectedArg, DesiredArg
<1>2. CASE ReadExpected(c)
  BY <1>1, <1>2 DEF ReadExpected, ExpectedArg, DesiredArg
<1>3. CASE ReadDesired(c)
  BY <1>1, <1>3 DEF ReadDesired, ExpectedArg, DesiredArg
<1> QED
  BY <1>2, <1>3

(* The acquiring CAS succeeds only on a free block, and then with the      *)
(* version it read: it swaps in the successor of the current version.      *)
LEMMA CasAcquireIInv ==
  ASSUME IInv, NEW c \in Clients, CasAcquire(c)
  PROVE  IInv'
<1> USE DEF IInv, TypeOK
<1>1. /\ pc[c] = "acquire"
      /\ expected[c] = version
      /\ desired[c] = Inc(version)
  BY DEF CasAcquire, CasIn, ArgsCurrent, CasLoops, ExpectedArg, DesiredArg
<1>2. Inc(version) \in Word /\ Inc(version) # version
  BY WordArithmetic
<1>3. CASE nextVersion = version
  <2>1. \A d \in Clients : ~Holding(d)
    BY <1>2, <1>3 DEF BusyWhenHeld
  <2>2. /\ version' = version
        /\ nextVersion' = Inc(version)
        /\ pc' = [pc EXCEPT ![c] = "held"]
        /\ expected' = [expected EXCEPT ![c] = None]
        /\ desired' = [desired EXCEPT ![c] = None]
    BY <1>1, <1>3 DEF CasAcquire, CasIn, Swap, Swapped, Goto
  <2>3. TypeOK' /\ EngagedInTurn' /\ NoStatusError' /\ ReleasersWrite'
    BY <1>1, <1>2, <2>2
    DEF EngagedInTurn, Engaged, Holding, NoStatusError, ReleasersWrite, Places
  <2>4. ArgsCurrent'
    BY <1>1, <2>1, <2>2 DEF ArgsCurrent, CasLoops, ExpectedArg, DesiredArg, Holding, Inc, Dec
  <2>5. FreeWhenUnheld' /\ BusyWhenHeld' /\ MutualExclusion'
    BY <2>1, <2>2 DEF FreeWhenUnheld, BusyWhenHeld, MutualExclusion, Holding, Inc
  <2> QED
    BY <2>3, <2>4, <2>5
<1>4. CASE nextVersion # version
  <2>1. /\ version' = version
        /\ nextVersion' = nextVersion
        /\ pc' = pc
        /\ expected' = [expected EXCEPT ![c] = None]
        /\ desired' = [desired EXCEPT ![c] = None]
    BY <1>1, <1>4 DEF CasAcquire, CasIn, Swap, Swapped, Goto
  <2> QED
    BY <1>1, <2>1
    DEF EngagedInTurn, Engaged, Holding, ArgsCurrent, CasLoops, ExpectedArg, DesiredArg,
        FreeWhenUnheld, BusyWhenHeld, MutualExclusion, NoStatusError, ReleasersWrite, Inc, Dec
<1> QED
  BY <1>3, <1>4

(* The releasing CAS of a holder always succeeds, and no other client is   *)
(* engaged when the version moves.                                         *)
LEMMA CasReleaseIInv ==
  ASSUME Discipline, IInv, NEW c \in Clients, CasRelease(c)
  PROVE  IInv'
<1> USE DEF IInv, TypeOK
<1>1. /\ pc[c] = "release"
      /\ expected[c] = Dec(nextVersion)
      /\ desired[c] = nextVersion
  BY DEF CasRelease, CasIn, ArgsCurrent, CasLoops, ExpectedArg, DesiredArg
<1>2. nextVersion = Inc(version) /\ Dec(nextVersion) = version
  BY <1>1, WordArithmetic DEF BusyWhenHeld, Holding
<1>3. /\ version' = nextVersion
      /\ nextVersion' = nextVersion
      /\ pc' = [pc EXCEPT ![c] = "idle"]
      /\ expected' = [expected EXCEPT ![c] = None]
      /\ desired' = [desired EXCEPT ![c] = None]
  BY <1>1, <1>2 DEF CasRelease, CasIn, Swap, Swapped, Goto
<1>4. \A d \in Clients : d # c => ~Engaged(d)
  BY <1>1, EngagedTogetherRead DEF ReleasersWrite, Engaged, Holding
<1>5. TypeOK' /\ EngagedInTurn' /\ NoStatusError' /\ ReleasersWrite' /\ ArgsCurrent'
  BY <1>1, <1>3, <1>4
  DEF EngagedInTurn, Engaged, Holding, NoStatusError, ReleasersWrite, Places, ArgsCurrent, CasLoops
<1>6. FreeWhenUnheld' /\ BusyWhenHeld' /\ MutualExclusion'
  BY <1>3, <1>4 DEF FreeWhenUnheld, BusyWhenHeld, MutualExclusion, Holding, Engaged
<1> QED
  BY <1>5, <1>6

(* The CAS of a rollback always succeeds and frees the block.              *)
LEMMA CasRollbackIInv ==
  ASSUME IInv, NEW c \in Clients, CasRollback(c)
  PROVE  IInv'
<1> USE DEF IInv, TypeOK
<1>1. /\ pc[c] = "rollback"
      /\ expected[c] = Inc(version)
      /\ desired[c] = version
  BY DEF CasRollback, CasIn, ArgsCurrent, CasLoops, ExpectedArg, DesiredArg
<1>2. nextVersion = Inc(version)
  BY <1>1 DEF BusyWhenHeld, Holding
<1>3. /\ version' = version
      /\ nextVersion' = version
      /\ pc' = [pc EXCEPT ![c] = "idle"]
      /\ expected' = [expected EXCEPT ![c] = None]
      /\ desired' = [desired EXCEPT ![c] = None]
  BY <1>1, <1>2 DEF CasRollback, CasIn, Swap, Swapped, Goto
<1>4. \A d \in Clients : d # c => ~Holding(d)
  BY <1>1 DEF MutualExclusion, Holding
<1>5. TypeOK' /\ EngagedInTurn' /\ NoStatusError' /\ ReleasersWrite'
  BY <1>1, <1>3
  DEF EngagedInTurn, Engaged, Holding, NoStatusError, ReleasersWrite, Places
<1>6. ArgsCurrent'
  BY <1>1, <1>3, <1>4 DEF ArgsCurrent, CasLoops, ExpectedArg, DesiredArg, Holding, Inc, Dec
<1>7. FreeWhenUnheld' /\ BusyWhenHeld' /\ MutualExclusion'
  BY <1>3, <1>4 DEF FreeWhenUnheld, BusyWhenHeld, MutualExclusion, Holding
<1> QED
  BY <1>5, <1>6, <1>7

(* Every step keeps the invariant.                                         *)
LEMMA StepIInv ==
  ASSUME Discipline, IInv, [Next]_vars
  PROVE  IInv'
<1>1. CASE UNCHANGED vars
  BY <1>1
  DEF vars, IInv, TypeOK, EngagedInTurn, Engaged, Holding, ArgsCurrent, CasLoops, ExpectedArg,
      DesiredArg, FreeWhenUnheld, BusyWhenHeld, MutualExclusion, NoStatusError, ReleasersWrite,
      Inc, Dec
<1>2. CASE Next
  <2>1. PICK c \in Clients : PoolStep(c) \/ CallerStep(c)
    BY <1>2 DEF Next
  <2> QED
    BY <2>1, StartIInv, ReadIInv, CasAcquireIInv, CasReleaseIInv, CasRollbackIInv DEF PoolStep
<1> QED
  BY <1>1, <1>2

(* Under the Discipline the counters, places and arguments are well typed  *)
(* and the whole inductive invariant holds of every reachable state.       *)
THEOREM Invariance == ASSUME Discipline PROVE Spec => []IInv
<1>1. IInv /\ [Next]_vars => IInv'
  BY StepIInv
<1> QED
  BY InitIInv, <1>1, PTL DEF Spec

(* AcquireMemory...ReleaseMemory: one user of the payload at a time.       *)
THEOREM LockExcludes == ASSUME Discipline PROVE Spec => []MutualExclusion
<1>1. IInv => MutualExclusion
  BY DEF IInv
<1> QED
  BY <1>1, Invariance, PTL

(* AcquireMemoryCond: the block is held at a version its holder waited for. *)
THEOREM LockInTurn == ASSUME Discipline PROVE Spec => []AcquiredInTurn
<1>1. IInv => AcquiredInTurn
  BY DEF IInv, EngagedInTurn, Engaged, AcquiredInTurn
<1> QED
  BY <1>1, Invariance, PTL

(* py_releaseMemory and py_releaseMemoryAndRollback never raise.           *)
THEOREM LockNeverRaises == ASSUME Discipline PROVE Spec => []NoStatusError
<1>1. IInv => NoStatusError
  BY DEF IInv
<1> QED
  BY <1>1, Invariance, PTL

(* The two counters tell whether the block is held.                        *)
THEOREM LockCounters == ASSUME Discipline PROVE Spec => []CountersTellHolder
<1>1. IInv => CountersTellHolder
  BY DEF IInv, FreeWhenUnheld, BusyWhenHeld, CountersTellHolder
<1> QED
  BY <1>1, Invariance, PTL
=============================================================================
