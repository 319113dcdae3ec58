------------------------------ MODULE ShmLock ------------------------------
(***************************************************************************)
(* One lockable block of the ns3-ai shared memory pool: the two counters   *)
(* of SharedMemoryLockable and the compare-and-swap loops that acquire,    *)
(* release and roll back the block, as they are compiled into the ns-3     *)
(* process (model/memory-pool.cc) and into the Python extension            *)
(* (py_interface/memory-pool.c).                                           *)
(*                                                                         *)
(* A call such as                                                          *)
(*   CAS(&info->nextVersion, info->version, info->version + 1)             *)
(* is three accesses to shared memory: the counter is volatile, so it is   *)
(* read once for the expected and once for the desired value, in an order  *)
(* the language leaves open (GCC reads the desired value first), and only  *)
(* then compared and swapped.  Each access is a step here.                 *)
(***************************************************************************)
EXTENDS Integers, FiniteSets

CONSTANTS
  Clients,     \* the threads of control that lock this block
  Raising,     \* the clients whose release raises instead of retrying: Python
  Readers,     \* the clients that only ever roll back: getters
  Turn,        \* Turn[c]: the versions that satisfy c's acquire condition
  W,           \* number of values of a counter: 2^8 in the code
  None         \* "not read yet"

Word == 0 .. W - 1

ASSUME WordSize == W \in Nat /\ W > 1
ASSUME NoneIsNoWord == None \notin Word
ASSUME TurnsAreVersions == Turn \in [Clients -> SUBSET Word]
ASSUME RolesAreClients == Raising \subseteq Clients /\ Readers \subseteq Clients

(* How the block must be used: a version belongs to at most one client     *)
(* that may advance it; only getters share a version.                      *)
Discipline ==
  \A c, d \in Clients :
    c # d /\ Turn[c] \cap Turn[d] # {} => {c, d} \subseteq Readers

VARIABLES
  version,      \* SharedMemoryLockable.version
  nextVersion,  \* SharedMemoryLockable.nextVersion
  pc,           \* what each client is executing
  expected,     \* the CAS argument each client has read, or None
  desired       \* the other CAS argument each client has read, or None

vars == <<version, nextVersion, pc, expected, desired>>

(* The loops and the places between them: "await" spins on the condition,  *)
(* "passed" has seen it hold, "acquire", "release" and "rollback" are the  *)
(* CAS loops, a client is "held" between an acquire and a release, "error" *)
(* is a raised RuntimeError.                                               *)
CasLoops == {"acquire", "release", "rollback"}
Places == CasLoops \cup {"idle", "await", "passed", "held", "error"}

(* The client's accesses to the payload happen in these places.            *)
Holding(c) == pc[c] \in {"held", "release", "rollback"}

(* Counters are uint8_t: the int results of "+ (uint8_t)1" and             *)
(* "- (uint8_t)1" are truncated when they reach the CAS.                   *)
Inc(v) == (v + 1) % W
DecSaturated(v) == IF v = 0 THEN 0 ELSE v - 1
Dec(v) == (v - 1) % W

TypeOK ==
  /\ version \in Word
  /\ nextVersion \in Word
  /\ pc \in [Clients -> Places]
  /\ expected \in [Clients -> Word \cup {None}]
  /\ desired \in [Clients -> Word \cup {None}]

Init ==
  /\ version = 0
  /\ nextVersion = 0
  /\ pc = [c \in Clients |-> "idle"]
  /\ expected = [c \in Clients |-> None]
  /\ desired = [c \in Clients |-> None]

Goto(c, place) == pc' = [pc EXCEPT ![c] = place]

----------------------------------------------------------------------------
(* AcquireMemory[Cond|Target|CondFunc]: wait for the condition, then loop  *)
(* on the CAS.  The condition is not part of the CAS loop.                 *)
StartAcquire(c) ==
  /\ pc[c] = "idle"
  /\ Goto(c, "await")
  /\ UNCHANGED <<version, nextVersion, expected, desired>>

PassConditionUnchecked(c) ==
  /\ pc[c] = "await"
  /\ Goto(c, "passed")
  /\ UNCHANGED <<version, nextVersion, expected, desired>>

PassCondition(c) ==
  /\ pc[c] = "await"
  /\ version \in Turn[c]
  /\ Goto(c, "passed")
  /\ UNCHANGED <<version, nextVersion, expected, desired>>

EnterCasLoop(c) ==
  /\ pc[c] = "passed"
  /\ Goto(c, "acquire")
  /\ UNCHANGED <<version, nextVersion, expected, desired>>

(* Python's Acquire returns None, before or after it has seen the version, *)
(* if the simulation has finished; it never enters the CAS loop then.      *)
Abandon(c) ==
  /\ pc[c] \in {"await", "passed"}
  /\ c \in Raising
  /\ Goto(c, "idle")
  /\ UNCHANGED <<version, nextVersion, expected, desired>>

(* The arguments of the three CAS calls.                                   *)
ExpectedArg(loop) ==
  CASE loop = "acquire"  -> version
    [] loop = "release"  -> Dec(nextVersion)
    [] loop = "rollback" -> Inc(version)

DesiredArgNoRestore(loop) ==
  IF loop = "release" THEN nextVersion ELSE Inc(version)

DesiredArg(loop) ==
  CASE loop = "acquire"  -> Inc(version)
    [] loop = "release"  -> nextVersion
    [] loop = "rollback" -> version

ReadExpected(c) ==
  /\ pc[c] \in CasLoops
  /\ expected[c] = None
  /\ expected' = [expected EXCEPT ![c] = ExpectedArg(pc[c])]
  /\ UNCHANGED <<version, nextVersion, pc, desired>>

ReadDesired(c) ==
  /\ pc[c] \in CasLoops
  /\ desired[c] = None
  /\ desired' = [desired EXCEPT ![c] = DesiredArg(pc[c])]
  /\ UNCHANGED <<version, nextVersion, pc, expected>>

(* The compare-and-swap of a word.  Its arguments are dropped whether it   *)
(* succeeds or not: a retry evaluates them again.                          *)
CasIn(c, loop) ==
  /\ pc[c] = loop
  /\ expected[c] # None
  /\ desired[c] # None
  /\ expected' = [expected EXCEPT ![c] = None]
  /\ desired' = [desired EXCEPT ![c] = None]

Swapped(word, c) == word = expected[c]
Swap(word, c) == IF Swapped(word, c) THEN desired[c] ELSE word

CasAcquire(c) ==
  /\ CasIn(c, "acquire")
  /\ nextVersion' = Swap(nextVersion, c)
  /\ Goto(c, IF Swapped(nextVersion, c) THEN "held" ELSE "acquire")
  /\ UNCHANGED version

(* Where a failed release goes: C++ loops, the Python function raises.     *)
AfterFailure(c) == IF c \in Raising THEN "error" ELSE pc[c]

CasRelease(c) ==
  /\ CasIn(c, "release")
  /\ version' = Swap(version, c)
  /\ Goto(c, IF Swapped(version, c) THEN "idle" ELSE AfterFailure(c))
  /\ UNCHANGED nextVersion

CasRollback(c) ==
  /\ CasIn(c, "rollback")
  /\ nextVersion' = Swap(nextVersion, c)
  /\ Goto(c, IF Swapped(nextVersion, c) THEN "idle" ELSE AfterFailure(c))
  /\ UNCHANGED version

(* SetCompleted, __exit__ and the second half of IncMemoryVersion.         *)
StartRelease(c) ==
  /\ pc[c] = "held"
  /\ c \notin Readers
  /\ Goto(c, "release")
  /\ UNCHANGED <<version, nextVersion, expected, desired>>

(* GetCompleted and ReleaseAndRollback.                                    *)
StartRollback(c) ==
  /\ pc[c] = "held"
  /\ Goto(c, "rollback")
  /\ UNCHANGED <<version, nextVersion, expected, desired>>

(* The steps of the memory pool's own code, as opposed to its callers'.    *)
PoolStep(c) ==
  \/ PassCondition(c)
  \/ EnterCasLoop(c)
  \/ ReadExpected(c)
  \/ ReadDesired(c)
  \/ CasAcquire(c)
  \/ CasRelease(c)
  \/ CasRollback(c)

CallerStep(c) ==
  \/ StartAcquire(c)
  \/ Abandon(c)
  \/ StartRelease(c)
  \/ StartRollback(c)

Next == \E c \in Clients : PoolStep(c) \/ CallerStep(c)

Spec == Init /\ [][Next]_vars

----------------------------------------------------------------------------
(* No two clients are between a successful acquire and the end of their    *)
(* release: the payload has one user at a time.                            *)
MutualExclusion ==
  \A c, d \in Clients : Holding(c) /\ Holding(d) => c = d

(* Whoever holds the block acquired it at a version that satisfied the     *)
(* condition it waited for ("Acquire memory if version%mod==res").         *)
AcquiredInTurn == \A c \in Clients : Holding(c) => version \in Turn[c]

(* Python's single-shot release never finds the counters changed under it: *)
(* "Lock %u status error" is not raised.                                   *)
NoStatusError == \A c \in Clients : pc[c] # "error"

(* The counters say whether the block is held: they differ by one exactly  *)
(* while some client holds it, so a free block can always be acquired.     *)
CountersTellHolder ==
  nextVersion = IF \E c \in Clients : Holding(c) THEN Inc(version) ELSE version
=============================================================================
