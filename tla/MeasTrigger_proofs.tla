------------------------ MODULE MeasTrigger_proofs -------------------------
(***************************************************************************)
(* Theorems about MeasTrigger, for any cells, delays and bounds, when the  *)
(* delays are fixed: no agent adjusts them. The queues cancel the right    *)
(* timers because they have them in the order of scheduling and, with one  *)
(* delay, that is the order in which they are due: the trigger that the    *)
(* code takes out is then the one that has fired. The first lemmas are     *)
(* about sequences, those that follow about each action.                   *)
(***************************************************************************)
EXTENDS MeasTrigger, FiniteSetTheorems, WellFoundedInduction, TLAPS

(* What m_timeToTrigger alone configures, without an agent (m_mroExp       *)
(* false) and without a file of per-cell parameters that differ: a cell's  *)
(* time to trigger does not change, and it is the same for every cell that *)
(* leaves.  Cells may enter with different delays.                         *)
FixedDelays ==
  /\ \A c \in Cells : \A d, e \in Delays[c] : d = e
  /\ \A c, e \in Cells : LeaveDelay[c] = LeaveDelay[e]

(* A timer is known by its id.                                             *)
UniqueIds(evs) == \A i, j \in 1 .. Len(evs) : evs[i].id = evs[j].id => i = j

(* The queue q has the timers of kind k in the order of their scheduling.  *)
Mirrors(k, evs, q) ==
  /\ \A i \in 1 .. Len(evs) : evs[i].kind = k =>
       \E a \in 1 .. Len(q) : q[a].id = evs[i].id /\ q[a].cell = evs[i].cell
  /\ \A a \in 1 .. Len(q) : \E i \in 1 .. Len(evs) :
       evs[i].kind = k /\ evs[i].id = q[a].id /\ evs[i].cell = q[a].cell
  /\ \A i, j \in 1 .. Len(evs) : \A a, b \in 1 .. Len(q) :
       i <= j /\ evs[i].id = q[a].id /\ evs[j].id = q[b].id => a <= b

(* Of two timers that could be mistaken for each other, the older one is   *)
(* not due later.                                                          *)
SameQueue(s, t) ==
  s.kind = t.kind /\ (s.kind = "leave" \/ (s.kind = "enter" /\ s.cell = t.cell))
OldestFirst(evs) ==
  \A i, j \in 1 .. Len(evs) : i <= j /\ SameQueue(evs[i], evs[j]) => evs[i].left <= evs[j].left

(* A trigger for entering runs as long as the condition has been met.      *)
EnterOK(t) ==
  t.kind = "enter" =>
    /\ since[t.cell] >= 0
    /\ \E d \in Delays[t.cell] : t.left <= d /\ t.left + since[t.cell] >= d

(* A trigger for leaving belongs to a triggered cell.                      *)
LeaveOK(t) ==
  t.kind = "leave" =>
    /\ reporting /\ t.cell \in triggered
    /\ since[t.cell] = -1
    /\ t.left <= LeaveDelay[t.cell]

(* What holds of every timer.                                              *)
TimersOK == \A i \in 1 .. Len(timers) : EnterOK(timers[i]) /\ LeaveOK(timers[i])

(* A cell that meets the entry condition and is not in the list has a      *)
(* trigger that is due in time.                                            *)
DueInTime(c, t) ==
  /\ t.kind = "enter" /\ t.cell = c
  /\ \E d \in Delays[c] : t.left + since[c] <= d

(* Such cells are never forgotten.                                         *)
Awaited ==
  \A c \in Cells : since[c] >= 0 /\ ~hasTriggered(c) =>
    \E i \in 1 .. Len(timers) : DueInTime(c, timers[i])

(* Without a connection nothing runs.                                      *)
NothingWhenIdle ==
  mode = "idle" =>
    /\ Len(timers) = 0 /\ Len(entering) = 0 /\ Len(leaving) = 0
    /\ loop = {}
    /\ \A c \in Cells : since[c] = -1

(* The inductive invariant.                                                *)
IInv ==
  /\ TypeOK /\ NoAssertFails
  /\ UniqueIds(timers)
  /\ Mirrors("enter", timers, entering)
  /\ Mirrors("leave", timers, leaving)
  /\ OldestFirst(timers)
  /\ TimersOK
  /\ Awaited
  /\ NothingWhenIdle

----------------------------------------------------------------------------
(* A nonempty set of natural numbers has a least element.                  *)
LEMMA Least ==
  ASSUME NEW S \in SUBSET Nat, S # {}
  PROVE  \E m \in S : \A n \in S : m <= n
<1>1. PICK R : R = OpToRel(<, Nat)
  OBVIOUS
<1>2. IsWellFoundedOn(R, Nat)
  BY <1>1, NatLessThanWellFounded
<1>3. PICK m \in S : \A n \in S : ~(<<n, m>> \in R)
  BY <1>2, WFMin
<1>4. \A n \in S : ~(n < m)
  BY <1>1, <1>3 DEF OpToRel
<1> QED
  BY <1>4

(* How many of the positions P are not after i.                            *)
Rank(P, i) == Cardinality(P \cap (1 .. i))

(* The rank grows by one at every position of P.                           *)
LEMMA RankSteps ==
  ASSUME NEW n \in Nat, NEW P \in SUBSET (1 .. n)
  PROVE  /\ Rank(P, 0) = 0
         /\ \A i \in 0 .. n : Rank(P, i) \in Nat
         /\ \A i \in 1 .. n : Rank(P, i) = IF i \in P THEN Rank(P, i - 1) + 1 ELSE Rank(P, i - 1)
         /\ Rank(P, n) = Cardinality(P)
         /\ Cardinality(P) \in Nat
<1>1. \A i \in P : i \in Nat /\ 1 <= i /\ i <= n
  OBVIOUS
<1>2. IsFiniteSet(1 .. n)
  BY FS_Interval
<1>3. \A T \in SUBSET (1 .. n) : IsFiniteSet(T) /\ Cardinality(T) \in Nat
  BY <1>2, FS_Subset, FS_CardinalityType
<1>4. P \cap (1 .. 0) = {} /\ P \cap (1 .. n) = P
  <2>1. \A i : ~(i \in 1 .. 0)
    OBVIOUS
  <2>2. P \cap (1 .. 0) = {}
    BY <2>1
  <2>3. P \cap (1 .. n) = P
    OBVIOUS
  <2> QED
    BY <2>2, <2>3
<1>5. \A i \in 0 .. n : P \cap (1 .. i) \in SUBSET (1 .. n)
  OBVIOUS
<1>6. ASSUME NEW i \in 1 .. n
      PROVE  Rank(P, i) = IF i \in P THEN Rank(P, i - 1) + 1 ELSE Rank(P, i - 1)
  <2>1. CASE i \in P
    <3>1. P \cap (1 .. i) = (P \cap (1 .. i - 1)) \cup {i} /\ i \notin P \cap (1 .. i - 1)
      BY <2>1
    <3>2. i - 1 \in 0 .. n
      OBVIOUS
    <3>3. IsFiniteSet(P \cap (1 .. i - 1))
      BY <1>3, <1>5, <3>2
    <3>4. Cardinality((P \cap (1 .. i - 1)) \cup {i}) = Cardinality(P \cap (1 .. i - 1)) + 1
      BY <3>1, <3>3, FS_AddElement
    <3>5. Rank(P, i) = Rank(P, i - 1) + 1
      BY <3>1, <3>4, Zenon DEF Rank
    <3> QED
      BY <2>1, <3>5
  <2>2. CASE i \notin P
    <3>1. P \cap (1 .. i) = P \cap (1 .. i - 1)
      BY <2>2
    <3> QED
      BY <2>2, <3>1 DEF Rank
  <2> QED
    BY <2>1, <2>2
<1>7. Rank(P, 0) = 0
  BY <1>4, FS_EmptySet DEF Rank
<1> QED
  BY <1>3, <1>4, <1>5, <1>6, <1>7 DEF Rank

(* Positions in order have ranks in order.                                 *)
LEMMA RankOrder ==
  ASSUME NEW n \in Nat, NEW P \in SUBSET (1 .. n), NEW i \in P, NEW k \in P, i < k
  PROVE  Rank(P, i) < Rank(P, k)
<1>1. P \cap (1 .. i) \in SUBSET (P \cap (1 .. k)) /\ k \in P \cap (1 .. k) /\ k \notin P \cap (1 .. i)
  OBVIOUS
<1>2. IsFiniteSet(1 .. n) 
  BY FS_Interval
<1>3. IsFiniteSet(P \cap (1 .. k))
  <2>1. P \cap (1 .. k) \in SUBSET (1 .. n)
    OBVIOUS
  <2> QED
    BY <1>2, <2>1, FS_Subset
<1>4. /\ IsFiniteSet(P \cap (1 .. i))
      /\ Rank(P, i) <= Rank(P, k) /\ (Rank(P, k) = Rank(P, i) => P \cap (1 .. k) = P \cap (1 .. i))
  BY <1>1, <1>3, FS_Subset DEF Rank
<1>5. Rank(P, i) \in Nat /\ Rank(P, k) \in Nat
  BY <1>3, <1>4, FS_CardinalityType DEF Rank
<1> QED
  BY <1>1, <1>4, <1>5

(* Every rank up to the number of positions is the rank of one of them.    *)
LEMMA RankOfOne ==
  ASSUME NEW n \in Nat, NEW P \in SUBSET (1 .. n), NEW j \in 1 .. Cardinality(P)
  PROVE  \E i \in P : Rank(P, i) = j
<1>1. /\ Rank(P, 0) = 0
      /\ \A i \in 0 .. n : Rank(P, i) \in Nat
      /\ \A i \in 1 .. n : Rank(P, i) = IF i \in P THEN Rank(P, i - 1) + 1 ELSE Rank(P, i - 1)
      /\ Rank(P, n) = Cardinality(P)
      /\ Cardinality(P) \in Nat
  BY RankSteps
<1>2. PICK S : S = {i \in 0 .. n : Rank(P, i) >= j}
  OBVIOUS
<1>3. S \in SUBSET Nat /\ n \in S
  BY <1>1, <1>2
<1>4. PICK m \in S : \A i \in S : m <= i
  BY <1>3, Least
<1>5. m \in 1 .. n /\ Rank(P, m) >= j
  BY <1>1, <1>2, <1>4
<1>6. m - 1 \notin S /\ m - 1 \in 0 .. n
  BY <1>4, <1>5
<1>7. Rank(P, m - 1) < j
  BY <1>1, <1>2, <1>6
<1>8. m \in P /\ Rank(P, m) = j
  BY <1>1, <1>5, <1>6, <1>7
<1> QED
  BY <1>8

(* What KeepAt keeps: it runs through the positions P in their order.      *)
Through(h, P, s, q) ==
  /\ s = [j \in 1 .. Len(s) |-> q[h[j]]] /\ Len(s) \in Nat
  /\ h \in [1 .. Len(s) -> P]
  /\ \A j \in 1 .. Len(s) : s[j] = q[h[j]]
  /\ \A i \in P : \E j \in 1 .. Len(s) : h[j] = i
  /\ \A j, k \in 1 .. Len(s) : j <= k <=> h[j] <= h[k]

(* What KeepAt gives does so, for some h.                                  *)
LEMMA KeepAtRuns ==
  ASSUME NEW S, NEW q \in Seq(S), NEW P \in SUBSET (1 .. Len(q))
  PROVE  \E h : Through(h, P, KeepAt(q, P), q)
<1>1. Len(q) \in Nat /\ Cardinality(P) \in Nat
  BY RankSteps
<1>2. PICK h : h = [j \in 1 .. Cardinality(P) |-> CHOOSE i \in P : Cardinality(P \cap (1 .. i)) = j]
  OBVIOUS
<1>3. \A j \in 1 .. Cardinality(P) : h[j] \in P /\ Rank(P, h[j]) = j
  <2> SUFFICES ASSUME NEW j \in 1 .. Cardinality(P)
               PROVE  h[j] \in P /\ Rank(P, h[j]) = j
    OBVIOUS
  <2>1. \E i \in P : Cardinality(P \cap (1 .. i)) = j
    BY <1>1, RankOfOne DEF Rank
  <2>2. h[j] = CHOOSE i \in P : Cardinality(P \cap (1 .. i)) = j
    BY <1>2
  <2> QED
    BY <2>1, <2>2 DEF Rank
<1>4. h \in [1 .. Cardinality(P) -> P]
  BY <1>2, <1>3
<1>5. PICK s : s = KeepAt(q, P)
  OBVIOUS
<1>6. s = [j \in 1 .. Cardinality(P) |-> q[h[j]]]
  BY <1>2, <1>5 DEF KeepAt
<1>7. Len(s) \in Nat /\ Len(s) = Cardinality(P) /\ s = [j \in 1 .. Len(s) |-> q[h[j]]]
  BY <1>1, <1>4, <1>6
<1>8. \A j \in 1 .. Len(s) : s[j] = q[h[j]]
  BY <1>6, <1>7
<1>9. \A i, k \in P : i < k => Rank(P, i) < Rank(P, k)
  BY <1>1, RankOrder
<1>10. \A i \in P : Rank(P, i) \in 1 .. Cardinality(P)
  <2> SUFFICES ASSUME NEW i \in P PROVE Rank(P, i) \in 1 .. Cardinality(P)
    OBVIOUS
  <2>1. i \in 1 .. Len(q) /\ IsFiniteSet(1 .. Len(q)) /\ P \cap (1 .. i) \in SUBSET P
    BY <1>1, FS_Interval
  <2>2. IsFiniteSet(P)
    BY <2>1, FS_Subset
  <2>3. IsFiniteSet(P \cap (1 .. i)) /\ Rank(P, i) <= Cardinality(P)
    BY <2>1, <2>2, FS_Subset DEF Rank
  <2>4. i \in P \cap (1 .. i)
    BY <2>1
  <2>5. Rank(P, i) \in Nat /\ Rank(P, i) # 0
    BY <2>3, <2>4, FS_EmptySet, FS_CardinalityType DEF Rank
  <2> QED
    BY <1>1, <2>3, <2>5
<1>11. \A i \in P : i = h[Rank(P, i)]
  <2> SUFFICES ASSUME NEW i \in P PROVE i = h[Rank(P, i)]
    OBVIOUS
  <2>1. PICK k \in P : k = h[Rank(P, i)] /\ Rank(P, k) = Rank(P, i)
    BY <1>3, <1>10
  <2>2. i \in Nat /\ k \in Nat /\ Rank(P, i) \in Nat
    BY <1>10
  <2> QED
    BY <1>9, <2>1, <2>2
<1>12. \A i \in P : \E j \in 1 .. Len(s) : h[j] = i
  BY <1>7, <1>10, <1>11
<1>13. \A j, k \in 1 .. Len(s) : j <= k <=> h[j] <= h[k]
  <2> SUFFICES ASSUME NEW j \in 1 .. Len(s), NEW k \in 1 .. Len(s)
               PROVE  j <= k <=> h[j] <= h[k]
    OBVIOUS
  <2>1. /\ h[j] \in P /\ h[k] \in P /\ h[j] \in Nat /\ h[k] \in Nat
        /\ Rank(P, h[j]) = j /\ Rank(P, h[k]) = k /\ j \in Nat /\ k \in Nat
    <3>1. j \in 1 .. Cardinality(P) /\ k \in 1 .. Cardinality(P)
      BY <1>7
    <3>2. \A i \in P : i \in Nat
      BY <1>1
    <3>3. h[j] \in P /\ h[k] \in P /\ Rank(P, h[j]) = j /\ Rank(P, h[k]) = k
      BY <1>3, <3>1, Zenon
    <3>4. j \in Nat /\ k \in Nat
      BY <1>1, <3>1
    <3> QED
      BY <3>2, <3>3, <3>4
  <2>2. (h[j] < h[k] => Rank(P, h[j]) < Rank(P, h[k])) /\ (h[k] < h[j] => Rank(P, h[k]) < Rank(P, h[j]))
    BY <1>9, <2>1, Zenon
  <2>3. (h[j] < h[k] => j < k) /\ (h[k] < h[j] => k < j)
    BY <2>1, <2>2
  <2>4. j = k => h[j] = h[k]
    OBVIOUS
  <2>5. h[j] = h[k] => j = k
    BY <2>1
  <2> QED
    BY <2>1, <2>3, <2>4, <2>5
<1> QED
  BY <1>4, <1>5, <1>7, <1>8, <1>12, <1>13 DEF Through

----------------------------------------------------------------------------
(* Sequences that keep some of the timers or triggers.                     *)
LEMMA KeptElements ==
  ASSUME NEW S, NEW q \in Seq(S), NEW P \in SUBSET (1 .. Len(q))
  PROVE  /\ KeepAt(q, P) \in Seq(S)
         /\ \A j \in 1 .. Len(KeepAt(q, P)) : \E i \in P : KeepAt(q, P)[j] = q[i]
         /\ \A i \in P : \E j \in 1 .. Len(KeepAt(q, P)) : KeepAt(q, P)[j] = q[i]
<1>1. PICK s : s = KeepAt(q, P)
  OBVIOUS
<1>2. PICK h : Through(h, P, s, q)
  BY <1>1, KeepAtRuns
<1>3. PICK n \in Nat : n = Len(s) /\ s = [j \in 1 .. n |-> q[h[j]]]
  BY <1>2 DEF Through
<1>4. \A j \in 1 .. n : q[h[j]] \in S
  <2>1. \A j \in 1 .. n : h[j] \in P
    BY <1>2, <1>3 DEF Through
  <2>2. \A i \in P : q[i] \in S
    OBVIOUS
  <2> QED
    BY <2>1, <2>2
<1>5. s \in Seq(S)
  BY <1>3, <1>4
<1>6. \A j \in 1 .. Len(s) : \E i \in P : s[j] = q[i]
  BY <1>2 DEF Through
<1>7. \A i \in P : \E j \in 1 .. Len(s) : s[j] = q[i]
  BY <1>2 DEF Through
<1> QED
  BY <1>1, <1>5, <1>6, <1>7

(* The timers that are kept stay unique and in the order they are due.     *)
LEMMA KeptOrder ==
  ASSUME NEW evs \in Seq(Timers), NEW P \in SUBSET (1 .. Len(evs)),
         UniqueIds(evs), OldestFirst(evs)
  PROVE  UniqueIds(KeepAt(evs, P)) /\ OldestFirst(KeepAt(evs, P))
<1>1. PICK s : s = KeepAt(evs, P)
  OBVIOUS
<1>2. PICK h : Through(h, P, s, evs)
  BY <1>1, KeepAtRuns
<1>3. Len(s) \in Nat
  BY <1>2 DEF Through
<1>4. \A j \in 1 .. Len(s) : h[j] \in 1 .. Len(evs) /\ s[j] = evs[h[j]]
  BY <1>2 DEF Through
<1>5. \A j, k \in 1 .. Len(s) : j <= k <=> h[j] <= h[k]
  BY <1>2 DEF Through
<1>6. UniqueIds(s)
  <2> SUFFICES ASSUME NEW j \in 1 .. Len(s), NEW k \in 1 .. Len(s), s[j].id = s[k].id
               PROVE  j = k
    BY DEF UniqueIds
  <2>1. h[j] = h[k]
    BY <1>4 DEF UniqueIds
  <2>2. h[j] \in Nat /\ h[k] \in Nat
    BY <1>4
  <2>3. j <= k /\ k <= j
    BY <1>5, <2>1, <2>2
  <2> QED
    BY <1>3, <2>3
<1>7. OldestFirst(s)
  <2> SUFFICES ASSUME NEW j \in 1 .. Len(s), NEW k \in 1 .. Len(s), j <= k,
                      SameQueue(s[j], s[k])
               PROVE  s[j].left <= s[k].left
    BY DEF OldestFirst
  <2>1. h[j] <= h[k] /\ h[j] \in 1 .. Len(evs) /\ h[k] \in 1 .. Len(evs)
    BY <1>4, <1>5
  <2>2. s[j] = evs[h[j]] /\ s[k] = evs[h[k]]
    BY <1>4
  <2> QED
    BY <2>1, <2>2 DEF OldestFirst
<1> QED
  BY <1>1, <1>6, <1>7

(* A queue goes on naming the timers if of either the same are kept.       *)
LEMMA KeptMirrors ==
  ASSUME NEW k, NEW evs \in Seq(Timers), NEW q \in Seq(Entries), Mirrors(k, evs, q),
         NEW P \in SUBSET (1 .. Len(evs)), NEW A \in SUBSET (1 .. Len(q)),
         \A i \in 1 .. Len(evs) : \A a \in 1 .. Len(q) :
           evs[i].kind = k /\ evs[i].id = q[a].id => (i \in P <=> a \in A)
  PROVE  Mirrors(k, KeepAt(evs, P), KeepAt(q, A))
<1>1. PICK s, r : s = KeepAt(evs, P) /\ r = KeepAt(q, A)
  OBVIOUS
<1>2. PICK h : Through(h, P, s, evs)
  BY <1>1, KeepAtRuns
<1>3. PICK g : Through(g, A, r, q)
  BY <1>1, KeepAtRuns
<1>4. /\ \A j \in 1 .. Len(s) : h[j] \in P /\ h[j] \in 1 .. Len(evs) /\ s[j] = evs[h[j]]
      /\ \A i \in P : \E j \in 1 .. Len(s) : h[j] = i
      /\ \A j, l \in 1 .. Len(s) : j <= l <=> h[j] <= h[l]
  BY <1>2 DEF Through
<1>5. /\ \A b \in 1 .. Len(r) : g[b] \in A /\ g[b] \in 1 .. Len(q) /\ r[b] = q[g[b]]
      /\ \A a \in A : \E b \in 1 .. Len(r) : g[b] = a
      /\ \A a, b \in 1 .. Len(r) : a <= b <=> g[a] <= g[b]
  BY <1>3 DEF Through
<1>6. ASSUME NEW j \in 1 .. Len(s), s[j].kind = k
      PROVE  \E b \in 1 .. Len(r) : r[b].id = s[j].id /\ r[b].cell = s[j].cell
  <2>1. PICK a \in 1 .. Len(q) : q[a].id = evs[h[j]].id /\ q[a].cell = evs[h[j]].cell
    BY <1>4, <1>6 DEF Mirrors
  <2>2. a \in A
    BY <1>4, <1>6, <2>1
  <2>3. PICK b \in 1 .. Len(r) : g[b] = a
    BY <1>5, <2>2
  <2> QED
    BY <1>4, <1>5, <2>1, <2>3
<1>7. ASSUME NEW b \in 1 .. Len(r)
      PROVE  \E j \in 1 .. Len(s) : s[j].kind = k /\ s[j].id = r[b].id /\ s[j].cell = r[b].cell
  <2>1. PICK i \in 1 .. Len(evs) :
          evs[i].kind = k /\ evs[i].id = q[g[b]].id /\ evs[i].cell = q[g[b]].cell
    BY <1>5 DEF Mirrors
  <2>2. i \in P
    BY <1>5, <2>1
  <2>3. PICK j \in 1 .. Len(s) : h[j] = i
    BY <1>4, <2>2
  <2> QED
    BY <1>4, <1>5, <2>1, <2>3
<1>8. ASSUME NEW i \in 1 .. Len(s), NEW j \in 1 .. Len(s), NEW a \in 1 .. Len(r), NEW b \in 1 .. Len(r),
             i <= j, s[i].id = r[a].id, s[j].id = r[b].id
      PROVE  a <= b
  <2>1. h[i] <= h[j] /\ evs[h[i]].id = q[g[a]].id /\ evs[h[j]].id = q[g[b]].id
    BY <1>4, <1>5, <1>8
  <2>2. \A i1, j1 \in 1 .. Len(evs) : \A a1, b1 \in 1 .. Len(q) :
          i1 <= j1 /\ evs[i1].id = q[a1].id /\ evs[j1].id = q[b1].id => a1 <= b1
    BY DEF Mirrors
  <2>3. h[i] \in 1 .. Len(evs) /\ h[j] \in 1 .. Len(evs) /\ g[a] \in 1 .. Len(q) /\ g[b] \in 1 .. Len(q)
    BY <1>4, <1>5
  <2>4. g[a] <= g[b]
    BY <2>1, <2>2, <2>3, Zenon
  <2> QED
    BY <1>5, <2>4
<1>9. Mirrors(k, s, r)
  BY <1>6, <1>7, <1>8 DEF Mirrors
<1> QED
  BY <1>1, <1>9

(* A timer of another kind than the queue's may come and go.               *)
LEMMA KeptByOthers ==
  ASSUME NEW k, NEW evs \in Seq(Timers), NEW q \in Seq(Entries), Mirrors(k, evs, q),
         NEW P \in SUBSET (1 .. Len(evs)),
         \A i \in 1 .. Len(evs) : evs[i].kind = k => i \in P
  PROVE  Mirrors(k, KeepAt(evs, P), q)
<1>1. PICK s : s = KeepAt(evs, P)
  OBVIOUS
<1>2. PICK h : Through(h, P, s, evs)
  BY <1>1, KeepAtRuns
<1>3. /\ \A j \in 1 .. Len(s) : h[j] \in P /\ h[j] \in 1 .. Len(evs) /\ s[j] = evs[h[j]]
      /\ \A i \in P : \E j \in 1 .. Len(s) : h[j] = i
      /\ \A j, l \in 1 .. Len(s) : j <= l <=> h[j] <= h[l]
  BY <1>2 DEF Through
<1>4. ASSUME NEW j \in 1 .. Len(s), s[j].kind = k
      PROVE  \E b \in 1 .. Len(q) : q[b].id = s[j].id /\ q[b].cell = s[j].cell
  <2>1. PICK a \in 1 .. Len(q) : q[a].id = evs[h[j]].id /\ q[a].cell = evs[h[j]].cell
    BY <1>3, <1>4 DEF Mirrors
  <2> QED
    BY <1>3, <2>1
<1>5. ASSUME NEW b \in 1 .. Len(q)
      PROVE  \E j \in 1 .. Len(s) : s[j].kind = k /\ s[j].id = q[b].id /\ s[j].cell = q[b].cell
  <2>1. PICK i \in 1 .. Len(evs) :
          evs[i].kind = k /\ evs[i].id = q[b].id /\ evs[i].cell = q[b].cell
    BY DEF Mirrors
  <2>2. PICK j \in 1 .. Len(s) : h[j] = i
    BY <1>3, <2>1
  <2> QED
    BY <1>3, <2>1, <2>2
<1>6. ASSUME NEW i \in 1 .. Len(s), NEW j \in 1 .. Len(s), NEW a \in 1 .. Len(q), NEW b \in 1 .. Len(q),
             i <= j, s[i].id = q[a].id, s[j].id = q[b].id
      PROVE  a <= b
  <2>1. h[i] <= h[j] /\ evs[h[i]].id = q[a].id /\ evs[h[j]].id = q[b].id
    BY <1>3, <1>6
  <2>2. \A i1, j1 \in 1 .. Len(evs) : \A a1, b1 \in 1 .. Len(q) :
          i1 <= j1 /\ evs[i1].id = q[a1].id /\ evs[j1].id = q[b1].id => a1 <= b1
    BY DEF Mirrors
  <2>3. h[i] \in 1 .. Len(evs) /\ h[j] \in 1 .. Len(evs)
    BY <1>3
  <2> QED
    BY <2>1, <2>2, <2>3, Zenon
<1>7. Mirrors(k, s, q)
  BY <1>4, <1>5, <1>6 DEF Mirrors
<1> QED
  BY <1>1, <1>7

(* A timer that is scheduled comes last.                                   *)
LEMMA Appended ==
  ASSUME NEW S, NEW q \in Seq(S), NEW t \in S
  PROVE  /\ Append(q, t) \in Seq(S)
         /\ Len(Append(q, t)) = Len(q) + 1 /\ Len(q) \in Nat
         /\ \A i \in 1 .. Len(q) : Append(q, t)[i] = q[i]
         /\ Append(q, t)[Len(q) + 1] = t
         /\ \A i \in 1 .. Len(q) + 1 : i \in 1 .. Len(q) \/ i = Len(q) + 1
OBVIOUS

(* A new timer with an id of its own and the longest delay of its queue.   *)
LEMMA AppendedOrder ==
  ASSUME NEW evs \in Seq(Timers), NEW t \in Timers, UniqueIds(evs), OldestFirst(evs),
         \A i \in 1 .. Len(evs) :
           evs[i].id # t.id /\ (SameQueue(evs[i], t) => evs[i].left <= t.left)
  PROVE  UniqueIds(Append(evs, t)) /\ OldestFirst(Append(evs, t))
<1>1. PICK s, n : s = Append(evs, t) /\ n = Len(evs)
  OBVIOUS
<1>2. /\ Len(s) = n + 1 /\ n \in Nat
      /\ \A i \in 1 .. n : s[i] = evs[i]
      /\ s[n + 1] = t
      /\ \A i \in 1 .. n + 1 : i \in 1 .. n \/ i = n + 1
  BY <1>1, Appended
<1>3. UniqueIds(s)
  BY <1>1, <1>2 DEF UniqueIds
<1>4. t.left <= t.left
  BY DEF Timers
<1>5. ASSUME NEW i \in 1 .. n + 1, NEW j \in 1 .. n + 1, i <= j, SameQueue(s[i], s[j])
      PROVE  s[i].left <= s[j].left
  <2>1. CASE j = n + 1
    BY <1>1, <1>2, <1>4, <1>5, <2>1
  <2>2. CASE j \in 1 .. n
    <3>1. i \in 1 .. n
      BY <1>2, <1>5, <2>2
    <3> QED
      BY <1>1, <1>2, <1>5, <2>2, <3>1 DEF OldestFirst
  <2> QED
    BY <1>2, <2>1, <2>2
<1>6. OldestFirst(s)
  BY <1>2, <1>5 DEF OldestFirst
<1> QED
  BY <1>1, <1>3, <1>6

(* A new timer and the trigger for it at the end of the queue.             *)
LEMMA AppendedMirrors ==
  ASSUME NEW evs \in Seq(Timers), NEW q \in Seq(Entries), NEW t \in Timers,
         NEW e \in Entries, Mirrors(t.kind, evs, q), e.id = t.id, e.cell = t.cell,
         t.id \notin IdsOf(evs)
  PROVE  Mirrors(t.kind, Append(evs, t), Append(q, e))
<1>1. PICK s, n : s = Append(evs, t) /\ n = Len(evs)
  OBVIOUS
<1>2. PICK r, m : r = Append(q, e) /\ m = Len(q)
  OBVIOUS
<1>3. /\ Len(s) = n + 1 /\ n \in Nat
      /\ \A i \in 1 .. n : s[i] = evs[i]
      /\ s[n + 1] = t
      /\ \A i \in 1 .. n + 1 : i \in 1 .. n \/ i = n + 1
  BY <1>1, Appended
<1>4. /\ Len(r) = m + 1 /\ m \in Nat
      /\ \A i \in 1 .. m : r[i] = q[i]
      /\ r[m + 1] = e
      /\ \A i \in 1 .. m + 1 : i \in 1 .. m \/ i = m + 1
  BY <1>2, Appended
<1>5. (\A i \in 1 .. n : evs[i].id # t.id) /\ (\A a \in 1 .. m : q[a].id # e.id)
  <2>1. \A i \in 1 .. n : evs[i].id # t.id
    BY <1>1 DEF IdsOf
  <2>2. \A a \in 1 .. m : q[a].id # t.id
    BY <1>1, <1>2, <2>1 DEF Mirrors
  <2> QED
    BY <2>1, <2>2
<1>6. m + 1 \in 1 .. m + 1 /\ n + 1 \in 1 .. n + 1 /\ (1 .. m) \subseteq 1 .. m + 1
      /\ (1 .. n) \subseteq 1 .. n + 1
  BY <1>3, <1>4
<1>7. ASSUME NEW i \in 1 .. n + 1, s[i].kind = t.kind
      PROVE  \E a \in 1 .. m + 1 : r[a].id = s[i].id /\ r[a].cell = s[i].cell
  <2>1. CASE i = n + 1
    BY <1>3, <1>4, <1>6, <2>1
  <2>2. CASE i \in 1 .. n
    <3>1. PICK a \in 1 .. m : q[a].id = evs[i].id /\ q[a].cell = evs[i].cell
      BY <1>1, <1>2, <1>3, <1>7, <2>2 DEF Mirrors
    <3> QED
      BY <1>3, <1>4, <1>6, <2>2, <3>1
  <2> QED
    BY <1>3, <2>1, <2>2
<1>8. ASSUME NEW a \in 1 .. m + 1
      PROVE  \E i \in 1 .. n + 1 : s[i].kind = t.kind /\ s[i].id = r[a].id /\ s[i].cell = r[a].cell
  <2>1. CASE a = m + 1
    BY <1>3, <1>4, <1>6, <2>1
  <2>2. CASE a \in 1 .. m
    <3>1. PICK i \in 1 .. n : evs[i].kind = t.kind /\ evs[i].id = q[a].id /\ evs[i].cell = q[a].cell
      BY <1>1, <1>2, <2>2 DEF Mirrors
    <3> QED
      BY <1>3, <1>4, <1>6, <2>2, <3>1
  <2> QED
    BY <1>4, <2>1, <2>2
<1>9. ASSUME NEW i \in 1 .. n + 1, NEW j \in 1 .. n + 1, NEW a \in 1 .. m + 1, NEW b \in 1 .. m + 1,
             i <= j, s[i].id = r[a].id, s[j].id = r[b].id
      PROVE  a <= b
  <2>1. CASE b = m + 1
    BY <1>4, <2>1
  <2>2. CASE b \in 1 .. m
    <3>1. j \in 1 .. n
      BY <1>3, <1>4, <1>5, <1>9, <2>2
    <3>2. i \in 1 .. n
      BY <1>3, <1>9, <3>1
    <3>3. a \in 1 .. m
      BY <1>3, <1>4, <1>5, <1>9, <3>2
    <3>4. evs[i].id = q[a].id /\ evs[j].id = q[b].id
      BY <1>3, <1>4, <1>9, <2>2, <3>1, <3>2, <3>3
    <3> QED
      BY <1>1, <1>2, <1>9, <2>2, <3>1, <3>2, <3>3, <3>4 DEF Mirrors
  <2> QED
    BY <1>4, <2>1, <2>2
<1>10. Mirrors(t.kind, s, r)
  BY <1>3, <1>4, <1>7, <1>8, <1>9 DEF Mirrors
<1> QED
  BY <1>1, <1>2, <1>10

(* A timer of another kind does not concern the queue.                     *)
LEMMA AppendedByOthers ==
  ASSUME NEW k, NEW evs \in Seq(Timers), NEW q \in Seq(Entries), NEW t \in Timers,
         Mirrors(k, evs, q), t.kind # k, t.id \notin IdsOf(evs)
  PROVE  Mirrors(k, Append(evs, t), q)
<1>1. PICK s, n : s = Append(evs, t) /\ n = Len(evs)
  OBVIOUS
<1>2. /\ Len(s) = n + 1 /\ n \in Nat
      /\ \A i \in 1 .. n : s[i] = evs[i]
      /\ s[n + 1] = t
      /\ \A i \in 1 .. n + 1 : i \in 1 .. n \/ i = n + 1
  BY <1>1, Appended
<1>3. \A a \in 1 .. Len(q) : q[a].id # t.id
  <2>1. \A i \in 1 .. Len(evs) : evs[i].id # t.id
    BY DEF IdsOf
  <2> QED
    BY <2>1 DEF Mirrors
<1>4. (1 .. n) \subseteq 1 .. n + 1
  BY <1>2
<1>5. \A i \in 1 .. n + 1 : s[i].kind = k => i \in 1 .. n
  BY <1>2
<1>6. \A i \in 1 .. n + 1 : s[i].kind = k =>
        \E a \in 1 .. Len(q) : q[a].id = s[i].id /\ q[a].cell = s[i].cell
  <2>1. \A i \in 1 .. n : evs[i].kind = k =>
          \E a \in 1 .. Len(q) : q[a].id = evs[i].id /\ q[a].cell = evs[i].cell
    BY <1>1 DEF Mirrors
  <2> QED
    BY <1>2, <1>5, <2>1
<1>7. \A a \in 1 .. Len(q) : \E i \in 1 .. n + 1 :
        s[i].kind = k /\ s[i].id = q[a].id /\ s[i].cell = q[a].cell
  BY <1>1, <1>2, <1>4 DEF Mirrors
<1>8. \A i \in 1 .. n + 1 : \A a \in 1 .. Len(q) : s[i].id = q[a].id => i \in 1 .. n
  BY <1>2, <1>3
<1>9. ASSUME NEW i \in 1 .. n + 1, NEW j \in 1 .. n + 1, NEW a \in 1 .. Len(q), NEW b \in 1 .. Len(q),
              i <= j, s[i].id = q[a].id, s[j].id = q[b].id
       PROVE  a <= b
  <2>1. i \in 1 .. Len(evs) /\ j \in 1 .. Len(evs)
    BY <1>1, <1>8, <1>9
  <2>2. evs[i].id = q[a].id /\ evs[j].id = q[b].id
    BY <1>1, <1>2, <1>9, <2>1
  <2> QED
    BY <1>9, <2>1, <2>2 DEF Mirrors
<1>10. Mirrors(k, s, q)
  BY <1>2, <1>6, <1>7, <1>9 DEF Mirrors
<1> QED
  BY <1>1, <1>10

(* A trigger names a timer of its kind and cell ...                        *)
LEMMA NamesTimers ==
  ASSUME NEW k, NEW evs \in Seq(Timers), NEW q \in Seq(Entries), UniqueIds(evs),
         Mirrors(k, evs, q)
  PROVE  \A i \in 1 .. Len(evs) : \A a \in 1 .. Len(q) :
           evs[i].id = q[a].id => evs[i].kind = k /\ evs[i].cell = q[a].cell
<1> SUFFICES ASSUME NEW i \in 1 .. Len(evs), NEW a \in 1 .. Len(q), evs[i].id = q[a].id
             PROVE  evs[i].kind = k /\ evs[i].cell = q[a].cell
  OBVIOUS
<1>1. PICK j \in 1 .. Len(evs) : evs[j].kind = k /\ evs[j].id = q[a].id /\ evs[j].cell = q[a].cell
  BY DEF Mirrors
<1>2. i = j
  BY <1>1 DEF UniqueIds
<1> QED
  BY <1>1, <1>2

(* ... so that cancelling some triggers of a cell stops those timers only, *)
LEMMA ConcernsTimers ==
  ASSUME NEW k, NEW evs \in Seq(Timers), NEW q \in Seq(Entries), UniqueIds(evs),
         Mirrors(k, evs, q), NEW A \in SUBSET (1 .. Len(q)), NEW c
  PROVE  \A i \in 1 .. Len(evs) :
           evs[i].id \in Concerning(q, A, c) <=>
             evs[i].kind = k /\ evs[i].cell = c /\ \E a \in A : q[a].id = evs[i].id
<1>1. \A i \in 1 .. Len(evs) : \A a \in 1 .. Len(q) :
        evs[i].id = q[a].id => evs[i].kind = k /\ evs[i].cell = q[a].cell
  BY NamesTimers
<1> SUFFICES ASSUME NEW i \in 1 .. Len(evs)
             PROVE  evs[i].id \in Concerning(q, A, c) <=>
                      evs[i].kind = k /\ evs[i].cell = c /\ \E a \in A : q[a].id = evs[i].id
  OBVIOUS
<1>2. evs[i].id \in Concerning(q, A, c) <=> \E a \in A : q[a].cell = c /\ q[a].id = evs[i].id
  BY DEF Concerning
<1>3. \A a \in A : a \in 1 .. Len(q)
  OBVIOUS
<1> QED
  BY <1>1, <1>2, <1>3

(* and cancelling all of them stops them all.                              *)
LEMMA ConcernsAll ==
  ASSUME NEW k, NEW evs \in Seq(Timers), NEW q \in Seq(Entries), UniqueIds(evs),
         Mirrors(k, evs, q), NEW c
  PROVE  \A i \in 1 .. Len(evs) :
           evs[i].id \in Concerning(q, 1 .. Len(q), c) <=> evs[i].kind = k /\ evs[i].cell = c
<1>1. \A i \in 1 .. Len(evs) :
        evs[i].id \in Concerning(q, 1 .. Len(q), c) <=>
          evs[i].kind = k /\ evs[i].cell = c /\ \E a \in 1 .. Len(q) : q[a].id = evs[i].id
  <2>1. PICK A \in SUBSET (1 .. Len(q)) : A = 1 .. Len(q)
    OBVIOUS
  <2>2. \A i \in 1 .. Len(evs) :
          evs[i].id \in Concerning(q, A, c) <=>
            evs[i].kind = k /\ evs[i].cell = c /\ \E a \in A : q[a].id = evs[i].id
    BY ConcernsTimers
  <2> QED
    BY <2>1, <2>2
<1>2. \A i \in 1 .. Len(evs) :
        evs[i].kind = k => \E a \in 1 .. Len(q) : q[a].id = evs[i].id
  BY DEF Mirrors
<1> QED
  BY <1>1, <1>2

(* ... and whatever is named by what is kept was named before.             *)
LEMMA KeptIds ==
  ASSUME NEW S, NEW q \in Seq(S), NEW P \in SUBSET (1 .. Len(q))
  PROVE  IdsOf(KeepAt(q, P)) \subseteq IdsOf(q)
<1>1. PICK s : s = KeepAt(q, P)
  OBVIOUS
<1>2. /\ s \in Seq(S)
      /\ \A j \in 1 .. Len(s) : \E i \in P : s[j] = q[i]
  BY <1>1, KeptElements
<1>3. DOMAIN s = 1 .. Len(s) /\ DOMAIN q = 1 .. Len(q)
  BY <1>2
<1>4. \A j \in DOMAIN s : \E i \in DOMAIN q : s[j] = q[i]
  BY <1>2, <1>3
<1>5. IdsOf(s) \subseteq IdsOf(q)
  BY <1>4 DEF IdsOf
<1> QED
  BY <1>1, <1>5

(* The timers after a step: those at positions P of the old ones, and      *)
(* those of N, which come last.                                            *)
From(P, N, evs) ==
  /\ evs \in Seq(Timers)
  /\ UniqueIds(evs)
  /\ OldestFirst(evs)
  /\ \A j \in 1 .. Len(evs) : evs[j] \in N \/ \E i \in P : evs[j] = timers[i]
  /\ \A i \in P : \E j \in 1 .. Len(evs) : evs[j] = timers[i]
  /\ \A t \in N : \E j \in 1 .. Len(evs) : evs[j] = t

(* The timers when some are cancelled ...                                  *)
LEMMA TimersKept ==
  ASSUME timers \in Seq(Timers), UniqueIds(timers), OldestFirst(timers),
         NEW P \in SUBSET (1 .. Len(timers))
  PROVE  From(P, {}, KeepAt(timers, P))
<1>1. /\ KeepAt(timers, P) \in Seq(Timers)
      /\ \A j \in 1 .. Len(KeepAt(timers, P)) : \E i \in P : KeepAt(timers, P)[j] = timers[i]
      /\ \A i \in P : \E j \in 1 .. Len(KeepAt(timers, P)) : KeepAt(timers, P)[j] = timers[i]
  BY KeptElements
<1>2. UniqueIds(KeepAt(timers, P)) /\ OldestFirst(KeepAt(timers, P))
  BY KeptOrder
<1>3. \A t \in {} : \E j \in 1 .. Len(KeepAt(timers, P)) : KeepAt(timers, P)[j] = t
  OBVIOUS
<1> QED
  BY <1>1, <1>2, <1>3, Zenon DEF From

(* ... and when another one is scheduled in the same step.                 *)
LEMMA TimersAppended ==
  ASSUME timers \in Seq(Timers), UniqueIds(timers), OldestFirst(timers),
         NEW P \in SUBSET (1 .. Len(timers)), NEW t \in Timers,
         \A i \in P : timers[i].id # t.id /\ (SameQueue(timers[i], t) => timers[i].left <= t.left)
  PROVE  From(P, {t}, Append(KeepAt(timers, P), t))
<1>1. PICK evs : evs = KeepAt(timers, P)
  OBVIOUS
<1>2. From(P, {}, evs)
  BY <1>1, TimersKept
<1>3. /\ evs \in Seq(Timers) /\ UniqueIds(evs) /\ OldestFirst(evs)
      /\ \A j \in 1 .. Len(evs) : \E i \in P : evs[j] = timers[i]
      /\ \A i \in P : \E j \in 1 .. Len(evs) : evs[j] = timers[i]
  BY <1>2 DEF From
<1>4. \A j \in 1 .. Len(evs) :
           evs[j].id # t.id /\ (SameQueue(evs[j], t) => evs[j].left <= t.left)
  BY <1>3
<1>5. PICK s, n : s = Append(evs, t) /\ n = Len(evs)
  OBVIOUS
<1>6. UniqueIds(s) /\ OldestFirst(s)
  BY <1>3, <1>4, <1>5, AppendedOrder
<1>7. /\ s \in Seq(Timers)
      /\ Len(s) = n + 1 /\ n \in Nat
      /\ \A i \in 1 .. n : s[i] = evs[i]
      /\ s[n + 1] = t
      /\ \A i \in 1 .. n + 1 : i \in 1 .. n \/ i = n + 1
  BY <1>3, <1>5, Appended
<1>8. (1 .. n) \subseteq 1 .. n + 1 /\ n + 1 \in 1 .. n + 1
  BY <1>7
<1>9. \A j \in 1 .. Len(s) : s[j] \in {t} \/ \E i \in P : s[j] = timers[i]
  BY <1>3, <1>5, <1>7
<1>10. \A i \in P : \E j \in 1 .. Len(s) : s[j] = timers[i]
  BY <1>3, <1>5, <1>7, <1>8
<1>11. \A u \in {t} : \E j \in 1 .. Len(s) : s[j] = u
  BY <1>7, <1>8
<1>12. From(P, {t}, s)
  BY <1>6, <1>7, <1>9, <1>10, <1>11, Zenon DEF From
<1> QED
  BY <1>1, <1>5, <1>12

(* Without P, those of kind k that concern cell c end, and no others of    *)
(* the kind.                                                               *)
Ends(k, c, P) ==
  /\ P \in SUBSET (1 .. Len(timers))
  /\ \A i \in 1 .. Len(timers) : timers[i].kind = k => (i \in P <=> timers[i].cell # c)

(* Then the triggers of the cell are to be taken from the queue.           *)
LEMMA QueueWithout ==
  ASSUME NEW k, NEW q \in Seq(Entries), timers \in Seq(Timers), UniqueIds(timers),
         Mirrors(k, timers, q), NEW c, NEW P, Ends(k, c, P)
  PROVE  /\ Without(q, c) \in Seq(Entries)
         /\ Mirrors(k, KeepAt(timers, P), Without(q, c))
<1>1. PICK A : A = {a \in DOMAIN q : q[a].cell # c}
  OBVIOUS
<1>2. A \in SUBSET (1 .. Len(q)) /\ \A a \in 1 .. Len(q) : a \in A <=> q[a].cell # c
  BY <1>1
<1>3. Without(q, c) = KeepAt(q, A)
  BY <1>1 DEF Without
<1>4. KeepAt(q, A) \in Seq(Entries)
  BY <1>2, KeptElements
<1>5. \A i \in 1 .. Len(timers) : \A a \in 1 .. Len(q) :
              timers[i].id = q[a].id => timers[i].kind = k /\ timers[i].cell = q[a].cell
  BY NamesTimers
<1>6. \A i \in 1 .. Len(timers) : \A a \in 1 .. Len(q) :
           timers[i].kind = k /\ timers[i].id = q[a].id => (i \in P <=> a \in A)
  BY <1>2, <1>5 DEF Ends
<1>7. Mirrors(k, KeepAt(timers, P), KeepAt(q, A))
  BY <1>2, <1>6, KeptMirrors DEF Ends
<1> QED
  BY <1>3, <1>4, <1>7

(* What is known before a step, without the definitions.                   *)
LEMMA Known ==
  ASSUME IInv
  PROVE  /\ timers \in Seq(Timers) /\ entering \in Seq(Entries) /\ leaving \in Seq(Entries)
         /\ DOMAIN timers = 1 .. Len(timers) /\ DOMAIN entering = 1 .. Len(entering)
         /\ DOMAIN leaving = 1 .. Len(leaving)
         /\ UniqueIds(timers) /\ OldestFirst(timers)
         /\ Mirrors("enter", timers, entering) /\ Mirrors("leave", timers, leaving)
         /\ since \in [Cells -> -1 .. Cap] /\ Cap \in Nat
         /\ \A c \in Cells : since[c] \in Int /\ since[c] >= -1 /\ since[c] <= Cap
         /\ \A i \in 1 .. Len(timers) :
              /\ timers[i] \in Timers
              /\ timers[i].id \in Ids /\ timers[i].cell \in Cells /\ timers[i].left \in Nat
              /\ timers[i].kind \in {"enter", "leave", "report"}
         /\ \A c \in Cells : Delays[c] \subseteq Nat /\ LeaveDelay[c] \in Nat
<1>1. timers \in Seq(Timers) /\ entering \in Seq(Entries) /\ leaving \in Seq(Entries)
  BY DEF IInv, TypeOK
<1>2. UniqueIds(timers) /\ OldestFirst(timers)
      /\ Mirrors("enter", timers, entering) /\ Mirrors("leave", timers, leaving)
  BY DEF IInv
<1>3. since \in [Cells -> -1 .. Cap] /\ Cap \in Nat
  BY DelaysAreTicks DEF IInv, TypeOK
<1>4. \A i \in 1 .. Len(timers) : timers[i] \in Timers
  BY <1>1
<1>5. \A i \in 1 .. Len(timers) :
              /\ timers[i].id \in Ids /\ timers[i].cell \in Cells /\ timers[i].left \in Nat
              /\ timers[i].kind \in {"enter", "leave", "report"}
  BY <1>4 DEF Timers
<1>6. \A c \in Cells : since[c] \in Int /\ since[c] >= -1 /\ since[c] <= Cap
  BY <1>3
<1>7. \A c \in Cells : Delays[c] \subseteq Nat /\ LeaveDelay[c] \in Nat
  BY DelaysAreTicks
<1>8. DOMAIN timers = 1 .. Len(timers) /\ DOMAIN entering = 1 .. Len(entering)
         /\ DOMAIN leaving = 1 .. Len(leaving)
  BY <1>1
<1> QED
  BY <1>1, <1>2, <1>3, <1>4, <1>5, <1>6, <1>7, <1>8, Zenon

(* The timers that go on when the triggers of a cell are cancelled.        *)
LEMMA Cancelled ==
  ASSUME IInv, NEW c
  PROVE  /\ \A i \in 1 .. Len(timers) :
              timers[i].id \in Concerning(entering, DOMAIN entering, c) <=>
                timers[i].kind = "enter" /\ timers[i].cell = c
         /\ \A i \in 1 .. Len(timers) :
              timers[i].id \in Concerning(leaving, DOMAIN leaving, c) <=>
                timers[i].kind = "leave" /\ timers[i].cell = c
<1>1. /\ timers \in Seq(Timers) /\ entering \in Seq(Entries) /\ leaving \in Seq(Entries)
      /\ DOMAIN entering = 1 .. Len(entering) /\ DOMAIN leaving = 1 .. Len(leaving)
      /\ UniqueIds(timers)
      /\ Mirrors("enter", timers, entering) /\ Mirrors("leave", timers, leaving)
  BY Known
<1>2. \A i \in 1 .. Len(timers) :
              timers[i].id \in Concerning(entering, 1 .. Len(entering), c) <=>
                timers[i].kind = "enter" /\ timers[i].cell = c
  BY <1>1, ConcernsAll
<1>3. \A i \in 1 .. Len(timers) :
              timers[i].id \in Concerning(leaving, 1 .. Len(leaving), c) <=>
                timers[i].kind = "leave" /\ timers[i].cell = c
  BY <1>1, ConcernsAll
<1> QED
  BY <1>1, <1>2, <1>3

----------------------------------------------------------------------------
(* The loop over the neighbours leaves the rest of the state alone.        *)
LEMMA Evaluated ==
  ASSUME IInv, NEW c \in Cells, Evaluating(c), since' \in [Cells -> -1 .. Cap],
         timers' \in Seq(Timers), entering' \in Seq(Entries), leaving' \in Seq(Entries)
  PROVE  TypeOK' /\ NoAssertFails' /\ NothingWhenIdle'
<1>1. TypeOK'
  BY DEF IInv, TypeOK, Evaluating
<1>2. NoAssertFails'
  BY DEF IInv, NoAssertFails, Evaluating
<1>3. mode # "idle" /\ mode' = mode
  BY DEF IInv, NothingWhenIdle, Evaluating, Lowest
<1> QED
  BY <1>1, <1>2, <1>3 DEF NothingWhenIdle

(* The parts of the invariant make it up.                                  *)
LEMMA Together ==
  ASSUME TypeOK', NoAssertFails', UniqueIds(timers'), OldestFirst(timers'),
         Mirrors("enter", timers', entering'), Mirrors("leave", timers', leaving'),
         TimersOK', Awaited', NothingWhenIdle'
  PROVE  IInv'
BY DEF IInv, UniqueIds, OldestFirst, Mirrors

(* What holds of every timer that is kept or new holds of the timers.      *)
LEMMA EveryTimer ==
  ASSUME NEW P, NEW N, From(P, N, timers'),
         \A t : (t \in N \/ \E i \in P : t = timers[i]) => EnterOK(t)' /\ LeaveOK(t)'
  PROVE  TimersOK'
<1>1. \A j \in 1 .. Len(timers') : timers'[j] \in N \/ \E i \in P : timers'[j] = timers[i]
  BY DEF From
<1> SUFFICES ASSUME NEW j \in 1 .. Len(timers'), NEW t, t = timers'[j]
             PROVE  EnterOK(t)' /\ LeaveOK(t)'
  BY DEF TimersOK, EnterOK, LeaveOK
<1> QED
  BY <1>1

(* What is awaited is among the timers that are kept or new.               *)
LEMMA SomeTimer ==
  ASSUME NEW P, NEW N, From(P, N, timers'),
         \A e \in Cells : since'[e] >= 0 /\ ~hasTriggered(e)' =>
           \E t : (t \in N \/ \E i \in P : t = timers[i]) /\ DueInTime(e, t)'
  PROVE  Awaited'
<1>1. /\ \A i \in P : \E j \in 1 .. Len(timers') : timers'[j] = timers[i]
      /\ \A t \in N : \E j \in 1 .. Len(timers') : timers'[j] = t
  BY DEF From
<1> SUFFICES ASSUME NEW e \in Cells, since'[e] >= 0, ~hasTriggered(e)'
             PROVE  \E j \in 1 .. Len(timers') : DueInTime(e, timers[j])'
  BY DEF Awaited
<1>2. PICK t : (t \in N \/ \E i \in P : t = timers[i]) /\ DueInTime(e, t)'
  OBVIOUS
<1>3. PICK j \in 1 .. Len(timers') : timers'[j] = t
  BY <1>1, <1>2
<1>4. DueInTime(e, timers[j])'
  BY <1>2, <1>3 DEF DueInTime
<1> QED
  BY <1>4

(* CellEnters: a leave that was pending is off.                            *)
LEMMA EntersKeepsIInv ==
  ASSUME FixedDelays, IInv, NEW c \in Cells, NEW d \in Delays[c], CellEnters(c, d)
  PROVE  IInv'
<1>1. /\ timers \in Seq(Timers) /\ entering \in Seq(Entries) /\ leaving \in Seq(Entries)
      /\ DOMAIN timers = 1 .. Len(timers)
      /\ UniqueIds(timers) /\ OldestFirst(timers)
      /\ Mirrors("enter", timers, entering) /\ Mirrors("leave", timers, leaving)
  BY Known
<1>2. /\ since \in [Cells -> -1 .. Cap] /\ Cap \in Nat
      /\ \A e \in Cells : since[e] \in Int /\ since[e] >= -1 /\ since[e] <= Cap
      /\ \A i \in 1 .. Len(timers) :
              /\ timers[i].id \in Ids /\ timers[i].cell \in Cells /\ timers[i].left \in Nat
              /\ timers[i].kind \in {"enter", "leave", "report"}
      /\ \A e \in Cells : Delays[e] \subseteq Nat /\ LeaveDelay[e] \in Nat
  BY Known
<1>3. PICK P : P = Uncancelled(Concerning(leaving, DOMAIN leaving, c))
  OBVIOUS
<1>4. /\ P \in SUBSET (1 .. Len(timers))
      /\ \A i \in 1 .. Len(timers) : i \in P <=> ~(timers[i].kind = "leave" /\ timers[i].cell = c)
  BY <1>1, <1>3, Cancelled DEF Uncancelled
<1>5. /\ Evaluating(c)
      /\ since' = [since EXCEPT ![c] = IF @ = -1 THEN 0 ELSE @]
      /\ leaving' = Without(leaving, c)
  BY DEF CellEnters
<1>6. IF hasTriggered(c)
        THEN timers' = KeepAt(timers, P) /\ entering' = entering
        ELSE \E id \in Lowest(FreeIds) :
              /\ timers' = Append(KeepAt(timers, P), [id |-> id, kind |-> "enter", cell |-> c, left |-> d])
              /\ entering' = Append(entering, [id |-> id, cell |-> c])
  BY <1>3 DEF CellEnters
<1>7. /\ leaving' \in Seq(Entries)
      /\ Mirrors("leave", KeepAt(timers, P), leaving')
  <2>1. Ends("leave", c, P)
    BY <1>4 DEF Ends
  <2>2. /\ Without(leaving, c) \in Seq(Entries)
        /\ Mirrors("leave", KeepAt(timers, P), Without(leaving, c))
    BY <1>1, <2>1, QueueWithout, Zenon
  <2> QED
    BY <1>5, <2>2
<1>8. Mirrors("enter", KeepAt(timers, P), entering)
  BY <1>1, <1>4, KeptByOthers
<1>9. /\ since' \in [Cells -> -1 .. Cap]
      /\ \A e \in Cells : e # c => since'[e] = since[e]
      /\ since'[c] >= 0 /\ since'[c] \in Int /\ (since[c] >= 0 => since'[c] = since[c])
      /\ since[c] = -1 => since'[c] = 0
  BY <1>2, <1>5
<1>10. hasTriggered(c)' = hasTriggered(c) /\ (reporting <=> reporting') /\ triggered' = triggered
  BY <1>5 DEF hasTriggered, Evaluating
<1>11. d \in Nat
  BY <1>2
<1>12. \A i \in 1 .. Len(timers) : EnterOK(timers[i]) /\ LeaveOK(timers[i])
  BY DEF IInv, TimersOK
<1>13. ASSUME NEW t, NEW i \in P, t = timers[i]
       PROVE  EnterOK(t)' /\ LeaveOK(t)'
  <2>1. /\ t.cell \in Cells /\ t.left \in Nat
        /\ EnterOK(t) /\ LeaveOK(t)
        /\ t.kind = "leave" => t.cell # c
    BY <1>2, <1>4, <1>12, <1>13
  <2>2. EnterOK(t)'
    BY <1>2, <1>9, <2>1 DEF EnterOK
  <2>3. LeaveOK(t)'
    BY <1>2, <1>9, <1>10, <2>1 DEF LeaveOK
  <2> QED
    BY <2>2, <2>3
<1>14. ASSUME NEW e \in Cells, since[e] >= 0, ~hasTriggered(e)
       PROVE  \E t : (\E i \in P : t = timers[i]) /\ DueInTime(e, t)'
  <2>1. PICK i \in 1 .. Len(timers) : DueInTime(e, timers[i])
    BY <1>14 DEF IInv, Awaited
  <2>2. PICK t : t = timers[i]
    OBVIOUS
  <2>3. i \in P /\ DueInTime(e, t)
    BY <1>4, <2>1, <2>2 DEF DueInTime
  <2>4. since'[e] = since[e]
    BY <1>2, <1>9, <1>14
  <2>5. DueInTime(e, t)'
    BY <2>3, <2>4 DEF DueInTime
  <2> QED
    BY <2>2, <2>3, <2>5
<1>15. CASE hasTriggered(c)
  <2>1. timers' = KeepAt(timers, P) /\ entering' = entering
    BY <1>6, <1>15
  <2>2. From(P, {}, timers')
    BY <1>1, <1>4, <2>1, TimersKept
  <2>3. TimersOK'
    BY <1>13, <2>2, EveryTimer
  <2>4. ASSUME NEW e \in Cells, since'[e] >= 0, ~hasTriggered(e)'
        PROVE  \E t : (t \in {} \/ \E i \in P : t = timers[i]) /\ DueInTime(e, t)'
    <3>1. e # c /\ ~hasTriggered(e)
      BY <1>10, <1>15, <2>4 DEF hasTriggered
    <3> QED
      BY <1>9, <1>14, <2>4, <3>1
  <2>5. Awaited'
    BY <2>2, <2>4, SomeTimer
  <2>6. timers' \in Seq(Timers) /\ UniqueIds(timers') /\ OldestFirst(timers')
    BY <2>2 DEF From
  <2>7. TypeOK' /\ NoAssertFails' /\ NothingWhenIdle'
    BY <1>1, <1>5, <1>7, <1>9, <2>1, <2>6, Evaluated
  <2>8. Mirrors("enter", timers', entering') /\ Mirrors("leave", timers', leaving')
    BY <1>7, <1>8, <2>1
  <2> QED
    BY <2>3, <2>5, <2>6, <2>7, <2>8, Together
<1>16. CASE ~hasTriggered(c)
  <2>1. PICK id \in Lowest(FreeIds) :
              /\ timers' = Append(KeepAt(timers, P), [id |-> id, kind |-> "enter", cell |-> c, left |-> d])
              /\ entering' = Append(entering, [id |-> id, cell |-> c])
    BY <1>6, <1>16
  <2>2. PICK u : u = [id |-> id, kind |-> "enter", cell |-> c, left |-> d]
    OBVIOUS
  <2>3. PICK w : w = [id |-> id, cell |-> c]
    OBVIOUS
  <2>4. id \in Ids /\ id \notin IdsOf(timers) /\ id \notin IdsOf(entering) /\ id \notin IdsOf(leaving)
    BY <2>1 DEF Lowest, FreeIds
  <2>5. /\ u \in Timers /\ w \in Entries
        /\ u.kind = "enter" /\ u.id = id /\ u.cell = c /\ u.left = d /\ w.id = id /\ w.cell = c
    BY <1>11, <2>2, <2>3, <2>4 DEF Timers, Entries
  <2>6. ASSUME NEW i \in P
        PROVE  timers[i].id # u.id /\ (SameQueue(timers[i], u) => timers[i].left <= u.left)
    <3>1. timers[i].id # id
      BY <1>1, <1>4, <2>4 DEF IdsOf
    <3>2. SameQueue(timers[i], u) => timers[i].kind = "enter" /\ timers[i].cell = c
      BY <2>5 DEF SameQueue
    <3>3. timers[i].kind = "enter" /\ timers[i].cell = c => timers[i].left <= d
      BY <1>4, <1>12 DEF EnterOK, FixedDelays
    <3> QED
      BY <2>5, <3>1, <3>2, <3>3
  <2>7. From(P, {u}, timers')
    BY <1>1, <1>4, <2>1, <2>2, <2>5, <2>6, TimersAppended
  <2>8. EnterOK(u)' /\ LeaveOK(u)'
    BY <1>9, <1>11, <2>5 DEF EnterOK, LeaveOK
  <2>9. TimersOK'
    BY <1>13, <2>7, <2>8, EveryTimer
  <2>10. ASSUME NEW e \in Cells, since'[e] >= 0, ~hasTriggered(e)'
         PROVE  \E t : (t \in {u} \/ \E i \in P : t = timers[i]) /\ DueInTime(e, t)'
    <3>1. ~hasTriggered(e)
      BY <1>10, <2>10 DEF hasTriggered
    <3>2. CASE since[e] >= 0
      BY <1>14, <3>1, <3>2
    <3>3. CASE ~(since[e] >= 0)
      <4>1. e = c /\ since'[c] = 0
        BY <1>2, <1>9, <2>10, <3>3
      <4>2. DueInTime(c, u)'
        BY <1>11, <2>5, <4>1 DEF DueInTime
      <4> QED
        BY <4>1, <4>2
    <3> QED
      BY <3>2, <3>3
  <2>11. Awaited'
    BY <2>7, <2>10, SomeTimer
  <2>12. timers' \in Seq(Timers) /\ UniqueIds(timers') /\ OldestFirst(timers')
    BY <2>7 DEF From
  <2>13. entering' \in Seq(Entries)
    BY <1>1, <2>1, <2>3, <2>5, Appended
  <2>14. TypeOK' /\ NoAssertFails' /\ NothingWhenIdle'
    BY <1>5, <1>7, <1>9, <2>12, <2>13, Evaluated
  <2>15. KeepAt(timers, P) \in Seq(Timers) /\ IdsOf(KeepAt(timers, P)) \subseteq IdsOf(timers)
    BY <1>1, <1>4, KeptElements, KeptIds
  <2>16. Mirrors("enter", timers', entering')
    <3>1. u.id \notin IdsOf(KeepAt(timers, P))
      BY <2>4, <2>5, <2>15
    <3>2. Mirrors(u.kind, KeepAt(timers, P), entering)
      BY <1>8, <2>5
    <3>3. Mirrors(u.kind, Append(KeepAt(timers, P), u), Append(entering, w))
      BY <1>1, <2>5, <2>15, <3>1, <3>2, AppendedMirrors
    <3> QED
      BY <2>1, <2>2, <2>3, <2>5, <3>3
  <2>17. Mirrors("leave", timers', leaving')
    <3>1. u.id \notin IdsOf(KeepAt(timers, P)) /\ u.kind # "leave"
      BY <2>4, <2>5, <2>15
    <3> QED
      BY <1>7, <2>1, <2>2, <2>5, <2>15, <3>1, AppendedByOthers
  <2> QED
    BY <2>9, <2>11, <2>12, <2>14, <2>16, <2>17, Together
<1> QED
  BY <1>15, <1>16

(* When a cell no longer meets the entry condition, its triggers for       *)
(* entering are off; those of the other cells still count.                 *)
NoLongerEnters(c) == Evaluating(c) /\ since' = [since EXCEPT ![c] = -1]

(* What then holds of the timers that go on.                               *)
LEMMA NotEntering ==
  ASSUME IInv, NEW c \in Cells, NoLongerEnters(c),
         NEW P, Ends("enter", c, P)
  PROVE  /\ since' \in [Cells -> -1 .. Cap] /\ since'[c] = -1
         /\ \A t : (\E i \in P : t = timers[i]) => EnterOK(t)' /\ LeaveOK(t)'
         /\ \A e \in Cells : since'[e] >= 0 /\ ~hasTriggered(e)' =>
              \E t : (\E i \in P : t = timers[i]) /\ DueInTime(e, t)'
<1>1. /\ since \in [Cells -> -1 .. Cap] /\ Cap \in Nat
      /\ \A e \in Cells : since[e] \in Int /\ since[e] >= -1 /\ since[e] <= Cap
      /\ \A i \in 1 .. Len(timers) :
              /\ timers[i].id \in Ids /\ timers[i].cell \in Cells /\ timers[i].left \in Nat
              /\ timers[i].kind \in {"enter", "leave", "report"}
  BY Known
<1>2. /\ since' \in [Cells -> -1 .. Cap]
      /\ \A e \in Cells : e # c => since'[e] = since[e]
      /\ since'[c] = -1
  BY <1>1 DEF NoLongerEnters
<1>3. (reporting <=> reporting') /\ triggered' = triggered
  BY DEF NoLongerEnters, Evaluating
<1>4. \A i \in 1 .. Len(timers) : EnterOK(timers[i]) /\ LeaveOK(timers[i])
  BY DEF IInv, TimersOK
<1>5. ASSUME NEW t, NEW i \in P, t = timers[i]
      PROVE  EnterOK(t)' /\ LeaveOK(t)'
  <2>1. /\ t.cell \in Cells /\ t.left \in Nat
        /\ EnterOK(t) /\ LeaveOK(t)
        /\ t.kind = "enter" => t.cell # c
    BY <1>1, <1>4, <1>5 DEF Ends
  <2>2. EnterOK(t)'
    BY <1>2, <2>1 DEF EnterOK
  <2>3. LeaveOK(t)'
    BY <1>2, <1>3, <2>1 DEF LeaveOK
  <2> QED
    BY <2>2, <2>3
<1>6. ASSUME NEW e \in Cells, since'[e] >= 0, ~hasTriggered(e)'
      PROVE  \E t : (\E i \in P : t = timers[i]) /\ DueInTime(e, t)'
  <2>1. e # c /\ ~hasTriggered(e) /\ since[e] >= 0
    BY <1>2, <1>3, <1>6 DEF hasTriggered
  <2>2. PICK i \in 1 .. Len(timers) : DueInTime(e, timers[i])
    BY <2>1 DEF IInv, Awaited
  <2>3. PICK t : t = timers[i]
    OBVIOUS
  <2>4. i \in P /\ DueInTime(e, t)
    BY <2>1, <2>2, <2>3 DEF DueInTime, Ends
  <2>5. DueInTime(e, t)'
    BY <1>2, <2>1, <2>4 DEF DueInTime
  <2> QED
    BY <2>3, <2>4, <2>5
<1> QED
  BY <1>2, <1>5, <1>6

(* CellStays.                                                              *)
LEMMA StaysKeepsIInv ==
  ASSUME IInv, NEW c \in Cells, CellStays(c)
  PROVE  IInv'
<1>1. /\ timers \in Seq(Timers) /\ entering \in Seq(Entries) /\ leaving \in Seq(Entries)
      /\ DOMAIN timers = 1 .. Len(timers)
      /\ UniqueIds(timers) /\ OldestFirst(timers)
      /\ Mirrors("enter", timers, entering) /\ Mirrors("leave", timers, leaving)
  BY Known
<1>2. PICK P : P = Uncancelled(Concerning(entering, DOMAIN entering, c)
                               \cup Concerning(leaving, DOMAIN leaving, c))
  OBVIOUS
<1>3. P \in SUBSET (1 .. Len(timers))
  BY <1>1, <1>2 DEF Uncancelled
<1>4. Ends("enter", c, P)
  BY <1>1, <1>2, <1>3, Cancelled DEF Uncancelled, Ends
<1>5. Ends("leave", c, P)
  BY <1>1, <1>2, <1>3, Cancelled DEF Uncancelled, Ends
<1>6. /\ entering' = Without(entering, c) /\ leaving' = Without(leaving, c)
      /\ timers' = KeepAt(timers, P)
  BY <1>2 DEF CellStays
<1>7. Evaluating(c)
  BY DEF CellStays
<1>8. NoLongerEnters(c)
  BY DEF CellStays, NoLongerEnters
<1>9. /\ Without(entering, c) \in Seq(Entries)
      /\ Mirrors("enter", KeepAt(timers, P), Without(entering, c))
  BY <1>1, <1>4, QueueWithout, Zenon
<1>10. /\ Without(leaving, c) \in Seq(Entries)
      /\ Mirrors("leave", KeepAt(timers, P), Without(leaving, c))
  BY <1>1, <1>5, QueueWithout, Zenon
<1>11. From(P, {}, timers')
  BY <1>1, <1>3, <1>6, TimersKept
<1>12. /\ since' \in [Cells -> -1 .. Cap] /\ since'[c] = -1
       /\ \A t : (\E i \in P : t = timers[i]) => EnterOK(t)' /\ LeaveOK(t)'
       /\ \A e \in Cells : since'[e] >= 0 /\ ~hasTriggered(e)' =>
            \E t : (\E i \in P : t = timers[i]) /\ DueInTime(e, t)'
  BY <1>4, <1>8, NotEntering
<1>13. TimersOK'
  BY <1>11, <1>12, EveryTimer
<1>14. \A e \in Cells : since'[e] >= 0 /\ ~hasTriggered(e)' =>
         \E t : (t \in {} \/ \E i \in P : t = timers[i]) /\ DueInTime(e, t)'
  BY <1>12
<1>15. Awaited'
  BY <1>11, <1>14, SomeTimer
<1>16. timers' \in Seq(Timers) /\ UniqueIds(timers') /\ OldestFirst(timers')
  BY <1>11 DEF From
<1>17. entering' \in Seq(Entries) /\ leaving' \in Seq(Entries)
  BY <1>6, <1>9, <1>10
<1>18. TypeOK' /\ NoAssertFails' /\ NothingWhenIdle'
  BY <1>7, <1>12, <1>16, <1>17, Evaluated
<1>19. Mirrors("enter", timers', entering') /\ Mirrors("leave", timers', leaving')
  BY <1>6, <1>9, <1>10
<1> QED
  BY <1>13, <1>15, <1>16, <1>18, <1>19, Together

(* CellLeaves.                                                             *)
LEMMA LeavesKeepsIInv ==
  ASSUME FixedDelays, IInv, NEW c \in Cells, CellLeaves(c)
  PROVE  IInv'
<1>1. /\ timers \in Seq(Timers) /\ entering \in Seq(Entries) /\ leaving \in Seq(Entries)
      /\ DOMAIN timers = 1 .. Len(timers)
      /\ UniqueIds(timers) /\ OldestFirst(timers)
      /\ Mirrors("enter", timers, entering) /\ Mirrors("leave", timers, leaving)
      /\ \A i \in 1 .. Len(timers) : timers[i].cell \in Cells
      /\ LeaveDelay[c] \in Nat
  BY Known
<1>2. PICK P : P = Uncancelled(Concerning(entering, DOMAIN entering, c))
  OBVIOUS
<1>3. /\ P \in SUBSET (1 .. Len(timers))
      /\ \A i \in 1 .. Len(timers) : i \in P <=> ~(timers[i].kind = "enter" /\ timers[i].cell = c)
  BY <1>1, <1>2, Cancelled DEF Uncancelled
<1>4. Ends("enter", c, P)
  BY <1>3 DEF Ends
<1>5. \A i \in 1 .. Len(timers) : timers[i].kind = "leave" => i \in P
  BY <1>3
<1>6. Evaluating(c) /\ entering' = Without(entering, c)
  BY DEF CellLeaves
<1>7. NoLongerEnters(c)
  BY DEF CellLeaves, NoLongerEnters
<1>8. IF ~hasTriggered(c)
        THEN timers' = KeepAt(timers, P) /\ leaving' = leaving
        ELSE \E id \in Lowest(FreeIds) :
              /\ timers' = Append(KeepAt(timers, P), [id |-> id, kind |-> "leave", cell |-> c,
                                                      left |-> LeaveDelay[c]])
              /\ leaving' = Append(leaving, [id |-> id, cell |-> c])
  BY <1>2 DEF CellLeaves
<1>9. /\ Without(entering, c) \in Seq(Entries)
      /\ Mirrors("enter", KeepAt(timers, P), Without(entering, c))
  BY <1>1, <1>4, QueueWithout, Zenon
<1>10. Mirrors("leave", KeepAt(timers, P), leaving)
  BY <1>1, <1>3, <1>5, KeptByOthers
<1>11. /\ since' \in [Cells -> -1 .. Cap] /\ since'[c] = -1
       /\ \A t : (\E i \in P : t = timers[i]) => EnterOK(t)' /\ LeaveOK(t)'
       /\ \A e \in Cells : since'[e] >= 0 /\ ~hasTriggered(e)' =>
            \E t : (\E i \in P : t = timers[i]) /\ DueInTime(e, t)'
  BY <1>4, <1>7, NotEntering
<1>12. CASE ~hasTriggered(c)
  <2>1. timers' = KeepAt(timers, P) /\ leaving' = leaving
    BY <1>8, <1>12
  <2>2. From(P, {}, timers')
    BY <1>1, <1>3, <2>1, TimersKept
  <2>3. TimersOK'
    BY <1>11, <2>2, EveryTimer
  <2>4. \A e \in Cells : since'[e] >= 0 /\ ~hasTriggered(e)' =>
          \E t : (t \in {} \/ \E i \in P : t = timers[i]) /\ DueInTime(e, t)'
    BY <1>11
  <2>5. Awaited'
    BY <2>2, <2>4, SomeTimer
  <2>6. timers' \in Seq(Timers) /\ UniqueIds(timers') /\ OldestFirst(timers')
    BY <2>2 DEF From
  <2>7. TypeOK' /\ NoAssertFails' /\ NothingWhenIdle'
    BY <1>1, <1>6, <1>9, <1>11, <2>1, <2>6, Evaluated
  <2>8. Mirrors("enter", timers', entering') /\ Mirrors("leave", timers', leaving')
    BY <1>6, <1>9, <1>10, <2>1
  <2> QED
    BY <2>3, <2>5, <2>6, <2>7, <2>8, Together
<1>13. CASE hasTriggered(c)
  <2>1. PICK id \in Lowest(FreeIds) :
              /\ timers' = Append(KeepAt(timers, P), [id |-> id, kind |-> "leave", cell |-> c,
                                                      left |-> LeaveDelay[c]])
              /\ leaving' = Append(leaving, [id |-> id, cell |-> c])
    BY <1>8, <1>13
  <2>2. PICK u : u = [id |-> id, kind |-> "leave", cell |-> c, left |-> LeaveDelay[c]]
    OBVIOUS
  <2>3. PICK w : w = [id |-> id, cell |-> c]
    OBVIOUS
  <2>4. id \in Ids /\ id \notin IdsOf(timers) /\ id \notin IdsOf(entering) /\ id \notin IdsOf(leaving)
    BY <2>1 DEF Lowest, FreeIds
  <2>5. /\ u \in Timers /\ w \in Entries
        /\ u.kind = "leave" /\ u.id = id /\ u.cell = c /\ u.left = LeaveDelay[c]
        /\ w.id = id /\ w.cell = c
    BY <1>1, <2>2, <2>3, <2>4 DEF Timers, Entries
  <2>6. ASSUME NEW i \in P
        PROVE  timers[i].id # u.id /\ (SameQueue(timers[i], u) => timers[i].left <= u.left)
    <3>1. timers[i].id # id
      BY <1>1, <1>3, <2>4 DEF IdsOf
    <3>2. SameQueue(timers[i], u) => timers[i].kind = "leave"
      BY <2>5 DEF SameQueue
    <3>3. LeaveOK(timers[i]) /\ timers[i].cell \in Cells
      BY <1>1, <1>3 DEF IInv, TimersOK
    <3>4. timers[i].kind = "leave" => timers[i].left <= LeaveDelay[c]
      BY <3>3 DEF LeaveOK, FixedDelays
    <3> QED
      BY <2>5, <3>1, <3>2, <3>4
  <2>7. From(P, {u}, timers')
    BY <1>1, <1>3, <2>1, <2>2, <2>5, <2>6, TimersAppended
  <2>8. EnterOK(u)'
    BY <2>5 DEF EnterOK
  <2>9. LeaveOK(u)'
    BY <1>1, <1>6, <1>11, <1>13, <2>5 DEF LeaveOK, hasTriggered, Evaluating
  <2>10. TimersOK'
    BY <1>11, <2>7, <2>8, <2>9, EveryTimer
  <2>11. \A e \in Cells : since'[e] >= 0 /\ ~hasTriggered(e)' =>
           \E t : (t \in {u} \/ \E i \in P : t = timers[i]) /\ DueInTime(e, t)'
    BY <1>11
  <2>12. Awaited'
    BY <2>7, <2>11, SomeTimer
  <2>13. timers' \in Seq(Timers) /\ UniqueIds(timers') /\ OldestFirst(timers')
    BY <2>7 DEF From
  <2>14. leaving' \in Seq(Entries)
    BY <1>1, <2>1, <2>3, <2>5, Appended
  <2>15. TypeOK' /\ NoAssertFails' /\ NothingWhenIdle'
    BY <1>6, <1>9, <1>11, <2>13, <2>14, Evaluated
  <2>16. KeepAt(timers, P) \in Seq(Timers) /\ IdsOf(KeepAt(timers, P)) \subseteq IdsOf(timers)
    BY <1>1, <1>3, KeptElements, KeptIds
  <2>17. Mirrors("leave", timers', leaving')
    <3>1. u.id \notin IdsOf(KeepAt(timers, P))
      BY <2>4, <2>5, <2>16
    <3>2. Mirrors(u.kind, KeepAt(timers, P), leaving)
      BY <1>10, <2>5
    <3>3. Mirrors(u.kind, Append(KeepAt(timers, P), u), Append(leaving, w))
      BY <1>1, <2>5, <2>16, <3>1, <3>2, AppendedMirrors
    <3> QED
      BY <2>1, <2>2, <2>3, <2>5, <3>3
  <2>18. Mirrors("enter", timers', entering')
    <3>1. u.id \notin IdsOf(KeepAt(timers, P)) /\ u.kind # "enter"
      BY <2>4, <2>5, <2>16
    <3>2. Mirrors("enter", Append(KeepAt(timers, P), u), Without(entering, c))
      BY <1>9, <2>5, <2>16, <3>1, AppendedByOthers
    <3> QED
      BY <1>6, <2>1, <2>2, <3>2
  <2> QED
    BY <2>10, <2>12, <2>13, <2>15, <2>17, <2>18, Together
<1> QED
  BY <1>12, <1>13

----------------------------------------------------------------------------
(* What VarMeasReportListAdd takes out of the queue is the trigger that    *)
(* has fired, so all triggers of the cell end.                             *)
LEMMA FiredIsTakenOut ==
  ASSUME IInv, NEW i \in 1 .. Len(timers), Due("enter", i), NEW c, c = timers[i].cell,
         NEW P, P = Uncancelled(Concerning(entering, DOMAIN entering \ TakenOut(entering, c), c)) \ {i}
  PROVE  /\ Ends("enter", c, P)
         /\ \A j \in 1 .. Len(timers) : timers[j].kind # "enter" => j \in P
<1>1. /\ timers \in Seq(Timers) /\ entering \in Seq(Entries)
      /\ DOMAIN timers = 1 .. Len(timers) /\ DOMAIN entering = 1 .. Len(entering)
      /\ UniqueIds(timers) /\ OldestFirst(timers)
      /\ Mirrors("enter", timers, entering)
      /\ \A j \in 1 .. Len(timers) : timers[j].left \in Nat
  BY Known
<1>2. /\ timers[i].kind = "enter" /\ timers[i].left = 0
      /\ \A j \in 1 .. i - 1 : timers[j].left # 0
  BY DEF Due
<1>3. PICK A : A = DOMAIN entering \ TakenOut(entering, c)
  OBVIOUS
<1>4. A \in SUBSET (1 .. Len(entering))
  BY <1>1, <1>3
<1>5. \A j \in 1 .. Len(timers) :
        timers[j].id \in Concerning(entering, A, c) <=>
          timers[j].kind = "enter" /\ timers[j].cell = c /\ \E a \in A : entering[a].id = timers[j].id
  <2>1. \A j \in 1 .. Len(timers) : \A a \in 1 .. Len(entering) :
          timers[j].id = entering[a].id => timers[j].kind = "enter" /\ timers[j].cell = entering[a].cell
    BY <1>1, NamesTimers
  <2>2. \A j \in 1 .. Len(timers) :
          timers[j].id \in Concerning(entering, A, c) <=>
            \E a \in A : entering[a].cell = c /\ entering[a].id = timers[j].id
    BY DEF Concerning
  <2>3. \A a \in A : a \in 1 .. Len(entering)
    BY <1>4
  <2> QED
    BY <2>1, <2>2, <2>3
<1>6. /\ P \in SUBSET (1 .. Len(timers))
      /\ \A j \in 1 .. Len(timers) :
           j \in P <=> j # i /\ timers[j].id \notin Concerning(entering, A, c)
  BY <1>1, <1>3 DEF Uncancelled
<1>7. ASSUME NEW j \in 1 .. Len(timers), j # i, timers[j].kind = "enter", timers[j].cell = c
      PROVE  \E a \in A : entering[a].id = timers[j].id
  <2>1. PICK a \in 1 .. Len(entering) : entering[a].id = timers[j].id /\ entering[a].cell = c
    BY <1>1, <1>7 DEF Mirrors
  <2>2. PICK b \in 1 .. Len(entering) : entering[b].id = timers[i].id /\ entering[b].cell = c
    BY <1>1, <1>2 DEF Mirrors
  <2>3. a # b
    BY <1>1, <1>7, <2>1, <2>2 DEF UniqueIds
  <2>4. ASSUME a \in TakenOut(entering, c)
        PROVE  FALSE
    <3>1. ~(b \in 1 .. a - 1)
      BY <2>2, <2>4 DEF TakenOut
    <3>2. a < b
      BY <1>1, <2>3, <3>1
    <3>3. i <= j => b <= a
      BY <1>1, <2>1, <2>2 DEF Mirrors
    <3>4. j < i
      BY <1>1, <3>2, <3>3
    <3>5. timers[j].left <= timers[i].left
      BY <1>1, <1>2, <1>7, <3>4 DEF OldestFirst, SameQueue
    <3>6. timers[j].left # 0
      BY <1>2, <3>4
    <3> QED
      BY <1>1, <1>2, <3>5, <3>6
  <2> QED
    BY <1>1, <1>3, <2>1, <2>4
<1> QED
  BY <1>2, <1>5, <1>6, <1>7 DEF Ends

(* VarMeasReportListAdd.                                                   *)
LEMMA AddKeepsIInv ==
  ASSUME IInv, VarMeasReportListAdd
  PROVE  IInv'
<1>1. /\ timers \in Seq(Timers) /\ entering \in Seq(Entries) /\ leaving \in Seq(Entries)
      /\ DOMAIN timers = 1 .. Len(timers)
      /\ UniqueIds(timers) /\ OldestFirst(timers)
      /\ Mirrors("enter", timers, entering) /\ Mirrors("leave", timers, leaving)
  BY Known
<1>2. \A j \in 1 .. Len(timers) :
              /\ timers[j].id \in Ids /\ timers[j].cell \in Cells /\ timers[j].left \in Nat
              /\ timers[j].kind \in {"enter", "leave", "report"}
  BY Known
<1>3. PICK i \in 1 .. Len(timers) :
        /\ Due("enter", i)
        /\ LET c    == timers[i].cell
               rest == DOMAIN entering \ TakenOut(entering, c)
               left == KeepAt(timers, Uncancelled(Concerning(entering, rest, c)) \ {i}) IN
           /\ reporting' = TRUE
           /\ triggered' = triggered \cup {c}
           /\ entering' = Without(entering, c)
           /\ IF Reports # {}
                THEN timers' = left
                ELSE \E id \in Lowest(FreeIds \cup {timers[i].id}) :
                       timers' = Append(left, [id |-> id, kind |-> "report", cell |-> c, left |-> 0])
        /\ UNCHANGED <<mode, serving, leaving, loop, measured, sent, since, failed>>
  BY <1>1, Zenon DEF VarMeasReportListAdd
<1>4. Due("enter", i)
  BY <1>3, Zenon
<1>5. PICK c : c = timers[i].cell
  OBVIOUS
<1>6. PICK P : P = Uncancelled(Concerning(entering, DOMAIN entering \ TakenOut(entering, c), c)) \ {i}
  OBVIOUS
<1>7. /\ reporting' = TRUE /\ triggered' = triggered \cup {c} /\ entering' = Without(entering, c)
      /\ mode' = mode /\ serving' = serving /\ leaving' = leaving /\ loop' = loop
      /\ measured' = measured /\ sent' = sent /\ since' = since /\ failed' = failed
  BY <1>3, <1>5
<1>8. \/ timers' = KeepAt(timers, P)
      \/ \E id \in Lowest(FreeIds \cup {timers[i].id}) :
           timers' = Append(KeepAt(timers, P), [id |-> id, kind |-> "report", cell |-> c, left |-> 0])
  BY <1>3, <1>5, <1>6
<1>9. Ends("enter", c, P) /\ \A j \in 1 .. Len(timers) : timers[j].kind # "enter" => j \in P
  BY <1>4, <1>5, <1>6, FiredIsTakenOut
<1>10. P \in SUBSET (1 .. Len(timers))
  BY <1>9 DEF Ends
<1>11. \A j \in 1 .. Len(timers) : timers[j].kind # "enter" => j \in P
  BY <1>9
<1>12. /\ Without(entering, c) \in Seq(Entries)
       /\ Mirrors("enter", KeepAt(timers, P), Without(entering, c))
  BY <1>1, <1>9, QueueWithout, Zenon
<1>13. Mirrors("leave", KeepAt(timers, P), leaving)
  <2>1. \A j \in 1 .. Len(timers) : timers[j].kind = "leave" => j \in P
    BY <1>11
  <2> QED
    BY <1>1, <1>10, <2>1, KeptByOthers
<1>14. KeepAt(timers, P) \in Seq(Timers)
  BY <1>1, <1>10, KeptElements
<1>15. \A j \in 1 .. Len(timers) : EnterOK(timers[j]) /\ LeaveOK(timers[j])
  BY DEF IInv, TimersOK
<1>16. ASSUME NEW t, NEW j \in P, t = timers[j]
       PROVE  EnterOK(t)' /\ LeaveOK(t)'
  <2>1. EnterOK(t) /\ LeaveOK(t)
    BY <1>10, <1>15, <1>16
  <2>2. EnterOK(t)'
    BY <1>7, <2>1 DEF EnterOK
  <2>3. LeaveOK(t)'
    BY <1>7, <2>1 DEF LeaveOK
  <2> QED
    BY <2>2, <2>3
<1>17. ASSUME NEW e \in Cells, since'[e] >= 0, ~hasTriggered(e)'
       PROVE  \E t : (\E j \in P : t = timers[j]) /\ DueInTime(e, t)'
  <2>1. e # c /\ ~hasTriggered(e) /\ since[e] >= 0
    BY <1>7, <1>17 DEF hasTriggered
  <2>2. PICK j \in 1 .. Len(timers) : DueInTime(e, timers[j])
    BY <2>1 DEF IInv, Awaited
  <2>3. PICK t : t = timers[j]
    OBVIOUS
  <2>4. j \in P /\ DueInTime(e, t)
    BY <1>9, <2>1, <2>2, <2>3 DEF DueInTime, Ends
  <2>5. DueInTime(e, t)'
    BY <1>7, <2>4 DEF DueInTime
  <2> QED
    BY <2>3, <2>4, <2>5
<1>18. mode # "idle"
  BY DEF IInv, NothingWhenIdle
<1>19. ASSUME timers' \in Seq(Timers)
       PROVE  TypeOK' /\ NoAssertFails' /\ NothingWhenIdle'
  <2>1. c \in Cells
    BY <1>2, <1>5
  <2>2. TypeOK'
    BY <1>7, <1>12, <1>19, <2>1 DEF IInv, TypeOK
  <2> QED
    BY <1>7, <1>18, <2>2 DEF IInv, NoAssertFails, NothingWhenIdle
<1>20. CASE timers' = KeepAt(timers, P)
  <2>1. From(P, {}, timers')
    BY <1>1, <1>10, <1>20, TimersKept
  <2>2. TimersOK'
    BY <1>16, <2>1, EveryTimer
  <2>3. \A e \in Cells : since'[e] >= 0 /\ ~hasTriggered(e)' =>
          \E t : (t \in {} \/ \E j \in P : t = timers[j]) /\ DueInTime(e, t)'
    BY <1>17
  <2>4. Awaited'
    BY <2>1, <2>3, SomeTimer
  <2>5. timers' \in Seq(Timers) /\ UniqueIds(timers') /\ OldestFirst(timers')
    BY <2>1 DEF From
  <2>6. Mirrors("enter", timers', entering') /\ Mirrors("leave", timers', leaving')
    BY <1>7, <1>12, <1>13, <1>20
  <2> QED
    BY <1>19, <2>2, <2>4, <2>5, <2>6, Together
<1>21. ASSUME NEW id \in Lowest(FreeIds \cup {timers[i].id}),
              timers' = Append(KeepAt(timers, P), [id |-> id, kind |-> "report", cell |-> c, left |-> 0])
       PROVE  IInv'
  <2>1. PICK u : u = [id |-> id, kind |-> "report", cell |-> c, left |-> 0]
    OBVIOUS
  <2>2. id \in Ids /\ (id \notin IdsOf(timers) \/ id = timers[i].id)
    BY <1>2 DEF Lowest, FreeIds
  <2>3. u \in Timers /\ u.kind = "report" /\ u.id = id
    BY <1>2, <1>5, <2>1, <2>2 DEF Timers
  <2>4. i \notin P
    BY <1>6
  <2>5. ASSUME NEW j \in P
        PROVE  timers[j].id # u.id /\ (SameQueue(timers[j], u) => timers[j].left <= u.left)
    <3>1. id \notin IdsOf(timers) => timers[j].id # id
      BY <1>1, <1>10 DEF IdsOf
    <3>2. timers[j].id # timers[i].id
      BY <1>1, <1>10, <2>4 DEF UniqueIds
    <3>3. ~SameQueue(timers[j], u)
      BY <2>3 DEF SameQueue
    <3> QED
      BY <2>2, <2>3, <3>1, <3>2, <3>3
  <2>6. From(P, {u}, timers')
    BY <1>1, <1>10, <1>21, <2>1, <2>3, <2>5, TimersAppended
  <2>7. EnterOK(u)' /\ LeaveOK(u)'
    BY <2>3 DEF EnterOK, LeaveOK
  <2>8. TimersOK'
    BY <1>16, <2>6, <2>7, EveryTimer
  <2>9. \A e \in Cells : since'[e] >= 0 /\ ~hasTriggered(e)' =>
          \E t : (t \in {u} \/ \E j \in P : t = timers[j]) /\ DueInTime(e, t)'
    BY <1>17
  <2>10. Awaited'
    BY <2>6, <2>9, SomeTimer
  <2>11. timers' \in Seq(Timers) /\ UniqueIds(timers') /\ OldestFirst(timers')
    BY <2>6 DEF From
  <2>12. u.id \notin IdsOf(KeepAt(timers, P))
    <3>1. \A j \in 1 .. Len(KeepAt(timers, P)) : \E l \in P : KeepAt(timers, P)[j] = timers[l]
      BY <1>1, <1>10, KeptElements
    <3> QED
      BY <1>14, <2>5, <3>1 DEF IdsOf
  <2>13. Mirrors("enter", Append(KeepAt(timers, P), u), Without(entering, c))
    BY <1>12, <1>14, <2>3, <2>12, AppendedByOthers
  <2>14. Mirrors("leave", Append(KeepAt(timers, P), u), leaving)
    BY <1>1, <1>13, <1>14, <2>3, <2>12, AppendedByOthers
  <2>15. Mirrors("enter", timers', entering') /\ Mirrors("leave", timers', leaving')
    BY <1>7, <1>21, <2>1, <2>13, <2>14
  <2> QED
    BY <1>19, <2>8, <2>10, <2>11, <2>15, Together
<1> QED
  BY <1>8, <1>20, <1>21

(* The trigger at the head of the leaving queue is the one that fires, as  *)
(* all of them have the same delay.                                        *)
LEMMA HeadFires ==
  ASSUME IInv, NEW i \in 1 .. Len(timers), Due("leave", i)
  PROVE  /\ 1 \in 1 .. Len(leaving)
         /\ leaving[1].id = timers[i].id /\ leaving[1].cell = timers[i].cell
<1>1. /\ timers \in Seq(Timers) /\ leaving \in Seq(Entries)
      /\ OldestFirst(timers) /\ Mirrors("leave", timers, leaving)
      /\ \A j \in 1 .. Len(timers) : timers[j].left \in Nat
  BY Known
<1>2. /\ timers[i].kind = "leave" /\ timers[i].left = 0
      /\ \A j \in 1 .. i - 1 : timers[j].left # 0
  BY DEF Due
<1>3. PICK b \in 1 .. Len(leaving) :
        leaving[b].id = timers[i].id /\ leaving[b].cell = timers[i].cell
  BY <1>1, <1>2 DEF Mirrors
<1>4. 1 \in 1 .. Len(leaving)
  BY <1>1, <1>3
<1>5. PICK j \in 1 .. Len(timers) : timers[j].kind = "leave" /\ timers[j].id = leaving[1].id
  BY <1>1, <1>4 DEF Mirrors
<1>6. ~(j < i)
  <2> SUFFICES ASSUME j < i PROVE FALSE
    OBVIOUS
  <2>1. timers[j].left <= timers[i].left
    BY <1>1, <1>2, <1>5 DEF OldestFirst, SameQueue
  <2>2. timers[j].left # 0
    BY <1>2
  <2> QED
    BY <1>1, <1>2, <2>1, <2>2
<1>7. i <= j
  BY <1>1, <1>6
<1>8. b <= 1
  BY <1>1, <1>3, <1>4, <1>5, <1>7 DEF Mirrors
<1>9. b = 1
  BY <1>1, <1>8
<1> QED
  BY <1>3, <1>4, <1>9

(* VarMeasReportListErase.                                                 *)
LEMMA EraseKeepsIInv ==
  ASSUME IInv, VarMeasReportListErase
  PROVE  IInv'
<1>1. /\ timers \in Seq(Timers) /\ entering \in Seq(Entries) /\ leaving \in Seq(Entries)
      /\ DOMAIN timers = 1 .. Len(timers) /\ DOMAIN leaving = 1 .. Len(leaving)
      /\ UniqueIds(timers) /\ OldestFirst(timers)
      /\ Mirrors("enter", timers, entering) /\ Mirrors("leave", timers, leaving)
  BY Known
<1>2. \A j \in 1 .. Len(timers) : timers[j].cell \in Cells
  BY Known
<1>3. PICK i \in 1 .. Len(timers) :
        /\ Due("leave", i)
        /\ LET c    == timers[i].cell
               rest == DOMAIN leaving \ {1}
               left == Uncancelled(Concerning(leaving, rest, c)) \ {i} IN
           /\ triggered' = triggered \ {c}
           /\ reporting' = (triggered \ {c} # {})
           /\ timers' = KeepAt(timers, left \ ReportEnded(c))
           /\ leaving' = KeepAt(leaving, {j \in rest : leaving[j].cell # c})
           /\ failed' = ~reporting
        /\ UNCHANGED <<mode, serving, entering, loop, measured, sent, since>>
  BY <1>1, Zenon DEF VarMeasReportListErase
<1>4. Due("leave", i)
  BY <1>3, Zenon
<1>5. PICK c : c = timers[i].cell
  OBVIOUS
<1>6. PICK L : L = Uncancelled(Concerning(leaving, DOMAIN leaving \ {1}, c)) \ {i}
  OBVIOUS
<1>7. PICK P : P = L \ ReportEnded(c)
  OBVIOUS
<1>8. /\ triggered' = triggered \ {c} /\ reporting' = (triggered \ {c} # {})
      /\ failed' = ~reporting
      /\ mode' = mode /\ serving' = serving /\ entering' = entering /\ loop' = loop
      /\ measured' = measured /\ sent' = sent /\ since' = since
  BY <1>3, <1>5
<1>9. /\ timers' = KeepAt(timers, P)
      /\ leaving' = KeepAt(leaving, {j \in DOMAIN leaving \ {1} : leaving[j].cell # c})
  BY <1>3, <1>5, <1>6, <1>7
<1>10. 1 \in 1 .. Len(leaving) /\ leaving[1].id = timers[i].id /\ leaving[1].cell = c
  BY <1>4, <1>5, HeadFires
<1>11. leaving' = Without(leaving, c)
  <2>1. {j \in DOMAIN leaving \ {1} : leaving[j].cell # c} = {j \in DOMAIN leaving : leaving[j].cell # c}
    BY <1>10
  <2> QED
    BY <1>9, <2>1 DEF Without
<1>12. timers[i].kind = "leave"
  BY <1>4 DEF Due
<1>13. /\ L \in SUBSET (1 .. Len(timers))
       /\ \A j \in 1 .. Len(timers) : timers[j].kind = "leave" => (j \in L <=> timers[j].cell # c)
       /\ \A j \in 1 .. Len(timers) : timers[j].kind = "enter" => j \in L
  <2>1. \A j \in 1 .. Len(timers) : \A a \in 1 .. Len(leaving) :
          timers[j].id = leaving[a].id => timers[j].kind = "leave" /\ timers[j].cell = leaving[a].cell
    BY <1>1, NamesTimers
  <2>2. /\ L \in SUBSET (1 .. Len(timers))
        /\ \A j \in 1 .. Len(timers) :
             j \in L <=> /\ j # i
                         /\ ~\E a \in 1 .. Len(leaving) :
                              a # 1 /\ leaving[a].cell = c /\ leaving[a].id = timers[j].id
    BY <1>1, <1>6 DEF Uncancelled, Concerning
  <2>3. ASSUME NEW j \in 1 .. Len(timers), j # i, timers[j].kind = "leave", timers[j].cell = c
        PROVE  \E a \in 1 .. Len(leaving) :
                 a # 1 /\ leaving[a].cell = c /\ leaving[a].id = timers[j].id
    <3>1. PICK a \in 1 .. Len(leaving) : leaving[a].id = timers[j].id /\ leaving[a].cell = c
      BY <1>1, <2>3 DEF Mirrors
    <3>2. a # 1
      BY <1>1, <1>10, <2>3, <3>1 DEF UniqueIds
    <3> QED
      BY <3>1, <3>2
  <2>4. \A j \in 1 .. Len(timers) : timers[j].kind = "leave" => (j \in L <=> timers[j].cell # c)
    BY <1>5, <2>1, <2>2, <2>3
  <2>5. \A j \in 1 .. Len(timers) : timers[j].kind = "enter" => j \in L
    BY <1>12, <2>1, <2>2
  <2> QED
    BY <2>2, <2>4, <2>5
<1>14. P \in SUBSET (1 .. Len(timers)) /\ Ends("leave", c, P)
       /\ \A j \in 1 .. Len(timers) : timers[j].kind = "enter" => j \in P
  <2>1. \A j \in 1 .. Len(timers) : timers[j].kind \in {"enter", "leave"} => (j \in P <=> j \in L)
    BY <1>7 DEF ReportEnded, Reports
  <2>2. P \in SUBSET (1 .. Len(timers))
    BY <1>7, <1>13
  <2> QED
    BY <1>13, <2>1, <2>2 DEF Ends
<1>15. /\ Without(leaving, c) \in Seq(Entries)
       /\ Mirrors("leave", KeepAt(timers, P), Without(leaving, c))
  BY <1>1, <1>14, QueueWithout, Zenon
<1>16. Mirrors("enter", KeepAt(timers, P), entering)
  BY <1>1, <1>14, KeptByOthers
<1>17. \A j \in 1 .. Len(timers) : EnterOK(timers[j]) /\ LeaveOK(timers[j])
  BY DEF IInv, TimersOK
<1>18. reporting /\ c \in triggered /\ since[c] = -1
  BY <1>5, <1>12, <1>17 DEF LeaveOK
<1>19. ASSUME NEW t, NEW j \in P, t = timers[j]
       PROVE  EnterOK(t)' /\ LeaveOK(t)'
  <2>1. EnterOK(t) /\ LeaveOK(t) /\ (t.kind = "leave" => t.cell # c)
    BY <1>14, <1>17, <1>19 DEF Ends
  <2>2. EnterOK(t)'
    BY <1>8, <2>1 DEF EnterOK
  <2>3. LeaveOK(t)'
    BY <1>8, <2>1 DEF LeaveOK
  <2> QED
    BY <2>2, <2>3
<1>20. ASSUME NEW e \in Cells, since'[e] >= 0, ~hasTriggered(e)'
       PROVE  \E t : (t \in {} \/ \E j \in P : t = timers[j]) /\ DueInTime(e, t)'
  <2>1. e # c /\ since[e] >= 0
    BY <1>8, <1>18, <1>20
  <2>2. ~hasTriggered(e)
    BY <1>8, <1>20, <2>1 DEF hasTriggered
  <2>3. PICK j \in 1 .. Len(timers) : DueInTime(e, timers[j])
    BY <2>1, <2>2 DEF IInv, Awaited
  <2>4. PICK t : t = timers[j]
    OBVIOUS
  <2>5. j \in P /\ DueInTime(e, t)
    BY <1>14, <2>3, <2>4 DEF DueInTime
  <2>6. DueInTime(e, t)'
    BY <1>8, <2>5 DEF DueInTime
  <2> QED
    BY <2>4, <2>5, <2>6
<1>21. mode # "idle"
  BY DEF IInv, NothingWhenIdle
<1>22. From(P, {}, timers')
  BY <1>1, <1>9, <1>14, TimersKept
<1>23. TimersOK'
  BY <1>19, <1>22, EveryTimer
<1>24. Awaited'
  BY <1>20, <1>22, SomeTimer
<1>25. timers' \in Seq(Timers) /\ UniqueIds(timers') /\ OldestFirst(timers')
  BY <1>22 DEF From
<1>26. TypeOK'
  <2>1. leaving' \in Seq(Entries)
    BY <1>11, <1>15
  <2>2. failed' \in BOOLEAN /\ reporting' \in BOOLEAN /\ triggered' \subseteq Cells
    BY <1>8 DEF IInv, TypeOK
  <2> QED
    BY <1>8, <1>25, <2>1, <2>2 DEF IInv, TypeOK
<1>27. NoAssertFails' /\ NothingWhenIdle'
  BY <1>8, <1>18, <1>21 DEF NoAssertFails, NothingWhenIdle
<1>28. Mirrors("enter", timers', entering') /\ Mirrors("leave", timers', leaving')
  BY <1>8, <1>9, <1>11, <1>15, <1>16
<1> QED
  BY <1>23, <1>24, <1>25, <1>26, <1>27, <1>28, Together

(* SendMeasurementReport.                                                  *)
LEMMA SendKeepsIInv ==
  ASSUME IInv, SendMeasurementReport
  PROVE  IInv'
<1>1. /\ timers \in Seq(Timers) /\ entering \in Seq(Entries) /\ leaving \in Seq(Entries)
      /\ DOMAIN timers = 1 .. Len(timers)
      /\ UniqueIds(timers) /\ OldestFirst(timers)
      /\ Mirrors("enter", timers, entering) /\ Mirrors("leave", timers, leaving)
  BY Known
<1>2. \A j \in 1 .. Len(timers) : timers[j] \in Timers
  BY Known
<1>3. PICK i \in 1 .. Len(timers) :
        /\ Due("report", i)
        /\ timers' = Append(KeepAt(timers, DOMAIN timers \ {i}),
                            [timers[i] EXCEPT !.left = ReportInterval])
        /\ sent' = IF mode = "connected" THEN triggered \ {serving} ELSE sent
        /\ failed' = (mode = "idle")
        /\ UNCHANGED <<mode, serving, entering, leaving, reporting, triggered, loop, measured, since>>
  BY <1>1, Zenon DEF SendMeasurementReport
<1>4. timers[i].kind = "report"
  BY <1>3 DEF Due
<1>5. PICK o \in Timers : o = timers[i]
  BY <1>2
<1>6. PICK u : u = [o EXCEPT !.left = ReportInterval]
  OBVIOUS
<1>7. u \in Timers /\ u.kind = "report" /\ u.id = timers[i].id
  BY <1>4, <1>5, <1>6, DelaysAreTicks DEF Timers
<1>8. PICK P : P = DOMAIN timers \ {i}
  OBVIOUS
<1>9. P \in SUBSET (1 .. Len(timers)) /\ i \notin P
      /\ \A j \in 1 .. Len(timers) : timers[j].kind # "report" => j \in P
  BY <1>1, <1>4, <1>8
<1>10. timers' = Append(KeepAt(timers, P), u)
  BY <1>3, <1>5, <1>6, <1>8
<1>11. /\ sent' = IF mode = "connected" THEN triggered \ {serving} ELSE sent
       /\ failed' = (mode = "idle")
       /\ mode' = mode /\ serving' = serving /\ entering' = entering /\ leaving' = leaving
       /\ reporting' = reporting /\ triggered' = triggered /\ loop' = loop
       /\ measured' = measured /\ since' = since
  BY <1>3
<1>12. ASSUME NEW j \in P
       PROVE  timers[j].id # u.id /\ (SameQueue(timers[j], u) => timers[j].left <= u.left)
  <2>1. timers[j].id # timers[i].id
    BY <1>1, <1>9 DEF UniqueIds
  <2>2. ~SameQueue(timers[j], u)
    BY <1>7 DEF SameQueue
  <2> QED
    BY <1>7, <2>1, <2>2
<1>13. From(P, {u}, timers')
  BY <1>1, <1>7, <1>9, <1>10, <1>12, TimersAppended
<1>14. \A j \in 1 .. Len(timers) : EnterOK(timers[j]) /\ LeaveOK(timers[j])
  BY DEF IInv, TimersOK
<1>15. ASSUME NEW t, NEW j \in P, t = timers[j]
       PROVE  EnterOK(t)' /\ LeaveOK(t)'
  <2>1. EnterOK(t) /\ LeaveOK(t)
    BY <1>9, <1>14, <1>15
  <2> QED
    BY <1>11, <2>1 DEF EnterOK, LeaveOK
<1>16. EnterOK(u)' /\ LeaveOK(u)'
  BY <1>7 DEF EnterOK, LeaveOK
<1>17. TimersOK'
  BY <1>13, <1>15, <1>16, EveryTimer
<1>18. ASSUME NEW e \in Cells, since'[e] >= 0, ~hasTriggered(e)'
       PROVE  \E t : (t \in {u} \/ \E j \in P : t = timers[j]) /\ DueInTime(e, t)'
  <2>1. ~hasTriggered(e) /\ since[e] >= 0
    BY <1>11, <1>18 DEF hasTriggered
  <2>2. PICK j \in 1 .. Len(timers) : DueInTime(e, timers[j])
    BY <2>1 DEF IInv, Awaited
  <2>3. PICK t : t = timers[j]
    OBVIOUS
  <2>4. j \in P /\ DueInTime(e, t)
    BY <1>9, <2>2, <2>3 DEF DueInTime
  <2>5. DueInTime(e, t)'
    BY <1>11, <2>4 DEF DueInTime
  <2> QED
    BY <2>3, <2>4, <2>5
<1>19. Awaited'
  BY <1>13, <1>18, SomeTimer
<1>20. timers' \in Seq(Timers) /\ UniqueIds(timers') /\ OldestFirst(timers')
  BY <1>13 DEF From
<1>21. mode # "idle"
  BY DEF IInv, NothingWhenIdle
<1>22. TypeOK'
  <2>1. failed' \in BOOLEAN /\ sent' \subseteq Cells
    BY <1>11 DEF IInv, TypeOK
  <2> QED
    BY <1>11, <1>20, <2>1 DEF IInv, TypeOK
<1>23. NoAssertFails' /\ NothingWhenIdle'
  BY <1>11, <1>21 DEF NoAssertFails, NothingWhenIdle
<1>24. KeepAt(timers, P) \in Seq(Timers)
  BY <1>1, <1>9, KeptElements
<1>25. u.id \notin IdsOf(KeepAt(timers, P))
  <2>1. \A j \in 1 .. Len(KeepAt(timers, P)) : \E l \in P : KeepAt(timers, P)[j] = timers[l]
    BY <1>1, <1>9, KeptElements
  <2> QED
    BY <1>12, <1>24, <2>1 DEF IdsOf
<1>26. Mirrors("enter", KeepAt(timers, P), entering)
  <2>1. \A j \in 1 .. Len(timers) : timers[j].kind = "enter" => j \in P
    BY <1>9
  <2> QED
    BY <1>1, <1>9, <2>1, KeptByOthers
<1>27. Mirrors("leave", KeepAt(timers, P), leaving)
  <2>1. \A j \in 1 .. Len(timers) : timers[j].kind = "leave" => j \in P
    BY <1>9
  <2> QED
    BY <1>1, <1>9, <2>1, KeptByOthers
<1>28. Mirrors("enter", Append(KeepAt(timers, P), u), entering)
  BY <1>1, <1>7, <1>24, <1>25, <1>26, AppendedByOthers
<1>29. Mirrors("leave", Append(KeepAt(timers, P), u), leaving)
  BY <1>1, <1>7, <1>24, <1>25, <1>27, AppendedByOthers
<1>30. Mirrors("enter", timers', entering') /\ Mirrors("leave", timers', leaving')
  BY <1>10, <1>11, <1>28, <1>29
<1> QED
  BY <1>17, <1>19, <1>20, <1>22, <1>23, <1>30, Together

----------------------------------------------------------------------------
(* With nothing running and no cell entering, the invariant is the type.   *)
LEMMA EmptyKeepsIInv ==
  ASSUME TypeOK', NoAssertFails', loop' = {},
         Len(timers') = 0, Len(entering') = 0, Len(leaving') = 0,
         \A c \in Cells : since'[c] = -1
  PROVE  IInv'
<1>1. \A j : ~(j \in 1 .. 0)
  OBVIOUS
<1>2. UniqueIds(timers') /\ OldestFirst(timers')
  BY <1>1 DEF UniqueIds, OldestFirst
<1>3. Mirrors("enter", timers', entering')
  BY <1>1 DEF Mirrors
<1>4. Mirrors("leave", timers', leaving')
  BY <1>1 DEF Mirrors
<1>5. TimersOK'
  BY <1>1 DEF TimersOK
<1>6. Awaited'
  BY DEF Awaited
<1>7. NothingWhenIdle'
  BY DEF NothingWhenIdle
<1> QED
  BY <1>2, <1>3, <1>4, <1>5, <1>6, <1>7, Together

(* Nothing is kept of nothing.                                             *)
LEMMA NoneKept ==
  ASSUME timers \in Seq(Timers), NEW P \in SUBSET (1 .. Len(timers)), \A i \in P : FALSE
  PROVE  KeepAt(timers, P) \in Seq(Timers) /\ Len(KeepAt(timers, P)) = 0
<1>1. PICK s : s = KeepAt(timers, P)
  OBVIOUS
<1>2. s \in Seq(Timers) /\ \A j \in 1 .. Len(s) : \E i \in P : s[j] = timers[i]
  BY <1>1, KeptElements
<1>3. Len(s) \in Nat /\ \A j \in 1 .. Len(s) : FALSE
  BY <1>2
<1>4. Len(s) = 0
  <2>1. Len(s) > 0 => 1 \in 1 .. Len(s)
    BY <1>3
  <2> QED
    BY <1>3, <2>1
<1> QED
  BY <1>1, <1>2, <1>4

(* VarMeasReportListClear stops every timer.                               *)
LEMMA ClearStopsAll ==
  ASSUME IInv, VarMeasReportListClear
  PROVE  /\ timers' \in Seq(Timers) /\ Len(timers') = 0
         /\ entering' \in Seq(Entries) /\ Len(entering') = 0
         /\ leaving' \in Seq(Entries) /\ Len(leaving') = 0
         /\ since' \in [Cells -> -1 .. Cap] /\ \A c \in Cells : since'[c] = -1
         /\ reporting' = FALSE /\ triggered' = {}
<1>1. /\ timers \in Seq(Timers)
      /\ DOMAIN timers = 1 .. Len(timers) /\ DOMAIN entering = 1 .. Len(entering)
      /\ DOMAIN leaving = 1 .. Len(leaving)
      /\ Mirrors("enter", timers, entering) /\ Mirrors("leave", timers, leaving)
  BY Known
<1>2. \A i \in 1 .. Len(timers) : timers[i].kind \in {"enter", "leave", "report"}
  BY Known
<1>3. PICK P : P = Uncancelled(IdsOf(entering) \cup IdsOf(leaving)) \ Reports
  OBVIOUS
<1>4. P \in SUBSET (1 .. Len(timers))
  BY <1>1, <1>3 DEF Uncancelled
<1>5. \A i \in P : timers[i].id \notin IdsOf(entering) /\ timers[i].id \notin IdsOf(leaving)
                   /\ timers[i].kind # "report"
  BY <1>3 DEF Uncancelled, Reports
<1>6. \A i \in 1 .. Len(timers) : timers[i].kind = "enter" => timers[i].id \in IdsOf(entering)
  <2>1. \A i \in 1 .. Len(timers) : timers[i].kind = "enter" =>
          \E a \in 1 .. Len(entering) : entering[a].id = timers[i].id
    BY <1>1 DEF Mirrors
  <2> QED
    BY <1>1, <2>1 DEF IdsOf
<1>7. \A i \in 1 .. Len(timers) : timers[i].kind = "leave" => timers[i].id \in IdsOf(leaving)
  <2>1. \A i \in 1 .. Len(timers) : timers[i].kind = "leave" =>
          \E a \in 1 .. Len(leaving) : leaving[a].id = timers[i].id
    BY <1>1 DEF Mirrors
  <2> QED
    BY <1>1, <2>1 DEF IdsOf
<1>8. \A i \in P : FALSE
  BY <1>2, <1>4, <1>5, <1>6, <1>7
<1>9. KeepAt(timers, P) \in Seq(Timers) /\ Len(KeepAt(timers, P)) = 0
  BY <1>1, <1>4, <1>8, NoneKept
<1>10. timers' = KeepAt(timers, P) /\ entering' = <<>> /\ leaving' = <<>>
       /\ reporting' = FALSE /\ triggered' = {} /\ since' = [c \in Cells |-> -1]
  BY <1>3 DEF VarMeasReportListClear
<1>11. since' \in [Cells -> -1 .. Cap] /\ \A c \in Cells : since'[c] = -1
  BY <1>10, DelaysAreTicks
<1>12. entering' \in Seq(Entries) /\ Len(entering') = 0 /\ leaving' \in Seq(Entries) /\ Len(leaving') = 0
  BY <1>10
<1> QED
  BY <1>9, <1>10, <1>11, <1>12

(* HandoverCommand, Reconfiguration, HandoverEnd and LeaveConnectedMode.   *)
LEMMA ClearKeepsIInv ==
  ASSUME IInv,
         \/ \E c \in Cells : HandoverCommand(c)
         \/ Reconfiguration \/ HandoverEnd \/ LeaveConnectedMode
  PROVE  IInv'
<1>1. VarMeasReportListClear
  BY DEF HandoverCommand, Reconfiguration, HandoverEnd, LeaveConnectedMode
<1>2. /\ timers' \in Seq(Timers) /\ Len(timers') = 0
      /\ entering' \in Seq(Entries) /\ Len(entering') = 0
      /\ leaving' \in Seq(Entries) /\ Len(leaving') = 0
      /\ since' \in [Cells -> -1 .. Cap] /\ \A c \in Cells : since'[c] = -1
      /\ reporting' = FALSE /\ triggered' = {}
  BY <1>1, ClearStopsAll
<1>3. /\ loop = {} /\ loop' = loop /\ failed' = failed /\ measured' = measured
      /\ mode' \in {"connected", "handover", "idle"}
      /\ serving' \in Cells /\ sent' \subseteq Cells
  BY DEF IInv, TypeOK, HandoverCommand, Reconfiguration, HandoverEnd, LeaveConnectedMode
<1>4. TypeOK'
  BY <1>2, <1>3 DEF IInv, TypeOK
<1>5. NoAssertFails'
  BY <1>3 DEF IInv, NoAssertFails
<1> QED
  BY <1>2, <1>3, <1>4, <1>5, EmptyKeepsIInv

(* Reconnect finds nothing running.                                        *)
LEMMA ReconnectStopsAll ==
  ASSUME IInv, NEW c \in Cells, Reconnect(c)
  PROVE  /\ timers' \in Seq(Timers) /\ Len(timers') = 0
         /\ reporting' = FALSE /\ triggered' = {}
<1>1. timers \in Seq(Timers) /\ DOMAIN timers = 1 .. Len(timers)
  BY Known
<1>2. Len(timers) = 0
  BY DEF Reconnect, IInv, NothingWhenIdle
<1>3. PICK P : P = DOMAIN timers \ Reports
  OBVIOUS
<1>4. P \in SUBSET (1 .. Len(timers)) /\ \A i \in P : FALSE
  BY <1>1, <1>2, <1>3
<1>5. KeepAt(timers, P) \in Seq(Timers) /\ Len(KeepAt(timers, P)) = 0
  BY <1>1, <1>4, NoneKept
<1>6. reporting' = FALSE /\ triggered' = {} /\ timers' = KeepAt(timers, P)
  BY <1>3 DEF Reconnect
<1> QED
  BY <1>5, <1>6

(* So it keeps the invariant.                                              *)
LEMMA ReconnectKeepsIInv ==
  ASSUME IInv, NEW c \in Cells, Reconnect(c)
  PROVE  IInv'
<1>1. loop = {} /\ \A e \in Cells : since[e] = -1
  BY DEF Reconnect, IInv, NothingWhenIdle
<1>2. /\ mode' = "connected" /\ serving' = c /\ reporting' = FALSE /\ triggered' = {}
      /\ entering' = <<>> /\ leaving' = <<>>
      /\ loop' = loop /\ measured' = measured /\ sent' = sent /\ since' = since /\ failed' = failed
  BY DEF Reconnect
<1>3. /\ timers' \in Seq(Timers) /\ Len(timers') = 0
      /\ entering' \in Seq(Entries) /\ Len(entering') = 0
      /\ leaving' \in Seq(Entries) /\ Len(leaving') = 0
  <2>1. timers' \in Seq(Timers) /\ Len(timers') = 0
    BY ReconnectStopsAll
  <2> QED
    BY <1>2, <2>1
<1>4. TypeOK'
  BY <1>2, <1>3 DEF IInv, TypeOK
<1>5. NoAssertFails'
  BY <1>2 DEF IInv, NoAssertFails
<1>6. loop' = {} /\ \A e \in Cells : since'[e] = -1
  BY <1>1, <1>2
<1> QED
  BY <1>3, <1>4, <1>5, <1>6, EmptyKeepsIInv

(* A step that leaves timers, queues, list and times alone.                *)
LEMMA SameKeepsIInv ==
  ASSUME IInv, TypeOK', mode' = mode, loop' = loop \/ mode # "idle",
         UNCHANGED <<timers, entering, leaving, reporting, triggered, since, failed>>
  PROVE  IInv'
<1>1. /\ timers' = timers /\ entering' = entering /\ leaving' = leaving
      /\ reporting' = reporting /\ triggered' = triggered /\ since' = since /\ failed' = failed
  OBVIOUS
<1>2. NoAssertFails'
  BY <1>1 DEF IInv, NoAssertFails
<1>3. /\ UniqueIds(timers') /\ OldestFirst(timers')
      /\ Mirrors("enter", timers', entering') /\ Mirrors("leave", timers', leaving')
  BY <1>1 DEF IInv
<1>4. TimersOK'
  BY <1>1 DEF IInv, TimersOK, EnterOK, LeaveOK
<1>5. Awaited'
  BY <1>1 DEF IInv, Awaited, DueInTime, hasTriggered
<1>6. NothingWhenIdle'
  BY <1>1 DEF IInv, NothingWhenIdle
<1> QED
  BY <1>2, <1>3, <1>4, <1>5, <1>6, Together

(* Time passes for all timers and for all cells that enter.                *)
LEMMA TickKeepsIInv ==
  ASSUME IInv, Tick
  PROVE  IInv'
<1>1. /\ timers \in Seq(Timers) /\ DOMAIN timers = 1 .. Len(timers)
      /\ UniqueIds(timers) /\ OldestFirst(timers)
      /\ Mirrors("enter", timers, entering) /\ Mirrors("leave", timers, leaving)
      /\ since \in [Cells -> -1 .. Cap] /\ Cap \in Nat
      /\ \A c \in Cells : since[c] \in Int /\ since[c] >= -1 /\ since[c] <= Cap
      /\ \A c \in Cells : Delays[c] \subseteq Nat /\ LeaveDelay[c] \in Nat
  BY Known
<1>2. PICK n \in Nat : n = Len(timers)
  <2>1. Len(timers) \in Nat
    BY <1>1
  <2> QED
    BY <2>1
<1>3. \A i \in 1 .. n : timers[i] \in Timers /\ timers[i].left \in Nat /\ timers[i].left > 0
                        /\ timers[i].cell \in Cells
  BY <1>1, <1>2, Known DEF Tick
<1>4. /\ timers' = [i \in 1 .. n |-> [timers[i] EXCEPT !.left = @ - 1]]
      /\ since' = [c \in Cells |-> IF since[c] \in {-1, Cap} THEN since[c] ELSE since[c] + 1]
      /\ mode' = mode /\ serving' = serving /\ entering' = entering /\ leaving' = leaving
      /\ reporting' = reporting /\ triggered' = triggered /\ loop' = loop /\ sent' = sent
      /\ failed' = failed /\ measured' = FALSE
  BY <1>1, <1>2 DEF Tick
<1>5. ASSUME NEW i \in 1 .. n
      PROVE  /\ [timers[i] EXCEPT !.left = @ - 1] \in Timers
             /\ [timers[i] EXCEPT !.left = @ - 1].id = timers[i].id
             /\ [timers[i] EXCEPT !.left = @ - 1].kind = timers[i].kind
             /\ [timers[i] EXCEPT !.left = @ - 1].cell = timers[i].cell
             /\ [timers[i] EXCEPT !.left = @ - 1].left = timers[i].left - 1
  <2>1. PICK o \in Timers : o = timers[i] /\ o.left \in Nat /\ o.left > 0
    BY <1>3
  <2>2. PICK u : u = [o EXCEPT !.left = @ - 1]
    OBVIOUS
  <2>3. /\ u \in Timers /\ u.id = o.id /\ u.kind = o.kind /\ u.cell = o.cell
        /\ u.left = o.left - 1
    BY <2>1, <2>2 DEF Timers
  <2> QED
    BY <2>1, <2>2, <2>3
<1>6. timers' \in Seq(Timers) /\ Len(timers') = n
  BY <1>4, <1>5
<1>7. \A i \in 1 .. n :
        /\ timers'[i].id = timers[i].id /\ timers'[i].kind = timers[i].kind
        /\ timers'[i].cell = timers[i].cell /\ timers'[i].left = timers[i].left - 1
  BY <1>4, <1>5
<1>8. /\ since' \in [Cells -> -1 .. Cap]
      /\ \A c \in Cells : since'[c] = IF since[c] \in {-1, Cap} THEN since[c] ELSE since[c] + 1
  BY <1>1, <1>4
<1>9. UniqueIds(timers')
  BY <1>1, <1>2, <1>6, <1>7 DEF UniqueIds
<1>10. OldestFirst(timers')
  <2> SUFFICES ASSUME NEW i \in 1 .. n, NEW j \in 1 .. n, i <= j, SameQueue(timers'[i], timers'[j])
               PROVE  timers'[i].left <= timers'[j].left
    BY <1>6 DEF OldestFirst
  <2>1. SameQueue(timers[i], timers[j])
    BY <1>7 DEF SameQueue
  <2>2. timers[i].left <= timers[j].left
    BY <1>1, <1>2, <2>1 DEF OldestFirst
  <2> QED
    BY <1>3, <1>7, <2>2
<1>11. ASSUME NEW k, NEW q, Mirrors(k, timers, q)
       PROVE  Mirrors(k, timers', q)
  BY <1>2, <1>6, <1>7, <1>11 DEF Mirrors
<1>12. Mirrors("enter", timers', entering') /\ Mirrors("leave", timers', leaving')
  BY <1>1, <1>4, <1>11
<1>13. TimersOK'
  <2> SUFFICES ASSUME NEW i \in 1 .. n, NEW t, t = timers'[i]
               PROVE  EnterOK(t)' /\ LeaveOK(t)'
    BY <1>6 DEF TimersOK, EnterOK, LeaveOK
  <2>1. /\ t.kind = timers[i].kind /\ t.cell = timers[i].cell /\ t.left = timers[i].left - 1
        /\ timers[i].left \in Nat /\ timers[i].left > 0 /\ t.cell \in Cells
    BY <1>3, <1>7
  <2>2. EnterOK(timers[i]) /\ LeaveOK(timers[i])
    BY <1>2 DEF IInv, TimersOK
  <2>3. ASSUME t.kind = "enter"
        PROVE  since'[t.cell] >= 0 /\ \E d \in Delays[t.cell] : t.left <= d /\ t.left + since'[t.cell] >= d
    <3>1. since[t.cell] >= 0
      BY <2>1, <2>2, <2>3 DEF EnterOK
    <3>2. PICK d \in Delays[t.cell] : timers[i].left <= d /\ timers[i].left + since[t.cell] >= d
      BY <2>1, <2>2, <2>3 DEF EnterOK
    <3>3. d \in Nat /\ d < Cap
      BY <1>1, <2>1, DelaysAreTicks
    <3>4. /\ since[t.cell] \in Int /\ since[t.cell] <= Cap
          /\ since'[t.cell] = IF since[t.cell] = Cap THEN Cap ELSE since[t.cell] + 1
      BY <1>1, <1>8, <2>1, <3>1
    <3>5. t.left <= d /\ t.left + since'[t.cell] >= d /\ since'[t.cell] >= 0
      BY <1>1, <2>1, <3>1, <3>2, <3>3, <3>4
    <3> QED
      BY <3>5
  <2>4. EnterOK(t)'
    BY <2>3 DEF EnterOK
  <2>5. LeaveOK(t)'
    BY <1>1, <1>4, <1>8, <2>1, <2>2 DEF LeaveOK
  <2> QED
    BY <2>4, <2>5
<1>14. Awaited'
  <2> SUFFICES ASSUME NEW c \in Cells, since'[c] >= 0, ~hasTriggered(c)'
               PROVE  \E i \in 1 .. n : DueInTime(c, timers[i])'
    BY <1>6 DEF Awaited
  <2>1. since[c] >= 0 /\ ~hasTriggered(c)
    BY <1>1, <1>4, <1>8 DEF hasTriggered
  <2>2. PICK i \in 1 .. n : DueInTime(c, timers[i])
    BY <1>2, <2>1 DEF IInv, Awaited
  <2>3. PICK d \in Delays[c] : timers[i].left + since[c] <= d
    BY <2>2 DEF DueInTime
  <2>4. d \in Nat /\ d < Cap
    BY <1>1, DelaysAreTicks
  <2>5. since'[c] = since[c] + 1
    BY <1>1, <1>3, <1>8, <2>1, <2>3, <2>4
  <2>6. timers'[i].left + since'[c] <= d
    <3>1. timers[i].left \in Nat /\ since[c] \in Int /\ timers'[i].left = timers[i].left - 1
      BY <1>1, <1>3, <1>7
    <3> QED
      BY <2>3, <2>4, <2>5, <3>1
  <2>7. timers'[i].kind = "enter" /\ timers'[i].cell = c
    BY <1>7, <2>2 DEF DueInTime
  <2> QED
    BY <2>6, <2>7 DEF DueInTime
<1>15. NothingWhenIdle'
  <2> SUFFICES ASSUME mode = "idle" PROVE NothingWhenIdle'
    BY <1>4 DEF NothingWhenIdle
  <2>1. Len(timers) = 0 /\ Len(entering) = 0 /\ Len(leaving) = 0 /\ loop = {}
        /\ \A c \in Cells : since[c] = -1
    BY DEF IInv, NothingWhenIdle
  <2> QED
    BY <1>2, <1>4, <1>6, <1>8, <2>1 DEF NothingWhenIdle
<1>16. TypeOK'
  BY <1>4, <1>6, <1>8 DEF IInv, TypeOK
<1>17. NoAssertFails'
  BY <1>4 DEF IInv, NoAssertFails
<1> QED
  BY <1>9, <1>10, <1>12, <1>13, <1>14, <1>15, <1>16, <1>17, Together

----------------------------------------------------------------------------
(* The inductive invariant holds with fixed delays.                        *)
THEOREM TriggerInvariance == ASSUME FixedDelays PROVE Spec => []IInv
<1>1. ASSUME Init PROVE IInv
  <2>1. /\ timers = <<>> /\ entering = <<>> /\ leaving = <<>>
        /\ Len(timers) = 0 /\ Len(entering) = 0 /\ Len(leaving) = 0
    BY <1>1 DEF Init
  <2>2. \A j : ~(j \in 1 .. 0)
    OBVIOUS
  <2>3. since \in [Cells -> -1 .. Cap] /\ \A c \in Cells : since[c] = -1
    BY <1>1, DelaysAreTicks DEF Init
  <2>4. TypeOK
    <3>1. timers \in Seq(Timers) /\ entering \in Seq(Entries) /\ leaving \in Seq(Entries)
      BY <2>1
    <3>2. /\ mode \in {"connected", "handover", "idle"} /\ serving \in Cells /\ reporting \in BOOLEAN
          /\ triggered \subseteq Cells /\ loop \subseteq Cells /\ measured \in BOOLEAN
          /\ sent \subseteq Cells /\ failed \in BOOLEAN
      BY <1>1 DEF Init
    <3> QED
      BY <2>3, <3>1, <3>2 DEF TypeOK
  <2>5. UniqueIds(timers) /\ OldestFirst(timers)
    BY <2>1, <2>2 DEF UniqueIds, OldestFirst
  <2>6. Mirrors("enter", timers, entering)
    BY <2>1, <2>2 DEF Mirrors
  <2>7. Mirrors("leave", timers, leaving)
    BY <2>1, <2>2 DEF Mirrors
  <2>8. TimersOK
    BY <2>1, <2>2 DEF TimersOK
  <2>9. Awaited
    BY <2>3 DEF Awaited
  <2>10. NoAssertFails /\ NothingWhenIdle
    BY <1>1 DEF Init, NoAssertFails, NothingWhenIdle
  <2> QED
    BY <2>4, <2>5, <2>6, <2>7, <2>8, <2>9, <2>10 DEF IInv
<1>2. ASSUME IInv, [Next]_vars PROVE IInv'
  <2>1. CASE Measure
    <3>1. TypeOK'
      BY <1>2, <2>1 DEF IInv, TypeOK, Measure
    <3> QED
      BY <1>2, <2>1, <3>1, SameKeepsIInv DEF Measure
  <2>2. ASSUME NEW c \in Cells, NEW d \in Delays[c], CellEnters(c, d) PROVE IInv'
    BY <1>2, <2>2, EntersKeepsIInv
  <2>3. ASSUME NEW c \in Cells, CellStays(c) PROVE IInv'
    BY <1>2, <2>3, StaysKeepsIInv
  <2>4. ASSUME NEW c \in Cells, CellLeaves(c) PROVE IInv'
    BY <1>2, <2>4, LeavesKeepsIInv
  <2>5. CASE \/ \E c \in Cells : HandoverCommand(c)
             \/ Reconfiguration \/ HandoverEnd \/ LeaveConnectedMode
    BY <1>2, <2>5, ClearKeepsIInv
  <2>6. ASSUME NEW c \in Cells, Reconnect(c) PROVE IInv'
    BY <1>2, <2>6, ReconnectKeepsIInv
  <2>7. CASE VarMeasReportListAdd
    BY <1>2, <2>7, AddKeepsIInv
  <2>8. CASE VarMeasReportListErase
    BY <1>2, <2>8, EraseKeepsIInv
  <2>9. CASE SendMeasurementReport
    BY <1>2, <2>9, SendKeepsIInv
  <2>10. CASE Tick
    BY <1>2, <2>10, TickKeepsIInv
  <2>11. CASE UNCHANGED vars
    <3>1. TypeOK'
      BY <1>2, <2>11 DEF IInv, TypeOK, vars
    <3> QED
      BY <1>2, <2>11, <3>1, SameKeepsIInv DEF vars
  <2> QED
    BY <1>2, <2>1, <2>2, <2>3, <2>4, <2>5, <2>6, <2>7, <2>8, <2>9, <2>10, <2>11, Zenon DEF Next
<1> QED
  BY <1>1, <1>2, PTL DEF Spec

----------------------------------------------------------------------------
(* The report that is scheduled: one if r, none otherwise.                 *)
OneReport(evs, r) ==
  /\ r => \E i \in 1 .. Len(evs) : evs[i].kind = "report"
  /\ ~r => \A i \in 1 .. Len(evs) : evs[i].kind # "report"
  /\ \A i, j \in 1 .. Len(evs) : evs[i].kind = "report" /\ evs[j].kind = "report" => i = j

(* What OneReportRuns says of the timers, before a step ...                *)
LEMMA ReportsBefore ==
  ASSUME timers \in Seq(Timers), reporting \in BOOLEAN, OneReportRuns
  PROVE  (reporting <=> triggered # {}) /\ OneReport(timers, reporting)
BY DEF OneReportRuns, OneReport, Reports

(* ... and after it.                                                       *)
LEMMA ReportsAfter ==
  ASSUME timers' \in Seq(Timers), NEW r \in BOOLEAN, reporting' = r, r <=> triggered' # {},
         OneReport(timers', r)
  PROVE  OneReportRuns'
BY DEF OneReportRuns, OneReport, Reports

(* Cancelling other timers leaves the report alone ...                     *)
LEMMA ReportGoesOn ==
  ASSUME NEW evs \in Seq(Timers), NEW P \in SUBSET (1 .. Len(evs)), NEW r \in BOOLEAN,
         UniqueIds(evs), OldestFirst(evs), OneReport(evs, r),
         \A i \in 1 .. Len(evs) : evs[i].kind = "report" => i \in P
  PROVE  KeepAt(evs, P) \in Seq(Timers) /\ OneReport(KeepAt(evs, P), r)
<1>1. PICK s : s = KeepAt(evs, P)
  OBVIOUS
<1>2. /\ s \in Seq(Timers)
      /\ \A j \in 1 .. Len(s) : \E i \in P : s[j] = evs[i]
      /\ \A i \in P : \E j \in 1 .. Len(s) : s[j] = evs[i]
  BY <1>1, KeptElements
<1>3. UniqueIds(s)
  BY <1>1, KeptOrder
<1>4. r => \E j \in 1 .. Len(s) : s[j].kind = "report"
  BY <1>2 DEF OneReport
<1>5. ~r => \A j \in 1 .. Len(s) : s[j].kind # "report"
  BY <1>2 DEF OneReport
<1>6. ASSUME NEW a \in 1 .. Len(s), NEW b \in 1 .. Len(s), s[a].kind = "report", s[b].kind = "report"
      PROVE  a = b
  <2>1. PICK i \in P : s[a] = evs[i]
    BY <1>2
  <2>2. PICK j \in P : s[b] = evs[j]
    BY <1>2
  <2>3. i = j
    BY <1>6, <2>1, <2>2 DEF OneReport
  <2> QED
    BY <1>3, <2>1, <2>2, <2>3 DEF UniqueIds
<1> QED
  BY <1>1, <1>2, <1>4, <1>5, <1>6 DEF OneReport

(* ... and cancelling it leaves none.                                      *)
LEMMA ReportStops ==
  ASSUME NEW evs \in Seq(Timers), NEW P \in SUBSET (1 .. Len(evs)),
         \A i \in P : evs[i].kind # "report"
  PROVE  KeepAt(evs, P) \in Seq(Timers) /\ OneReport(KeepAt(evs, P), FALSE)
<1>1. PICK s : s = KeepAt(evs, P)
  OBVIOUS
<1>2. s \in Seq(Timers) /\ \A j \in 1 .. Len(s) : \E i \in P : s[j] = evs[i]
  BY <1>1, KeptElements
<1>3. \A j \in 1 .. Len(s) : s[j].kind # "report"
  BY <1>2
<1> QED
  BY <1>1, <1>2, <1>3 DEF OneReport

(* A trigger that is scheduled is no report ...                            *)
LEMMA TriggerScheduled ==
  ASSUME NEW q \in Seq(Timers), NEW t \in Timers, t.kind # "report", NEW r \in BOOLEAN,
         OneReport(q, r)
  PROVE  Append(q, t) \in Seq(Timers) /\ OneReport(Append(q, t), r)
<1>1. PICK s, n : s = Append(q, t) /\ n = Len(q)
  OBVIOUS
<1>2. /\ s \in Seq(Timers) /\ Len(s) = n + 1 /\ n \in Nat
      /\ \A i \in 1 .. n : s[i] = q[i]
      /\ s[n + 1] = t
      /\ \A i \in 1 .. n + 1 : i \in 1 .. n \/ i = n + 1
  BY <1>1, Appended
<1>3. \A i \in 1 .. n : i \in 1 .. n + 1
  BY <1>2
<1> QED
  BY <1>1, <1>2, <1>3 DEF OneReport

(* ... and a report is scheduled when there is none.                       *)
LEMMA ReportScheduled ==
  ASSUME NEW q \in Seq(Timers), NEW t \in Timers, t.kind = "report", OneReport(q, FALSE)
  PROVE  Append(q, t) \in Seq(Timers) /\ OneReport(Append(q, t), TRUE)
<1>1. PICK s, n : s = Append(q, t) /\ n = Len(q)
  OBVIOUS
<1>2. /\ s \in Seq(Timers) /\ Len(s) = n + 1 /\ n \in Nat
      /\ \A i \in 1 .. n : s[i] = q[i]
      /\ s[n + 1] = t
      /\ \A i \in 1 .. n + 1 : i \in 1 .. n \/ i = n + 1
  BY <1>1, Appended
<1>3. n + 1 \in 1 .. n + 1 /\ \A i \in 1 .. n : s[i].kind # "report"
  BY <1>1, <1>2 DEF OneReport
<1> QED
  BY <1>1, <1>2, <1>3 DEF OneReport

(* The loop over the neighbours only starts and cancels triggers.          *)
LEMMA EvaluationKeepsReport ==
  ASSUME IInv, OneReportRuns, NEW c \in Cells,
         (\E d \in Delays[c] : CellEnters(c, d)) \/ CellStays(c) \/ CellLeaves(c)
  PROVE  OneReportRuns'
<1>1. /\ timers \in Seq(Timers) /\ DOMAIN timers = 1 .. Len(timers)
      /\ UniqueIds(timers) /\ OldestFirst(timers)
      /\ \A e \in Cells : Delays[e] \subseteq Nat /\ LeaveDelay[e] \in Nat
  BY Known
<1>2. /\ \A i \in 1 .. Len(timers) :
              timers[i].id \in Concerning(entering, DOMAIN entering, c) =>
                timers[i].kind = "enter"
      /\ \A i \in 1 .. Len(timers) :
              timers[i].id \in Concerning(leaving, DOMAIN leaving, c) =>
                timers[i].kind = "leave"
  BY Cancelled
<1>3. reporting \in BOOLEAN
  BY DEF IInv, TypeOK
<1>4. (reporting <=> triggered # {}) /\ OneReport(timers, reporting)
  BY <1>1, <1>3, ReportsBefore
<1>5. reporting' = reporting /\ triggered' = triggered
  BY DEF CellEnters, CellStays, CellLeaves, Evaluating
<1>6. PICK P : /\ P \in {Uncancelled(Concerning(leaving, DOMAIN leaving, c)),
                         Uncancelled(Concerning(entering, DOMAIN entering, c)),
                         Uncancelled(Concerning(entering, DOMAIN entering, c)
                                     \cup Concerning(leaving, DOMAIN leaving, c))}
               /\ \/ timers' = KeepAt(timers, P)
                  \/ \E t \in Timers : t.kind # "report" /\ timers' = Append(KeepAt(timers, P), t)
  <2>1. CASE \E d \in Delays[c] : CellEnters(c, d)
    <3>1. PICK d \in Delays[c] : CellEnters(c, d)
      BY <2>1
    <3>2. PICK evs : evs = KeepAt(timers, Uncancelled(Concerning(leaving, DOMAIN leaving, c)))
      OBVIOUS
    <3>3. \/ timers' = evs
          \/ \E id \in Lowest(FreeIds) :
               timers' = Append(evs, [id |-> id, kind |-> "enter", cell |-> c, left |-> d])
      BY <3>1, <3>2 DEF CellEnters
    <3>4. \A id \in Lowest(FreeIds) :
            [id |-> id, kind |-> "enter", cell |-> c, left |-> d] \in Timers
      BY <1>1 DEF Lowest, FreeIds, Timers
    <3> QED
      BY <3>2, <3>3, <3>4
  <2>2. CASE CellStays(c)
    BY <2>2 DEF CellStays
  <2>3. CASE CellLeaves(c)
    <3>2. PICK evs : evs = KeepAt(timers, Uncancelled(Concerning(entering, DOMAIN entering, c)))
      OBVIOUS
    <3>3. \/ timers' = evs
          \/ \E id \in Lowest(FreeIds) :
               timers' = Append(evs, [id |-> id, kind |-> "leave", cell |-> c,
                                      left |-> LeaveDelay[c]])
      BY <2>3, <3>2 DEF CellLeaves
    <3>4. \A id \in Lowest(FreeIds) :
            [id |-> id, kind |-> "leave", cell |-> c, left |-> LeaveDelay[c]] \in Timers
      BY <1>1 DEF Lowest, FreeIds, Timers
    <3> QED
      BY <3>2, <3>3, <3>4
  <2> QED
    BY <2>1, <2>2, <2>3
<1>7. /\ P \in SUBSET (1 .. Len(timers))
      /\ \A i \in 1 .. Len(timers) : timers[i].kind = "report" => i \in P
  BY <1>1, <1>2, <1>6 DEF Uncancelled
<1>8. KeepAt(timers, P) \in Seq(Timers) /\ OneReport(KeepAt(timers, P), reporting)
  BY <1>1, <1>3, <1>4, <1>7, ReportGoesOn
<1>9. timers' \in Seq(Timers) /\ OneReport(timers', reporting)
  BY <1>3, <1>6, <1>8, TriggerScheduled
<1> QED
  BY <1>3, <1>4, <1>5, <1>9, ReportsAfter

(* VarMeasReportListAdd schedules the report if it is not scheduled.       *)
LEMMA AddKeepsReport ==
  ASSUME IInv, OneReportRuns, VarMeasReportListAdd
  PROVE  OneReportRuns'
<1>1. /\ timers \in Seq(Timers) /\ DOMAIN timers = 1 .. Len(timers)
      /\ UniqueIds(timers) /\ OldestFirst(timers)
      /\ \A j \in 1 .. Len(timers) : timers[j].id \in Ids /\ timers[j].cell \in Cells
  BY Known
<1>2. reporting \in BOOLEAN
  BY DEF IInv, TypeOK
<1>3. (reporting <=> triggered # {}) /\ OneReport(timers, reporting)
  BY <1>1, <1>2, ReportsBefore
<1>4. PICK i \in 1 .. Len(timers) :
        /\ Due("enter", i)
        /\ LET c    == timers[i].cell
               rest == DOMAIN entering \ TakenOut(entering, c)
               left == KeepAt(timers, Uncancelled(Concerning(entering, rest, c)) \ {i}) IN
           /\ reporting' = TRUE
           /\ triggered' = triggered \cup {c}
           /\ entering' = Without(entering, c)
           /\ IF Reports # {}
                THEN timers' = left
                ELSE \E id \in Lowest(FreeIds \cup {timers[i].id}) :
                       timers' = Append(left, [id |-> id, kind |-> "report", cell |-> c, left |-> 0])
  BY <1>1, Zenon DEF VarMeasReportListAdd
<1>5. Due("enter", i)
  BY <1>4, Zenon
<1>6. PICK c : c = timers[i].cell
  OBVIOUS
<1>7. PICK P : P = Uncancelled(Concerning(entering, DOMAIN entering \ TakenOut(entering, c), c)) \ {i}
  OBVIOUS
<1>8. /\ reporting' = TRUE /\ triggered' = triggered \cup {c}
      /\ Reports # {} => timers' = KeepAt(timers, P)
      /\ Reports = {} => \E id \in Lowest(FreeIds \cup {timers[i].id}) :
           timers' = Append(KeepAt(timers, P), [id |-> id, kind |-> "report", cell |-> c, left |-> 0])
  BY <1>4, <1>6, <1>7
<1>9. P \in SUBSET (1 .. Len(timers)) /\ \A j \in 1 .. Len(timers) : timers[j].kind # "enter" => j \in P
  <2>1. Ends("enter", c, P) /\ \A j \in 1 .. Len(timers) : timers[j].kind # "enter" => j \in P
    BY <1>5, <1>6, <1>7, FiredIsTakenOut
  <2> QED
    BY <2>1 DEF Ends
<1>10. KeepAt(timers, P) \in Seq(Timers) /\ OneReport(KeepAt(timers, P), reporting)
  BY <1>1, <1>2, <1>3, <1>9, ReportGoesOn
<1>11. reporting = (Reports # {})
  BY <1>1, <1>2, <1>3 DEF OneReport, Reports
<1>12. timers' \in Seq(Timers) /\ OneReport(timers', TRUE)
  <2>1. CASE Reports # {}
    BY <1>8, <1>10, <1>11, <2>1
  <2>2. CASE Reports = {}
    <3>1. PICK id \in Lowest(FreeIds \cup {timers[i].id}) :
            timers' = Append(KeepAt(timers, P), [id |-> id, kind |-> "report", cell |-> c, left |-> 0])
      BY <1>8, <2>2
    <3>2. PICK t : t = [id |-> id, kind |-> "report", cell |-> c, left |-> 0]
      OBVIOUS
    <3>3. t \in Timers /\ t.kind = "report"
      BY <1>1, <1>6, <3>2 DEF Lowest, FreeIds, Timers
    <3>4. OneReport(KeepAt(timers, P), FALSE)
      BY <1>10, <1>11, <2>2
    <3> QED
      BY <1>10, <3>1, <3>2, <3>3, <3>4, ReportScheduled
  <2> QED
    BY <2>1, <2>2
<1> QED
  BY <1>8, <1>12, ReportsAfter

(* VarMeasReportListErase cancels the report with the last cell.           *)
LEMMA EraseKeepsReport ==
  ASSUME IInv, OneReportRuns, NoAssertFails', VarMeasReportListErase
  PROVE  OneReportRuns'
<1>1. /\ timers \in Seq(Timers) /\ leaving \in Seq(Entries)
      /\ DOMAIN timers = 1 .. Len(timers) /\ DOMAIN leaving = 1 .. Len(leaving)
      /\ UniqueIds(timers) /\ OldestFirst(timers) /\ Mirrors("leave", timers, leaving)
  BY Known
<1>2. reporting \in BOOLEAN
  BY DEF IInv, TypeOK
<1>3. (reporting <=> triggered # {}) /\ OneReport(timers, reporting)
  BY <1>1, <1>2, ReportsBefore
<1>4. PICK i \in 1 .. Len(timers) :
        /\ Due("leave", i)
        /\ LET c    == timers[i].cell
               rest == DOMAIN leaving \ {1}
               left == Uncancelled(Concerning(leaving, rest, c)) \ {i} IN
           /\ triggered' = triggered \ {c}
           /\ reporting' = (triggered \ {c} # {})
           /\ timers' = KeepAt(timers, left \ ReportEnded(c))
           /\ leaving' = KeepAt(leaving, {j \in rest : leaving[j].cell # c})
           /\ failed' = ~reporting
  BY <1>1, Zenon DEF VarMeasReportListErase
<1>5. timers[i].kind = "leave"
  BY <1>4 DEF Due
<1>6. PICK c : c = timers[i].cell
  OBVIOUS
<1>7. PICK A : A = DOMAIN leaving \ {1}
  OBVIOUS
<1>8. PICK P : P = (Uncancelled(Concerning(leaving, A, c)) \ {i}) \ ReportEnded(c)
  OBVIOUS
<1>9. /\ triggered' = triggered \ {c} /\ reporting' = (triggered \ {c} # {})
      /\ timers' = KeepAt(timers, P) /\ failed' = ~reporting
  BY <1>4, <1>6, <1>7, <1>8
<1>10. \A j \in 1 .. Len(timers) : timers[j].id \in Concerning(leaving, A, c) => timers[j].kind = "leave"
  <2>1. A \in SUBSET (1 .. Len(leaving))
    BY <1>1, <1>7
  <2> QED
    BY <1>1, <2>1, ConcernsTimers
<1>11. P \in SUBSET (1 .. Len(timers))
  BY <1>1, <1>8 DEF Uncancelled
<1>12. reporting
  BY <1>2, <1>9 DEF NoAssertFails
<1>13. CASE triggered \ {c} = {}
  <2>1. \A j \in P : timers[j].kind # "report"
    BY <1>1, <1>8, <1>11, <1>13 DEF ReportEnded, Reports
  <2>2. timers' \in Seq(Timers) /\ OneReport(timers', FALSE)
    BY <1>1, <1>9, <1>11, <2>1, ReportStops
  <2> QED
    BY <1>9, <1>13, <2>2, ReportsAfter
<1>14. CASE triggered \ {c} # {}
  <2>1. \A j \in 1 .. Len(timers) : timers[j].kind = "report" => j \in P
    BY <1>1, <1>5, <1>8, <1>10, <1>14 DEF ReportEnded, Uncancelled
  <2>2. timers' \in Seq(Timers) /\ OneReport(timers', reporting)
    BY <1>1, <1>2, <1>3, <1>9, <1>11, <2>1, ReportGoesOn
  <2> QED
    BY <1>2, <1>9, <1>12, <1>14, <2>2, ReportsAfter
<1> QED
  BY <1>13, <1>14

(* SendMeasurementReport schedules the next report in place of this one.   *)
LEMMA SendKeepsReport ==
  ASSUME IInv, OneReportRuns, SendMeasurementReport
  PROVE  OneReportRuns'
<1>1. /\ timers \in Seq(Timers) /\ DOMAIN timers = 1 .. Len(timers)
      /\ UniqueIds(timers) /\ OldestFirst(timers)
      /\ \A j \in 1 .. Len(timers) : timers[j] \in Timers
  BY Known
<1>2. reporting \in BOOLEAN
  BY DEF IInv, TypeOK
<1>3. (reporting <=> triggered # {}) /\ OneReport(timers, reporting)
  BY <1>1, <1>2, ReportsBefore
<1>4. PICK i \in 1 .. Len(timers) :
        /\ Due("report", i)
        /\ timers' = Append(KeepAt(timers, DOMAIN timers \ {i}),
                            [timers[i] EXCEPT !.left = ReportInterval])
        /\ UNCHANGED <<reporting, triggered>>
  BY <1>1 DEF SendMeasurementReport
<1>5. timers[i].kind = "report"
  BY <1>4 DEF Due
<1>6. PICK o \in Timers : o = timers[i]
  BY <1>1
<1>7. PICK u : u = [o EXCEPT !.left = ReportInterval]
  OBVIOUS
<1>8. u \in Timers /\ u.kind = "report"
  BY <1>5, <1>6, <1>7, DelaysAreTicks DEF Timers
<1>9. PICK P : P = DOMAIN timers \ {i}
  OBVIOUS
<1>10. P \in SUBSET (1 .. Len(timers)) /\ (\A j \in P : timers[j].kind # "report") /\ reporting
  BY <1>1, <1>2, <1>3, <1>5, <1>9 DEF OneReport
<1>11. KeepAt(timers, P) \in Seq(Timers) /\ OneReport(KeepAt(timers, P), FALSE)
  BY <1>1, <1>10, ReportStops
<1>12. timers' \in Seq(Timers) /\ OneReport(timers', TRUE)
  BY <1>4, <1>6, <1>7, <1>8, <1>9, <1>11, ReportScheduled
<1>13. reporting' = TRUE /\ triggered' # {}
  BY <1>2, <1>3, <1>4, <1>10
<1> QED
  BY <1>12, <1>13, ReportsAfter

(* Exactly one report is scheduled while there is a cell to report.        *)
THEOREM OneReportIsScheduled == ASSUME FixedDelays PROVE Spec => []OneReportRuns
<1>1. ASSUME Init PROVE OneReportRuns
  <2>1. reporting = FALSE /\ triggered = {} /\ Reports = {}
    BY <1>1 DEF Init, Reports
  <2> QED
    BY <2>1 DEF OneReportRuns
<1>2. ASSUME IInv, IInv', OneReportRuns, [Next]_vars PROVE OneReportRuns'
  <2>1. timers \in Seq(Timers) /\ timers' \in Seq(Timers) /\ reporting \in BOOLEAN
    BY <1>2 DEF IInv, TypeOK
  <2>2. CASE VarMeasReportListClear \/ \E c \in Cells : Reconnect(c)
    <3>1. Len(timers') = 0 /\ reporting' = FALSE /\ triggered' = {}
      <4>1. CASE VarMeasReportListClear
        BY <1>2, <4>1, ClearStopsAll
      <4>2. ASSUME NEW c \in Cells, Reconnect(c)
            PROVE  Len(timers') = 0 /\ reporting' = FALSE /\ triggered' = {}
        BY <1>2, <4>2, ReconnectStopsAll
      <4> QED
        BY <2>2, <4>1, <4>2
    <3>2. OneReport(timers', FALSE)
      BY <2>1, <3>1 DEF OneReport
    <3> QED
      BY <2>1, <3>1, <3>2, ReportsAfter
  <2>3. CASE Measure \/ UNCHANGED vars
    <3>1. timers' = timers /\ reporting' = reporting /\ triggered' = triggered
      BY <2>3 DEF Measure, vars
    <3> QED
      BY <1>2, <3>1 DEF OneReportRuns, Reports
  <2>4. CASE Tick
    <3>1. /\ DOMAIN timers' = DOMAIN timers
          /\ reporting' = reporting /\ triggered' = triggered
      BY <2>4 DEF Tick
    <3>2. ASSUME NEW i \in DOMAIN timers PROVE timers'[i].kind = timers[i].kind
      <4>1. PICK o \in Timers : o = timers[i]
        BY <2>1
      <4>2. timers'[i] = [o EXCEPT !.left = @ - 1]
        BY <2>4, <4>1 DEF Tick
      <4> QED
        BY <4>1, <4>2 DEF Timers
    <3>3. Reports' = Reports
      BY <3>1, <3>2 DEF Reports
    <3> QED
      BY <1>2, <3>1, <3>3 DEF OneReportRuns
  <2>5. ASSUME NEW c \in Cells,
               (\E d \in Delays[c] : CellEnters(c, d)) \/ CellStays(c) \/ CellLeaves(c)
        PROVE  OneReportRuns'
    BY <1>2, <2>5, EvaluationKeepsReport
  <2>6. CASE VarMeasReportListAdd
    BY <1>2, <2>6, AddKeepsReport
  <2>7. CASE VarMeasReportListErase
    <3>1. NoAssertFails'
      BY <1>2 DEF IInv
    <3> QED
      BY <1>2, <2>7, <3>1, EraseKeepsReport
  <2>8. CASE SendMeasurementReport
    BY <1>2, <2>8, SendKeepsReport
  <2>9. CASE \/ \E c \in Cells : HandoverCommand(c)
             \/ Reconfiguration \/ HandoverEnd \/ LeaveConnectedMode
    BY <2>2, <2>9 DEF HandoverCommand, Reconfiguration, HandoverEnd, LeaveConnectedMode
  <2> QED
    BY <1>2, <2>2, <2>3, <2>4, <2>5, <2>6, <2>7, <2>8, <2>9, Zenon DEF Next
<1> QED
  BY <1>1, <1>2, TriggerInvariance, PTL DEF Spec

(* No timer fires into a report list that is gone, and no report is sent   *)
(* without a connection: the assertions of VarMeasReportListErase and      *)
(* SendMeasurementReport hold.                                             *)
THEOREM TriggerNeverAsserts == ASSUME FixedDelays PROVE Spec => []NoAssertFails
<1>1. IInv => NoAssertFails
  BY DEF IInv
<1> QED
  BY <1>1, TriggerInvariance, PTL

(* MeasurementReportTriggering can cancel every trigger that is pending,   *)
(* and no queue names a timer that has gone.                               *)
THEOREM QueuesTrackTimers == ASSUME FixedDelays PROVE Spec => []QueuesNameTimers
<1>1. ASSUME IInv PROVE QueuesNameTimers
  <2>1. /\ DOMAIN timers = 1 .. Len(timers) /\ DOMAIN entering = 1 .. Len(entering)
        /\ DOMAIN leaving = 1 .. Len(leaving)
        /\ Mirrors("enter", timers, entering) /\ Mirrors("leave", timers, leaving)
    BY <1>1, Known
  <2>2. ASSUME NEW k, NEW q, DOMAIN q = 1 .. Len(q), Mirrors(k, timers, q)
        PROVE  IdsOf(q) = RunningIds(k)
    <3>1. \A a \in DOMAIN q : \E i \in DOMAIN timers : timers[i].kind = k /\ timers[i].id = q[a].id
      BY <2>1, <2>2 DEF Mirrors
    <3>2. \A i \in DOMAIN timers : timers[i].kind = k => \E a \in DOMAIN q : q[a].id = timers[i].id
      BY <2>1, <2>2 DEF Mirrors
    <3> QED
      BY <3>1, <3>2 DEF IdsOf, RunningIds
  <2> QED
    BY <2>1, <2>2 DEF QueuesNameTimers
<1> QED
  BY <1>1, TriggerInvariance, PTL

(* A cell whose trigger is pending has met the entry condition ever since. *)
THEOREM PendingCellsStillEnter == ASSUME FixedDelays PROVE Spec => []PendingStillEnters
<1>1. ASSUME IInv PROVE PendingStillEnters
  <2>1. DOMAIN timers = 1 .. Len(timers)
    BY <1>1, Known
  <2>2. \A i \in 1 .. Len(timers) : EnterOK(timers[i])
    BY <1>1 DEF IInv, TimersOK
  <2> QED
    BY <2>1, <2>2 DEF PendingStillEnters, EnterOK
<1> QED
  BY <1>1, TriggerInvariance, PTL

(* A neighbour that keeps meeting the condition is in the list once its    *)
(* time to trigger is over.                                                *)
THEOREM TriggersComeInTime == ASSUME FixedDelays PROVE Spec => []TriggerPrompt
<1>1. ASSUME IInv PROVE TriggerPrompt
  <2> SUFFICES ASSUME NEW c \in Cells, since[c] >= 0, \A d \in Delays[c] : since[c] > d,
                      ~hasTriggered(c)
               PROVE  FALSE
    BY DEF TriggerPrompt
  <2>1. PICK i \in 1 .. Len(timers) : DueInTime(c, timers[i])
    BY <1>1 DEF IInv, Awaited
  <2>2. PICK d \in Delays[c] : timers[i].left + since[c] <= d
    BY <2>1 DEF DueInTime
  <2>3. timers[i].left \in Nat /\ since[c] \in Int /\ d \in Nat /\ since[c] > d
    <3>1. (\A j \in 1 .. Len(timers) : timers[j].left \in Nat) /\ Delays[c] \subseteq Nat /\ since[c] \in Int
      BY <1>1, Known
    <3> QED
      BY <3>1
  <2> QED
    BY <2>2, <2>3
<1> QED
  BY <1>1, TriggerInvariance, PTL

(* A cell gets into the list only after it has met the entry condition for *)
(* its whole time to trigger.                                              *)
THEOREM TriggersAreSustained == ASSUME FixedDelays PROVE Spec => TriggerSustained
<1>1. ASSUME IInv, [Next]_vars
      PROVE  [\A c \in triggered' \ triggered : \E d \in Delays[c] : since[c] >= d]_vars
  <2> SUFFICES ASSUME NEW c \in triggered' \ triggered
               PROVE  \E d \in Delays[c] : since[c] >= d
    OBVIOUS
  <2>1. VarMeasReportListAdd
    <3>1. triggered' \subseteq triggered \/ VarMeasReportListAdd
      BY <1>1 DEF Next, vars, Measure, CellEnters, CellStays, CellLeaves, Evaluating, HandoverCommand,
        Reconnect, VarMeasReportListErase, SendMeasurementReport, Reconfiguration, HandoverEnd,
        LeaveConnectedMode,
        VarMeasReportListClear, Tick
    <3> QED
      BY <3>1
  <2>2. PICK i \in DOMAIN timers : Due("enter", i) /\ triggered' = triggered \cup {timers[i].cell}
    BY <2>1 DEF VarMeasReportListAdd
  <2>3. i \in 1 .. Len(timers) /\ c = timers[i].cell
    <3>1. DOMAIN timers = 1 .. Len(timers)
      BY <1>1, Known
    <3> QED
      BY <2>2, <3>1
  <2>4. EnterOK(timers[i]) /\ timers[i].kind = "enter" /\ timers[i].left = 0
    BY <1>1, <2>2, <2>3 DEF IInv, TimersOK, Due
  <2>5. PICK d \in Delays[c] : 0 + since[c] >= d
    BY <2>3, <2>4 DEF EnterOK
  <2>6. since[c] \in Int /\ d \in Nat
    <3>1. (\A j \in 1 .. Len(timers) : timers[j].cell \in Cells)
          /\ (\A e \in Cells : since[e] \in Int /\ Delays[e] \subseteq Nat)
      BY <1>1, Known
    <3> QED
      BY <2>3, <3>1
  <2> QED
    BY <2>5, <2>6
<1> QED
  BY <1>1, TriggerInvariance, PTL DEF Spec, TriggerSustained
==============================================================================
