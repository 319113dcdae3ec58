------------------------- MODULE X2FastLinks_proofs --------------------------
(***************************************************************************)
(* With a good radio, and X2 links that deliver before a timer runs out, a *)
(* random access ends or a measurement comes in, no NS_ASSERT and no       *)
(* NS_FATAL_ERROR of the handover handlers fails, for any number of cells  *)
(* and whatever handovers the targets refuse.                              *)
(*                                                                         *)
(* At any time at most two contexts exist: one that hands the UE over and  *)
(* one that takes it.  A new handover starts on empty links, so that the   *)
(* release of the last one has removed its source by then.                 *)
(***************************************************************************)
EXTENDS X2Handover_proofs

(* The simulations this is about.                                          *)
Fast == GoodRadio /\ "slow" \notin faults

(* The context exists.                                                     *)
Present(k) == ueMap[k].state # "ABSENT"
(* The UE is there, and no handover is going on from there.                *)
Settled(k) == ueMap[k].state \in {"CONNECTED_NORMALLY", "CONNECTION_RECONFIGURATION"}
(* The UE is expected, arriving or there: forwarded packets are accepted.  *)
Takes(k) ==
  /\ Settled(k) \/ ueMap[k].state \in {"HANDOVER_JOINING", "HANDOVER_PATH_SWITCH"}
  /\ ueMap[k].x2u
(* The release of context k is on its way.                                 *)
Releasing(k) ==
  \E l \in Links : \E i \in 1 .. Len(x2[l]) : x2[l][i].kind = "release" /\ x2[l][i].old = k
(* Context k hands the UE over to context j.                               *)
Hands(k, j) ==
  \/ ueMap[k].state = "HANDOVER_PREPARATION" /\ ueMap[j].state = "HANDOVER_JOINING" /\ Joined(j, k)
  \/ ueMap[k].state = "HANDOVER_LEAVING" /\ (Joined(j, k) \/ (Settled(j) /\ Releasing(k)))

(* Two contexts are the two ends of one handover.                          *)
OnePair == \A j, k \in Keys : Present(j) /\ Present(k) /\ j # k => Hands(k, j) \/ Hands(j, k)
(* What a context forwards is taken at its target.                         *)
Forwards ==
  \A k \in Keys : ueMap[k].state = "HANDOVER_LEAVING" =>
    \E j \in Keys : j[1] = ueMap[k].target /\ Takes(j)
(* The UE never attaches anew: all contexts have its first tunnel, and     *)
(* none is in a state of a connection establishment.                       *)
FirstTunnel ==
  \A k \in Keys : Present(k) =>
    /\ ueMap[k].state \in Serving \cup {"HANDOVER_JOINING", "HANDOVER_LEAVING"}
    /\ ueMap[k].teid = Home
    /\ ueMap[k].state \in {"HANDOVER_JOINING", "HANDOVER_PATH_SWITCH"} => ueMap[k].x2u
(* The core switches the path of contexts that wait for it.                *)
SwitchesAwaited ==
  \A r \in s1 : r.kind = "pathSwitch" /\ ueMap[r.key].state = "HANDOVER_PATH_SWITCH"
(* The UE keeps its connection, and where it goes it is expected.          *)
UeExpected ==
  /\ ue.state \in {"normal", "handover"}
  /\ ue.state = "handover" => ueMap[ue.key].state = "HANDOVER_JOINING"
  /\ \A i \in 1 .. Len(air) :
       /\ air[i].kind \in {"command", "reconfiguration", "completed"}
       /\ air[i].kind = "command" => ueMap[air[i].new].state = "HANDOVER_JOINING"
       /\ air[i].kind = "completed" => ueMap[air[i].to].state # "ABSENT"
(* What message m on link l meets.                                         *)
Expected(l, m) ==
  /\ m.kind # "cancel"
  /\ m.kind \in {"request", "ack", "failure"} => ueMap[m.old].state = "HANDOVER_PREPARATION"
  /\ m.kind = "request" => ueMap[m.old].target = l[2] /\ m.teid = Home
  /\ m.kind \in {"ack", "failure"} => ueMap[m.old].target = l[1]
  /\ m.kind = "ack" => ueMap[m.new].state = "HANDOVER_JOINING"
  /\ m.kind = "snStatus" => m.new \in Keys /\ Takes(m.new)
  /\ m.kind = "release" => ueMap[m.old].state = "HANDOVER_LEAVING"
  /\ m.kind = "data" => m.teid = Home /\ \E j \in Keys : j[1] = l[2] /\ Takes(j)
(* ... for every message on every link.                                    *)
AllExpected == \A l \in Links : \A i \in 1 .. Len(x2[l]) : Expected(l, x2[l][i])

(* The inductive invariant, on top of IInv.                                *)
Calm ==
  /\ ~aborted /\ OnePair /\ Forwards /\ FirstTunnel /\ SwitchesAwaited /\ UeExpected
  /\ AllExpected
FInv == Fast => Calm
----------------------------------------------------------------------------
(* What a change of one context, and of the links, does to each part.      *)

(* A release on its way stays so until it is taken off its link.           *)
LEMMA ReleasingFollows ==
  ASSUME X2OK, NEW r, NEW s, NEW m, Kept(r, s, m), NEW j, Releasing(j),
         r \in Links => ~(x2[r][1].kind = "release" /\ x2[r][1].old = j)
  PROVE  Releasing(j)'
<1>1. PICK l \in Links :
        \E i \in 1 .. Len(x2[l]) : x2[l][i].kind = "release" /\ x2[l][i].old = j
  BY DEF Releasing
<1> PICK i \in 1 .. Len(x2[l]) : x2[l][i].kind = "release" /\ x2[l][i].old = j
  BY <1>1
<1>2. ~(l = r /\ i = 1)
  OBVIOUS
<1>3. PICK a \in 1 .. Len(x2'[l]) : x2'[l][a] = x2[l][i]
  BY <1>2 DEF Kept
<1> QED
  BY <1>3 DEF Releasing

(* The contexts remain two ends of one handover if the changed one does.   *)
LEMMA PairFollows ==
  ASSUME OnePair, NEW k \in Keys, ChangesAlone(k),
         \A j \in Keys : j # k /\ Releasing(j) => Releasing(j)',
         \A j \in Keys : j # k /\ Present(j) /\ Present(k)' => Hands(k, j)' \/ Hands(j, k)'
  PROVE  OnePair'
<1>1. ASSUME NEW i \in Keys, NEW j \in Keys, i # k, j # k, Hands(i, j) PROVE Hands(i, j)'
  <2>1. ueMap'[i] = ueMap[i] /\ ueMap'[j] = ueMap[j] /\ (Releasing(i) => Releasing(i)')
    BY <1>1 DEF ChangesAlone
  <2> QED
    BY <1>1, <2>1 DEF Hands, Joined, Settled
<1>2. \A j \in Keys : j # k => (Present(j)' <=> Present(j))
  BY DEF ChangesAlone, Present
<1> SUFFICES ASSUME NEW i \in Keys, NEW j \in Keys, Present(i)', Present(j)', i # j
             PROVE  Hands(j, i)' \/ Hands(i, j)'
  BY DEF OnePair
<1>3. CASE i = k
  BY <1>2, <1>3
<1>4. CASE j = k
  BY <1>2, <1>4
<1>5. CASE i # k /\ j # k
  <2>1. Hands(j, i) \/ Hands(i, j)
    BY <1>2, <1>5 DEF OnePair
  <2> QED
    BY <1>1, <1>5, <2>1
<1> QED
  BY <1>3, <1>4, <1>5

(* Packets are still taken where they are forwarded to.                    *)
LEMMA ForwardsFollow ==
  ASSUME Forwards, NEW k \in Keys, ChangesAlone(k), Takes(k) => Takes(k)',
         ueMap'[k].state = "HANDOVER_LEAVING" =>
           \E j \in Keys : j[1] = ueMap'[k].target /\ (Takes(j) \/ Takes(j)')
  PROVE  Forwards'
<1>1. \A j \in Keys : Takes(j) => Takes(j)'
  BY DEF ChangesAlone, Takes, Settled
<1> SUFFICES ASSUME NEW i \in Keys, ueMap'[i].state = "HANDOVER_LEAVING"
             PROVE  \E j \in Keys : j[1] = ueMap'[i].target /\ Takes(j)'
  BY DEF Forwards
<1>2. CASE i = k
  BY <1>1, <1>2
<1>3. CASE i # k
  <2>1. ueMap'[i] = ueMap[i]
    BY <1>3 DEF ChangesAlone
  <2> QED
    BY <1>1, <2>1 DEF Forwards
<1> QED
  BY <1>2, <1>3

(* The tunnel stays the first one if the changed context has it.           *)
LEMMA TunnelFollows ==
  ASSUME FirstTunnel, NEW k \in Keys, ChangesAlone(k),
         Present(k)' =>
           /\ ueMap'[k].state \in Serving \cup {"HANDOVER_JOINING", "HANDOVER_LEAVING"}
           /\ ueMap'[k].teid = Home
           /\ ueMap'[k].state \in {"HANDOVER_JOINING", "HANDOVER_PATH_SWITCH"} => ueMap'[k].x2u
  PROVE  FirstTunnel'
BY DEF FirstTunnel, ChangesAlone, Present

(* What waits for the core goes on waiting.                                *)
LEMMA SwitchesFollow ==
  ASSUME TypeOK, SwitchesAwaited, NEW k \in Keys, ChangesAlone(k), s1' \subseteq s1,
         ueMap[k].state = "HANDOVER_PATH_SWITCH" =>
           \/ ueMap'[k].state = "HANDOVER_PATH_SWITCH"
           \/ \A r \in s1' : r.key # k
  PROVE  SwitchesAwaited'
<1>1. \A r \in s1' : r \in s1 /\ r.key \in Keys
  BY DEF TypeOK
<1> QED
  BY <1>1 DEF SwitchesAwaited, ChangesAlone

(* Nothing is said to the UE, and it is expected where it was.             *)
LEMMA QuietUeFollows ==
  ASSUME IInv, UeExpected, NEW k \in Keys, ChangesAlone(k), air = <<>>, UNCHANGED <<ue, air>>,
         ueMap[k].state = "HANDOVER_JOINING" => ueMap'[k].state = "HANDOVER_JOINING"
  PROVE  UeExpected'
<1>1. ue.state = "handover" => ue.key \in Keys
  BY DEF IInv, RntisKnown, Known
<1>2. Len(air') = 0
  OBVIOUS
<1> QED
  BY <1>1, <1>2 DEF UeExpected, ChangesAlone

(* The messages that stay meet what they met, and so does the new one.     *)
LEMMA ExpectedFollow ==
  ASSUME IInv, X2OK, AllExpected, NEW k \in Keys, ChangesAlone(k),
         NEW r, NEW s, NEW m, Moved(r, s, m), s \in Links => Expected(s, m)',
         Takes(k) => Takes(k)',
         \A l \in Links : \A i \in 1 .. Len(x2[l]) : \A n \in X2Messages :
           ~(l = r /\ i = 1) /\ n = x2[l][i] =>
             /\ n.kind \in Handshake /\ n.old = k =>
                  ueMap'[k].state = ueMap[k].state /\ ueMap'[k].target = ueMap[k].target
             /\ n.kind = "ack" /\ n.new = k => ueMap'[k].state = "HANDOVER_JOINING"
  PROVE  AllExpected'
<1>1. \A j \in Keys : Takes(j) => Takes(j)'
  BY DEF ChangesAlone, Takes, Settled
<1>2. ASSUME NEW l \in Links, NEW i \in 1 .. Len(x2[l]), NEW n \in X2Messages,
             ~(l = r /\ i = 1), n = x2[l][i]
      PROVE  Expected(l, n)'
  <2>1. Expected(l, n) /\ MessageOK(l, n)
    BY <1>2 DEF AllExpected, IInv, MessagesOK
  <2>2. n.kind \in Handshake => n.old \in Keys
    BY <2>1 DEF MessageOK, Known
  <2>3. n.kind = "ack" => n.new \in Keys
    BY <2>1 DEF MessageOK, Known
  <2>4. n.kind \in Handshake =>
          ueMap'[n.old].state = ueMap[n.old].state /\ ueMap'[n.old].target = ueMap[n.old].target
    BY <1>2, <2>2 DEF ChangesAlone
  <2>5. n.kind = "ack" => ueMap'[n.new].state = "HANDOVER_JOINING"
    BY <1>2, <2>1, <2>3 DEF ChangesAlone, Expected
  <2> QED
    BY <1>1, <2>1, <2>4, <2>5 DEF Expected, Handshake
<1> SUFFICES ASSUME NEW l \in Links, NEW i \in 1 .. Len(x2'[l]), NEW n, n = x2'[l][i]
             PROVE  Expected(l, n)'
  BY DEF AllExpected
<1>3. CASE l = s /\ i = Len(x2'[l]) /\ x2'[l][i] = m
  BY <1>3
<1>4. CASE Before(r, l, i) \in 1 .. Len(x2[l]) /\ x2'[l][i] = x2[l][Before(r, l, i)]
  <2>1. PICK a \in 1 .. Len(x2[l]) : a = Before(r, l, i)
    BY <1>4
  <2>2. ~(l = r /\ a = 1)
    BY <2>1 DEF Before
  <2>3. n = x2[l][a] /\ n \in X2Messages
    BY <1>4, <2>1 DEF X2OK
  <2> QED
    BY <1>2, <2>2, <2>3
<1> QED
  BY <1>3, <1>4 DEF Moved

(* A context that changes neither its part in a handover nor its tunnel.   *)
Steady(k) ==
  /\ ueMap'[k].target = ueMap[k].target /\ ueMap'[k].source = ueMap[k].source
  /\ ueMap'[k].teid = ueMap[k].teid /\ ueMap'[k].x2u = ueMap[k].x2u
  /\ ueMap'[k].state = ueMap[k].state \/ (Settled(k) /\ Settled(k)')

LEMMA SteadyFollows ==
  ASSUME IInv, Calm, NEW k \in Keys, ChangesAlone(k), Steady(k), UNCHANGED <<s1, aborted>>,
         NEW r, NEW s, NEW m, Moved(r, s, m), Kept(r, s, m), s \in Links => Expected(s, m)',
         r \in Links => x2[r][1].kind # "release", UeExpected'
  PROVE  Calm'
<1>1. X2OK /\ TypeOK
  BY DEF IInv, TypeOK, X2OK
<1>2. \A j \in Keys : Releasing(j) => Releasing(j)'
  BY <1>1, ReleasingFollows
<1>3. Takes(k) => Takes(k)'
  BY DEF Takes, Settled, Steady
<1>4. OnePair'
  <2>1. ASSUME NEW j \in Keys, j # k, Present(j), Present(k)'
        PROVE  Hands(k, j)' \/ Hands(j, k)'
    <3>1. Present(k)
      BY <2>1 DEF Present, Settled, Steady
    <3>2. Hands(k, j) \/ Hands(j, k)
      BY <2>1, <3>1 DEF Calm, OnePair
    <3>3. ueMap'[j] = ueMap[j]
      BY <2>1 DEF ChangesAlone
    <3>4. Hands(k, j) => Hands(k, j)'
      BY <1>2, <3>3 DEF Hands, Joined, Settled, Steady
    <3>5. Hands(j, k) => Hands(j, k)'
      BY <1>2, <3>3 DEF Hands, Joined, Settled, Steady
    <3> QED
      BY <3>2, <3>4, <3>5
  <2> QED
    BY <1>2, <2>1, PairFollows DEF Calm
<1>5. Forwards'
  <2>1. ueMap'[k].state = "HANDOVER_LEAVING" =>
          \E j \in Keys : j[1] = ueMap'[k].target /\ Takes(j)
    BY DEF Calm, Forwards, Settled, Steady
  <2> QED
    BY <1>3, <2>1, ForwardsFollow DEF Calm
<1>6. FirstTunnel'
  <2>1. Present(k) => /\ ueMap[k].state \in Serving \cup {"HANDOVER_JOINING", "HANDOVER_LEAVING"}
                      /\ ueMap[k].teid = Home
                      /\ ueMap[k].state \in {"HANDOVER_JOINING", "HANDOVER_PATH_SWITCH"} =>
                           ueMap[k].x2u
    BY DEF Calm, FirstTunnel
  <2>2. Settled(k)' => ueMap'[k].state \in Serving
    BY DEF Settled, Serving
  <2> QED
    BY <2>1, <2>2, TunnelFollows DEF Calm, Present, Settled, Steady
<1>7. SwitchesAwaited'
  BY <1>1, SwitchesFollow DEF Calm, Settled, Steady
<1>8. AllExpected'
  <2>1. ASSUME NEW l \in Links, NEW i \in 1 .. Len(x2[l]), NEW n \in X2Messages, n = x2[l][i]
        PROVE  /\ n.kind \in Handshake /\ n.old = k =>
                    ueMap'[k].state = ueMap[k].state /\ ueMap'[k].target = ueMap[k].target
               /\ n.kind = "ack" /\ n.new = k => ueMap'[k].state = "HANDOVER_JOINING"
    <3>1. Expected(l, n)
      BY <2>1 DEF Calm, AllExpected
    <3> QED
      BY <3>1 DEF Expected, Handshake, Settled, Steady
  <2> QED
    BY <1>1, <1>3, <2>1, ExpectedFollow DEF Calm
<1> QED
  BY <1>4, <1>5, <1>6, <1>7, <1>8 DEF Calm
----------------------------------------------------------------------------
(* Nothing aborts.                                                         *)

(* The UE accepts what it is told, and the eNB its answer.                 *)
LEMMA AirIsAccepted ==
  ASSUME IInv, Fast, Calm, air # <<>>
  PROVE  AirAccepted(Head(air))
<1>1. PICK m : m = Head(air)
  OBVIOUS
<1>2. m \in AirMessages /\ air = <<m>> /\ WhenDue(m)
  BY <1>1, DueMessage
<1>3. /\ m.kind \in {"command", "reconfiguration", "completed"}
      /\ m.kind = "completed" => ueMap[m.to].state # "ABSENT"
  <2>1. 1 \in 1 .. Len(air) /\ air[1] = m
    BY <1>2
  <2> QED
    BY <2>1 DEF Calm, UeExpected
<1>4. CASE m.kind \in {"command", "reconfiguration"}
  BY <1>1, <1>2, <1>4 DEF AirAccepted, WhenDue, Attached
<1>5. CASE m.kind = "completed"
  <2>1. m.to \in Keys
    BY <1>2, <1>5, UeParts DEF WhenDue, Attached
  <2>2. ueMap[m.to].state \in {"CONNECTION_RECONFIGURATION", "HANDOVER_JOINING"}
    BY <1>2, <1>3, <1>5 DEF WhenDue, Awaited
  <2> QED
    BY <1>1, <1>5, <2>1, <2>2 DEF AirAccepted, InState, HasUeManager
<1> QED
  BY <1>3, <1>4, <1>5

(* A request meets no context of the UE in the target's cell: the only one *)
(* there is, beside the one that asks, would be joining for it.            *)
LEMMA RequestMeetsNone ==
  ASSUME IInv, Calm, NEW l \in Links, NEW m \in X2Messages, MessageOK(l, m), Expected(l, m),
         m.kind = "request"
  PROVE  \A j \in Keys : Present(j) => j = m.old
<1>1. /\ m.old \in Keys /\ NobodyJoins(m.old) /\ ueMap[m.old].state = "HANDOVER_PREPARATION"
  BY DEF MessageOK, Expected, Handshake, Known
<1> SUFFICES ASSUME NEW j \in Keys, Present(j), j # m.old PROVE FALSE
  OBVIOUS
<1>2. Hands(m.old, j) \/ Hands(j, m.old)
  BY <1>1 DEF Calm, OnePair, Present
<1>3. ~Hands(m.old, j)
  BY <1>1 DEF Hands, NobodyJoins
<1>4. ~Hands(j, m.old)
  BY <1>1 DEF Hands, Joined, Settled
<1> QED
  BY <1>2, <1>3, <1>4

(* Every message over X2 is accepted.                                      *)
LEMMA X2IsAccepted ==
  ASSUME IInv, Fast, Calm, NEW l \in Links, x2[l] # <<>>
  PROVE  X2Accepted(l, Head(x2[l]))
<1>1. PICK m : m = Head(x2[l])
  OBVIOUS
<1>2. m \in X2Messages /\ MessageOK(l, m) /\ Expected(l, m)
  BY <1>1, FirstMessage DEF Calm, AllExpected
<1>3. m.kind \in Handshake => m.old \in Keys
  BY <1>2 DEF MessageOK, Known
<1>4. ASSUME NEW j \in Keys, Takes(j), j[1] = l[2] PROVE j \in X2uTeidInfo(l[2], Home)
  <2>1. Present(j)
    BY <1>4 DEF Takes, Settled, Present
  <2> QED
    BY <1>4, <2>1 DEF X2uTeidInfo, Calm, FirstTunnel, Takes
<1>5. CASE m.kind = "request"
  <2>1. m.old[1] # l[2]
    BY <1>2, <1>5, LinkParts DEF MessageOK
  <2>2. \A j \in Keys : Present(j) => j = m.old
    BY <1>2, <1>5, RequestMeetsNone
  <2>3. \A j \in Keys : ueMap[j].x2u => Present(j)
    BY DEF IInv, ContextsOK, Present, Serving
  <2>4. X2uTeidInfo(l[2], m.teid) = {}
    BY <2>1, <2>2, <2>3 DEF X2uTeidInfo
  <2> QED
    BY <1>1, <1>5, <2>4 DEF X2Accepted
<1>6. CASE m.kind = "ack"
  BY <1>1, <1>2, <1>3, <1>6 DEF X2Accepted, Expected, HasUeManager, Handshake
<1>7. CASE m.kind = "failure"
  BY <1>1, <1>2, <1>3, <1>7 DEF X2Accepted, Expected, InState, HasUeManager, Handshake
<1>8. CASE m.kind = "snStatus"
  BY <1>1, <1>2, <1>8 DEF X2Accepted, Expected, HasUeManager, Takes, Settled
<1>9. CASE m.kind = "release"
  BY <1>1, <1>2, <1>3, <1>9 DEF X2Accepted, Expected, InState, HasUeManager, Handshake
<1>10. CASE m.kind = "data"
  <2>1. X2uTeidInfo(l[2], m.teid) # {}
    BY <1>2, <1>4, <1>10 DEF Expected
  <2> QED
    BY <1>1, <1>10, <2>1 DEF X2Accepted
<1>11. m.kind # "cancel"
  BY <1>2 DEF Expected
<1>12. m.kind \in {"request", "ack", "failure", "snStatus", "release", "cancel", "data"}
  BY <1>2 DEF X2Messages
<1> QED
  BY <1>5, <1>6, <1>7, <1>8, <1>9, <1>10, <1>11, <1>12

(* No assertion can fail.                                                  *)
LEMMA NothingAborts ==
  ASSUME IInv, Fast, Calm
  PROVE  ~Abort
<1>1. \A r \in s1 : S1Accepted(r)
  <2>1. \A r \in s1 : r.key \in Keys
    BY DEF IInv, TypeOK
  <2> QED
    BY <2>1 DEF Calm, SwitchesAwaited, S1Accepted, InState, HasUeManager
<1> QED
  BY <1>1, AirIsAccepted, X2IsAccepted DEF Abort
----------------------------------------------------------------------------
(* What the UE does.                                                       *)

(* A step of the UE that changes nothing in the network.                   *)
LEMMA UeStepCalm ==
  ASSUME IInv, Calm, UNCHANGED <<ueMap, x2, s1, aborted>>, UeExpected'
  PROVE  Calm'
<1>1. PICK k \in Keys : k = peer
  BY UeParts
<1>2. ChangesAlone(k) /\ Steady(k)
  BY DEF ChangesAlone, Steady
<1>3. X2OK
  BY DEF IInv, TypeOK, X2OK
<1>4. PICK m \in {"none"} : Moved(NoLink, NoLink, m) /\ Kept(NoLink, NoLink, m)
  BY <1>3, StaysMoves
<1> QED
  BY <1>2, <1>4, LinkParts, SteadyFollows

(* The command names a context that waits for the UE.                      *)
LEMMA CommandCalm ==
  ASSUME IInv, Fast, Calm, RecvHandoverCommand
  PROVE  Calm'
<1>1. PICK m : m = Head(air)
  OBVIOUS
<1>2. air # <<>> /\ m.kind = "command"
  BY <1>1 DEF RecvHandoverCommand, AirHead
<1>3. air = <<m>> /\ Tail(air) = <<>>
  BY <1>1, <1>2, DueMessage
<1>4. ueMap[m.new].state = "HANDOVER_JOINING"
  <2>1. 1 \in 1 .. Len(air) /\ air[1] = m
    BY <1>3
  <2> QED
    BY <1>2, <2>1 DEF Calm, UeExpected
<1>5. ue'.state = "handover" /\ ue'.key = m.new /\ Len(air') = 0
  BY <1>1, <1>3, UeParts DEF RecvHandoverCommand
<1>6. UNCHANGED <<ueMap, x2, s1, aborted>>
  BY DEF RecvHandoverCommand
<1>7. UeExpected'
  BY <1>4, <1>5, <1>6 DEF UeExpected
<1> QED
  BY <1>6, <1>7, UeStepCalm

(* The answer to one message, or to a successful random access.            *)
LEMMA AnswerExpected ==
  ASSUME NEW k \in Keys, ueMap'[k].state # "ABSENT", air' = <<ToEnb("completed", k)>>,
         ue'.state = "normal"
  PROVE  UeExpected'
<1>1. PICK m \in AirMessages : m = ToEnb("completed", k) /\ m.kind = "completed" /\ m.to = k
  BY AirTyped DEF AirKinds
<1>2. \A i \in 1 .. Len(air') : air'[i] = m
  BY <1>1
<1> QED
  BY <1>1, <1>2 DEF UeExpected

(* A reconfiguration is answered by the UE to the context that sent it.    *)
LEMMA ReconfigurationCalm ==
  ASSUME IInv, Fast, Calm, RecvReconfiguration
  PROVE  Calm'
<1>1. PICK m : m = Head(air)
  OBVIOUS
<1>2. air # <<>> /\ m.kind = "reconfiguration"
  BY <1>1 DEF RecvReconfiguration, AirHead
<1>3. air = <<m>> /\ Tail(air) = <<>> /\ WhenDue(m)
  BY <1>1, <1>2, DueMessage
<1>4. /\ ue.state = "normal" /\ ue.key = peer
      /\ ueMap[ue.key].state = "CONNECTION_RECONFIGURATION"
  BY <1>2, <1>3 DEF WhenDue, Attached
<1>5. PICK k \in Keys : k = ue.key
  BY <1>4, UeParts
<1>6. UNCHANGED <<ueMap, x2, s1, aborted, ue>>
  BY DEF RecvReconfiguration
<1>7. air' = <<ToEnb("completed", k)>>
  BY <1>3, <1>5 DEF RecvReconfiguration
<1>8. UeExpected'
  BY <1>4, <1>5, <1>6, <1>7, AnswerExpected
<1> QED
  BY <1>6, <1>8, UeStepCalm

(* The random access ends at a context that waits for the UE.              *)
LEMMA AccessCalm ==
  ASSUME IInv, Fast, Calm, RandomAccessSuccessful
  PROVE  Calm'
<1>1. air = <<>> /\ ue.state = "handover"
  BY DEF RandomAccessSuccessful, Quiet
<1>2. PICK k \in Keys : k = ue.key
  BY <1>1 DEF IInv, RntisKnown, Known
<1>3. ueMap[k].state = "HANDOVER_JOINING"
  BY <1>1, <1>2 DEF Calm, UeExpected
<1>4. UNCHANGED <<ueMap, x2, s1, aborted>> /\ ue'.state = "normal"
  BY UeParts DEF RandomAccessSuccessful
<1>5. air' = <<ToEnb("completed", k)>>
  BY <1>1, <1>2 DEF RandomAccessSuccessful
<1>6. UeExpected'
  BY <1>3, <1>4, <1>5, AnswerExpected
<1> QED
  BY <1>4, <1>6, UeStepCalm
----------------------------------------------------------------------------
(* What the eNBs do.                                                       *)

(* A context that changes its part in a handover: all parts together.      *)
LEMMA CalmFollows ==
  ASSUME IInv, Calm, NEW k \in Keys, ChangesAlone(k), aborted' = aborted, SwitchesAwaited',
         UeExpected', NEW r, NEW s, NEW m, Moved(r, s, m), Kept(r, s, m),
         s \in Links => Expected(s, m)', Takes(k) => Takes(k)',
         r \in Links /\ x2[r][1].kind = "release" => x2[r][1].old = k,
         \A j \in Keys : j # k /\ Present(j) /\ Present(k)' => Hands(k, j)' \/ Hands(j, k)',
         ueMap'[k].state = "HANDOVER_LEAVING" =>
           \E j \in Keys : j[1] = ueMap'[k].target /\ (Takes(j) \/ Takes(j)'),
         Present(k)' =>
           /\ ueMap'[k].state \in Serving \cup {"HANDOVER_JOINING", "HANDOVER_LEAVING"}
           /\ ueMap'[k].teid = Home
           /\ ueMap'[k].state \in {"HANDOVER_JOINING", "HANDOVER_PATH_SWITCH"} => ueMap'[k].x2u,
         \A l \in Links : \A i \in 1 .. Len(x2[l]) : \A n \in X2Messages :
           ~(l = r /\ i = 1) /\ n = x2[l][i] =>
             /\ n.kind \in Handshake /\ n.old = k =>
                  ueMap'[k].state = ueMap[k].state /\ ueMap'[k].target = ueMap[k].target
             /\ n.kind = "ack" /\ n.new = k => ueMap'[k].state = "HANDOVER_JOINING"
  PROVE  Calm'
<1>1. X2OK
  BY DEF IInv, TypeOK, X2OK
<1>2. \A j \in Keys : j # k /\ Releasing(j) => Releasing(j)'
  BY <1>1, ReleasingFollows
<1>3. OnePair'
  BY <1>2, PairFollows DEF Calm
<1>4. Forwards'
  BY ForwardsFollow DEF Calm
<1>5. FirstTunnel'
  BY TunnelFollows DEF Calm
<1>6. AllExpected'
  BY <1>1, ExpectedFollow DEF Calm
<1> QED
  BY <1>3, <1>4, <1>5, <1>6 DEF Calm

(* The status transfer of a handover.                                      *)
LEMMA SnStatusCalm ==
  ASSUME IInv, Fast, Calm, NEW l \in Links, RecvSnStatusTransfer(l)
  PROVE  Calm'
<1>1. /\ air = <<>> /\ x2[l] # <<>> /\ Head(x2[l]).kind = "snStatus" /\ x2' = Received(l)
      /\ UNCHANGED <<ueMap, ue, air, s1, aborted>>
  BY DEF RecvSnStatusTransfer, X2Head, Quiet
<1>2. PICK k \in Keys : k = peer
  BY UeParts
<1>3. ChangesAlone(k) /\ Steady(k) /\ ueMap' = ueMap
  BY <1>1 DEF ChangesAlone, Steady
<1>4. X2OK
  BY DEF IInv, TypeOK, X2OK
<1>5. PICK m \in {"none"} : Moved(l, NoLink, m) /\ Kept(l, NoLink, m)
  BY <1>1, <1>4, ReceivedMoves
<1>6. x2[l][1].kind # "release"
  BY <1>1, FirstMessage
<1>7. UeExpected'
  BY <1>1, <1>3, QuietUeFollows DEF Calm
<1> QED
  BY <1>1, <1>3, <1>5, <1>6, <1>7, LinkParts, SteadyFollows

(* UeManager::SendData, with a packet from link r or from the core.        *)
LEMMA DataCalm ==
  ASSUME IInv, Fast, Calm, NEW k \in Keys, NEW p \in 1 .. MaxData, NEW q, SendData(k, p, q),
         air = <<>>, UNCHANGED <<ue, air, s1, aborted>>,
         NEW r, r \in Links => x2[r][1].kind = "data",
         \A s : \A m \in X2Messages :
           /\ s = <<k[1], ueMap[k].target>> /\ s \in Links
           /\ x2' = Sent(q, k[1], ueMap[k].target, m)
           => Moved(r, s, m) /\ Kept(r, s, m),
         \A m : x2' = q => Moved(r, NoLink, m) /\ Kept(r, NoLink, m)
  PROVE  Calm'
<1>1. ueMap \in [Keys -> Contexts] /\ ueMap[k] \in Contexts
  BY DEF IInv, TypeOK
<1>2. ChangesAlone(k) /\ Steady(k) /\ ueMap'[k].state = ueMap[k].state
  <2>1. CASE ueMap[k].state # "HANDOVER_JOINING"
    <3>1. ueMap' = ueMap
      BY <2>1 DEF SendData
    <3> QED
      BY <3>1 DEF ChangesAlone, Steady
  <2>2. CASE ueMap[k].state = "HANDOVER_JOINING"
    <3>1. PICK x : x = [ueMap[k] EXCEPT !.buffer = ueMap[k].buffer \cup {p}]
      OBVIOUS
    <3>2. /\ x \in Contexts /\ x.state = ueMap[k].state /\ x.source = ueMap[k].source
          /\ x.target = ueMap[k].target /\ x.x2u = ueMap[k].x2u /\ x.teid = ueMap[k].teid
      BY <1>1, <3>1, ContextParts DEF Contexts
    <3>3. ueMap' = [ueMap EXCEPT ![k] = x]
      BY <1>1, <2>2, <3>1 DEF SendData
    <3>4. ChangesAlone(k) /\ ueMap'[k] = x
      BY <3>2, <3>3, ContextChanges DEF IInv
    <3> QED
      BY <3>2, <3>4 DEF Steady
  <2> QED
    BY <2>1, <2>2
<1>3. UeExpected'
  BY <1>2, QuietUeFollows DEF Calm
<1>4. CASE ueMap[k].state # "HANDOVER_LEAVING"
  <2>1. PICK m \in {"none"} : Moved(r, NoLink, m) /\ Kept(r, NoLink, m)
    BY <1>4 DEF SendData
  <2> QED
    BY <1>2, <1>3, <2>1, LinkParts, SteadyFollows
<1>5. CASE ueMap[k].state = "HANDOVER_LEAVING"
  <2>1. PICK e : e = X2("data", NoKey, NoKey)
    OBVIOUS
  <2>2. PICK m : m = [e EXCEPT !.teid = ueMap[k].teid, !.data = p]
    OBVIOUS
  <2>3. m \in X2Messages /\ m.kind = "data" /\ m.teid = ueMap[k].teid
    <3>1. e = [kind |-> "data", old |-> NoKey, new |-> NoKey, teid |-> NoKey, data |-> 0]
      BY <2>1 DEF X2
    <3>2. ueMap[k].teid \in Keys \cup {NoKey} /\ p \in 0 .. MaxData
      BY <1>1, ContextParts, X2Constants
    <3> QED
      BY <2>2, <3>1, <3>2 DEF X2Messages
  <2>4. x2' = Sent(q, k[1], ueMap[k].target, m)
    BY <1>5, <2>1, <2>2 DEF SendData
  <2>5. PICK s : s = <<k[1], ueMap[k].target>> /\ s \in Links /\ s[2] = ueMap[k].target
    <3>1. k[1] \in Cells /\ ueMap[k].target \in Cells \ {k[1]}
      BY <1>5, KeyParts DEF IInv, ContextsOK
    <3>2. <<k[1], ueMap[k].target>> \in Links
      BY <3>1, LinkParts
    <3> QED
      BY <3>2
  <2>6. Moved(r, s, m) /\ Kept(r, s, m)
    BY <2>3, <2>4, <2>5
  <2>7. PICK j \in Keys : j[1] = ueMap[k].target /\ Takes(j)
    BY <1>5 DEF Calm, Forwards
  <2>8. Takes(j)'
    BY <1>2, <2>7 DEF Takes, Settled, ChangesAlone, Steady
  <2>9. ueMap[k].teid = Home
    BY <1>5 DEF Calm, FirstTunnel, Present
  <2>10. Expected(s, m)'
    BY <2>3, <2>5, <2>7, <2>8, <2>9 DEF Expected
  <2> QED
    BY <1>2, <1>3, <2>6, <2>10, SteadyFollows
<1> QED
  BY <1>4, <1>5

(* A packet from the core, ...                                             *)
LEMMA S1uDataCalm ==
  ASSUME IInv, Fast, Calm, NEW k \in Keys, RecvS1uData(k)
  PROVE  Calm'
<1>1. /\ air = <<>> /\ packets < MaxData /\ SendData(k, packets + 1, x2)
      /\ UNCHANGED <<ue, air, s1, aborted>>
  BY DEF RecvS1uData, Quiet
<1>2. packets \in 0 .. MaxData /\ MaxData \in Nat
  BY X2Constants DEF IInv, TypeOK
<1>3. PICK p \in 1 .. MaxData : p = packets + 1
  BY <1>1, <1>2
<1>4. X2OK
  BY DEF IInv, TypeOK, X2OK
<1>5. ASSUME NEW s, NEW m \in X2Messages, s = <<k[1], ueMap[k].target>>, s \in Links,
             x2' = Sent(x2, k[1], ueMap[k].target, m)
      PROVE  Moved(NoLink, s, m) /\ Kept(NoLink, s, m)
  BY <1>4, <1>5, SentMoves
<1>6. ASSUME NEW m, x2' = x2 PROVE Moved(NoLink, NoLink, m) /\ Kept(NoLink, NoLink, m)
  BY <1>4, <1>6, StaysMoves
<1>7. SendData(k, p, x2)
  BY <1>1, <1>3
<1> QED
  BY <1>1, <1>5, <1>6, <1>7, LinkParts, DataCalm

(* ... or from another eNB.                                                *)
LEMMA UeDataCalm ==
  ASSUME IInv, Fast, Calm, NEW l \in Links, RecvUeData(l)
  PROVE  Calm'
<1>1. PICK m : m = Head(x2[l])
  OBVIOUS
<1>2. air = <<>> /\ x2[l] # <<>> /\ m.kind = "data" /\ UNCHANGED <<ue, air, s1, aborted>>
  BY <1>1 DEF RecvUeData, X2Head, Quiet
<1>3. PICK k \in X2uTeidInfo(l[2], m.teid) : SendData(k, m.data, Received(l))
  BY <1>1 DEF RecvUeData
<1>4. k \in Keys /\ k[1] = l[2]
  BY <1>3 DEF X2uTeidInfo
<1>5. x2[l][1] = m /\ m.data \in 1 .. MaxData
  BY <1>1, <1>2, FirstMessage DEF MessageOK
<1>6. PICK p \in 1 .. MaxData : p = m.data
  BY <1>5
<1>7. X2OK
  BY DEF IInv, TypeOK, X2OK
<1>8. ASSUME NEW s, NEW n \in X2Messages, s = <<k[1], ueMap[k].target>>, s \in Links,
             x2' = Sent(Received(l), k[1], ueMap[k].target, n)
      PROVE  Moved(l, s, n) /\ Kept(l, s, n)
  <2>1. <<k[1], ueMap[k].target>> # l
    BY <1>4, LinkParts
  <2> QED
    BY <1>2, <1>7, <1>8, <2>1, AnsweredMoves
<1>9. ASSUME NEW n, x2' = Received(l) PROVE Moved(l, NoLink, n) /\ Kept(l, NoLink, n)
  BY <1>2, <1>7, <1>9, ReceivedMoves
<1>10. SendData(k, p, Received(l))
  BY <1>3, <1>6
<1> QED
  BY <1>2, <1>4, <1>5, <1>8, <1>9, <1>10, DataCalm

(* A reconfiguration may follow when a context goes back to normal.        *)
LEMMA NormalUeFollows ==
  ASSUME NEW x, air' = <<>> \o DueReconfiguration(x), ue'.state = "normal"
  PROVE  UeExpected'
<1>1. PICK m \in AirMessages : m = ToUe("reconfiguration", NoKey) /\ m.kind = "reconfiguration"
  BY AirTyped DEF AirKinds
<1>2. air' = <<>> \/ air' = <<m>>
  BY <1>1, OneInAir DEF DueReconfiguration
<1>3. \A i \in 1 .. Len(air') : air'[i] = m
  BY <1>2
<1> QED
  BY <1>1, <1>3 DEF UeExpected

(* A reconfiguration is complete, or a handover at the target.             *)
LEMMA CompletedCalm ==
  ASSUME IInv, Fast, Calm, RecvReconfigurationCompleted
  PROVE  Calm'
<1>1. PICK m : m = Head(air)
  OBVIOUS
<1>2. /\ air # <<>> /\ m.kind = "completed" /\ AirAccepted(m)
      /\ UNCHANGED <<ue, x2, aborted>>
  BY <1>1 DEF RecvReconfigurationCompleted, AirHead
<1>3. Tail(air) = <<>> /\ WhenDue(m)
  BY <1>1, <1>2, DueMessage
<1>4. PICK k \in Keys : k = m.to /\ Attached(k)
  BY <1>2, <1>3, UeParts DEF WhenDue, Attached
<1>5. ueMap[k].state # "ABSENT" /\ ueMap[k] \in Contexts
  BY <1>2, <1>4 DEF AirAccepted, InState, HasUeManager, IInv, TypeOK
<1>6. X2OK
  BY DEF IInv, TypeOK, X2OK
<1>7. PICK y \in {"none"} : Moved(NoLink, NoLink, y) /\ Kept(NoLink, NoLink, y)
  BY <1>2, <1>6, StaysMoves
<1>8. CASE ueMap[k].state = "CONNECTION_RECONFIGURATION"
  <2>1. /\ ueMap' = [ueMap EXCEPT ![k] = ToNormally(@)] /\ s1' = s1
        /\ air' = <<>> \o DueReconfiguration(ueMap[k])
    BY <1>1, <1>3, <1>4, <1>8 DEF RecvReconfigurationCompleted
  <2>2. PICK x : x = ToNormally(ueMap[k])
    OBVIOUS
  <2>3. /\ x \in Contexts /\ x.target = ueMap[k].target /\ x.source = ueMap[k].source
        /\ x.teid = ueMap[k].teid /\ x.x2u = ueMap[k].x2u
        /\ x.state \in {"CONNECTION_RECONFIGURATION", "CONNECTED_NORMALLY"}
    BY <1>5, <2>2, ContextParts, StateNames DEF ToNormally, Contexts
  <2>4. ueMap' = [ueMap EXCEPT ![k] = x]
    BY <2>1, <2>2
  <2>5. ChangesAlone(k) /\ ueMap'[k] = x
    BY <2>3, <2>4, ContextChanges DEF IInv
  <2>6. Steady(k)
    BY <1>8, <2>3, <2>5 DEF Steady, Settled
  <2>7. UeExpected'
    BY <1>2, <1>4, <2>1, NormalUeFollows DEF Attached
  <2> QED
    BY <1>2, <1>7, <2>1, <2>5, <2>6, <2>7, LinkParts, SteadyFollows
<1>9. CASE ueMap[k].state = "HANDOVER_JOINING"
  <2>1. /\ JoinCompleted(k) /\ air' = <<>>
        /\ ueMap[ueMap[k].source].state = "HANDOVER_LEAVING"
    BY <1>1, <1>2, <1>3, <1>4, <1>9 DEF RecvReconfigurationCompleted, JoinCompleted, WhenDue,
       Awaited, OnlyAt, Serves, Serving
  <2>2. PICK x : x = [ueMap[k] EXCEPT !.state = "HANDOVER_PATH_SWITCH", !.timer = "none",
                                      !.buffer = {}]
    OBVIOUS
  <2>3. /\ x \in Contexts /\ x.state = "HANDOVER_PATH_SWITCH" /\ x.source = ueMap[k].source
        /\ x.teid = ueMap[k].teid /\ x.x2u = ueMap[k].x2u
    BY <1>5, <2>2, ContextParts, StateNames DEF Contexts
  <2>4. ueMap' = [ueMap EXCEPT ![k] = x]
    BY <2>1, <2>2 DEF JoinCompleted, IInv, TypeOK
  <2>5. ChangesAlone(k) /\ ueMap'[k] = x
    BY <2>3, <2>4, ContextChanges DEF IInv
  <2>6. s1' = s1 \cup {[kind |-> "pathSwitch", key |-> k]}
    BY <2>1 DEF JoinCompleted
  <2>7. ueMap[k].teid = Home /\ ueMap[k].x2u
    BY <1>9 DEF Calm, FirstTunnel, Present
  <2>8. SwitchesAwaited'
    <3>1. \A q \in s1 : q.key \in Keys /\ q.kind = "pathSwitch" /\ q.key # k
                        /\ ueMap[q.key].state = "HANDOVER_PATH_SWITCH"
      BY <1>9 DEF IInv, TypeOK, Calm, SwitchesAwaited
    <3>2. \A q \in s1 : ueMap'[q.key].state = "HANDOVER_PATH_SWITCH"
      BY <2>5, <3>1 DEF ChangesAlone
    <3> QED
      BY <2>3, <2>5, <2>6, <3>1, <3>2 DEF SwitchesAwaited
  <2>9. UeExpected'
    <3>1. Len(air') = 0 /\ ue'.state = "normal"
      BY <1>2, <1>4, <2>1 DEF Attached
    <3> QED
      BY <3>1 DEF UeExpected
  <2>10. Takes(k)'
    BY <2>3, <2>5, <2>7 DEF Takes
  <2>11. ASSUME NEW j \in Keys, j # k, Present(j) PROVE Hands(j, k)'
    <3>1. Hands(k, j) \/ Hands(j, k)
      BY <1>5, <2>11 DEF Calm, OnePair, Present
    <3>2. Joined(k, j)
      BY <1>9, <3>1 DEF Hands, Settled
    <3>3. ueMap'[j].state = "HANDOVER_LEAVING"
      BY <2>1, <2>5, <2>11, <3>2 DEF Joined, ChangesAlone
    <3>4. Joined(k, j)'
      BY <2>3, <2>5, <3>2 DEF Joined
    <3> QED
      BY <3>3, <3>4 DEF Hands
  <2>12. ASSUME NEW l \in Links, NEW i \in 1 .. Len(x2[l]), NEW n \in X2Messages, n = x2[l][i]
         PROVE  ~(n.kind \in Handshake /\ n.old = k) /\ ~(n.kind = "ack" /\ n.new = k)
    <3>1. Expected(l, n) /\ MessageOK(l, n)
      BY <2>12 DEF Calm, AllExpected, IInv, MessagesOK
    <3>2. ~(n.kind \in Handshake /\ n.old = k)
      BY <1>9, <3>1 DEF Expected, Handshake
    <3>3. n.kind = "ack" /\ n.new = k => ueMap[k].source = n.old
      BY <1>9, <3>1 DEF MessageOK
    <3>4. n.kind = "ack" => ueMap[n.old].state = "HANDOVER_PREPARATION"
      BY <3>1 DEF Expected
    <3> QED
      BY <2>1, <3>2, <3>3, <3>4
  <2>13. /\ ueMap'[k].state \in Serving \cup {"HANDOVER_JOINING", "HANDOVER_LEAVING"}
         /\ ueMap'[k].teid = Home /\ ueMap'[k].x2u /\ ueMap'[k].state # "HANDOVER_LEAVING"
    BY <2>3, <2>5, <2>7 DEF Serving
  <2> QED
    BY <1>2, <1>7, <2>5, <2>8, <2>9, <2>10, <2>11, <2>12, <2>13, LinkParts, CalmFollows
<1>10. ueMap[k].state \in {"CONNECTION_RECONFIGURATION", "HANDOVER_JOINING"}
  BY <1>2, <1>3, <1>4, <1>5 DEF WhenDue, Awaited
<1> QED
  BY <1>8, <1>9, <1>10

(* The source asks the target: links are empty, so that no other context   *)
(* of the UE exists.                                                       *)
LEMMA ReportCalm ==
  ASSUME IInv, Fast, Calm, NEW t \in Cells, MeasurementReport(t)
  PROVE  Calm'
<1>1. PICK k \in Keys : k = peer
  BY UeParts
<1>2. /\ air = <<>> /\ k[1] # t /\ ueMap[k].state = "CONNECTED_NORMALLY" /\ PrepareHandover(k, t)
      /\ UNCHANGED <<ue, air, s1, aborted>> /\ LinksIdle
  BY <1>1 DEF MeasurementReport, Quiet, HandoverAllowed, InState
<1>3. \A l \in Links : Len(x2[l]) = 0
  BY <1>2 DEF Fast, LinksIdle
<1>4. \A j \in Keys : Present(j) => j = k
  <2> SUFFICES ASSUME NEW j \in Keys, Present(j), j # k PROVE FALSE
    OBVIOUS
  <2>1. Hands(k, j) \/ Hands(j, k)
    BY <1>2 DEF Calm, OnePair, Present
  <2>2. ~Releasing(j)
    BY <1>3 DEF Releasing
  <2> QED
    BY <1>2, <2>1, <2>2 DEF Hands, Joined
<1>5. ueMap[k] \in Contexts /\ ueMap[k].teid = Home
  BY <1>2 DEF IInv, TypeOK, Calm, FirstTunnel, Present
<1>6. PICK x : x = [ueMap[k] EXCEPT !.state = "HANDOVER_PREPARATION", !.target = t]
  OBVIOUS
<1>7. /\ x \in Contexts /\ x.state = "HANDOVER_PREPARATION" /\ x.target = t /\ x.teid = Home
  BY <1>5, <1>6, ContextParts, StateNames DEF Contexts
<1>8. ueMap' = [ueMap EXCEPT ![k] = x]
  BY <1>2, <1>6 DEF PrepareHandover, IInv, TypeOK
<1>9. ChangesAlone(k) /\ ueMap'[k] = x
  BY <1>7, <1>8, ContextChanges DEF IInv
<1>10. \A j \in Keys : j # k => ueMap'[j].state = "ABSENT"
  BY <1>4, <1>9 DEF ChangesAlone, Present
<1>11. PICK m : m = [X2("request", k, NoKey) EXCEPT !.teid = ueMap[k].teid]
  OBVIOUS
<1>12. m \in X2Messages /\ m.kind = "request" /\ m.old = k /\ m.teid = Home
  <2>1. ueMap[k].teid \in Keys \cup {NoKey}
    BY <1>5, ContextParts
  <2>2. m = [kind |-> "request", old |-> k, new |-> NoKey, teid |-> ueMap[k].teid, data |-> 0]
    BY <1>11 DEF X2
  <2>3. "request" \in X2Kinds /\ k \in Keys \cup {NoKey}
    BY DEF X2Kinds
  <2> QED
    BY <1>5, <2>1, <2>2, <2>3, X2TypedTeid
<1>13. PICK s : s = <<k[1], t>> /\ s \in Links /\ s[2] = t
  <2>1. k[1] \in Cells
    BY KeyParts
  <2>2. <<k[1], t>> \in Links
    BY <1>2, <2>1, LinkParts
  <2> QED
    BY <2>2
<1>14. X2OK
  BY DEF IInv, TypeOK, X2OK
<1>15. Moved(NoLink, s, m)
  BY <1>2, <1>11, <1>12, <1>13, <1>14, SentMoves DEF PrepareHandover
<1>16. AllExpected'
  <2>1. \A l \in Links : \A i \in 1 .. Len(x2'[l]) : l = s /\ x2'[l][i] = m
    BY <1>3, <1>15 DEF Moved
  <2>2. Expected(s, m)'
    BY <1>7, <1>9, <1>12, <1>13 DEF Expected
  <2> QED
    BY <2>1, <2>2 DEF AllExpected
<1>17. OnePair' /\ Forwards'
  BY <1>7, <1>9, <1>10 DEF OnePair, Forwards, Present
<1>18. FirstTunnel'
  BY <1>7, <1>9, TunnelFollows DEF Calm, Serving
<1>19. SwitchesAwaited'
  BY <1>2, <1>9, SwitchesFollow DEF Calm, IInv
<1>20. UeExpected'
  BY <1>2, <1>9, QuietUeFollows DEF Calm
<1> QED
  BY <1>2, <1>16, <1>17, <1>18, <1>19, <1>20 DEF Calm

(* A request is refused, ...                                               *)
LEMMA RefusalCalm ==
  ASSUME IInv, Fast, Calm, NEW l \in Links, air = <<>>, x2[l] # <<>>, NEW m, m = Head(x2[l]),
         m.kind = "request", ueMap' = ueMap,
         x2' = Sent(Received(l), l[2], l[1], X2("failure", m.old, NoKey)),
         UNCHANGED <<ue, air, s1, aborted>>
  PROVE  Calm'
<1>1. PICK o \in Keys : o = m.old /\ x2[l][1] = m
  BY RequestParts
<1>2. ueMap[o].state = "HANDOVER_PREPARATION" /\ ueMap[o].target = l[2]
  <2>1. Expected(l, m)
    BY FirstMessage DEF Calm, AllExpected
  <2> QED
    BY <1>1, <2>1 DEF Expected
<1>3. PICK n : n = X2("failure", o, NoKey)
  OBVIOUS
<1>4. n \in X2Messages /\ n.kind = "failure" /\ n.old = o
  BY <1>3, X2Typed DEF X2Kinds
<1>5. PICK s : s = <<l[2], l[1]>> /\ s \in Links /\ s[1] = l[2] /\ s # l
  BY LinkParts
<1>6. X2OK
  BY DEF IInv, TypeOK, X2OK
<1>7. Moved(l, s, n) /\ Kept(l, s, n)
  BY <1>1, <1>3, <1>4, <1>5, <1>6, AnsweredMoves
<1>8. ChangesAlone(o) /\ Steady(o)
  BY DEF ChangesAlone, Steady
<1>9. Expected(s, n)'
  BY <1>2, <1>4, <1>5 DEF Expected
<1>10. UeExpected'
  BY <1>8, QuietUeFollows DEF Calm
<1> QED
  BY <1>1, <1>7, <1>8, <1>9, <1>10, SteadyFollows

(* ... or accepted, with a context under a new RNTI.                       *)
LEMMA AcceptanceCalm ==
  ASSUME IInv, Fast, Calm, NEW l \in Links, air = <<>>, x2[l] # <<>>, NEW m, m = Head(x2[l]),
         m.kind = "request", AddUe(l[2], Joining(m)),
         x2' = Sent(Received(l), l[2], l[1], X2("ack", m.old, NewKey(l[2]))),
         UNCHANGED <<ue, air, s1, aborted>>
  PROVE  Calm'
<1>1. PICK o \in Keys : o = m.old /\ x2[l][1] = m /\ o[1] = l[1] /\ m.teid \in Keys \cup {NoKey}
  BY RequestParts
<1>2. m \in X2Messages /\ MessageOK(l, m) /\ Expected(l, m)
  BY FirstMessage DEF Calm, AllExpected
<1>3. /\ ueMap[o].state = "HANDOVER_PREPARATION" /\ ueMap[o].target = l[2] /\ m.teid = Home
      /\ \A j \in Keys : Present(j) => j = o
  BY <1>1, <1>2, RequestMeetsNone DEF Expected
<1>4. PICK k : k = NewKey(l[2])
  OBVIOUS
<1>5. k \in Keys /\ k[1] = l[2] /\ ~Known(k)
  BY <1>4, LinkParts, NewKeys DEF IInv, AddUe
<1>6. /\ ueMap[k].state = "ABSENT"
      /\ \A h \in Links : \A n \in X2Messages : MessageOK(h, n) =>
           ~(n.kind \in Handshake /\ n.old = k) /\ ~(n.kind = "ack" /\ n.new = k)
  BY <1>5, FreshKey
<1>7. o # k
  BY <1>3, <1>6
<1>8. /\ ChangesAlone(k) /\ ueMap'[k].state = "HANDOVER_JOINING" /\ ueMap'[k].source = o
      /\ ueMap'[k].teid = Home /\ ueMap'[k].x2u
  <2>1. PICK x : x = Joining(m)
    OBVIOUS
  <2>2. x = [state |-> "HANDOVER_JOINING", timer |-> "joining", target |-> 0, source |-> o,
             pending |-> TRUE, teid |-> m.teid, x2u |-> TRUE, buffer |-> {}]
    BY <1>1, <2>1 DEF Joining, Absent
  <2>3. /\ x \in Contexts /\ x.state = "HANDOVER_JOINING" /\ x.source = o /\ x.teid = m.teid
        /\ x.x2u
    BY <1>1, <2>2, StateNames DEF Contexts
  <2>4. ueMap' = [ueMap EXCEPT ![k] = x]
    BY <1>4, <2>1 DEF AddUe
  <2>5. ChangesAlone(k) /\ ueMap'[k] = x
    BY <1>5, <2>3, <2>4, ContextChanges DEF IInv
  <2> QED
    BY <1>3, <2>3, <2>5
<1>9. PICK n : n = X2("ack", o, k)
  OBVIOUS
<1>10. n \in X2Messages /\ n.kind = "ack" /\ n.old = o /\ n.new = k
  BY <1>5, <1>9, X2Typed DEF X2Kinds
<1>11. PICK s : s = <<l[2], l[1]>> /\ s \in Links /\ s[1] = l[2] /\ s # l
  BY LinkParts
<1>12. X2OK
  BY DEF IInv, TypeOK, X2OK
<1>13. Moved(l, s, n) /\ Kept(l, s, n)
  BY <1>1, <1>4, <1>9, <1>10, <1>11, <1>12, AnsweredMoves
<1>14. ueMap'[o] = ueMap[o]
  BY <1>7, <1>8 DEF ChangesAlone
<1>15. Expected(s, n)'
  BY <1>3, <1>8, <1>10, <1>11, <1>14 DEF Expected
<1>16. ASSUME NEW j \in Keys, j # k, Present(j) PROVE Hands(j, k)'
  BY <1>3, <1>8, <1>14, <1>16 DEF Hands, Joined
<1>17. ASSUME NEW h \in Links, NEW i \in 1 .. Len(x2[h]), NEW y \in X2Messages, y = x2[h][i]
       PROVE  ~(y.kind \in Handshake /\ y.old = k) /\ ~(y.kind = "ack" /\ y.new = k)
  <2>1. MessageOK(h, y)
    BY <1>17 DEF IInv, MessagesOK
  <2> QED
    BY <1>6, <2>1
<1>18. ~Takes(k) /\ x2[l][1].kind # "release"
  BY <1>1, <1>6 DEF Takes, Settled
<1>19. UeExpected'
  BY <1>5, <1>6, <1>8, QuietUeFollows DEF Calm
<1>20. SwitchesAwaited'
  BY <1>5, <1>6, <1>8, SwitchesFollow DEF Calm, IInv
<1> QED
  BY <1>5, <1>8, <1>13, <1>15, <1>16, <1>17, <1>18, <1>19, <1>20, CalmFollows

(* RecvHandoverRequest has these cases.                                    *)
LEMMA HandoverRequestCalm ==
  ASSUME IInv, Fast, Calm, NEW l \in Links, RecvHandoverRequest(l)
  PROVE  Calm'
<1>1. PICK m : m = Head(x2[l])
  OBVIOUS
<1>2. /\ air = <<>> /\ x2[l] # <<>> /\ m.kind = "request" /\ UNCHANGED <<ue, air, s1, aborted>>
  BY <1>1 DEF RecvHandoverRequest, X2Head, Quiet
<1>3. \/ ueMap' = ueMap /\ x2' = Sent(Received(l), l[2], l[1], X2("failure", m.old, NoKey))
      \/ /\ AddUe(l[2], Joining(m))
         /\ x2' = Sent(Received(l), l[2], l[1], X2("ack", m.old, NewKey(l[2])))
  BY <1>1 DEF RecvHandoverRequest, NotAdmitted, NoPreamble
<1> QED
  BY <1>1, <1>2, <1>3, RefusalCalm, AcceptanceCalm

(* The target has accepted: the UE is told to move to it.                  *)
LEMMA RequestAckCalm ==
  ASSUME IInv, Fast, Calm, NEW l \in Links, RecvHandoverRequestAck(l)
  PROVE  Calm'
<1>1. PICK m : m = Head(x2[l])
  OBVIOUS
<1>2. /\ air = <<>> /\ x2[l] # <<>> /\ m.kind = "ack" /\ UNCHANGED <<ue, s1, aborted>>
  BY <1>1 DEF RecvHandoverRequestAck, X2Head, Quiet
<1>3. x2[l][1] = m /\ MessageOK(l, m) /\ Expected(l, m)
  BY <1>1, <1>2, FirstMessage DEF Calm, AllExpected
<1>4. PICK k \in Keys : k = m.old /\ ueMap[k].state = "HANDOVER_PREPARATION"
  BY <1>2, <1>3 DEF MessageOK, Expected, Known, Handshake
<1>5. PICK j \in Keys : j = m.new /\ ueMap[j].state = "HANDOVER_JOINING" /\ j[1] = l[1]
  BY <1>2, <1>3 DEF MessageOK, Expected, Known
<1>6. j # k
  BY <1>4, <1>5
<1>7. l[1] \in Cells /\ <<l[2], l[1]>> # l
  BY LinkParts
<1>8. PICK c \in AirMessages : c = ToUe("command", j) /\ c.kind = "command" /\ c.new = j
  BY AirTyped DEF AirKinds
<1>9. PICK n \in X2Messages : n = X2("snStatus", k, j) /\ n.kind = "snStatus" /\ n.new = j
  BY X2Typed DEF X2Kinds
<1>10. /\ ueMap' = [ueMap EXCEPT ![k].state = "HANDOVER_LEAVING", ![k].timer = "leaving",
                                 ![k].target = l[1]]
       /\ air' = <<c>> /\ x2' = Sent(Received(l), l[2], l[1], n)
  BY <1>1, <1>2, <1>4, <1>5, <1>8, <1>9, OneInAir DEF RecvHandoverRequestAck
<1>11. /\ ChangesAlone(k) /\ ueMap'[k].state = "HANDOVER_LEAVING" /\ ueMap'[k].target = l[1]
       /\ ueMap'[k].teid = ueMap[k].teid
  <2>1. ueMap[k] \in Contexts
    BY DEF IInv, TypeOK
  <2>2. PICK x : x = [ueMap[k] EXCEPT !.state = "HANDOVER_LEAVING", !.timer = "leaving",
                                      !.target = l[1]]
    OBVIOUS
  <2>3. /\ x \in Contexts /\ x.state = "HANDOVER_LEAVING" /\ x.target = l[1]
        /\ x.teid = ueMap[k].teid
    BY <1>7, <2>1, <2>2, ContextParts, StateNames DEF Contexts
  <2>4. ueMap' = [ueMap EXCEPT ![k] = x]
    BY <1>10, <2>2 DEF IInv, TypeOK
  <2>5. ChangesAlone(k) /\ ueMap'[k] = x
    BY <2>3, <2>4, ContextChanges DEF IInv
  <2> QED
    BY <2>3, <2>5
<1>12. X2OK
  BY DEF IInv, TypeOK, X2OK
<1>13. PICK s : Moved(l, s, n) /\ Kept(l, s, n)
  BY <1>2, <1>7, <1>10, <1>12, AnsweredMoves
<1>14. ueMap'[j] = ueMap[j]
  BY <1>6, <1>11 DEF ChangesAlone
<1>15. Takes(j) /\ Takes(j)'
  <2>1. ueMap[j].x2u
    BY <1>5 DEF Calm, FirstTunnel, Present
  <2> QED
    BY <1>5, <1>14, <2>1 DEF Takes
<1>16. Expected(s, n)'
  BY <1>9, <1>15 DEF Expected
<1>17. ASSUME NEW i \in Keys, i # k, Present(i) PROVE Hands(k, i)'
  <2>1. Hands(k, i) \/ Hands(i, k)
    BY <1>4, <1>17 DEF Calm, OnePair, Present
  <2>2. Joined(i, k)
    BY <1>4, <2>1 DEF Hands, Joined, Settled
  <2>3. Joined(i, k)'
    BY <1>11, <1>17, <2>2 DEF Joined, ChangesAlone
  <2> QED
    BY <1>11, <2>3 DEF Hands
<1>18. ASSUME NEW h \in Links, NEW i \in 1 .. Len(x2[h]), NEW y \in X2Messages,
              ~(h = l /\ i = 1), y = x2[h][i]
       PROVE  ~(y.kind \in Handshake /\ y.old = k) /\ ~(y.kind = "ack" /\ y.new = k)
  <2>1. Expected(h, y)
    BY <1>18 DEF Calm, AllExpected
  <2>2. m.kind \in Handshake /\ GoodRadio
    BY <1>2 DEF Handshake, Fast
  <2> QED
    BY <1>1, <1>2, <1>4, <1>18, <2>1, <2>2, AloneOnLinks DEF Expected
<1>19. ~Takes(k) /\ x2[l][1].kind # "release"
  BY <1>2, <1>3, <1>4 DEF Takes, Settled
<1>20. /\ ueMap'[k].state \in Serving \cup {"HANDOVER_JOINING", "HANDOVER_LEAVING"}
       /\ ueMap'[k].teid = Home
       /\ ueMap'[k].state \notin {"HANDOVER_JOINING", "HANDOVER_PATH_SWITCH"}
  BY <1>4, <1>11 DEF Calm, FirstTunnel, Present
<1>21. UeExpected'
  <2>1. ue.state = "normal"
    BY <1>2, <1>4, ServingContext DEF Attached, Serves, Serving
  <2>2. \A i \in 1 .. Len(air') : air'[i] = c
    BY <1>10
  <2> QED
    BY <1>2, <1>5, <1>8, <1>14, <2>1, <2>2 DEF UeExpected
<1>22. SwitchesAwaited'
  BY <1>2, <1>4, <1>11, SwitchesFollow DEF Calm, IInv
<1>23. \E i \in Keys : i[1] = ueMap'[k].target /\ (Takes(i) \/ Takes(i)')
  BY <1>5, <1>11, <1>15
<1> QED
  BY <1>2, <1>11, <1>13, <1>16, <1>17, <1>18, <1>19, <1>20, <1>21, <1>22, <1>23, CalmFollows

(* The target has refused: the source goes back to normal, alone.          *)
LEMMA PreparationFailureCalm ==
  ASSUME IInv, Fast, Calm, NEW l \in Links, RecvHandoverPreparationFailure(l)
  PROVE  Calm'
<1>1. PICK m : m = Head(x2[l])
  OBVIOUS
<1>2. /\ air = <<>> /\ x2[l] # <<>> /\ m.kind = "failure" /\ x2' = Received(l)
      /\ UNCHANGED <<ue, s1, aborted>>
  BY <1>1 DEF RecvHandoverPreparationFailure, X2Head, Quiet
<1>3. x2[l][1] = m /\ MessageOK(l, m) /\ Expected(l, m)
  BY <1>1, <1>2, FirstMessage DEF Calm, AllExpected
<1>4. PICK k \in Keys : k = m.old /\ ueMap[k].state = "HANDOVER_PREPARATION" /\ NobodyJoins(k)
  BY <1>2, <1>3 DEF MessageOK, Expected, Known, Handshake
<1>5. /\ ueMap' = [ueMap EXCEPT ![k] = ToNormally(@)]
      /\ air' = <<>> \o DueReconfiguration(ueMap[k])
  BY <1>1, <1>2, <1>4 DEF RecvHandoverPreparationFailure, AbortPreparation
<1>6. ueMap[k] \in Contexts /\ ueMap[k].teid = Home
  BY <1>4 DEF IInv, TypeOK, Calm, FirstTunnel, Present
<1>7. PICK x : x = ToNormally(ueMap[k])
  OBVIOUS
<1>8. /\ x \in Contexts /\ x.teid = ueMap[k].teid
      /\ x.state \in {"CONNECTION_RECONFIGURATION", "CONNECTED_NORMALLY"}
  BY <1>6, <1>7, ContextParts, StateNames DEF ToNormally, Contexts
<1>9. ueMap' = [ueMap EXCEPT ![k] = x]
  BY <1>5, <1>7
<1>10. ChangesAlone(k) /\ ueMap'[k] = x
  BY <1>8, <1>9, ContextChanges DEF IInv
<1>11. X2OK
  BY DEF IInv, TypeOK, X2OK
<1>12. PICK y \in {"none"} : Moved(l, NoLink, y) /\ Kept(l, NoLink, y)
  BY <1>2, <1>11, ReceivedMoves
<1>13. ASSUME NEW j \in Keys, j # k, Present(j) PROVE FALSE
  <2>1. Hands(k, j) \/ Hands(j, k)
    BY <1>4, <1>13 DEF Calm, OnePair, Present
  <2>2. ~Hands(k, j)
    BY <1>4 DEF Hands, NobodyJoins
  <2>3. ~Hands(j, k)
    BY <1>4 DEF Hands, Joined, Settled
  <2> QED
    BY <2>1, <2>2, <2>3
<1>14. ASSUME NEW h \in Links, NEW i \in 1 .. Len(x2[h]), NEW n \in X2Messages,
              ~(h = l /\ i = 1), n = x2[h][i]
       PROVE  ~(n.kind \in Handshake /\ n.old = k) /\ ~(n.kind = "ack" /\ n.new = k)
  <2>1. Expected(h, n)
    BY <1>14 DEF Calm, AllExpected
  <2>2. m.kind \in Handshake /\ m.kind # "ack"
    BY <1>2 DEF Handshake
  <2> QED
    BY <1>1, <1>2, <1>4, <1>14, <2>1, <2>2, AloneOnLinks DEF Expected
<1>15. ~Takes(k) /\ x2[l][1].kind # "release"
  BY <1>2, <1>3, <1>4 DEF Takes, Settled
<1>16. UeExpected'
  <2>1. ue.state = "normal"
    BY <1>2, <1>4, ServingContext DEF Attached, Serves, Serving
  <2> QED
    BY <1>2, <1>5, <2>1, NormalUeFollows
<1>17. SwitchesAwaited'
  BY <1>2, <1>4, <1>10, SwitchesFollow DEF Calm, IInv
<1>18. /\ ueMap'[k].state \in Serving \cup {"HANDOVER_JOINING", "HANDOVER_LEAVING"}
       /\ ueMap'[k].teid = Home
       /\ ueMap'[k].state \notin {"HANDOVER_LEAVING", "HANDOVER_JOINING", "HANDOVER_PATH_SWITCH"}
  BY <1>6, <1>8, <1>10 DEF Serving
<1> QED
  BY <1>2, <1>10, <1>12, <1>13, <1>14, <1>15, <1>16, <1>17, <1>18, LinkParts, CalmFollows

(* A source has no other context in its cell whose tunnel it could erase.  *)
LEMMA RemovesAlone ==
  ASSUME IInv, Calm, NEW k \in Keys, ueMap[k].state = "HANDOVER_LEAVING", RemoveUe(k)
  PROVE  ChangesAlone(k)
<1>1. PICK i \in Keys : i[1] = ueMap[k].target /\ Takes(i)
  BY DEF Calm, Forwards
<1>2. ueMap[k].target # k[1]
  BY DEF IInv, ContextsOK
<1>3. i # k /\ Present(i) /\ ~Settled(k)
  BY <1>1, <1>2 DEF Takes, Settled, Present
<1>4. ASSUME NEW j \in Keys, j # k, j[1] = k[1] PROVE ~Present(j)
  <2>1. SUFFICES ASSUME Present(j) PROVE FALSE
    OBVIOUS
  <2>2. j # i
    BY <1>1, <1>2, <1>4
  <2>3. Hands(k, j) \/ Hands(j, k)
    BY <1>4, <2>1 DEF Calm, OnePair, Present
  <2>4. ueMap[j].state \in {"HANDOVER_JOINING", "HANDOVER_PATH_SWITCH"} \/ Settled(j)
    BY <1>3, <2>3 DEF Hands, Joined
  <2>5. Hands(i, j) \/ Hands(j, i)
    BY <1>3, <2>1, <2>2 DEF Calm, OnePair
  <2> QED
    BY <1>1, <2>4, <2>5 DEF Hands, Takes, Settled
<1>5. ASSUME NEW j \in Keys, j # k PROVE ueMap'[j] = ueMap[j]
  <2>1. PICK x \in Contexts : x = ueMap[j]
    BY DEF IInv, TypeOK
  <2>2. ueMap'[j] = x \/ (j[1] = k[1] /\ ueMap'[j] = [x EXCEPT !.x2u = FALSE])
    BY <1>5, <2>1 DEF RemoveUe, SharesTunnel
  <2>3. j[1] = k[1] => x.x2u = FALSE
    <3>1. j[1] = k[1] => ueMap[j].state = "ABSENT"
      BY <1>4, <1>5 DEF Present
    <3>2. j[1] = k[1] => ~ueMap[j].x2u
      BY <3>1 DEF IInv, ContextsOK, Serving
    <3> QED
      BY <2>1, <3>2 DEF Contexts
  <2>4. x.x2u = FALSE => [x EXCEPT !.x2u = FALSE] = x
    BY <2>1 DEF Contexts
  <2> QED
    BY <2>1, <2>2, <2>3, <2>4
<1> QED
  BY <1>5 DEF ChangesAlone

(* The target is done: the source removes its context.                     *)
LEMMA ContextReleaseCalm ==
  ASSUME IInv, Fast, Calm, NEW l \in Links, RecvUeContextRelease(l)
  PROVE  Calm'
<1>1. PICK m : m = Head(x2[l])
  OBVIOUS
<1>2. /\ air = <<>> /\ x2[l] # <<>> /\ m.kind = "release" /\ x2' = Received(l)
      /\ RemoveUe(m.old) /\ UNCHANGED <<faults, lastRnti, ue, air, s1, aborted>>
  BY <1>1 DEF RecvUeContextRelease, X2Head, Quiet
<1>3. x2[l][1] = m /\ MessageOK(l, m) /\ Expected(l, m)
  BY <1>1, <1>2, FirstMessage DEF Calm, AllExpected
<1>4. PICK k \in Keys : k = m.old /\ ueMap[k].state = "HANDOVER_LEAVING"
  BY <1>2, <1>3 DEF MessageOK, Expected, Known, Handshake
<1>5. ChangesAlone(k) /\ ueMap'[k].state = "ABSENT"
  BY <1>2, <1>4, RemovalFollows, RemovesAlone
<1>6. X2OK
  BY DEF IInv, TypeOK, X2OK
<1>7. PICK y \in {"none"} : Moved(l, NoLink, y) /\ Kept(l, NoLink, y)
  BY <1>2, <1>6, ReceivedMoves
<1>8. ASSUME NEW h \in Links, NEW i \in 1 .. Len(x2[h]), NEW n \in X2Messages,
             ~(h = l /\ i = 1), n = x2[h][i]
      PROVE  ~(n.kind \in Handshake /\ n.old = k) /\ ~(n.kind = "ack" /\ n.new = k)
  <2>1. Expected(h, n)
    BY <1>8 DEF Calm, AllExpected
  <2>2. m.kind \in Handshake /\ m.kind # "ack"
    BY <1>2 DEF Handshake
  <2> QED
    BY <1>1, <1>2, <1>4, <1>8, <2>1, <2>2, AloneOnLinks DEF Expected
<1>9. ~Takes(k) /\ ~Present(k)' /\ x2[l][1].old = k
  BY <1>3, <1>4, <1>5 DEF Takes, Settled, Present
<1>10. UeExpected'
  BY <1>2, <1>4, <1>5, QuietUeFollows DEF Calm
<1>11. SwitchesAwaited'
  BY <1>2, <1>4, <1>5, SwitchesFollow DEF Calm, IInv
<1> QED
  BY <1>2, <1>5, <1>7, <1>8, <1>9, <1>10, <1>11, LinkParts, CalmFollows

(* The core has switched the path: the target releases the source.         *)
LEMMA PathSwitchCalm ==
  ASSUME IInv, Fast, Calm, NEW q \in s1, PathSwitchRequestAcknowledge(q)
  PROVE  Calm'
<1>1. /\ air = <<>> /\ S1Accepted(q) /\ q.kind = "pathSwitch" /\ s1' = s1 \ {q}
      /\ UNCHANGED <<ue, aborted>>
  BY DEF PathSwitchRequestAcknowledge, Quiet
<1>2. PICK k \in Keys : k = q.key /\ ueMap[k].state = "HANDOVER_PATH_SWITCH"
  BY <1>1 DEF S1Accepted, InState, HasUeManager
<1>3. PICK o : o = ueMap[k].source
  OBVIOUS
<1>4. /\ x2' = Sent(x2, k[1], o[1], X2("release", o, k))
      /\ ueMap' = [ueMap EXCEPT ![k] = ToNormally(@)]
      /\ air' = <<>> \o DueReconfiguration(ueMap[k])
  BY <1>1, <1>2, <1>3 DEF PathSwitchRequestAcknowledge
<1>5. Joined(k, o) /\ Known(o) /\ o[1] # k[1]
  BY <1>2, <1>3 DEF IInv, ContextsOK, Joined
<1>6. ueMap[o].state = "HANDOVER_LEAVING" /\ o \in Keys /\ o # k
  BY <1>1, <1>2, <1>3, <1>5, OneInAir DEF IInv, SourceWaits, Known
<1>7. ueMap[k] \in Contexts /\ ueMap[k].teid = Home /\ ueMap[k].x2u
  BY <1>2 DEF IInv, TypeOK, Calm, FirstTunnel, Present
<1>8. PICK x : x = ToNormally(ueMap[k])
  OBVIOUS
<1>9. /\ x \in Contexts /\ x.teid = ueMap[k].teid /\ x.x2u = ueMap[k].x2u
      /\ x.state \in {"CONNECTION_RECONFIGURATION", "CONNECTED_NORMALLY"}
  BY <1>7, <1>8, ContextParts, StateNames DEF ToNormally, Contexts
<1>10. ueMap' = [ueMap EXCEPT ![k] = x]
  BY <1>4, <1>8
<1>11. ChangesAlone(k) /\ ueMap'[k] = x
  BY <1>9, <1>10, ContextChanges DEF IInv
<1>12. PICK m : m = X2("release", o, k)
  OBVIOUS
<1>13. m \in X2Messages /\ m.kind = "release" /\ m.old = o
  BY <1>6, <1>12, X2Typed DEF X2Kinds
<1>14. PICK s : s = <<k[1], o[1]>> /\ s \in Links /\ s[2] = o[1]
  <2>1. k[1] \in Cells /\ o[1] \in Cells
    BY <1>6, KeyParts
  <2>2. <<k[1], o[1]>> \in Links
    BY <1>5, <2>1, LinkParts
  <2> QED
    BY <2>2
<1>15. X2OK
  BY DEF IInv, TypeOK, X2OK
<1>16. Moved(NoLink, s, m) /\ Kept(NoLink, s, m)
  BY <1>4, <1>12, <1>13, <1>14, <1>15, SentMoves
<1>17. ueMap'[o].state = "HANDOVER_LEAVING" /\ Settled(k)' /\ Releasing(o)'
  <2>1. ueMap'[o] = ueMap[o]
    BY <1>6, <1>11 DEF ChangesAlone
  <2>2. Releasing(o)'
    BY <1>13, <1>14, <1>16 DEF Kept, Releasing
  <2> QED
    BY <1>6, <1>9, <1>11, <2>1, <2>2 DEF Settled
<1>18. Expected(s, m)'
  BY <1>13, <1>17 DEF Expected
<1>19. Takes(k)'
  BY <1>7, <1>9, <1>11, <1>17 DEF Takes
<1>20. ASSUME NEW j \in Keys, j # k, Present(j) PROVE Hands(j, k)'
  <2>1. Hands(k, j) \/ Hands(j, k)
    BY <1>2, <1>20 DEF Calm, OnePair, Present
  <2>2. Joined(k, j)
    BY <1>2, <2>1 DEF Hands, Settled
  <2>3. j = o
    BY <1>3, <2>2 DEF Joined
  <2> QED
    BY <1>17, <2>3 DEF Hands
<1>21. ASSUME NEW h \in Links, NEW i \in 1 .. Len(x2[h]), NEW n \in X2Messages, n = x2[h][i]
       PROVE  ~(n.kind \in Handshake /\ n.old = k) /\ ~(n.kind = "ack" /\ n.new = k)
  <2>1. Expected(h, n)
    BY <1>21 DEF Calm, AllExpected
  <2> QED
    BY <1>2, <2>1 DEF Expected, Handshake
<1>22. UeExpected'
  <2>1. ue.state = "normal"
    BY <1>1, <1>2, ServingContext DEF Attached, Serves, Serving
  <2> QED
    BY <1>1, <1>4, <2>1, NormalUeFollows
<1>23. SwitchesAwaited'
  <2>1. \A r \in s1 : /\ r = [kind |-> r.kind, key |-> r.key] /\ r.key \in Keys
                      /\ r.kind = "pathSwitch" /\ ueMap[r.key].state = "HANDOVER_PATH_SWITCH"
    BY DEF IInv, TypeOK, Calm, SwitchesAwaited
  <2>2. \A r \in s1' : r \in s1 /\ r.key # k
    BY <1>1, <1>2, <2>1
  <2>3. s1' \subseteq s1
    BY <1>1
  <2> QED
    BY <1>11, <2>2, <2>3, SwitchesFollow DEF Calm, IInv
<1>24. /\ ueMap'[k].state \in Serving \cup {"HANDOVER_JOINING", "HANDOVER_LEAVING"}
       /\ ueMap'[k].teid = Home /\ ueMap'[k].x2u /\ ueMap'[k].state # "HANDOVER_LEAVING"
  BY <1>7, <1>9, <1>11 DEF Serving
<1> QED
  BY <1>1, <1>11, <1>16, <1>18, <1>19, <1>20, <1>21, <1>22, <1>23, <1>24, LinkParts, CalmFollows
----------------------------------------------------------------------------
(* What does not happen: a radio failure, or a new connection.             *)
LEMMA NoRadioFailure ==
  ASSUME Fast
  PROVE  /\ ~RandomAccessFailed /\ ~RadioLinkFailure
         /\ \A k \in Keys : ~HandoverJoiningTimeout(k) /\ ~HandoverLeavingTimeout(k)
<1>1. /\ "raFailure" \notin faults /\ "rlf" \notin faults
      /\ "noContact" \notin faults /\ "lateRelease" \notin faults
  BY DEF Fast, GoodRadio, Refusals
<1> QED
  BY <1>1 DEF RandomAccessFailed, RadioLinkFailure, HandoverJoiningTimeout, HandoverLeavingTimeout

(* The UE is connected, so that it does not connect again.                 *)
LEMMA NoNewConnection ==
  ASSUME IInv, Calm
  PROVE  /\ \A c \in Cells : ~RandomAccess(c)
         /\ \A k \in Keys : ~ConnectionRequestTimeout(k)
         /\ \A r \in s1 : ~InitialContextSetup(r)
         /\ ~RecvRrcConnectionRelease /\ ~RecvRrcConnectionSetup /\ ~RecvRrcConnectionRequest
         /\ ~RecvRrcConnectionSetupCompleted /\ ~RecvIdealUeContextRemoveRequest
<1>1. \A c \in Cells : ~RandomAccess(c)
  BY DEF Calm, UeExpected, RandomAccess
<1>2. ASSUME NEW k \in Keys, ConnectionRequestTimeout(k) PROVE FALSE
  <2>1. ueMap[k].timer = "request"
    BY <1>2 DEF ConnectionRequestTimeout
  <2>2. ueMap[k].state = "INITIAL_RANDOM_ACCESS"
    BY <2>1 DEF IInv, TimerOfState
  <2> QED
    BY <2>2 DEF Calm, FirstTunnel, Present, Serving
<1>3. \A r \in s1 : ~InitialContextSetup(r)
  BY DEF Calm, SwitchesAwaited, InitialContextSetup
<1>4. ASSUME air # <<>>
      PROVE  Head(air).kind \in {"command", "reconfiguration", "completed"}
  <2>1. PICK m : m = Head(air) /\ air = <<m>>
    BY <1>4, DueMessage
  <2>2. 1 \in 1 .. Len(air) /\ air[1] = m
    BY <2>1
  <2> QED
    BY <2>1, <2>2 DEF Calm, UeExpected
<1>5. /\ ~RecvRrcConnectionRelease /\ ~RecvRrcConnectionSetup /\ ~RecvRrcConnectionRequest
      /\ ~RecvRrcConnectionSetupCompleted /\ ~RecvIdealUeContextRemoveRequest
  BY <1>4 DEF AirHead, RecvRrcConnectionRelease, RecvRrcConnectionSetup,
     RecvRrcConnectionRequest, RecvRrcConnectionSetupCompleted, RecvIdealUeContextRemoveRequest
<1> QED
  BY <1>1, <1>2, <1>3, <1>5

(* At the start there is one context, and nothing is in flight.            *)
LEMMA InitCalm ==
  ASSUME Init
  PROVE  Calm
<1>1. PICK x : x = [Absent EXCEPT !.state = "CONNECTED_NORMALLY", !.teid = Home]
  OBVIOUS
<1>2. x.state = "CONNECTED_NORMALLY" /\ x.teid = Home
  BY <1>1 DEF Absent
<1>3. \A k \in Keys : ueMap[k] = IF k = Home THEN x ELSE Absent
  BY <1>1 DEF Init
<1>4. \A k \in Keys : /\ Present(k) => k = Home /\ ueMap[k].teid = Home
                      /\ ueMap[k].state \in {"CONNECTED_NORMALLY", "ABSENT"}
  BY <1>2, <1>3, AbsentContext DEF Present
<1>5. \A l \in Links : Len(x2[l]) = 0
  BY DEF Init
<1>6. OnePair /\ Forwards /\ FirstTunnel
  BY <1>4 DEF OnePair, Forwards, FirstTunnel, Serving, Present
<1>7. SwitchesAwaited /\ AllExpected
  BY <1>5 DEF Init, SwitchesAwaited, AllExpected
<1>8. UeExpected
  <2>1. ue.state = "normal" /\ Len(air) = 0
    BY DEF Init
  <2> QED
    BY <2>1 DEF UeExpected
<1> QED
  BY <1>6, <1>7, <1>8 DEF Init, Calm

(* Every step keeps the invariant.                                         *)
LEMMA StepCalm ==
  ASSUME IInv, Fast, Calm, Next
  PROVE  Calm'
<1>1. CASE \E t \in Cells : MeasurementReport(t) \/ RandomAccess(t)
  BY <1>1, ReportCalm, NoNewConnection
<1>2. CASE \E k \in Keys : RecvS1uData(k) \/ TimeoutOf(k)
  BY <1>2, S1uDataCalm, NoRadioFailure, NoNewConnection DEF TimeoutOf
<1>3. CASE \E l \in Links : X2Step(l)
  BY <1>3, HandoverRequestCalm, RequestAckCalm, PreparationFailureCalm, SnStatusCalm,
     ContextReleaseCalm, UeDataCalm DEF X2Step
<1>4. CASE AirStep
  BY <1>4, CommandCalm, ReconfigurationCalm, CompletedCalm, NoNewConnection DEF AirStep
<1>5. CASE S1Step
  BY <1>5, PathSwitchCalm, NoNewConnection DEF S1Step
<1>6. CASE RandomAccessEnds
  BY <1>6, AccessCalm, NoRadioFailure DEF RandomAccessEnds
<1>7. ~RadioLinkFailure /\ ~Abort
  BY NoRadioFailure, NothingAborts
<1> QED
  BY <1>1, <1>2, <1>3, <1>4, <1>5, <1>6, <1>7 DEF Next

(* Nothing changes at all.                                                 *)
LEMMA StutterCalm ==
  ASSUME IInv, Calm, UNCHANGED vars
  PROVE  Calm'
<1>1. UNCHANGED <<ueMap, x2, s1, aborted, ue, air>>
  BY DEF vars
<1>2. UeExpected'
  BY <1>1 DEF Calm, UeExpected
<1> QED
  BY <1>1, <1>2, UeStepCalm

(* What may go wrong in a simulation is fixed when it starts.              *)
LEMMA FaultsStay ==
  ASSUME [Next]_vars
  PROVE  faults' = faults
BY DEF Next, vars, MeasurementReport, RandomAccess, RecvS1uData, TimeoutOf,
   HandoverJoiningTimeout, HandoverLeavingTimeout, ConnectionRequestTimeout, X2Step,
   RecvHandoverRequest, RecvHandoverRequestAck, RecvHandoverPreparationFailure,
   RecvSnStatusTransfer, RecvUeContextRelease, RecvUeData, AirStep, RecvHandoverCommand,
   RecvReconfiguration, RecvRrcConnectionRelease, RecvRrcConnectionSetup,
   RecvRrcConnectionRequest, RecvRrcConnectionSetupCompleted, RecvReconfigurationCompleted,
   RecvIdealUeContextRemoveRequest, S1Step, PathSwitchRequestAcknowledge, InitialContextSetup,
   RandomAccessEnds, RandomAccessSuccessful, RandomAccessFailed, RadioLinkFailure, Abort

(* THE INVARIANT. For any number of cells, with a good radio and links     *)
(* that are not slow, every message in flight meets the context it is for, *)
(* and no assertion has failed.                                            *)
THEOREM FastLinksInvariance == Spec => []FInv
<1>1. Init => FInv
  BY InitCalm DEF FInv
<1>2. ASSUME IInv, FInv, [Next]_vars PROVE FInv'
  <2>1. Fast' <=> Fast
    BY <1>2, FaultsStay DEF Fast, GoodRadio
  <2>2. Fast => Calm'
    BY <1>2, StepCalm, StutterCalm DEF FInv
  <2> QED
    BY <2>1, <2>2 DEF FInv
<1> QED
  BY <1>1, <1>2, X2Invariance, PTL DEF Spec

(* No NS_ASSERT and no NS_FATAL_ERROR of the handlers fails in a           *)
(* simulation with a good radio whose X2 messages arrive before the next   *)
(* measurement or timeout, for any number of cells and handovers, refused  *)
(* or not: every GetUeManager finds its context, every switch has a case   *)
(* for the state, and a tunnel is registered once, before packets come.    *)
THEOREM FastLinksNeverAbort == Spec => []("slow" \notin faults => NoAbort)
<1>1. FInv => ("slow" \notin faults => NoAbort)
  BY DEF FInv, Fast, Calm, NoAbort
<1> QED
  BY <1>1, FastLinksInvariance, PTL
==============================================================================
