-------------------------- MODULE X2Handover_proofs --------------------------
(***************************************************************************)
(* Proofs about the X2 handover, for any number of cells, any bounds and   *)
(* any faults: UE and network agree on where the UE is, timers run exactly *)
(* in the states their handlers assert, a source context outlives its      *)
(* handover, reports meet a context, and a good radio loses no packet.     *)
(*                                                                         *)
(* The invariant says what every message in flight, on X2 or between UE    *)
(* and eNB, implies for the contexts at both of its ends.                  *)
(***************************************************************************)
EXTENDS X2Handover, WellFoundedInduction, TLAPS

(* A context that waits for the UE, or has got it and waits for the core,  *)
(* on behalf of a handover from context k.                                 *)
Joined(j, k) ==
  ueMap[j].state \in {"HANDOVER_JOINING", "HANDOVER_PATH_SWITCH"} /\ ueMap[j].source = k

(* RNTIs are never used twice: whatever is referred to has been allocated. *)
Known(k) == k \in Keys /\ k[2] <= lastRnti[k[1]]
RntisKnown ==
  /\ \A k \in Keys : ueMap[k].state # "ABSENT" => Known(k)
  /\ Known(peer)
  /\ ue.state # "idle" => Known(ue.key)
  /\ \A i \in 1 .. Len(air) : air[i].kind = "command" => Known(air[i].new)

(* A context forwards to another cell, and a joining one answers to        *)
(* another cell, whose context has not gone back to normal.                *)
ContextsOK ==
  \A k \in Keys :
    /\ ueMap[k].x2u => ueMap[k].state \in Serving \cup {"HANDOVER_LEAVING", "HANDOVER_JOINING"}
    /\ ueMap[k].state \in {"HANDOVER_PREPARATION", "HANDOVER_LEAVING"} =>
         ueMap[k].target \in Cells \ {k[1]}
    /\ \A s \in {ueMap[k].source} : Joined(k, s) =>
         /\ Known(s) /\ s[1] # k[1]
         /\ ueMap[s].state \in {"HANDOVER_PREPARATION", "HANDOVER_LEAVING", "ABSENT"}
         /\ \A j \in Keys : Joined(j, s) => j = k

(* The messages of one handover: what their sender and receiver are.       *)
Handshake == {"request", "ack", "failure", "release"}
(* A context that has asked for a handover, or is gone since.              *)
AskedFor(k) == ueMap[k].state \in {"HANDOVER_PREPARATION", "ABSENT"}
(* No target is, or was and still waits for the core, on behalf of k.      *)
NobodyJoins(k) == \A j \in Keys : ~Joined(j, k)
(* What message m on link l implies.                                       *)
MessageOK(l, m) ==
  /\ m.kind = "data" => m.data \in 1 .. MaxData
  /\ m.kind \in Handshake => Known(m.old)
  /\ m.kind = "request" => m.old[1] = l[1] /\ AskedFor(m.old) /\ NobodyJoins(m.old)
  /\ m.kind = "ack" =>
       /\ m.old[1] = l[2] /\ AskedFor(m.old)
       /\ Known(m.new) /\ m.new[1] = l[1]
       /\ ueMap[m.new].state \in {"HANDOVER_JOINING", "ABSENT"}
       /\ ueMap[m.new].state = "HANDOVER_JOINING" => ueMap[m.new].source = m.old
       /\ \A j \in Keys : Joined(j, m.old) => j = m.new
  /\ m.kind = "failure" =>
       /\ m.old[1] = l[2] /\ NobodyJoins(m.old)
       /\ ueMap[m.old].state \in {"HANDOVER_PREPARATION", "HANDOVER_LEAVING", "ABSENT"}
       /\ GoodRadio => AskedFor(m.old)
  /\ m.kind = "release" =>
       /\ m.old[1] = l[2] /\ NobodyJoins(m.old)
       /\ ueMap[m.old].state \in {"HANDOVER_LEAVING", "ABSENT"}
(* ... for every message on every link.                                    *)
MessagesOK == \A l \in Links : \A i \in 1 .. Len(x2[l]) : MessageOK(l, x2[l][i])

(* A handover has one message on its way at a time, but for a target that  *)
(* gives up before its acknowledgement has arrived.                        *)
Follows(l1, i, l2, j) ==
  /\ ~GoodRadio
  /\ l1 = l2 /\ i < j /\ x2[l1][i].kind = "ack" /\ x2[l2][j].kind = "failure"
OneMessage ==
  \A l1, l2 \in Links : \A i \in 1 .. Len(x2[l1]), j \in 1 .. Len(x2[l2]) :
    /\ x2[l1][i].kind \in Handshake /\ x2[l2][j].kind \in Handshake
    /\ x2[l1][i].old = x2[l2][j].old
    => \/ l1 = l2 /\ i = j
       \/ Follows(l1, i, l2, j)
       \/ Follows(l2, j, l1, i)

(* Where the UE is, seen from the network.                                 *)
Serves(k) == ueMap[k].state \in Serving \cup {"ATTACH_REQUEST"}
(* Exactly context k serves the UE.                                        *)
OnlyAt(k) == \A j \in Keys : Serves(j) <=> j = k
(* No context serves the UE.                                               *)
Nowhere == \A j \in Keys : ~Serves(j)
(* A context that waits for the UE, or has given up.                       *)
Awaited(k) == ueMap[k].state \in {"HANDOVER_JOINING", "ABSENT"}
(* The UE is on its way from s to k, and s has not been released.          *)
Moving(s, k) ==
  /\ Nowhere /\ Awaited(k)
  /\ ueMap[s].state = "HANDOVER_LEAVING"
  /\ ueMap[k].state = "HANDOVER_JOINING" => ueMap[k].source = s
  /\ \A l \in Links : \A i \in 1 .. Len(x2[l]) : ~(x2[l][i].kind = "release" /\ x2[l][i].old = s)
(* The UE is connected and its protocol object points to the same eNB.     *)
Attached(k) == ue.state = "normal" /\ ue.key = k /\ peer = k

(* Between two events, ...                                                 *)
WhenQuiet ==
  CASE ue.state = "normal" -> Attached(ue.key) /\ OnlyAt(ue.key)
    [] ue.state = "handover" -> Moving(peer, ue.key)
    [] ue.state = "idle" -> Nowhere
    [] ue.state = "connecting" -> FALSE

(* ... and while an RRC message is due.                                    *)
WhenDue(m) ==
  CASE m.kind = "command" -> Attached(ue.key) /\ Moving(ue.key, m.new)
    [] m.kind = "reconfiguration" ->
         /\ Attached(ue.key) /\ OnlyAt(ue.key)
         /\ ueMap[ue.key].state = "CONNECTION_RECONFIGURATION"
    [] m.kind = "completed" ->
         /\ Attached(m.to)
         /\ \/ OnlyAt(m.to) /\ ueMap[m.to].state = "CONNECTION_RECONFIGURATION"
            \/ /\ Nowhere /\ Awaited(m.to)
               /\ ueMap[m.to].state = "HANDOVER_JOINING" =>
                    ueMap[ueMap[m.to].source].state = "HANDOVER_LEAVING"
    [] m.kind = "release" ->
         \/ Attached(ue.key) /\ OnlyAt(ue.key)
         \/ ue.state = "handover" /\ Nowhere /\ Awaited(ue.key)
         \/ ue.state = "idle" /\ Nowhere
    [] m.kind = "remove" ->
         /\ ue.state = "idle" /\ Known(m.to)
         /\ Serves(m.to) \/ Awaited(m.to)
         /\ \A j \in Keys : Serves(j) => j = m.to
    [] m.kind = "request" ->
         /\ ue.state = "connecting" /\ ue.key = m.to /\ peer = m.to /\ Nowhere
         /\ ueMap[m.to].state = "INITIAL_RANDOM_ACCESS"
    [] m.kind = "setup" ->
         /\ ue.state = "connecting" /\ ue.key = peer /\ Nowhere
         /\ ueMap[peer].state = "CONNECTION_SETUP"
    [] m.kind = "setupCompleted" ->
         Attached(m.to) /\ Nowhere /\ ueMap[m.to].state = "CONNECTION_SETUP"

(* The UE is where one of these descriptions puts it; with a good radio it *)
(* is never sent away.                                                     *)
UePlaced ==
  /\ ue.leave <=> ue.state \in {"idle", "connecting"}
  /\ \/ air = <<>> /\ WhenQuiet
     \/ \E m \in AirMessages :
          air = <<m>> /\ WhenDue(m) /\ (GoodRadio => m.kind \notin {"release", "remove"})

(* The source of a path switch waits for it, unless the UE is being sent   *)
(* away.                                                                   *)
SourceWaits ==
  \A k \in Keys :
    ueMap[k].state = "HANDOVER_PATH_SWITCH" =>
      \/ ueMap[ueMap[k].source].state = "HANDOVER_LEAVING"
      \/ \E m \in AirMessages :
           /\ air = <<m>>
           /\ m.kind = "release" \/ (m.kind = "remove" /\ m.to = k)

(* The inductive invariant.                                                *)
IInv ==
  /\ TypeOK /\ TimerOfState /\ RntisKnown /\ ContextsOK /\ MessagesOK /\ OneMessage
  /\ UePlaced /\ SourceWaits /\ PacketsAccountedFor
----------------------------------------------------------------------------
(* Keys and links.                                                         *)
LEMMA KeyParts ==
  /\ \A k \in Keys : k[1] \in Cells /\ k[2] \in 1 .. MaxRnti /\ k = <<k[1], k[2]>>
  /\ \A c \in Cells : \A r \in 1 .. MaxRnti :
       <<c, r>> \in Keys /\ <<c, r>>[1] = c /\ <<c, r>>[2] = r
  /\ NoKey \notin Keys
BY X2Constants DEF Keys, NoKey

(* Not a link.                                                             *)
NoLink == <<0, 0>>
(* The two ends of a link, and the link between two cells.                 *)
LEMMA LinkParts ==
  /\ \A l \in Links : /\ l[1] \in Cells /\ l[2] \in Cells /\ l[1] # l[2]
                      /\ l = <<l[1], l[2]>> /\ <<l[2], l[1]>> \in Links
  /\ \A c, d \in Cells : c # d => <<c, d>> \in Links
  /\ NoLink \notin Links
BY X2Constants DEF Links, NoLink

(* How the links change: the first message of link r is taken off, and m   *)
(* is appended to link s; NoLink stands for none.                          *)
Before(r, l, i) == IF l = r THEN i + 1 ELSE i
(* Every message that is on a link after the step was there before it or   *)
(* is m.                                                                   *)
Moved(r, s, m) ==
  \A l \in Links : \A i \in 1 .. Len(x2'[l]) :
    \/ Before(r, l, i) \in 1 .. Len(x2[l]) /\ x2'[l][i] = x2[l][Before(r, l, i)]
    \/ l = s /\ i = Len(x2'[l]) /\ x2'[l][i] = m

(* What is not taken off stays, and what is appended is there.             *)
Kept(r, s, m) ==
  /\ \A l \in Links : \A i \in 1 .. Len(x2[l]) :
       ~(l = r /\ i = 1) => \E j \in 1 .. Len(x2'[l]) : x2'[l][j] = x2[l][i]
  /\ s \in Links => \E j \in 1 .. Len(x2'[s]) : x2'[s][j] = m

(* The links' part of the type invariant.                                  *)
X2OK == x2 \in [Links -> Seq(X2Messages)]

(* Messages appended to, and taken from, a sequence.                       *)
LEMMA AppendOne ==
  ASSUME NEW S, NEW q \in Seq(S), NEW m \in S
  PROVE  /\ Append(q, m) \in Seq(S) /\ Len(Append(q, m)) = Len(q) + 1
         /\ \A i \in 1 .. Len(q) : Append(q, m)[i] = q[i]
         /\ Append(q, m)[Len(q) + 1] = m
OBVIOUS

(* ... and what is left of a sequence without its first element.           *)
LEMMA TakeOne ==
  ASSUME NEW S, NEW q \in Seq(S), q # <<>>
  PROVE  /\ Tail(q) \in Seq(S) /\ Len(Tail(q)) = Len(q) - 1
         /\ \A i \in 1 .. Len(q) - 1 : Tail(q)[i] = q[i + 1]
         /\ Head(q) = q[1] /\ Head(q) \in S /\ Len(q) \in Nat \ {0}
OBVIOUS

(* Nothing is sent or received.                                            *)
LEMMA StaysMoves ==
  ASSUME X2OK, x2' = x2, NEW m
  PROVE  X2OK' /\ Moved(NoLink, NoLink, m) /\ Kept(NoLink, NoLink, m)
BY LinkParts DEF X2OK, Moved, Kept, Before

(* A message is sent.                                                      *)
LEMMA SentMoves ==
  ASSUME X2OK, NEW f, NEW t, NEW m \in X2Messages, x2' = Sent(x2, f, t, m)
  PROVE  X2OK' /\ Moved(NoLink, <<f, t>>, m) /\ Kept(NoLink, <<f, t>>, m)
<1> DEFINE s == <<f, t>>
<1>1. \A l \in Links : x2'[l] = IF l = s THEN Append(x2[l], m) ELSE x2[l]
  BY DEF X2OK, Sent
<1>2. X2OK'
  BY AppendOne DEF X2OK, Sent
<1> HIDE DEF s
<1>3. ASSUME NEW l \in Links, l = s
      PROVE  /\ Len(x2'[l]) = Len(x2[l]) + 1 /\ Len(x2[l]) \in Nat
             /\ \A i \in 1 .. Len(x2[l]) : x2'[l][i] = x2[l][i]
             /\ x2'[l][Len(x2[l]) + 1] = m
  <2>1. x2[l] \in Seq(X2Messages) /\ x2'[l] = Append(x2[l], m)
    BY <1>1, <1>3 DEF X2OK
  <2>2. Len(x2[l]) \in Nat
    BY <2>1
  <2> QED
    BY <2>1, <2>2, AppendOne
<1>4. Moved(NoLink, s, m)
  BY <1>1, <1>3, LinkParts DEF Moved, Before, X2OK
<1>5. Kept(NoLink, s, m)
  <2>1. ASSUME s \in Links PROVE \E j \in 1 .. Len(x2'[s]) : x2'[s][j] = m
    BY <1>3, <2>1
  <2>2. ASSUME NEW l \in Links, NEW i \in 1 .. Len(x2[l])
        PROVE  i \in 1 .. Len(x2'[l]) /\ x2'[l][i] = x2[l][i]
    BY <1>1, <1>3
  <2> QED
    BY <2>1, <2>2 DEF Kept
<1> QED
  BY <1>2, <1>4, <1>5 DEF s

(* A message is received.                                                  *)
LEMMA ReceivedMoves ==
  ASSUME X2OK, NEW r \in Links, x2[r] # <<>>, x2' = Received(r), NEW m
  PROVE  X2OK' /\ Moved(r, NoLink, m) /\ Kept(r, NoLink, m)
<1>1. \A l \in Links : x2'[l] = IF l = r THEN Tail(x2[l]) ELSE x2[l]
  BY DEF X2OK, Received
<1>2. X2OK'
  BY TakeOne DEF X2OK, Received
<1>3. /\ Len(x2'[r]) = Len(x2[r]) - 1 /\ Len(x2[r]) \in Nat \ {0}
      /\ \A i \in 1 .. Len(x2[r]) - 1 : x2'[r][i] = x2[r][i + 1]
  <2>1. x2[r] \in Seq(X2Messages) /\ x2'[r] = Tail(x2[r])
    BY <1>1 DEF X2OK
  <2> QED
    BY <2>1, TakeOne
<1>4. Moved(r, NoLink, m)
  BY <1>1, <1>3 DEF Moved, Before, X2OK
<1>5. Kept(r, NoLink, m)
  <2>1. ASSUME NEW l \in Links, NEW i \in 1 .. Len(x2[l]), ~(l = r /\ i = 1)
        PROVE  \E j \in 1 .. Len(x2'[l]) : x2'[l][j] = x2[l][i]
    <3>1. CASE l = r
      <4>1. i - 1 \in 1 .. Len(x2[r]) - 1 /\ (i - 1) + 1 = i
        BY <1>3, <2>1, <3>1
      <4>2. x2'[r][i - 1] = x2[r][i]
        BY <1>3, <4>1
      <4> QED
        BY <1>3, <3>1, <4>1, <4>2
    <3>2. CASE l # r
      BY <1>1, <3>2
    <3> QED
      BY <3>1, <3>2
  <2> QED
    BY <2>1, LinkParts DEF Kept
<1> QED
  BY <1>2, <1>4, <1>5

(* A message is received and answered.                                     *)
LEMMA AnsweredMoves ==
  ASSUME X2OK, NEW r \in Links, x2[r] # <<>>, NEW f, NEW t, NEW m \in X2Messages,
         <<f, t>> # r, x2' = Sent(Received(r), f, t, m)
  PROVE  X2OK' /\ Moved(r, <<f, t>>, m) /\ Kept(r, <<f, t>>, m)
<1> DEFINE s == <<f, t>>
<1>1. \A l \in Links :
        x2'[l] = IF l = s THEN Append(x2[l], m) ELSE IF l = r THEN Tail(x2[l]) ELSE x2[l]
  BY DEF X2OK, Sent, Received
<1>2. X2OK'
  <2>1. Received(r) \in [Links -> Seq(X2Messages)]
    BY TakeOne DEF X2OK, Received
  <2> QED
    BY <2>1, AppendOne DEF X2OK, Sent
<1>3. s # r
  OBVIOUS
<1> HIDE DEF s
<1>4. /\ Len(x2'[r]) = Len(x2[r]) - 1 /\ Len(x2[r]) \in Nat \ {0}
      /\ \A i \in 1 .. Len(x2[r]) - 1 : x2'[r][i] = x2[r][i + 1]
  <2>1. x2[r] \in Seq(X2Messages) /\ x2'[r] = Tail(x2[r])
    BY <1>1, <1>3 DEF X2OK
  <2> QED
    BY <2>1, TakeOne
<1>5. ASSUME NEW l \in Links, l = s
      PROVE  /\ Len(x2'[l]) = Len(x2[l]) + 1 /\ Len(x2[l]) \in Nat
             /\ \A i \in 1 .. Len(x2[l]) : x2'[l][i] = x2[l][i]
             /\ x2'[l][Len(x2[l]) + 1] = m
  <2>1. x2[l] \in Seq(X2Messages) /\ x2'[l] = Append(x2[l], m)
    BY <1>1, <1>5 DEF X2OK
  <2>2. Len(x2[l]) \in Nat
    BY <2>1
  <2> QED
    BY <2>1, <2>2, AppendOne
<1>6. Moved(r, s, m)
  BY <1>1, <1>3, <1>4, <1>5 DEF Moved, Before, X2OK
<1>7. Kept(r, s, m)
  <2>1. ASSUME s \in Links PROVE \E j \in 1 .. Len(x2'[s]) : x2'[s][j] = m
    BY <1>5, <2>1
  <2>2. ASSUME NEW l \in Links, NEW i \in 1 .. Len(x2[l]), ~(l = r /\ i = 1)
        PROVE  \E j \in 1 .. Len(x2'[l]) : x2'[l][j] = x2[l][i]
    <3>1. CASE l = r
      <4>1. i - 1 \in 1 .. Len(x2[r]) - 1 /\ (i - 1) + 1 = i
        BY <1>4, <2>2, <3>1
      <4>2. x2'[r][i - 1] = x2[r][i]
        BY <1>4, <4>1
      <4> QED
        BY <1>4, <3>1, <4>1, <4>2
    <3>2. CASE l # r /\ l # s
      BY <1>1, <3>2
    <3>3. CASE l = s
      <4>1. i \in 1 .. Len(x2'[l]) /\ x2'[l][i] = x2[l][i]
        BY <1>5, <3>3
      <4> QED
        BY <4>1
    <3> QED
      BY <3>1, <3>2, <3>3
  <2> QED
    BY <2>1, <2>2 DEF Kept
<1> QED
  BY <1>2, <1>6, <1>7 DEF s

(* The messages on the links stay as they should be if those that remain   *)
(* do and the new one is.                                                  *)
LEMMA MessagesFollow ==
  ASSUME X2OK, MessagesOK, NEW r, NEW s, NEW m, Moved(r, s, m),
         s \in Links => MessageOK(s, m)',
         \A l \in Links : \A i \in 1 .. Len(x2[l]) : \A n \in X2Messages :
           ~(l = r /\ i = 1) /\ n = x2[l][i] /\ MessageOK(l, n) => MessageOK(l, n)'
  PROVE  MessagesOK'
<1> SUFFICES ASSUME NEW l \in Links, NEW i \in 1 .. Len(x2'[l]), NEW n, n = x2'[l][i]
             PROVE  MessageOK(l, n)'
  BY DEF MessagesOK
<1>1. CASE l = s /\ i = Len(x2'[l]) /\ x2'[l][i] = m
  BY <1>1
<1>2. CASE Before(r, l, i) \in 1 .. Len(x2[l]) /\ x2'[l][i] = x2[l][Before(r, l, i)]
  <2>1. PICK k \in 1 .. Len(x2[l]) : k = Before(r, l, i)
    BY <1>2
  <2>2. ~(l = r /\ k = 1)
    BY <2>1 DEF Before
  <2>3. n = x2[l][k] /\ n \in X2Messages
    BY <1>2, <2>1 DEF X2OK
  <2>4. MessageOK(l, n)
    BY <2>3 DEF MessagesOK
  <2> QED
    BY <2>2, <2>3, <2>4
<1> QED
  BY <1>1, <1>2 DEF Moved

(* A handover keeps to one message at a time if the new one meets none.    *)
LEMMA OneMessageFollows ==
  ASSUME X2OK, OneMessage, faults' = faults, NEW r, NEW s, NEW m, Moved(r, s, m), X2OK',
         s \in Links /\ m.kind \in Handshake =>
           \A l \in Links : \A i \in 1 .. Len(x2[l]) :
             ~(l = r /\ i = 1) /\ x2[l][i].kind \in Handshake /\ x2[l][i].old = m.old =>
               l = s /\ ~GoodRadio /\ x2[l][i].kind = "ack" /\ m.kind = "failure"
  PROVE  OneMessage'
<1>1. GoodRadio' = GoodRadio
  BY DEF GoodRadio
<1>2. \A l \in Links : Len(x2[l]) \in Nat /\ Len(x2'[l]) \in Nat
  BY DEF X2OK
<1> SUFFICES ASSUME NEW l1 \in Links, NEW l2 \in Links,
                    NEW i \in 1 .. Len(x2'[l1]), NEW j \in 1 .. Len(x2'[l2]),
                    x2'[l1][i].kind \in Handshake, x2'[l2][j].kind \in Handshake,
                    x2'[l1][i].old = x2'[l2][j].old
             PROVE  \/ l1 = l2 /\ i = j
                    \/ Follows(l1, i, l2, j)'
                    \/ Follows(l2, j, l1, i)'
  BY DEF OneMessage
<1> DEFINE Old(l, k) == /\ Before(r, l, k) \in 1 .. Len(x2[l])
                        /\ x2'[l][k] = x2[l][Before(r, l, k)]
           New(l, k) == l = s /\ k = Len(x2'[l]) /\ x2'[l][k] = m
<1>3. (Old(l1, i) \/ New(l1, i)) /\ (Old(l2, j) \/ New(l2, j))
  BY DEF Moved
<1>4. CASE New(l1, i) /\ New(l2, j)
  BY <1>4
<1>5. CASE Old(l1, i) /\ Old(l2, j)
  <2>1. PICK a \in 1 .. Len(x2[l1]), b \in 1 .. Len(x2[l2]) :
          a = Before(r, l1, i) /\ b = Before(r, l2, j)
    BY <1>5
  <2>2. \/ l1 = l2 /\ a = b
        \/ Follows(l1, a, l2, b)
        \/ Follows(l2, b, l1, a)
    BY <1>5, <2>1 DEF OneMessage
  <2>3. l1 = l2 => (a = b <=> i = j) /\ (a < b <=> i < j) /\ (b < a <=> j < i)
    BY <1>2, <2>1 DEF Before
  <2> QED
    BY <1>1, <1>5, <2>1, <2>2, <2>3 DEF Follows
<1>6. ASSUME NEW l \in Links, NEW k \in 1 .. Len(x2'[l]), Old(l, k),
             s \in Links, m.kind \in Handshake,
             x2'[l][k].kind \in Handshake, x2'[l][k].old = m.old
      PROVE  l = s /\ ~GoodRadio' /\ x2'[l][k].kind = "ack" /\ m.kind = "failure"
  <2>1. PICK a \in 1 .. Len(x2[l]) : a = Before(r, l, k)
    BY <1>6
  <2>2. ~(l = r /\ a = 1)
    BY <2>1 DEF Before
  <2> QED
    BY <1>1, <1>6, <2>1, <2>2
<1>7. CASE Old(l1, i) /\ New(l2, j)
  <2>1. l1 = s /\ ~GoodRadio' /\ x2'[l1][i].kind = "ack" /\ m.kind = "failure"
    BY <1>6, <1>7
  <2>2. l1 = l2 /\ (i < j \/ i = j)
    BY <1>2, <1>7, <2>1
  <2> QED
    BY <1>7, <2>1, <2>2 DEF Follows
<1>8. CASE New(l1, i) /\ Old(l2, j)
  <2>1. l2 = s /\ ~GoodRadio' /\ x2'[l2][j].kind = "ack" /\ m.kind = "failure"
    BY <1>6, <1>8
  <2>2. l1 = l2 /\ (j < i \/ i = j)
    BY <1>2, <1>8, <2>1
  <2> QED
    BY <1>8, <2>1, <2>2 DEF Follows
<1> QED
  BY <1>3, <1>4, <1>5, <1>7, <1>8
----------------------------------------------------------------------------
(* What a change of one context does to each part of the invariant.  When  *)
(* it is removed, others of its cell may lose their entry for the tunnel.  *)
ChangesOnly(k) ==
  \A j \in Keys : j # k =>
    /\ ueMap'[j].state = ueMap[j].state /\ ueMap'[j].timer = ueMap[j].timer
    /\ ueMap'[j].target = ueMap[j].target /\ ueMap'[j].source = ueMap[j].source
    /\ ueMap'[j].pending = ueMap[j].pending /\ ueMap'[j].teid = ueMap[j].teid
    /\ ueMap'[j].buffer = ueMap[j].buffer
    /\ ueMap'[j].x2u => ueMap[j].x2u
(* Mostly the others stay as they are.                                     *)
ChangesAlone(k) == \A j \in Keys : j # k => ueMap'[j] = ueMap[j]
(* An RNTI that has been allocated stays so.                               *)
KnownStays == \A k \in Keys : Known(k) => Known(k)'
(* The states in which a source may be while a target joins for it.        *)
Leftover == {"HANDOVER_PREPARATION", "HANDOVER_LEAVING", "ABSENT"}

(* m_lastAllocatedRnti only grows.                                         *)
LEMMA KnownFollows ==
  ASSUME TypeOK, \A c \in Cells : lastRnti'[c] >= lastRnti[c], lastRnti' \in [Cells -> 0 .. MaxRnti]
  PROVE  KnownStays
BY KeyParts, X2Constants DEF KnownStays, Known, TypeOK

(* A new context has an RNTI nobody knows, and knows it from then on.      *)
LEMMA NewKeys ==
  ASSUME TypeOK, NEW c \in Cells, NEW k, k = NewKey(c), lastRnti[c] < RntiBound,
         lastRnti' = [lastRnti EXCEPT ![c] = @ + 1]
  PROVE  /\ k \in Keys /\ k[1] = c /\ ~Known(k) /\ Known(k)'
         /\ lastRnti' \in [Cells -> 0 .. MaxRnti] /\ KnownStays
<1>1. lastRnti[c] + 1 \in 1 .. MaxRnti /\ lastRnti[c] \in Nat
  BY X2Constants DEF TypeOK, RntiBound
<1>2. k \in Keys /\ k[1] = c /\ k[2] = lastRnti[c] + 1
  BY <1>1, KeyParts DEF NewKey
<1>3. lastRnti' \in [Cells -> 0 .. MaxRnti]
  BY <1>1 DEF TypeOK
<1>4. KnownStays
  BY <1>3, KnownFollows DEF TypeOK
<1>5. lastRnti'[c] = lastRnti[c] + 1
  BY DEF TypeOK
<1> QED
  BY <1>1, <1>2, <1>3, <1>4, <1>5 DEF Known

(* The fields of a context.                                                *)
LEMMA ContextParts ==
  ASSUME NEW x \in Contexts
  PROVE  /\ x = [state |-> x.state, timer |-> x.timer, target |-> x.target, source |-> x.source,
                 pending |-> x.pending, teid |-> x.teid, x2u |-> x.x2u, buffer |-> x.buffer]
         /\ x.state \in States /\ x.timer \in {"none", "request", "joining", "leaving"}
         /\ x.target \in Cells \cup {0} /\ x.source \in Keys \cup {NoKey}
         /\ x.pending \in BOOLEAN /\ x.teid \in Keys \cup {NoKey} /\ x.x2u \in BOOLEAN
         /\ x.buffer \in SUBSET (1 .. MaxData)
BY DEF Contexts

(* The states of a context.                                                *)
LEMMA StateNames ==
  /\ Serving \subseteq States
  /\ {"ABSENT", "INITIAL_RANDOM_ACCESS", "CONNECTION_SETUP", "ATTACH_REQUEST",
      "HANDOVER_JOINING", "HANDOVER_LEAVING"} \subseteq States
  /\ {"CONNECTED_NORMALLY", "CONNECTION_RECONFIGURATION", "HANDOVER_PREPARATION",
      "HANDOVER_PATH_SWITCH"} \subseteq States
BY DEF States, Serving

(* A context that is replaced by another.                                  *)
LEMMA ContextChanges ==
  ASSUME TypeOK, NEW k \in Keys, NEW x \in Contexts, ueMap' = [ueMap EXCEPT ![k] = x]
  PROVE  ueMap' \in [Keys -> Contexts] /\ ChangesOnly(k) /\ ChangesAlone(k) /\ ueMap'[k] = x
<1>1. ueMap' \in [Keys -> Contexts] /\ ChangesAlone(k) /\ ueMap'[k] = x
  BY DEF TypeOK, ChangesAlone
<1> QED
  BY <1>1 DEF ChangesOnly, ChangesAlone

(* Timers agree with states if the one of the changed context does.        *)
LEMMA TimersFollow ==
  ASSUME TimerOfState, NEW k \in Keys, ChangesOnly(k),
         ueMap'[k].timer = CASE ueMap'[k].state = "INITIAL_RANDOM_ACCESS" -> "request"
                             [] ueMap'[k].state = "HANDOVER_JOINING" -> "joining"
                             [] ueMap'[k].state = "HANDOVER_LEAVING" -> "leaving"
                             [] OTHER -> "none"
  PROVE  TimerOfState'
BY DEF TimerOfState, ChangesOnly

(* The contexts stay consistent if the changed one is, and if it joins for *)
(* a source that nobody else joins for.                                    *)
LEMMA ContextsFollow ==
  ASSUME ContextsOK, TypeOK, ueMap' \in [Keys -> Contexts],
         NEW k \in Keys, ChangesOnly(k), KnownStays,
         ueMap'[k].x2u =>
           ueMap'[k].state \in Serving \cup {"HANDOVER_LEAVING", "HANDOVER_JOINING"},
         ueMap'[k].state \in {"HANDOVER_PREPARATION", "HANDOVER_LEAVING"} =>
           ueMap'[k].target \in Cells \ {k[1]},
         ueMap'[k].state \in Leftover \/ NobodyJoins(k),
         \A s \in Keys \cup {NoKey} : Joined(k, s)' =>
           \/ Joined(k, s)
           \/ Known(s) /\ s[1] # k[1] /\ ueMap[s].state \in Leftover /\ NobodyJoins(s)
  PROVE  ContextsOK'
<1>1. ASSUME NEW j \in Keys
      PROVE  /\ ueMap'[j].x2u =>
                  ueMap'[j].state \in Serving \cup {"HANDOVER_LEAVING", "HANDOVER_JOINING"}
             /\ ueMap'[j].state \in {"HANDOVER_PREPARATION", "HANDOVER_LEAVING"} =>
                  ueMap'[j].target \in Cells \ {j[1]}
  BY DEF ContextsOK, ChangesOnly
<1>2. ASSUME NEW j \in Keys, NEW s, Joined(j, s)', j # k
      PROVE  Joined(j, s)
  BY <1>2 DEF Joined, ChangesOnly
<1>3. ASSUME NEW j \in Keys, NEW s, Joined(j, s)
      PROVE  /\ Known(s) /\ s[1] # j[1] /\ ueMap[s].state \in Leftover
             /\ \A i \in Keys : Joined(i, s) => i = j
  BY <1>3 DEF ContextsOK, Joined, Leftover
<1>4. ASSUME NEW j \in Keys, NEW s, Joined(j, s)', Joined(j, s)
      PROVE  /\ Known(s)' /\ s[1] # j[1]
             /\ ueMap'[s].state \in Leftover
             /\ \A i \in Keys : Joined(i, s)' => i = j
  <2>1. Known(s) /\ s \in Keys /\ s[1] # j[1] /\ ueMap[s].state \in Leftover
    BY <1>3, <1>4 DEF Known
  <2>2. Known(s)'
    BY <2>1 DEF KnownStays
  <2>3. ueMap'[s].state \in Leftover
    <3>1. CASE s = k
      BY <1>4, <3>1 DEF NobodyJoins
    <3>2. CASE s # k
      BY <2>1, <3>2 DEF ChangesOnly
    <3> QED
      BY <3>1, <3>2
  <2>4. ASSUME NEW i \in Keys, Joined(i, s)' PROVE i = j
    <3>1. CASE Joined(i, s)
      BY <1>3, <1>4, <3>1
    <3>2. CASE ~Joined(i, s)
      <4>1. i = k
        BY <1>2, <2>4, <3>2
      <4>2. NobodyJoins(s)
        BY <2>1, <2>4, <3>2, <4>1
      <4> QED
        BY <1>4, <4>2 DEF NobodyJoins
    <3> QED
      BY <3>1, <3>2
  <2> QED
    BY <2>1, <2>2, <2>3, <2>4
<1>5. ASSUME NEW s \in Keys \cup {NoKey}, Joined(k, s)', ~Joined(k, s)
      PROVE  /\ Known(s)' /\ s[1] # k[1]
             /\ ueMap'[s].state \in Leftover
             /\ \A i \in Keys : Joined(i, s)' => i = k
  <2>1. Known(s) /\ s \in Keys /\ s[1] # k[1] /\ ueMap[s].state \in Leftover /\ NobodyJoins(s)
    BY <1>5 DEF Known
  <2>2. Known(s)' /\ s # k
    BY <2>1 DEF KnownStays
  <2>3. ueMap'[s].state \in Leftover
    BY <2>1, <2>2 DEF ChangesOnly
  <2> QED
    BY <1>2, <2>1, <2>2, <2>3 DEF NobodyJoins
<1>6. ASSUME NEW j \in Keys, NEW s, s = ueMap'[j].source, Joined(j, s)'
      PROVE  /\ Known(s)' /\ s[1] # j[1]
             /\ ueMap'[s].state \in Leftover
             /\ \A i \in Keys : Joined(i, s)' => i = j
  <2>1. CASE Joined(j, s)
    BY <1>4, <1>6, <2>1
  <2>2. CASE ~Joined(j, s)
    <3>1. j = k
      BY <1>2, <1>6, <2>2
    <3>2. s \in Keys \cup {NoKey}
      BY <1>6 DEF Contexts
    <3> QED
      BY <1>5, <1>6, <2>2, <3>1, <3>2
  <2> QED
    BY <2>1, <2>2
<1> QED
  BY <1>1, <1>6 DEF ContextsOK, Leftover

(* A message on a link stays consistent with contexts that change in a way *)
(* its two ends allow.                                                     *)
LEMMA MessageKept ==
  ASSUME NEW k \in Keys, ChangesOnly(k), KnownStays, faults' = faults,
         NEW l \in Links, NEW n \in X2Messages, MessageOK(l, n),
         n.kind \in Handshake /\ n.old = k =>
           \/ ueMap'[k].state \in {"ABSENT", ueMap[k].state}
           \/ n.kind = "failure" /\ ueMap'[k].state = "HANDOVER_LEAVING" /\ ~GoodRadio,
         n.kind = "ack" /\ n.new = k =>
           \/ ueMap'[k].state = "ABSENT"
           \/ ueMap'[k].state = ueMap[k].state /\ ueMap'[k].source = ueMap[k].source,
         n.kind \in Handshake /\ Joined(k, n.old)' => Joined(k, n.old)
  PROVE  MessageOK(l, n)'
<1>1. n.kind \in Handshake => n.old \in Keys /\ Known(n.old) /\ Known(n.old)'
  BY DEF MessageOK, Known, KnownStays
<1>2. n.kind \in Handshake => \A j \in Keys : Joined(j, n.old)' => Joined(j, n.old)
  BY DEF Joined, ChangesOnly
<1>3. n.kind \in Handshake =>
        \/ ueMap'[n.old].state \in {"ABSENT", ueMap[n.old].state}
        \/ n.kind = "failure" /\ ueMap'[n.old].state = "HANDOVER_LEAVING" /\ ~GoodRadio
  BY <1>1 DEF ChangesOnly
<1>4. n.kind = "ack" =>
        /\ Known(n.new)'
        /\ \/ ueMap'[n.new].state = "ABSENT"
           \/ ueMap'[n.new].state = ueMap[n.new].state /\ ueMap'[n.new].source = ueMap[n.new].source
  BY DEF MessageOK, Known, KnownStays, ChangesOnly
<1>5. GoodRadio' = GoodRadio
  BY DEF GoodRadio
<1>6. n.kind = "request" => MessageOK(l, n)'
  BY <1>1, <1>2, <1>3 DEF MessageOK, Handshake, NobodyJoins, AskedFor
<1>7. n.kind = "ack" => MessageOK(l, n)'
  BY <1>1, <1>2, <1>3, <1>4 DEF MessageOK, Handshake, NobodyJoins, AskedFor
<1>8. n.kind = "failure" => MessageOK(l, n)'
  BY <1>1, <1>2, <1>3, <1>5 DEF MessageOK, Handshake, NobodyJoins, AskedFor
<1>9. n.kind = "release" => MessageOK(l, n)'
  BY <1>1, <1>2, <1>3 DEF MessageOK, Handshake, NobodyJoins
<1> QED
  BY <1>6, <1>7, <1>8, <1>9 DEF MessageOK, Handshake

(* A step without a message and without a change of state.                 *)
LEMMA QuietFollows ==
  ASSUME air = <<>>, UNCHANGED <<air, ue, peer>>, TypeOK, UePlaced, RntisKnown,
         NEW k \in Keys, ChangesOnly(k), KnownStays,
         Serves(k)' <=> Serves(k),
         ueMap[k].state = "HANDOVER_LEAVING" => 
           \/ ueMap'[k].state = "HANDOVER_LEAVING"
           \/ ue.state = "handover" => k # peer,
         Awaited(k) /\ Known(k) =>
           \/ ueMap'[k].state = "ABSENT"
           \/ ueMap'[k].state = ueMap[k].state /\ ueMap'[k].source = ueMap[k].source,
         NEW r, NEW s, NEW m, Moved(r, s, m),
         m.kind = "release" => s \notin Links \/ Serves(k)
  PROVE  UePlaced'
<1>1. WhenQuiet
  BY DEF UePlaced
<1>2. \A j \in Keys : Serves(j)' <=> Serves(j)
  BY DEF ChangesOnly, Serves
<1>3. CASE ue.state = "handover"
  <2>1. Moving(peer, ue.key) /\ peer \in Keys /\ ue.key \in Keys /\ Known(ue.key)
    BY <1>1, <1>3 DEF WhenQuiet, TypeOK, RntisKnown, Known
  <2>2. Nowhere'
    BY <1>2, <2>1 DEF Moving, Nowhere
  <2>3. ueMap'[peer].state = "HANDOVER_LEAVING"
    BY <1>3, <2>1 DEF Moving, ChangesOnly
  <2>4. /\ Awaited(ue.key)'
        /\ ueMap'[ue.key].state = "HANDOVER_JOINING" => ueMap'[ue.key].source = peer
    BY <1>3, <2>1 DEF Moving, ChangesOnly, Awaited
  <2>5. ~Serves(k)
    BY <2>1 DEF Moving, Nowhere
  <2>6. ASSUME NEW l \in Links, NEW i \in 1 .. Len(x2'[l])
        PROVE  ~(x2'[l][i].kind = "release" /\ x2'[l][i].old = peer)
    BY <2>1, <2>5 DEF Moving, Moved
  <2>7. Moving(peer, ue.key)'
    BY <2>2, <2>3, <2>4, <2>6 DEF Moving
  <2> QED
    BY <1>3, <2>7 DEF UePlaced, WhenQuiet
<1>4. CASE ue.state # "handover"
  BY <1>1, <1>2, <1>4 DEF UePlaced, WhenQuiet, OnlyAt, Nowhere, Attached, TypeOK, UeStates
<1> QED
  BY <1>3, <1>4

(* Sources keep waiting if the changed context was not one of them.        *)
LEMMA SourcesFollow ==
  ASSUME SourceWaits, TypeOK, ContextsOK, air = <<>>, NEW k \in Keys, ChangesOnly(k),
         ueMap[k].state = "HANDOVER_LEAVING" =>
           ueMap'[k].state = "HANDOVER_LEAVING" \/ NobodyJoins(k),
         ueMap'[k].state = "HANDOVER_PATH_SWITCH" =>
           ueMap[k].state = "HANDOVER_PATH_SWITCH" /\ ueMap'[k].source = ueMap[k].source
  PROVE  SourceWaits'
<1> SUFFICES ASSUME NEW j \in Keys, ueMap'[j].state = "HANDOVER_PATH_SWITCH"
             PROVE  ueMap'[ueMap'[j].source].state = "HANDOVER_LEAVING"
  BY DEF SourceWaits
<1>1. ueMap[j].state = "HANDOVER_PATH_SWITCH" /\ ueMap'[j].source = ueMap[j].source
  BY DEF ChangesOnly
<1>2. ueMap[ueMap[j].source].state = "HANDOVER_LEAVING"
  BY <1>1 DEF SourceWaits
<1>3. Joined(j, ueMap[j].source) /\ ueMap[j].source \in Keys
  BY <1>1 DEF ContextsOK, Joined, Known
<1> QED
  BY <1>1, <1>2, <1>3 DEF ChangesOnly, NobodyJoins

(* Packet p is transmitted, buffered or on its way.                        *)
Accounted(p) ==
  \/ p \in transmitted
  \/ \E k \in Keys : ueMap[k].state = "HANDOVER_JOINING" /\ p \in ueMap[k].buffer
  \/ \E l \in Links : \E i \in DOMAIN x2[l] : x2[l][i].kind = "data" /\ x2[l][i].data = p

(* PacketsAccountedFor, packet by packet.                                  *)
LEMMA PacketsAre == PacketsAccountedFor <=> (GoodRadio => \A p \in 1 .. packets : Accounted(p))
BY DEF PacketsAccountedFor, Accounted

(* A packet stays accounted for if what is taken from a link or from a     *)
(* buffer is.                                                              *)
LEMMA PacketFollows ==
  ASSUME X2OK, X2OK', transmitted \subseteq transmitted',
         NEW r, NEW s, NEW m, Kept(r, s, m),
         \A k \in Keys : ueMap[k].state = "HANDOVER_JOINING" =>
           \/ ueMap'[k].state = "HANDOVER_JOINING" /\ ueMap[k].buffer \subseteq ueMap'[k].buffer
           \/ ueMap[k].buffer \subseteq transmitted',
         \A d : r \in Links /\ x2[r] # <<>> /\ x2[r][1].kind = "data" /\ d = x2[r][1].data =>
                Accounted(d)',
         NEW p, Accounted(p)
  PROVE  Accounted(p)'
<1>1. \A l \in Links : DOMAIN x2[l] = 1 .. Len(x2[l]) /\ DOMAIN x2'[l] = 1 .. Len(x2'[l])
  BY DEF X2OK
<1>2. CASE p \in transmitted
  BY <1>2 DEF Accounted
<1>3. CASE \E k \in Keys : ueMap[k].state = "HANDOVER_JOINING" /\ p \in ueMap[k].buffer
  BY <1>3 DEF Accounted
<1>4. ASSUME NEW l \in Links, NEW i \in DOMAIN x2[l], x2[l][i].kind = "data", x2[l][i].data = p
      PROVE  Accounted(p)'
  <2>1. CASE ~(l = r /\ i = 1)
    <3>1. i \in 1 .. Len(x2[l])
      BY <1>1, <1>4
    <3>2. PICK j \in 1 .. Len(x2'[l]) : x2'[l][j] = x2[l][i]
      BY <2>1, <3>1 DEF Kept
    <3>3. j \in DOMAIN x2'[l]
      BY <1>1, <3>2
    <3> QED
      BY <1>4, <3>2, <3>3 DEF Accounted
  <2>2. CASE l = r /\ i = 1
    <3>1. r \in Links /\ x2[r] # <<>>
      BY <1>1, <1>4, <2>2
    <3> QED
      BY <1>4, <2>2, <3>1
  <2> QED
    BY <2>1, <2>2
<1> QED
  BY <1>2, <1>3, <1>4 DEF Accounted

(* ... and so do all, if the step takes no packet from a link.             *)
LEMMA PacketsFollow ==
  ASSUME PacketsAccountedFor, X2OK, X2OK', faults' = faults, packets' = packets,
         transmitted \subseteq transmitted',
         NEW r, NEW s, NEW m, Kept(r, s, m),
         GoodRadio => \A k \in Keys : ueMap[k].state = "HANDOVER_JOINING" =>
           \/ ueMap'[k].state = "HANDOVER_JOINING" /\ ueMap[k].buffer \subseteq ueMap'[k].buffer
           \/ ueMap[k].buffer \subseteq transmitted',
         r \in Links => x2[r][1].kind # "data"
  PROVE  PacketsAccountedFor'
<1>1. GoodRadio' = GoodRadio
  BY DEF GoodRadio
<1>2. ASSUME GoodRadio, NEW p \in 1 .. packets PROVE Accounted(p)'
  <2>1. Accounted(p)
    BY <1>2, PacketsAre
  <2> QED
    BY <1>2, <2>1, PacketFollows
<1>3. (GoodRadio => \A p \in 1 .. packets : Accounted(p))'
  BY <1>1, <1>2
<1> QED
  BY <1>3, PacketsAre, PTL
----------------------------------------------------------------------------
(* RRC messages.                                                           *)
AirKinds == {"request", "setup", "setupCompleted", "reconfiguration", "command", "completed",
             "release", "remove"}
(* The RRC messages are typed.                                             *)
LEMMA AirTyped ==
  \A kind \in AirKinds : \A k \in Keys \cup {NoKey} :
    /\ ToUe(kind, k) \in AirMessages /\ ToUe(kind, k).kind = kind /\ ToUe(kind, k).new = k
    /\ ToEnb(kind, k) \in AirMessages /\ ToEnb(kind, k).kind = kind /\ ToEnb(kind, k).to = k
BY DEF ToUe, ToEnb, AirMessages, AirKinds

(* Sequences of one message.                                               *)
LEMMA OneInAir ==
  ASSUME NEW m \in AirMessages
  PROVE  /\ Head(<<m>>) = m /\ Tail(<<m>>) = <<>> /\ Append(<<>>, m) = <<m>>
         /\ <<>> \o <<m>> = <<m>> /\ <<>> \o <<>> = <<>>
         /\ <<m>> \in Seq(AirMessages) /\ <<m>> # <<>>
         /\ Len(<<m>>) = 1 /\ <<m>>[1] = m
OBVIOUS

(* The message that is due is the only one.                                *)
LEMMA DueMessage ==
  ASSUME IInv, air # <<>>, NEW m, m = Head(air)
  PROVE  /\ m \in AirMessages /\ air = <<m>> /\ Tail(air) = <<>> /\ WhenDue(m)
         /\ GoodRadio => m.kind \notin {"release", "remove"}
<1>1. PICK n \in AirMessages :
        air = <<n>> /\ WhenDue(n) /\ (GoodRadio => n.kind \notin {"release", "remove"})
  BY DEF IInv, UePlaced
<1>2. n = m
  BY <1>1, OneInAir
<1> QED
  BY <1>1, <1>2, OneInAir

(* What has to be shown of a step that leaves a message due.               *)
LEMMA DueFollows ==
  ASSUME NEW m \in AirMessages, air' = <<m>>, faults' = faults, WhenDue(m)',
         (ue.leave <=> ue.state \in {"idle", "connecting"})',
         GoodRadio => m.kind \notin {"release", "remove"}
  PROVE  UePlaced'
<1>1. GoodRadio' = GoodRadio
  BY DEF GoodRadio
<1> QED
  BY <1>1 DEF UePlaced

(* Steps of the UE refer to allocated RNTIs only, ...                      *)
LEMMA KnownFollowsUe ==
  ASSUME IInv, UNCHANGED <<ueMap, lastRnti>>, Known(peer)', ue'.state # "idle" => Known(ue.key)',
         \/ air' = <<>>
         \/ \E m \in AirMessages : air' = <<m>> /\ (m.kind = "command" => Known(m.new))
  PROVE  RntisKnown'
<1>1. \A k \in Keys : ueMap'[k].state # "ABSENT" => Known(k)'
  BY DEF IInv, RntisKnown, Known
<1>2. CASE air' = <<>>
  BY <1>1, <1>2 DEF RntisKnown
<1>3. ASSUME NEW m \in AirMessages, air' = <<m>>, m.kind = "command" => Known(m.new)
      PROVE  RntisKnown'
  BY <1>1, <1>3, OneInAir DEF RntisKnown, Known
<1> QED
  BY <1>2, <1>3

(* A step of the UE leaves the network alone.                              *)
Network == <<faults, ueMap, lastRnti, x2, packets, transmitted>>
(* ... so that what is about contexts and links holds as before.           *)
LEMMA NetworkStays ==
  ASSUME IInv, UNCHANGED Network
  PROVE  TimerOfState' /\ ContextsOK' /\ MessagesOK' /\ OneMessage' /\ PacketsAccountedFor'
<1>1. TimerOfState'
  BY DEF IInv, Network, TimerOfState
<1>2. ContextsOK'
  BY DEF IInv, Network, ContextsOK, Joined, Known
<1>3. \A l \in Links : \A n : MessageOK(l, n)' <=> MessageOK(l, n)
  BY DEF Network, MessageOK, Joined, Known, NobodyJoins, AskedFor, GoodRadio
<1>4. MessagesOK'
  BY <1>3 DEF IInv, Network, MessagesOK
<1>5. OneMessage'
  BY DEF IInv, Network, OneMessage, Follows, GoodRadio
<1>6. PacketsAccountedFor'
  BY DEF IInv, Network, PacketsAccountedFor, GoodRadio
<1> QED
  BY <1>1, <1>2, <1>4, <1>5, <1>6

(* The fields of the UE's state.                                           *)
LEMMA UeParts ==
  ASSUME IInv
  PROVE  /\ ue = [state |-> ue.state, key |-> ue.key, leave |-> ue.leave]
         /\ ue.state \in {"idle", "connecting", "normal", "handover"}
         /\ ue.key \in Keys \cup {NoKey} /\ ue.leave \in BOOLEAN
         /\ ue.state # "idle" => Known(ue.key) /\ ue.key \in Keys
         /\ Known(peer) /\ peer \in Keys
BY DEF IInv, TypeOK, UeStates, RntisKnown, Known

(* The UE moves to the target.                                             *)
LEMMA CommandKeeps ==
  ASSUME IInv, RecvHandoverCommand
  PROVE  IInv'
<1> DEFINE m == Head(air)
<1>1. air # <<>> /\ m.kind = "command"
  BY DEF RecvHandoverCommand, AirHead
<1>2. m \in AirMessages /\ air = <<m>> /\ Tail(air) = <<>> /\ WhenDue(m)
  BY <1>1, DueMessage
<1>3. Attached(ue.key) /\ Moving(ue.key, m.new)
  BY <1>1, <1>2 DEF WhenDue
<1>4. Known(m.new) /\ m.new \in Keys
  BY <1>1, <1>2, OneInAir DEF IInv, RntisKnown, Known
<1>5. /\ ue' = [ue EXCEPT !.state = "handover", !.key = m.new] /\ air' = <<>>
      /\ peer' = peer /\ UNCHANGED Network /\ UNCHANGED <<s1, aborted>>
  BY <1>2 DEF RecvHandoverCommand, Network
<1>6. ue'.state = "handover" /\ ue'.key = m.new /\ ue'.leave = ue.leave /\ ue' \in UeStates
  BY <1>4, <1>5, UeParts DEF UeStates
<1>7. TypeOK'
  BY <1>5, <1>6 DEF IInv, TypeOK, Network
<1>8. RntisKnown'
  <2>1. Known(peer)' /\ Known(ue.key)'
    BY <1>4, <1>5, <1>6, UeParts DEF Known, Network
  <2> QED
    BY <1>5, <2>1, KnownFollowsUe DEF Network
<1>9. UePlaced'
  <2>1. Moving(peer, ue.key)'
    BY <1>3, <1>5, <1>6 DEF Attached, Moving, Nowhere, Serves, Awaited, Network
  <2>2. ~ue.leave
    BY <1>3 DEF IInv, UePlaced, Attached
  <2> QED
    BY <1>5, <1>6, <2>1, <2>2 DEF UePlaced, WhenQuiet
<1>10. SourceWaits'
  BY <1>2, <1>3, <1>5, OneInAir DEF IInv, SourceWaits, Moving, Nowhere, Serves, Serving, Network
<1> QED
  BY <1>5, <1>7, <1>8, <1>9, <1>10, NetworkStays DEF IInv

(* The UE completes a reconfiguration.                                     *)
LEMMA ReconfigurationKeeps ==
  ASSUME IInv, RecvReconfiguration
  PROVE  IInv'
<1> DEFINE m == Head(air)
<1>1. air # <<>> /\ m.kind = "reconfiguration"
  BY DEF RecvReconfiguration, AirHead
<1>2. m \in AirMessages /\ air = <<m>> /\ Tail(air) = <<>> /\ WhenDue(m)
  BY <1>1, DueMessage
<1>3. /\ Attached(ue.key) /\ OnlyAt(ue.key)
      /\ ueMap[ue.key].state = "CONNECTION_RECONFIGURATION"
  BY <1>1, <1>2 DEF WhenDue
<1>4. Known(ue.key) /\ ue.key \in Keys
  BY <1>3, UeParts DEF Attached
<1>5. PICK n \in AirMessages :
        n = ToEnb("completed", ue.key) /\ n.kind = "completed" /\ n.to = ue.key
  BY <1>4, AirTyped DEF AirKinds
<1>6. /\ air' = <<n>> /\ ue' = ue /\ peer' = ue.key
      /\ UNCHANGED Network /\ UNCHANGED <<s1, aborted>>
  BY <1>2, <1>5, OneInAir DEF RecvReconfiguration, Network
<1>7. TypeOK'
  BY <1>4, <1>6, OneInAir DEF IInv, TypeOK, Network
<1>8. RntisKnown'
  <2>1. Known(peer)' /\ Known(ue.key)'
    BY <1>4, <1>6 DEF Known, Network
  <2> QED
    BY <1>5, <1>6, <2>1, KnownFollowsUe DEF Network
<1>9. UePlaced'
  <2>1. WhenDue(n)'
    BY <1>3, <1>5, <1>6 DEF WhenDue, Attached, OnlyAt, Serves, Network
  <2>2. (ue.leave <=> ue.state \in {"idle", "connecting"})'
    BY <1>6 DEF IInv, UePlaced
  <2> QED
    BY <1>5, <1>6, <2>1, <2>2, DueFollows DEF Network
<1>10. SourceWaits'
  BY <1>2, <1>3, <1>6, OneInAir DEF IInv, SourceWaits, OnlyAt, Serves, Serving, Network
<1> QED
  BY <1>6, <1>7, <1>8, <1>9, <1>10, NetworkStays DEF IInv

(* The UE has reached the target.                                          *)
LEMMA AccessKeeps ==
  ASSUME IInv, RandomAccessSuccessful
  PROVE  IInv'
<1>1. air = <<>> /\ ue.state = "handover"
  BY DEF RandomAccessSuccessful, Quiet
<1>2. Moving(peer, ue.key)
  BY <1>1, OneInAir DEF IInv, UePlaced, WhenQuiet
<1>3. Known(ue.key) /\ ue.key \in Keys
  BY <1>1, UeParts
<1>4. PICK n \in AirMessages :
        n = ToEnb("completed", ue.key) /\ n.kind = "completed" /\ n.to = ue.key
  BY <1>3, AirTyped DEF AirKinds
<1>5. /\ air' = <<n>> /\ peer' = ue.key /\ ue' = [ue EXCEPT !.state = "normal"]
      /\ UNCHANGED Network /\ UNCHANGED <<s1, aborted>>
  BY <1>1, <1>4, OneInAir DEF RandomAccessSuccessful, Network
<1>6. ue'.state = "normal" /\ ue'.key = ue.key /\ ue'.leave = ue.leave /\ ue' \in UeStates
  BY <1>5, UeParts DEF UeStates
<1>7. TypeOK'
  BY <1>3, <1>5, <1>6, OneInAir DEF IInv, TypeOK, Network
<1>8. RntisKnown'
  <2>1. Known(peer)' /\ Known(ue.key)'
    BY <1>3, <1>5, <1>6 DEF Known, Network
  <2> QED
    BY <1>4, <1>5, <2>1, KnownFollowsUe DEF Network
<1>9. UePlaced'
  <2>1. WhenDue(n)'
    BY <1>2, <1>4, <1>5, <1>6 DEF WhenDue, Attached, Moving, Awaited, Nowhere, Serves, Network
  <2>2. (ue.leave <=> ue.state \in {"idle", "connecting"})'
    BY <1>1, <1>6 DEF IInv, UePlaced
  <2> QED
    BY <1>4, <1>5, <2>1, <2>2, DueFollows DEF Network
<1>10. SourceWaits'
  BY <1>2, <1>5 DEF IInv, SourceWaits, Moving, Nowhere, Serves, Serving, Network
<1> QED
  BY <1>5, <1>7, <1>8, <1>9, <1>10, NetworkStays DEF IInv

(* The UE leaves its cell: at most the one context it tells of it serves   *)
(* it.                                                                     *)
LEMMA LeaveKeeps ==
  ASSUME IInv, Leave(<<>>), UNCHANGED Network, UNCHANGED <<s1, aborted>>, ~GoodRadio,
         ue.state \in {"normal", "handover"},
         Serves(ue.key) \/ Awaited(ue.key), \A j \in Keys : Serves(j) => j = ue.key
  PROVE  IInv'
<1>1. Known(ue.key) /\ ue.key \in Keys
  BY UeParts
<1>2. PICK n \in AirMessages : n = ToEnb("remove", ue.key) /\ n.kind = "remove" /\ n.to = ue.key
  BY <1>1, AirTyped DEF AirKinds
<1>3. /\ air' = <<n>> /\ peer' = ue.key
      /\ ue'.state = "idle" /\ ue'.leave = TRUE /\ ue' \in UeStates
  BY <1>2, OneInAir DEF Leave, UeStates
<1>4. TypeOK'
  BY <1>1, <1>3, OneInAir DEF IInv, TypeOK, Network
<1>5. RntisKnown'
  <2>1. Known(peer)'
    BY <1>1, <1>3 DEF Known, Network
  <2> QED
    BY <1>2, <1>3, <2>1, KnownFollowsUe DEF Network
<1>6. UePlaced'
  <2>1. WhenDue(n)'
    BY <1>1, <1>2, <1>3 DEF WhenDue, Serves, Awaited, Known, Network
  <2>2. (ue.leave <=> ue.state \in {"idle", "connecting"})'
    BY <1>3
  <2> QED
    BY <1>2, <1>3, <2>1, <2>2, DueFollows DEF Network
<1>7. SourceWaits'
  BY <1>2, <1>3 DEF SourceWaits, Serves, Serving, Network
<1> QED
  BY <1>4, <1>5, <1>6, <1>7, NetworkStays DEF IInv

(* The random access at the target fails.                                  *)
LEMMA AccessFailureKeeps ==
  ASSUME IInv, RandomAccessFailed
  PROVE  IInv'
<1>1. /\ air = <<>> /\ ue.state = "handover" /\ Leave(<<>>)
      /\ UNCHANGED Network /\ UNCHANGED <<s1, aborted>>
  BY DEF RandomAccessFailed, Quiet, Network
<1>2. ~GoodRadio
  BY DEF RandomAccessFailed, GoodRadio, Refusals
<1>3. Moving(peer, ue.key)
  BY <1>1, OneInAir DEF IInv, UePlaced, WhenQuiet
<1> QED
  BY <1>1, <1>2, <1>3, LeaveKeeps DEF Moving, Nowhere

(* The radio link fails.                                                   *)
LEMMA LinkFailureKeeps ==
  ASSUME IInv, RadioLinkFailure
  PROVE  IInv'
<1>1. /\ air = <<>> /\ ue.state = "normal" /\ Leave(<<>>)
      /\ UNCHANGED Network /\ UNCHANGED <<s1, aborted>>
  BY DEF RadioLinkFailure, Quiet, Network
<1>2. ~GoodRadio
  BY DEF RadioLinkFailure, GoodRadio, Refusals
<1>3. OnlyAt(ue.key) /\ ue.key \in Keys
  BY <1>1, OneInAir, UeParts DEF IInv, UePlaced, WhenQuiet
<1> QED
  BY <1>1, <1>2, <1>3, LeaveKeeps DEF OnlyAt

(* The source releases the UE, which leaves unless it has left already.    *)
LEMMA ReleaseKeeps ==
  ASSUME IInv, RecvRrcConnectionRelease
  PROVE  IInv'
<1> DEFINE m == Head(air)
<1>1. air # <<>> /\ m.kind = "release"
  BY DEF RecvRrcConnectionRelease, AirHead
<1>2. m \in AirMessages /\ air = <<m>> /\ Tail(air) = <<>> /\ WhenDue(m) /\ ~GoodRadio
  BY <1>1, DueMessage
<1>3. \/ Attached(ue.key) /\ OnlyAt(ue.key)
      \/ ue.state = "handover" /\ Nowhere /\ Awaited(ue.key)
      \/ ue.state = "idle" /\ Nowhere
  BY <1>1, <1>2 DEF WhenDue
<1>4. UNCHANGED Network /\ UNCHANGED <<s1, aborted>>
  BY DEF RecvRrcConnectionRelease, Network
<1>5. ue.leave <=> ue.state \in {"idle", "connecting"}
  BY DEF IInv, UePlaced
<1>6. CASE ue.leave
  <2>1. air' = <<>> /\ ue' = ue /\ peer' = peer
    BY <1>2, <1>6 DEF RecvRrcConnectionRelease
  <2>2. ue.state = "idle" /\ Nowhere
    BY <1>3, <1>5, <1>6 DEF Attached
  <2>3. TypeOK'
    BY <1>4, <2>1 DEF IInv, TypeOK, Network
  <2>4. RntisKnown'
    <3>1. Known(peer)'
      BY <1>4, <2>1, UeParts DEF Known, Network
    <3> QED
      BY <1>4, <2>1, <2>2, <3>1, KnownFollowsUe DEF Network
  <2>5. UePlaced'
    BY <1>4, <1>5, <2>1, <2>2 DEF UePlaced, WhenQuiet, Nowhere, Serves, Network
  <2>6. SourceWaits'
    BY <1>4, <2>2 DEF SourceWaits, Nowhere, Serves, Serving, Network
  <2> QED
    BY <1>4, <2>3, <2>4, <2>5, <2>6, NetworkStays DEF IInv
<1>7. CASE ~ue.leave
  <2>1. Leave(<<>>)
    BY <1>2, <1>7 DEF RecvRrcConnectionRelease
  <2>2. ue.state \in {"normal", "handover"}
    BY <1>5, <1>7, UeParts
  <2>3. ue.key \in Keys
    BY <2>2, UeParts
  <2>4. Serves(ue.key) \/ Awaited(ue.key)
    BY <1>3, <2>2, <2>3 DEF OnlyAt
  <2>5. \A j \in Keys : Serves(j) => j = ue.key
    BY <1>3, <2>2 DEF OnlyAt, Nowhere
  <2> QED
    BY <1>1, <1>2, <1>4, <2>1, <2>2, <2>4, <2>5, LeaveKeeps
<1> QED
  BY <1>6, <1>7

(* The connection is set up.                                               *)
LEMMA SetupKeeps ==
  ASSUME IInv, RecvRrcConnectionSetup
  PROVE  IInv'
<1> DEFINE m == Head(air)
<1>1. air # <<>> /\ m.kind = "setup"
  BY DEF RecvRrcConnectionSetup, AirHead
<1>2. m \in AirMessages /\ air = <<m>> /\ Tail(air) = <<>> /\ WhenDue(m)
  BY <1>1, DueMessage
<1>3. /\ ue.state = "connecting" /\ ue.key = peer /\ Nowhere
      /\ ueMap[peer].state = "CONNECTION_SETUP"
  BY <1>1, <1>2 DEF WhenDue
<1>4. Known(peer) /\ peer \in Keys
  BY UeParts
<1>5. PICK n \in AirMessages : /\ n = ToEnb("setupCompleted", peer)
                               /\ n.kind = "setupCompleted" /\ n.to = peer
  BY <1>4, AirTyped DEF AirKinds
<1>6. /\ air' = <<n>> /\ ue' = [ue EXCEPT !.state = "normal", !.leave = FALSE] /\ peer' = peer
      /\ UNCHANGED Network /\ UNCHANGED <<s1, aborted>>
  BY <1>2, <1>5, OneInAir DEF RecvRrcConnectionSetup, Network
<1>7. ue'.state = "normal" /\ ue'.key = ue.key /\ ue'.leave = FALSE /\ ue' \in UeStates
  BY <1>6, UeParts DEF UeStates
<1>8. TypeOK'
  BY <1>4, <1>6, <1>7, OneInAir DEF IInv, TypeOK, Network
<1>9. RntisKnown'
  <2>1. Known(peer)' /\ Known(ue.key)'
    BY <1>3, <1>4, <1>6, <1>7 DEF Known, Network
  <2> QED
    BY <1>5, <1>6, <2>1, KnownFollowsUe DEF Network
<1>10. UePlaced'
  <2>1. WhenDue(n)'
    BY <1>3, <1>5, <1>6, <1>7 DEF WhenDue, Attached, Nowhere, Serves, Network
  <2>2. (ue.leave <=> ue.state \in {"idle", "connecting"})'
    BY <1>7
  <2> QED
    BY <1>5, <1>6, <2>1, <2>2, DueFollows DEF Network
<1>11. SourceWaits'
  BY <1>3, <1>6 DEF IInv, SourceWaits, Nowhere, Serves, Serving, Network
<1> QED
  BY <1>6, <1>8, <1>9, <1>10, <1>11, NetworkStays DEF IInv
----------------------------------------------------------------------------
(* Contexts of a UE that is not in a handover.                             *)
Plain == {"INITIAL_RANDOM_ACCESS", "CONNECTION_SETUP", "ATTACH_REQUEST",
          "CONNECTION_RECONFIGURATION", "CONNECTED_NORMALLY"}

(* Steps of an eNB refer to allocated RNTIs only.                          *)
LEMMA KnownFollowsNet ==
  ASSUME IInv, KnownStays, NEW k \in Keys, ChangesOnly(k), ueMap'[k].state # "ABSENT" => Known(k)',
         UNCHANGED <<ue, peer>>,
         \/ air' = <<>>
         \/ \E m \in AirMessages : air' = <<m>> /\ (m.kind = "command" => Known(m.new))
  PROVE  RntisKnown'
<1>1. \A j \in Keys : ueMap'[j].state # "ABSENT" => Known(j)'
  BY DEF IInv, RntisKnown, ChangesOnly, KnownStays
<1>2. Known(peer)' /\ (ue'.state # "idle" => Known(ue.key)')
  <2>1. \A j \in Keys : Known(j) => j[2] <= lastRnti'[j[1]]
    BY DEF KnownStays, Known
  <2> QED
    BY <2>1, UeParts DEF Known
<1>3. CASE air' = <<>>
  BY <1>1, <1>2, <1>3 DEF RntisKnown
<1>4. ASSUME NEW m \in AirMessages, air' = <<m>>, m.kind = "command" => Known(m.new)
      PROVE  RntisKnown'
  <2>1. m.kind = "command" => Known(m.new)'
    BY <1>4 DEF Known, KnownStays
  <2>2. \A i \in 1 .. Len(air') : air'[i] = m
    BY <1>4, OneInAir
  <2> QED
    BY <1>1, <1>2, <2>1, <2>2 DEF RntisKnown, Known
<1> QED
  BY <1>3, <1>4

(* A step of such a context leaves handovers alone.                        *)
LEMMA PlainFollows ==
  ASSUME IInv, NEW k \in Keys, ueMap' \in [Keys -> Contexts], ChangesOnly(k),
         UNCHANGED <<faults, lastRnti, x2, packets, transmitted>>,
         ueMap[k].state \in Plain, ueMap'[k].state \in Plain \ {"INITIAL_RANDOM_ACCESS"},
         ueMap'[k].timer = "none", ueMap'[k].x2u = ueMap[k].x2u,
         ueMap[k].state \in Serving => ueMap'[k].state \in Serving
  PROVE  /\ TimerOfState' /\ ContextsOK' /\ MessagesOK' /\ OneMessage' /\ PacketsAccountedFor'
         /\ KnownStays
<1>1. KnownStays
  BY DEF KnownStays, Known
<1>2. TimerOfState'
  BY TimersFollow DEF IInv, Plain
<1>3. NobodyJoins(k)
  BY DEF IInv, ContextsOK, NobodyJoins, Joined, Plain
<1>4. \A s : ~Joined(k, s) /\ ~Joined(k, s)'
  BY DEF Joined, Plain
<1>5. ContextsOK'
  <2>1. ueMap'[k].x2u =>
          ueMap'[k].state \in Serving \cup {"HANDOVER_LEAVING", "HANDOVER_JOINING"}
    BY DEF IInv, ContextsOK, Plain
  <2>2. ueMap'[k].state \notin {"HANDOVER_PREPARATION", "HANDOVER_LEAVING"}
    BY DEF Plain
  <2> QED
    BY <1>1, <1>3, <1>4, <2>1, <2>2, ContextsFollow DEF IInv
<1>6. X2OK
  BY DEF IInv, TypeOK, X2OK
<1>7. PICK m \in {"none"} : X2OK' /\ Moved(NoLink, NoLink, m) /\ Kept(NoLink, NoLink, m)
  BY <1>6, StaysMoves
<1>8. ASSUME NEW l \in Links, NEW n \in X2Messages, MessageOK(l, n)
      PROVE  MessageOK(l, n)'
  <2>1. ~(n.kind \in Handshake /\ n.old = k)
    BY <1>8 DEF MessageOK, Handshake, Plain, AskedFor
  <2>2. ~(n.kind = "ack" /\ n.new = k)
    BY <1>8 DEF MessageOK, Plain
  <2> QED
    BY <1>1, <1>4, <1>8, <2>1, <2>2, MessageKept
<1>9. MessagesOK'
  BY <1>6, <1>7, <1>8, LinkParts, MessagesFollow DEF IInv
<1>10. OneMessage'
  BY DEF IInv, OneMessage, Follows, GoodRadio
<1>11. PacketsAccountedFor'
  BY DEF IInv, PacketsAccountedFor, GoodRadio, ChangesOnly, Plain
<1> QED
  BY <1>1, <1>2, <1>5, <1>9, <1>10, <1>11

(* A context is asked to connect.                                          *)
LEMMA RequestKeeps ==
  ASSUME IInv, RecvRrcConnectionRequest
  PROVE  IInv'
<1> DEFINE m == Head(air)
<1>1. air # <<>> /\ m.kind = "request"
  BY DEF RecvRrcConnectionRequest, AirHead
<1>2. m \in AirMessages /\ air = <<m>> /\ Tail(air) = <<>> /\ WhenDue(m)
  BY <1>1, DueMessage
<1>3. PICK k \in Keys : /\ k = m.to /\ ue.state = "connecting" /\ ue.key = k /\ peer = k /\ Nowhere
                        /\ ueMap[k].state = "INITIAL_RANDOM_ACCESS"
  BY <1>1, <1>2, UeParts DEF WhenDue
<1>4. PICK n \in AirMessages : n = ToUe("setup", NoKey) /\ n.kind = "setup"
  BY AirTyped DEF AirKinds
<1>5. /\ ueMap' = [ueMap EXCEPT ![k].state = "CONNECTION_SETUP", ![k].timer = "none"]
      /\ air' = <<n>>
      /\ UNCHANGED <<faults, lastRnti, ue, peer, x2, s1, packets, transmitted, aborted>>
  BY <1>2, <1>3, <1>4, OneInAir DEF RecvRrcConnectionRequest
<1>6. /\ ueMap' \in [Keys -> Contexts] /\ ChangesOnly(k)
      /\ ueMap'[k].state = "CONNECTION_SETUP" /\ ueMap'[k].timer = "none"
      /\ ueMap'[k].x2u = ueMap[k].x2u
  <2>1. PICK x : x = [ueMap[k] EXCEPT !.state = "CONNECTION_SETUP", !.timer = "none"]
    OBVIOUS
  <2>2. ueMap[k] \in Contexts
    BY DEF IInv, TypeOK
  <2>3. /\ x \in Contexts /\ x.state = "CONNECTION_SETUP" /\ x.timer = "none"
        /\ x.x2u = ueMap[k].x2u
    BY <2>1, <2>2, ContextParts, StateNames DEF Contexts
  <2>4. ueMap' = [ueMap EXCEPT ![k] = x]
    BY <1>5, <2>1 DEF IInv, TypeOK
  <2> QED
    BY <2>3, <2>4, ContextChanges DEF IInv
<1>7. /\ TimerOfState' /\ ContextsOK' /\ MessagesOK' /\ OneMessage' /\ PacketsAccountedFor'
      /\ KnownStays
  BY <1>3, <1>5, <1>6, PlainFollows DEF Plain, Serving
<1>8. TypeOK'
  BY <1>5, <1>6, OneInAir DEF IInv, TypeOK
<1>9. RntisKnown'
  <2>1. Known(k)'
    BY <1>3, <1>7, UeParts DEF KnownStays
  <2> QED
    BY <1>4, <1>5, <1>6, <1>7, <2>1, KnownFollowsNet
<1>10. UePlaced'
  <2>1. Nowhere'
    BY <1>3, <1>6 DEF Nowhere, Serves, Serving, ChangesOnly
  <2>2. WhenDue(n)'
    BY <1>3, <1>4, <1>5, <1>6, <2>1 DEF WhenDue
  <2>3. (ue.leave <=> ue.state \in {"idle", "connecting"})'
    BY <1>5 DEF IInv, UePlaced
  <2> QED
    BY <1>4, <1>5, <2>2, <2>3, DueFollows
<1>11. SourceWaits'
  BY <1>3, <1>6 DEF SourceWaits, Nowhere, Serves, Serving, ChangesOnly
<1> QED
  BY <1>7, <1>8, <1>9, <1>10, <1>11 DEF IInv

(* The connection is complete: the core network is asked to attach.        *)
LEMMA SetupCompletedKeeps ==
  ASSUME IInv, RecvRrcConnectionSetupCompleted
  PROVE  IInv'
<1> DEFINE m == Head(air)
<1>1. air # <<>> /\ m.kind = "setupCompleted"
  BY DEF RecvRrcConnectionSetupCompleted, AirHead
<1>2. m \in AirMessages /\ air = <<m>> /\ Tail(air) = <<>> /\ WhenDue(m)
  BY <1>1, DueMessage
<1>3. PICK k \in Keys : /\ k = m.to /\ Attached(k) /\ Nowhere
                        /\ ueMap[k].state = "CONNECTION_SETUP"
  BY <1>1, <1>2, UeParts DEF WhenDue, Attached
<1>4. /\ ueMap' = [ueMap EXCEPT ![k].state = "ATTACH_REQUEST"]
      /\ s1' = s1 \cup {[kind |-> "attach", key |-> k]}
      /\ air' = <<>> /\ UNCHANGED <<faults, lastRnti, ue, peer, x2, packets, transmitted, aborted>>
  BY <1>2, <1>3 DEF RecvRrcConnectionSetupCompleted
<1>5. /\ ueMap' \in [Keys -> Contexts] /\ ChangesOnly(k)
      /\ ueMap'[k].state = "ATTACH_REQUEST" /\ ueMap'[k].timer = "none"
      /\ ueMap'[k].x2u = ueMap[k].x2u
  <2>1. PICK x : x = [ueMap[k] EXCEPT !.state = "ATTACH_REQUEST"]
    OBVIOUS
  <2>2. ueMap[k] \in Contexts
    BY DEF IInv, TypeOK
  <2>3. ueMap[k].timer = "none"
    BY <1>3 DEF IInv, TimerOfState
  <2>4. /\ x \in Contexts /\ x.state = "ATTACH_REQUEST" /\ x.timer = "none"
        /\ x.x2u = ueMap[k].x2u
    BY <2>1, <2>2, <2>3, ContextParts, StateNames DEF Contexts
  <2>5. ueMap' = [ueMap EXCEPT ![k] = x]
    BY <1>4, <2>1 DEF IInv, TypeOK
  <2> QED
    BY <2>4, <2>5, ContextChanges DEF IInv
<1>6. /\ TimerOfState' /\ ContextsOK' /\ MessagesOK' /\ OneMessage' /\ PacketsAccountedFor'
      /\ KnownStays
  BY <1>3, <1>4, <1>5, PlainFollows DEF Plain, Serving
<1>7. TypeOK'
  BY <1>4, <1>5 DEF IInv, TypeOK
<1>8. RntisKnown'
  <2>1. Known(k)'
    BY <1>3, <1>6, UeParts DEF KnownStays, Attached
  <2> QED
    BY <1>4, <1>5, <1>6, <2>1, KnownFollowsNet
<1>9. UePlaced'
  <2>1. OnlyAt(k)'
    BY <1>3, <1>5 DEF OnlyAt, Nowhere, Serves, ChangesOnly
  <2>2. WhenQuiet'
    BY <1>3, <1>4, <2>1 DEF WhenQuiet, Attached
  <2> QED
    BY <1>4, <2>2 DEF IInv, UePlaced
<1>10. SourceWaits'
  BY <1>3, <1>5 DEF SourceWaits, Nowhere, Serves, Serving, ChangesOnly
<1> QED
  BY <1>6, <1>7, <1>8, <1>9, <1>10 DEF IInv

(* The core network has attached the UE; a reconfiguration goes out.       *)
LEMMA ContextSetupKeeps ==
  ASSUME IInv, NEW q \in s1, InitialContextSetup(q)
  PROVE  IInv'
<1>1. /\ air = <<>> /\ WhenQuiet
  BY OneInAir DEF IInv, UePlaced, InitialContextSetup, Quiet
<1>2. PICK k \in Keys : k = q.key /\ ueMap[k].state = "ATTACH_REQUEST" /\ q.key = k
  BY DEF InitialContextSetup, S1Accepted, InState, HasUeManager
<1>3. Attached(k) /\ OnlyAt(k)
  BY <1>1, <1>2, UeParts DEF WhenQuiet, OnlyAt, Nowhere, Serves, Moving, Attached
<1>4. PICK n \in AirMessages : n = ToUe("reconfiguration", NoKey) /\ n.kind = "reconfiguration"
  BY AirTyped DEF AirKinds
<1>5. /\ ueMap' = [ueMap EXCEPT ![k].state = "CONNECTION_RECONFIGURATION", ![k].teid = k]
      /\ air' = <<n>> /\ s1' = s1 \ {q}
      /\ UNCHANGED <<faults, lastRnti, ue, peer, x2, packets, transmitted, aborted>>
  BY <1>1, <1>2, <1>4, OneInAir DEF InitialContextSetup
<1>6. /\ ueMap' \in [Keys -> Contexts] /\ ChangesOnly(k)
      /\ ueMap'[k].state = "CONNECTION_RECONFIGURATION" /\ ueMap'[k].timer = "none"
      /\ ueMap'[k].x2u = ueMap[k].x2u
  <2>1. PICK x : x = [ueMap[k] EXCEPT !.state = "CONNECTION_RECONFIGURATION", !.teid = k]
    OBVIOUS
  <2>2. ueMap[k] \in Contexts
    BY DEF IInv, TypeOK
  <2>3. ueMap[k].timer = "none"
    BY <1>2 DEF IInv, TimerOfState
  <2>4. /\ x \in Contexts /\ x.state = "CONNECTION_RECONFIGURATION" /\ x.timer = "none"
        /\ x.x2u = ueMap[k].x2u
    BY <2>1, <2>2, <2>3, ContextParts, StateNames DEF Contexts
  <2>5. ueMap' = [ueMap EXCEPT ![k] = x]
    BY <1>5, <2>1 DEF IInv, TypeOK
  <2> QED
    BY <2>4, <2>5, ContextChanges DEF IInv
<1>7. /\ TimerOfState' /\ ContextsOK' /\ MessagesOK' /\ OneMessage' /\ PacketsAccountedFor'
      /\ KnownStays
  BY <1>2, <1>5, <1>6, PlainFollows DEF Plain, Serving
<1>8. TypeOK'
  BY <1>5, <1>6, OneInAir DEF IInv, TypeOK
<1>9. RntisKnown'
  <2>1. Known(k)'
    BY <1>3, <1>7, UeParts DEF KnownStays, Attached
  <2> QED
    BY <1>4, <1>5, <1>6, <1>7, <2>1, KnownFollowsNet
<1>10. UePlaced'
  <2>1. OnlyAt(k)'
    BY <1>3, <1>6 DEF OnlyAt, Serves, Serving, ChangesOnly
  <2>2. WhenDue(n)'
    BY <1>3, <1>4, <1>5, <1>6, <2>1 DEF WhenDue, Attached
  <2>3. (ue.leave <=> ue.state \in {"idle", "connecting"})'
    BY <1>5 DEF IInv, UePlaced
  <2> QED
    BY <1>4, <1>5, <2>2, <2>3, DueFollows
<1>11. SourceWaits'
  BY <1>3, <1>6 DEF SourceWaits, OnlyAt, Serves, Serving, ChangesOnly
<1> QED
  BY <1>7, <1>8, <1>9, <1>10, <1>11 DEF IInv

(* A context that goes back to normal sends what was pending.              *)
LEMMA NormalFollows ==
  ASSUME IInv, NEW k \in Keys, ueMap' \in [Keys -> Contexts], ChangesOnly(k),
         ueMap'[k] = ToNormally(ueMap[k]), air' = <<>> \o DueReconfiguration(ueMap[k]),
         UNCHANGED <<faults, ue, peer>>, Attached(k), OnlyAt(k)
  PROVE  /\ UePlaced' /\ SourceWaits' /\ air' \in Seq(AirMessages)
         /\ \/ air' = <<>>
            \/ \E m \in AirMessages : air' = <<m>> /\ m.kind # "command"
<1>1. ueMap[k] \in Contexts
  BY DEF IInv, TypeOK
<1>2. ueMap'[k].state = IF ueMap[k].pending THEN "CONNECTION_RECONFIGURATION"
                                           ELSE "CONNECTED_NORMALLY"
  BY <1>1, ContextParts DEF ToNormally
<1>3. OnlyAt(k)'
  BY <1>2 DEF OnlyAt, Serves, Serving, ChangesOnly
<1>4. SourceWaits'
  BY <1>2, <1>3 DEF SourceWaits, OnlyAt, Serves, Serving
<1>5. Attached(k)' /\ (ue.leave <=> ue.state \in {"idle", "connecting"})'
  BY DEF IInv, UePlaced, Attached
<1>6. CASE ueMap[k].pending
  <2>1. PICK n \in AirMessages : n = ToUe("reconfiguration", NoKey) /\ n.kind = "reconfiguration"
    BY AirTyped DEF AirKinds
  <2>2. air' = <<n>>
    BY <1>6, <2>1, OneInAir DEF DueReconfiguration
  <2>3. WhenDue(n)'
    BY <1>2, <1>3, <1>5, <1>6, <2>1 DEF WhenDue, Attached
  <2>4. UePlaced'
    BY <1>5, <2>1, <2>2, <2>3, DueFollows
  <2> QED
    BY <1>4, <2>1, <2>2, <2>4, OneInAir
<1>7. CASE ~ueMap[k].pending
  <2>1. air' = <<>>
    BY <1>7 DEF DueReconfiguration
  <2>2. WhenQuiet'
    BY <1>3, <1>5 DEF WhenQuiet, Attached
  <2>3. <<>> \in Seq(AirMessages)
    OBVIOUS
  <2> QED
    BY <1>4, <1>5, <2>1, <2>2, <2>3 DEF UePlaced
<1> QED
  BY <1>6, <1>7

(* What UeManager::SwitchToState makes of a context that goes back to      *)
(* normal.                                                                 *)
LEMMA NormalContext ==
  ASSUME NEW x \in Contexts, NEW y, y = ToNormally(x)
  PROVE  /\ y \in Contexts /\ y.timer = x.timer /\ y.x2u = x.x2u /\ y.buffer = x.buffer
         /\ y.state \in {"CONNECTION_RECONFIGURATION", "CONNECTED_NORMALLY"}
BY ContextParts, StateNames DEF ToNormally, Contexts

(* A reconfiguration is complete, ...                                      *)
LEMMA ReconfiguredKeeps ==
  ASSUME IInv, RecvReconfigurationCompleted, NEW k \in Keys, k = Head(air).to, Attached(k),
         OnlyAt(k), ueMap[k].state = "CONNECTION_RECONFIGURATION", Tail(air) = <<>>
  PROVE  IInv'
<1>1. /\ ueMap' = [ueMap EXCEPT ![k] = ToNormally(@)]
      /\ air' = <<>> \o DueReconfiguration(ueMap[k])
      /\ UNCHANGED <<faults, lastRnti, ue, peer, x2, s1, packets, transmitted, aborted>>
  BY DEF RecvReconfigurationCompleted
<1>2. ueMap[k] \in Contexts /\ ueMap[k].timer = "none"
  BY DEF IInv, TypeOK, TimerOfState
<1>3. PICK x : x = ToNormally(ueMap[k])
  OBVIOUS
<1>4. /\ x \in Contexts /\ x.timer = "none" /\ x.x2u = ueMap[k].x2u
      /\ x.state \in {"CONNECTION_RECONFIGURATION", "CONNECTED_NORMALLY"}
  BY <1>2, <1>3, NormalContext
<1>5. ueMap' = [ueMap EXCEPT ![k] = x]
  BY <1>1, <1>3
<1>6. ueMap' \in [Keys -> Contexts] /\ ChangesOnly(k) /\ ueMap'[k] = x
  BY <1>4, <1>5, ContextChanges DEF IInv
<1>7. /\ TimerOfState' /\ ContextsOK' /\ MessagesOK' /\ OneMessage' /\ PacketsAccountedFor'
      /\ KnownStays
  BY <1>1, <1>4, <1>6, PlainFollows DEF Plain, Serving
<1>8. /\ UePlaced' /\ SourceWaits' /\ air' \in Seq(AirMessages)
      /\ \/ air' = <<>>
         \/ \E m \in AirMessages : air' = <<m>> /\ m.kind # "command"
  BY <1>1, <1>3, <1>6, NormalFollows
<1>9. TypeOK'
  BY <1>1, <1>6, <1>8 DEF IInv, TypeOK
<1>10. RntisKnown'
  <2>1. Known(k)'
    BY <1>7, UeParts DEF KnownStays, Attached
  <2> QED
    BY <1>1, <1>6, <1>7, <1>8, <2>1, KnownFollowsNet
<1> QED
  BY <1>7, <1>8, <1>9, <1>10 DEF IInv

(* ... or a handover, at the target.                                       *)
LEMMA JoinedKeeps ==
  ASSUME IInv, RecvReconfigurationCompleted, NEW k \in Keys, k = Head(air).to, Attached(k),
         Nowhere, ueMap[k].state = "HANDOVER_JOINING", Tail(air) = <<>>,
         ueMap[ueMap[k].source].state = "HANDOVER_LEAVING"
  PROVE  IInv'
<1>1. /\ JoinCompleted(k) /\ air' = <<>>
      /\ UNCHANGED <<faults, lastRnti, ue, peer, x2, packets, aborted>>
  BY DEF RecvReconfigurationCompleted, JoinCompleted
<1>2. ueMap[k] \in Contexts
  BY DEF IInv, TypeOK
<1>3. PICK x : x = [ueMap[k] EXCEPT !.state = "HANDOVER_PATH_SWITCH", !.timer = "none",
                                    !.buffer = {}]
  OBVIOUS
<1>4. /\ x \in Contexts /\ x.state = "HANDOVER_PATH_SWITCH" /\ x.timer = "none"
      /\ x.source = ueMap[k].source
  BY <1>2, <1>3, ContextParts, StateNames DEF Contexts
<1>5. ueMap' = [ueMap EXCEPT ![k] = x]
  BY <1>1, <1>3 DEF JoinCompleted, IInv, TypeOK
<1>6. ueMap' \in [Keys -> Contexts] /\ ChangesOnly(k) /\ ueMap'[k] = x
  BY <1>4, <1>5, ContextChanges DEF IInv
<1>7. /\ s1' = s1 \cup {[kind |-> "pathSwitch", key |-> k]}
      /\ transmitted' = transmitted \cup ueMap[k].buffer
  BY <1>1 DEF JoinCompleted
<1>8. KnownStays
  BY <1>1 DEF KnownStays, Known
<1>9. \A s : Joined(k, s)' <=> Joined(k, s)
  BY <1>4, <1>6 DEF Joined
<1>10. TypeOK'
  BY <1>1, <1>2, <1>6, <1>7, ContextParts DEF IInv, TypeOK
<1>11. TimerOfState'
  BY <1>4, <1>6, TimersFollow DEF IInv
<1>12. RntisKnown'
  <2>1. Known(k)'
    BY <1>8, UeParts DEF KnownStays, Attached
  <2> QED
    BY <1>1, <1>6, <1>8, <2>1, KnownFollowsNet
<1>13. ContextsOK'
  <2>1. NobodyJoins(k)
    BY DEF IInv, ContextsOK, NobodyJoins, Joined
  <2> QED
    BY <1>4, <1>6, <1>8, <1>9, <2>1, ContextsFollow DEF IInv, Serving
<1>14. X2OK
  BY DEF IInv, TypeOK, X2OK
<1>15. PICK m \in {"none"} : X2OK' /\ Moved(NoLink, NoLink, m) /\ Kept(NoLink, NoLink, m)
  BY <1>1, <1>14, StaysMoves
<1>16. MessagesOK'
  <2>1. ASSUME NEW l \in Links, NEW n \in X2Messages, MessageOK(l, n)
        PROVE  MessageOK(l, n)'
    <3>1. ~(n.kind \in Handshake /\ n.old = k)
      BY <2>1 DEF MessageOK, Handshake, AskedFor
    <3>2. ~(n.kind = "ack" /\ n.new = k)
      BY <2>1 DEF MessageOK, AskedFor
    <3> QED
      BY <1>1, <1>6, <1>8, <1>9, <2>1, <3>1, <3>2, MessageKept
  <2> QED
    BY <1>14, <1>15, <2>1, LinkParts, MessagesFollow DEF IInv
<1>17. OneMessage'
  BY <1>1 DEF IInv, OneMessage, Follows, GoodRadio
<1>18. UePlaced'
  <2>1. OnlyAt(k)'
    BY <1>4, <1>6 DEF OnlyAt, Nowhere, Serves, Serving, ChangesOnly
  <2>2. WhenQuiet'
    BY <1>1, <2>1 DEF WhenQuiet, Attached
  <2> QED
    BY <1>1, <2>2 DEF IInv, UePlaced
<1>19. SourceWaits'
  <2>1. ueMap[k].source # k /\ ueMap[k].source \in Keys
    BY DEF IInv, ContextsOK, Joined, Known
  <2>2. ueMap'[ueMap[k].source].state = "HANDOVER_LEAVING"
    BY <1>6, <2>1 DEF ChangesOnly
  <2>3. \A j \in Keys : ueMap'[j].state = "HANDOVER_PATH_SWITCH" => j = k
    BY <1>6 DEF Nowhere, Serves, Serving, ChangesOnly
  <2> QED
    BY <1>4, <1>6, <2>2, <2>3 DEF SourceWaits
<1>20. PacketsAccountedFor'
  <2>1. \A j \in Keys : ueMap[j].state = "HANDOVER_JOINING" =>
          \/ ueMap'[j].state = "HANDOVER_JOINING" /\ ueMap[j].buffer \subseteq ueMap'[j].buffer
          \/ ueMap[j].buffer \subseteq transmitted'
    BY <1>6, <1>7 DEF ChangesOnly
  <2> QED
    BY <1>1, <1>7, <1>14, <1>15, <2>1, LinkParts, PacketsFollow DEF IInv
<1> QED
  BY <1>10, <1>11, <1>12, <1>13, <1>16, <1>17, <1>18, <1>19, <1>20 DEF IInv

(* RecvReconfigurationCompleted has these two cases: a context that is     *)
(* gone does not accept the message.                                       *)
LEMMA CompletedKeeps ==
  ASSUME IInv, RecvReconfigurationCompleted
  PROVE  IInv'
<1> DEFINE m == Head(air)
<1>1. air # <<>> /\ m.kind = "completed" /\ AirAccepted(m)
  BY DEF RecvReconfigurationCompleted, AirHead
<1>2. m \in AirMessages /\ air = <<m>> /\ Tail(air) = <<>> /\ WhenDue(m)
  BY <1>1, DueMessage
<1>3. PICK k \in Keys : k = m.to /\ Attached(k)
  BY <1>1, <1>2, UeParts DEF WhenDue, Attached
<1>4. ueMap[k].state # "ABSENT"
  BY <1>1, <1>3 DEF AirAccepted, InState, HasUeManager
<1>5. \/ OnlyAt(k) /\ ueMap[k].state = "CONNECTION_RECONFIGURATION"
      \/ /\ Nowhere /\ ueMap[k].state = "HANDOVER_JOINING"
         /\ ueMap[ueMap[k].source].state = "HANDOVER_LEAVING"
  BY <1>1, <1>2, <1>3, <1>4 DEF WhenDue, Awaited
<1> QED
  BY <1>2, <1>3, <1>5, ReconfiguredKeeps, JoinedKeeps
----------------------------------------------------------------------------
(* Contexts that come and go.                                              *)

(* Nothing refers to an RNTI that has not been allocated.                  *)
LEMMA FreshKey ==
  ASSUME IInv, NEW k \in Keys, ~Known(k)
  PROVE  /\ ueMap[k].state = "ABSENT" /\ NobodyJoins(k)
         /\ peer # k /\ (ue.state # "idle" => ue.key # k)
         /\ \A l \in Links : \A n \in X2Messages : MessageOK(l, n) =>
              ~(n.kind \in Handshake /\ n.old = k) /\ ~(n.kind = "ack" /\ n.new = k)
<1>1. ueMap[k].state = "ABSENT" /\ peer # k /\ (ue.state # "idle" => ue.key # k)
  BY DEF IInv, RntisKnown
<1>2. NobodyJoins(k)
  BY DEF IInv, ContextsOK, NobodyJoins, Joined
<1>3. \A l \in Links : \A n \in X2Messages : MessageOK(l, n) =>
        ~(n.kind \in Handshake /\ n.old = k) /\ ~(n.kind = "ack" /\ n.new = k)
  BY DEF MessageOK
<1> QED
  BY <1>1, <1>2, <1>3

(* The context that stands for none, and a new one.                        *)
LEMMA AbsentContext ==
  /\ Absent \in Contexts /\ Absent.state = "ABSENT" /\ Absent.timer = "none" /\ ~Absent.x2u
  /\ Accessing \in Contexts /\ Accessing.state = "INITIAL_RANDOM_ACCESS"
  /\ Accessing.timer = "request" /\ ~Accessing.x2u
BY StateNames DEF Absent, Accessing, Contexts

(* The contexts when one is removed.                                       *)
LEMMA Removed ==
  ASSUME ueMap \in [Keys -> Contexts], NEW k \in Keys, RemoveUe(k)
  PROVE  ueMap' \in [Keys -> Contexts] /\ ChangesOnly(k) /\ ueMap'[k] = Absent
<1>1. ueMap'[k] = Absent
  BY DEF RemoveUe
<1>2. ASSUME NEW j \in Keys, j # k
      PROVE  /\ ueMap'[j] \in Contexts
             /\ ueMap'[j].state = ueMap[j].state /\ ueMap'[j].timer = ueMap[j].timer
             /\ ueMap'[j].target = ueMap[j].target /\ ueMap'[j].source = ueMap[j].source
             /\ ueMap'[j].pending = ueMap[j].pending /\ ueMap'[j].teid = ueMap[j].teid
             /\ ueMap'[j].buffer = ueMap[j].buffer
             /\ ueMap'[j].x2u => ueMap[j].x2u
  <2>1. PICK x \in Contexts : x = ueMap[j]
    OBVIOUS
  <2>2. ueMap'[j] = x \/ ueMap'[j] = [x EXCEPT !.x2u = FALSE]
    BY <1>2, <2>1 DEF RemoveUe
  <2>3. PICK y : y = [x EXCEPT !.x2u = FALSE]
    OBVIOUS
  <2>4. /\ y \in Contexts /\ y.state = x.state /\ y.timer = x.timer /\ y.target = x.target
        /\ y.source = x.source /\ y.pending = x.pending /\ y.teid = x.teid
        /\ y.buffer = x.buffer /\ ~y.x2u
    BY <2>3 DEF Contexts
  <2> QED
    BY <2>1, <2>2, <2>3, <2>4
<1>3. ueMap' \in [Keys -> Contexts]
  <2>1. DOMAIN ueMap' = Keys /\ ueMap' = [j \in Keys |-> ueMap'[j]]
    BY DEF RemoveUe
  <2>2. \A j \in Keys : ueMap'[j] \in Contexts
    BY <1>1, <1>2, AbsentContext
  <2> QED
    BY <2>1, <2>2
<1> QED
  BY <1>1, <1>2, <1>3 DEF ChangesOnly

(* A context that is removed.                                              *)
LEMMA RemovalFollows ==
  ASSUME IInv, NEW k \in Keys, RemoveUe(k), UNCHANGED <<faults, lastRnti>>
  PROVE  /\ ueMap' \in [Keys -> Contexts] /\ ChangesOnly(k) /\ ueMap'[k].state = "ABSENT"
         /\ TimerOfState' /\ ContextsOK' /\ KnownStays
         /\ \A l \in Links : \A n \in X2Messages : MessageOK(l, n) => MessageOK(l, n)'
<1>1. /\ ueMap' \in [Keys -> Contexts] /\ ChangesOnly(k) /\ ueMap'[k].state = "ABSENT"
      /\ ueMap'[k].timer = "none" /\ ~ueMap'[k].x2u
  BY AbsentContext, Removed DEF IInv, TypeOK
<1>2. KnownStays
  BY DEF KnownStays, Known
<1>3. TimerOfState'
  BY <1>1, TimersFollow DEF IInv
<1>4. \A s : ~Joined(k, s)'
  BY <1>1 DEF Joined
<1>5. ContextsOK'
  BY <1>1, <1>2, <1>4, ContextsFollow DEF IInv, Leftover
<1>6. ASSUME NEW l \in Links, NEW n \in X2Messages, MessageOK(l, n)
      PROVE  MessageOK(l, n)'
  BY <1>1, <1>2, <1>4, <1>6, MessageKept
<1> QED
  BY <1>1, <1>2, <1>3, <1>5, <1>6

(* The request of a random access does not come.                           *)
LEMMA RequestTimeoutKeeps ==
  ASSUME IInv, NEW k \in Keys, ConnectionRequestTimeout(k)
  PROVE  IInv'
<1>1. /\ air = <<>> /\ RemoveUe(k)
      /\ UNCHANGED <<faults, lastRnti, ue, peer, air, x2, s1, packets, transmitted, aborted>>
  BY DEF ConnectionRequestTimeout, Quiet
<1>2. ueMap[k].state = "INITIAL_RANDOM_ACCESS"
  BY DEF ConnectionRequestTimeout, IInv, TimerOfState
<1>3. /\ ueMap' \in [Keys -> Contexts] /\ ChangesOnly(k) /\ ueMap'[k].state = "ABSENT"
      /\ TimerOfState' /\ ContextsOK' /\ KnownStays
      /\ \A l \in Links : \A n \in X2Messages : MessageOK(l, n) => MessageOK(l, n)'
  BY <1>1, RemovalFollows
<1>4. X2OK
  BY DEF IInv, TypeOK, X2OK
<1>5. PICK m \in {ToEnb("remove", k)} :
        X2OK' /\ Moved(NoLink, NoLink, m) /\ Kept(NoLink, NoLink, m)
  BY <1>1, <1>4, StaysMoves
<1>6. TypeOK'
  BY <1>1, <1>3 DEF IInv, TypeOK
<1>7. RntisKnown'
  BY <1>1, <1>3, KnownFollowsNet
<1>8. MessagesOK'
  BY <1>3, <1>4, <1>5, LinkParts, MessagesFollow DEF IInv
<1>9. OneMessage'
  BY <1>1 DEF IInv, OneMessage, Follows, GoodRadio
<1>10. UePlaced'
  <2>1. (Serves(k)' <=> Serves(k)) /\ ~Awaited(k)
    BY <1>2, <1>3 DEF Serves, Serving, Awaited
  <2> QED
    BY <1>1, <1>2, <1>3, <1>5, <2>1, LinkParts, QuietFollows DEF IInv
<1>11. SourceWaits'
  BY <1>1, <1>2, <1>3, SourcesFollow DEF IInv
<1>12. PacketsAccountedFor'
  BY <1>1, <1>2, <1>3 DEF IInv, PacketsAccountedFor, GoodRadio, ChangesOnly
<1> QED
  BY <1>3, <1>6, <1>7, <1>8, <1>9, <1>10, <1>11, <1>12 DEF IInv

(* A random access at a cell, whose response may be lost.                  *)
LEMMA RandomAccessKeeps ==
  ASSUME IInv, NEW c \in Cells, RandomAccess(c)
  PROVE  IInv'
<1>1. /\ air = <<>> /\ ue.state = "idle" /\ AddUe(c, Accessing)
      /\ UNCHANGED <<faults, x2, s1, packets, transmitted, aborted>>
  BY DEF RandomAccess, Quiet
<1>2. PICK k : k = NewKey(c)
  OBVIOUS
<1>3. /\ k \in Keys /\ ~Known(k) /\ Known(k)' /\ KnownStays
      /\ lastRnti' \in [Cells -> 0 .. MaxRnti]
  BY <1>1, <1>2, NewKeys DEF IInv, AddUe
<1>4. /\ ueMap[k].state = "ABSENT" /\ NobodyJoins(k)
      /\ \A l \in Links : \A n \in X2Messages : MessageOK(l, n) =>
           ~(n.kind \in Handshake /\ n.old = k) /\ ~(n.kind = "ack" /\ n.new = k)
  BY <1>3, FreshKey
<1>5. /\ ueMap' \in [Keys -> Contexts] /\ ChangesOnly(k)
      /\ ueMap'[k].state = "INITIAL_RANDOM_ACCESS" /\ ueMap'[k].timer = "request"
      /\ ~ueMap'[k].x2u
  <2>1. ueMap' = [ueMap EXCEPT ![k] = Accessing]
    BY <1>1, <1>2 DEF AddUe
  <2> QED
    BY <1>3, <2>1, AbsentContext, ContextChanges DEF IInv
<1>6. X2OK
  BY DEF IInv, TypeOK, X2OK
<1>7. PICK m \in {"none"} : X2OK' /\ Moved(NoLink, NoLink, m) /\ Kept(NoLink, NoLink, m)
  BY <1>1, <1>6, StaysMoves
<1>8. \A s : ~Joined(k, s)'
  BY <1>5 DEF Joined
<1>9. Nowhere /\ Nowhere'
  <2>1. Nowhere
    BY <1>1, OneInAir DEF IInv, UePlaced, WhenQuiet
  <2> QED
    BY <1>5, <2>1 DEF Nowhere, Serves, Serving, ChangesOnly
<1>10. /\ peer' \in Keys /\ Known(peer)' /\ (ue'.state # "idle" => Known(ue.key)')
       /\ ue' \in UeStates /\ air' \in Seq(AirMessages) /\ UePlaced'
       /\ \/ air' = <<>>
          \/ \E m2 \in AirMessages : air' = <<m2>> /\ m2.kind # "command"
  <2>1. ue.leave
    BY <1>1 DEF IInv, UePlaced
  <2>2. CASE UNCHANGED <<ue, peer, air>>
    <3>1. Known(peer)'
      BY <1>3, <2>2, UeParts DEF KnownStays, Known
    <3> QED
      BY <1>1, <1>9, <2>1, <2>2, <3>1, UeParts DEF IInv, TypeOK, UePlaced, WhenQuiet
  <2>3. CASE /\ ue' = [ue EXCEPT !.state = "connecting", !.key = NewKey(c)]
             /\ peer' = NewKey(c)
             /\ air' = Append(air, ToEnb("request", NewKey(c)))
    <3>1. PICK n \in AirMessages : n = ToEnb("request", k) /\ n.kind = "request" /\ n.to = k
      BY <1>3, AirTyped DEF AirKinds
    <3>2. air' = <<n>> /\ peer' = k
      BY <1>1, <1>2, <2>3, <3>1, OneInAir
    <3>3. ue'.state = "connecting" /\ ue'.key = k /\ ue'.leave = TRUE /\ ue' \in UeStates
      BY <1>2, <1>3, <2>1, <2>3, UeParts DEF UeStates
    <3>4. WhenDue(n)'
      BY <1>5, <1>9, <3>1, <3>2, <3>3 DEF WhenDue
    <3>5. Known(peer)' /\ Known(ue.key)'
      BY <1>3, <3>2, <3>3 DEF Known
    <3>6. UePlaced'
      BY <1>1, <3>1, <3>2, <3>3, <3>4, DueFollows
    <3> QED
      BY <1>3, <3>1, <3>2, <3>3, <3>5, <3>6, OneInAir
  <2> QED
    BY <2>2, <2>3 DEF RandomAccess
<1>11. TypeOK'
  BY <1>1, <1>3, <1>5, <1>10 DEF IInv, TypeOK
<1>12. TimerOfState'
  BY <1>3, <1>5, TimersFollow DEF IInv
<1>13. RntisKnown'
  <2>1. \A j \in Keys : ueMap'[j].state # "ABSENT" => Known(j)'
    BY <1>3, <1>5 DEF IInv, RntisKnown, ChangesOnly, KnownStays
  <2>2. \A i \in 1 .. Len(air') : air'[i].kind # "command"
    BY <1>10, OneInAir
  <2> QED
    BY <1>10, <2>1, <2>2 DEF RntisKnown
<1>14. ContextsOK'
  BY <1>3, <1>4, <1>5, <1>8, ContextsFollow DEF IInv
<1>15. MessagesOK'
  <2>1. ASSUME NEW l \in Links, NEW n \in X2Messages, MessageOK(l, n)
        PROVE  MessageOK(l, n)'
    BY <1>1, <1>3, <1>4, <1>5, <1>8, <2>1, MessageKept
  <2> QED
    BY <1>6, <1>7, <2>1, LinkParts, MessagesFollow DEF IInv
<1>16. OneMessage'
  BY <1>1 DEF IInv, OneMessage, Follows, GoodRadio
<1>17. SourceWaits'
  BY <1>9 DEF SourceWaits, Nowhere, Serves, Serving
<1>18. PacketsAccountedFor'
  BY <1>1, <1>4, <1>5 DEF IInv, PacketsAccountedFor, GoodRadio, ChangesOnly
<1> QED
  BY <1>10, <1>11, <1>12, <1>13, <1>14, <1>15, <1>16, <1>17, <1>18 DEF IInv
----------------------------------------------------------------------------
(* Messages between the eNBs.                                              *)
X2Kinds == {"request", "ack", "failure", "snStatus", "release", "cancel", "data"}
(* The X2 messages are typed, ...                                          *)
LEMMA X2Typed ==
  \A kind \in X2Kinds : \A o, n \in Keys \cup {NoKey} :
    /\ X2(kind, o, n) \in X2Messages
    /\ X2(kind, o, n).kind = kind /\ X2(kind, o, n).old = o /\ X2(kind, o, n).new = n
BY X2Constants DEF X2, X2Messages, X2Kinds

(* ... also those that carry a tunnel id.                                  *)
LEMMA X2TypedTeid ==
  ASSUME NEW kind \in X2Kinds, NEW o \in Keys \cup {NoKey}, NEW id \in Keys \cup {NoKey},
         NEW y, y = [kind |-> kind, old |-> o, new |-> NoKey, teid |-> id, data |-> 0]
  PROVE  y \in X2Messages /\ y.kind = kind /\ y.old = o
BY X2Constants DEF X2, X2Messages, X2Kinds

(* The source asks the target.                                             *)
LEMMA ReportKeeps ==
  ASSUME IInv, NEW t \in Cells, MeasurementReport(t)
  PROVE  IInv'
<1>1. PICK k \in Keys : k = peer /\ Known(k)
  BY UeParts
<1>2. /\ air = <<>> /\ k[1] # t /\ ueMap[k].state = "CONNECTED_NORMALLY" /\ PrepareHandover(k, t)
      /\ UNCHANGED <<faults, lastRnti, ue, peer, air, s1, packets, transmitted, aborted>>
  BY <1>1 DEF MeasurementReport, Quiet, HandoverAllowed, InState
<1>3. ueMap[k] \in Contexts /\ ueMap[k].timer = "none"
  BY <1>2 DEF IInv, TypeOK, TimerOfState
<1>4. PICK x : x = [ueMap[k] EXCEPT !.state = "HANDOVER_PREPARATION", !.target = t]
  OBVIOUS
<1>5. /\ x \in Contexts /\ x.state = "HANDOVER_PREPARATION" /\ x.timer = "none"
      /\ x.target = t /\ x.x2u = ueMap[k].x2u
  BY <1>3, <1>4, ContextParts, StateNames DEF Contexts
<1>6. ueMap' = [ueMap EXCEPT ![k] = x]
  BY <1>2, <1>4 DEF PrepareHandover, IInv, TypeOK
<1>7. ueMap' \in [Keys -> Contexts] /\ ChangesOnly(k) /\ ueMap'[k] = x
  BY <1>5, <1>6, ContextChanges DEF IInv
<1>8. PICK m : m = [X2("request", k, NoKey) EXCEPT !.teid = ueMap[k].teid]
  OBVIOUS
<1>9. m \in X2Messages /\ m.kind = "request" /\ m.old = k
  <2>1. ueMap[k].teid \in Keys \cup {NoKey}
    BY <1>3, ContextParts
  <2>2. "request" \in X2Kinds /\ k \in Keys \cup {NoKey}
    BY DEF X2Kinds
  <2>3. m = [kind |-> "request", old |-> k, new |-> NoKey, teid |-> ueMap[k].teid, data |-> 0]
    BY <1>8 DEF X2
  <2> QED
    BY <2>1, <2>2, <2>3, X2TypedTeid
<1>10. PICK s : s = <<k[1], t>> /\ s \in Links /\ s[1] = k[1]
  <2>1. k[1] \in Cells
    BY KeyParts
  <2>2. <<k[1], t>> \in Links
    BY <1>2, <2>1, LinkParts
  <2> QED
    BY <2>2
<1>11. X2OK
  BY DEF IInv, TypeOK, X2OK
<1>12. X2OK' /\ Moved(NoLink, s, m) /\ Kept(NoLink, s, m)
  BY <1>2, <1>8, <1>9, <1>10, <1>11, SentMoves DEF PrepareHandover
<1>13. KnownStays
  BY <1>2 DEF KnownStays, Known
<1>14. NobodyJoins(k)
  BY <1>2 DEF IInv, ContextsOK, NobodyJoins, Joined
<1>15. \A j : ~Joined(k, j) /\ ~Joined(k, j)'
  BY <1>2, <1>5, <1>7 DEF Joined
<1>16. ASSUME NEW l \in Links, NEW n \in X2Messages, MessageOK(l, n)
       PROVE  ~(n.kind \in Handshake /\ n.old = k) /\ ~(n.kind = "ack" /\ n.new = k)
  BY <1>2, <1>16 DEF MessageOK, Handshake, AskedFor
<1>17. TypeOK'
  BY <1>2, <1>7, <1>12 DEF IInv, TypeOK, X2OK
<1>18. TimerOfState'
  BY <1>5, <1>7, TimersFollow DEF IInv
<1>19. RntisKnown'
  BY <1>1, <1>2, <1>7, <1>13, KnownFollowsNet DEF KnownStays
<1>20. ContextsOK'
  BY <1>2, <1>5, <1>7, <1>13, <1>14, <1>15, ContextsFollow DEF IInv, Serving
<1>21. MessagesOK'
  <2>1. MessageOK(s, m)'
    <3>1. NobodyJoins(k)'
      BY <1>7, <1>14, <1>15 DEF NobodyJoins, Joined, ChangesOnly
    <3>2. AskedFor(k)' /\ Known(k)'
      BY <1>1, <1>5, <1>7, <1>13 DEF AskedFor, KnownStays
    <3> QED
      BY <1>9, <1>10, <3>1, <3>2 DEF MessageOK
  <2>2. ASSUME NEW l \in Links, NEW n \in X2Messages, MessageOK(l, n)
        PROVE  MessageOK(l, n)'
    BY <1>2, <1>7, <1>13, <1>15, <1>16, <2>2, MessageKept
  <2> QED
    BY <1>11, <1>12, <2>1, <2>2, MessagesFollow DEF IInv
<1>22. OneMessage'
  <2>1. \A l \in Links : \A i \in 1 .. Len(x2[l]) :
          ~(x2[l][i].kind \in Handshake /\ x2[l][i].old = k)
    BY <1>11, <1>16 DEF IInv, MessagesOK, X2OK
  <2> QED
    BY <1>2, <1>9, <1>11, <1>12, <2>1, OneMessageFollows DEF IInv
<1>23. UePlaced'
  <2>1. (Serves(k)' <=> Serves(k)) /\ ~Awaited(k)
    BY <1>2, <1>5, <1>7 DEF Serves, Serving, Awaited
  <2> QED
    BY <1>2, <1>7, <1>9, <1>12, <1>13, <2>1, QuietFollows DEF IInv
<1>24. SourceWaits'
  BY <1>2, <1>5, <1>7, SourcesFollow DEF IInv
<1>25. PacketsAccountedFor'
  <2>1. \A j \in Keys : ueMap[j].state = "HANDOVER_JOINING" =>
          ueMap'[j].state = "HANDOVER_JOINING" /\ ueMap'[j].buffer = ueMap[j].buffer
    BY <1>2, <1>7 DEF ChangesOnly
  <2> QED
    BY <1>2, <1>11, <1>12, <2>1, LinkParts, PacketsFollow DEF IInv
<1> QED
  BY <1>17, <1>18, <1>19, <1>20, <1>21, <1>22, <1>23, <1>24, <1>25 DEF IInv

(* A step that changes no state, at most what a context has buffered.      *)
LEMMA BufferFollows ==
  ASSUME IInv, NEW k \in Keys, ueMap' \in [Keys -> Contexts], ChangesOnly(k),
         ueMap'[k].state = ueMap[k].state, ueMap'[k].timer = ueMap[k].timer,
         ueMap'[k].source = ueMap[k].source, ueMap'[k].target = ueMap[k].target,
         ueMap'[k].x2u = ueMap[k].x2u,
         air = <<>>, UNCHANGED <<faults, lastRnti, ue, peer, air>>,
         NEW r, NEW s, NEW m, Moved(r, s, m), X2OK', m.kind = "data",
         s \in Links => m.data \in 1 .. MaxData
  PROVE  /\ TimerOfState' /\ RntisKnown' /\ ContextsOK' /\ MessagesOK' /\ OneMessage'
         /\ UePlaced' /\ SourceWaits'
<1>1. KnownStays
  BY DEF KnownStays, Known
<1>2. \A j : Joined(k, j)' <=> Joined(k, j)
  BY DEF Joined
<1>3. X2OK
  BY DEF IInv, TypeOK, X2OK
<1>4. TimerOfState'
  BY DEF IInv, TimerOfState, ChangesOnly
<1>5. RntisKnown'
  <2>1. ueMap'[k].state # "ABSENT" => Known(k)'
    BY <1>1 DEF IInv, RntisKnown, KnownStays
  <2> QED
    BY <1>1, <2>1, KnownFollowsNet
<1>6. ContextsOK'
  <2>1. ueMap[k].state \in Leftover \/ NobodyJoins(k)
    BY DEF IInv, ContextsOK, NobodyJoins, Joined, Leftover
  <2>2. /\ ueMap[k].x2u =>
             ueMap[k].state \in Serving \cup {"HANDOVER_LEAVING", "HANDOVER_JOINING"}
        /\ ueMap[k].state \in {"HANDOVER_PREPARATION", "HANDOVER_LEAVING"} =>
             ueMap[k].target \in Cells \ {k[1]}
    BY DEF IInv, ContextsOK
  <2> QED
    BY <1>1, <1>2, <2>1, <2>2, ContextsFollow DEF IInv
<1>7. MessagesOK'
  <2>1. s \in Links => MessageOK(s, m)'
    BY DEF MessageOK, Handshake
  <2>2. ASSUME NEW l \in Links, NEW n \in X2Messages, MessageOK(l, n)
        PROVE  MessageOK(l, n)'
    BY <1>1, <1>2, <2>2, MessageKept
  <2> QED
    BY <1>3, <2>1, <2>2, MessagesFollow DEF IInv
<1>8. OneMessage'
  BY <1>3, OneMessageFollows DEF IInv, Handshake
<1>9. UePlaced'
  <2>1. Serves(k)' <=> Serves(k)
    BY DEF Serves
  <2> QED
    BY <1>1, <2>1, QuietFollows DEF IInv
<1>10. SourceWaits'
  BY SourcesFollow DEF IInv
<1> QED
  BY <1>4, <1>5, <1>6, <1>7, <1>8, <1>9, <1>10

(* The first message of a link.                                            *)
LEMMA FirstMessage ==
  ASSUME IInv, NEW l \in Links, x2[l] # <<>>, NEW m, m = Head(x2[l])
  PROVE  /\ m \in X2Messages /\ x2[l][1] = m /\ 1 \in 1 .. Len(x2[l]) /\ MessageOK(l, m)
         /\ m.old \in Keys \cup {NoKey} /\ m.new \in Keys \cup {NoKey}
         /\ m.teid \in Keys \cup {NoKey}
<1>1. x2[l] \in Seq(X2Messages)
  BY DEF IInv, TypeOK
<1>2. m \in X2Messages /\ x2[l][1] = m /\ 1 \in 1 .. Len(x2[l])
  BY <1>1, TakeOne
<1>3. MessageOK(l, m)
  BY <1>2 DEF IInv, MessagesOK
<1> QED
  BY <1>2, <1>3 DEF X2Messages

(* The status transfer of a handover is looked at and dropped.             *)
LEMMA SnStatusKeeps ==
  ASSUME IInv, NEW l \in Links, RecvSnStatusTransfer(l)
  PROVE  IInv'
<1>1. /\ air = <<>> /\ x2[l] # <<>> /\ Head(x2[l]).kind = "snStatus" /\ x2' = Received(l)
      /\ UNCHANGED <<faults, ueMap, lastRnti, ue, peer, air, s1, packets, transmitted, aborted>>
  BY DEF RecvSnStatusTransfer, X2Head, Quiet
<1>2. X2OK /\ ueMap \in [Keys -> Contexts]
  BY DEF IInv, TypeOK, X2OK
<1>3. PICK m \in {[kind |-> "data"]} : m.kind = "data"
  OBVIOUS
<1>4. X2OK' /\ Moved(l, NoLink, m) /\ Kept(l, NoLink, m)
  BY <1>1, <1>2, ReceivedMoves
<1>5. PICK k \in Keys : ChangesOnly(k)
  BY <1>1, UeParts DEF ChangesOnly
<1>6. ueMap' = ueMap
  BY <1>1
<1>7. /\ TimerOfState' /\ RntisKnown' /\ ContextsOK' /\ MessagesOK' /\ OneMessage'
      /\ UePlaced' /\ SourceWaits'
  BY <1>1, <1>2, <1>3, <1>4, <1>5, <1>6, LinkParts, BufferFollows
<1>8. TypeOK'
  BY <1>1, <1>4 DEF IInv, TypeOK, X2OK
<1>9. PacketsAccountedFor'
  <2>1. x2[l][1].kind # "data"
    BY <1>1, FirstMessage
  <2> QED
    BY <1>1, <1>2, <1>4, <2>1, PacketsFollow DEF IInv
<1> QED
  BY <1>7, <1>8, <1>9 DEF IInv

(* UeManager::SendData: packet p, taken from link r or from the core, is   *)
(* transmitted, buffered or forwarded over link s.                         *)
LEMMA DataFollows ==
  ASSUME IInv, NEW k \in Keys, NEW p \in 1 .. MaxData, NEW q, SendData(k, p, q), air = <<>>,
         UNCHANGED <<faults, lastRnti, ue, peer, air, s1, aborted>>,
         ueMap[k].state \in Serving \cup {"HANDOVER_JOINING", "HANDOVER_LEAVING"},
         packets' \in 0 .. MaxData,
         NEW r, r \in Links => x2[r] # <<>> /\ x2[r][1].kind = "data" /\ x2[r][1].data = p,
         \A i \in 1 .. packets' : i \in 1 .. packets \/ i = p,
         \A s : \A m \in X2Messages :
           /\ s = <<k[1], ueMap[k].target>> /\ s \in Links
           /\ x2' = Sent(q, k[1], ueMap[k].target, m)
           => X2OK' /\ Moved(r, s, m) /\ Kept(r, s, m),
         \A m : x2' = q => X2OK' /\ Moved(r, NoLink, m) /\ Kept(r, NoLink, m)
  PROVE  IInv'
<1>1. X2OK /\ ueMap \in [Keys -> Contexts] /\ ueMap[k] \in Contexts
  BY DEF IInv, TypeOK, X2OK
<1>2. PICK e : e = X2("data", NoKey, NoKey)
  OBVIOUS
<1>3. PICK m : m = [e EXCEPT !.teid = ueMap[k].teid, !.data = p]
  OBVIOUS
<1>4. m \in X2Messages /\ m.kind = "data" /\ m.data = p
  <2>1. e = [kind |-> "data", old |-> NoKey, new |-> NoKey, teid |-> NoKey, data |-> 0]
    BY <1>2 DEF X2
  <2>2. ueMap[k].teid \in Keys \cup {NoKey} /\ p \in 0 .. MaxData
    BY <1>1, ContextParts, X2Constants
  <2> QED
    BY <1>3, <2>1, <2>2 DEF X2Messages
<1>5. ueMap[k].state = "HANDOVER_LEAVING" => x2' = Sent(q, k[1], ueMap[k].target, m)
  BY <1>2, <1>3 DEF SendData
<1>6. ueMap[k].state # "HANDOVER_LEAVING" => x2' = q
  BY DEF SendData
<1>7. ueMap[k].state = "HANDOVER_LEAVING" => <<k[1], ueMap[k].target>> \in Links
  <2>1. k[1] \in Cells
    BY KeyParts
  <2>2. ueMap[k].state = "HANDOVER_LEAVING" => ueMap[k].target \in Cells \ {k[1]}
    BY DEF IInv, ContextsOK
  <2> QED
    BY <2>1, <2>2, LinkParts
<1>8. PICK s : /\ s = IF ueMap[k].state = "HANDOVER_LEAVING"
                        THEN <<k[1], ueMap[k].target>> ELSE NoLink
               /\ X2OK' /\ Moved(r, s, m) /\ Kept(r, s, m)
  BY <1>4, <1>5, <1>6, <1>7
<1>9. /\ ueMap' \in [Keys -> Contexts] /\ ChangesOnly(k)
      /\ ueMap'[k].state = ueMap[k].state /\ ueMap'[k].timer = ueMap[k].timer
      /\ ueMap'[k].source = ueMap[k].source /\ ueMap'[k].target = ueMap[k].target
      /\ ueMap'[k].x2u = ueMap[k].x2u
      /\ ueMap[k].buffer \subseteq ueMap'[k].buffer
      /\ ueMap[k].state = "HANDOVER_JOINING" => p \in ueMap'[k].buffer
  <2>1. CASE ueMap[k].state # "HANDOVER_JOINING"
    <3>1. ueMap' = ueMap
      BY <2>1 DEF SendData
    <3> QED
      BY <1>1, <2>1, <3>1 DEF ChangesOnly
  <2>2. CASE ueMap[k].state = "HANDOVER_JOINING"
    <3>1. PICK x : x = [ueMap[k] EXCEPT !.buffer = ueMap[k].buffer \cup {p}]
      OBVIOUS
    <3>2. /\ x \in Contexts /\ x.state = ueMap[k].state /\ x.timer = ueMap[k].timer
          /\ x.source = ueMap[k].source /\ x.target = ueMap[k].target /\ x.x2u = ueMap[k].x2u
          /\ x.buffer = ueMap[k].buffer \cup {p}
      BY <1>1, <3>1, ContextParts DEF Contexts
    <3>3. ueMap' = [ueMap EXCEPT ![k] = x]
      BY <1>1, <2>2, <3>1 DEF SendData
    <3> QED
      BY <3>2, <3>3, ContextChanges DEF IInv
  <2> QED
    BY <2>1, <2>2
<1>10. /\ TimerOfState' /\ RntisKnown' /\ ContextsOK' /\ MessagesOK' /\ OneMessage'
      /\ UePlaced' /\ SourceWaits'
  BY <1>4, <1>8, <1>9, BufferFollows
<1>11. transmitted \subseteq transmitted' /\ transmitted' \subseteq 1 .. MaxData
  BY DEF SendData, IInv, TypeOK
<1>12. TypeOK'
  BY <1>8, <1>9, <1>11 DEF IInv, TypeOK, X2OK
<1>13. Accounted(p)'
  <2>1. CASE ueMap[k].state \in Serving
    BY <2>1 DEF SendData, Accounted
  <2>2. CASE ueMap[k].state = "HANDOVER_JOINING"
    BY <1>9, <2>2 DEF Accounted
  <2>3. CASE ueMap[k].state = "HANDOVER_LEAVING"
    <3>1. s \in Links
      BY <1>7, <1>8, <2>3
    <3>2. PICK j \in 1 .. Len(x2'[s]) : x2'[s][j] = m
      BY <1>8, <3>1 DEF Kept
    <3>3. j \in DOMAIN x2'[s]
      BY <1>8, <3>1, <3>2 DEF X2OK
    <3> QED
      BY <1>4, <3>1, <3>2, <3>3 DEF Accounted
  <2> QED
    BY <2>1, <2>2, <2>3
<1>14. PacketsAccountedFor'
  <2>1. GoodRadio' = GoodRadio
    BY DEF GoodRadio
  <2>2. \A j \in Keys : ueMap[j].state = "HANDOVER_JOINING" =>
          ueMap'[j].state = "HANDOVER_JOINING" /\ ueMap[j].buffer \subseteq ueMap'[j].buffer
    BY <1>9 DEF ChangesOnly
  <2>3. \A d : r \in Links /\ x2[r] # <<>> /\ x2[r][1].kind = "data" /\ d = x2[r][1].data =>
               Accounted(d)'
    BY <1>13
  <2>4. ASSUME GoodRadio, NEW i \in 1 .. packets' PROVE Accounted(i)'
    <3>1. CASE i = p
      BY <1>13, <3>1
    <3>2. CASE i \in 1 .. packets
      <4>1. Accounted(i)
        BY <2>4, <3>2, PacketsAre DEF IInv
      <4> QED
        BY <1>1, <1>8, <1>11, <2>2, <2>3, <4>1, PacketFollows
    <3> QED
      BY <3>1, <3>2
  <2>5. (GoodRadio => \A i \in 1 .. packets : Accounted(i))'
    BY <2>1, <2>4
  <2> QED
    BY <2>5 DEF PacketsAccountedFor, Accounted
<1> QED
  BY <1>10, <1>12, <1>14 DEF IInv

(* A packet from the core, ...                                             *)
LEMMA S1uDataKeeps ==
  ASSUME IInv, NEW k \in Keys, RecvS1uData(k)
  PROVE  IInv'
<1>1. /\ air = <<>> /\ packets < MaxData /\ packets' = packets + 1
      /\ ueMap[k].state \in Serving \cup {"HANDOVER_LEAVING"}
      /\ SendData(k, packets + 1, x2)
      /\ UNCHANGED <<faults, lastRnti, ue, peer, air, s1, aborted>>
  BY DEF RecvS1uData, Quiet, InState
<1>2. packets \in 0 .. MaxData /\ MaxData \in Nat
  BY X2Constants DEF IInv, TypeOK
<1>3. PICK p \in 1 .. MaxData : p = packets + 1
  BY <1>1, <1>2
<1>4. /\ packets' \in 0 .. MaxData
      /\ \A i \in 1 .. packets' : i \in 1 .. packets \/ i = p
  BY <1>1, <1>2, <1>3
<1>5. X2OK
  BY DEF IInv, TypeOK, X2OK
<1>6. ASSUME NEW s, NEW m \in X2Messages, s = <<k[1], ueMap[k].target>>, s \in Links,
             x2' = Sent(x2, k[1], ueMap[k].target, m)
      PROVE  X2OK' /\ Moved(NoLink, s, m) /\ Kept(NoLink, s, m)
  BY <1>5, <1>6, SentMoves
<1>7. ASSUME NEW m, x2' = x2
      PROVE  X2OK' /\ Moved(NoLink, NoLink, m) /\ Kept(NoLink, NoLink, m)
  BY <1>5, <1>7, StaysMoves
<1>8. SendData(k, p, x2)
  BY <1>1, <1>3
<1> QED
  BY <1>1, <1>4, <1>6, <1>7, <1>8, LinkParts, DataFollows

(* ... or from another eNB.                                                *)
LEMMA UeDataKeeps ==
  ASSUME IInv, NEW l \in Links, RecvUeData(l)
  PROVE  IInv'
<1>1. PICK m : m = Head(x2[l])
  OBVIOUS
<1>2. /\ air = <<>> /\ x2[l] # <<>> /\ m.kind = "data"
      /\ UNCHANGED <<faults, lastRnti, ue, peer, air, s1, packets, aborted>>
  BY <1>1 DEF RecvUeData, X2Head, Quiet
<1>3. PICK k \in X2uTeidInfo(l[2], m.teid) : SendData(k, m.data, Received(l))
  BY <1>1 DEF RecvUeData
<1>4. k \in Keys /\ k[1] = l[2] /\ ueMap[k].x2u
  BY <1>3 DEF X2uTeidInfo
<1>5. ueMap[k].state \in Serving \cup {"HANDOVER_JOINING", "HANDOVER_LEAVING"}
  BY <1>4 DEF IInv, ContextsOK
<1>6. x2[l][1] = m /\ m.data \in 1 .. MaxData
  BY <1>1, <1>2, FirstMessage DEF MessageOK
<1>7. PICK p \in 1 .. MaxData : p = m.data
  BY <1>6
<1>8. packets' \in 0 .. MaxData /\ \A i \in 1 .. packets' : i \in 1 .. packets \/ i = p
  BY <1>2 DEF IInv, TypeOK
<1>9. X2OK
  BY DEF IInv, TypeOK, X2OK
<1>10. ASSUME NEW s, NEW n \in X2Messages, s = <<k[1], ueMap[k].target>>, s \in Links,
              x2' = Sent(Received(l), k[1], ueMap[k].target, n)
       PROVE  X2OK' /\ Moved(l, s, n) /\ Kept(l, s, n)
  <2>1. <<k[1], ueMap[k].target>> # l
    BY <1>4, LinkParts
  <2> QED
    BY <1>2, <1>9, <1>10, <2>1, AnsweredMoves
<1>11. ASSUME NEW n, x2' = Received(l)
       PROVE  X2OK' /\ Moved(l, NoLink, n) /\ Kept(l, NoLink, n)
  BY <1>2, <1>9, <1>11, ReceivedMoves
<1>12. SendData(k, p, Received(l))
  BY <1>3, <1>7
<1> QED
  BY <1>2, <1>4, <1>5, <1>6, <1>7, <1>8, <1>10, <1>11, <1>12, DataFollows
----------------------------------------------------------------------------
(* Handovers that fail after the target has accepted.                      *)

(* A joining context is removed and its source told.                       *)
LEMMA FailureFollows ==
  ASSUME IInv, NEW k \in Keys, ueMap[k].state = "HANDOVER_JOINING", RemoveUe(k), ~GoodRadio,
         x2' = PrepFailed(x2, k), UNCHANGED <<faults, lastRnti>>
  PROVE  /\ X2OK' /\ MessagesOK' /\ OneMessage'
         /\ \E s, m : Moved(NoLink, s, m) /\ m.kind = "failure"
<1>1. PICK o : o = ueMap[k].source
  OBVIOUS
<1>2. /\ Joined(k, o) /\ Known(o) /\ o[1] # k[1] /\ ueMap[o].state \in Leftover
      /\ \A j \in Keys : Joined(j, o) => j = k
  BY <1>1 DEF IInv, ContextsOK, Joined, Leftover
<1>3. /\ ueMap' \in [Keys -> Contexts] /\ ChangesOnly(k) /\ ueMap'[k].state = "ABSENT"
      /\ KnownStays
      /\ \A l \in Links : \A n \in X2Messages : MessageOK(l, n) => MessageOK(l, n)'
  BY RemovalFollows
<1>4. PICK m : m = X2("failure", o, NoKey)
  OBVIOUS
<1>5. o \in Keys /\ m \in X2Messages /\ m.kind = "failure" /\ m.old = o
  BY <1>2, <1>4, X2Typed DEF X2Kinds, Known
<1>6. PICK s : s = <<k[1], o[1]>> /\ s \in Links /\ s[1] = k[1] /\ s[2] = o[1]
  <2>1. k[1] \in Cells /\ o[1] \in Cells
    BY <1>5, KeyParts
  <2>2. <<k[1], o[1]>> \in Links
    BY <1>2, <2>1, LinkParts
  <2> QED
    BY <2>2
<1>7. X2OK
  BY DEF IInv, TypeOK, X2OK
<1>8. x2' = Sent(x2, k[1], o[1], m)
  BY <1>1, <1>4 DEF PrepFailed
<1>9. X2OK' /\ Moved(NoLink, s, m)
  BY <1>5, <1>6, <1>7, <1>8, SentMoves
<1>10. ~GoodRadio'
  BY DEF GoodRadio
<1>11. MessageOK(s, m)'
  <2>1. Known(o)'
    BY <1>2, <1>3, <1>5 DEF KnownStays
  <2>2. NobodyJoins(o)'
    BY <1>2, <1>3 DEF NobodyJoins, Joined, ChangesOnly
  <2>3. ueMap'[o].state \in Leftover
    BY <1>2, <1>3, <1>5 DEF ChangesOnly
  <2> QED
    BY <1>5, <1>6, <1>10, <2>1, <2>2, <2>3 DEF MessageOK, Leftover
<1>12. MessagesOK'
  BY <1>3, <1>7, <1>9, <1>11, MessagesFollow DEF IInv
<1>13. ASSUME NEW l \in Links, NEW i \in 1 .. Len(x2[l]),
              x2[l][i].kind \in Handshake, x2[l][i].old = o
       PROVE  l = s /\ x2[l][i].kind = "ack"
  <2>1. PICK n : n = x2[l][i]
    OBVIOUS
  <2>2. MessageOK(l, n) /\ n.kind \in Handshake /\ n.old = o
    BY <1>13, <2>1 DEF IInv, MessagesOK
  <2>3. n.kind = "ack"
    BY <1>2, <2>2 DEF MessageOK, NobodyJoins, Handshake
  <2>4. n.old[1] = l[2] /\ n.new[1] = l[1] /\ n.new = k
    BY <1>2, <2>2, <2>3 DEF MessageOK
  <2>5. l = <<k[1], o[1]>>
    BY <2>2, <2>4, LinkParts
  <2> QED
    BY <1>6, <2>1, <2>3, <2>5
<1>14. OneMessage'
  BY <1>5, <1>7, <1>9, <1>13, OneMessageFollows DEF IInv
<1> QED
  BY <1>5, <1>9, <1>12, <1>14

(* The UE does not come.                                                   *)
LEMMA JoiningTimeoutKeeps ==
  ASSUME IInv, NEW k \in Keys, HandoverJoiningTimeout(k)
  PROVE  IInv'
<1>1. /\ air = <<>> /\ RemoveUe(k) /\ x2' = PrepFailed(x2, k)
      /\ UNCHANGED <<faults, lastRnti, ue, peer, air, s1, packets, transmitted, aborted>>
  BY DEF HandoverJoiningTimeout, Quiet
<1>2. ueMap[k].state = "HANDOVER_JOINING" /\ ~GoodRadio
  BY DEF HandoverJoiningTimeout, IInv, TimerOfState, GoodRadio, Refusals
<1>3. /\ ueMap' \in [Keys -> Contexts] /\ ChangesOnly(k) /\ ueMap'[k].state = "ABSENT"
      /\ TimerOfState' /\ ContextsOK' /\ KnownStays
  BY <1>1, RemovalFollows
<1>4. X2OK' /\ MessagesOK' /\ OneMessage'
  BY <1>1, <1>2, FailureFollows
<1>5. PICK s, m : Moved(NoLink, s, m) /\ m.kind = "failure"
  BY <1>1, <1>2, FailureFollows
<1>6. TypeOK'
  BY <1>1, <1>3, <1>4 DEF IInv, TypeOK, X2OK
<1>7. RntisKnown'
  BY <1>1, <1>3, KnownFollowsNet
<1>8. UePlaced'
  <2>1. Serves(k)' <=> Serves(k)
    BY <1>2, <1>3 DEF Serves, Serving
  <2> QED
    BY <1>1, <1>2, <1>3, <1>5, <2>1, QuietFollows DEF IInv
<1>9. SourceWaits'
  BY <1>1, <1>2, <1>3, SourcesFollow DEF IInv
<1>10. PacketsAccountedFor'
  BY <1>1, <1>2 DEF PacketsAccountedFor, GoodRadio
<1> QED
  BY <1>3, <1>4, <1>6, <1>7, <1>8, <1>9, <1>10 DEF IInv

(* The UE gives up.                                                        *)
LEMMA RemoveRequestKeeps ==
  ASSUME IInv, RecvIdealUeContextRemoveRequest
  PROVE  IInv'
<1> DEFINE m == Head(air)
<1>1. air # <<>> /\ m.kind = "remove"
  BY DEF RecvIdealUeContextRemoveRequest, AirHead
<1>2. m \in AirMessages /\ air = <<m>> /\ Tail(air) = <<>> /\ WhenDue(m) /\ ~GoodRadio
  BY <1>1, DueMessage
<1>3. PICK k \in Keys : k = m.to /\ ue.state = "idle" /\ \A j \in Keys : Serves(j) => j = k
  BY <1>1, <1>2 DEF WhenDue, Known
<1>4. /\ air' = <<>> /\ RemoveUe(k)
      /\ x2' = IF ueMap[k].state = "HANDOVER_JOINING" THEN PrepFailed(x2, k) ELSE x2
      /\ UNCHANGED <<faults, lastRnti, ue, peer, s1, packets, transmitted, aborted>>
  BY <1>2, <1>3 DEF RecvIdealUeContextRemoveRequest
<1>5. /\ ueMap' \in [Keys -> Contexts] /\ ChangesOnly(k) /\ ueMap'[k].state = "ABSENT"
      /\ TimerOfState' /\ ContextsOK' /\ KnownStays
      /\ \A l \in Links : \A n \in X2Messages : MessageOK(l, n) => MessageOK(l, n)'
  BY <1>4, RemovalFollows
<1>6. X2OK' /\ MessagesOK' /\ OneMessage'
  <2>1. CASE ueMap[k].state = "HANDOVER_JOINING"
    BY <1>2, <1>4, <2>1, FailureFollows
  <2>2. CASE ueMap[k].state # "HANDOVER_JOINING"
    <3>1. X2OK /\ x2' = x2
      BY <1>4, <2>2 DEF IInv, TypeOK, X2OK
    <3>2. PICK n \in {"none"} : X2OK' /\ Moved(NoLink, NoLink, n)
      BY <3>1, StaysMoves
    <3>3. MessagesOK'
      BY <1>5, <3>1, <3>2, LinkParts, MessagesFollow DEF IInv
    <3>4. OneMessage'
      BY <1>4, <3>1 DEF IInv, OneMessage, Follows, GoodRadio
    <3> QED
      BY <3>2, <3>3, <3>4
  <2> QED
    BY <2>1, <2>2
<1>7. TypeOK'
  BY <1>4, <1>5, <1>6 DEF IInv, TypeOK, X2OK
<1>8. RntisKnown'
  BY <1>4, <1>5, KnownFollowsNet
<1>9. Nowhere'
  BY <1>3, <1>5 DEF Nowhere, Serves, Serving, ChangesOnly
<1>10. UePlaced'
  BY <1>3, <1>4, <1>9 DEF IInv, UePlaced, WhenQuiet
<1>11. SourceWaits'
  BY <1>9 DEF SourceWaits, Nowhere, Serves, Serving
<1>12. PacketsAccountedFor'
  BY <1>2, <1>4 DEF PacketsAccountedFor, GoodRadio
<1> QED
  BY <1>5, <1>6, <1>7, <1>8, <1>10, <1>11, <1>12 DEF IInv

(* A context that the UE has left, or is about to, is removed and the UE   *)
(* told to leave.                                                          *)
LEMMA ReleaseFollows ==
  ASSUME IInv, NEW k \in Keys, SendRrcConnectionRelease(k), air = <<>>, ~GoodRadio,
         ueMap[k].state = "HANDOVER_LEAVING", UNCHANGED <<faults, lastRnti, ue, peer>>
  PROVE  RntisKnown' /\ UePlaced' /\ SourceWaits' /\ air' \in Seq(AirMessages)
<1>1. PICK n \in AirMessages : n = ToUe("release", NoKey) /\ n.kind = "release"
  BY AirTyped DEF AirKinds
<1>2. air' = <<n>> /\ RemoveUe(k)
  BY <1>1, OneInAir DEF SendRrcConnectionRelease
<1>3. ChangesOnly(k) /\ ueMap'[k].state = "ABSENT" /\ KnownStays
  BY <1>2, RemovalFollows
<1>4. RntisKnown'
  BY <1>1, <1>2, <1>3, KnownFollowsNet
<1>5. \A j \in Keys : Serves(j)' <=> Serves(j)
  BY <1>3 DEF ChangesOnly, Serves, Serving
<1>6. WhenQuiet /\ (ue.leave <=> ue.state \in {"idle", "connecting"})
  BY OneInAir DEF IInv, UePlaced
<1>7. WhenDue(n)'
  <2>1. CASE ue.state = "normal"
    BY <1>1, <1>5, <1>6, <2>1 DEF WhenQuiet, WhenDue, OnlyAt, Attached
  <2>2. CASE ue.state = "handover"
    <3>1. Awaited(ue.key)' /\ Nowhere'
      BY <1>3, <1>5, <1>6, <2>2, UeParts DEF WhenQuiet, Moving, Awaited, Nowhere, ChangesOnly
    <3> QED
      BY <1>1, <2>2, <3>1 DEF WhenDue
  <2>3. CASE ue.state = "idle"
    BY <1>1, <1>5, <1>6, <2>3 DEF WhenQuiet, WhenDue, Nowhere
  <2> QED
    BY <1>6, <2>1, <2>2, <2>3, UeParts DEF WhenQuiet
<1>8. UePlaced'
  <2>1. (ue.leave <=> ue.state \in {"idle", "connecting"})'
    BY <1>6
  <2> QED
    BY <1>1, <1>2, <1>7, <2>1, DueFollows
<1>9. SourceWaits'
  BY <1>1, <1>2 DEF SourceWaits
<1> QED
  BY <1>2, <1>4, <1>8, <1>9, OneInAir

(* The target has not released the context in time.                        *)
LEMMA LeavingTimeoutKeeps ==
  ASSUME IInv, NEW k \in Keys, HandoverLeavingTimeout(k)
  PROVE  IInv'
<1>1. /\ air = <<>> /\ SendRrcConnectionRelease(k)
      /\ x2' = Sent(x2, k[1], ueMap[k].target, X2("cancel", k, NoKey))
      /\ UNCHANGED <<faults, lastRnti, ue, peer, s1, packets, transmitted, aborted>>
  BY DEF HandoverLeavingTimeout, Quiet
<1>2. ueMap[k].state = "HANDOVER_LEAVING" /\ ~GoodRadio
  BY DEF HandoverLeavingTimeout, IInv, TimerOfState, GoodRadio, Refusals
<1>3. RntisKnown' /\ UePlaced' /\ SourceWaits' /\ air' \in Seq(AirMessages)
  BY <1>1, <1>2, ReleaseFollows
<1>4. /\ ueMap' \in [Keys -> Contexts] /\ TimerOfState' /\ ContextsOK'
      /\ \A l \in Links : \A n \in X2Messages : MessageOK(l, n) => MessageOK(l, n)'
  BY <1>1, RemovalFollows DEF SendRrcConnectionRelease
<1>5. PICK m \in X2Messages : m = X2("cancel", k, NoKey) /\ m.kind = "cancel"
  BY X2Typed DEF X2Kinds
<1>6. X2OK
  BY DEF IInv, TypeOK, X2OK
<1>7. PICK s : X2OK' /\ Moved(NoLink, s, m)
  BY <1>1, <1>5, <1>6, SentMoves
<1>8. TypeOK'
  BY <1>1, <1>3, <1>4, <1>7 DEF IInv, TypeOK, X2OK
<1>9. MessagesOK'
  <2>1. MessageOK(s, m)'
    BY <1>5 DEF MessageOK, Handshake
  <2> QED
    BY <1>4, <1>6, <1>7, <2>1, MessagesFollow DEF IInv
<1>10. OneMessage'
  BY <1>1, <1>5, <1>6, <1>7, OneMessageFollows DEF IInv, Handshake
<1>11. PacketsAccountedFor'
  BY <1>1, <1>2 DEF PacketsAccountedFor, GoodRadio
<1> QED
  BY <1>3, <1>4, <1>8, <1>9, <1>10, <1>11 DEF IInv
----------------------------------------------------------------------------
(* The messages of a handover.                                             *)

(* What follows once the first message of link l is taken and a message    *)
(* for the same handover has been looked at.                               *)
LEMMA AloneOnLinks ==
  ASSUME IInv, NEW l \in Links, x2[l] # <<>>, NEW m, m = Head(x2[l]), m.kind \in Handshake,
         NEW h \in Links, NEW i \in 1 .. Len(x2[h]), ~(h = l /\ i = 1),
         x2[h][i].kind \in Handshake, x2[h][i].old = m.old
  PROVE  m.kind = "ack" /\ h = l /\ x2[h][i].kind = "failure" /\ ~GoodRadio
<1>1. x2[l][1] = m /\ 1 \in 1 .. Len(x2[l])
  BY FirstMessage
<1>2. \/ Follows(l, 1, h, i)
      \/ Follows(h, i, l, 1)
  BY <1>1 DEF IInv, OneMessage
<1> QED
  BY <1>1, <1>2 DEF Follows

(* A context that serves the UE between two events.                        *)
LEMMA ServingContext ==
  ASSUME IInv, air = <<>>, NEW k \in Keys, Serves(k)
  PROVE  Attached(k) /\ OnlyAt(k)
<1>1. WhenQuiet
  BY OneInAir DEF IInv, UePlaced
<1> QED
  BY <1>1, UeParts DEF WhenQuiet, OnlyAt, Nowhere, Moving, Attached

(* The target is done: the source removes its context.                     *)
LEMMA ContextReleaseKeeps ==
  ASSUME IInv, NEW l \in Links, RecvUeContextRelease(l)
  PROVE  IInv'
<1>1. PICK m : m = Head(x2[l])
  OBVIOUS
<1>2. /\ air = <<>> /\ x2[l] # <<>> /\ m.kind = "release" /\ X2Accepted(l, m)
      /\ RemoveUe(m.old) /\ x2' = Received(l)
      /\ UNCHANGED <<faults, lastRnti, ue, peer, air, s1, packets, transmitted, aborted>>
  BY <1>1 DEF RecvUeContextRelease, X2Head, Quiet
<1>3. PICK k \in Keys : k = m.old /\ ueMap[k].state = "HANDOVER_LEAVING"
  BY <1>2 DEF X2Accepted, InState, HasUeManager
<1>4. x2[l][1] = m /\ 1 \in 1 .. Len(x2[l]) /\ NobodyJoins(k)
  BY <1>1, <1>2, <1>3, FirstMessage DEF MessageOK
<1>5. /\ ueMap' \in [Keys -> Contexts] /\ ChangesOnly(k) /\ ueMap'[k].state = "ABSENT"
      /\ TimerOfState' /\ ContextsOK' /\ KnownStays
      /\ \A h \in Links : \A n \in X2Messages : MessageOK(h, n) => MessageOK(h, n)'
  BY <1>2, <1>3, RemovalFollows
<1>6. X2OK
  BY DEF IInv, TypeOK, X2OK
<1>7. X2OK' /\ Moved(l, NoLink, m) /\ Kept(l, NoLink, m)
  BY <1>2, <1>6, ReceivedMoves
<1>8. TypeOK'
  BY <1>2, <1>5, <1>7 DEF IInv, TypeOK, X2OK
<1>9. RntisKnown'
  BY <1>2, <1>5, KnownFollowsNet
<1>10. MessagesOK'
  BY <1>5, <1>6, <1>7, LinkParts, MessagesFollow DEF IInv
<1>11. OneMessage'
  BY <1>2, <1>6, <1>7, LinkParts, OneMessageFollows DEF IInv
<1>12. UePlaced'
  <2>1. (Serves(k)' <=> Serves(k)) /\ ~Awaited(k)
    BY <1>3, <1>5 DEF Serves, Serving, Awaited
  <2>2. ue.state = "handover" => k # peer
    <3>1. ue.state = "handover" => Moving(peer, ue.key)
      BY <1>2, OneInAir DEF IInv, UePlaced, WhenQuiet
    <3> QED
      BY <1>2, <1>3, <1>4, <3>1 DEF Moving
  <2> QED
    BY <1>2, <1>5, <1>7, <2>1, <2>2, LinkParts, QuietFollows DEF IInv
<1>13. SourceWaits'
  BY <1>2, <1>4, <1>5, SourcesFollow DEF IInv
<1>14. PacketsAccountedFor'
  <2>1. \A j \in Keys : ueMap[j].state = "HANDOVER_JOINING" =>
          ueMap'[j].state = "HANDOVER_JOINING" /\ ueMap'[j].buffer = ueMap[j].buffer
    BY <1>3, <1>5 DEF ChangesOnly
  <2>2. x2[l][1].kind # "data"
    BY <1>2, <1>4
  <2> QED
    BY <1>2, <1>6, <1>7, <2>1, <2>2, PacketsFollow DEF IInv
<1> QED
  BY <1>5, <1>8, <1>9, <1>10, <1>11, <1>12, <1>13, <1>14 DEF IInv

(* The core has switched the path: the target releases the source.         *)
LEMMA PathSwitchKeeps ==
  ASSUME IInv, NEW q \in s1, PathSwitchRequestAcknowledge(q)
  PROVE  IInv'
<1>1. /\ air = <<>> /\ S1Accepted(q) /\ q.kind = "pathSwitch" /\ s1' = s1 \ {q}
      /\ UNCHANGED <<faults, lastRnti, ue, peer, packets, transmitted, aborted>>
  BY DEF PathSwitchRequestAcknowledge, Quiet
<1>2. PICK k \in Keys : k = q.key /\ ueMap[k].state = "HANDOVER_PATH_SWITCH"
  BY <1>1 DEF S1Accepted, InState, HasUeManager
<1>3. PICK o : o = ueMap[k].source
  OBVIOUS
<1>4. /\ x2' = Sent(x2, k[1], o[1], X2("release", o, k))
      /\ ueMap' = [ueMap EXCEPT ![k] = ToNormally(@)]
      /\ air' = <<>> \o DueReconfiguration(ueMap[k])
  BY <1>1, <1>2, <1>3 DEF PathSwitchRequestAcknowledge
<1>5. /\ Joined(k, o) /\ Known(o) /\ o[1] # k[1]
      /\ \A j \in Keys : Joined(j, o) => j = k
  BY <1>2, <1>3 DEF IInv, ContextsOK, Joined
<1>6. ueMap[o].state = "HANDOVER_LEAVING" /\ o \in Keys /\ o # k
  BY <1>1, <1>2, <1>3, <1>5, OneInAir DEF IInv, SourceWaits, Known
<1>7. Attached(k) /\ OnlyAt(k)
  BY <1>1, <1>2, ServingContext DEF Serves, Serving
<1>8. ueMap[k] \in Contexts /\ ueMap[k].timer = "none"
  BY <1>2 DEF IInv, TypeOK, TimerOfState
<1>9. PICK x : x = ToNormally(ueMap[k])
  OBVIOUS
<1>10. /\ x \in Contexts /\ x.timer = "none" /\ x.x2u = ueMap[k].x2u
       /\ x.state \in {"CONNECTION_RECONFIGURATION", "CONNECTED_NORMALLY"}
  BY <1>8, <1>9, NormalContext
<1>11. ueMap' = [ueMap EXCEPT ![k] = x]
  BY <1>4, <1>9
<1>12. ueMap' \in [Keys -> Contexts] /\ ChangesOnly(k) /\ ueMap'[k] = x
  BY <1>10, <1>11, ContextChanges DEF IInv
<1>13. /\ UePlaced' /\ SourceWaits' /\ air' \in Seq(AirMessages)
       /\ \/ air' = <<>>
          \/ \E m \in AirMessages : air' = <<m>> /\ m.kind # "command"
  BY <1>1, <1>4, <1>7, <1>9, <1>12, NormalFollows
<1>14. PICK m : m = X2("release", o, k)
  OBVIOUS
<1>15. m \in X2Messages /\ m.kind = "release" /\ m.old = o
  BY <1>6, <1>14, X2Typed DEF X2Kinds
<1>16. PICK s : s = <<k[1], o[1]>> /\ s \in Links /\ s[2] = o[1]
  <2>1. k[1] \in Cells /\ o[1] \in Cells
    BY <1>6, KeyParts
  <2>2. <<k[1], o[1]>> \in Links
    BY <1>5, <2>1, LinkParts
  <2> QED
    BY <2>2
<1>17. X2OK
  BY DEF IInv, TypeOK, X2OK
<1>18. X2OK' /\ Moved(NoLink, s, m) /\ Kept(NoLink, s, m)
  BY <1>4, <1>14, <1>15, <1>16, <1>17, SentMoves
<1>19. KnownStays
  BY <1>1 DEF KnownStays, Known
<1>20. NobodyJoins(k)
  BY <1>2 DEF IInv, ContextsOK, NobodyJoins, Joined
<1>21. \A j : ~Joined(k, j)'
  BY <1>10, <1>12 DEF Joined
<1>22. TypeOK'
  BY <1>1, <1>12, <1>13, <1>18 DEF IInv, TypeOK, X2OK
<1>23. TimerOfState'
  BY <1>10, <1>12, TimersFollow DEF IInv
<1>24. RntisKnown'
  <2>1. Known(k)'
    BY <1>7, <1>19, UeParts DEF KnownStays, Attached
  <2> QED
    BY <1>1, <1>12, <1>13, <1>19, <2>1, KnownFollowsNet
<1>25. ContextsOK'
  BY <1>10, <1>12, <1>19, <1>20, <1>21, ContextsFollow DEF IInv, Serving
<1>26. MessagesOK'
  <2>1. MessageOK(s, m)'
    <3>1. NobodyJoins(o)'
      BY <1>5, <1>12, <1>21 DEF NobodyJoins, Joined, ChangesOnly
    <3>2. ueMap'[o].state = "HANDOVER_LEAVING" /\ Known(o)'
      BY <1>5, <1>6, <1>12, <1>19 DEF ChangesOnly, KnownStays
    <3> QED
      BY <1>15, <1>16, <3>1, <3>2 DEF MessageOK
  <2>2. ASSUME NEW h \in Links, NEW n \in X2Messages, MessageOK(h, n)
        PROVE  MessageOK(h, n)'
    <3>1. ~(n.kind \in Handshake /\ n.old = k) /\ ~(n.kind = "ack" /\ n.new = k)
      BY <1>2, <2>2 DEF MessageOK, Handshake, AskedFor
    <3> QED
      BY <1>1, <1>12, <1>19, <1>21, <2>2, <3>1, MessageKept
  <2> QED
    BY <1>17, <1>18, <2>1, <2>2, MessagesFollow DEF IInv
<1>27. OneMessage'
  <2>1. ASSUME NEW h \in Links, NEW i \in 1 .. Len(x2[h]),
               x2[h][i].kind \in Handshake, x2[h][i].old = o
        PROVE  FALSE
    <3>1. PICK n : n = x2[h][i]
      OBVIOUS
    <3>2. MessageOK(h, n) /\ n.kind \in Handshake /\ n.old = o
      BY <2>1, <3>1 DEF IInv, MessagesOK
    <3> QED
      BY <1>5, <1>6, <3>2 DEF MessageOK, NobodyJoins, Handshake, AskedFor
  <2> QED
    BY <1>1, <1>15, <1>17, <1>18, <2>1, OneMessageFollows DEF IInv
<1>28. PacketsAccountedFor'
  <2>1. \A j \in Keys : ueMap[j].state = "HANDOVER_JOINING" =>
          ueMap'[j].state = "HANDOVER_JOINING" /\ ueMap'[j].buffer = ueMap[j].buffer
    BY <1>2, <1>12 DEF ChangesOnly
  <2> QED
    BY <1>1, <1>17, <1>18, <2>1, LinkParts, PacketsFollow DEF IInv
<1> QED
  BY <1>13, <1>22, <1>23, <1>24, <1>25, <1>26, <1>27, <1>28 DEF IInv

(* The target has refused, or has given up: a context that still serves    *)
(* the UE goes back to normal, ...                                         *)
LEMMA RefusedKeeps ==
  ASSUME IInv, NEW l \in Links, air = <<>>, x2[l] # <<>>, NEW m, m = Head(x2[l]),
         m.kind = "failure", NEW k \in Keys, k = m.old, AbortPreparation(k), x2' = Received(l),
         UNCHANGED <<faults, lastRnti, ue, peer, s1, packets, transmitted, aborted>>
  PROVE  IInv'
<1>1. /\ ueMap[k].state = "HANDOVER_PREPARATION"
      /\ ueMap' = [ueMap EXCEPT ![k] = ToNormally(@)]
      /\ air' = <<>> \o DueReconfiguration(ueMap[k])
  BY DEF AbortPreparation
<1>2. x2[l][1] = m /\ NobodyJoins(k)
  BY FirstMessage DEF MessageOK
<1>3. Attached(k) /\ OnlyAt(k)
  BY <1>1, ServingContext DEF Serves, Serving
<1>4. ueMap[k] \in Contexts /\ ueMap[k].timer = "none"
  BY <1>1 DEF IInv, TypeOK, TimerOfState
<1>5. PICK x : x = ToNormally(ueMap[k])
  OBVIOUS
<1>6. /\ x \in Contexts /\ x.timer = "none" /\ x.x2u = ueMap[k].x2u
      /\ x.state \in {"CONNECTION_RECONFIGURATION", "CONNECTED_NORMALLY"}
  BY <1>4, <1>5, NormalContext
<1>7. ueMap' = [ueMap EXCEPT ![k] = x]
  BY <1>1, <1>5
<1>8. ueMap' \in [Keys -> Contexts] /\ ChangesOnly(k) /\ ueMap'[k] = x
  BY <1>6, <1>7, ContextChanges DEF IInv
<1>9. /\ UePlaced' /\ SourceWaits' /\ air' \in Seq(AirMessages)
      /\ \/ air' = <<>>
         \/ \E n \in AirMessages : air' = <<n>> /\ n.kind # "command"
  BY <1>1, <1>3, <1>5, <1>8, NormalFollows
<1>10. X2OK
  BY DEF IInv, TypeOK, X2OK
<1>11. X2OK' /\ Moved(l, NoLink, m) /\ Kept(l, NoLink, m)
  BY <1>10, ReceivedMoves
<1>12. KnownStays
  BY DEF KnownStays, Known
<1>13. \A j : ~Joined(k, j)'
  BY <1>6, <1>8 DEF Joined
<1>14. TypeOK'
  BY <1>8, <1>9, <1>11 DEF IInv, TypeOK, X2OK
<1>15. TimerOfState'
  BY <1>6, <1>8, TimersFollow DEF IInv
<1>16. RntisKnown'
  <2>1. Known(k)'
    BY <1>3, <1>12, UeParts DEF KnownStays, Attached
  <2> QED
    BY <1>8, <1>9, <1>12, <2>1, KnownFollowsNet
<1>17. ContextsOK'
  BY <1>2, <1>6, <1>8, <1>12, <1>13, ContextsFollow DEF IInv, Serving
<1>18. MessagesOK'
  <2>1. ASSUME NEW h \in Links, NEW i \in 1 .. Len(x2[h]), NEW n \in X2Messages,
               ~(h = l /\ i = 1), n = x2[h][i], MessageOK(h, n)
        PROVE  MessageOK(h, n)'
    <3>1. ~(n.kind \in Handshake /\ n.old = k)
      <4>1. m.kind \in Handshake /\ m.kind # "ack"
        BY DEF Handshake
      <4> QED
        BY <2>1, <4>1, AloneOnLinks
    <3>2. ~(n.kind = "ack" /\ n.new = k)
      BY <1>1, <2>1 DEF MessageOK
    <3> QED
      BY <1>8, <1>12, <1>13, <2>1, <3>1, <3>2, MessageKept
  <2> QED
    BY <1>10, <1>11, <2>1, LinkParts, MessagesFollow DEF IInv
<1>19. OneMessage'
  BY <1>10, <1>11, LinkParts, OneMessageFollows DEF IInv
<1>20. PacketsAccountedFor'
  <2>1. \A j \in Keys : ueMap[j].state = "HANDOVER_JOINING" =>
          ueMap'[j].state = "HANDOVER_JOINING" /\ ueMap'[j].buffer = ueMap[j].buffer
    BY <1>1, <1>8 DEF ChangesOnly
  <2>2. x2[l][1].kind # "data"
    BY <1>2
  <2> QED
    BY <1>10, <1>11, <2>1, <2>2, PacketsFollow DEF IInv
<1> QED
  BY <1>9, <1>14, <1>15, <1>16, <1>17, <1>18, <1>19, <1>20 DEF IInv

(* ... and one that the UE has left is removed.                            *)
LEMMA GivenUpKeeps ==
  ASSUME IInv, NEW l \in Links, air = <<>>, x2[l] # <<>>, NEW m, m = Head(x2[l]),
         m.kind = "failure", NEW k \in Keys, k = m.old, SendRrcConnectionRelease(k),
         ueMap[k].state = "HANDOVER_LEAVING", x2' = Received(l),
         UNCHANGED <<faults, lastRnti, ue, peer, s1, packets, transmitted, aborted>>
  PROVE  IInv'
<1>1. ~GoodRadio
  BY FirstMessage DEF MessageOK, AskedFor
<1>2. RntisKnown' /\ UePlaced' /\ SourceWaits' /\ air' \in Seq(AirMessages)
  BY <1>1, ReleaseFollows
<1>3. /\ ueMap' \in [Keys -> Contexts] /\ TimerOfState' /\ ContextsOK'
      /\ \A h \in Links : \A n \in X2Messages : MessageOK(h, n) => MessageOK(h, n)'
  BY RemovalFollows DEF SendRrcConnectionRelease
<1>4. X2OK
  BY DEF IInv, TypeOK, X2OK
<1>5. X2OK' /\ Moved(l, NoLink, m)
  BY <1>4, ReceivedMoves
<1>6. TypeOK'
  BY <1>2, <1>3, <1>5 DEF IInv, TypeOK, X2OK
<1>7. MessagesOK'
  BY <1>3, <1>4, <1>5, LinkParts, MessagesFollow DEF IInv
<1>8. OneMessage'
  BY <1>4, <1>5, LinkParts, OneMessageFollows DEF IInv
<1>9. PacketsAccountedFor'
  BY <1>1 DEF PacketsAccountedFor, GoodRadio
<1> QED
  BY <1>2, <1>3, <1>6, <1>7, <1>8, <1>9 DEF IInv

(* RecvHandoverPreparationFailure has these two cases.                     *)
LEMMA PreparationFailureKeeps ==
  ASSUME IInv, NEW l \in Links, RecvHandoverPreparationFailure(l)
  PROVE  IInv'
<1>1. PICK m : m = Head(x2[l])
  OBVIOUS
<1>2. /\ air = <<>> /\ x2[l] # <<>> /\ m.kind = "failure" /\ X2Accepted(l, m) /\ x2' = Received(l)
      /\ UNCHANGED <<faults, lastRnti, ue, peer, s1, packets, transmitted, aborted>>
  BY <1>1 DEF RecvHandoverPreparationFailure, X2Head, Quiet
<1>3. PICK k \in Keys : k = m.old
  BY <1>2 DEF X2Accepted, InState, HasUeManager
<1>4. \/ AbortPreparation(k)
      \/ ueMap[k].state = "HANDOVER_LEAVING" /\ SendRrcConnectionRelease(k)
  BY <1>1, <1>3 DEF RecvHandoverPreparationFailure
<1> QED
  BY <1>1, <1>2, <1>3, <1>4, RefusedKeeps, GivenUpKeeps

(* The target has accepted: the UE is told to move.                        *)
LEMMA RequestAckKeeps ==
  ASSUME IInv, NEW l \in Links, RecvHandoverRequestAck(l)
  PROVE  IInv'
<1>1. PICK m : m = Head(x2[l])
  OBVIOUS
<1>2. /\ air = <<>> /\ x2[l] # <<>> /\ m.kind = "ack" /\ X2Accepted(l, m)
      /\ UNCHANGED <<faults, lastRnti, ue, peer, s1, packets, transmitted, aborted>>
  BY <1>1 DEF RecvHandoverRequestAck, X2Head, Quiet
<1>3. PICK k \in Keys : k = m.old /\ ueMap[k].state # "ABSENT"
  BY <1>2 DEF X2Accepted, HasUeManager
<1>4. x2[l][1] = m /\ 1 \in 1 .. Len(x2[l]) /\ MessageOK(l, m)
  BY <1>1, <1>2, FirstMessage
<1>5. ueMap[k].state = "HANDOVER_PREPARATION" /\ k[1] = l[2]
  BY <1>2, <1>3, <1>4 DEF MessageOK, AskedFor
<1>6. PICK j \in Keys :
        /\ j = m.new /\ Known(j) /\ j[1] = l[1] /\ Awaited(j)
        /\ ueMap[j].state = "HANDOVER_JOINING" => ueMap[j].source = k
  BY <1>2, <1>3, <1>4 DEF MessageOK, Known, Awaited
<1>7. l[1] \in Cells /\ l[1] # l[2] /\ <<l[2], l[1]>> # l
  BY LinkParts
<1>8. j # k
  BY <1>5, <1>6, <1>7
<1>9. PICK c \in AirMessages : c = ToUe("command", j) /\ c.kind = "command" /\ c.new = j
  BY AirTyped DEF AirKinds
<1>10. PICK n \in X2Messages : n = X2("snStatus", k, j) /\ n.kind = "snStatus"
  BY X2Typed DEF X2Kinds
<1>11. /\ ueMap' = [ueMap EXCEPT ![k].state = "HANDOVER_LEAVING", ![k].timer = "leaving",
                                 ![k].target = l[1]]
       /\ air' = <<c>> /\ x2' = Sent(Received(l), l[2], l[1], n)
  BY <1>1, <1>2, <1>3, <1>6, <1>9, <1>10, OneInAir DEF RecvHandoverRequestAck
<1>12. Attached(k) /\ OnlyAt(k)
  BY <1>2, <1>5, ServingContext DEF Serves, Serving
<1>13. /\ ueMap' \in [Keys -> Contexts] /\ ChangesOnly(k)
       /\ ueMap'[k].state = "HANDOVER_LEAVING" /\ ueMap'[k].timer = "leaving"
       /\ ueMap'[k].target = l[1]
  <2>1. ueMap[k] \in Contexts
    BY DEF IInv, TypeOK
  <2>2. PICK x : x = [ueMap[k] EXCEPT !.state = "HANDOVER_LEAVING", !.timer = "leaving",
                                      !.target = l[1]]
    OBVIOUS
  <2>3. /\ x \in Contexts /\ x.state = "HANDOVER_LEAVING" /\ x.timer = "leaving"
        /\ x.target = l[1]
    BY <1>7, <2>1, <2>2, ContextParts, StateNames DEF Contexts
  <2>4. ueMap' = [ueMap EXCEPT ![k] = x]
    BY <1>11, <2>2 DEF IInv, TypeOK
  <2> QED
    BY <2>3, <2>4, ContextChanges DEF IInv
<1>14. X2OK
  BY DEF IInv, TypeOK, X2OK
<1>15. PICK s : X2OK' /\ Moved(l, s, n) /\ Kept(l, s, n)
  BY <1>2, <1>7, <1>11, <1>14, AnsweredMoves
<1>16. KnownStays
  BY <1>2 DEF KnownStays, Known
<1>17. \A i : ~Joined(k, i)'
  BY <1>13 DEF Joined
<1>18. TypeOK'
  BY <1>2, <1>11, <1>13, <1>15, OneInAir DEF IInv, TypeOK, X2OK
<1>19. TimerOfState'
  BY <1>13, TimersFollow DEF IInv
<1>20. RntisKnown'
  <2>1. Known(k)'
    BY <1>12, <1>16, UeParts DEF KnownStays, Attached
  <2> QED
    BY <1>2, <1>6, <1>9, <1>11, <1>13, <1>16, <2>1, KnownFollowsNet
<1>21. ContextsOK'
  BY <1>5, <1>7, <1>13, <1>16, <1>17, ContextsFollow DEF IInv, Leftover
<1>22. MessagesOK'
  <2>1. MessageOK(s, n)'
    BY <1>10 DEF MessageOK, Handshake
  <2>2. ASSUME NEW h \in Links, NEW i \in 1 .. Len(x2[h]), NEW y \in X2Messages,
               ~(h = l /\ i = 1), y = x2[h][i], MessageOK(h, y)
        PROVE  MessageOK(h, y)'
    <3>1. y.kind \in Handshake /\ y.old = k => y.kind = "failure" /\ ~GoodRadio
      <4>1. m.kind \in Handshake
        BY <1>2 DEF Handshake
      <4> QED
        BY <1>1, <1>2, <1>3, <2>2, <4>1, AloneOnLinks
    <3>2. ~(y.kind = "ack" /\ y.new = k)
      BY <1>5, <2>2 DEF MessageOK
    <3> QED
      BY <1>2, <1>13, <1>16, <1>17, <2>2, <3>1, <3>2, MessageKept
  <2> QED
    BY <1>14, <1>15, <2>1, <2>2, MessagesFollow DEF IInv
<1>23. OneMessage'
  BY <1>2, <1>10, <1>14, <1>15, OneMessageFollows DEF IInv, Handshake
<1>24. Nowhere'
  BY <1>12, <1>13 DEF OnlyAt, Nowhere, Serves, Serving, ChangesOnly
<1>25. UePlaced'
  <2>1. /\ Awaited(j)'
        /\ ueMap'[j].state = "HANDOVER_JOINING" => ueMap'[j].source = k
    BY <1>6, <1>8, <1>13 DEF Awaited, ChangesOnly
  <2>2. ASSUME NEW h \in Links, NEW i \in 1 .. Len(x2[h])
        PROVE  ~(x2[h][i].kind = "release" /\ x2[h][i].old = k)
    <3>1. PICK y : y = x2[h][i]
      OBVIOUS
    <3>2. MessageOK(h, y)
      BY <3>1 DEF IInv, MessagesOK
    <3> QED
      BY <1>5, <3>1, <3>2 DEF MessageOK
  <2>3. ASSUME NEW h \in Links, NEW i \in 1 .. Len(x2'[h])
        PROVE  ~(x2'[h][i].kind = "release" /\ x2'[h][i].old = k)
    BY <1>10, <1>15, <2>2 DEF Moved
  <2>4. Moving(k, j)'
    BY <1>13, <1>24, <2>1, <2>3 DEF Moving
  <2>5. WhenDue(c)'
    BY <1>2, <1>9, <1>12, <2>4 DEF WhenDue, Attached
  <2>6. (ue.leave <=> ue.state \in {"idle", "connecting"})'
    BY <1>2 DEF IInv, UePlaced
  <2> QED
    BY <1>2, <1>9, <1>11, <2>5, <2>6, DueFollows
<1>26. SourceWaits'
  BY <1>24 DEF SourceWaits, Nowhere, Serves, Serving
<1>27. PacketsAccountedFor'
  <2>1. \A i \in Keys : ueMap[i].state = "HANDOVER_JOINING" =>
          ueMap'[i].state = "HANDOVER_JOINING" /\ ueMap'[i].buffer = ueMap[i].buffer
    BY <1>5, <1>13 DEF ChangesOnly
  <2>2. x2[l][1].kind # "data"
    BY <1>2, <1>4
  <2> QED
    BY <1>2, <1>14, <1>15, <2>1, <2>2, PacketsFollow DEF IInv
<1> QED
  BY <1>18, <1>19, <1>20, <1>21, <1>22, <1>23, <1>25, <1>26, <1>27 DEF IInv

(* A handover request: what the target can rely on.                        *)
LEMMA RequestParts ==
  ASSUME IInv, NEW l \in Links, air = <<>>, x2[l] # <<>>, NEW m, m = Head(x2[l]),
         m.kind = "request"
  PROVE  /\ x2[l][1] = m /\ m.old \in Keys /\ Known(m.old) /\ m.old[1] = l[1]
         /\ AskedFor(m.old) /\ NobodyJoins(m.old) /\ m.teid \in Keys \cup {NoKey}
         /\ \A h \in Links : \A i \in 1 .. Len(x2[h]) :
              ~(h = l /\ i = 1) => ~(x2[h][i].kind \in Handshake /\ x2[h][i].old = m.old)
<1>1. x2[l][1] = m /\ MessageOK(l, m) /\ m.teid \in Keys \cup {NoKey}
  BY FirstMessage
<1>2. m.kind \in Handshake
  BY DEF Handshake
<1>3. /\ m.old \in Keys /\ Known(m.old) /\ m.old[1] = l[1]
      /\ AskedFor(m.old) /\ NobodyJoins(m.old)
  BY <1>1, <1>2 DEF MessageOK, Known
<1> QED
  BY <1>1, <1>2, <1>3, AloneOnLinks

(* It is refused, ...                                                      *)
LEMMA RefusalKeeps ==
  ASSUME IInv, NEW l \in Links, air = <<>>, x2[l] # <<>>, NEW m, m = Head(x2[l]),
         m.kind = "request", ueMap' = ueMap, KnownStays,
         lastRnti' \in [Cells -> 0 .. MaxRnti],
         x2' = Sent(Received(l), l[2], l[1], X2("failure", m.old, NoKey)),
         UNCHANGED <<faults, ue, peer, air, s1, packets, transmitted, aborted>>
  PROVE  IInv'
<1>1. PICK o \in Keys : /\ o = m.old /\ Known(o) /\ o[1] = l[1] /\ AskedFor(o) /\ NobodyJoins(o)
                        /\ x2[l][1] = m
                        /\ \A h \in Links : \A i \in 1 .. Len(x2[h]) : ~(h = l /\ i = 1) =>
                             ~(x2[h][i].kind \in Handshake /\ x2[h][i].old = o)
  BY RequestParts
<1>2. PICK n : n = X2("failure", o, NoKey)
  OBVIOUS
<1>3. n \in X2Messages /\ n.kind = "failure" /\ n.old = o
  BY <1>2, X2Typed DEF X2Kinds
<1>4. PICK s : s = <<l[2], l[1]>> /\ s \in Links /\ s[2] = l[1] /\ s # l
  BY LinkParts
<1>5. X2OK /\ ueMap \in [Keys -> Contexts] /\ ChangesOnly(o)
  BY DEF IInv, TypeOK, X2OK, ChangesOnly
<1>6. X2OK' /\ Moved(l, s, n) /\ Kept(l, s, n)
  BY <1>1, <1>2, <1>3, <1>4, <1>5, AnsweredMoves
<1>7. \A j, k : Joined(j, k)' <=> Joined(j, k)
  BY DEF Joined
<1>8. TypeOK'
  BY <1>6 DEF IInv, TypeOK, X2OK
<1>9. TimerOfState'
  BY DEF IInv, TimerOfState
<1>10. RntisKnown'
  <2>1. Known(o)'
    BY <1>1 DEF KnownStays
  <2> QED
    BY <1>5, <2>1, KnownFollowsNet
<1>11. ContextsOK'
  <2>1. /\ ueMap[o].x2u =>
             ueMap[o].state \in Serving \cup {"HANDOVER_LEAVING", "HANDOVER_JOINING"}
        /\ ueMap[o].state \in {"HANDOVER_PREPARATION", "HANDOVER_LEAVING"} =>
             ueMap[o].target \in Cells \ {o[1]}
    BY DEF IInv, ContextsOK
  <2> QED
    BY <1>1, <1>5, <1>7, <2>1, ContextsFollow DEF IInv
<1>12. MessagesOK'
  <2>1. MessageOK(s, n)'
    <3>1. Known(o)' /\ NobodyJoins(o)' /\ AskedFor(o)'
      BY <1>1, <1>7 DEF KnownStays, NobodyJoins, AskedFor
    <3> QED
      BY <1>1, <1>3, <1>4, <3>1 DEF MessageOK, AskedFor
  <2>2. ASSUME NEW h \in Links, NEW y \in X2Messages, MessageOK(h, y)
        PROVE  MessageOK(h, y)'
    BY <1>5, <1>7, <2>2, MessageKept
  <2> QED
    BY <1>5, <1>6, <2>1, <2>2, MessagesFollow DEF IInv
<1>13. OneMessage'
  BY <1>1, <1>3, <1>5, <1>6, OneMessageFollows DEF IInv
<1>14. UePlaced'
  <2>1. Serves(o)' <=> Serves(o)
    BY DEF Serves
  <2> QED
    BY <1>3, <1>5, <1>6, <2>1, QuietFollows DEF IInv
<1>15. SourceWaits'
  BY <1>5, SourcesFollow DEF IInv
<1>16. PacketsAccountedFor'
  <2>1. x2[l][1].kind # "data"
    BY <1>1
  <2> QED
    BY <1>5, <1>6, <2>1, PacketsFollow DEF IInv
<1> QED
  BY <1>8, <1>9, <1>10, <1>11, <1>12, <1>13, <1>14, <1>15, <1>16 DEF IInv

(* ... or accepted, with a context under a new RNTI.                       *)
LEMMA AcceptanceKeeps ==
  ASSUME IInv, NEW l \in Links, air = <<>>, x2[l] # <<>>, NEW m, m = Head(x2[l]),
         m.kind = "request", AddUe(l[2], Joining(m)),
         x2' = Sent(Received(l), l[2], l[1], X2("ack", m.old, NewKey(l[2]))),
         UNCHANGED <<faults, ue, peer, air, s1, packets, transmitted, aborted>>
  PROVE  IInv'
<1>1. PICK o \in Keys : /\ o = m.old /\ Known(o) /\ o[1] = l[1] /\ AskedFor(o) /\ NobodyJoins(o)
                        /\ x2[l][1] = m /\ m.teid \in Keys \cup {NoKey}
                        /\ \A h \in Links : \A i \in 1 .. Len(x2[h]) : ~(h = l /\ i = 1) =>
                             ~(x2[h][i].kind \in Handshake /\ x2[h][i].old = o)
  BY RequestParts
<1>2. PICK k : k = NewKey(l[2])
  OBVIOUS
<1>3. /\ k \in Keys /\ k[1] = l[2] /\ ~Known(k) /\ Known(k)' /\ KnownStays
      /\ lastRnti' \in [Cells -> 0 .. MaxRnti]
  BY <1>2, LinkParts, NewKeys DEF IInv, AddUe
<1>4. /\ ueMap[k].state = "ABSENT" /\ NobodyJoins(k)
      /\ \A h \in Links : \A n \in X2Messages : MessageOK(h, n) =>
           ~(n.kind \in Handshake /\ n.old = k) /\ ~(n.kind = "ack" /\ n.new = k)
  BY <1>3, FreshKey
<1>5. l[1] # l[2] /\ o # k
  BY <1>1, <1>3, LinkParts
<1>6. /\ ueMap' \in [Keys -> Contexts] /\ ChangesOnly(k)
      /\ ueMap'[k].state = "HANDOVER_JOINING" /\ ueMap'[k].timer = "joining"
      /\ ueMap'[k].source = o
  <2>1. PICK x : x = Joining(m)
    OBVIOUS
  <2>2. x = [state |-> "HANDOVER_JOINING", timer |-> "joining", target |-> 0, source |-> o,
             pending |-> TRUE, teid |-> m.teid, x2u |-> TRUE, buffer |-> {}]
    BY <1>1, <2>1 DEF Joining, Absent
  <2>3. /\ x \in Contexts /\ x.state = "HANDOVER_JOINING" /\ x.timer = "joining"
        /\ x.source = o
    BY <1>1, <2>2, StateNames DEF Contexts
  <2>4. ueMap' = [ueMap EXCEPT ![k] = x]
    BY <1>2, <2>1 DEF AddUe
  <2> QED
    BY <1>3, <2>3, <2>4, ContextChanges DEF IInv
<1>7. PICK n : n = X2("ack", o, k)
  OBVIOUS
<1>8. n \in X2Messages /\ n.kind = "ack" /\ n.old = o /\ n.new = k
  BY <1>3, <1>7, X2Typed DEF X2Kinds
<1>9. PICK s : s = <<l[2], l[1]>> /\ s \in Links /\ s[1] = l[2] /\ s[2] = l[1] /\ s # l
  BY LinkParts
<1>10. X2OK
  BY DEF IInv, TypeOK, X2OK
<1>11. X2OK' /\ Moved(l, s, n) /\ Kept(l, s, n)
  BY <1>1, <1>2, <1>7, <1>8, <1>9, <1>10, AnsweredMoves
<1>12. \A j : Joined(k, j)' => j = o
  BY <1>6 DEF Joined
<1>13. TypeOK'
  BY <1>3, <1>6, <1>11 DEF IInv, TypeOK, X2OK
<1>14. TimerOfState'
  BY <1>3, <1>6, TimersFollow DEF IInv
<1>15. RntisKnown'
  BY <1>3, <1>6, KnownFollowsNet
<1>16. ContextsOK'
  <2>1. ueMap[o].state \in Leftover
    BY <1>1 DEF AskedFor, Leftover
  <2> QED
    BY <1>1, <1>3, <1>4, <1>5, <1>6, <1>12, <2>1, ContextsFollow DEF IInv
<1>17. MessagesOK'
  <2>1. MessageOK(s, n)'
    <3>1. Known(o)' /\ AskedFor(o)'
      BY <1>1, <1>3, <1>5, <1>6 DEF KnownStays, AskedFor, ChangesOnly
    <3>2. \A j \in Keys : Joined(j, o)' => j = k
      BY <1>1, <1>6 DEF NobodyJoins, Joined, ChangesOnly
    <3> QED
      BY <1>1, <1>3, <1>6, <1>8, <1>9, <3>1, <3>2 DEF MessageOK
  <2>2. ASSUME NEW h \in Links, NEW i \in 1 .. Len(x2[h]), NEW y \in X2Messages,
               ~(h = l /\ i = 1), y = x2[h][i], MessageOK(h, y)
        PROVE  MessageOK(h, y)'
    <3>1. ~(y.kind \in Handshake /\ Joined(k, y.old)')
      BY <1>1, <1>12, <2>2
    <3> QED
      BY <1>3, <1>4, <1>6, <2>2, <3>1, MessageKept
  <2> QED
    BY <1>10, <1>11, <2>1, <2>2, MessagesFollow DEF IInv
<1>18. OneMessage'
  BY <1>1, <1>8, <1>10, <1>11, OneMessageFollows DEF IInv
<1>19. UePlaced'
  <2>1. Serves(k)' <=> Serves(k)
    BY <1>4, <1>6 DEF Serves, Serving
  <2> QED
    BY <1>3, <1>4, <1>6, <1>8, <1>11, <2>1, QuietFollows DEF IInv
<1>20. SourceWaits'
  BY <1>3, <1>4, <1>6, SourcesFollow DEF IInv
<1>21. PacketsAccountedFor'
  <2>1. \A j \in Keys : ueMap[j].state = "HANDOVER_JOINING" =>
          ueMap'[j].state = "HANDOVER_JOINING" /\ ueMap'[j].buffer = ueMap[j].buffer
    BY <1>4, <1>6 DEF ChangesOnly
  <2>2. x2[l][1].kind # "data"
    BY <1>1
  <2> QED
    BY <1>10, <1>11, <2>1, <2>2, PacketsFollow DEF IInv
<1> QED
  BY <1>13, <1>14, <1>15, <1>16, <1>17, <1>18, <1>19, <1>20, <1>21 DEF IInv

(* RecvHandoverRequest has these two cases.                                *)
LEMMA HandoverRequestKeeps ==
  ASSUME IInv, NEW l \in Links, RecvHandoverRequest(l)
  PROVE  IInv'
<1>1. PICK m : m = Head(x2[l])
  OBVIOUS
<1>2. /\ air = <<>> /\ x2[l] # <<>> /\ m.kind = "request"
      /\ UNCHANGED <<faults, ue, peer, air, s1, packets, transmitted, aborted>>
  BY <1>1 DEF RecvHandoverRequest, X2Head, Quiet
<1>3. CASE /\ AddUe(l[2], Joining(m))
           /\ x2' = Sent(Received(l), l[2], l[1], X2("ack", m.old, NewKey(l[2])))
  BY <1>1, <1>2, <1>3, AcceptanceKeeps
<1>4. CASE /\ NotAdmitted \/ NoPreamble(l[2])
           /\ x2' = Sent(Received(l), l[2], l[1], X2("failure", m.old, NoKey))
  <2>1. ueMap' = ueMap
    BY <1>4 DEF NotAdmitted, NoPreamble
  <2>2. KnownStays /\ lastRnti' \in [Cells -> 0 .. MaxRnti]
    <3>1. CASE NotAdmitted
      BY <3>1 DEF NotAdmitted, KnownStays, Known, IInv, TypeOK
    <3>2. CASE NoPreamble(l[2])
      <4>1. PICK k : k = NewKey(l[2])
        OBVIOUS
      <4> QED
        BY <3>2, <4>1, LinkParts, NewKeys DEF NoPreamble, IInv
    <3> QED
      BY <1>4, <3>1, <3>2
  <2> QED
    BY <1>1, <1>2, <1>4, <2>1, <2>2, RefusalKeeps
<1> QED
  BY <1>1, <1>3, <1>4 DEF RecvHandoverRequest
----------------------------------------------------------------------------
(* The invariant.                                                          *)

(* A step that changes nothing but what says whether an assertion failed.  *)
LEMMA NothingChanges ==
  ASSUME IInv, UNCHANGED Network, UNCHANGED <<ue, peer, air, s1>>, aborted' \in BOOLEAN
  PROVE  IInv'
<1>1. TimerOfState' /\ ContextsOK' /\ MessagesOK' /\ OneMessage' /\ PacketsAccountedFor'
  BY NetworkStays
<1>2. TypeOK'
  BY DEF IInv, TypeOK, Network
<1>3. RntisKnown'
  BY DEF IInv, RntisKnown, Known, Network
<1>4. SourceWaits'
  BY DEF IInv, SourceWaits, Network
<1>5. UePlaced'
  <2>1. \A k \in Keys : (Serves(k)' <=> Serves(k)) /\ (Known(k)' <=> Known(k))
    BY DEF Serves, Known, Network
  <2>2. WhenQuiet => WhenQuiet'
    BY DEF WhenQuiet, Attached, OnlyAt, Moving, Nowhere, Awaited, Serves, Network
  <2>3. ASSUME NEW m \in AirMessages, WhenDue(m) PROVE WhenDue(m)'
    BY <2>3 DEF WhenDue, Attached, OnlyAt, Moving, Nowhere, Awaited, Serves, Known, Network
  <2>4. GoodRadio' = GoodRadio
    BY DEF GoodRadio, Network
  <2> QED
    BY <2>2, <2>3, <2>4 DEF IInv, UePlaced
<1> QED
  BY <1>1, <1>2, <1>3, <1>4, <1>5 DEF IInv

(* An assertion that fails changes nothing else.                           *)
LEMMA AbortKeeps ==
  ASSUME IInv, Abort
  PROVE  IInv'
BY NothingChanges DEF Abort, Network

(* Nothing changes at all.                                                 *)
LEMMA StutterIInv ==
  ASSUME IInv, UNCHANGED vars
  PROVE  IInv'
<1>1. aborted' \in BOOLEAN
  BY DEF IInv, TypeOK, vars
<1> QED
  BY <1>1, NothingChanges DEF vars, Network

(* The first cell is a cell.                                               *)
LEMMA FirstCell == Min(Cells) \in Cells
<1>1. PICK R : R = OpToRel(<, Nat)
  OBVIOUS
<1>2. IsWellFoundedOn(R, Nat)
  BY <1>1, NatLessThanWellFounded
<1>3. Cells \subseteq Nat /\ Cells # {}
  BY X2Constants
<1>4. PICK c \in Cells : \A d \in Cells : ~(<<d, c>> \in R)
  BY <1>2, <1>3, WFMin
<1>5. \A d \in Cells : ~(d < c)
  BY <1>1, <1>3, <1>4 DEF OpToRel
<1>6. \A d \in Cells : c <= d
  BY <1>3, <1>5
<1> QED
  BY <1>6 DEF Min

(* The UE is connected to the first cell and nothing is in flight.         *)
LEMMA InitIInv ==
  ASSUME Init
  PROVE  IInv
<1>1. Home \in Keys /\ Home[1] \in Cells /\ Home[2] = 1 /\ Home[1] = Min(Cells)
  <2>1. 1 \in 1 .. MaxRnti
    BY X2Constants
  <2>2. Home[1] = Min(Cells) /\ Home[2] = 1
    BY DEF Home
  <2> QED
    BY <2>1, <2>2, FirstCell, KeyParts DEF Home
<1>2. PICK h \in Keys : h = Home /\ h[1] \in Cells /\ h[2] = 1
  BY <1>1
<1>3. PICK x : x = [Absent EXCEPT !.state = "CONNECTED_NORMALLY", !.teid = Home]
  OBVIOUS
<1>4. /\ x \in Contexts /\ x.state = "CONNECTED_NORMALLY" /\ x.timer = "none" /\ ~x.x2u
  BY <1>1, <1>3, StateNames DEF Contexts, Absent
<1>5. /\ ueMap = [k \in Keys |-> IF k = h THEN x ELSE Absent]
      /\ lastRnti = [c \in Cells |-> IF c = h[1] THEN 1 ELSE 0]
      /\ ue = [state |-> "normal", key |-> h, leave |-> FALSE]
      /\ peer = h /\ air = <<>> /\ x2 = [l \in Links |-> <<>>]
      /\ packets = 0 /\ faults \in FaultSets /\ s1 = {} /\ transmitted = {} /\ aborted = FALSE
  BY <1>2, <1>3 DEF Init
<1>6. /\ \A k \in Keys : ueMap[k] = IF k = h THEN x ELSE Absent
      /\ ueMap \in [Keys -> Contexts]
  BY <1>4, <1>5, AbsentContext
<1>7. \A k \in Keys : IF k = h THEN ueMap[k].state = "CONNECTED_NORMALLY"
                               ELSE ueMap[k].state = "ABSENT"
  BY <1>4, <1>6, AbsentContext
<1>8. TypeOK
  <2>1. lastRnti \in [Cells -> 0 .. MaxRnti] /\ packets \in 0 .. MaxData
    BY <1>5, X2Constants
  <2>2. ue \in UeStates
    BY <1>5 DEF UeStates
  <2>3. air \in Seq(AirMessages) /\ x2 \in [Links -> Seq(X2Messages)]
    BY <1>5
  <2> QED
    BY <1>5, <1>6, <2>1, <2>2, <2>3 DEF TypeOK
<1>9. TimerOfState
  BY <1>4, <1>6, AbsentContext DEF TimerOfState
<1>10. Known(h)
  BY <1>2, <1>5 DEF Known
<1>11. RntisKnown
  BY <1>5, <1>7, <1>10 DEF RntisKnown
<1>12. ContextsOK
  <2>1. \A k \in Keys : ~ueMap[k].x2u
    BY <1>4, <1>6, AbsentContext
  <2> QED
    BY <1>7, <2>1 DEF ContextsOK, Joined
<1>13. \A l \in Links : Len(x2[l]) = 0
  BY <1>5
<1>14. MessagesOK /\ OneMessage
  BY <1>13 DEF MessagesOK, OneMessage
<1>15. UePlaced
  <2>1. OnlyAt(h)
    BY <1>7 DEF OnlyAt, Serves, Serving
  <2> QED
    BY <1>5, <2>1 DEF UePlaced, WhenQuiet, Attached
<1>16. SourceWaits
  BY <1>7 DEF SourceWaits
<1>17. PacketsAccountedFor
  BY <1>5 DEF PacketsAccountedFor
<1> QED
  BY <1>8, <1>9, <1>11, <1>12, <1>14, <1>15, <1>16, <1>17 DEF IInv

(* Every step keeps the invariant.                                         *)
LEMMA StepIInv ==
  ASSUME IInv, [Next]_vars
  PROVE  IInv'
<1>1. CASE \E t \in Cells : MeasurementReport(t) \/ RandomAccess(t)
  BY <1>1, ReportKeeps, RandomAccessKeeps
<1>2. CASE \E k \in Keys : RecvS1uData(k) \/ TimeoutOf(k)
  BY <1>2, S1uDataKeeps, JoiningTimeoutKeeps, LeavingTimeoutKeeps, RequestTimeoutKeeps DEF TimeoutOf
<1>3. CASE \E l \in Links : X2Step(l)
  BY <1>3, HandoverRequestKeeps, RequestAckKeeps, PreparationFailureKeeps, SnStatusKeeps,
     ContextReleaseKeeps, UeDataKeeps DEF X2Step
<1>4. CASE AirStep
  BY <1>4, CommandKeeps, ReconfigurationKeeps, ReleaseKeeps, SetupKeeps, RequestKeeps,
     SetupCompletedKeeps, CompletedKeeps, RemoveRequestKeeps DEF AirStep
<1>5. CASE S1Step
  BY <1>5, PathSwitchKeeps, ContextSetupKeeps DEF S1Step
<1>6. CASE RandomAccessEnds
  BY <1>6, AccessKeeps, AccessFailureKeeps DEF RandomAccessEnds
<1>7. CASE RadioLinkFailure
  BY <1>7, LinkFailureKeeps
<1>8. CASE Abort
  BY <1>8, AbortKeeps
<1>9. CASE UNCHANGED vars
  BY <1>9, StutterIInv
<1> QED
  BY <1>1, <1>2, <1>3, <1>4, <1>5, <1>6, <1>7, <1>8, <1>9 DEF Next

(* THE INVARIANT. For all cells, bounds and fault sets, contexts, messages *)
(* in flight and the UE stay consistent with each other.                   *)
THEOREM X2Invariance == Spec => []IInv
BY InitIInv, StepIInv, PTL DEF Spec

(* Type correctness: contexts, messages, RNTIs and packets stay in their   *)
(* sets.                                                                   *)
THEOREM X2TypeInvariance == Spec => []TypeOK
<1>1. IInv => TypeOK
  BY DEF IInv
<1> QED
  BY <1>1, X2Invariance, PTL

(* The connection request, joining and leaving timeouts of a UeManager run *)
(* exactly in the states their handlers assert, so that no context is left *)
(* that nothing removes.                                                   *)
THEOREM TimersRunWithStates == Spec => []TimerOfState
<1>1. IInv => TimerOfState
  BY DEF IInv
<1> QED
  BY <1>1, X2Invariance, PTL

(* Between two events the UE believes to be connected to a cell under an   *)
(* RNTI if and only if the eNB of that cell serves it there, and no other  *)
(* context serves it, whatever messages are lost on the radio and however  *)
(* late X2 is.                                                             *)
THEOREM UeAndNetworkAgree == Spec => []ServedWhereItIs
<1>1. ASSUME IInv PROVE ServedWhereItIs
  <2>1. SUFFICES ASSUME air = <<>>, NEW k \in Keys
                 PROVE  Serves(k) <=> ue.state = "normal" /\ ue.key = k
    BY DEF ServedWhereItIs, Quiet, Serves
  <2>2. WhenQuiet
    BY <1>1, <2>1, OneInAir DEF IInv, UePlaced
  <2> QED
    BY <1>1, <2>2, UeParts DEF WhenQuiet, OnlyAt, Moving, Nowhere
<1> QED
  BY <1>1, X2Invariance, PTL

(* While the target waits for the path switch, the source still holds its  *)
(* context in HANDOVER_LEAVING: the UE CONTEXT RELEASE will find it.       *)
THEOREM SourceIsKept == Spec => []SourceKept
<1>1. ASSUME IInv PROVE SourceKept
  <2>1. SUFFICES ASSUME air = <<>>, NEW k \in Keys, ueMap[k].state = "HANDOVER_PATH_SWITCH"
                 PROVE  InState(ueMap[k].source, {"HANDOVER_LEAVING"})
    BY DEF SourceKept, Quiet
  <2>2. ueMap[ueMap[k].source].state = "HANDOVER_LEAVING"
    BY <1>1, <2>1, OneInAir DEF IInv, SourceWaits
  <2>3. ueMap[k].source \in Keys
    BY <1>1, <2>1 DEF IInv, ContextsOK, Joined, Known
  <2> QED
    BY <2>2, <2>3 DEF InState, HasUeManager
<1> QED
  BY <1>1, X2Invariance, PTL

(* A measurement report, which goes to the source while the UE is on its   *)
(* way to the target, never meets a missing UeManager.                     *)
THEOREM ReportsMeetContexts == Spec => []ReportsFindContext
<1>1. ASSUME IInv PROVE ReportsFindContext
  <2>1. SUFFICES ASSUME air = <<>>, ue.state \in {"normal", "handover"}
                 PROVE  ueMap[peer].state # "ABSENT" /\ peer \in Keys
    BY DEF ReportsFindContext, Quiet, HasUeManager
  <2>2. WhenQuiet
    BY <1>1, <2>1, OneInAir DEF IInv, UePlaced
  <2>3. CASE ue.state = "normal"
    <3>1. Serves(peer)
      BY <1>1, <2>2, <2>3, UeParts DEF WhenQuiet, Attached, OnlyAt
    <3> QED
      BY <1>1, <3>1, UeParts DEF Serves, Serving
  <2>4. CASE ue.state = "handover"
    BY <1>1, <2>2, <2>4, UeParts DEF WhenQuiet, Moving
  <2> QED
    BY <2>1, <2>3, <2>4
<1> QED
  BY <1>1, X2Invariance, PTL

(* With a good radio every packet that reached an eNB is transmitted, in   *)
(* the buffer of a joining context, or on an X2 link: no handover, refused *)
(* or accepted, loses one.                                                 *)
THEOREM NoPacketLost == Spec => []PacketsAccountedFor
<1>1. IInv => PacketsAccountedFor
  BY DEF IInv
<1> QED
  BY <1>1, X2Invariance, PTL
==============================================================================
