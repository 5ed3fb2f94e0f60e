---------------------------- MODULE SessionProofs ----------------------------
(***************************************************************************)
(* Session for every number of links, of packets and of attempts.           *)
(***************************************************************************)
EXTENDS Session, SequenceTheorems, FiniteSetTheorems, WellFoundedInduction, TLAPS

-----------------------------------------------------------------------------
(* The inductive invariant.  What it says of a link is said of the values on  *)
(* either side: a connection c with the messages A it has under way, and the  *)
(* connection d of the peer with its messages P.                              *)

IsData(x) == x.kind = "data"
IsAck(x)  == x.kind = "ack"

NoData(s) == \A i \in DOMAIN s : ~IsData(s[i])
NoAck(s)  == \A i \in DOMAIN s : ~IsAck(s[i])

\* The packets of a sequence of messages are in the order of their numbers.
Ordered(s) ==
  \A i, j \in DOMAIN s : i < j /\ IsData(s[i]) /\ IsData(s[j]) => s[i].seq < s[j].seq

\* The packets of s come before those of t.
Precede(s, t) ==
  \A i \in DOMAIN s, j \in DOMAIN t : IsData(s[i]) /\ IsData(t[j]) => s[i].seq < t[j].seq

Above(s, a)  == \A i \in DOMAIN s : IsData(s[i]) => a < s[i].seq
AtMost(s, a) == \A i \in DOMAIN s : IsData(s[i]) => s[i].seq <= a

Opening == {"none", "connecting", "guid"}   \* the peer's guid was not read
Open    == {"ack", "up"}                    \* it was, and the link is not closed

\* A connection has put no packet on its link.
Silent(c, A) == NoData(A) /\ c.queue = <<>> /\ c.phase # "up" /\ ~c.inited

\* What a connection keeps for its peer is numbered in order.
QueueOK(c) ==
  /\ Ordered(c.wait) /\ Ordered(c.queue) /\ Precede(c.wait, c.queue)
  /\ AtMost(c.wait, c.seq) /\ AtMost(c.queue, c.seq)

\* Until c answers the peer is silent, and so it is until it reads the answer, which
\* is the number of what c has decoded.
Answered(c, A, d, P) ==
  /\ c.phase \in Opening => NoAck(A) /\ Silent(d, P)
  /\ c.phase \in Open =>
       \A i \in DOMAIN A : IsAck(A[i]) =>
         /\ A[i].ack = c.ack /\ Silent(d, P)
         /\ \A j \in DOMAIN A : IsAck(A[j]) => i = j

\* The packets of d under way to c are in order, all are new to c, and those that
\* are still to be handed over come after them.
Flow(c, d, P) ==
  /\ Ordered(P) /\ Precede(P, d.queue)
  /\ d.inited => AtMost(P, d.seq)
  /\ c.phase \in Open => /\ Above(P, c.ack) /\ Above(d.queue, c.ack)
                         /\ d.inited => c.ack <= d.seq

\* One side of a link, that of node n; the numbers of the nodes T were torn.
Side(c, A, n, d, P, m, T) ==
  /\ c.phase \notin {"up", "closed"} => Silent(c, A)
  /\ n \notin T => QueueOK(c)
  /\ Answered(c, A, d, P)
  /\ m \notin T => Flow(c, d, P)

\* Both sides of a link.
LinkOK(c, A, n, d, P, m, T) == Side(c, A, n, d, P, m, T) /\ Side(d, P, m, c, A, n, T)

LinkInv(n, l) ==
  LinkOK(conn[n][l], pipe[l][n], n, conn[Peer(n)][l], pipe[l][Peer(n)], Peer(n), torn)

\* Only the connection in the map goes on being read, and one that is lost is closed.
PlaceInv(n, l) ==
  LET c == conn[n][l]
  IN  /\ c.lost \/ c.abort \/ l \in notices[n] => c.phase = "closed"
      /\ map[n] = l => c.guid /\ c.phase \notin Opening
      /\ c.guid /\ c.phase \in Open /\ n \notin erased => map[n] = l
      /\ n = "client" /\ l > links => c.phase = "none"

\* What was decoded since the last DISCONNECTED is in order, and its last number is
\* the one that the connection in the map acknowledges.
ReceivedInv(n) ==
  LET s == received[n]
  IN  /\ former[n] <= Len(s)
      /\ n \notin erased /\ Peer(n) \notin torn =>
           /\ \A i \in (former[n] + 1)..(Len(s) - 1) : s[i] < s[i + 1]
           /\ former[n] < Len(s) => map[n] # 0 /\ s[Len(s)] = conn[n][map[n]].ack

IInv ==
  /\ \A n \in Node : ReceivedInv(n)
  /\ \A n \in Node, l \in Link : PlaceInv(n, l)
  /\ \A l \in Link : LinkInv("client", l)

-----------------------------------------------------------------------------
(* Messages and the order of packets.                                         *)

\* The two nodes are each other's peers.
LEMMA PeerFacts ==
  /\ Peer("client") = "server" /\ Peer("server") = "client"
  /\ \A n \in Node : Peer(n) \in Node /\ Peer(n) # n /\ Peer(Peer(n)) = n
  /\ \A n \in Node, m \in Node : m = n \/ m = Peer(n)
<1>1. Peer("client") = "server"  BY DEF Peer, Node
<1>2. Peer("server") = "client"  BY DEF Peer, Node
<1>3. \A n \in Node : n = "client" \/ n = "server"  BY DEF Node
<1>4. QED  BY <1>1, <1>2, <1>3 DEF Node

\* What the kinds of messages are.
LEMMA Kinds ==
  ASSUME NEW x \in Message
  PROVE  /\ IsData(x) => x \in Packet /\ x.seq \in Nat /\ x.ack \in Nat /\ ~IsAck(x)
         /\ IsAck(x) => x.ack \in Nat
         /\ x.kind = "guid" => ~IsData(x) /\ ~IsAck(x)
         /\ x \in Packet => IsData(x)
<1>1. CASE x \in Packet  BY <1>1 DEF Packet, IsData, IsAck, Number
<1>2. CASE x \in [kind : {"guid"}]  BY <1>2 DEF Packet, IsData, IsAck, Number
<1>3. CASE x \in [kind : {"ack"}, ack : Number]  BY <1>3 DEF Packet, IsData, IsAck, Number
<1>4. QED  BY <1>1, <1>2, <1>3 DEF Message

\* A queue of packets is a sequence of messages.
LEMMA Packets ==
  ASSUME NEW q \in Seq(Packet)
  PROVE  /\ q \in Seq(Message)
         /\ \A i \in DOMAIN q : q[i] \in Packet /\ q[i].seq \in Nat /\ IsData(q[i])
         /\ NoAck(q)
<1>1. Packet \subseteq Message  BY DEF Message
<1>2. q \in Seq(Message)  BY <1>1, SeqMonotonic
<1>3. \A i \in DOMAIN q : q[i] \in Packet  OBVIOUS
<1>4. \A i \in DOMAIN q : q[i].seq \in Nat /\ IsData(q[i]) /\ ~IsAck(q[i])
  BY <1>1, <1>3, Kinds
<1>5. QED  BY <1>2, <1>3, <1>4 DEF NoAck

\* A sequence without packets is in order wherever it stands.
LEMMA NoDataFacts ==
  ASSUME NEW s, NEW t, NoData(s)
  PROVE  Ordered(s) /\ Precede(s, t) /\ Precede(t, s) /\ Above(s, t) /\ AtMost(s, t)
BY DEF NoData, Ordered, Precede, Above, AtMost

\* So is the empty sequence.
LEMMA EmptyFacts ==
  /\ NoData(<<>>) /\ NoAck(<<>>) /\ Ordered(<<>>)
  /\ \A t : Precede(<<>>, t) /\ Precede(t, <<>>) /\ Above(<<>>, t) /\ AtMost(<<>>, t)
BY DEF NoData, NoAck, Ordered, Precede, Above, AtMost

\* Where the elements of a concatenation come from.
LEMMA ConcatElements ==
  ASSUME NEW S, NEW s \in Seq(S), NEW t \in Seq(S)
  PROVE  /\ s \o t \in Seq(S)
         /\ \A i \in DOMAIN (s \o t) :
              \/ i \in DOMAIN s /\ (s \o t)[i] = s[i]
              \/ i - Len(s) \in DOMAIN t /\ (s \o t)[i] = t[i - Len(s)] /\ i > Len(s)
         /\ \A i \in DOMAIN s : i \in DOMAIN (s \o t) /\ (s \o t)[i] = s[i] /\ i <= Len(s)
         /\ \A i \in DOMAIN t : i + Len(s) \in DOMAIN (s \o t) /\ (s \o t)[i + Len(s)] = t[i]
OBVIOUS

\* The numbers of packets are numbers.
LEMMA Numbers ==
  ASSUME NEW s \in Seq(Message)
  PROVE  \A i \in DOMAIN s : s[i] \in Message /\ (IsData(s[i]) => s[i].seq \in Nat)
<1>1. \A i \in DOMAIN s : s[i] \in Message  OBVIOUS
<1>2. QED  BY <1>1, Kinds

\* Sequences in order, one before the other, are in order together.
LEMMA ConcatOrdered ==
  ASSUME NEW s \in Seq(Message), NEW t \in Seq(Message),
         Ordered(s), Ordered(t), Precede(s, t)
  PROVE  Ordered(s \o t)
<1> DEFINE u == s \o t
<1> SUFFICES ASSUME NEW i \in DOMAIN u, NEW j \in DOMAIN u, i < j, IsData(u[i]), IsData(u[j])
             PROVE  u[i].seq < u[j].seq
  BY DEF Ordered
<1>1. /\ \/ i \in DOMAIN s /\ u[i] = s[i] /\ i <= Len(s)
         \/ i - Len(s) \in DOMAIN t /\ u[i] = t[i - Len(s)] /\ i > Len(s)
      /\ \/ j \in DOMAIN s /\ u[j] = s[j] /\ j <= Len(s)
         \/ j - Len(s) \in DOMAIN t /\ u[j] = t[j - Len(s)] /\ j > Len(s)
      /\ i \in Int /\ j \in Int /\ Len(s) \in Nat
  OBVIOUS
<1>2. \A a, b \in DOMAIN s :
        a < b /\ IsData(s[a]) /\ IsData(s[b]) => s[a].seq < s[b].seq
  BY DEF Ordered
<1>3. \A a, b \in DOMAIN t :
        a < b /\ IsData(t[a]) /\ IsData(t[b]) => t[a].seq < t[b].seq
  BY DEF Ordered
<1>4. \A a \in DOMAIN s, b \in DOMAIN t :
        IsData(s[a]) /\ IsData(t[b]) => s[a].seq < t[b].seq
  BY DEF Precede
<1> HIDE DEF u
<1>5. QED  BY <1>1, <1>2, <1>3, <1>4

\* Bounds and precedence hold of a concatenation when they hold of its parts.
LEMMA ConcatBounds ==
  ASSUME NEW s \in Seq(Message), NEW t \in Seq(Message), NEW v
  PROVE  /\ NoData(s) /\ NoData(t) => NoData(s \o t)
         /\ NoAck(s) /\ NoAck(t) => NoAck(s \o t)
         /\ Above(s, v) /\ Above(t, v) => Above(s \o t, v)
         /\ AtMost(s, v) /\ AtMost(t, v) => AtMost(s \o t, v)
         /\ Precede(s, v) /\ Precede(t, v) => Precede(s \o t, v)
         /\ Precede(v, s) /\ Precede(v, t) => Precede(v, s \o t)
<1> DEFINE u == s \o t
<1>1. \A i \in DOMAIN u : \/ i \in DOMAIN s /\ u[i] = s[i]
                          \/ i - Len(s) \in DOMAIN t /\ u[i] = t[i - Len(s)]
  BY ConcatElements
<1> HIDE DEF u
<1>2. NoData(s) /\ NoData(t) => NoData(u)  BY <1>1 DEF NoData
<1>3. NoAck(s) /\ NoAck(t) => NoAck(u)  BY <1>1 DEF NoAck
<1>4. Above(s, v) /\ Above(t, v) => Above(u, v)  BY <1>1 DEF Above
<1>5. AtMost(s, v) /\ AtMost(t, v) => AtMost(u, v)  BY <1>1 DEF AtMost
<1>6. Precede(s, v) /\ Precede(t, v) => Precede(u, v)  BY <1>1 DEF Precede
<1>7. Precede(v, s) /\ Precede(v, t) => Precede(v, u)  BY <1>1 DEF Precede
<1>8. QED  BY <1>2, <1>3, <1>4, <1>5, <1>6, <1>7 DEF u

\* What holds of a sequence holds of its later elements.
LEMMA TailFacts ==
  ASSUME NEW S, NEW s \in Seq(S), s # <<>>
  PROVE  /\ Tail(s) \in Seq(S) /\ 1 \in DOMAIN s /\ Head(s) = s[1]
         /\ \A i \in DOMAIN Tail(s) : /\ i + 1 \in DOMAIN s /\ Tail(s)[i] = s[i + 1]
                                      /\ i > 0 /\ i \in Nat
         /\ NoData(s) => NoData(Tail(s))
         /\ NoAck(s) => NoAck(Tail(s))
         /\ Ordered(s) => Ordered(Tail(s))
         /\ \A t : Precede(s, t) => Precede(Tail(s), t)
         /\ \A t : Above(s, t) => Above(Tail(s), t)
         /\ \A t : AtMost(s, t) => AtMost(Tail(s), t)
<1> DEFINE u == Tail(s)
<1>1. u \in Seq(S) /\ 1 \in DOMAIN s /\ Head(s) = s[1]  OBVIOUS
<1>2. \A i \in DOMAIN u : i + 1 \in DOMAIN s /\ u[i] = s[i + 1] /\ i > 0 /\ i \in Nat
  OBVIOUS
<1> HIDE DEF u
<1>3. NoData(s) => NoData(u)  BY <1>2 DEF NoData
<1>4. NoAck(s) => NoAck(u)  BY <1>2 DEF NoAck
<1>5. Ordered(s) => Ordered(u)
  <2> SUFFICES ASSUME Ordered(s), NEW i \in DOMAIN u, NEW j \in DOMAIN u, i < j,
                      IsData(u[i]), IsData(u[j])
               PROVE  u[i].seq < u[j].seq
    BY DEF Ordered
  <2>1. i + 1 < j + 1  BY <1>2
  <2>2. QED  BY <1>2, <2>1 DEF Ordered
<1>6. \A t : Precede(s, t) => Precede(u, t)  BY <1>2 DEF Precede
<1>7. \A t : Above(s, t) => Above(u, t)  BY <1>2 DEF Above
<1>8. \A t : AtMost(s, t) => AtMost(u, t)  BY <1>2 DEF AtMost
<1>9. QED  BY <1>1, <1>2, <1>3, <1>4, <1>5, <1>6, <1>7, <1>8 DEF u

-----------------------------------------------------------------------------
(* What the model keeps of a queue: Unacknowledged and Release.               *)

\* A set of natural numbers has a least element.
LEMMA Least ==
  ASSUME NEW T, T \subseteq Nat, T # {}
  PROVE  \E x \in T : \A y \in T : x <= y
<1>1. PICK x \in T : \A y \in T : ~ (<<y, x>> \in OpToRel(<, Nat))
  BY WFMin, NatLessThanWellFounded
<1>2. \A y \in T : ~ (y < x)  BY <1>1 DEF OpToRel
<1>3. QED  BY <1>2

\* Of a finite set of positions, k - 1 stand before the k-th.
LEMMA Kth ==
  ASSUME NEW len \in Nat, NEW keep, keep \subseteq 1..len
  PROVE  /\ IsFiniteSet(keep) /\ Cardinality(keep) \in Nat
         /\ \A m \in Nat : Cardinality({j \in keep : j < m}) \in Nat
         /\ \A k \in 1..Cardinality(keep) :
              \E i \in keep : Cardinality({j \in keep : j < i}) = k - 1
         /\ \A i, m \in keep :
              i <= m => Cardinality({j \in keep : j < i}) <= Cardinality({j \in keep : j < m})
<1> DEFINE before(m) == {j \in keep : j < m}
<1>0. \A j \in keep : j \in Nat /\ j < len + 1  OBVIOUS
<1>1. IsFiniteSet(keep) /\ Cardinality(keep) \in Nat
  <2>1. 1 \in Int /\ len \in Int /\ keep \in SUBSET (1..len)  OBVIOUS
  <2>2. IsFiniteSet(1..len)  BY <2>1, FS_Interval, Zenon
  <2>3. IsFiniteSet(keep)  BY <2>1, <2>2, FS_Subset, Zenon
  <2>4. QED  BY <2>3, FS_CardinalityType
<1>2. \A m \in Nat : IsFiniteSet(before(m)) /\ Cardinality(before(m)) \in Nat
  <2> TAKE m \in Nat
  <2>1. before(m) \in SUBSET keep  OBVIOUS
  <2> HIDE DEF before
  <2>2. QED  BY <1>1, <2>1, FS_Subset, FS_CardinalityType
<1>3. \A i, m \in keep : i <= m => Cardinality(before(i)) <= Cardinality(before(m))
  <2> SUFFICES ASSUME NEW i \in keep, NEW m \in keep, i <= m
               PROVE  Cardinality(before(i)) <= Cardinality(before(m))
    OBVIOUS
  <2>1. \A j \in keep : j < i => j < m  BY <1>0
  <2>2. before(i) \in SUBSET before(m) /\ m \in Nat  BY <1>0, <2>1, Zenon
  <2> HIDE DEF before
  <2>3. QED  BY <1>2, <2>2, FS_Subset, Zenon
<1>4. ASSUME NEW k \in 1..Cardinality(keep)
      PROVE  \E i \in keep : Cardinality(before(i)) = k - 1
  <2> DEFINE T == {m \in Nat : Cardinality(before(m)) >= k}
  <2>1. before(len + 1) = keep /\ before(0) = {}
    <3>1. \A j \in keep : ~ (j < 0)  BY <1>0
    <3>2. QED  BY <1>0, <3>1, Zenon
  <2>2. len + 1 \in T
    <3>1. Cardinality(before(len + 1)) >= k  BY <1>1, <2>1
    <3> HIDE DEF before
    <3>2. QED  BY <3>1
  <2>3. PICK m \in T : \A y \in T : m <= y
    <3> HIDE DEF before
    <3>1. T \subseteq Nat /\ T # {}  BY <2>2
    <3> HIDE DEF T
    <3>2. QED  BY <3>1, Least
  <2>4. m \in Nat /\ Cardinality(before(m)) >= k /\ k \in Nat /\ k > 0  BY <1>1
  <2>5. m # 0
    <3>1. Cardinality(before(0)) = 0  BY <2>1, FS_EmptySet
    <3> HIDE DEF before
    <3>2. QED  BY <2>4, <3>1
  <2> DEFINE p == m - 1
  <2>6. p \in Nat /\ ~ (Cardinality(before(p)) >= k)
    <3> HIDE DEF before
    <3>1. p \in Nat /\ ~ (m <= p)  BY <2>4, <2>5
    <3> HIDE DEF p
    <3>2. QED  BY <2>3, <3>1
  <2>7. before(m) = IF p \in keep THEN before(p) \cup {p} ELSE before(p)
    <3>1. \A j \in keep : j < m <=> j < p \/ j = p  BY <1>0, <2>4, <2>5
    <3> HIDE DEF p
    <3>2. QED  BY <3>1
  <2>8. p \notin before(p)  BY <2>6
  <2> HIDE DEF before, p, T
  <2>9. p \in keep  BY <2>4, <2>6, <2>7
  <2>10. Cardinality(before(m)) = Cardinality(before(p)) + 1
    BY <1>2, <2>6, <2>7, <2>8, <2>9, FS_AddElement
  <2>11. Cardinality(before(p)) = k - 1
    <3>1. Cardinality(before(p)) \in Nat  BY <1>2, <2>6
    <3>2. QED  BY <2>4, <2>6, <2>10, <3>1
  <2>12. QED  BY <2>9, <2>11
<1>5. QED  BY <1>1, <1>2, <1>3, <1>4

\* What is sent again is what the peer has not received, in the order of the queue.
LEMMA UnacknowledgedFacts ==
  ASSUME NEW q \in Seq(Packet), NEW a \in Nat
  PROVE  LET r == Unacknowledged(q, a)
         IN  /\ r \in Seq(Packet)
             /\ Ordered(q) => Ordered(r)
             /\ Above(r, a)
             /\ \A b : AtMost(q, b) => AtMost(r, b)
<1> DEFINE keep == {i \in DOMAIN q : q[i].seq > a}
           before(m) == {j \in keep : j < m}
           at(k) == CHOOSE i \in keep : Cardinality(before(i)) = k - 1
           C == Cardinality(keep)
           r == [k \in 1..C |-> q[at(k)]]
<1>1. Unacknowledged(q, a) = r  BY DEF Unacknowledged
<1>2. Len(q) \in Nat /\ keep \subseteq 1..Len(q) /\ keep \subseteq DOMAIN q /\ keep \subseteq Nat
  OBVIOUS
<1>3. \A i \in keep : q[i] \in Packet /\ q[i].seq > a  OBVIOUS
<1>4. /\ C \in Nat
      /\ \A m \in Nat : Cardinality(before(m)) \in Nat
      /\ \A k \in 1..C : \E i \in keep : Cardinality(before(i)) = k - 1
      /\ \A i, m \in keep : i <= m => Cardinality(before(i)) <= Cardinality(before(m))
  <2> HIDE DEF keep
  <2>1. QED  BY <1>2, Kth
<1> HIDE DEF keep, before
<1>5. \A k \in 1..C : at(k) \in keep /\ Cardinality(before(at(k))) = k - 1  BY <1>4
<1> HIDE DEF C, at
<1>6. r \in Seq(Packet) /\ DOMAIN r = 1..C
  <2>1. \A k \in 1..C : q[at(k)] \in Packet  BY <1>3, <1>5
  <2>2. C \in Nat  BY <1>4
  <2>3. QED  BY <2>1, <2>2
<1>7. \A k \in DOMAIN r : at(k) \in DOMAIN q /\ r[k] = q[at(k)] /\ r[k].seq > a
  BY <1>2, <1>3, <1>5, <1>6
<1>8. \A i, j \in DOMAIN r : i < j => at(i) < at(j)
  <2> SUFFICES ASSUME NEW i \in 1..C, NEW j \in 1..C, i < j, ~ (at(i) < at(j))
               PROVE  FALSE
    BY <1>6
  <2>1. at(i) \in keep /\ at(j) \in keep /\ at(i) \in Nat /\ at(j) \in Nat  BY <1>2, <1>5
  <2>2. at(j) <= at(i)  BY <2>1
  <2>3. Cardinality(before(at(j))) <= Cardinality(before(at(i)))  BY <1>4, <2>1, <2>2
  <2>4. j - 1 <= i - 1  BY <1>5, <2>3
  <2>5. QED  BY <1>4, <2>4
<1> HIDE DEF r
<1>9. Ordered(q) => Ordered(r)  BY <1>7, <1>8 DEF Ordered
<1>10. Above(r, a)
  <2>1. \A k \in DOMAIN r : r[k].seq \in Nat  BY <1>6, Packets
  <2>2. QED  BY <1>7, <2>1 DEF Above
<1>11. \A b : AtMost(q, b) => AtMost(r, b)  BY <1>7 DEF AtMost
<1>12. QED  BY <1>1, <1>6, <1>9, <1>10, <1>11

\* What an acknowledgement leaves of the packets that wait is the end of their queue.
LEMMA ReleaseFacts ==
  ASSUME NEW q \in Seq(Packet), NEW a \in Nat
  PROVE  LET r == Release(q, a)
         IN  /\ r \in Seq(Packet)
             /\ Ordered(q) => Ordered(r)
             /\ \A b : AtMost(q, b) => AtMost(r, b)
             /\ \A t : Precede(q, t) => Precede(r, t)
<1> DEFINE keep == {i \in DOMAIN q : q[i].seq > a}
           first == CHOOSE i \in keep : \A j \in keep : i <= j
           r == Release(q, a)
<1>1. r = IF a = 0 THEN q ELSE IF keep = {} THEN <<>> ELSE SubSeq(q, first, Len(q))
  BY DEF Release
<1>2. CASE a # 0 /\ keep = {}
  <2>1. r = <<>>  BY <1>1, <1>2
  <2>2. <<>> \in Seq(Packet)  OBVIOUS
  <2>3. Ordered(r) /\ \A t : AtMost(r, t) /\ Precede(r, t)  BY <2>1, EmptyFacts, Zenon
  <2>4. QED  BY <2>1, <2>2, <2>3, Zenon
<1>3. CASE a # 0 /\ keep # {}
  <2>1. keep \subseteq Nat /\ keep \subseteq 1..Len(q)  OBVIOUS
  <2>2. \E i \in keep : \A j \in keep : i <= j
    <3> HIDE DEF keep
    <3>1. QED  BY <1>3, <2>1, Least
  <2>3. first \in 1..Len(q)  BY <2>1, <2>2
  <2>4. r = SubSeq(q, first, Len(q))  BY <1>1, <1>3
  <2> HIDE DEF r, first, keep
  <2>5. /\ r \in Seq(Packet)
        /\ \A i \in DOMAIN r : i \in Nat /\ i + first - 1 \in DOMAIN q /\ r[i] = q[i + first - 1]
    BY <2>3, <2>4
  <2>6. \A i, j \in DOMAIN r : i < j => i + first - 1 < j + first - 1  BY <2>3, <2>5
  <2>7. Ordered(q) => Ordered(r)  BY <2>5, <2>6 DEF Ordered
  <2>8. \A b : AtMost(q, b) => AtMost(r, b)  BY <2>5 DEF AtMost
  <2>9. \A t : Precede(q, t) => Precede(r, t)  BY <2>5 DEF Precede
  <2>10. QED  BY <2>5, <2>7, <2>8, <2>9 DEF r
<1>4. CASE a = 0
  <2>1. r = q  BY <1>1, <1>4
  <2>2. QED  BY <2>1, Zenon
<1>5. QED  BY <1>2, <1>3, <1>4

-----------------------------------------------------------------------------
(* What a handler makes of a link, said of the values on its two sides.       *)

\* The two sides of a link are alike.
LEMMA Sides ==
  ASSUME NEW n \in Node, NEW l
  PROVE  LinkInv(n, l) <=> LinkInv(Peer(n), l)
BY PeerFacts DEF LinkInv, LinkOK

\* A connection keeps its place on a link, or is closed: what was in order stays so.
LEMMA Fades ==
  ASSUME NEW c, NEW c2, NEW d, NEW A, NEW P, NEW P2, P2 \in {P, <<>>},
         NEW n, NEW m, NEW T, LinkOK(c, A, n, d, P, m, T),
         \/ /\ c2.phase = c.phase /\ c2.queue = c.queue
            /\ c2.inited = c.inited /\ c2.seq = c.seq /\ c2.ack = c.ack
         \/ /\ c2.phase = "closed" /\ c2.queue \in {c.queue, <<>>}
            /\ ~c2.inited \/ (c2.inited = c.inited /\ c2.seq = c.seq),
         QueueOK(c) => QueueOK(c2)
  PROVE  LinkOK(c2, A, n, d, P2, m, T)
<1>1. Side(c, A, n, d, P, m, T) /\ Side(d, P, m, c, A, n, T)  BY DEF LinkOK
<1>2. /\ NoData(P) => NoData(P2)
      /\ NoAck(P) => NoAck(P2)
      /\ Ordered(P) => Ordered(P2)
      /\ \A x : Precede(P, x) => Precede(P2, x)
      /\ \A x : Above(P, x) => Above(P2, x)
      /\ \A x : AtMost(P, x) => AtMost(P2, x)
  BY EmptyFacts, Zenon
<1>3. Silent(d, P) => Silent(d, P2)  BY <1>2 DEF Silent
<1>4. Silent(c, A) => Silent(c2, A)  BY DEF Silent
<1>5. c2.phase # "closed" => c2.phase = c.phase /\ c2.ack = c.ack  OBVIOUS
<1>6. Side(c2, A, n, d, P2, m, T)
  <2>1. c2.phase \notin {"up", "closed"} => Silent(c2, A)  BY <1>1, <1>4, <1>5 DEF Side
  <2>2. n \notin T => QueueOK(c2)  BY <1>1 DEF Side
  <2>3. Answered(c2, A, d, P2)
    <3>1. Answered(c, A, d, P)  BY <1>1 DEF Side
    <3>2. c2.phase = "closed" => Answered(c2, A, d, P2)  BY DEF Answered, Open, Opening
    <3>3. QED  BY <3>1, <3>2, <1>3, <1>5 DEF Answered
  <2>4. m \notin T => Flow(c2, d, P2)
    <3>1. m \notin T => Flow(c, d, P)  BY <1>1 DEF Side
    <3>2. c2.phase = "closed" => ~(c2.phase \in Open)  BY DEF Open
    <3>3. QED  BY <3>1, <3>2, <1>2, <1>5 DEF Flow
  <2>5. QED  BY <2>1, <2>2, <2>3, <2>4 DEF Side
<1>7. Side(d, P2, m, c2, A, n, T)
  <2>1. d.phase \notin {"up", "closed"} => Silent(d, P2)  BY <1>1, <1>3 DEF Side
  <2>2. m \notin T => QueueOK(d)  BY <1>1 DEF Side
  <2>3. Answered(d, P2, c2, A)
    <3>1. Answered(d, P, c, A)  BY <1>1 DEF Side
    <3>2. P2 = P => Answered(d, P2, c2, A)  BY <3>1, <1>4 DEF Answered
    <3>3. P2 = <<>> => Answered(d, P2, c2, A)  BY <1>4, <3>1 DEF Answered, NoAck
    <3>4. QED  BY <3>2, <3>3
  <2>4. n \notin T => Flow(d, c2, A)
    <3>1. n \notin T => Flow(d, c, A)  BY <1>1 DEF Side
    <3>2. c2.queue = c.queue \/ c2.queue = <<>>  OBVIOUS
    <3>3. c2.inited => c.inited /\ c2.seq = c.seq  OBVIOUS
    <3>4. /\ Precede(A, c.queue) => Precede(A, c2.queue)
          /\ Above(c.queue, d.ack) => Above(c2.queue, d.ack)
      BY <3>2, EmptyFacts
    <3>5. QED  BY <3>1, <3>3, <3>4 DEF Flow
  <2>5. QED  BY <2>1, <2>2, <2>3, <2>4 DEF Side
<1>8. QED  BY <1>6, <1>7 DEF LinkOK

\* A connection that has not read the peer's guid takes a step of the opening.
LEMMA Opens ==
  ASSUME NEW c, NEW c2, NEW d, NEW A, NEW A2, NEW P,
         NEW n, NEW m, NEW T, LinkOK(c, A, n, d, P, m, T),
         c.phase \in Opening, c2.phase \in Opening, NoData(A2), NoAck(A2),
         c2.queue = c.queue, c2.inited = c.inited, c2.seq = c.seq, c2.wait = c.wait
  PROVE  LinkOK(c2, A2, n, d, P, m, T)
<1>1. Side(c, A, n, d, P, m, T) /\ Side(d, P, m, c, A, n, T)  BY DEF LinkOK
<1>2. /\ c.phase \notin {"up", "closed"} /\ c2.phase \notin {"up", "closed"}
      /\ c2.phase \notin Open
  BY DEF Opening, Open
<1>3. Silent(c, A)  BY <1>1, <1>2 DEF Side
<1>4. Silent(c2, A2) /\ c2.queue = <<>> /\ ~c2.inited  BY <1>2, <1>3 DEF Silent
<1>5. Side(c2, A2, n, d, P, m, T)
  <2>1. n \notin T => QueueOK(c2)  BY <1>1 DEF Side, QueueOK
  <2>2. Answered(c2, A2, d, P)  BY <1>1, <1>2 DEF Side, Answered
  <2>3. m \notin T => Flow(c2, d, P)  BY <1>1, <1>2 DEF Side, Flow
  <2>4. QED  BY <1>4, <2>1, <2>2, <2>3 DEF Side
<1>6. Side(d, P, m, c2, A2, n, T)
  <2>1. Answered(d, P, c2, A2)  BY <1>1, <1>4 DEF Side, Answered
  <2>2. Flow(d, c2, A2)  BY <1>4, NoDataFacts, EmptyFacts DEF Flow
  <2>3. QED  BY <1>1, <2>1, <2>2 DEF Side
<1>7. QED  BY <1>5, <1>6 DEF LinkOK

\* A connection reads the peer's guid, takes over the numbers of another one and
\* answers what it has decoded.
LEMMA Greets ==
  ASSUME NEW c, NEW c2, NEW d, NEW A \in Seq(Message), NEW A2, NEW P \in Seq(Message),
         NEW n, NEW m, NEW T, NEW T2, T \subseteq T2,
         LinkOK(c, A, n, d, P, m, T), P # <<>>,
         c.phase = "guid", c2.phase = "ack", c2.queue = c.queue, c2.inited = c.inited,
         c2.ack \in Nat, n \notin T2 => QueueOK(c2),
         A2 = A \/ A2 = A \o <<[kind |-> "ack", ack |-> c2.ack]>>
  PROVE  LinkOK(c2, A2, n, d, Tail(P), m, T2)
<1> DEFINE P2 == Tail(P)
           say == [kind |-> "ack", ack |-> c2.ack]
<1>1. Side(c, A, n, d, P, m, T) /\ Side(d, P, m, c, A, n, T)  BY DEF LinkOK
<1>2. /\ NoData(P) => NoData(P2)
      /\ NoAck(P) => NoAck(P2)
      /\ \A i \in DOMAIN P2 : i + 1 \in DOMAIN P /\ P2[i] = P[i + 1] /\ i \in Nat
  BY TailFacts
<1>3. Silent(c, A) /\ NoAck(A) /\ Silent(d, P)
  <2>1. c.phase \notin {"up", "closed"} /\ c.phase \in Opening  BY DEF Opening
  <2>2. QED  BY <1>1, <2>1 DEF Side, Answered
<1>4. Silent(d, P2)  BY <1>2, <1>3 DEF Silent
<1>5. <<say>> \in Seq(Message) /\ NoData(<<say>>)
      /\ \A i \in DOMAIN <<say>> : i = 1 /\ <<say>>[i] = say
  <2>1. say \in Message /\ ~IsData(say)  BY DEF Message, Number, IsData
  <2> HIDE DEF say
  <2>2. QED  BY <2>1 DEF NoData
<1>6. NoData(A2)  BY <1>3, <1>5, ConcatBounds DEF Silent
<1>7. \A i \in DOMAIN A2 : IsAck(A2[i]) => A2[i].ack = c2.ack /\ i = Len(A) + 1
  <2>1. CASE A2 = A  BY <1>3, <2>1 DEF NoAck
  <2>2. CASE A2 = A \o <<say>>
    <3>1. Len(A) \in Nat /\ say.ack = c2.ack  OBVIOUS
    <3> HIDE DEF say
    <3>2. \A i \in DOMAIN A2 : \/ i \in DOMAIN A /\ A2[i] = A[i]
                               \/ /\ i - Len(A) \in DOMAIN <<say>>
                                  /\ A2[i] = <<say>>[i - Len(A)] /\ i \in Int
      BY <1>5, <2>2
    <3>3. QED  BY <1>3, <1>5, <3>1, <3>2 DEF NoAck
  <2>3. QED  BY <2>1, <2>2
<1>8. Silent(c2, A2)  BY <1>3, <1>6 DEF Silent
<1>9. c2.phase \in Open /\ c2.phase \notin Opening  BY DEF Open, Opening
<1> HIDE DEF P2
<1>10. Side(c2, A2, n, d, P2, m, T2)
  <2>1. Answered(c2, A2, d, P2)  BY <1>4, <1>7, <1>9 DEF Answered
  <2>2. Flow(c2, d, P2)  BY <1>4, NoDataFacts, EmptyFacts DEF Flow, Silent
  <2>3. QED  BY <1>8, <2>1, <2>2 DEF Side
<1>11. Side(d, P2, m, c2, A2, n, T2)
  <2>1. d.phase \notin {"up", "closed"} => Silent(d, P2)  BY <1>4
  <2>2. m \notin T => QueueOK(d)  BY <1>1 DEF Side
  <2>3. Answered(d, P2, c2, A2)
    <3>1. Answered(d, P, c, A)  BY <1>1 DEF Side
    <3>2. QED  BY <1>2, <1>8, <3>1 DEF Answered
  <2>4. Flow(d, c2, A2)  BY <1>8, NoDataFacts, EmptyFacts DEF Flow, Silent
  <2>5. QED  BY <2>1, <2>2, <2>3, <2>4 DEF Side
<1>12. QED  BY <1>10, <1>11 DEF LinkOK, P2

\* A connection reads what the peer has decoded, and sends again what it has not.
LEMMA Answers ==
  ASSUME NEW c, NEW c2, NEW d, NEW A \in Seq(Message), NEW P \in Seq(Message),
         NEW n, NEW m, NEW T, NEW a \in Nat,
         LinkOK(c, A, n, d, P, m, T), P # <<>>, IsAck(Head(P)), Head(P).ack = a,
         c.wait \in Seq(Packet), c.queue \in Seq(Packet), c.seq \in Nat,
         c.phase = "ack", c2.phase = "up", c2.ack = c.ack, c2.seq = c.seq,
         IF a > 0 THEN /\ c2.queue = c.queue \o Unacknowledged(c.wait, a)
                       /\ c2.wait = <<>> /\ c2.inited = c.inited
                  ELSE c2.queue = c.queue /\ c2.wait = c.wait /\ c2.inited
  PROVE  LinkOK(c2, A, n, d, Tail(P), m, T)
<1> DEFINE P2 == Tail(P)
           r == Unacknowledged(c.wait, a)
<1>1. Side(c, A, n, d, P, m, T) /\ Side(d, P, m, c, A, n, T)  BY DEF LinkOK
<1>2. /\ NoData(P) => NoData(P2)
      /\ Ordered(P) => Ordered(P2)
      /\ \A x : Precede(P, x) => Precede(P2, x)
      /\ \A x : Above(P, x) => Above(P2, x)
      /\ \A x : AtMost(P, x) => AtMost(P2, x)
      /\ 1 \in DOMAIN P /\ P[1] = Head(P)
      /\ \A i \in DOMAIN P2 : i + 1 \in DOMAIN P /\ P2[i] = P[i + 1] /\ i \in Nat /\ i > 0
  BY TailFacts
<1>3. Silent(c, A)  BY <1>1 DEF Side
<1>4. d.phase \notin Opening  BY <1>1, <1>2 DEF Side, Answered, NoAck
<1>5. d.phase \in Open => a = d.ack /\ NoAck(P2)
  <2> SUFFICES ASSUME d.phase \in Open  PROVE a = d.ack /\ NoAck(P2)
    OBVIOUS
  <2>1. \A i \in DOMAIN P : IsAck(P[i]) =>
          P[i].ack = d.ack /\ \A j \in DOMAIN P : IsAck(P[j]) => i = j
    BY <1>1 DEF Side, Answered
  <2>2. \A i \in DOMAIN P2 : i + 1 # 1  BY <1>2
  <2>3. NoAck(P2)  BY <1>2, <2>1, <2>2 DEF NoAck
  <2>4. QED  BY <1>2, <2>1, <2>3
<1>6. /\ r \in Seq(Packet)
      /\ Ordered(c.wait) => Ordered(r)
      /\ Above(r, a)
      /\ \A b : AtMost(c.wait, b) => AtMost(r, b)
  BY UnacknowledgedFacts
<1> HIDE DEF r, P2
<1>7. /\ c.queue = <<>> /\ ~c.inited /\ NoData(A)
      /\ c2.queue = IF a > 0 THEN r ELSE <<>>
  <2>1. c.queue = <<>> /\ ~c.inited /\ NoData(A)  BY <1>3 DEF Silent
  <2>2. <<>> \o r = r  BY <1>6
  <2>3. QED  BY <2>1, <2>2 DEF r
<1>8. Silent(d, P) => Silent(d, P2)  BY <1>2 DEF Silent
<1>9. c2.phase \in Open /\ c2.phase \notin Opening /\ c.phase \in Open
  BY DEF Open, Opening
<1>10. Side(c2, A, n, d, P2, m, T)
  <2>1. n \notin T => QueueOK(c2)
    <3>1. CASE a > 0
      <4>1. c2.queue = r /\ c2.wait = <<>>  BY <1>7, <3>1
      <4>2. QED  BY <1>1, <1>6, <4>1, EmptyFacts DEF Side, QueueOK
    <3>2. CASE ~(a > 0)
      <4>1. c2.queue = <<>> /\ c2.wait = c.wait  BY <1>7, <3>2
      <4>2. QED  BY <1>1, <4>1, EmptyFacts DEF Side, QueueOK
    <3>3. QED  BY <3>1, <3>2
  <2>2. Answered(c2, A, d, P2)  BY <1>1, <1>8, <1>9 DEF Side, Answered
  <2>3. m \notin T => Flow(c2, d, P2)  BY <1>1, <1>2, <1>9 DEF Side, Flow
  <2>4. QED  BY <2>1, <2>2, <2>3 DEF Side
<1>11. Side(d, P2, m, c2, A, n, T)
  <2>1. d.phase \notin {"up", "closed"} => Silent(d, P2)  BY <1>1, <1>8 DEF Side
  <2>2. m \notin T => QueueOK(d)  BY <1>1 DEF Side
  <2>3. Answered(d, P2, c2, A)  BY <1>4, <1>5 DEF Answered, NoAck
  <2>4. Flow(d, c2, A)
    <3>1. /\ Ordered(A) /\ Precede(A, c2.queue) /\ AtMost(A, c2.seq) /\ Above(A, d.ack)
      BY <1>7, NoDataFacts
    <3>2. d.phase \in Open => Above(c2.queue, d.ack)
      BY <1>5, <1>6, <1>7, EmptyFacts
    <3>3. d.phase \in Open /\ c2.inited => d.ack <= c2.seq
      <4>1. c2.inited => ~(a > 0)  BY <1>7
      <4>2. QED  BY <1>5, <4>1
    <3>4. QED  BY <3>1, <3>2, <3>3 DEF Flow
  <2>5. QED  BY <2>1, <2>2, <2>3, <2>4 DEF Side
<1>12. QED  BY <1>10, <1>11 DEF LinkOK, P2

\* The packets that are handed over join those that wait.
LEMMA HandedOK ==
  ASSUME NEW c, NEW c2, c.wait \in Seq(Packet), c.queue \in Seq(Packet), QueueOK(c),
         c2.wait = c.wait \o c.queue, c2.queue = <<>>, c2.seq = c.seq
  PROVE  QueueOK(c2)
<1>1. c.wait \in Seq(Message) /\ c.queue \in Seq(Message)  BY Packets
<1>2. Ordered(c2.wait)  BY <1>1, ConcatOrdered DEF QueueOK
<1>3. AtMost(c2.wait, c2.seq)  BY <1>1, ConcatBounds DEF QueueOK
<1>4. QED  BY <1>2, <1>3, EmptyFacts DEF QueueOK

\* A connection hands its packets over, to a link that stands or to nobody.
LEMMA Flushes ==
  ASSUME NEW c, NEW c2, NEW d, NEW A \in Seq(Message), NEW A2, NEW P,
         NEW n, NEW m, NEW T, LinkOK(c, A, n, d, P, m, T),
         c.wait \in Seq(Packet), c.queue \in Seq(Packet), c.phase = "up",
         c2.phase = c.phase, c2.ack = c.ack, c2.seq = c.seq, c2.inited = c.inited,
         c2.wait = c.wait \o c.queue, c2.queue = <<>>,
         A2 = A \/ A2 = A \o c.queue
  PROVE  LinkOK(c2, A2, n, d, P, m, T)
<1>1. Side(c, A, n, d, P, m, T) /\ Side(d, P, m, c, A, n, T)  BY DEF LinkOK
<1>2. c.queue \in Seq(Message) /\ NoAck(c.queue)  BY Packets
<1>3. ~Silent(c, A)  BY DEF Silent
<1>4. c.phase \notin Opening  BY DEF Opening
<1>5. \A i \in DOMAIN A2 : IsAck(A2[i]) => i \in DOMAIN A /\ A2[i] = A[i]
  <2>1. CASE A2 = A \o c.queue
    <3>1. \A i \in DOMAIN A2 :
            \/ i \in DOMAIN A /\ A2[i] = A[i]
            \/ i - Len(A) \in DOMAIN c.queue /\ A2[i] = c.queue[i - Len(A)]
      BY <1>2, <2>1, ConcatElements
    <3>2. QED  BY <1>2, <3>1 DEF NoAck
  <2>2. QED  BY <2>1
<1>6. Side(c2, A2, n, d, P, m, T)
  <2>1. n \notin T => QueueOK(c2)  BY <1>1, HandedOK DEF Side
  <2>2. Answered(c2, A2, d, P)  BY <1>1, <1>4, <1>5 DEF Side, Answered
  <2>3. m \notin T => Flow(c2, d, P)  BY <1>1 DEF Side, Flow
  <2>4. QED  BY <2>1, <2>2, <2>3 DEF Side
<1>7. Side(d, P, m, c2, A2, n, T)
  <2>1. Answered(d, P, c2, A2)
    <3>1. d.phase \notin Opening  BY <1>1, <1>3 DEF Side, Answered
    <3>2. d.phase \in Open => NoAck(P)  BY <1>1, <1>3 DEF Side, Answered, NoAck
    <3>3. QED  BY <3>1, <3>2 DEF Answered, NoAck
  <2>2. ASSUME n \notin T  PROVE Flow(d, c2, A2)
    <3>1. Flow(d, c, A) /\ QueueOK(c)  BY <1>1, <2>2 DEF Side
    <3>2. CASE A2 = A \o c.queue
      <4>1. Ordered(A) /\ Ordered(c.queue) /\ Precede(A, c.queue) /\ AtMost(c.queue, c.seq)
            /\ (c.inited => AtMost(A, c.seq))
            /\ (d.phase \in Open => Above(A, d.ack) /\ Above(c.queue, d.ack)
                                    /\ (c.inited => d.ack <= c.seq))
        BY <3>1 DEF Flow, QueueOK
      <4>2. Ordered(A2)  BY <1>2, <3>2, <4>1, ConcatOrdered
      <4>3. c.inited => AtMost(A2, c.seq)  BY <1>2, <3>2, <4>1, ConcatBounds
      <4>4. d.phase \in Open => Above(A2, d.ack)  BY <1>2, <3>2, <4>1, ConcatBounds
      <4>5. QED  BY <4>1, <4>2, <4>3, <4>4, EmptyFacts DEF Flow
    <3>3. CASE A2 = A  BY <3>1, <3>3, EmptyFacts DEF Flow
    <3>4. QED  BY <3>2, <3>3
  <2>3. QED  BY <1>1, <2>1, <2>2 DEF Side
<1>8. QED  BY <1>6, <1>7 DEF LinkOK

\* A connection decodes the packet that comes first.
LEMMA Receives ==
  ASSUME NEW c, NEW c2, NEW d, NEW A, NEW P \in Seq(Message),
         NEW n, NEW m, NEW T, LinkOK(c, A, n, d, P, m, T),
         c.wait \in Seq(Packet), c.phase = "up", P # <<>>, IsData(Head(P)),
         d.queue \in Seq(Packet), c2.phase = c.phase, c2.ack = Head(P).seq, c2.seq = c.seq,
         c2.inited = c.inited, c2.wait = Release(c.wait, Head(P).ack), c2.queue = c.queue
  PROVE  /\ LinkOK(c2, A, n, d, Tail(P), m, T)
         /\ m \notin T => c.ack < Head(P).seq
<1> DEFINE P2 == Tail(P)
<1>1. Side(c, A, n, d, P, m, T) /\ Side(d, P, m, c, A, n, T)  BY DEF LinkOK
<1>2. /\ NoAck(P) => NoAck(P2)
      /\ Ordered(P) => Ordered(P2)
      /\ \A x : Precede(P, x) => Precede(P2, x)
      /\ \A x : AtMost(P, x) => AtMost(P2, x)
      /\ 1 \in DOMAIN P /\ P[1] = Head(P)
      /\ \A i \in DOMAIN P2 : i + 1 \in DOMAIN P /\ P2[i] = P[i + 1] /\ i \in Nat /\ i > 0
  BY TailFacts
<1>3. Head(P).ack \in Nat /\ Head(P).seq \in Nat
  <2>1. Head(P) \in Message  OBVIOUS
  <2>2. QED  BY <2>1, Kinds
<1>4. ~Silent(c, A) /\ ~Silent(d, P)  BY <1>2 DEF Silent, NoData
<1>5. c.phase \in Open /\ c.phase \notin Opening  BY DEF Open, Opening
<1> HIDE DEF P2
<1>6. ASSUME m \notin T  PROVE Flow(c2, d, P2) /\ c.ack < Head(P).seq
  <2>1. Flow(c, d, P)  BY <1>1, <1>6 DEF Side
  <2>2. c.ack < Head(P).seq  BY <1>2, <1>5, <2>1 DEF Flow, Above
  <2>3. Above(P2, Head(P).seq)
    <3>1. \A i \in DOMAIN P2 : 1 < i + 1  BY <1>2
    <3>2. QED  BY <1>2, <2>1, <3>1 DEF Flow, Ordered, Above
  <2>4. Above(d.queue, Head(P).seq)  BY <1>2, <2>1 DEF Flow, Precede, Above
  <2>5. d.inited => Head(P).seq <= d.seq  BY <1>2, <2>1 DEF Flow, AtMost
  <2>6. Ordered(P2) /\ Precede(P2, d.queue) /\ (d.inited => AtMost(P2, d.seq))
    BY <1>2, <2>1 DEF Flow
  <2>7. QED  BY <2>2, <2>3, <2>4, <2>5, <2>6 DEF Flow
<1>7. Side(c2, A, n, d, P2, m, T)
  <2>1. n \notin T => QueueOK(c2)  BY <1>1, <1>3, ReleaseFacts DEF Side, QueueOK
  <2>2. Answered(c2, A, d, P2)  BY <1>1, <1>4, <1>5 DEF Side, Answered
  <2>3. QED  BY <1>6, <2>1, <2>2 DEF Side
<1>8. Side(d, P2, m, c2, A, n, T)
  <2>1. d.phase \notin {"up", "closed"} => Silent(d, P2)  BY <1>1, <1>4 DEF Side
  <2>2. m \notin T => QueueOK(d)  BY <1>1 DEF Side
  <2>3. Answered(d, P2, c2, A)
    <3>1. d.phase \notin Opening  BY <1>1, <1>4 DEF Side, Answered
    <3>2. d.phase \in Open => NoAck(P)  BY <1>1, <1>4 DEF Side, Answered, NoAck
    <3>3. QED  BY <1>2, <3>1, <3>2 DEF Answered, NoAck
  <2>4. n \notin T => Flow(d, c2, A)  BY <1>1 DEF Side, Flow
  <2>5. QED  BY <2>1, <2>2, <2>3, <2>4 DEF Side
<1>9. QED  BY <1>6, <1>7, <1>8 DEF LinkOK, P2

\* A connection numbers a packet, and keeps it when the connection is inited.
LEMMA Sends ==
  ASSUME NEW c, NEW c2, NEW d, NEW A \in Seq(Message), NEW P, NEW p \in Packet,
         NEW n, NEW m, NEW T, LinkOK(c, A, n, d, P, m, T),
         c.wait \in Seq(Packet), c.queue \in Seq(Packet), c.seq \in Nat, d.ack \in Nat,
         c2.phase = c.phase, c2.ack = c.ack, c2.inited = c.inited, c2.wait = c.wait,
         c2.seq = c.seq + 1, p.seq = c.seq + 1,
         c2.queue = IF c.inited THEN Append(c.queue, p) ELSE c.queue
  PROVE  LinkOK(c2, A, n, d, P, m, T)
<1>1. Side(c, A, n, d, P, m, T) /\ Side(d, P, m, c, A, n, T)  BY DEF LinkOK
<1>2. Silent(c, A) => Silent(c2, A)  BY DEF Silent
<1>3. \A s \in Seq(Message), a \in Nat : AtMost(s, a) => AtMost(s, a + 1)
  BY Numbers DEF AtMost
<1>4. c.wait \in Seq(Message) /\ c.queue \in Seq(Message)  BY Packets
<1>5. c2.queue \in Seq(Packet)
      /\ \A i \in DOMAIN c2.queue :
           \/ i \in DOMAIN c.queue /\ c2.queue[i] = c.queue[i]
           \/ c.inited /\ i = Len(c.queue) + 1 /\ c2.queue[i] = p
  OBVIOUS
<1>6. ASSUME NEW s \in Seq(Message), Precede(s, c.queue), c.inited => AtMost(s, c.seq)
      PROVE  Precede(s, c2.queue)
  <2>1. c.inited => \A i \in DOMAIN s : IsData(s[i]) => s[i].seq < p.seq
    BY <1>6, Numbers DEF AtMost
  <2>2. QED  BY <1>5, <1>6, <2>1 DEF Precede
<1>7. Side(c2, A, n, d, P, m, T)
  <2>1. ASSUME n \notin T  PROVE QueueOK(c2)
    <3>1. QueueOK(c)  BY <1>1, <2>1 DEF Side
    <3>2. Ordered(c2.queue)
      <4> SUFFICES ASSUME NEW i \in DOMAIN c2.queue, NEW j \in DOMAIN c2.queue, i < j,
                          IsData(c2.queue[i]), IsData(c2.queue[j])
                   PROVE  c2.queue[i].seq < c2.queue[j].seq
        BY DEF Ordered
      <4>1. i \in DOMAIN c.queue /\ c2.queue[i] = c.queue[i]  BY <1>5
      <4>2. c.queue[i].seq <= c.seq /\ c.queue[i].seq \in Nat
        BY <1>4, <3>1, <4>1, Numbers DEF QueueOK, AtMost
      <4>3. CASE j \in DOMAIN c.queue /\ c2.queue[j] = c.queue[j]
        BY <3>1, <4>1, <4>3 DEF QueueOK, Ordered
      <4>4. CASE c2.queue[j] = p
        <5>1. c.queue[i].seq < p.seq  BY <4>2
        <5>2. QED  BY <4>1, <4>4, <5>1, Zenon
      <4>5. QED  BY <1>5, <4>3, <4>4
    <3>3. Precede(c2.wait, c2.queue)  BY <1>4, <1>6, <3>1 DEF QueueOK
    <3>4. AtMost(c2.wait, c2.seq)  BY <1>3, <1>4, <3>1 DEF QueueOK
    <3>5. AtMost(c2.queue, c2.seq)
      <4>1. AtMost(c.queue, c.seq + 1)  BY <1>3, <1>4, <3>1 DEF QueueOK
      <4>2. p.seq <= c.seq + 1  OBVIOUS
      <4>3. QED  BY <1>5, <4>1, <4>2 DEF AtMost
    <3>6. QED  BY <3>1, <3>2, <3>3, <3>4, <3>5 DEF QueueOK
  <2>2. Answered(c2, A, d, P)  BY <1>1 DEF Side, Answered
  <2>3. m \notin T => Flow(c2, d, P)  BY <1>1 DEF Side, Flow
  <2>4. QED  BY <1>1, <1>2, <2>1, <2>2, <2>3 DEF Side
<1>8. Side(d, P, m, c2, A, n, T)
  <2>1. Answered(d, P, c2, A)  BY <1>1, <1>2 DEF Side, Answered
  <2>2. ASSUME n \notin T  PROVE Flow(d, c2, A)
    <3>1. Flow(d, c, A)  BY <1>1, <2>2 DEF Side
    <3>2. Precede(A, c2.queue)  BY <1>6, <3>1 DEF Flow
    <3>3. c2.inited => AtMost(A, c2.seq)  BY <1>3, <3>1 DEF Flow
    <3>4. ASSUME d.phase \in Open
          PROVE  Above(c2.queue, d.ack) /\ (c2.inited => d.ack <= c2.seq)
      <4>1. Above(c.queue, d.ack) /\ (c.inited => d.ack <= c.seq)
        BY <3>1, <3>4 DEF Flow
      <4>2. c.inited => d.ack < p.seq /\ d.ack <= c2.seq  BY <4>1
      <4>3. QED  BY <1>5, <4>1, <4>2 DEF Above
    <3>5. QED  BY <3>1, <3>2, <3>3, <3>4 DEF Flow
  <2>3. QED  BY <1>1, <2>1, <2>2 DEF Side
<1>9. QED  BY <1>7, <1>8 DEF LinkOK

-----------------------------------------------------------------------------
(* What a step makes of the state.                                            *)

Inv == TypeOK /\ IInv /\ AckHonest

\* The parts of a connection.
LEMMA Parts ==
  ASSUME NEW c \in Connection
  PROVE  /\ c.guid \in BOOLEAN /\ c.inited \in BOOLEAN /\ c.lost \in BOOLEAN
         /\ c.abort \in BOOLEAN /\ c.retry \in 0..MaxRetry
         /\ c.phase \in {"none", "connecting", "guid", "ack", "up", "closed"}
         /\ c.seq \in Nat /\ c.ack \in Nat
         /\ c.queue \in Seq(Packet) /\ c.wait \in Seq(Packet)
BY DEF Connection, Number

\* A new connection is a connection, and what waits on it is in order.
LEMMA Fresh ==
  /\ NewConnection \in Connection /\ [NewConnection EXCEPT !.phase = "closed"] \in Connection
  /\ QueueOK(NewConnection) /\ QueueOK([NewConnection EXCEPT !.phase = "closed"])
  /\ [NewConnection EXCEPT !.phase = "connecting"] \in Connection
<1>1. <<>> \in Seq(Packet) /\ 0 \in 0..MaxRetry  BY SessionBounds
<1>2. NewConnection \in Connection  BY <1>1 DEF NewConnection, Connection, Number
<1>3. [NewConnection EXCEPT !.phase = "closed"] \in Connection
  BY <1>1 DEF NewConnection, Connection, Number
<1>4. [NewConnection EXCEPT !.phase = "connecting"] \in Connection
  BY <1>1 DEF NewConnection, Connection, Number
<1>5. QueueOK(NewConnection) /\ QueueOK([NewConnection EXCEPT !.phase = "closed"])
  BY EmptyFacts DEF NewConnection, QueueOK
<1>6. QED  BY <1>2, <1>3, <1>4, <1>5

\* The values of the variables, one by one.
LEMMA Typed ==
  ASSUME TypeOK, NEW n \in Node, NEW l \in Link
  PROVE  /\ conn[n][l] \in Connection
         /\ pipe[l][n] \in Seq(Message)
         /\ received[n] \in Seq(Nat) /\ former[n] \in Nat /\ map[n] \in 0..MaxLinks
         /\ map[n] # 0 => map[n] \in Link
         /\ notices[n] \subseteq Link /\ MaxLinks \in Nat /\ MaxRetry \in Nat
         /\ links \in Link
BY SessionBounds DEF TypeOK, Link, Number

\* A step that changes one connection.
LEMMA OneConn ==
  ASSUME TypeOK, NEW n \in Node, NEW l \in Link, NEW c2 \in Connection,
         conn' = [conn EXCEPT ![n][l] = c2]
  PROVE  /\ conn' \in [Node -> [Link -> Connection]]
         /\ conn'[n][l] = c2
         /\ \A m \in Node, k \in Link : m # n \/ k # l => conn'[m][k] = conn[m][k]
BY DEF TypeOK

\* A step that changes what a node has under way on a link.
LEMMA OnePipe ==
  ASSUME TypeOK, NEW n \in Node, NEW l \in Link, NEW s \in Seq(Message),
         pipe' = [pipe EXCEPT ![l][n] = s]
  PROVE  /\ pipe' \in [Link -> [Node -> Seq(Message)]]
         /\ pipe'[l][n] = s
         /\ \A m \in Node, k \in Link : m # n \/ k # l => pipe'[k][m] = pipe[k][m]
BY DEF TypeOK

\* Only one link is touched: the other links stay as they are.
LEMMA OtherLinks ==
  ASSUME Inv, NEW n \in Node, NEW l \in Link,
         \A m \in Node, k \in Link : k # l =>
           conn'[m][k] = conn[m][k] /\ pipe'[k][m] = pipe[k][m],
         torn' = torn, LinkInv(n, l)'
  PROVE  \A k \in Link : LinkInv("client", k)'
<1> SUFFICES ASSUME NEW k \in Link  PROVE LinkInv("client", k)'
  OBVIOUS
<1>1. CASE k = l
  <2>1. LinkInv(Peer(n), l)'  BY PeerFacts DEF LinkInv, LinkOK
  <2>2. "client" \in Node  BY DEF Node
  <2>3. QED  BY <1>1, <2>1, <2>2, PeerFacts
<1>2. CASE k # l
  <2>1. LinkInv("client", k)  BY DEF Inv, IInv
  <2>2. "client" \in Node /\ Peer("client") \in Node  BY PeerFacts DEF Node
  <2>3. QED  BY <1>2, <2>1, <2>2 DEF LinkInv
<1>3. QED  BY <1>1, <1>2

\* Either side of a link in the invariant.
LEMMA LinkAt ==
  ASSUME Inv, NEW n \in Node, NEW l \in Link
  PROVE  LinkInv(n, l)
<1>1. LinkInv("client", l)  BY DEF Inv, IInv
<1>2. n = "client" \/ n = Peer("client")  BY PeerFacts DEF Node
<1>3. "client" \in Node  BY DEF Node
<1>4. QED  BY <1>1, <1>2, <1>3, Sides

\* A step of one connection that decodes nothing keeps the invariant when it keeps the
\* link and the connection's place.
LEMMA QuietStep ==
  ASSUME Inv, NEW n \in Node, NEW l \in Link, NEW c2 \in Connection,
         conn' = [conn EXCEPT ![n][l] = c2],
         pipe' \in [Link -> [Node -> Seq(Message)]],
         \A m \in Node, k \in Link : k # l => pipe'[k][m] = pipe[k][m],
         LinkOK(c2, pipe'[l][n], n,
                conn[Peer(n)][l], pipe'[l][Peer(n)], Peer(n), torn),
         c2.ack = conn[n][l].ack \/ (c2.ack = 0 /\ map[n] # l),
         c2.lost \/ c2.abort \/ l \in notices'[n] => c2.phase = "closed",
         map[n] = l => c2.guid /\ c2.phase \notin Opening,
         c2.guid /\ c2.phase \in Open /\ n \notin erased => map[n] = l,
         n = "client" /\ l > links => c2.phase = "none",
         alive' \subseteq Link, notices' \in [Node -> SUBSET Link],
         \A m \in Node, k \in Link : m # n \/ k # l => (k \in notices'[m] => k \in notices[m]),
         UNCHANGED <<map, links, received, rest>>
  PROVE  Inv'
<1>0. TypeOK  BY DEF Inv
<1>1. /\ conn' \in [Node -> [Link -> Connection]]
      /\ conn'[n][l] = c2
      /\ \A m \in Node, k \in Link : m # n \/ k # l => conn'[m][k] = conn[m][k]
  <2>1. conn \in [Node -> [Link -> Connection]]  BY <1>0 DEF TypeOK
  <2>2. conn' \in [Node -> [Link -> Connection]]  BY <2>1
  <2>3. conn'[n][l] = c2  BY <2>1
  <2>4. \A m \in Node, k \in Link : m # n \/ k # l => conn'[m][k] = conn[m][k]  BY <2>1
  <2>5. QED  BY <2>2, <2>3, <2>4, Zenon
<1>2. UNCHANGED <<former, erased, torn, scale>>  BY DEF rest
<1>3. TypeOK'  BY <1>1, <1>2 DEF Inv, TypeOK
<1>4. \A k \in Link : LinkInv("client", k)'
  <2>1. LinkInv(n, l)'
    <3>1. Peer(n) \in Node /\ Peer(n) # n  BY PeerFacts
    <3>2. conn'[Peer(n)][l] = conn[Peer(n)][l]  BY <1>1, <3>1
    <3>3. QED  BY <1>1, <1>2, <3>2 DEF LinkInv
  <2>2. \A m \in Node, k \in Link : k # l =>
          conn'[m][k] = conn[m][k] /\ pipe'[k][m] = pipe[k][m]
    BY <1>1
  <2>3. QED  BY <1>2, <2>1, <2>2, OtherLinks, Zenon
<1>5. ASSUME NEW m \in Node, NEW k \in Link  PROVE PlaceInv(m, k)'
  <2>1. PlaceInv(m, k)  BY DEF Inv, IInv
  <2>2. CASE m = n /\ k = l  BY <1>1, <1>2, <2>2 DEF PlaceInv
  <2>3. CASE m # n \/ k # l
    <3>1. conn'[m][k] = conn[m][k] /\ (k \in notices'[m] => k \in notices[m])
      BY <1>1, <2>3
    <3>2. QED  BY <1>2, <2>1, <3>1 DEF PlaceInv
  <2>4. QED  BY <2>2, <2>3
<1>6. ASSUME NEW m \in Node  PROVE ReceivedInv(m)'
  <2>1. ReceivedInv(m)  BY DEF Inv, IInv
  <2>2. map[m] # 0 => conn'[m][map[m]].ack = conn[m][map[m]].ack
    BY <1>1, Typed DEF Inv
  <2>3. QED  BY <1>2, <2>1, <2>2 DEF ReceivedInv
<1>7. AckHonest'
  <2> SUFFICES ASSUME NEW m \in Node, NEW k \in Link, conn'[m][k].ack > 0
               PROVE  \E i \in DOMAIN received[m] : received[m][i] = conn'[m][k].ack
    BY DEF AckHonest
  <2>1. conn'[m][k].ack = conn[m][k].ack  BY <1>1
  <2>2. QED  BY <2>1 DEF Inv, AckHonest
<1>8. QED  BY <1>3, <1>4, <1>5, <1>6, <1>7 DEF Inv, IInv

\* A node writes on a link that stands, or to nobody.
LEMMA Transmits ==
  ASSUME TypeOK, NEW n \in Node, NEW l \in Link, NEW s \in Seq(Message),
         NEW q \in [Link -> [Node -> Seq(Message)]], Transmit(n, l, s, q)
  PROVE  /\ pipe' \in [Link -> [Node -> Seq(Message)]]
         /\ pipe'[l][n] = q[l][n] \/ pipe'[l][n] = q[l][n] \o s
         /\ \A m \in Node, k \in Link : m # n \/ k # l => pipe'[k][m] = q[k][m]
<1>1. q[l][n] \o s \in Seq(Message)
  <2>1. q[l][n] \in Seq(Message)  OBVIOUS
  <2> HIDE DEF Message
  <2>2. QED  BY <2>1
<1>2. CASE l \in alive
  <2>1. pipe' = [q EXCEPT ![l][n] = q[l][n] \o s]  BY <1>2 DEF Transmit
  <2>2. QED  BY <1>1, <2>1
<1>3. CASE l \notin alive  BY <1>3 DEF Transmit
<1>4. QED  BY <1>2, <1>3

\* A node takes a message off a link, or gives up what it has not read.
LEMMA Takes ==
  ASSUME TypeOK, NEW n \in Node, NEW l \in Link,
         (Take(n, l) /\ pipe[l][Peer(n)] # <<>>) \/ GiveUp(n, l)
  PROVE  /\ pipe' \in [Link -> [Node -> Seq(Message)]]
         /\ Take(n, l) => pipe'[l][Peer(n)] = Tail(pipe[l][Peer(n)])
         /\ GiveUp(n, l) => pipe'[l][Peer(n)] = <<>>
         /\ pipe'[l][n] = pipe[l][n]
         /\ \A m \in Node, k \in Link : k # l => pipe'[k][m] = pipe[k][m]
<1>1. Peer(n) \in Node /\ Peer(n) # n  BY PeerFacts
<1>2. pipe[l][Peer(n)] \in Seq(Message)  BY <1>1, Typed
<1>3. <<>> \in Seq(Message)  OBVIOUS
<1>4. CASE Take(n, l) /\ pipe[l][Peer(n)] # <<>>
  <2>1. Tail(pipe[l][Peer(n)]) \in Seq(Message)  BY <1>2, <1>4
  <2>2. pipe' = [pipe EXCEPT ![l][Peer(n)] = Tail(pipe[l][Peer(n)])]  BY <1>4 DEF Take
  <2>3. Take(n, l) => pipe'[l][Peer(n)] = Tail(pipe[l][Peer(n)])
    BY <1>1, <2>1, <2>2, OnePipe
  <2>4. GiveUp(n, l) => pipe'[l][Peer(n)] = <<>>  BY <1>1, <1>3, OnePipe DEF GiveUp
  <2>5. QED  BY <1>1, <2>1, <2>2, <2>3, <2>4, OnePipe
<1>5. CASE GiveUp(n, l)
  <2>1. pipe' = [pipe EXCEPT ![l][Peer(n)] = <<>>]  BY <1>5 DEF GiveUp
  <2>2. pipe'[l][Peer(n)] = <<>>  BY <1>1, <1>3, <2>1, OnePipe
  <2>3. Take(n, l) => pipe'[l][Peer(n)] = Tail(pipe[l][Peer(n)])
    BY <1>1, <1>2 DEF Take, TypeOK
  <2>4. QED  BY <1>1, <1>3, <2>1, <2>2, <2>3, OnePipe
<1>6. QED  BY <1>4, <1>5

-----------------------------------------------------------------------------
(* The invariant holds initially and every step keeps it.                     *)

LEMMA InitInv ==
  ASSUME Init
  PROVE  Inv
<1>1. 0 \in 0..MaxLinks /\ 1 \in Link /\ <<>> \in Seq(Message) /\ <<>> \in Seq(Nat)
  BY SessionBounds DEF Link
<1>2. TypeOK
  <2>1. conn \in [Node -> [Link -> Connection]]  BY Fresh DEF Init
  <2>2. QED  BY <1>1, <2>1 DEF Init, TypeOK, Number
<1>3. ASSUME NEW n \in Node, NEW l \in Link
      PROVE  /\ conn[n][l].phase \in {"none", "connecting"} /\ ~conn[n][l].inited
             /\ (l # 1 \/ n # "client" => conn[n][l].phase = "none")
             /\ ~conn[n][l].lost /\ ~conn[n][l].abort /\ ~conn[n][l].guid /\ conn[n][l].ack = 0
             /\ conn[n][l].queue = <<>> /\ conn[n][l].wait = <<>> /\ pipe[l][n] = <<>>
  BY DEF Init, NewConnection
<1>4. ASSUME NEW l \in Link  PROVE LinkInv("client", l)
  <2>1. ASSUME NEW n \in Node, NEW m \in Node
        PROVE  Side(conn[n][l], pipe[l][n], n, conn[m][l], pipe[l][m], m, torn)
    <3>1. Silent(conn[n][l], pipe[l][n]) /\ Silent(conn[m][l], pipe[l][m])
      BY <1>3, EmptyFacts DEF Silent
    <3>2. QueueOK(conn[n][l])  BY <1>3, EmptyFacts DEF QueueOK
    <3>3. conn[n][l].phase \notin Open  BY <1>3 DEF Open
    <3>4. Answered(conn[n][l], pipe[l][n], conn[m][l], pipe[l][m])
      BY <1>3, <3>1, <3>3, EmptyFacts DEF Answered
    <3>5. Flow(conn[n][l], conn[m][l], pipe[l][m])
      BY <1>3, <3>3, EmptyFacts DEF Flow
    <3>6. QED  BY <3>1, <3>2, <3>4, <3>5 DEF Side
  <2>2. "client" \in Node /\ Peer("client") \in Node  BY PeerFacts DEF Node
  <2>3. QED  BY <2>1, <2>2 DEF LinkInv, LinkOK
<1>5. ASSUME NEW n \in Node, NEW l \in Link  PROVE PlaceInv(n, l)
  <2>1. notices[n] = {} /\ map[n] = 0 /\ links = 1 /\ l # 0 /\ l \in Nat
    BY DEF Init, Link
  <2>2. l > links => l # 1  BY <2>1
  <2>3. QED  BY <1>3, <2>1, <2>2 DEF PlaceInv
<1>6. ASSUME NEW n \in Node  PROVE ReceivedInv(n)
  <2>1. received[n] = <<>> /\ former[n] = 0  BY DEF Init
  <2>2. QED  BY <2>1 DEF ReceivedInv
<1>7. AckHonest  BY <1>3 DEF AckHonest
<1>8. QED  BY <1>2, <1>4, <1>5, <1>6, <1>7 DEF Inv, IInv

\* The message that carries a guid.
LEMMA GuidMessage ==
  LET say == <<[kind |-> "guid"]>>
  IN  say \in Seq(Message) /\ NoData(say) /\ NoAck(say)
<1>1. [kind |-> "guid"] \in Message  BY DEF Message
<1>2. QED  BY <1>1, Kinds DEF NoData, NoAck

\* The TCP connection of the client stands.
LEMMA ConnectSucceedsStep ==
  ASSUME Inv, NEW l \in Link, ConnectSucceeds(l)
  PROVE  Inv'
<1>1. PICK n \in Node : n = "client"  BY DEF Node
<1>2. PICK c \in Connection : c = conn[n][l]  BY Typed DEF Inv
<1> DEFINE c2 == [c EXCEPT !.phase = "guid", !.retry = 0]
           say == <<[kind |-> "guid"]>>
<1>3. 0 \in 0..MaxRetry  BY SessionBounds
<1>4. /\ c2 \in Connection
      /\ c2.queue = c.queue /\ c2.inited = c.inited /\ c2.seq = c.seq /\ c2.wait = c.wait
      /\ c2.phase = "guid" /\ c2.ack = c.ack
      /\ c2.lost = c.lost /\ c2.abort = c.abort /\ c2.guid = c.guid
  BY <1>3 DEF Connection
<1>5. c.phase = "connecting"  BY <1>1, <1>2 DEF ConnectSucceeds
<1>6. conn' = [conn EXCEPT ![n][l] = c2]
  BY <1>1, <1>2 DEF ConnectSucceeds, Inv, TypeOK
<1>7. say \in Seq(Message) /\ NoData(say) /\ NoAck(say)  BY GuidMessage
<1>8. pipe' = [pipe EXCEPT ![l][n] = say]  BY <1>1 DEF ConnectSucceeds
<1> HIDE DEF c2, say
<1>9. /\ pipe' \in [Link -> [Node -> Seq(Message)]]
      /\ pipe'[l][n] = say /\ pipe'[l][Peer(n)] = pipe[l][Peer(n)]
      /\ \A m \in Node, k \in Link : k # l => pipe'[k][m] = pipe[k][m]
  <2>1. TypeOK /\ Peer(n) \in Node /\ Peer(n) # n  BY PeerFacts DEF Inv
  <2>2. /\ pipe' \in [Link -> [Node -> Seq(Message)]] /\ pipe'[l][n] = say
        /\ \A m \in Node, k \in Link : m # n \/ k # l => pipe'[k][m] = pipe[k][m]
    BY <1>7, <1>8, <2>1, OnePipe, Zenon
  <2>3. QED  BY <2>1, <2>2
<1>10. LinkOK(c2, pipe'[l][n], n,
              conn[Peer(n)][l], pipe'[l][Peer(n)], Peer(n), torn)
  <2>1. LinkInv(n, l)  BY LinkAt
  <2>2. c.phase \in Opening /\ c2.phase \in Opening  BY <1>4, <1>5 DEF Opening
  <2>3. LinkOK(c, pipe[l][n], n,
               conn[Peer(n)][l], pipe'[l][Peer(n)], Peer(n), torn)
    BY <1>2, <1>9, <2>1 DEF LinkInv
  <2>4. QED  BY <1>4, <1>7, <1>9, <2>2, <2>3, Opens, Zenon
<1>11. PlaceInv(n, l)  BY DEF Inv, IInv
<1>12. /\ ~c2.lost /\ ~c2.abort /\ l \notin notices[n] /\ map[n] # l /\ c2.phase \notin Open
       /\ ~(n = "client" /\ l > links)
  BY <1>2, <1>4, <1>5, <1>11 DEF PlaceInv, Opening, Open
<1>13. /\ alive' \subseteq Link /\ notices' \in [Node -> SUBSET Link]
       /\ UNCHANGED <<map, links, received, rest, notices>>
  BY DEF ConnectSucceeds, Inv, TypeOK
<1>14. QED  BY <1>2, <1>4, <1>6, <1>9, <1>10, <1>12, <1>13, QuietStep

\* The client tries again to connect, or gives up.
LEMMA ConnectFailsStep ==
  ASSUME Inv, NEW l \in Link, ConnectFails(l)
  PROVE  Inv'
<1>1. PICK n \in Node : n = "client"  BY DEF Node
<1>2. PICK c \in Connection : c = conn[n][l]  BY Typed DEF Inv
<1> DEFINE c2 == IF c.retry < scale.retry THEN [c EXCEPT !.retry = c.retry + 1]
                                          ELSE [c EXCEPT !.phase = "closed"]
<1>3. scale.retry \in 0..MaxRetry /\ MaxRetry \in Nat
  BY SessionBounds DEF Inv, TypeOK, Scale
<1>4. /\ c2 \in Connection
      /\ c2.queue = c.queue /\ c2.inited = c.inited /\ c2.seq = c.seq /\ c2.wait = c.wait
      /\ c2.phase \in {c.phase, "closed"}
      /\ c2.ack = c.ack /\ c2.lost = c.lost /\ c2.abort = c.abort /\ c2.guid = c.guid
  <2>1. CASE c.retry < scale.retry
    <3>1. c.retry + 1 \in 0..MaxRetry  BY <1>3, <2>1 DEF Connection
    <3>2. QED  BY <2>1, <3>1 DEF Connection
  <2>2. CASE ~(c.retry < scale.retry)  BY <2>2 DEF Connection
  <2>3. QED  BY <2>1, <2>2
<1>5. c.phase = "connecting"  BY <1>1, <1>2 DEF ConnectFails
<1>6. conn' = [conn EXCEPT ![n][l] = c2]
  BY <1>1, <1>2 DEF ConnectFails
<1> HIDE DEF c2
<1>7. /\ pipe' \in [Link -> [Node -> Seq(Message)]] /\ pipe' = pipe
      /\ alive' \subseteq Link /\ notices' \in [Node -> SUBSET Link]
      /\ UNCHANGED <<map, links, received, rest, notices>>
  BY DEF ConnectFails, Inv, TypeOK
<1>8. LinkOK(c2, pipe'[l][n], n, conn[Peer(n)][l], pipe'[l][Peer(n)], Peer(n), torn)
  <2>1. LinkOK(c, pipe[l][n], n, conn[Peer(n)][l], pipe[l][Peer(n)], Peer(n), torn)
    BY <1>2, LinkAt DEF LinkInv
  <2>2. QueueOK(c) => QueueOK(c2)  BY <1>4 DEF QueueOK
  <2>3. QED  BY <1>4, <1>7, <2>1, <2>2, Fades
<1>9. PlaceInv(n, l)  BY DEF Inv, IInv
<1>10. /\ c2.lost \/ c2.abort \/ l \in notices[n] => c2.phase = "closed"
       /\ map[n] # l /\ c2.phase \notin Open /\ ~(n = "client" /\ l > links)
  BY <1>2, <1>4, <1>5, <1>9 DEF PlaceInv, Opening, Open
<1>11. QED  BY <1>2, <1>4, <1>6, <1>7, <1>8, <1>10, QuietStep

\* The server has accepted a link, and sends its guid.
LEMMA AcceptedStep ==
  ASSUME Inv, NEW l \in Link, Accepted(l)
  PROVE  Inv'
<1>1. PICK n \in Node : n = "server"  BY DEF Node
<1>2. PICK c \in Connection : c = conn[n][l]  BY Typed DEF Inv
<1> DEFINE c2 == [c EXCEPT !.phase = "guid"]
           say == <<[kind |-> "guid"]>>
<1>3. /\ c2 \in Connection
      /\ c2.queue = c.queue /\ c2.inited = c.inited /\ c2.seq = c.seq /\ c2.wait = c.wait
      /\ c2.phase = "guid" /\ c2.ack = c.ack
      /\ c2.lost = c.lost /\ c2.abort = c.abort /\ c2.guid = c.guid
  BY DEF Connection
<1>4. c.phase = "none"  BY <1>1, <1>2 DEF Accepted
<1>5. conn' = [conn EXCEPT ![n][l] = c2]  BY <1>1, <1>2 DEF Accepted, Inv, TypeOK
<1>6. say \in Seq(Message) /\ NoData(say) /\ NoAck(say)  BY GuidMessage
<1>7. Transmit(n, l, say, pipe)  BY <1>1 DEF Accepted
<1> HIDE DEF c2, say
<1>8. TypeOK /\ pipe \in [Link -> [Node -> Seq(Message)]]
      /\ Peer(n) \in Node /\ Peer(n) # n
  BY PeerFacts DEF Inv, TypeOK
<1>9. /\ pipe' \in [Link -> [Node -> Seq(Message)]]
      /\ pipe'[l][n] = pipe[l][n] \/ pipe'[l][n] = pipe[l][n] \o say
      /\ pipe'[l][Peer(n)] = pipe[l][Peer(n)]
      /\ \A m \in Node, k \in Link : k # l => pipe'[k][m] = pipe[k][m]
  BY <1>6, <1>7, <1>8, Transmits
<1>10. LinkOK(c2, pipe'[l][n], n, conn[Peer(n)][l], pipe'[l][Peer(n)], Peer(n), torn)
  <2>1. LinkOK(c, pipe[l][n], n, conn[Peer(n)][l], pipe[l][Peer(n)], Peer(n), torn)
    BY <1>2, LinkAt DEF LinkInv
  <2>2. c.phase \in Opening /\ c2.phase \in Opening  BY <1>3, <1>4 DEF Opening
  <2>3. NoData(pipe[l][n]) /\ NoAck(pipe[l][n])
    BY <1>4, <2>1, <2>2 DEF LinkOK, Side, Answered, Silent
  <2>4. pipe[l][n] \in Seq(Message)  BY <1>8
  <2>5. NoData(pipe'[l][n]) /\ NoAck(pipe'[l][n])
    BY <1>6, <1>9, <2>3, <2>4, ConcatBounds
  <2>6. QED  BY <1>3, <1>9, <2>1, <2>2, <2>5, Opens, Zenon
<1>11. PlaceInv(n, l)  BY DEF Inv, IInv
<1>12. /\ ~c2.lost /\ ~c2.abort /\ l \notin notices[n] /\ map[n] # l /\ c2.phase \notin Open
       /\ ~(n = "client" /\ l > links)
  BY <1>1, <1>2, <1>3, <1>4, <1>11 DEF PlaceInv, Opening, Open
<1>13. /\ alive' \subseteq Link /\ notices' \in [Node -> SUBSET Link]
       /\ UNCHANGED <<map, links, received, rest, notices>>
  BY DEF Accepted, Inv, TypeOK
<1>14. QED  BY <1>2, <1>3, <1>5, <1>9, <1>10, <1>12, <1>13, QuietStep

\* The network loses a link.
LEMMA BreakStep ==
  ASSUME Inv, NEW l \in Link, Break(l)
  PROVE  Inv'
<1>1. /\ alive' \subseteq Link
      /\ UNCHANGED <<conn, map, links, pipe, notices, received, former, erased, torn, scale>>
  BY DEF Break, rest, Inv, TypeOK
<1>2. TypeOK'  BY <1>1 DEF Inv, TypeOK
<1>3. \A k \in Link : LinkInv("client", k)'  BY <1>1 DEF Inv, IInv, LinkInv
<1>4. \A m \in Node, k \in Link : PlaceInv(m, k)'  BY <1>1 DEF Inv, IInv, PlaceInv
<1>5. \A m \in Node : ReceivedInv(m)'  BY <1>1 DEF Inv, IInv, ReceivedInv
<1>6. AckHonest'  BY <1>1 DEF Inv, AckHonest
<1>7. QED  BY <1>2, <1>3, <1>4, <1>5, <1>6 DEF Inv, IInv

\* The heartbeat gives a client up that has not come back.
LEMMA HeartbeatStep ==
  ASSUME Inv, Heartbeat
  PROVE  Inv'
<1>1. PICK l \in Link : l = map["server"] /\ conn["server"][l].lost
                        /\ notices' = [notices EXCEPT !["server"] = @ \cup {l}]
  <2>1. "server" \in Node  BY DEF Node
  <2>2. map["server"] # 0 => map["server"] \in Link
    BY <2>1, SessionBounds DEF Inv, TypeOK, Link
  <2>3. QED  BY <2>2 DEF Heartbeat
<1>2. UNCHANGED <<conn, map, links, alive, pipe, received, former, erased, torn, scale>>
  BY DEF Heartbeat, rest
<1>3. /\ notices' \in [Node -> SUBSET Link]
      /\ \A m \in Node, k \in Link :
           k \in notices'[m] => k \in notices[m] \/ (m = "server" /\ k = l)
  BY <1>1 DEF Inv, TypeOK
<1>4. TypeOK'  BY <1>2, <1>3 DEF Inv, TypeOK
<1>5. \A k \in Link : LinkInv("client", k)'  BY <1>2 DEF Inv, IInv, LinkInv
<1>6. ASSUME NEW m \in Node, NEW k \in Link  PROVE PlaceInv(m, k)'
  <2>1. PlaceInv(m, k)  BY DEF Inv, IInv
  <2>2. QED  BY <1>1, <1>2, <1>3, <2>1 DEF PlaceInv
<1>7. \A m \in Node : ReceivedInv(m)'  BY <1>2 DEF Inv, IInv, ReceivedInv
<1>8. AckHonest'  BY <1>2 DEF Inv, AckHonest
<1>9. QED  BY <1>4, <1>5, <1>6, <1>7, <1>8 DEF Inv, IInv

\* A connection hands its packets over.
LEMMA FlushStep ==
  ASSUME Inv, NEW n \in Node, NEW l \in Link, Flush(n, l)
  PROVE  Inv'
<1>1. PICK c \in Connection : c = conn[n][l]  BY Typed DEF Inv
<1> DEFINE c2 == [c EXCEPT !.queue = <<>>, !.wait = c.wait \o c.queue]
<1>2. c.wait \in Seq(Packet) /\ c.queue \in Seq(Packet)  BY Parts
<1>3. /\ c2 \in Connection
      /\ c2.queue = <<>> /\ c2.inited = c.inited /\ c2.seq = c.seq
      /\ c2.wait = c.wait \o c.queue
      /\ c2.phase = c.phase /\ c2.ack = c.ack
      /\ c2.lost = c.lost /\ c2.abort = c.abort /\ c2.guid = c.guid
  <2>1. c.wait \o c.queue \in Seq(Packet) /\ <<>> \in Seq(Packet)  BY <1>2
  <2>2. QED  BY <2>1 DEF Connection
<1>4. c.phase = "up"  BY <1>1 DEF Flush
<1>5. conn' = [conn EXCEPT ![n][l] = c2]  BY <1>1 DEF Flush, Handed
<1>6. Transmit(n, l, c.queue, pipe)  BY <1>1 DEF Flush
<1> HIDE DEF c2
<1>7. /\ TypeOK /\ pipe \in [Link -> [Node -> Seq(Message)]]
      /\ Peer(n) \in Node /\ Peer(n) # n /\ pipe[l][n] \in Seq(Message)
  BY PeerFacts DEF Inv, TypeOK
<1>8. c.queue \in Seq(Message)  BY <1>2, Packets
<1>9. /\ pipe' \in [Link -> [Node -> Seq(Message)]]
      /\ pipe'[l][n] = pipe[l][n] \/ pipe'[l][n] = pipe[l][n] \o c.queue
      /\ pipe'[l][Peer(n)] = pipe[l][Peer(n)]
      /\ \A m \in Node, k \in Link : k # l => pipe'[k][m] = pipe[k][m]
  <2>1. /\ pipe' \in [Link -> [Node -> Seq(Message)]]
        /\ pipe'[l][n] = pipe[l][n] \/ pipe'[l][n] = pipe[l][n] \o c.queue
        /\ \A m \in Node, k \in Link : m # n \/ k # l => pipe'[k][m] = pipe[k][m]
    <3>1. PICK s \in Seq(Message) : s = c.queue  BY <1>8
    <3>2. Transmit(n, l, s, pipe)  BY <1>6, <3>1
    <3>3. pipe' \in [Link -> [Node -> Seq(Message)]]  BY <1>7, <3>2, Transmits
    <3>4. pipe'[l][n] = pipe[l][n] \/ pipe'[l][n] = pipe[l][n] \o s  BY <1>7, <3>2, Transmits
    <3>5. \A m \in Node, k \in Link : m # n \/ k # l => pipe'[k][m] = pipe[k][m]
      BY <1>7, <3>2, Transmits
    <3>6. QED  BY <3>1, <3>3, <3>4, <3>5
  <2>2. QED  BY <1>7, <2>1
<1>10. LinkOK(c2, pipe'[l][n], n, conn[Peer(n)][l], pipe'[l][Peer(n)], Peer(n), torn)
  <2>1. LinkOK(c, pipe[l][n], n, conn[Peer(n)][l], pipe[l][Peer(n)], Peer(n), torn)
    BY <1>1, LinkAt DEF LinkInv
  <2>2. QED  BY <1>2, <1>3, <1>4, <1>7, <1>9, <2>1, Flushes
<1>11. PlaceInv(n, l)  BY DEF Inv, IInv
<1>12. /\ alive' \subseteq Link /\ notices' \in [Node -> SUBSET Link]
       /\ UNCHANGED <<map, links, received, rest, notices>>
  BY DEF Flush, Inv, TypeOK
<1>13. /\ c2.lost \/ c2.abort \/ l \in notices'[n] => c2.phase = "closed"
       /\ map[n] = l => c2.guid /\ c2.phase \notin Opening
       /\ c2.guid /\ c2.phase \in Open /\ n \notin erased => map[n] = l
       /\ n = "client" /\ l > links => c2.phase = "none"
  BY <1>1, <1>3, <1>11, <1>12 DEF PlaceInv
<1>14. QED  BY <1>1, <1>3, <1>5, <1>9, <1>10, <1>12, <1>13, QuietStep

\* The application sends a packet.
LEMMA SendStep ==
  ASSUME Inv, NEW n \in Node, Send(n)
  PROVE  Inv'
<1>1. PICK l \in Link : l = map[n]
  <2>1. map[n] # 0 => map[n] \in Link  BY SessionBounds DEF Inv, TypeOK, Link
  <2>2. QED  BY <2>1 DEF Send
<1>2. PICK c \in Connection : c = conn[n][l]  BY Typed DEF Inv
<1> DEFINE p == [kind |-> "data", seq |-> c.seq + 1, ack |-> c.ack]
           q == IF c.inited THEN Append(c.queue, p) ELSE c.queue
           c2 == [c EXCEPT !.seq = c.seq + 1, !.queue = q]
<1>3. c.wait \in Seq(Packet) /\ c.queue \in Seq(Packet) /\ c.seq \in Nat /\ c.ack \in Nat
  BY Parts
<1>4. p \in Packet /\ p.seq = c.seq + 1  BY <1>3 DEF Packet, Number
<1>5. q \in Seq(Packet)
  <2> HIDE DEF p
  <2>1. QED  BY <1>3, <1>4
<1>6. conn' = [conn EXCEPT ![n][l] = c2]
  <2>1. CASE c.inited
    <3>1. conn' = [conn EXCEPT ![n][l].seq = c.seq + 1, ![n][l].queue = Append(c.queue, p)]
      BY <1>1, <1>2, <2>1 DEF Send, Inv, TypeOK, Connection
    <3>2. q = Append(c.queue, p)  BY <2>1
    <3> HIDE DEF p, q
    <3>3. QED  BY <1>1, <1>2, <3>1, <3>2 DEF Inv, TypeOK
  <2>2. CASE ~c.inited
    <3>1. conn' = [conn EXCEPT ![n][l].seq = c.seq + 1]
      BY <1>1, <1>2, <2>2 DEF Send
    <3>2. c2 = [c EXCEPT !.seq = c.seq + 1]  BY <2>2 DEF Connection
    <3> HIDE DEF c2
    <3>3. QED  BY <1>2, <3>1, <3>2 DEF Inv, TypeOK
  <2>3. QED  BY <2>1, <2>2
<1>7. /\ c2 \in Connection
      /\ c2.queue = q /\ c2.inited = c.inited /\ c2.seq = c.seq + 1 /\ c2.wait = c.wait
      /\ c2.phase = c.phase /\ c2.ack = c.ack
      /\ c2.lost = c.lost /\ c2.abort = c.abort /\ c2.guid = c.guid
  <2> HIDE DEF q
  <2>1. c.seq + 1 \in Nat  BY <1>3
  <2>2. QED  BY <1>5, <2>1 DEF Connection, Number
<1> HIDE DEF c2, p
<1>8. LinkOK(c2, pipe[l][n], n, conn[Peer(n)][l], pipe[l][Peer(n)], Peer(n), torn)
  <2>1. LinkOK(c, pipe[l][n], n, conn[Peer(n)][l], pipe[l][Peer(n)], Peer(n), torn)
    BY <1>2, LinkAt DEF LinkInv
  <2>2. pipe[l][n] \in Seq(Message)  BY Typed DEF Inv
  <2>3. conn[Peer(n)][l].ack \in Nat  BY PeerFacts, Typed, Parts DEF Inv
  <2>4. QED  BY <1>3, <1>4, <1>7, <2>1, <2>2, <2>3, Sends
<1>9. PlaceInv(n, l)  BY DEF Inv, IInv
<1>10. /\ alive' \subseteq Link /\ notices' \in [Node -> SUBSET Link]
       /\ pipe' \in [Link -> [Node -> Seq(Message)]]
       /\ UNCHANGED <<map, links, received, rest, notices, pipe>>
  BY DEF Send, Inv, TypeOK
<1>11. /\ c2.lost \/ c2.abort \/ l \in notices'[n] => c2.phase = "closed"
       /\ map[n] = l => c2.guid /\ c2.phase \notin Opening
       /\ c2.guid /\ c2.phase \in Open /\ n \notin erased => map[n] = l
       /\ n = "client" /\ l > links => c2.phase = "none"
  BY <1>2, <1>7, <1>9, <1>10 DEF PlaceInv
<1>12. QED  BY <1>2, <1>6, <1>7, <1>8, <1>10, <1>11, QuietStep

\* A connection reads how far the peer has come.
LEMMA OnReadAckStep ==
  ASSUME Inv, NEW n \in Node, NEW l \in Link, OnReadAck(n, l)
  PROVE  Inv'
<1>1. PICK c \in Connection : c = conn[n][l]  BY Typed DEF Inv
<1>2. PICK P \in Seq(Message) : P = pipe[l][Peer(n)]  BY PeerFacts, Typed DEF Inv
<1>3. c.phase = "ack" /\ P # <<>> /\ IsAck(Head(P)) /\ Take(n, l)
  BY <1>1, <1>2 DEF OnReadAck, NextMessage, IsAck
<1>4. PICK a \in Nat : a = Head(P).ack
  <2>1. Head(P) \in Message  BY <1>3
  <2>2. QED  BY <1>3, <2>1, Kinds
<1>5. c.wait \in Seq(Packet) /\ c.queue \in Seq(Packet) /\ c.seq \in Nat  BY Parts
<1> DEFINE q == c.queue \o Unacknowledged(c.wait, a)
           c2 == IF a > 0 THEN [c EXCEPT !.phase = "up", !.queue = q, !.wait = <<>>]
                          ELSE [c EXCEPT !.phase = "up", !.inited = TRUE]
<1>6. q \in Seq(Packet) /\ <<>> \in Seq(Packet)
  <2>1. Unacknowledged(c.wait, a) \in Seq(Packet)  BY <1>5, UnacknowledgedFacts
  <2>2. QED  BY <1>5, <2>1
<1>7. conn' = [conn EXCEPT ![n][l] = c2]
  BY <1>1, <1>2, <1>4 DEF OnReadAck, Resend
<1>8. /\ c2 \in Connection
      /\ c2.phase = "up" /\ c2.ack = c.ack /\ c2.seq = c.seq
      /\ c2.lost = c.lost /\ c2.abort = c.abort /\ c2.guid = c.guid
      /\ IF a > 0 THEN c2.queue = q /\ c2.wait = <<>> /\ c2.inited = c.inited
                  ELSE c2.queue = c.queue /\ c2.wait = c.wait /\ c2.inited
  <2> HIDE DEF q
  <2>1. QED  BY <1>6 DEF Connection
<1>9. /\ pipe' \in [Link -> [Node -> Seq(Message)]]
      /\ pipe'[l][Peer(n)] = Tail(P) /\ pipe'[l][n] = pipe[l][n]
      /\ \A m \in Node, k \in Link : k # l => pipe'[k][m] = pipe[k][m]
  BY <1>2, <1>3, Takes DEF Inv
<1> HIDE DEF c2
<1>10. LinkOK(c2, pipe'[l][n], n, conn[Peer(n)][l], pipe'[l][Peer(n)], Peer(n), torn)
  <2>1. LinkOK(c, pipe[l][n], n, conn[Peer(n)][l], P, Peer(n), torn)
    BY <1>1, <1>2, LinkAt DEF LinkInv
  <2>2. pipe[l][n] \in Seq(Message)  BY Typed DEF Inv
  <2>3. IF a > 0 THEN /\ c2.queue = c.queue \o Unacknowledged(c.wait, a)
                      /\ c2.wait = <<>> /\ c2.inited = c.inited
                 ELSE c2.queue = c.queue /\ c2.wait = c.wait /\ c2.inited
    BY <1>8
  <2> HIDE DEF q
  <2>4. LinkOK(c2, pipe[l][n], n, conn[Peer(n)][l], Tail(P), Peer(n), torn)
    BY <1>3, <1>4, <1>5, <1>8, <2>1, <2>2, <2>3, Answers
  <2>5. QED  BY <1>9, <2>4
<1>11. PlaceInv(n, l)  BY DEF Inv, IInv
<1>12. /\ alive' \subseteq Link /\ notices' \in [Node -> SUBSET Link]
       /\ UNCHANGED <<map, links, received, rest, notices>>
  BY DEF OnReadAck, Inv, TypeOK
<1>13. /\ ~c2.lost /\ ~c2.abort /\ l \notin notices'[n] /\ ~(n = "client" /\ l > links)
       /\ map[n] = l => c2.guid /\ c2.phase \notin Opening
       /\ c2.guid /\ n \notin erased => map[n] = l
  BY <1>1, <1>3, <1>8, <1>11, <1>12 DEF PlaceInv, Opening, Open
<1>14. QED  BY <1>1, <1>7, <1>8, <1>9, <1>10, <1>12, <1>13, QuietStep

\* A connection decodes a packet: it is new, and its number comes after the last one.
LEMMA ReceiveStep ==
  ASSUME Inv, NEW n \in Node, NEW l \in Link, Receive(n, l)
  PROVE  Inv'
<1>1. PICK c \in Connection : c = conn[n][l]  BY Typed DEF Inv
<1>2. PICK P \in Seq(Message) : P = pipe[l][Peer(n)]  BY PeerFacts, Typed DEF Inv
<1>3. PICK s \in Seq(Nat) : s = received[n]  BY Typed DEF Inv
<1>4. c.phase = "up" /\ c.guid /\ P # <<>> /\ IsData(Head(P)) /\ Take(n, l)
  BY <1>1, <1>2 DEF Receive, NextMessage, IsData
<1>5. PICK p \in Packet : p = Head(P) /\ p.seq \in Nat /\ p.ack \in Nat
  <2>1. Head(P) \in Message  BY <1>4
  <2>2. QED  BY <1>4, <2>1, Kinds
<1>6. c.wait \in Seq(Packet) /\ c.queue \in Seq(Packet)  BY Parts
<1> DEFINE r == Release(c.wait, p.ack)
           c2 == [c EXCEPT !.ack = p.seq, !.wait = r]
<1>7. r \in Seq(Packet)  BY <1>5, <1>6, ReleaseFacts
<1>8. conn' = [conn EXCEPT ![n][l] = c2]
  <2>1. conn' = [conn EXCEPT ![n][l].ack = p.seq, ![n][l].wait = r]
    BY <1>1, <1>2, <1>5 DEF Receive, Inv, TypeOK, Connection
  <2> HIDE DEF r
  <2>2. QED  BY <1>1, <2>1 DEF Inv, TypeOK
<1>9. /\ c2 \in Connection
      /\ c2.phase = "up" /\ c2.ack = p.seq /\ c2.seq = c.seq /\ c2.wait = r
      /\ c2.queue = c.queue /\ c2.inited = c.inited
      /\ c2.lost = c.lost /\ c2.abort = c.abort /\ c2.guid = c.guid
  <2> HIDE DEF r
  <2>1. QED  BY <1>4, <1>5, <1>7 DEF Connection, Number
<1>10. received' = [received EXCEPT ![n] = Append(s, p.seq)]
  BY <1>2, <1>3, <1>5 DEF Receive
<1>11. UNCHANGED <<map, links, alive, notices, former, erased, torn, scale>>
  BY DEF Receive, rest
<1> HIDE DEF c2
<1>12. /\ conn' \in [Node -> [Link -> Connection]]
       /\ conn'[n][l] = c2
       /\ \A m \in Node, k \in Link : m # n \/ k # l => conn'[m][k] = conn[m][k]
  BY <1>8, <1>9, OneConn DEF Inv
<1>13. /\ pipe' \in [Link -> [Node -> Seq(Message)]]
       /\ pipe'[l][Peer(n)] = Tail(P) /\ pipe'[l][n] = pipe[l][n]
       /\ \A m \in Node, k \in Link : k # l => pipe'[k][m] = pipe[k][m]
  BY <1>2, <1>4, Takes DEF Inv
<1>14. TypeOK'
  <2>1. Append(s, p.seq) \in Seq(Nat)  BY <1>5
  <2>2. received' \in [Node -> Seq(Number)]  BY <1>10, <2>1 DEF Inv, TypeOK, Number
  <2>3. QED  BY <1>11, <1>12, <1>13, <2>2 DEF Inv, TypeOK
<1>15. /\ LinkInv(n, l)'
       /\ Peer(n) \notin torn => c.ack < p.seq
  <2> DEFINE d == conn[Peer(n)][l]
             Q == Tail(P)
  <2>1. LinkOK(c, pipe[l][n], n, d, P, Peer(n), torn)  BY <1>1, <1>2, LinkAt DEF LinkInv
  <2>2. Peer(n) \in Node /\ Peer(n) # n  BY PeerFacts
  <2>3. d.queue \in Seq(Packet)  BY <2>2, Typed, Parts DEF Inv
  <2>4. conn'[Peer(n)][l] = d  BY <1>12, <2>2
  <2> HIDE DEF d
  <2>5. c2.wait = Release(c.wait, Head(P).ack)  BY <1>5, <1>9
  <2>6. LinkOK(c2, pipe[l][n], n, d, Tail(P), Peer(n), torn)
        /\ (Peer(n) \notin torn => c.ack < p.seq)
    BY <1>4, <1>5, <1>6, <1>9, <2>1, <2>3, <2>5, Receives
  <2>7. QED  BY <1>11, <1>12, <1>13, <2>4, <2>6 DEF LinkInv
<1>16. \A k \in Link : LinkInv("client", k)'
  <2>1. \A m \in Node, k \in Link : k # l =>
          conn'[m][k] = conn[m][k] /\ pipe'[k][m] = pipe[k][m]
    BY <1>12, <1>13
  <2>2. QED  BY <1>11, <1>15, <2>1, OtherLinks, Zenon
<1>17. ASSUME NEW m \in Node, NEW k \in Link  PROVE PlaceInv(m, k)'
  <2>1. PlaceInv(m, k)  BY DEF Inv, IInv
  <2>2. CASE m = n /\ k = l  BY <1>1, <1>4, <1>9, <1>11, <1>12, <2>1, <2>2 DEF PlaceInv
  <2>3. CASE m # n \/ k # l  BY <1>11, <1>12, <2>1, <2>3 DEF PlaceInv
  <2>4. QED  BY <2>2, <2>3
<1>18. /\ received'[n] = Append(s, p.seq)
       /\ \A m \in Node : m # n => received'[m] = received[m]
  BY <1>10 DEF Inv, TypeOK
<1>19. ASSUME NEW m \in Node  PROVE ReceivedInv(m)'
  <2>1. ReceivedInv(m)  BY DEF Inv, IInv
  <2>2. CASE m # n
    <3>1. map[m] # 0 => map[m] \in Link  BY SessionBounds DEF Inv, TypeOK, Link
    <3>2. QED  BY <1>11, <1>12, <1>18, <2>1, <2>2, <3>1 DEF ReceivedInv
  <2>3. CASE m = n
    <3> DEFINE f == former[n]
               z == Append(s, p.seq)
    <3>1. f \in Nat /\ f <= Len(s)  BY <1>3, <2>1, <2>3, Typed DEF Inv, ReceivedInv
    <3>2. /\ Len(s) \in Nat /\ Len(z) = Len(s) + 1 /\ z[Len(s) + 1] = p.seq
          /\ \A i \in 1..Len(s) : z[i] = s[i]
      BY <1>5
    <3>3. ASSUME n \notin erased, Peer(n) \notin torn
          PROVE  /\ \A i \in (f + 1)..(Len(z) - 1) : z[i] < z[i + 1]
                 /\ map[n] = l
      <4>1. PlaceInv(n, l) /\ c.phase \in Open  BY <1>4 DEF Inv, IInv, Open
      <4>2. map[n] = l /\ l # 0  BY <1>1, <1>4, <3>3, <4>1 DEF PlaceInv, Link
      <4>3. /\ \A i \in (f + 1)..(Len(s) - 1) : s[i] < s[i + 1]
            /\ f < Len(s) => s[Len(s)] = c.ack
        BY <1>1, <1>3, <2>1, <2>3, <3>3, <4>2 DEF ReceivedInv
      <4>4. c.ack < p.seq  BY <1>15, <3>3
      <4> HIDE DEF f, z
      <4>5. ASSUME NEW i \in (f + 1)..(Len(z) - 1)  PROVE z[i] < z[i + 1]
        <5>1. CASE i = Len(s)
          <6>1. f < Len(s) /\ i \in 1..Len(s)  BY <3>1, <3>2, <5>1
          <6>2. z[i] = c.ack /\ z[i + 1] = p.seq  BY <3>2, <4>3, <5>1, <6>1
          <6>3. QED  BY <4>4, <6>2
        <5>2. CASE i # Len(s)
          <6>1. i \in (f + 1)..(Len(s) - 1) /\ i \in 1..Len(s) /\ i + 1 \in 1..Len(s)
            BY <3>1, <3>2, <5>2
          <6>2. QED  BY <3>2, <4>3, <6>1
        <5>3. QED  BY <5>1, <5>2
      <4>6. QED  BY <4>2, <4>5
    <3>4. received'[n] = z /\ former'[n] = f  BY <1>11, <1>18
    <3>5. l # 0 /\ (map[n] = l => conn'[n][map[n]].ack = p.seq)  BY <1>9, <1>12 DEF Link
    <3> HIDE DEF f, z
    <3>6. former'[n] <= Len(received'[n])  BY <3>1, <3>2, <3>4
    <3>7. received'[n][Len(received'[n])] = p.seq  BY <3>2, <3>4
    <3>8. QED  BY <1>11, <2>3, <3>3, <3>4, <3>5, <3>6, <3>7 DEF ReceivedInv
  <2>4. QED  BY <2>2, <2>3
<1>20. AckHonest'
  <2> SUFFICES ASSUME NEW m \in Node, NEW k \in Link, conn'[m][k].ack > 0
               PROVE  \E i \in DOMAIN received'[m] : received'[m][i] = conn'[m][k].ack
    BY DEF AckHonest
  <2>1. /\ Len(s) + 1 \in DOMAIN Append(s, p.seq) /\ Append(s, p.seq)[Len(s) + 1] = p.seq
        /\ \A i \in DOMAIN s : i \in DOMAIN Append(s, p.seq) /\ Append(s, p.seq)[i] = s[i]
    BY <1>5
  <2>2. CASE m = n /\ k = l  BY <1>9, <1>12, <1>18, <2>1, <2>2
  <2>3. CASE m # n \/ k # l
    <3>1. conn'[m][k] = conn[m][k]  BY <1>12, <2>3
    <3>2. PICK i \in DOMAIN received[m] : received[m][i] = conn[m][k].ack
      BY <3>1 DEF Inv, AckHonest
    <3>3. CASE m = n
      <4>1. i \in DOMAIN s /\ s[i] = conn[m][k].ack  BY <1>3, <3>2, <3>3
      <4>2. QED  BY <1>18, <2>1, <3>1, <3>3, <4>1
    <3>4. CASE m # n  BY <1>18, <3>1, <3>2, <3>4
    <3>5. QED  BY <3>3, <3>4
  <2>4. QED  BY <2>2, <2>3
<1>21. QED  BY <1>14, <1>16, <1>17, <1>19, <1>20 DEF Inv, IInv

\* A connection is closed to be reconnected: the client begins to open a new link.
LEMMA Reconnects ==
  ASSUME Inv, NEW n \in Node, NEW l \in Link, NEW aborts \in BOOLEAN,
         CloseAndReconnect(n, l, aborts), conn[n][l].phase # "none",
         pipe' \in [Link -> [Node -> Seq(Message)]],
         pipe'[l][Peer(n)] \in {pipe[l][Peer(n)], <<>>}, pipe'[l][n] = pipe[l][n],
         \A m \in Node, k \in Link : k # l => pipe'[k][m] = pipe[k][m],
         UNCHANGED <<map, alive, received, rest>>
  PROVE  Inv'
<1>1. PICK c \in Connection : c = conn[n][l]  BY Typed DEF Inv
<1>2. c.wait \in Seq(Packet) /\ c.queue \in Seq(Packet)  BY Parts
<1> DEFINE q == c.wait \o c.queue
           c2 == [Handed(c) EXCEPT !.phase = "closed", !.lost = TRUE, !.abort = aborts]
           next == links + 1
           new(k) == [conn[n][k] EXCEPT !.phase = "connecting"]
<1>3. /\ c2 \in Connection
      /\ c2.phase = "closed" /\ c2.ack = c.ack /\ c2.seq = c.seq /\ c2.wait = q
      /\ c2.queue = <<>> /\ c2.inited = c.inited /\ c2.guid = c.guid
  <2>1. q \in Seq(Packet) /\ <<>> \in Seq(Packet)  BY <1>2
  <2> HIDE DEF q
  <2>2. Handed(c) = [c EXCEPT !.queue = <<>>, !.wait = q]  BY DEF Handed, q, Connection
  <2>3. QED  BY <2>1, <2>2 DEF Connection
<1>4. UNCHANGED <<map, alive, received, former, erased, torn, scale, notices>>
  BY DEF CloseAndReconnect, rest
<1>5. links \in Nat /\ links \in Link /\ links' \in Link
      /\ links' = IF n = "client" THEN next ELSE links
  <2>1. scale.links \in Link /\ links \in Link
    BY SessionBounds DEF Inv, TypeOK, Scale
  <2>2. QED  BY <2>1, SessionBounds DEF CloseAndReconnect, Link
<1>6. conn' = [conn EXCEPT ![n] = [k \in Link |->
                IF k = l THEN c2
                ELSE IF n = "client" /\ k = next THEN new(k) ELSE conn[n][k]]]
  BY <1>1 DEF CloseAndReconnect
<1>7. \A k \in Link : /\ new(k) \in Connection
                      /\ new(k).phase = "connecting" /\ new(k).ack = conn[n][k].ack
                      /\ new(k).seq = conn[n][k].seq /\ new(k).wait = conn[n][k].wait
                      /\ new(k).queue = conn[n][k].queue
                      /\ new(k).inited = conn[n][k].inited
                      /\ new(k).guid = conn[n][k].guid
                      /\ new(k).lost = conn[n][k].lost /\ new(k).abort = conn[n][k].abort
  <2> TAKE k \in Link
  <2>1. PICK b \in Connection : b = conn[n][k]  BY Typed DEF Inv
  <2>2. [b EXCEPT !.phase = "connecting"] \in Connection  BY DEF Connection
  <2>3. QED  BY <2>1, <2>2 DEF Connection
<1> HIDE DEF c2, new
<1>8. /\ conn' \in [Node -> [Link -> Connection]]
      /\ conn'[n][l] = c2
      /\ \A k \in Link : k # l =>
           conn'[n][k] = IF n = "client" /\ k = next THEN new(k) ELSE conn[n][k]
      /\ \A m \in Node, k \in Link : m # n => conn'[m][k] = conn[m][k]
  BY <1>3, <1>6, <1>7 DEF Inv, TypeOK
<1>9. TypeOK'  BY <1>4, <1>5, <1>8 DEF Inv, TypeOK
<1>10. ASSUME NEW k \in Link, k # l, n = "client", k = next
       PROVE  /\ conn[n][k].phase = "none" /\ map[n] # k /\ ~conn[n][k].lost
              /\ ~conn[n][k].abort /\ k \notin notices[n]
  <2>1. PlaceInv(n, k)  BY DEF Inv, IInv
  <2>2. k > links  BY <1>5, <1>10
  <2>3. QED  BY <1>10, <2>1, <2>2 DEF PlaceInv, Opening
<1>11. ASSUME NEW k \in Link  PROVE LinkInv(n, k)'
  <2> DEFINE d == conn[Peer(n)][k]
             A == pipe[k][n]
             P == pipe[k][Peer(n)]
  <2>1. LinkOK(conn[n][k], A, n, d, P, Peer(n), torn)  BY LinkAt DEF LinkInv
  <2>2. Peer(n) \in Node /\ Peer(n) # n  BY PeerFacts
  <2>3. conn'[Peer(n)][k] = d /\ torn' = torn  BY <1>4, <1>8, <2>2
  <2>4. CASE k = l
    <3>1. pipe'[k][n] = A /\ pipe'[k][Peer(n)] \in {P, <<>>}  BY <2>4
    <3> HIDE DEF d, A, P, q
    <3>2. QueueOK(c) => QueueOK(c2)  BY <1>2, <1>3, HandedOK DEF q
    <3>3. LinkOK(c, A, n, d, P, Peer(n), torn)  BY <1>1, <2>1, <2>4
    <3>4. LinkOK(c2, A, n, d, pipe'[k][Peer(n)], Peer(n), torn)
      BY <1>3, <3>1, <3>2, <3>3, Fades
    <3>5. QED  BY <1>8, <2>3, <2>4, <3>1, <3>4 DEF LinkInv
  <2>5. CASE k # l /\ n = "client" /\ k = next
    <3>1. pipe'[k][n] = A /\ pipe'[k][Peer(n)] = P  BY <2>2, <2>5
    <3>2. conn[n][k].phase \in Opening /\ new(k).phase \in Opening
      BY <1>7, <1>10, <2>5 DEF Opening
    <3> HIDE DEF d, A, P
    <3>3. NoData(A) /\ NoAck(A)
      <4>1. conn[n][k].phase \notin {"up", "closed"}  BY <1>10, <2>5
      <4>2. QED  BY <2>1, <3>2, <4>1 DEF LinkOK, Side, Answered, Silent
    <3>4. LinkOK(new(k), A, n, d, P, Peer(n), torn)
      BY <1>7, <2>1, <3>2, <3>3, Opens
    <3>5. conn'[n][k] = new(k)  BY <1>8, <2>5
    <3>6. QED  BY <2>3, <3>1, <3>4, <3>5 DEF LinkInv
  <2>6. CASE k # l /\ ~(n = "client" /\ k = next)
    <3>1. pipe'[k][n] = A /\ pipe'[k][Peer(n)] = P  BY <2>2, <2>6
    <3>2. conn'[n][k] = conn[n][k]  BY <1>8, <2>6
    <3>3. QED  BY <2>1, <2>3, <3>1, <3>2 DEF LinkInv
  <2>7. QED  BY <2>4, <2>5, <2>6
<1>12. \A k \in Link : LinkInv("client", k)'
  <2> TAKE k \in Link
  <2>1. LinkInv(n, k)' /\ LinkInv(Peer(n), k)'
    BY <1>11, PeerFacts DEF LinkInv, LinkOK
  <2>2. "client" \in Node  BY DEF Node
  <2>3. QED  BY <2>1, <2>2, PeerFacts
<1>13. ASSUME NEW m \in Node, NEW k \in Link  PROVE PlaceInv(m, k)'
  <2>1. PlaceInv(m, k)  BY DEF Inv, IInv
  <2>2. CASE m = n /\ k = l
    <3>1. n = "client" => ~(l > links')
      <4>1. l > links => n # "client"  BY <2>1, <2>2 DEF PlaceInv
      <4>2. QED  BY <1>5, <4>1 DEF Link
    <3>2. QED  BY <1>1, <1>3, <1>4, <1>8, <2>1, <2>2, <3>1 DEF PlaceInv, Opening, Open
  <2>3. CASE m = n /\ k # l /\ n = "client" /\ k = next
    <3>1. ~(k > links')  BY <1>5, <2>3
    <3>2. conn'[m][k] = new(k)  BY <1>8, <2>3
    <3>3. map[n] # k /\ ~new(k).lost /\ ~new(k).abort /\ k \notin notices[n]
      BY <1>7, <1>10, <2>3
    <3>4. new(k).phase = "connecting"  BY <1>7
    <3>5. QED  BY <1>4, <2>3, <3>1, <3>2, <3>3, <3>4 DEF PlaceInv, Open
  <2>4. CASE (m = n /\ k # l /\ ~(n = "client" /\ k = next)) \/ m # n
    <3>1. conn'[m][k] = conn[m][k]  BY <1>8, <2>4
    <3>2. m = "client" /\ k > links' => k > links
      <4>1. links' = links \/ links' = links + 1  BY <1>5
      <4>2. QED  BY <1>5, <4>1 DEF Link
    <3>3. QED  BY <1>4, <2>1, <3>1, <3>2 DEF PlaceInv
  <2>5. QED  BY <2>2, <2>3, <2>4
<1>14. \A m \in Node, k \in Link : conn'[m][k].ack = conn[m][k].ack
  <2> TAKE m \in Node, k \in Link
  <2>1. CASE m = n /\ k = l  BY <1>1, <1>3, <1>8, <2>1
  <2>2. CASE m = n /\ k # l /\ n = "client" /\ k = next
    <3>1. conn'[m][k] = new(k)  BY <1>8, <2>2
    <3>2. QED  BY <1>7, <2>2, <3>1
  <2>3. CASE (m = n /\ k # l /\ ~(n = "client" /\ k = next)) \/ m # n
    <3>1. conn'[m][k] = conn[m][k]  BY <1>8, <2>3
    <3>2. QED  BY <3>1
  <2>4. QED  BY <2>1, <2>2, <2>3
<1>15. ASSUME NEW m \in Node  PROVE ReceivedInv(m)'
  <2>1. ReceivedInv(m)  BY DEF Inv, IInv
  <2>2. map[m] # 0 => map[m] \in Link  BY SessionBounds DEF Inv, TypeOK, Link
  <2>3. QED  BY <1>4, <1>14, <2>1, <2>2 DEF ReceivedInv
<1>16. AckHonest'
  <2> SUFFICES ASSUME NEW m \in Node, NEW k \in Link, conn'[m][k].ack > 0
               PROVE  \E i \in DOMAIN received'[m] : received'[m][i] = conn'[m][k].ack
    BY DEF AckHonest
  <2>1. conn'[m][k].ack = conn[m][k].ack  BY <1>14
  <2>2. \E i \in DOMAIN received[m] : received[m][i] = conn[m][k].ack
    BY <2>1 DEF Inv, AckHonest
  <2>3. QED  BY <1>4, <2>1, <2>2
<1>17. QED  BY <1>9, <1>12, <1>13, <1>15, <1>16 DEF Inv, IInv

\* What has under way on a link is kept when nothing is read of it.
LEMMA PipeStays ==
  ASSUME Inv, pipe' = pipe
  PROVE  pipe' \in [Link -> [Node -> Seq(Message)]]
BY DEF Inv, TypeOK

\* A connection that is closed and has no handler is empty, or is what it was.
LEMMA FreedFacts ==
  ASSUME NEW c \in Connection
  PROVE  LET e == Freed(c)
         IN  /\ e \in Connection /\ e.phase = c.phase
             /\ QueueOK(c) => QueueOK(e)
             /\ \/ e = c
                \/ /\ e.phase = "closed" /\ e.queue = <<>> /\ e.ack = 0
                   /\ ~e.inited /\ ~e.lost /\ ~e.abort /\ ~e.guid
<1> DEFINE b == [NewConnection EXCEPT !.phase = "closed"]
<1>1. b \in Connection /\ QueueOK(b)  BY Fresh
<1>2. /\ b.phase = "closed" /\ b.queue = <<>> /\ b.ack = 0
      /\ ~b.inited /\ ~b.lost /\ ~b.abort /\ ~b.guid
  BY DEF NewConnection
<1>3. Freed(c) = IF c.phase = "closed" /\ ~c.abort THEN b ELSE c  BY DEF Freed
<1> HIDE DEF b
<1>4. CASE c.phase = "closed" /\ ~c.abort  BY <1>1, <1>2, <1>3, <1>4
<1>5. CASE ~(c.phase = "closed" /\ ~c.abort)  BY <1>3, <1>5
<1>6. QED  BY <1>4, <1>5

\* A write fails.
LEMMA WriteFailsStep ==
  ASSUME Inv, NEW n \in Node, NEW l \in Link, WriteFails(n, l)
  PROVE  Inv'
<1>1. CloseAndReconnect(n, l, TRUE) /\ GiveUp(n, l) /\ conn[n][l].phase = "up"
  BY DEF WriteFails
<1>2. /\ pipe' \in [Link -> [Node -> Seq(Message)]]
      /\ pipe'[l][Peer(n)] = <<>> /\ pipe'[l][n] = pipe[l][n]
      /\ \A m \in Node, k \in Link : k # l => pipe'[k][m] = pipe[k][m]
  BY <1>1, Takes DEF Inv
<1>3. UNCHANGED <<map, alive, received, rest>>  BY DEF WriteFails
<1>4. QED  BY <1>1, <1>2, <1>3, Reconnects

\* The handshake fails: the connection is closed, or is to be reconnected.
LEMMA HandshakeFailsStep ==
  ASSUME Inv, NEW n \in Node, NEW l \in Link, HandshakeFails(n, l)
  PROVE  Inv'
<1>1. GiveUp(n, l) /\ UNCHANGED <<map, alive, received, rest>>  BY DEF HandshakeFails
<1>2. /\ pipe' \in [Link -> [Node -> Seq(Message)]]
      /\ pipe'[l][Peer(n)] = <<>> /\ pipe'[l][n] = pipe[l][n]
      /\ \A m \in Node, k \in Link : k # l => pipe'[k][m] = pipe[k][m]
  BY <1>1, Takes DEF Inv
<1>3. CASE /\ conn[n][l].phase \in {"guid", "ack"}
           /\ conn' = [conn EXCEPT ![n][l].phase = "closed"]
           /\ UNCHANGED <<links, notices>>
  <2>1. PICK c \in Connection : c = conn[n][l]  BY Typed DEF Inv
  <2> DEFINE c2 == [c EXCEPT !.phase = "closed"]
  <2>2. /\ c2 \in Connection
        /\ c2.queue = c.queue /\ c2.inited = c.inited /\ c2.seq = c.seq /\ c2.wait = c.wait
        /\ c2.phase = "closed" /\ c2.ack = c.ack /\ c2.guid = c.guid
    BY DEF Connection
  <2>3. conn' = [conn EXCEPT ![n][l] = c2]  BY <1>3, <2>1 DEF Inv, TypeOK
  <2> HIDE DEF c2
  <2>4. LinkOK(c2, pipe'[l][n], n, conn[Peer(n)][l], pipe'[l][Peer(n)], Peer(n), torn)
    <3>1. LinkOK(c, pipe[l][n], n, conn[Peer(n)][l], pipe[l][Peer(n)], Peer(n), torn)
      BY <2>1, LinkAt DEF LinkInv
    <3>2. QueueOK(c) => QueueOK(c2)  BY <2>2 DEF QueueOK
    <3>3. QED  BY <1>2, <2>2, <3>1, <3>2, Fades
  <2>5. PlaceInv(n, l)  BY DEF Inv, IInv
  <2>6. /\ map[n] = l => c2.guid /\ c2.phase \notin Opening
        /\ c2.phase \notin Open /\ ~(n = "client" /\ l > links)
    BY <1>3, <2>1, <2>2, <2>5 DEF PlaceInv, Opening, Open
  <2>7. alive' \subseteq Link /\ notices' \in [Node -> SUBSET Link]
    BY <1>1, <1>3 DEF Inv, TypeOK
  <2>8. UNCHANGED <<map, links, received, rest, notices>>  BY <1>1, <1>3
  <2>9. QED  BY <1>2, <2>1, <2>2, <2>3, <2>4, <2>6, <2>7, <2>8, QuietStep
<1>4. CASE conn[n][l].phase = "ack" /\ CloseAndReconnect(n, l, FALSE)
  BY <1>1, <1>2, <1>4, Reconnects
<1>5. QED  BY <1>3, <1>4 DEF HandshakeFails

\* A read fails: the connection is destroyed, or is to be reconnected.
LEMMA LostStep ==
  ASSUME Inv, NEW n \in Node, NEW l \in Link, Lost(n, l)
  PROVE  Inv'
<1>1. /\ GiveUp(n, l) /\ conn[n][l].phase = "up"
      /\ UNCHANGED <<map, alive, received, rest>>
  BY DEF Lost
<1>2. /\ pipe' \in [Link -> [Node -> Seq(Message)]]
      /\ pipe'[l][Peer(n)] = <<>> /\ pipe'[l][n] = pipe[l][n]
      /\ \A m \in Node, k \in Link : k # l => pipe'[k][m] = pipe[k][m]
  BY <1>1, Takes DEF Inv
<1>3. PICK c \in Connection : c = conn[n][l]  BY Typed DEF Inv
<1>4. c.wait \in Seq(Packet) /\ c.queue \in Seq(Packet)  BY Parts
<1>5. LinkOK(c, pipe[l][n], n, conn[Peer(n)][l], pipe[l][Peer(n)], Peer(n), torn)
  BY <1>3, LinkAt DEF LinkInv
<1>6. PlaceInv(n, l)  BY DEF Inv, IInv
<1>7. ~(n = "client" /\ l > links)  BY <1>1, <1>6 DEF PlaceInv
<1>8. CASE /\ ~conn[n][l].guid
           /\ conn' = [conn EXCEPT ![n][l] = Freed([@ EXCEPT !.phase = "closed"])]
           /\ UNCHANGED <<links, notices>>
  <2> DEFINE b == [c EXCEPT !.phase = "closed"]
             c2 == Freed(b)
  <2>1. /\ b \in Connection /\ b.phase = "closed"
        /\ b.queue = c.queue /\ b.inited = c.inited /\ b.seq = c.seq /\ b.wait = c.wait
        /\ b.ack = c.ack /\ b.guid = c.guid
    BY DEF Connection
  <2>2. conn' = [conn EXCEPT ![n][l] = c2]  BY <1>3, <1>8
  <2> HIDE DEF b
  <2>3. /\ c2 \in Connection /\ c2.phase = "closed"
        /\ QueueOK(b) => QueueOK(c2)
        /\ \/ c2 = b
           \/ c2.queue = <<>> /\ c2.ack = 0 /\ ~c2.inited /\ ~c2.guid
    BY <2>1, FreedFacts
  <2> HIDE DEF c2
  <2>4. LinkOK(c2, pipe'[l][n], n, conn[Peer(n)][l], pipe'[l][Peer(n)], Peer(n), torn)
    <3>1. QueueOK(c) => QueueOK(c2)  BY <2>1, <2>3 DEF QueueOK
    <3>2. /\ c2.phase = "closed" /\ c2.queue \in {c.queue, <<>>}
          /\ ~c2.inited \/ (c2.inited = c.inited /\ c2.seq = c.seq)
      BY <2>1, <2>3
    <3>3. QED  BY <1>2, <1>5, <3>1, <3>2, Fades
  <2>5. ~c.guid  BY <1>3, <1>8
  <2>6. map[n] # l  BY <1>3, <1>6, <2>5 DEF PlaceInv
  <2>7. c2.ack = conn[n][l].ack \/ c2.ack = 0  BY <1>3, <2>1, <2>3
  <2>8. c2.phase \notin Open  BY <2>3 DEF Open
  <2>9. alive' \subseteq Link /\ notices' \in [Node -> SUBSET Link]
    BY <1>1, <1>8 DEF Inv, TypeOK
  <2>10. UNCHANGED <<map, links, received, rest, notices>>  BY <1>1, <1>8
  <2>11. QED  BY <1>2, <1>7, <2>2, <2>3, <2>4, <2>6, <2>7, <2>8, <2>9, <2>10, QuietStep
<1>9. CASE CloseAndReconnect(n, l, FALSE)
  BY <1>1, <1>2, <1>9, Reconnects
<1>10. CASE /\ conn' = [conn EXCEPT ![n][l] = [Handed(@) EXCEPT !.phase = "closed"]]
            /\ notices' = [notices EXCEPT ![n] = @ \cup {l}]
            /\ UNCHANGED links
  <2> DEFINE q == c.wait \o c.queue
             c2 == [Handed(c) EXCEPT !.phase = "closed"]
  <2>1. /\ c2 \in Connection
        /\ c2.phase = "closed" /\ c2.ack = c.ack /\ c2.seq = c.seq /\ c2.wait = q
        /\ c2.queue = <<>> /\ c2.inited = c.inited /\ c2.guid = c.guid
    <3>1. q \in Seq(Packet) /\ <<>> \in Seq(Packet)  BY <1>4
    <3> HIDE DEF q
    <3>2. Handed(c) = [c EXCEPT !.queue = <<>>, !.wait = q]  BY DEF Handed, q, Connection
    <3>3. QED  BY <3>1, <3>2 DEF Connection
  <2>2. conn' = [conn EXCEPT ![n][l] = c2]  BY <1>3, <1>10
  <2>3. QueueOK(c) => QueueOK(c2)  BY <1>4, <2>1, HandedOK
  <2> HIDE DEF c2, q
  <2>4. LinkOK(c2, pipe'[l][n], n, conn[Peer(n)][l], pipe'[l][Peer(n)], Peer(n), torn)
    BY <1>2, <1>5, <2>1, <2>3, Fades
  <2>5. /\ map[n] = l => c2.guid /\ c2.phase \notin Opening
        /\ c2.phase \notin Open
    BY <1>3, <1>6, <2>1 DEF PlaceInv, Opening, Open
  <2>6. /\ alive' \subseteq Link /\ notices' \in [Node -> SUBSET Link]
        /\ \A m \in Node, k \in Link : m # n \/ k # l => (k \in notices'[m] => k \in notices[m])
    BY <1>1, <1>10 DEF Inv, TypeOK
  <2>7. UNCHANGED <<map, links, received, rest>>  BY <1>1, <1>10
  <2>8. QED  BY <1>2, <1>3, <1>7, <2>1, <2>2, <2>4, <2>5, <2>6, <2>7, QuietStep
<1>11. QED  BY <1>8, <1>9, <1>10 DEF Lost

\* The read that close_core aborted comes back.
LEMMA AbortedReadStep ==
  ASSUME Inv, NEW n \in Node, NEW l \in Link, AbortedRead(n, l)
  PROVE  Inv'
<1>1. conn[n][l].abort /\ UNCHANGED <<map, alive, pipe, received, rest>>
  BY DEF AbortedRead
<1>2. pipe' \in [Link -> [Node -> Seq(Message)]]  BY <1>1, PipeStays
<1>3. PlaceInv(n, l)  BY DEF Inv, IInv
<1>4. PICK c \in Connection : c = conn[n][l]  BY Typed DEF Inv
<1>5. c.phase = "closed"  BY <1>1, <1>3, <1>4 DEF PlaceInv
<1>6. CASE CloseAndReconnect(n, l, FALSE)
  <2>1. conn[n][l].phase # "none"  BY <1>4, <1>5
  <2>2. QED  BY <1>1, <1>2, <1>6, <2>1, Reconnects
<1>7. CASE /\ conn' = [conn EXCEPT ![n][l] =
                IF map[n] = l THEN [@ EXCEPT !.abort = FALSE]
                              ELSE Freed([@ EXCEPT !.abort = FALSE])]
           /\ UNCHANGED <<links, notices>>
  <2> DEFINE b == [c EXCEPT !.abort = FALSE]
             c2 == IF map[n] = l THEN b ELSE Freed(b)
  <2>1. /\ b \in Connection /\ b.phase = "closed" /\ ~b.abort
        /\ b.queue = c.queue /\ b.inited = c.inited /\ b.seq = c.seq /\ b.wait = c.wait
        /\ b.ack = c.ack /\ b.guid = c.guid /\ b.lost = c.lost
    BY <1>5 DEF Connection
  <2>2. conn' = [conn EXCEPT ![n][l] = c2]  BY <1>4, <1>7
  <2> HIDE DEF b
  <2>3. /\ c2 \in Connection /\ c2.phase = "closed"
        /\ QueueOK(b) => QueueOK(c2)
        /\ \/ c2 = b
           \/ map[n] # l /\ c2.queue = <<>> /\ c2.ack = 0 /\ ~c2.inited
    BY <2>1, FreedFacts
  <2> HIDE DEF c2
  <2>4. LinkOK(c2, pipe'[l][n], n, conn[Peer(n)][l], pipe'[l][Peer(n)], Peer(n), torn)
    <3>1. QueueOK(c) => QueueOK(c2)  BY <2>1, <2>3 DEF QueueOK
    <3>2. /\ c2.phase = "closed" /\ c2.queue \in {c.queue, <<>>}
          /\ ~c2.inited \/ (c2.inited = c.inited /\ c2.seq = c.seq)
      BY <2>1, <2>3
    <3>3. LinkOK(c, pipe[l][n], n, conn[Peer(n)][l], pipe[l][Peer(n)], Peer(n), torn)
      BY <1>4, LinkAt DEF LinkInv
    <3>4. QED  BY <1>1, <3>1, <3>2, <3>3, Fades
  <2>5. /\ map[n] = l => c2.guid /\ c2.phase \notin Opening
        /\ c2.phase \notin Open /\ ~(n = "client" /\ l > links)
    BY <1>3, <1>4, <1>5, <2>1, <2>3 DEF PlaceInv, Opening, Open
  <2>6. c2.ack = conn[n][l].ack \/ (c2.ack = 0 /\ map[n] # l)  BY <1>4, <2>1, <2>3
  <2>7. alive' \subseteq Link /\ notices' \in [Node -> SUBSET Link]
    BY <1>1, <1>7 DEF Inv, TypeOK
  <2>8. UNCHANGED <<map, links, received, rest, notices>>  BY <1>1, <1>7
  <2>9. QED  BY <1>1, <1>2, <2>2, <2>3, <2>4, <2>5, <2>6, <2>7, <2>8, QuietStep
<1>8. QED  BY <1>6, <1>7 DEF AbortedRead

\* What becomes of a connection that another one replaces.
LEMMA ReplacedFacts ==
  ASSUME NEW c \in Connection
  PROVE  LET e == Replaced(c)
         IN  /\ e \in Connection /\ e.phase = c.phase /\ ~e.guid
             /\ (e.lost => c.lost) /\ (e.abort => c.abort)
             /\ e.ack = c.ack \/ e.ack = 0
             /\ QueueOK(c) => QueueOK(e)
             /\ \/ /\ e.phase = c.phase /\ e.queue = c.queue
                   /\ e.inited = c.inited /\ e.seq = c.seq /\ e.ack = c.ack
                \/ /\ e.phase = "closed" /\ e.queue \in {c.queue, <<>>}
                   /\ ~e.inited \/ (e.inited = c.inited /\ e.seq = c.seq)
<1> DEFINE b == [c EXCEPT !.guid = FALSE, !.wait = <<>>]
           e == Freed(b)
<1>1. /\ b \in Connection /\ b.phase = c.phase /\ ~b.guid /\ b.lost = c.lost
      /\ b.abort = c.abort /\ b.ack = c.ack /\ b.queue = c.queue /\ b.inited = c.inited
      /\ b.seq = c.seq /\ b.wait = <<>>
  <2>1. <<>> \in Seq(Packet)  OBVIOUS
  <2>2. QED  BY <2>1 DEF Connection
<1>2. Replaced(c) = e  BY DEF Replaced
<1>3. QueueOK(c) => QueueOK(b)  BY <1>1, EmptyFacts DEF QueueOK
<1> HIDE DEF b
<1>4. /\ e \in Connection /\ e.phase = b.phase
      /\ QueueOK(b) => QueueOK(e)
      /\ \/ e = b
         \/ /\ e.phase = "closed" /\ e.queue = <<>> /\ e.ack = 0
            /\ ~e.inited /\ ~e.lost /\ ~e.abort /\ ~e.guid
  BY <1>1, FreedFacts
<1> HIDE DEF e
<1>5. QED  BY <1>1, <1>2, <1>3, <1>4

\* Less is said of a link when more numbers were torn.
LEMMA TornMore ==
  ASSUME NEW c, NEW d, NEW A, NEW P, NEW n, NEW m, NEW T, NEW U, T \subseteq U,
         LinkOK(c, A, n, d, P, m, T)
  PROVE  LinkOK(c, A, n, d, P, m, U)
BY DEF LinkOK, Side

\* The old connection is forgotten, and what was decoded before does not count.
LEMMA DisconnectedStep ==
  ASSUME Inv, NEW n \in Node, Disconnected(n)
  PROVE  Inv'
<1>1. PICK l \in notices[n] :
        /\ notices' = [notices EXCEPT ![n] = @ \ {l}]
        /\ map' = [map EXCEPT ![n] = 0]
        /\ erased' = IF map[n] \in {0, l} THEN erased ELSE erased \cup {n}
        /\ conn' = IF map[n] = 0 THEN conn ELSE [conn EXCEPT ![n][map[n]] = Freed(@)]
        /\ former' = [former EXCEPT ![n] = Len(received[n])]
        /\ UNCHANGED <<links, alive, pipe, received, torn, scale>>
  BY DEF Disconnected
<1>2. l \in Link /\ (map[n] # 0 => map[n] \in Link) /\ map[n] \in 0..MaxLinks
  BY SessionBounds DEF Inv, TypeOK, Link
<1>3. UNCHANGED <<links, alive, pipe, received, torn, scale>>  BY <1>1
<1>4. /\ conn' \in [Node -> [Link -> Connection]]
      /\ \A m \in Node, k \in Link :
           /\ m # n \/ k # map[n] => conn'[m][k] = conn[m][k]
           /\ m = n /\ k = map[n] => conn'[m][k] = Freed(conn[m][k])
  <2>1. CASE map[n] = 0
    <3>1. conn' = conn /\ \A k \in Link : k # 0  BY <1>1, <2>1 DEF Link
    <3>2. QED  BY <2>1, <3>1 DEF Inv, TypeOK
  <2>2. CASE map[n] # 0
    <3>1. PICK k \in Link : k = map[n]  BY <1>2, <2>2
    <3>2. PICK e \in Connection : e = Freed(conn[n][k])  BY Typed, FreedFacts DEF Inv
    <3>3. conn' = [conn EXCEPT ![n][k] = e]  BY <1>1, <2>2, <3>1, <3>2
    <3>4. TypeOK  BY DEF Inv
    <3>5. conn' \in [Node -> [Link -> Connection]]  BY <3>3, <3>4, OneConn
    <3>6. conn'[n][k] = e  BY <3>3, <3>4, OneConn
    <3>7. \A m \in Node, j \in Link : m # n \/ j # k => conn'[m][j] = conn[m][j]
      BY <3>3, <3>4, OneConn
    <3>8. QED  BY <3>1, <3>2, <3>5, <3>6, <3>7
  <2>3. QED  BY <2>1, <2>2
<1>5. /\ map' \in [Node -> 0..MaxLinks] /\ map'[n] = 0
      /\ \A m \in Node : m # n => map'[m] = map[m]
  <2>1. map \in [Node -> 0..MaxLinks] /\ 0 \in 0..MaxLinks  BY SessionBounds DEF Inv, TypeOK
  <2>2. map' = [map EXCEPT ![n] = 0]  BY <1>1
  <2>3. QED  BY <2>1, <2>2
<1>6. /\ notices' \in [Node -> SUBSET Link]
      /\ \A m \in Node, k \in Link : k \in notices'[m] => k \in notices[m]
  BY <1>1 DEF Inv, TypeOK
<1>7. /\ former' \in [Node -> Nat] /\ former'[n] = Len(received[n])
      /\ \A m \in Node : m # n => former'[m] = former[m]
  <2>1. Len(received[n]) \in Nat  BY Typed DEF Inv
  <2>2. QED  BY <1>1, <2>1 DEF Inv, TypeOK
<1>8. erased \subseteq erased' /\ erased' \subseteq Node
      /\ (n \notin erased' => n \notin erased /\ map[n] \in {0, l})
  BY <1>1 DEF Inv, TypeOK
<1>9. TypeOK'  BY <1>3, <1>4, <1>5, <1>6, <1>7, <1>8 DEF Inv, TypeOK
<1>10. ASSUME NEW k \in Link  PROVE LinkInv(n, k)'
  <2> DEFINE d == conn[Peer(n)][k]
             A == pipe[k][n]
             P == pipe[k][Peer(n)]
  <2>1. PICK c \in Connection : c = conn[n][k]  BY Typed DEF Inv
  <2>2. LinkOK(c, A, n, d, P, Peer(n), torn)  BY <2>1, LinkAt DEF LinkInv
  <2>3. conn'[Peer(n)][k] = d  BY <1>4, PeerFacts
  <2> DEFINE e == Freed(c)
  <2>4. /\ QueueOK(c) => QueueOK(e)
        /\ \/ e = c
           \/ e.phase = "closed" /\ e.queue = <<>> /\ ~e.inited
    BY FreedFacts
  <2>5. conn'[n][k] = c \/ conn'[n][k] = e  BY <1>4, <2>1
  <2> HIDE DEF d, A, P, e
  <2>6. LinkOK(e, A, n, d, P, Peer(n), torn)
    <3>1. CASE e = c  BY <2>2, <3>1
    <3>2. CASE e.phase = "closed" /\ e.queue = <<>> /\ ~e.inited
      BY <2>2, <2>4, <3>2, Fades
    <3>3. QED  BY <2>4, <3>1, <3>2
  <2>7. LinkOK(conn'[n][k], A, n, d, P, Peer(n), torn)  BY <2>2, <2>5, <2>6
  <2>8. QED  BY <1>3, <2>3, <2>7 DEF LinkInv, d, A, P
<1>11. \A k \in Link : LinkInv("client", k)'
  <2> TAKE k \in Link
  <2>1. LinkInv(n, k)' /\ LinkInv(Peer(n), k)'
    BY <1>10, PeerFacts DEF LinkInv, LinkOK
  <2>2. "client" \in Node  BY DEF Node
  <2>3. QED  BY <2>1, <2>2, PeerFacts
<1>12. ASSUME NEW m \in Node, NEW k \in Link  PROVE PlaceInv(m, k)'
  <2>1. PlaceInv(m, k)  BY DEF Inv, IInv
  <2>2. CASE m # n
    <3>1. conn'[m][k] = conn[m][k] /\ map'[m] = map[m]  BY <1>4, <1>5, <2>2
    <3>2. QED  BY <1>3, <1>6, <1>8, <2>1, <3>1 DEF PlaceInv
  <2>3. CASE m = n
    <3>1. PICK c \in Connection : c = conn[n][k]  BY Typed DEF Inv
    <3>2. PICK e \in Connection : e = conn'[n][k]  BY <1>4
    <3>3. /\ e.phase = c.phase
          /\ e.lost => c.lost
          /\ e.abort => c.abort
          /\ e.guid => c.guid
      <4>1. e = c \/ e = Freed(c)  BY <1>4, <3>1, <3>2
      <4>2. QED  BY <4>1, FreedFacts
    <3>4. k # 0 /\ map'[n] # k  BY <1>5 DEF Link
    <3>5. ~(c.guid /\ c.phase \in Open /\ n \notin erased')
      <4> SUFFICES ASSUME c.guid, c.phase \in Open, n \notin erased'  PROVE FALSE
        OBVIOUS
      <4>1. map[n] = k  BY <1>8, <2>1, <2>3, <3>1 DEF PlaceInv
      <4>2. k = l  BY <1>8, <3>4, <4>1
      <4>3. c.phase = "closed"  BY <2>1, <2>3, <3>1, <4>2 DEF PlaceInv
      <4>4. QED  BY <4>3 DEF Open
    <3>6. QED  BY <1>3, <1>6, <2>1, <2>3, <3>1, <3>2, <3>3, <3>4, <3>5 DEF PlaceInv
  <2>4. QED  BY <2>2, <2>3
<1>13. ASSUME NEW m \in Node  PROVE ReceivedInv(m)'
  <2>1. ReceivedInv(m)  BY DEF Inv, IInv
  <2>2. CASE m # n
    <3>1. map[m] # 0 => map[m] \in Link  BY SessionBounds DEF Inv, TypeOK, Link
    <3>2. former'[m] = former[m] /\ map'[m] = map[m] /\ received' = received
          /\ (map[m] # 0 => conn'[m][map[m]] = conn[m][map[m]])
          /\ torn' = torn /\ (m \notin erased' => m \notin erased)
      BY <1>3, <1>4, <1>5, <1>7, <1>8, <2>2, <3>1
    <3>3. QED  BY <2>1, <3>2 DEF ReceivedInv
  <2>3. CASE m = n
    <3>1. Len(received[n]) \in Nat /\ received' = received /\ former'[m] = Len(received[n])
      BY <1>3, <1>7, <2>3, Typed DEF Inv
    <3>2. QED  BY <2>3, <3>1 DEF ReceivedInv
  <2>4. QED  BY <2>2, <2>3
<1>14. AckHonest'
  <2> SUFFICES ASSUME NEW m \in Node, NEW k \in Link, conn'[m][k].ack > 0
               PROVE  \E i \in DOMAIN received'[m] : received'[m][i] = conn'[m][k].ack
    BY DEF AckHonest
  <2>1. PICK c \in Connection : c = conn[m][k]  BY Typed DEF Inv
  <2>2. conn'[m][k] = c \/ conn'[m][k] = Freed(c)  BY <1>4, <2>1
  <2>3. conn'[m][k].ack = conn[m][k].ack  BY <2>1, <2>2, FreedFacts
  <2>4. \E i \in DOMAIN received[m] : received[m][i] = conn[m][k].ack
    BY <2>3 DEF Inv, AckHonest
  <2>5. QED  BY <1>3, <2>3, <2>4
<1>15. QED  BY <1>9, <1>11, <1>12, <1>13, <1>14 DEF Inv, IInv

\* The message that carries the number of what was decoded.
LEMMA AckMessage ==
  ASSUME NEW a \in Nat
  PROVE  <<[kind |-> "ack", ack |-> a]>> \in Seq(Message)
<1>1. [kind |-> "ack", ack |-> a] \in Message  BY DEF Message, Number
<1>2. QED  BY <1>1

\* A connection reads the peer's guid, is put into the map, and replaces the one that
\* was there.
LEMMA OnReadGuidStep ==
  ASSUME Inv, NEW n \in Node, NEW l \in Link, OnReadGuid(n, l)
  PROVE  Inv'
<1>1. PICK c \in Connection : c = conn[n][l]  BY Typed DEF Inv
<1>2. PICK P \in Seq(Message) : P = pipe[l][Peer(n)]  BY PeerFacts, Typed DEF Inv
<1>3. PICK A \in Seq(Message) : A = pipe[l][n]  BY Typed DEF Inv
<1>4. PICK prev \in 0..MaxLinks : prev = map[n] /\ (prev # 0 => prev \in Link)
  BY SessionBounds DEF Inv, TypeOK, Link
<1> DEFINE new == [c EXCEPT !.phase = "ack", !.guid = TRUE]
           read == [pipe EXCEPT ![l][Peer(n)] = Tail(P)]
           say(a) == <<[kind |-> "ack", ack |-> a]>>
<1>5. c.phase = "guid" /\ P # <<>>
  BY <1>1, <1>2 DEF OnReadGuid, NextMessage
<1>6. map' = [map EXCEPT ![n] = l] /\ alive' = alive \ {prev}
      /\ UNCHANGED <<links, received, erased, scale>>
  BY <1>4 DEF OnReadGuid
<1>7. \/ /\ prev = 0
         /\ conn' = [conn EXCEPT ![n][l] = new]
         /\ Transmit(n, l, say(new.ack), read)
         /\ UNCHANGED <<notices, former, torn>>
      \/ /\ prev # 0
         /\ \E seq \in NumbersAfter(n, conn[n][prev]) :
              /\ conn' = [conn EXCEPT
                   ![n][l] = TakeOver(new, [conn[n][prev] EXCEPT !.seq = seq]),
                   ![n][prev] = Replaced(@)]
              /\ torn' = IF seq < conn[n][prev].seq THEN torn \cup {n} ELSE torn
         /\ \E told \in SUBSET notices[n] :
              /\ notices' = [notices EXCEPT ![n] = @ \ told]
              /\ former' = IF told = {} THEN former
                           ELSE [former EXCEPT ![n] = Len(received[n])]
         /\ Transmit(n, l, say(TakeOver(new, conn[n][prev]).ack),
                     [read EXCEPT ![prev][Peer(n)] = <<>>])
  BY <1>1, <1>2, <1>4 DEF OnReadGuid
<1>8. PlaceInv(n, l)  BY DEF Inv, IInv
<1>9. /\ prev # l /\ ~c.lost /\ ~c.abort /\ l \notin notices[n]
      /\ ~(n = "client" /\ l > links)
  BY <1>1, <1>4, <1>5, <1>8 DEF PlaceInv, Opening
<1>10. LinkOK(c, A, n, conn[Peer(n)][l], P, Peer(n), torn)
  BY <1>1, <1>2, <1>3, LinkAt DEF LinkInv
<1>11. c.queue = <<>> /\ ~c.inited
  <2>1. c.phase \notin {"up", "closed"}  BY <1>5
  <2>2. QED  BY <1>10, <2>1 DEF LinkOK, Side, Silent
<1>12. Peer(n) \in Node /\ Peer(n) # n  BY PeerFacts
<1>13. /\ read \in [Link -> [Node -> Seq(Message)]]
       /\ read[l][n] = A /\ read[l][Peer(n)] = Tail(P)
       /\ \A m \in Node, k \in Link : k # l => read[k][m] = pipe[k][m]
  <2>1. Tail(P) \in Seq(Message)  BY <1>5
  <2>2. pipe \in [Link -> [Node -> Seq(Message)]]  BY DEF Inv, TypeOK
  <2>3. QED  BY <1>3, <1>12, <2>1, <2>2
<1>14. /\ new \in Connection /\ new.phase = "ack" /\ new.guid
       /\ new.queue = c.queue /\ new.inited = c.inited /\ new.seq = c.seq
       /\ new.wait = c.wait /\ new.ack = c.ack /\ new.lost = c.lost /\ new.abort = c.abort
  BY DEF Connection
<1> HIDE DEF new, read
\* What the step makes of the connection: c2 is the new one.
<1>15. PICK c2 \in Connection :
         /\ c2.phase = "ack" /\ c2.guid /\ c2.queue = c.queue /\ c2.inited = c.inited
         /\ ~c2.lost /\ ~c2.abort
         /\ c2.ack = IF prev = 0 THEN c.ack ELSE conn[n][prev].ack
         /\ n \notin torn' => QueueOK(c2)
         /\ conn' \in [Node -> [Link -> Connection]]
         /\ conn'[n][l] = c2
         /\ \A m \in Node, k \in Link :
              /\ m # n => conn'[m][k] = conn[m][k]
              /\ k # l /\ k # prev => conn'[m][k] = conn[m][k]
         /\ prev # 0 => conn'[n][prev] = Replaced(conn[n][prev])
         /\ torn \subseteq torn' /\ torn' \subseteq torn \cup {n}
         /\ pipe' \in [Link -> [Node -> Seq(Message)]]
         /\ pipe'[l][n] = A \/ pipe'[l][n] = A \o say(c2.ack)
         /\ pipe'[l][Peer(n)] = Tail(P)
         /\ \A k \in Link : k # l =>
              /\ pipe'[k][n] = pipe[k][n]
              /\ pipe'[k][Peer(n)] \in {pipe[k][Peer(n)], <<>>}
         /\ notices' \in [Node -> SUBSET Link]
         /\ \A m \in Node, k \in Link : k \in notices'[m] => k \in notices[m]
         /\ former' \in [Node -> Nat]
         /\ \A m \in Node : m # n => former'[m] = former[m]
         /\ former'[n] = former[n] \/ (prev # 0 /\ former'[n] = Len(received[n]))
  <2>1. CASE /\ prev = 0
             /\ conn' = [conn EXCEPT ![n][l] = new]
             /\ Transmit(n, l, say(new.ack), read)
             /\ UNCHANGED <<notices, former, torn>>
    <3>1. PICK s \in Seq(Message) : s = say(new.ack)
      <4>1. new.ack \in Nat  BY <1>14, Parts
      <4>2. QED  BY <4>1, AckMessage
    <3>2. Transmit(n, l, s, read) /\ TypeOK  BY <2>1, <3>1 DEF Inv
    <3>3. pipe' \in [Link -> [Node -> Seq(Message)]]  BY <1>13, <3>2, Transmits
    <3>4. pipe'[l][n] = read[l][n] \/ pipe'[l][n] = read[l][n] \o s
      <4>1. read \in [Link -> [Node -> Seq(Message)]]  BY <1>13
      <4>2. QED  BY <3>2, <4>1, Transmits, Zenon
    <3>5. \A m \in Node, k \in Link : m # n \/ k # l => pipe'[k][m] = read[k][m]
      <4>1. read \in [Link -> [Node -> Seq(Message)]]  BY <1>13
      <4>2. QED  BY <3>2, <4>1 DEF Transmit
    <3>6. /\ pipe'[l][Peer(n)] = Tail(P)
          /\ pipe'[l][n] = A \/ pipe'[l][n] = A \o s
          /\ \A k \in Link : k # l => /\ pipe'[k][n] = pipe[k][n]
                                      /\ pipe'[k][Peer(n)] = pipe[k][Peer(n)]
      BY <1>12, <1>13, <3>4, <3>5
    <3>7. conn' = [conn EXCEPT ![n][l] = new]  BY <2>1
    <3>8. /\ conn' \in [Node -> [Link -> Connection]] /\ conn'[n][l] = new
          /\ \A m \in Node, k \in Link : m # n \/ k # l => conn'[m][k] = conn[m][k]
      <4>1. new \in Connection  BY <1>14
      <4>2. conn \in [Node -> [Link -> Connection]]  BY <3>2 DEF TypeOK
      <4>3. conn' \in [Node -> [Link -> Connection]]  BY <3>7, <4>1, <4>2
      <4>4. conn'[n][l] = new  BY <3>7, <4>2
      <4>5. \A m \in Node, k \in Link : m # n \/ k # l => conn'[m][k] = conn[m][k]
        BY <3>7, <4>2
      <4>6. QED  BY <4>3, <4>4, <4>5
    <3>9. UNCHANGED <<notices, former, torn>> /\ prev = 0  BY <2>1
    <3>10. /\ notices \in [Node -> SUBSET Link] /\ former \in [Node -> Nat]
      BY DEF Inv, TypeOK
    <3>11. n \notin torn => QueueOK(new)
      <4>1. n \notin torn => QueueOK(c)  BY <1>10 DEF LinkOK, Side
      <4>2. QED  BY <1>14, <4>1 DEF QueueOK
    <3> HIDE DEF say
    <3>12. QED  BY <1>9, <1>14, <3>1, <3>3, <3>6, <3>8, <3>9, <3>10, <3>11
  <2>2. CASE /\ prev # 0
             /\ \E seq \in NumbersAfter(n, conn[n][prev]) :
                  /\ conn' = [conn EXCEPT
                       ![n][l] = TakeOver(new, [conn[n][prev] EXCEPT !.seq = seq]),
                       ![n][prev] = Replaced(@)]
                  /\ torn' = IF seq < conn[n][prev].seq THEN torn \cup {n} ELSE torn
             /\ \E told \in SUBSET notices[n] :
                  /\ notices' = [notices EXCEPT ![n] = @ \ told]
                  /\ former' = IF told = {} THEN former
                               ELSE [former EXCEPT ![n] = Len(received[n])]
             /\ Transmit(n, l, say(TakeOver(new, conn[n][prev]).ack),
                         [read EXCEPT ![prev][Peer(n)] = <<>>])
    <3>1. prev \in Link /\ prev # 0  BY <1>4, <2>2
    <3>2. PICK old \in Connection : old = conn[n][prev]  BY <3>1, Typed DEF Inv
    <3>3. /\ old.seq \in Nat /\ old.ack \in Nat
          /\ old.wait \in Seq(Packet) /\ old.queue \in Seq(Packet)
      BY Parts
    <3>4. PICK seq \in NumbersAfter(n, old) :
            /\ conn' = [conn EXCEPT ![n][l] = TakeOver(new, [old EXCEPT !.seq = seq]),
                                    ![n][prev] = Replaced(@)]
            /\ torn' = IF seq < old.seq THEN torn \cup {n} ELSE torn
      BY <2>2, <3>2
    <3>5. seq \in Nat  BY <3>3, <3>4 DEF NumbersAfter
    <3> DEFINE c2 == [new EXCEPT !.seq = seq, !.ack = old.ack, !.wait = old.wait]
               e == Replaced(old)
               gone == [read EXCEPT ![prev][Peer(n)] = <<>>]
    <3>6. TakeOver(new, [old EXCEPT !.seq = seq]) = c2
      BY DEF TakeOver, Connection
    <3>7. TakeOver(new, old).ack = old.ack  BY <1>14 DEF TakeOver, Connection
    <3>8. /\ c2 \in Connection /\ c2.phase = "ack" /\ c2.guid
          /\ c2.queue = c.queue /\ c2.inited = c.inited /\ c2.seq = seq
          /\ c2.wait = old.wait /\ c2.ack = old.ack /\ c2.lost = c.lost
          /\ c2.abort = c.abort
      BY <1>14, <3>3, <3>5 DEF Connection, Number
    <3>9. e \in Connection  BY ReplacedFacts
    <3> HIDE DEF c2, e
    <3>10. /\ conn' \in [Node -> [Link -> Connection]]
           /\ conn'[n][l] = c2 /\ conn'[n][prev] = e
           /\ \A m \in Node, k \in Link :
                /\ m # n => conn'[m][k] = conn[m][k]
                /\ k # l /\ k # prev => conn'[m][k] = conn[m][k]
      <4>1. conn' = [conn EXCEPT ![n][l] = c2, ![n][prev] = Replaced(@)]
        BY <3>4, <3>6
      <4>2. conn \in [Node -> [Link -> Connection]]  BY DEF Inv, TypeOK
      <4>3. conn' = [conn EXCEPT ![n][l] = c2, ![n][prev] = e]
        BY <1>9, <3>1, <3>2, <4>1, <4>2 DEF e
      <4>4. QED  BY <1>9, <3>1, <3>8, <3>9, <4>2, <4>3
    <3>11. torn \subseteq torn' /\ torn' \subseteq torn \cup {n}
           /\ (n \notin torn' => n \notin torn /\ old.seq <= seq)
      <4>1. CASE seq < old.seq  BY <3>4, <4>1
      <4>2. CASE ~(seq < old.seq)
        <5>1. old.seq <= seq  BY <3>3, <3>5, <4>2
        <5>2. QED  BY <3>4, <4>2, <5>1
      <4>3. QED  BY <4>1, <4>2
    <3>12. n \notin torn' => QueueOK(c2)
      <4> SUFFICES ASSUME n \notin torn'  PROVE QueueOK(c2)
        OBVIOUS
      <4>1. LinkInv(n, prev)  BY <3>1, LinkAt
      <4>2. QueueOK(old)  BY <3>2, <3>11, <4>1 DEF LinkInv, LinkOK, Side
      <4>3. old.wait \in Seq(Message)  BY <3>3, Packets
      <4>4. \A i \in DOMAIN old.wait :
              IsData(old.wait[i]) => old.wait[i].seq <= old.seq /\ old.wait[i].seq \in Nat
        BY <4>2, <4>3, Numbers DEF QueueOK, AtMost
      <4>5. AtMost(old.wait, seq)
        <5> SUFFICES ASSUME NEW i \in DOMAIN old.wait, IsData(old.wait[i])
                     PROVE  old.wait[i].seq <= seq
          BY DEF AtMost
        <5>1. PICK x \in Nat : x = old.wait[i].seq /\ x <= old.seq  BY <4>4
        <5>2. x <= seq  BY <3>3, <3>5, <3>11, <5>1
        <5>3. QED  BY <5>1, <5>2
      <4>6. c2.queue = <<>>  BY <1>11, <3>8
      <4>7. Ordered(old.wait)  BY <4>2 DEF QueueOK
      <4>8. QED  BY <3>8, <4>5, <4>6, <4>7, EmptyFacts DEF QueueOK
    <3>13. /\ gone \in [Link -> [Node -> Seq(Message)]]
           /\ gone[l][n] = A /\ gone[l][Peer(n)] = Tail(P)
           /\ \A k \in Link : k # l =>
                /\ gone[k][n] = pipe[k][n]
                /\ gone[k][Peer(n)] \in {pipe[k][Peer(n)], <<>>}
      <4>1. <<>> \in Seq(Message)  OBVIOUS
      <4>2. \A m \in Node, k \in Link :
              gone[k][m] = IF k = prev /\ m = Peer(n) THEN <<>> ELSE read[k][m]
        BY <1>12, <1>13, <3>1, <4>1
      <4>3. gone \in [Link -> [Node -> Seq(Message)]]  BY <1>12, <1>13, <3>1, <4>1
      <4> HIDE DEF gone
      <4>4. QED  BY <1>9, <1>12, <1>13, <4>2, <4>3
    <3>14. PICK s \in Seq(Message) : s = say(c2.ack)
      <4>1. c2.ack \in Nat  BY <3>3, <3>8
      <4>2. QED  BY <4>1, AckMessage
    <3>15. Transmit(n, l, s, gone) /\ TypeOK
      <4>1. c2.ack = TakeOver(new, conn[n][prev]).ack  BY <3>2, <3>7, <3>8
      <4>2. Transmit(n, l, say(c2.ack), gone)  BY <2>2, <4>1
      <4>3. QED  BY <3>14, <4>2 DEF Inv
    <3> HIDE DEF gone, say
    <3>16. pipe' \in [Link -> [Node -> Seq(Message)]]  BY <3>13, <3>15, Transmits
    <3>17. pipe'[l][n] = gone[l][n] \/ pipe'[l][n] = gone[l][n] \o s
      <4>1. gone \in [Link -> [Node -> Seq(Message)]]  BY <3>13
      <4>2. QED  BY <3>15, <4>1, Transmits, Zenon
    <3>18. \A m \in Node, k \in Link : m # n \/ k # l => pipe'[k][m] = gone[k][m]
      <4>1. gone \in [Link -> [Node -> Seq(Message)]]  BY <3>13
      <4>2. QED  BY <3>15, <4>1 DEF Transmit
    <3>19. /\ pipe'[l][Peer(n)] = Tail(P)
           /\ pipe'[l][n] = A \/ pipe'[l][n] = A \o s
           /\ \A k \in Link : k # l =>
                /\ pipe'[k][n] = pipe[k][n]
                /\ pipe'[k][Peer(n)] \in {pipe[k][Peer(n)], <<>>}
      BY <1>12, <3>13, <3>17, <3>18
    <3>20. PICK told \in SUBSET notices[n] :
             /\ notices' = [notices EXCEPT ![n] = @ \ told]
             /\ former' = IF told = {} THEN former
                          ELSE [former EXCEPT ![n] = Len(received[n])]
      BY <2>2
    <3>21. /\ notices' \in [Node -> SUBSET Link]
           /\ \A m \in Node, k \in Link : k \in notices'[m] => k \in notices[m]
      BY <3>20 DEF Inv, TypeOK
    <3>22. /\ former' \in [Node -> Nat]
           /\ \A m \in Node : m # n => former'[m] = former[m]
           /\ former'[n] = former[n] \/ former'[n] = Len(received[n])
      <4>1. Len(received[n]) \in Nat  BY Typed DEF Inv
      <4>2. QED  BY <3>20, <4>1 DEF Inv, TypeOK
    <3>23. conn'[n][prev] = Replaced(conn[n][prev])  BY <3>2, <3>10 DEF e
    <3>24. c2.ack = (IF prev = 0 THEN c.ack ELSE conn[n][prev].ack) /\ ~c2.lost /\ ~c2.abort
      BY <1>9, <3>1, <3>2, <3>8
    <3>25. QED
      BY <3>1, <3>8, <3>10, <3>11, <3>12, <3>14, <3>16, <3>19, <3>21, <3>22, <3>23, <3>24
  <2>3. QED  BY <1>7, <2>1, <2>2
<1>16. /\ map' \in [Node -> 0..MaxLinks] /\ map'[n] = l
       /\ \A m \in Node : m # n => map'[m] = map[m]
  <2>1. l \in 0..MaxLinks  BY SessionBounds DEF Link
  <2>2. map \in [Node -> 0..MaxLinks] /\ map' = [map EXCEPT ![n] = l]
    BY <1>6 DEF Inv, TypeOK
  <2>3. QED  BY <2>1, <2>2
<1>17. TypeOK'
  <2>1. alive' \subseteq Link /\ torn' \subseteq Node  BY <1>6, <1>15 DEF Inv, TypeOK
  <2>2. QED  BY <1>6, <1>15, <1>16, <2>1 DEF Inv, TypeOK
<1>18. \A k \in Link : k # l /\ k = prev => conn'[n][k] = Replaced(conn[n][k])
  <2>1. \A k \in Link : k # 0  BY DEF Link
  <2>2. QED  BY <1>15, <2>1
<1>19. ASSUME NEW k \in Link  PROVE LinkInv(n, k)'
  <2> DEFINE d == conn[Peer(n)][k]
             B == pipe[k][n]
             Q == pipe[k][Peer(n)]
  <2>1. conn'[Peer(n)][k] = d  BY <1>12, <1>15
  <2>2. CASE k = l
    <3>1. c2.ack \in Nat  BY Parts
    <3>2. LinkOK(c, A, n, d, P, Peer(n), torn)  BY <1>10, <2>2
    <3> HIDE DEF d
    <3>3. LinkOK(c2, pipe'[l][n], n, d, Tail(P), Peer(n), torn')
      BY <1>5, <1>15, <3>1, <3>2, Greets
    <3>4. QED  BY <1>15, <2>1, <2>2, <3>3 DEF LinkInv
  <2>3. CASE k # l
    <3>1. PICK b \in Connection : b = conn[n][k]  BY Typed DEF Inv
    <3>2. PICK b2 : b2 = conn'[n][k]  OBVIOUS
    <3>3. LinkOK(b, B, n, d, Q, Peer(n), torn)  BY <3>1, LinkAt DEF LinkInv
    <3>4. pipe'[k][n] = B /\ pipe'[k][Peer(n)] \in {Q, <<>>}  BY <1>15, <2>3
    <3>5. b2 = b \/ b2 = Replaced(b)  BY <1>15, <1>18, <2>3, <3>1, <3>2
    <3>6. /\ QueueOK(b) => QueueOK(b2)
          /\ \/ /\ b2.phase = b.phase /\ b2.queue = b.queue
                /\ b2.inited = b.inited /\ b2.seq = b.seq /\ b2.ack = b.ack
             \/ /\ b2.phase = "closed" /\ b2.queue \in {b.queue, <<>>}
                /\ ~b2.inited \/ (b2.inited = b.inited /\ b2.seq = b.seq)
      <4>1. CASE b2 = b  BY <4>1
      <4>2. CASE b2 = Replaced(b)  BY <4>2, ReplacedFacts
      <4>3. QED  BY <3>5, <4>1, <4>2
    <3> HIDE DEF d, B, Q
    <3>7. LinkOK(b2, B, n, d, pipe'[k][Peer(n)], Peer(n), torn)
      BY <3>3, <3>4, <3>6, Fades
    <3>8. LinkOK(b2, B, n, d, pipe'[k][Peer(n)], Peer(n), torn')
      BY <1>15, <3>7, TornMore
    <3>9. QED  BY <2>1, <3>2, <3>4, <3>8 DEF LinkInv
  <2>4. QED  BY <2>2, <2>3
<1>20. \A k \in Link : LinkInv("client", k)'
  <2> TAKE k \in Link
  <2>1. LinkInv(n, k)' /\ LinkInv(Peer(n), k)'
    BY <1>19, PeerFacts DEF LinkInv, LinkOK
  <2>2. "client" \in Node  BY DEF Node
  <2>3. QED  BY <2>1, <2>2, PeerFacts
<1>21. ASSUME NEW m \in Node, NEW k \in Link  PROVE PlaceInv(m, k)'
  <2>1. PlaceInv(m, k)  BY DEF Inv, IInv
  <2>2. erased' = erased /\ links' = links  BY <1>6
  <2>3. CASE m # n
    <3>1. /\ conn'[m][k] = conn[m][k] /\ map'[m] = map[m]
          /\ k \in notices'[m] => k \in notices[m]
      BY <1>15, <1>16, <2>3
    <3>2. QED  BY <2>1, <2>2, <3>1 DEF PlaceInv
  <2>4. CASE m = n /\ k = l
    <3>1. l \notin notices'[n]  BY <1>9, <1>15
    <3>2. c2.phase \notin Opening  BY <1>15 DEF Opening
    <3>3. QED  BY <1>9, <1>15, <1>16, <2>2, <2>4, <3>1, <3>2 DEF PlaceInv
  <2>5. CASE m = n /\ k # l
    <3>1. PICK b \in Connection : b = conn[n][k]  BY Typed DEF Inv
    <3>2. PICK b2 : b2 = conn'[n][k]  OBVIOUS
    <3>3. \/ b2 = b /\ k # prev
          \/ b2 = Replaced(b)
      BY <1>15, <1>18, <2>5, <3>1, <3>2
    <3>4. /\ b2.phase = b.phase
          /\ b2.lost => b.lost
          /\ b2.abort => b.abort
          /\ b2.guid => b.guid /\ k # prev
      <4>1. CASE b2 = b /\ k # prev  BY <4>1
      <4>2. CASE b2 = Replaced(b)  BY <4>2, ReplacedFacts
      <4>3. QED  BY <3>3, <4>1, <4>2
    <3>5. map[n] # k => ~(b.guid /\ b.phase \in Open /\ n \notin erased)
      BY <2>1, <2>5, <3>1 DEF PlaceInv
    <3>6. map[n] = k => ~b2.guid  BY <1>4, <3>4
    <3>7. map'[n] # k /\ (k \in notices'[n] => k \in notices[n])  BY <1>15, <1>16, <2>5
    <3>8. QED  BY <2>1, <2>2, <2>5, <3>1, <3>2, <3>4, <3>5, <3>6, <3>7 DEF PlaceInv
  <2>6. QED  BY <2>3, <2>4, <2>5
<1>22. ASSUME NEW m \in Node  PROVE ReceivedInv(m)'
  <2>1. ReceivedInv(m)  BY DEF Inv, IInv
  <2>2. received' = received /\ erased' = erased /\ torn \subseteq torn'  BY <1>6, <1>15
  <2>3. CASE m # n
    <3>1. map[m] # 0 => map[m] \in Link  BY SessionBounds DEF Inv, TypeOK, Link
    <3>2. former'[m] = former[m] /\ map'[m] = map[m]
          /\ (map[m] # 0 => conn'[m][map[m]] = conn[m][map[m]])
      BY <1>15, <1>16, <2>3, <3>1
    <3>3. QED  BY <2>1, <2>2, <3>2 DEF ReceivedInv
  <2>4. CASE m = n
    <3> DEFINE s == received[n]
               f == former[n]
               f2 == former'[n]
    <3>1. f \in Nat /\ f2 \in Nat /\ Len(s) \in Nat  BY <1>15, Typed DEF Inv
    <3>2. f <= Len(s)  BY <2>1, <2>4 DEF ReceivedInv
    <3>3. f2 = f \/ f2 = Len(s)  BY <1>15
    <3>4. ASSUME n \notin erased, Peer(n) \notin torn'
          PROVE  /\ \A i \in (f2 + 1)..(Len(s) - 1) : s[i] < s[i + 1]
                 /\ f2 < Len(s) => s[Len(s)] = c2.ack
      <4>1. /\ \A i \in (f + 1)..(Len(s) - 1) : s[i] < s[i + 1]
            /\ f < Len(s) => map[n] # 0 /\ s[Len(s)] = conn[n][map[n]].ack
        BY <2>1, <2>2, <2>4, <3>4 DEF ReceivedInv
      <4>2. f2 < Len(s) => prev # 0 /\ c2.ack = conn[n][map[n]].ack /\ f < Len(s)
        BY <1>4, <1>15, <3>1, <3>3, <4>1
      <4> HIDE DEF s, f, f2
      <4>3. \A i \in (f2 + 1)..(Len(s) - 1) : i \in (f + 1)..(Len(s) - 1)
        BY <3>1, <3>2, <3>3
      <4>4. QED  BY <4>1, <4>2, <4>3
    <3>5. map'[n] # 0 /\ conn'[n][map'[n]].ack = c2.ack  BY <1>15, <1>16 DEF Link
    <3>6. f2 <= Len(s)  BY <3>1, <3>2, <3>3
    <3>7. QED  BY <2>2, <2>4, <3>4, <3>5, <3>6 DEF ReceivedInv
  <2>5. QED  BY <2>3, <2>4
<1>23. AckHonest'
  <2> SUFFICES ASSUME NEW m \in Node, NEW k \in Link, conn'[m][k].ack > 0
               PROVE  \E i \in DOMAIN received'[m] : received'[m][i] = conn'[m][k].ack
    BY DEF AckHonest
  <2>1. \E j \in Link : conn'[m][k].ack = conn[m][j].ack
    <3>1. CASE m = n /\ k = l
      <4>1. prev # 0 => prev \in Link  BY <1>4
      <4>2. QED  BY <1>1, <1>15, <3>1, <4>1
    <3>2. CASE m = n /\ k # l
      <4>1. PICK b \in Connection : b = conn[n][k]  BY Typed DEF Inv
      <4>2. conn'[n][k] = b \/ conn'[n][k] = Replaced(b)  BY <1>15, <1>18, <3>2, <4>1
      <4>3. conn'[n][k].ack = b.ack  BY <3>2, <4>2, ReplacedFacts
      <4>4. QED  BY <3>2, <4>1, <4>3
    <3>3. CASE m # n
      <4>1. conn'[m][k] = conn[m][k]  BY <1>15, <3>3
      <4>2. QED  BY <4>1
    <3>4. QED  BY <3>1, <3>2, <3>3
  <2>2. PICK j \in Link : conn'[m][k].ack = conn[m][j].ack  BY <2>1
  <2>3. \E i \in DOMAIN received[m] : received[m][i] = conn[m][j].ack
    BY <2>2 DEF Inv, AckHonest
  <2>4. QED  BY <1>6, <2>2, <2>3
<1>24. QED  BY <1>17, <1>20, <1>21, <1>22, <1>23 DEF Inv, IInv

-----------------------------------------------------------------------------
(* The theorems.                                                              *)

\* Every step keeps the invariant.
LEMMA NextInv ==
  ASSUME Inv, [Next]_vars
  PROVE  Inv'
<1>1. CASE UNCHANGED vars
  <2>1. UNCHANGED <<conn, map, links, alive, pipe, notices, received,
                    former, erased, torn, scale>>
    BY <1>1 DEF vars, rest
  <2>2. TypeOK'  BY <2>1 DEF Inv, TypeOK
  <2>3. \A l \in Link : LinkInv("client", l)'  BY <2>1 DEF Inv, IInv, LinkInv
  <2>4. \A n \in Node, l \in Link : PlaceInv(n, l)'  BY <2>1 DEF Inv, IInv, PlaceInv
  <2>5. \A n \in Node : ReceivedInv(n)'  BY <2>1 DEF Inv, IInv, ReceivedInv
  <2>6. AckHonest'  BY <2>1 DEF Inv, AckHonest
  <2>7. QED  BY <2>2, <2>3, <2>4, <2>5, <2>6 DEF Inv, IInv
<1>2. ASSUME NEW l \in Link,
             ConnectSucceeds(l) \/ ConnectFails(l) \/ Accepted(l) \/ Break(l)
      PROVE  Inv'
  BY <1>2, ConnectSucceedsStep, ConnectFailsStep, AcceptedStep, BreakStep
<1>3. ASSUME NEW n \in Node, NEW l \in Link,
             \/ OnReadGuid(n, l) \/ OnReadAck(n, l) \/ Flush(n, l) \/ Receive(n, l)
             \/ Lost(n, l) \/ WriteFails(n, l) \/ AbortedRead(n, l) \/ HandshakeFails(n, l)
      PROVE  Inv'
  BY <1>3, OnReadGuidStep, OnReadAckStep, FlushStep, ReceiveStep, LostStep,
     WriteFailsStep, AbortedReadStep, HandshakeFailsStep
<1>4. ASSUME NEW n \in Node, Send(n) \/ Disconnected(n)  PROVE Inv'
  BY <1>4, SendStep, DisconnectedStep
<1>5. ASSUME Heartbeat  PROVE Inv'
  BY <1>5, HeartbeatStep
<1>6. QED  BY <1>1, <1>2, <1>3, <1>4, <1>5 DEF Next

\* The invariant holds of every state.
LEMMA InvAlways == Spec => []Inv
BY InitInv, NextInv, PTL DEF Spec

\* Every variable has its type, however many links and packets there are.
THEOREM TypeCorrect == Spec => []TypeOK
<1>1. Inv => TypeOK  BY DEF Inv
<1>2. QED  BY <1>1, InvAlways, PTL

\* A node acknowledges only what it decoded: the number that a handshake and every
\* packet carry (sendHandShake, CNetService::Send) is that of a packet that was
\* received, also when it was taken over from the connection of a former link.
THEOREM AcksAreHonest == Spec => []AckHonest
<1>1. Inv => AckHonest  BY DEF Inv
<1>2. QED  BY <1>1, InvAlways, PTL

\* The packets that wait for an acknowledgement, with those that are still to be handed
\* over, are in the order of their numbers on every connection whose numbers were not
\* written over, so that ProcessAck may stop at the first that is too new.
THEOREM WaitingInOrder == Spec => []WaitOrdered
<1>1. ASSUME Inv  PROVE WaitOrdered
  <2> SUFFICES ASSUME NEW n \in Node \ torn, NEW l \in Link
               PROVE  LET s == conn[n][l].wait \o conn[n][l].queue
                      IN  Increasing([i \in DOMAIN s |-> s[i].seq])
    BY DEF WaitOrdered
  <2>1. PICK c \in Connection : c = conn[n][l]  BY <1>1, Typed DEF Inv
  <2>2. c.wait \in Seq(Packet) /\ c.queue \in Seq(Packet)  BY Parts
  <2>3. c.wait \in Seq(Message) /\ c.queue \in Seq(Message)  BY <2>2, Packets
  <2>4. QueueOK(c)
    <3>1. LinkInv(n, l)  BY <1>1, LinkAt
    <3>2. QED  BY <2>1, <3>1 DEF LinkInv, LinkOK, Side
  <2> DEFINE s == c.wait \o c.queue
             z == [i \in DOMAIN s |-> s[i].seq]
  <2>5. Ordered(s)  BY <2>3, <2>4, ConcatOrdered DEF QueueOK
  <2>6. s \in Seq(Packet)  BY <2>2
  <2>7. \A i \in DOMAIN s : IsData(s[i])  BY <2>6, Packets
  <2> HIDE DEF s
  <2>8. Len(s) \in Nat /\ DOMAIN s = 1..Len(s)  BY <2>6
  <2>9. Len(z) = Len(s) /\ \A i \in 1..Len(s) : z[i] = s[i].seq  BY <2>8
  <2> HIDE DEF z
  <2>10. ASSUME NEW i \in 1..(Len(z) - 1)  PROVE z[i] < z[i + 1]
    <3>1. i \in DOMAIN s /\ i + 1 \in DOMAIN s /\ i < i + 1  BY <2>8, <2>9
    <3>2. s[i].seq < s[i + 1].seq  BY <2>5, <2>7, <3>1 DEF Ordered
    <3>3. QED  BY <2>8, <2>9, <3>1, <3>2
  <2>11. Increasing(z)  BY <2>10 DEF Increasing
  <2>12. QED  BY <2>1, <2>11 DEF z, s
<1>2. QED  BY <1>1, InvAlways, PTL

\* However often the link is lost and packets are sent again, a node decodes the packets
\* of its peer in the order of their numbers and none of them twice, until its
\* application is told that the peer is gone: the number that OnReadAckSequenceNumber
\* compares with is the last that was decoded, on this link or on one before it.
THEOREM DecodedInOrderOnce == Spec => []InOrderOnce
<1>1. ASSUME Inv  PROVE InOrderOnce
  <2> SUFFICES ASSUME NEW n \in Node, n \notin erased, Peer(n) \notin torn
               PROVE  Increasing(SubSeq(received[n], former[n] + 1, Len(received[n])))
    BY DEF InOrderOnce
  <2>1. PICK s \in Seq(Nat) : s = received[n]  BY <1>1 DEF Inv, TypeOK, Number
  <2>2. PICK f \in Nat : f = former[n]  BY <1>1 DEF Inv, TypeOK
  <2> DEFINE z == SubSeq(s, f + 1, Len(s))
  <2>3. f <= Len(s) /\ \A i \in (f + 1)..(Len(s) - 1) : s[i] < s[i + 1]
    <3>1. ReceivedInv(n)  BY <1>1 DEF Inv, IInv
    <3>2. QED  BY <2>1, <2>2, <3>1 DEF ReceivedInv
  <2>4. Len(z) = Len(s) - f /\ Len(s) \in Nat /\ \A i \in 1..Len(z) : z[i] = s[i + f]
    BY <2>3
  <2> HIDE DEF z
  <2>5. ASSUME NEW i \in 1..(Len(z) - 1)  PROVE z[i] < z[i + 1]
    <3>1. i + f \in (f + 1)..(Len(s) - 1) /\ i \in 1..Len(z) /\ i + 1 \in 1..Len(z)
      BY <2>3, <2>4
    <3>2. s[i + f] < s[i + f + 1]  BY <2>3, <3>1
    <3>3. z[i] = s[i + f] /\ z[i + 1] = s[i + f + 1]
      <4>1. (i + 1) + f = i + f + 1  BY <3>1
      <4>2. QED  BY <2>4, <3>1, <4>1
    <3>4. QED  BY <3>2, <3>3
  <2>6. QED  BY <2>1, <2>2, <2>5 DEF Increasing, z
<1>2. QED  BY <1>1, InvAlways, PTL

=============================================================================
