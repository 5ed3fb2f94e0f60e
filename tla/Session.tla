------------------------------- MODULE Session -------------------------------
(***************************************************************************)
(* A session between a client and a server of contrib/scgl that outlives   *)
(* its TCP links: the handshake of CTcpHandler (guid, then the last packet  *)
(* received), CNetService::InsertConnection, which hands the state of the   *)
(* old connection to the new one, the acknowledgement of packets, and the   *)
(* loss of a link and the reconnection by the client.                       *)
(*                                                                          *)
(* Every link has a CConnection on either side.  The interleaving inside a  *)
(* connection's write and close paths is TcpConnection's subject: here a    *)
(* handler is one step, and what a closing connection leaves in its send    *)
(* queue is drained by its last writeImpl, as closeImpl makes it.  What the  *)
(* two threads of a node share here is the map and sendSequenceNumber, which *)
(* is read and written without a lock.                                       *)
(***************************************************************************)
EXTENDS Naturals, Sequences, FiniteSets

CONSTANTS MaxLinks,  \* bound: links opened
          MaxRetry,  \* bound: failed attempts to connect
          Scales     \* bounds: what a behaviour may do, of the packets and links

Node == {"client", "server"}
Link == 1..MaxLinks
Scale == [client : Nat, server : Nat,   \* packets numbered on a connection
          links : Link,                 \* links opened
          retry : 0..MaxRetry]          \* failed attempts before it gives up

ASSUME SessionBounds == /\ MaxRetry \in Nat /\ MaxLinks \in Nat \ {0}
                        /\ Scales \subseteq Scale

Peer(n) == CHOOSE m \in Node : m # n

VARIABLES
  conn,      \* the connection of a node on a link
  map,       \* CNetService::Impl::connections: the link with the peer's guid, or 0
  links,     \* links that the client has begun to open
  alive,     \* links whose TCP connection stands
  pipe,      \* bytes under way: messages of a node on a link
  notices,   \* links of a node with a DISCONNECTED packet that is not yet processed
  received,  \* history: numbers of the packets decoded
  former,    \* history: how many of them were decoded before the last DISCONNECTED
  erased,    \* history: nodes where DISCONNECTED erased a newer connection
  torn,      \* history: nodes where a Send wrote over a number taken over
  scale      \* the bounds of this behaviour

rest == <<former, erased, torn, scale>>
vars == <<conn, map, links, alive, pipe, notices, received, rest>>

Number == Nat
Packet == [kind : {"data"}, seq : Number, ack : Number]
Message == Packet \cup [kind : {"guid"}] \cup [kind : {"ack"}, ack : Number]

Connection ==
  [phase  : {"none", "connecting", "guid", "ack", "up", "closed"},
   guid   : BOOLEAN,               \* the peer's guid is known and not reset
   inited : BOOLEAN,
   retry  : 0..MaxRetry,           \* retryCount
   lost   : BOOLEAN,               \* loseTime > 0
   abort  : BOOLEAN,               \* the read that close_core aborted is to come back
   seq    : Number,                \* sendSequenceNumber
   ack    : Number,                \* ackSequenceNumber
   queue  : Seq(Packet),           \* sendQueue
   wait   : Seq(Packet)]           \* waitAckQueue

NewConnection ==
  [phase |-> "none", guid |-> FALSE, inited |-> FALSE, retry |-> 0,
   lost |-> FALSE, abort |-> FALSE, seq |-> 0, ack |-> 0, queue |-> <<>>, wait |-> <<>>]

TypeOK ==
  /\ conn \in [Node -> [Link -> Connection]]
  /\ map \in [Node -> 0..MaxLinks]
  /\ scale \in Scales /\ links \in Link /\ alive \subseteq Link
  /\ pipe \in [Link -> [Node -> Seq(Message)]]
  /\ notices \in [Node -> SUBSET Link] /\ erased \subseteq Node /\ torn \subseteq Node
  /\ received \in [Node -> Seq(Number)] /\ former \in [Node -> Nat]

Init ==
  /\ conn = [n \in Node |-> [l \in Link |->
        IF n = "client" /\ l = 1 THEN [NewConnection EXCEPT !.phase = "connecting"]
                                 ELSE NewConnection]]
  /\ map = [n \in Node |-> 0] /\ links = 1 /\ alive = {}
  /\ pipe = [l \in Link |-> [n \in Node |-> <<>>]]
  /\ notices = [n \in Node |-> {}] /\ erased = {} /\ torn = {} /\ scale \in Scales
  /\ received = [n \in Node |-> <<>>] /\ former = [n \in Node |-> 0]

-----------------------------------------------------------------------------
(* Helpers. *)

\* A node writes messages on a link; on a link that is gone they are lost.
Transmit(n, l, messages, read) ==
  pipe' = IF l \in alive THEN [read EXCEPT ![l][n] = @ \o messages] ELSE read

NextMessage(n, l, kind) ==
  /\ pipe[l][Peer(n)] # <<>>
  /\ Head(pipe[l][Peer(n)]).kind = kind

\* A node takes a message off a link; a node gives up what it has not read.
Take(n, l) == pipe' = [pipe EXCEPT ![l][Peer(n)] = Tail(@)]
GiveUp(n, l) == pipe' = [pipe EXCEPT ![l][Peer(n)] = <<>>]

\* ProcessAck: the packets up to the acknowledged number are released.
Release(queue, ack) ==
  IF ack = 0 THEN queue
  ELSE LET keep == {i \in DOMAIN queue : queue[i].seq > ack}
       IN  IF keep = {} THEN <<>>
           ELSE SubSeq(queue, CHOOSE i \in keep : \A j \in keep : i <= j,
                       Len(queue))

\* The packets of a queue that the peer has not received, in their order: the k-th is the
\* one that has k - 1 of them before it.
Unacknowledged(queue, ack) ==
  LET keep  == {i \in DOMAIN queue : queue[i].seq > ack}
      at(k) == CHOOSE i \in keep : Cardinality({j \in keep : j < i}) = k - 1
  IN  [k \in 1..Cardinality(keep) |-> queue[at(k)]]

\* Mutant: the numbers are taken over the wrong way round.
TakeOverSwapped(c, old) ==
  [c EXCEPT !.seq = old.ack, !.ack = old.seq, !.wait = old.wait]
\* Mutant: the new connection counts its packets from the start.
TakeOverQueueOnly(c, old) == [c EXCEPT !.ack = old.ack, !.wait = old.wait]

\* InsertConnection: what the new connection takes from the one it replaces.
TakeOver(c, old) == [c EXCEPT !.seq = old.seq, !.ack = old.ack, !.wait = old.wait]

\* write_core: every packet that waits is handed over, and waits for its ack.
Handed(c) == [c EXCEPT !.queue = <<>>, !.wait = @ \o c.queue]

\* A connection that has neither a place in the map nor a handler is freed.
Freed(c) == IF c.phase = "closed" /\ ~c.abort
            THEN [NewConnection EXCEPT !.phase = "closed"] ELSE c
\* What becomes of a connection that another one replaces.
Replaced(c) == Freed([c EXCEPT !.guid = FALSE, !.wait = <<>>])

-----------------------------------------------------------------------------
(* Opening a link: Connect, Accept, OnConnected. *)

\* The TCP connection stands; OnConnected of the client sends its guid.
ConnectSucceeds(l) ==
  /\ conn["client"][l].phase = "connecting"
  /\ conn' = [conn EXCEPT !["client"][l].phase = "guid", !["client"][l].retry = 0]
  /\ alive' = alive \cup {l}
  /\ pipe' = [pipe EXCEPT ![l]["client"] = <<[kind |-> "guid"]>>]
  /\ UNCHANGED <<map, links, notices, received, rest>>

\* Mutant: one attempt too many.
ConnectFailsLate(l) ==
  LET c == conn["client"][l]
  IN  /\ c.phase = "connecting"
      /\ conn' = [conn EXCEPT !["client"][l] =
            IF c.retry <= scale.retry THEN [c EXCEPT !.retry = c.retry + 1]
                                      ELSE [c EXCEPT !.phase = "closed"]]
      /\ UNCHANGED <<map, links, alive, pipe, notices, received, rest>>

\* OnActiveConnected with an error: try again some time later, or give up.
ConnectFails(l) ==
  LET c == conn["client"][l]
  IN  /\ c.phase = "connecting"
      /\ conn' = [conn EXCEPT !["client"][l] =
            IF c.retry < scale.retry THEN [c EXCEPT !.retry = c.retry + 1]
                                     ELSE [c EXCEPT !.phase = "closed"]]
      /\ UNCHANGED <<map, links, alive, pipe, notices, received, rest>>

\* OnAccepted and OnConnected of the server.
Accepted(l) ==
  /\ conn["server"][l].phase = "none" /\ l \in alive
  /\ conn' = [conn EXCEPT !["server"][l].phase = "guid"]
  /\ Transmit("server", l, <<[kind |-> "guid"]>>, pipe)
  /\ UNCHANGED <<map, links, alive, notices, received, rest>>

\* sendSequenceNumber after InsertConnection has written the old number over it.  The
\* new connection is in the map since before that: a Send on the logic thread that
\* read its 0 may write its 1 afterwards.
NumbersAfter(n, old) == {old.seq} \cup IF scale[n] > 0 THEN {1} ELSE {}

\* OnReadGuid and InsertConnection.  A connection that is in the map under the
\* same guid is replaced: the new one takes its numbers and the packets that wait
\* for an acknowledgement, and its socket is closed with all that was not decoded.
\* The logic thread may process DISCONNECTED between the look-up of the old connection
\* and the lock: then it erases the old one, which is replaced all the same.
OnReadGuid(n, l) ==
  LET prev == map[n]
      old  == conn[n][prev]     \* when there is one
      new  == [conn[n][l] EXCEPT !.phase = "ack", !.guid = TRUE]
      read == [pipe EXCEPT ![l][Peer(n)] = Tail(@)]
  IN  /\ conn[n][l].phase = "guid" /\ NextMessage(n, l, "guid")
      /\ map' = [map EXCEPT ![n] = l]
      /\ alive' = alive \ {prev}
      /\ \/ /\ prev = 0
            /\ conn' = [conn EXCEPT ![n][l] = new]
            /\ Transmit(n, l, <<[kind |-> "ack", ack |-> new.ack]>>, read)
            /\ UNCHANGED <<notices, former, torn>>
         \/ /\ prev # 0
            /\ \E seq \in NumbersAfter(n, old) :
                 /\ conn' = [conn EXCEPT
                      ![n][l] = TakeOver(new, [old EXCEPT !.seq = seq]),
                      ![n][prev] = Replaced(@)]
                 /\ torn' = IF seq < old.seq THEN torn \cup {n} ELSE torn
            /\ \E told \in SUBSET notices[n] :
                 /\ notices' = [notices EXCEPT ![n] = @ \ told]
                 /\ former' = IF told = {} THEN former
                              ELSE [former EXCEPT ![n] = Len(received[n])]
            /\ Transmit(n, l, <<[kind |-> "ack", ack |-> TakeOver(new, old).ack]>>,
                        [read EXCEPT ![prev][Peer(n)] = <<>>])
      /\ UNCHANGED <<links, received, erased, scale>>

\* Mutant: everything that waits is sent again.
ResendAll(c, ack) == [c EXCEPT !.phase = "up", !.queue = @ \o c.wait, !.wait = <<>>]

\* A peer that received something gets what it did not receive.
Resend(c, ack) ==
  [c EXCEPT !.phase = "up", !.queue = @ \o Unacknowledged(c.wait, ack), !.wait = <<>>]

\* OnReadAckSequenceNumber.  A peer that received nothing is taken for a new one,
\* which is reported to the application.
OnReadAck(n, l) ==
  LET ack == Head(pipe[l][Peer(n)]).ack
  IN  /\ conn[n][l].phase = "ack" /\ NextMessage(n, l, "ack")
      /\ conn' = [conn EXCEPT ![n][l] =
            IF ack > 0 THEN Resend(@, ack)
                       ELSE [@ EXCEPT !.phase = "up", !.inited = TRUE]]
      /\ Take(n, l)
      /\ UNCHANGED <<map, links, alive, notices, received, rest>>

-----------------------------------------------------------------------------
(* Packets. *)

\* Send: the packet takes a number and carries the acknowledgement of the moment;
\* CNetService::Write refuses it on a connection that is not inited.
Send(n) ==
  LET l == map[n]
      c == conn[n][l]
      packet == [kind |-> "data", seq |-> c.seq + 1, ack |-> c.ack]
  IN  /\ l # 0 /\ c.seq < scale[n]
      /\ IF c.inited
         THEN conn' = [conn EXCEPT ![n][l].seq = @ + 1,
                                   ![n][l].queue = Append(@, packet)]
         ELSE conn' = [conn EXCEPT ![n][l].seq = @ + 1]
      /\ UNCHANGED <<map, links, alive, pipe, notices, received, rest>>

\* writeImpl of an open connection.
Flush(n, l) ==
  /\ conn[n][l].phase = "up" /\ conn[n][l].queue # <<>>
  /\ conn' = [conn EXCEPT ![n][l] = Handed(@)]
  /\ Transmit(n, l, conn[n][l].queue, pipe)
  /\ UNCHANGED <<map, links, alive, notices, received, rest>>

\* OnRead, DecodeRingBuffer and ProcessAck of one packet.
Receive(n, l) ==
  LET packet == Head(pipe[l][Peer(n)])
  IN  /\ conn[n][l].phase = "up" /\ conn[n][l].guid
      /\ NextMessage(n, l, "data")
      /\ conn' = [conn EXCEPT ![n][l].ack  = packet.seq,
                              ![n][l].wait = Release(@, packet.ack)]
      /\ received' = [received EXCEPT ![n] = Append(@, packet.seq)]
      /\ Take(n, l)
      /\ UNCHANGED <<map, links, alive, notices, rest>>

-----------------------------------------------------------------------------
(* Losing a link. *)

\* The network loses a link.  Each side notices later, or not at all.
Break(l) ==
  /\ l \in alive
  /\ alive' = alive \ {l}
  /\ UNCHANGED <<conn, map, links, pipe, notices, received, rest>>

\* close_core for an abnormal end: the server waits, the client connects anew.
CloseAndReconnect(n, l, aborts) ==
  /\ n = "client" => links < scale.links
  /\ links' = IF n = "client" THEN links + 1 ELSE links
  /\ conn' = [conn EXCEPT ![n] = [k \in Link |->
        IF k = l
        THEN [Handed(@[l]) EXCEPT !.phase = "closed", !.lost = TRUE, !.abort = aborts]
        ELSE IF n = "client" /\ k = links + 1
        THEN [@[k] EXCEPT !.phase = "connecting"] ELSE @[k]]]
  /\ UNCHANGED notices

\* A read fails: at the end of the stream and after a reset the connection is
\* destroyed, after any other error it is to be reconnected.
Lost(n, l) ==
  /\ conn[n][l].phase = "up" /\ l \notin alive
  /\ \/ /\ ~conn[n][l].guid
        /\ conn' = [conn EXCEPT ![n][l] = Freed([@ EXCEPT !.phase = "closed"])]
        /\ UNCHANGED <<links, notices>>
     \/ conn[n][l].guid /\ CloseAndReconnect(n, l, FALSE)
     \/ /\ conn[n][l].guid
        /\ conn' = [conn EXCEPT ![n][l] = [Handed(@) EXCEPT !.phase = "closed"]]
        /\ notices' = [notices EXCEPT ![n] = @ \cup {l}]
        /\ UNCHANGED links
  /\ GiveUp(n, l)
  /\ UNCHANGED <<map, alive, received, rest>>

\* A write fails before the read does: OnWritten closes at once, and close_core
\* aborts the read.
WriteFails(n, l) ==
  /\ conn[n][l].phase = "up" /\ conn[n][l].guid /\ l \notin alive
  /\ conn[n][l].queue # <<>>
  /\ CloseAndReconnect(n, l, TRUE)
  /\ GiveUp(n, l)
  /\ UNCHANGED <<map, alive, received, rest>>

\* OnRead of the aborted read: it closes what is closed, and the client connects
\* once more.  Nothing comes of it when the connection was replaced, when the read had
\* got data in time, or when a Send holds writting, so that closeImpl posts nothing.
AbortedRead(n, l) ==
  /\ conn[n][l].abort
  /\ \/ conn[n][l].guid /\ CloseAndReconnect(n, l, FALSE)
     \/ /\ conn' = [conn EXCEPT ![n][l] =
              IF map[n] = l THEN [@ EXCEPT !.abort = FALSE]
                            ELSE Freed([@ EXCEPT !.abort = FALSE])]
        /\ UNCHANGED <<links, notices>>
  /\ UNCHANGED <<map, alive, pipe, received, rest>>

\* The handshake fails.  Without a guid the socket is closed and that is all;
\* later, Close ends in close_core when the send half cannot be shut down, and
\* with an open half that nobody reads when it can.
HandshakeFails(n, l) ==
  /\ l \notin alive
  /\ \/ /\ conn[n][l].phase \in {"guid", "ack"}
        /\ conn' = [conn EXCEPT ![n][l].phase = "closed"]
        /\ UNCHANGED <<links, notices>>
     \/ conn[n][l].phase = "ack" /\ conn[n][l].guid /\ CloseAndReconnect(n, l, FALSE)
  /\ GiveUp(n, l)
  /\ UNCHANGED <<map, alive, received, rest>>

\* Heartbeat of the server: the client did not come back within 60 seconds.
Heartbeat ==
  LET l == map["server"]
  IN  /\ l # 0 /\ conn["server"][l].lost /\ l \notin notices["server"]
      /\ notices' = [notices EXCEPT !["server"] = @ \cup {l}]
      /\ UNCHANGED <<conn, map, links, alive, pipe, received, rest>>

\* ProcessPacket of DISCONNECTED: whatever connection has the guid is erased.
Disconnected(n) ==
  \E l \in notices[n] :
    /\ notices' = [notices EXCEPT ![n] = @ \ {l}]
    /\ map' = [map EXCEPT ![n] = 0]
    /\ erased' = IF map[n] \in {0, l} THEN erased ELSE erased \cup {n}
    /\ conn' = IF map[n] = 0 THEN conn ELSE [conn EXCEPT ![n][map[n]] = Freed(@)]
    /\ former' = [former EXCEPT ![n] = Len(received[n])]
    /\ UNCHANGED <<links, alive, pipe, received, torn, scale>>

Next ==
  \/ \E l \in Link : ConnectSucceeds(l) \/ ConnectFails(l) \/ Accepted(l) \/ Break(l)
  \/ \E n \in Node, l \in Link :
       \/ OnReadGuid(n, l) \/ OnReadAck(n, l) \/ Flush(n, l) \/ Receive(n, l)
       \/ Lost(n, l) \/ WriteFails(n, l) \/ AbortedRead(n, l) \/ HandshakeFails(n, l)
  \/ \E n \in Node : Send(n) \/ Disconnected(n)
  \/ Heartbeat

Spec == Init /\ [][Next]_vars

-----------------------------------------------------------------------------
(* Safety. *)

Increasing(s) == \A i \in 1..(Len(s) - 1) : s[i] < s[i + 1]

\* However often the link is lost and packets are sent again, a node decodes the
\* packets of its peer in the order of their numbers and none of them twice, until its
\* application is told that the peer is gone.  It is not so once DISCONNECTED of a
\* former connection erased a newer one, which is then not replaced and goes on being
\* read; nor once a Send of the peer wrote over the number that was taken over.
InOrderOnce ==
  \A n \in Node : n \notin erased /\ Peer(n) \notin torn =>
    Increasing(SubSeq(received[n], former[n] + 1, Len(received[n])))

\* A node acknowledges only what it decoded: the number that the handshake and
\* every packet carry was received, on this link or on one before it.
AckHonest ==
  \A n \in Node, l \in Link :
    conn[n][l].ack > 0 => \E i \in DOMAIN received[n] : received[n][i] = conn[n][l].ack

\* The packets that wait for an acknowledgement are in order of their numbers,
\* also those of former links: ProcessAck stops at the first that is too new.  Only a
\* Send that wrote over the number taken over makes the numbers start again.
WaitOrdered ==
  \A n \in Node \ torn, l \in Link :
    LET c == conn[n][l]
        s == c.wait \o c.queue
    IN  Increasing([i \in DOMAIN s |-> s[i].seq])

-----------------------------------------------------------------------------
(* A property that a comment of the code states and the code does not have. *)

\* CConnection::inited: whether the link was initialised successfully.  So it is
\* on for a connection whose handshake is done.
UpIsInited == \A n \in Node, l \in Link : conn[n][l].phase = "up" => conn[n][l].inited
=============================================================================
