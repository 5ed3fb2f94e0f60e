---------------------------- MODULE PacketDispatch ----------------------------
(***************************************************************************)
(* How CNetService hands packets to the application: PostPacket, called by *)
(* any thread, puts a packet into one of four queues by its priority and   *)
(* makes sure that ProcessAllPacket runs; ProcessAllPacket, on the logic   *)
(* thread, empties the queues and gives every packet to ProcessPacket,     *)
(* which looks its connection up in the map.                               *)
(*                                                                         *)
(* A step touches one shared item: one try_pop, one look-up, the flag      *)
(* isPosted.  The I/O thread's work on connections is reduced to what      *)
(* ProcessPacket sees of it; there is one remote guid, and its successive  *)
(* connections are numbered.                                               *)
(***************************************************************************)
EXTENDS Naturals, Sequences

Class    == <<"debug", "update", "db", "default">>   \* in the order of the while
Classes  == {Class[k] : k \in 1..4}

CONSTANTS MaxPost,   \* bound: packets posted, by class ("update" is not counted)
          MaxLinks   \* bound: connections of the remote guid

ASSUME BoundsAreNat == MaxPost \in [Classes -> Nat] /\ MaxLinks \in Nat

VARIABLES
  isWin,          \* the _WIN32 build: a timer runs ProcessAllPacket
  needPostUpdate, \* StartUp was asked for update packets
  queue,          \* debugPacketList, updatePacketList, ...: by class
  isPosted,
  handlers,       \* ProcessAllPacket handlers posted and not yet run
  post,           \* where each thread is in PostPacket
  at,             \* where the logic thread is in ProcessAllPacket
  level,          \* the queue its while condition tries next
  packet,         \* the packet it processes
  connections,    \* the connection that the map holds for the guid, 0 if none
  status,         \* of each connection
  named,          \* connections whose guid is not 0
  count,          \* history: packets posted, by class
  passed          \* history: how many packets of lower classes were taken since
                  \*   the queue of a class was last empty or popped

config == <<isWin, needPostUpdate>>
logic  == <<at, level, packet>>
links  == <<connections, status, named>>
vars   == <<config, queue, isPosted, handlers, post, logic, links, count, passed>>

\* CLOSE_FULL, of a connection that may come back or that ended for good.
Closed   == {"lost", "ended"}

Thread   == {"logic", "io", "other"}  \* "other": the application's own threads
Link     == 1..MaxLinks
Nothing  == [kind |-> "none", source |-> 0]

\* source is the connection a packet came from, 0 for one that is made here.
Packet == [kind: {"data"}, source: Link]
          \cup [kind: {"disconnected", "local"}, source: {0}]

TypeOK ==
  /\ isWin \in BOOLEAN /\ needPostUpdate \in BOOLEAN
  /\ queue \in [Classes -> Seq(Packet)]
  /\ isPosted \in BOOLEAN /\ handlers \in Nat
  /\ post \in [Thread -> {"idle", "pushed", "posting"}]
  /\ at \in {"idle", "scan", "process", "confirm", "erase", "processors"}
  /\ level \in 1..5
  /\ packet \in Packet \cup {Nothing}
  /\ connections \in 0..MaxLinks
  /\ status \in [Link -> {"new", "up"} \cup Closed]
  /\ named \in [Link -> BOOLEAN]
  /\ count \in [Classes -> Nat]
  /\ passed \in [Classes -> Nat]

Init ==
  /\ isWin \in BOOLEAN /\ needPostUpdate \in BOOLEAN
  /\ queue = [c \in Classes |-> <<>>]
  /\ isPosted = FALSE /\ handlers = 0
  /\ post = [t \in Thread |-> "idle"]
  /\ at = "idle" /\ level = 1 /\ packet = Nothing
  /\ connections = 0
  /\ status = [c \in Link |-> "new"] /\ named = [c \in Link |-> FALSE]
  /\ count = [c \in Classes |-> 0] /\ passed = [c \in Classes |-> 0]

-----------------------------------------------------------------------------
(* PostPacket. *)

\* The packet enters the queue of its class.
Push(t, c, p) ==
  /\ post[t] = "idle"
  /\ queue' = [queue EXCEPT ![c] = Append(@, p)]
  /\ post' = [post EXCEPT ![t] = IF isWin THEN "idle" ELSE "pushed"]
  /\ count' = IF c = "update" THEN count ELSE [count EXCEPT ![c] = @ + 1]

MayPost(c) == count[c] < MaxPost[c]

\* Mutant: a test and a store instead of the compare_and_swap.
StoreIsPosted(t) ==
  /\ post[t] = "pushed"
  /\ post' = [post EXCEPT ![t] = "posting"]
  /\ isPosted' = TRUE
  /\ UNCHANGED <<config, queue, handlers, logic, links, count, passed>>

\* Whoever turns isPosted on posts ProcessAllPacket.
SwapIsPosted(t) ==
  /\ post[t] = "pushed"
  /\ post' = [post EXCEPT ![t] = IF isPosted THEN "idle" ELSE "posting"]
  /\ isPosted' = TRUE
  /\ UNCHANGED <<config, queue, handlers, logic, links, count, passed>>

PostHandler(t) ==
  /\ post[t] = "posting"
  /\ post' = [post EXCEPT ![t] = "idle"]
  /\ handlers' = handlers + 1
  /\ UNCHANGED <<config, queue, isPosted, logic, links, count, passed>>

\* Packets that the application posts: the logic thread between its handlers or
\* in a processor, other threads at any time.
PostLocal(t, c) ==
  /\ t = "logic" => at \in {"idle", "processors"}
  /\ MayPost(c)
  /\ Push(t, c, [kind |-> "local", source |-> 0])
  /\ UNCHANGED <<config, isPosted, handlers, logic, links, passed>>

\* ActiveUpdateTimer.  Bound: one update packet waits at a time.
UpdateTimer ==
  /\ needPostUpdate /\ at = "idle" /\ queue["update"] = <<>>
  /\ Push("logic", "update", [kind |-> "local", source |-> 0])
  /\ UNCHANGED <<config, isPosted, handlers, logic, links, passed>>

-----------------------------------------------------------------------------
(* The I/O thread's connections, as far as ProcessPacket sees them. *)

\* InsertConnection: the new connection takes the guid from the one in the map,
\* whose socket it closes.
InsertConnection(c) ==
  /\ post["io"] = "idle"
  /\ status[c] = "new" /\ \A d \in 1..c - 1 : status[d] # "new"
  /\ status' = [status EXCEPT ![c] = "up"]
  /\ named' = [d \in Link |-> d = c \/ (named[d] /\ d # connections)]
  /\ connections' = c
  /\ UNCHANGED <<config, queue, isPosted, handlers, post, logic, count, passed>>

\* DecodePacket: a packet of the connection is posted.
Decode(c) ==
  /\ status[c] = "up" /\ named[c] /\ MayPost("default")
  /\ Push("io", "default", [kind |-> "data", source |-> c])
  /\ UNCHANGED <<config, isPosted, handlers, logic, links, passed>>

\* close_core of a connection that may come back: it waits in the map.
Lose(c) ==
  /\ post["io"] = "idle" /\ status[c] = "up"
  /\ status' = [status EXCEPT ![c] = "lost"]
  /\ UNCHANGED <<config, queue, isPosted, handlers, post, logic, connections,
                 named, count, passed>>

\* close_core of a connection that ends for good: DestoryConnection posts the
\* DISCONNECTED packet.  A replaced one has no guid to report.
End(c) ==
  /\ status[c] = "up" /\ named[c] /\ MayPost("default")
  /\ status' = [status EXCEPT ![c] = "ended"]
  /\ Push("io", "default", [kind |-> "disconnected", source |-> 0])
  /\ UNCHANGED <<config, isPosted, handlers, logic, connections, named, passed>>

\* Heartbeat gives up a connection that waits for its client.
HeartbeatTimeout ==
  /\ connections # 0 /\ MayPost("default")
  /\ named[connections] /\ status[connections] = "lost"
  /\ Push("io", "default", [kind |-> "disconnected", source |-> 0])
  /\ UNCHANGED <<config, isPosted, handlers, logic, links, passed>>

-----------------------------------------------------------------------------
(* ProcessAllPacket, on the logic thread. *)

LogicFree == post["logic"] = "idle"

\* Mutant: it runs whether or not it was posted.
RunUnposted ==
  /\ at = "idle" /\ LogicFree
  /\ handlers' = IF isWin THEN handlers ELSE handlers - 1
  /\ at' = "scan" /\ level' = 1
  /\ UNCHANGED <<config, queue, isPosted, post, packet, links, count, passed>>

\* The posted handler, or the repeated timer of the _WIN32 build.
RunProcessAllPacket ==
  /\ at = "idle" /\ LogicFree
  /\ IF isWin THEN UNCHANGED handlers
              ELSE handlers > 0 /\ handlers' = handlers - 1
  /\ at' = "scan" /\ level' = 1
  /\ UNCHANGED <<config, queue, isPosted, post, packet, links, count, passed>>

\* A try_pop that fails: the condition goes on with the next queue.
TryNext ==
  /\ at = "scan" /\ level <= 4 /\ queue[Class[level]] = <<>>
  /\ level' = level + 1
  /\ UNCHANGED <<config, queue, isPosted, handlers, post, at, packet, links,
                 count, passed>>

\* What taking a packet of class k does to the counts of the others: those of
\* higher classes that wait are passed once more.
Passed(k) ==
  [c \in Classes |->
     IF c = Class[k] \/ queue[c] = <<>> THEN 0
     ELSE IF \E h \in 1..k - 1 : Class[h] = c THEN passed[c] + 1 ELSE passed[c]]

\* A try_pop that succeeds.
Take ==
  /\ at = "scan" /\ level <= 4 /\ queue[Class[level]] # <<>>
  /\ packet' = Head(queue[Class[level]])
  /\ queue' = [queue EXCEPT ![Class[level]] = Tail(@)]
  /\ passed' = Passed(level)
  /\ at' = "process"
  /\ UNCHANGED <<config, isPosted, handlers, post, level, links, count>>

\* Mutant: the queue is emptied before the condition starts over.
StayAtLevel == /\ at' = "scan" /\ packet' = Nothing /\ UNCHANGED level

\* The packet is done: the condition starts over with the first queue.
Again == at' = "scan" /\ level' = 1 /\ packet' = Nothing

\* Mutant: the reset of isPosted is missing.
EndStillPosted ==
  /\ at = "scan" /\ level = 5
  /\ at' = "idle" /\ level' = 1
  /\ UNCHANGED <<config, queue, isPosted, handlers, post, packet, links, count,
                 passed>>

\* All four queues were found empty, one after the other.
EndProcessAllPacket ==
  /\ at = "scan" /\ level = 5
  /\ isPosted' = (isPosted /\ isWin)
  /\ at' = "idle" /\ level' = 1
  /\ UNCHANGED <<config, queue, handlers, post, packet, links, count, passed>>

-----------------------------------------------------------------------------
(* ProcessPacket. *)

\* FindConnection: of the remote guid, or of a connection's own guid.
FindRemote == connections
FindConnection(c) == IF named[c] THEN connections ELSE 0

\* The processors of the application get the packet.
ToProcessors == at' = "processors" /\ UNCHANGED <<level, packet>>

\* A packet made here that is not DISCONNECTED, or one of a connection that is
\* not closed, is delivered.
Deliver ==
  /\ at = "process"
  /\ \/ packet.kind = "local"
     \/ packet.kind = "data" /\ status[packet.source] \notin Closed
  /\ ToProcessors
  /\ UNCHANGED <<config, queue, isPosted, handlers, post, links, count, passed>>

\* The connection of the packet is closed: confirm that it is really gone.
NeedsConfirmation ==
  /\ at = "process"
  /\ packet.kind = "data" /\ status[packet.source] \in Closed
  /\ at' = "confirm"
  /\ UNCHANGED <<config, queue, isPosted, handlers, post, level, packet, links,
                 count, passed>>

DeliverConfirmed ==
  /\ at = "confirm" /\ FindConnection(packet.source) # 0
  /\ ToProcessors
  /\ UNCHANGED <<config, queue, isPosted, handlers, post, links, count, passed>>

\* "The peer is really disconnected": the packet is not given to anyone.
Drop ==
  /\ at = "confirm" /\ FindConnection(packet.source) = 0
  /\ Again
  /\ UNCHANGED <<config, queue, isPosted, handlers, post, links, count, passed>>

\* DISCONNECTED: the guid is looked up ...
FindDisconnected ==
  /\ at = "process" /\ packet.kind = "disconnected"
  /\ IF FindRemote # 0 /\ named[FindRemote]
     THEN at' = "erase" /\ UNCHANGED <<level, packet>>
     ELSE ToProcessors
  /\ UNCHANGED <<config, queue, isPosted, handlers, post, links, count, passed>>

\* ... and whatever the map holds for it by then is erased.
EraseDisconnected ==
  /\ at = "erase"
  /\ connections' = 0
  /\ ToProcessors
  /\ UNCHANGED <<config, queue, isPosted, handlers, post, status, named, count,
                 passed>>

\* The last processor returns.
ProcessorsReturn ==
  /\ at = "processors" /\ LogicFree
  /\ Again
  /\ UNCHANGED <<config, queue, isPosted, handlers, post, links, count, passed>>

Process == \/ Deliver \/ NeedsConfirmation \/ DeliverConfirmed \/ Drop
           \/ FindDisconnected \/ EraseDisconnected \/ ProcessorsReturn

Logic == \/ RunProcessAllPacket \/ TryNext \/ Take \/ EndProcessAllPacket
         \/ Process

Io == \/ \E c \in Link : InsertConnection(c) \/ Decode(c) \/ Lose(c) \/ End(c)
      \/ HeartbeatTimeout

Post(t) == SwapIsPosted(t) \/ PostHandler(t)

Next == \/ Logic \/ Io \/ UpdateTimer
        \/ \E t \in Thread : Post(t)
        \/ \E t \in {"logic", "other"} : \E c \in {"debug", "db"} : PostLocal(t, c)

Spec == Init /\ [][Next]_vars

-----------------------------------------------------------------------------
(* Safety. *)

\* The flag isPosted tells exactly whether ProcessAllPacket is about to be
\* posted, is posted or runs: never twice, so that the packets of one class are
\* never processed out of order by a handler that starts early, and never not
\* at all, so that the next PostPacket always wakes the logic thread up
\* (PostPacket and ProcessAllPacket around isPosted).
One(condition) == IF condition THEN 1 ELSE 0
OneProcessor ==
  ~isWin => handlers + One(at # "idle")
            + One(post["logic"] = "posting") + One(post["io"] = "posting")
            + One(post["other"] = "posting") = One(isPosted)

\* A packet waits for at most one packet of a lower class: the while condition
\* of ProcessAllPacket starts over with the highest class after each packet.
PassedOnce == \A c \in Classes : passed[c] <= 1

(* A property that the code states and does not have. *)

\* ProcessPacket drops a packet only after it confirmed that the peer is really
\* disconnected.  So no connection of the peer is up when it does.
DroppedIsGone ==
  [][Drop => \A c \in Link : status[c] # "up"]_vars

-----------------------------------------------------------------------------
(* Liveness. *)

\* Every thread finishes the call it is in, the io_service runs what was posted
\* or is due, and the update timer goes off again and again.
FairSpec == /\ Spec
            /\ WF_vars(Logic)
            /\ \A t \in Thread : WF_vars(Post(t))
            /\ WF_vars(UpdateTimer)

\* Where there are update packets (or a timer runs ProcessAllPacket), no packet
\* is left behind: one that is pushed after the last try_pop and before the
\* reset of isPosted is taken when the next packet comes.
EveryPacketIsProcessed ==
  \A c \in Classes :
    queue[c] # <<>> /\ (needPostUpdate \/ isWin) ~> queue[c] = <<>>
=============================================================================
