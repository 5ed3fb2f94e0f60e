------------------------- MODULE PacketDispatchProofs -------------------------
(***************************************************************************)
(* Theorems about PacketDispatch, for every number of packets and          *)
(* connections.                                                            *)
(***************************************************************************)
EXTENDS PacketDispatch, TLAPS

-----------------------------------------------------------------------------
(* Type correctness. *)

LEMMA ClassesAre == Classes = {"debug", "update", "db", "default"}
  BY DEF Classes, Class

LEMMA LevelIsClass == \A k \in 1..4 : Class[k] \in Classes
  BY DEF Classes

LEMMA TypeInit == Init => TypeOK
<1> SUFFICES ASSUME Init PROVE TypeOK
  OBVIOUS
<1>1. /\ queue \in [Classes -> Seq(Packet)]
      /\ count \in [Classes -> Nat] /\ passed \in [Classes -> Nat]
  BY DEF Init
<1>2. /\ post \in [Thread -> {"idle", "pushed", "posting"}]
      /\ status \in [Link -> {"new", "up"} \cup Closed]
      /\ named \in [Link -> BOOLEAN]
  BY DEF Init
<1>3. connections \in 0..MaxLinks
  BY BoundsAreNat DEF Init
<1>4. /\ handlers \in Nat /\ level \in 1..5 /\ packet \in Packet \cup {Nothing}
  BY DEF Init
<1>5. isWin \in BOOLEAN /\ needPostUpdate \in BOOLEAN
  BY DEF Init
<1>6. isPosted \in BOOLEAN
  BY DEF Init
<1>7. at \in {"idle", "scan", "process", "confirm", "erase", "processors"}
  BY DEF Init
<1> QED
  BY <1>1, <1>2, <1>3, <1>4, <1>5, <1>6, <1>7, Zenon DEF TypeOK

\* Push keeps the types of what it changes.
LEMMA PushType ==
  ASSUME TypeOK, NEW t \in Thread, NEW c \in Classes, NEW p \in Packet,
         Push(t, c, p)
  PROVE  /\ queue' \in [Classes -> Seq(Packet)]
         /\ post' \in [Thread -> {"idle", "pushed", "posting"}]
         /\ count' \in [Classes -> Nat]
<1>1. Append(queue[c], p) \in Seq(Packet)
  BY DEF TypeOK
<1>2. queue' \in [Classes -> Seq(Packet)]
  BY <1>1 DEF TypeOK, Push
<1>3. post' \in [Thread -> {"idle", "pushed", "posting"}]
  BY DEF TypeOK, Push
<1>4. count' \in [Classes -> Nat]
  BY DEF TypeOK, Push
<1> QED
  BY <1>2, <1>3, <1>4

LEMMA PacketsAre ==
  /\ [kind |-> "local", source |-> 0] \in Packet
  /\ [kind |-> "disconnected", source |-> 0] \in Packet
  /\ \A c \in Link : [kind |-> "data", source |-> c] \in Packet
  BY DEF Packet

\* Taking a packet.
LEMMA TakeType ==
  ASSUME TypeOK, Take
  PROVE  /\ packet' \in Packet
         /\ queue' \in [Classes -> Seq(Packet)]
         /\ passed' \in [Classes -> Nat]
<1> DEFINE c == Class[level]
<1>1. c \in Classes
  BY LevelIsClass DEF TypeOK, Take
<1> HIDE DEF c
<1>2. queue[c] \in Seq(Packet) /\ queue[c] # <<>>
  BY <1>1 DEF TypeOK, Take, c
<1>3. Head(queue[c]) \in Packet /\ Tail(queue[c]) \in Seq(Packet)
  BY <1>2
<1>4. packet' = Head(queue[c]) /\ queue' = [queue EXCEPT ![c] = Tail(@)]
  BY DEF Take, c
<1>5. passed' \in [Classes -> Nat]
  <2>1. \A d \in Classes : passed[d] \in Nat /\ passed[d] + 1 \in Nat
    BY DEF TypeOK
  <2>2. passed' = Passed(level)
    BY DEF Take
  <2> QED
    BY <2>1, <2>2 DEF Passed
<1> QED
  BY <1>1, <1>3, <1>4, <1>5 DEF TypeOK

LEMMA TypeStep == TypeOK /\ [Next]_vars => TypeOK'
<1> SUFFICES ASSUME TypeOK, [Next]_vars PROVE TypeOK'
  OBVIOUS
<1>0. 0 \in 0..MaxLinks /\ \A c \in Link : c \in 0..MaxLinks
  BY BoundsAreNat DEF Link
<1>1. CASE Logic
  <2>1. CASE RunProcessAllPacket
    <3>1. handlers' \in Nat
      BY <2>1 DEF RunProcessAllPacket, TypeOK
    <3> QED
      BY <2>1, <3>1 DEF RunProcessAllPacket, TypeOK, config, links
  <2>2. CASE TryNext
    BY <2>2 DEF TryNext, TypeOK, config, links
  <2>3. CASE Take
    BY <2>3, TakeType DEF Take, TypeOK, config, links
  <2>4. CASE EndProcessAllPacket
    BY <2>4 DEF EndProcessAllPacket, TypeOK, config, links
  <2>5. CASE Deliver \/ NeedsConfirmation \/ DeliverConfirmed \/ Drop
             \/ FindDisconnected \/ ProcessorsReturn
    BY <2>5 DEF Deliver, NeedsConfirmation, DeliverConfirmed, Drop, Again,
       FindDisconnected, ProcessorsReturn, ToProcessors, TypeOK, config, links
  <2>6. CASE EraseDisconnected
    BY <1>0, <2>6 DEF EraseDisconnected, ToProcessors, TypeOK, config
  <2> QED
    BY <1>1, <2>1, <2>2, <2>3, <2>4, <2>5, <2>6 DEF Logic, Process
<1>2. CASE Io
  <2>1. ASSUME NEW c \in Link, InsertConnection(c)
        PROVE  TypeOK'
    <3>1. connections' \in 0..MaxLinks
      BY <1>0, <2>1 DEF InsertConnection
    <3>2. status' \in [Link -> {"new", "up"} \cup Closed]
      BY <2>1 DEF InsertConnection, TypeOK
    <3>3. named' \in [Link -> BOOLEAN]
      BY <2>1, Zenon DEF InsertConnection, TypeOK
    <3> QED
      BY <2>1, <3>1, <3>2, <3>3 DEF InsertConnection, TypeOK, config, logic
  <2>2. ASSUME NEW c \in Link, Decode(c)
        PROVE  TypeOK'
    <3>1. /\ queue' \in [Classes -> Seq(Packet)]
          /\ post' \in [Thread -> {"idle", "pushed", "posting"}]
          /\ count' \in [Classes -> Nat]
      BY <2>2, PushType, PacketsAre, ClassesAre DEF Decode, Thread
    <3> QED
      BY <2>2, <3>1 DEF Decode, TypeOK, config, logic, links
  <2>3. ASSUME NEW c \in Link, Lose(c)
        PROVE  TypeOK'
    BY <2>3 DEF Lose, Closed, TypeOK, config, logic
  <2>4. ASSUME NEW c \in Link, End(c)
        PROVE  TypeOK'
    <3>1. /\ queue' \in [Classes -> Seq(Packet)]
          /\ post' \in [Thread -> {"idle", "pushed", "posting"}]
          /\ count' \in [Classes -> Nat]
      BY <2>4, PushType, PacketsAre, ClassesAre DEF End, Thread
    <3>2. status' \in [Link -> {"new", "up"} \cup Closed]
      BY <2>4 DEF End, Closed, TypeOK
    <3> QED
      BY <2>4, <3>1, <3>2 DEF End, TypeOK, config, logic
  <2>5. CASE HeartbeatTimeout
    <3>1. /\ queue' \in [Classes -> Seq(Packet)]
          /\ post' \in [Thread -> {"idle", "pushed", "posting"}]
          /\ count' \in [Classes -> Nat]
      BY <2>5, PushType, PacketsAre, ClassesAre DEF HeartbeatTimeout, Thread
    <3> QED
      BY <2>5, <3>1 DEF HeartbeatTimeout, TypeOK, config, logic, links
  <2> QED
    BY <1>2, <2>1, <2>2, <2>3, <2>4, <2>5 DEF Io
<1>3. CASE UpdateTimer
  <2>1. /\ queue' \in [Classes -> Seq(Packet)]
        /\ post' \in [Thread -> {"idle", "pushed", "posting"}]
        /\ count' \in [Classes -> Nat]
    BY <1>3, PushType, PacketsAre, ClassesAre DEF UpdateTimer, Thread
  <2> QED
    BY <1>3, <2>1 DEF UpdateTimer, TypeOK, config, logic, links
<1>4. ASSUME NEW t \in Thread, Post(t)
      PROVE  TypeOK'
  <2>1. CASE SwapIsPosted(t)
    BY <2>1 DEF SwapIsPosted, TypeOK, config, logic, links
  <2>2. CASE PostHandler(t)
    BY <2>2 DEF PostHandler, TypeOK, config, logic, links
  <2> QED
    BY <1>4, <2>1, <2>2 DEF Post
<1>5. ASSUME NEW t \in {"logic", "other"}, NEW c \in {"debug", "db"},
             PostLocal(t, c)
      PROVE  TypeOK'
  <2>1. /\ queue' \in [Classes -> Seq(Packet)]
        /\ post' \in [Thread -> {"idle", "pushed", "posting"}]
        /\ count' \in [Classes -> Nat]
    BY <1>5, PushType, PacketsAre, ClassesAre DEF PostLocal, Thread
  <2> QED
    BY <1>5, <2>1 DEF PostLocal, TypeOK, config, logic, links
<1>6. CASE UNCHANGED vars
  BY <1>6 DEF vars, TypeOK, config, logic, links
<1> QED
  BY <1>1, <1>2, <1>3, <1>4, <1>5, <1>6 DEF Next

(* Every variable of the packet queue keeps its type; in particular no        *)
(* handler runs that was not posted.                                          *)
THEOREM DispatchTypeCorrect == Spec => []TypeOK
  BY TypeInit, TypeStep, PTL DEF Spec

-----------------------------------------------------------------------------
(* isPosted and the handler.                                                 *)

LEMMA OneProcessorInit == Init => OneProcessor
  BY DEF Init, OneProcessor, One, Thread

LEMMA OneProcessorStep == TypeOK /\ OneProcessor /\ [Next]_vars => OneProcessor'
<1> SUFFICES ASSUME TypeOK, OneProcessor, [Next]_vars PROVE OneProcessor'
  OBVIOUS
<1>0. /\ handlers \in Nat /\ isPosted \in BOOLEAN
      /\ post \in [Thread -> {"idle", "pushed", "posting"}]
  BY DEF TypeOK
<1> USE DEF One, Thread
\* The steps that neither start nor end a handler, and the push of a packet.
<1>1. ASSUME UNCHANGED <<isWin, handlers, isPosted>>,
             at' = "idle" <=> at = "idle",
             \A t \in Thread : post'[t] = "posting" <=> post[t] = "posting"
      PROVE  OneProcessor'
  BY <1>0, <1>1 DEF OneProcessor
<1>2. ASSUME NEW t \in Thread, NEW c, NEW p, Push(t, c, p),
             UNCHANGED <<isWin, handlers, isPosted>>,
             at' = "idle" <=> at = "idle"
      PROVE  OneProcessor'
  <2>1. \A u \in Thread : post'[u] = "posting" <=> post[u] = "posting"
    BY <1>0, <1>2 DEF Push
  <2> QED
    BY <1>1, <1>2, <2>1
<1>3. CASE Logic
  <2>1. CASE RunProcessAllPacket
    BY <1>0, <2>1 DEF RunProcessAllPacket, config, OneProcessor
  <2>2. CASE EndProcessAllPacket
    <3> SUFFICES ASSUME ~isWin' PROVE OneProcessor'
      BY DEF OneProcessor
    <3>1. ~isWin /\ isPosted' = FALSE
      BY <2>2 DEF EndProcessAllPacket, config
    <3>2. /\ at = "scan" /\ at' = "idle"
          /\ handlers' = handlers /\ post' = post
      BY <2>2 DEF EndProcessAllPacket
    <3> QED
      BY <1>0, <3>1, <3>2 DEF OneProcessor
  <2>3. CASE TryNext \/ Take
    BY <1>1, <2>3 DEF TryNext, Take, config
  <2>4. CASE Process
    BY <1>1, <2>4 DEF Process, Deliver, NeedsConfirmation, DeliverConfirmed,
       Drop, FindDisconnected, EraseDisconnected, ProcessorsReturn, Again,
       ToProcessors, config
  <2> QED
    BY <1>3, <2>1, <2>2, <2>3, <2>4 DEF Logic
<1>4. CASE Io
  <2>1. ASSUME NEW c \in Link, InsertConnection(c) \/ Lose(c)
        PROVE  OneProcessor'
    BY <1>1, <2>1 DEF InsertConnection, Lose, config, logic
  <2>2. ASSUME NEW c \in Link, Decode(c) \/ End(c)
        PROVE  OneProcessor'
    BY <1>2, <2>2 DEF Decode, End, config, logic
  <2>3. CASE HeartbeatTimeout
    BY <1>2, <2>3 DEF HeartbeatTimeout, config, logic
  <2> QED
    BY <1>4, <2>1, <2>2, <2>3 DEF Io
<1>5. CASE UpdateTimer
  BY <1>2, <1>5 DEF UpdateTimer, config, logic
<1>6. ASSUME NEW t \in Thread, SwapIsPosted(t)
      PROVE  OneProcessor'
  BY <1>0, <1>6 DEF SwapIsPosted, config, logic, OneProcessor
<1>7. ASSUME NEW t \in Thread, PostHandler(t)
      PROVE  OneProcessor'
  BY <1>0, <1>7 DEF PostHandler, config, logic, OneProcessor
<1>8. ASSUME NEW t \in {"logic", "other"}, NEW c, PostLocal(t, c)
      PROVE  OneProcessor'
  BY <1>2, <1>8 DEF PostLocal, config, logic
<1>9. CASE UNCHANGED vars
  BY <1>1, <1>9 DEF vars, config, logic
<1> QED
  BY <1>3, <1>4, <1>5, <1>6, <1>7, <1>8, <1>9 DEF Next, Post

(* Whatever the threads post and whenever, isPosted is on exactly while one   *)
(* ProcessAllPacket is about to be posted, is posted or runs.                 *)
THEOREM OneProcessorAlways == Spec => []OneProcessor
  BY DispatchTypeCorrect, OneProcessorInit, OneProcessorStep, PTL DEF Spec

-----------------------------------------------------------------------------
(* Priorities.  A class that the while condition has just found empty has not *)
(* been passed, so that the packet that is taken next passes a class once.    *)

PassedInv ==
  /\ PassedOnce
  /\ \A c \in Classes : queue[c] = <<>> => passed[c] = 0
  /\ at = "scan" => \A h \in 1..level - 1 : passed[Class[h]] = 0

LEMMA PassedInvInit == Init => PassedInv
  BY DEF Init, PassedInv, PassedOnce

LEMMA PassedInvStep == TypeOK /\ PassedInv /\ [Next]_vars => PassedInv'
<1> SUFFICES ASSUME TypeOK, PassedInv, [Next]_vars PROVE PassedInv'
  OBVIOUS
<1>0. passed \in [Classes -> Nat] /\ level \in 1..5
  BY DEF TypeOK
\* A step that takes nothing from the queues and does not move the scan on.
<1>1. ASSUME passed' = passed,
             \A c \in Classes : queue'[c] = <<>> => queue[c] = <<>>,
             at' = "scan" => level' = 1 \/ (at = "scan" /\ level' = level)
      PROVE  PassedInv'
  BY <1>0, <1>1 DEF PassedInv, PassedOnce
<1>2. ASSUME NEW t, NEW c \in Classes, NEW p \in Packet, Push(t, c, p),
             passed' = passed, at' = at, level' = level
      PROVE  PassedInv'
  <2>1. Append(queue[c], p) # <<>>
    BY DEF TypeOK
  <2>2. \A d \in Classes : queue'[d] = <<>> => queue[d] = <<>>
    BY <1>2, <2>1 DEF Push, TypeOK
  <2> QED
    BY <1>1, <1>2, <2>2
<1>3. CASE Logic
  <2>1. CASE RunProcessAllPacket \/ EndProcessAllPacket \/ Process
    BY <1>1, <2>1 DEF RunProcessAllPacket, EndProcessAllPacket, Process, Deliver,
       NeedsConfirmation, DeliverConfirmed, Drop, FindDisconnected,
       EraseDisconnected, ProcessorsReturn, Again, ToProcessors, logic
  <2>2. CASE TryNext
    <3>1. /\ at = "scan" /\ level \in 1..4 /\ level' = level + 1
          /\ queue[Class[level]] = <<>> /\ queue' = queue /\ passed' = passed
      BY <1>0, <2>2 DEF TryNext
    <3>2. passed[Class[level]] = 0
      BY <3>1, LevelIsClass DEF PassedInv
    <3>3. \A h \in 1..level' - 1 : h \in 1..level - 1 \/ h = level
      BY <3>1
    <3> QED
      BY <3>1, <3>2, <3>3 DEF PassedInv, PassedOnce
  <2>3. CASE Take
    <3>1. /\ at = "scan" /\ at' = "process" /\ level \in 1..4
          /\ passed' = Passed(level)
          /\ queue' = [queue EXCEPT ![Class[level]] = Tail(@)]
      BY <1>0, <2>3 DEF Take
    <3>2. \A c \in Classes : passed'[c] <= 1
      <4> SUFFICES ASSUME NEW c \in Classes PROVE passed'[c] <= 1
        OBVIOUS
      <4>1. passed[c] \in Nat /\ passed[c] <= 1
        BY <1>0 DEF PassedInv, PassedOnce
      <4>2. ASSUME NEW h \in 1..level - 1, Class[h] = c
            PROVE  passed[c] = 0
        BY <3>1, <4>2 DEF PassedInv
      <4> QED
        BY <3>1, <4>1, <4>2 DEF Passed
    <3>3. \A c \in Classes : queue'[c] = <<>> => passed'[c] = 0
      <4> SUFFICES ASSUME NEW c \in Classes, queue'[c] = <<>>
                   PROVE  passed'[c] = 0
        OBVIOUS
      <4>1. c # Class[level] => queue[c] = <<>>
        BY <3>1 DEF TypeOK
      <4> QED
        BY <3>1, <4>1 DEF Passed
    <3> QED
      BY <3>1, <3>2, <3>3 DEF PassedInv, PassedOnce
  <2> QED
    BY <1>3, <2>1, <2>2, <2>3 DEF Logic
<1>4. CASE Io
  <2>1. ASSUME NEW c \in Link, InsertConnection(c) \/ Lose(c)
        PROVE  PassedInv'
    BY <1>1, <2>1 DEF InsertConnection, Lose, logic
  <2>2. ASSUME NEW c \in Link, Decode(c) \/ End(c)
        PROVE  PassedInv'
    BY <1>2, <2>2, PacketsAre, ClassesAre DEF Decode, End, logic
  <2>3. CASE HeartbeatTimeout
    BY <1>2, <2>3, PacketsAre, ClassesAre DEF HeartbeatTimeout, logic
  <2> QED
    BY <1>4, <2>1, <2>2, <2>3 DEF Io
<1>5. CASE UpdateTimer
  BY <1>2, <1>5, PacketsAre, ClassesAre DEF UpdateTimer, logic
<1>6. ASSUME NEW t \in Thread, Post(t)
      PROVE  PassedInv'
  BY <1>1, <1>6 DEF Post, SwapIsPosted, PostHandler, logic
<1>7. ASSUME NEW t, NEW c \in {"debug", "db"}, PostLocal(t, c)
      PROVE  PassedInv'
  BY <1>2, <1>7, PacketsAre, ClassesAre DEF PostLocal, logic
<1>8. CASE UNCHANGED vars
  BY <1>1, <1>8 DEF vars, logic
<1> QED
  BY <1>3, <1>4, <1>5, <1>6, <1>7, <1>8 DEF Next

(* However fast packets come, a packet is passed by at most one of a lower    *)
(* class.                                                                     *)
THEOREM PassedOnceAlways == Spec => []PassedOnce
<1>1. PassedInv => PassedOnce
  BY DEF PassedInv
<1> QED
  BY DispatchTypeCorrect, PassedInvInit, PassedInvStep, <1>1, PTL DEF Spec
=============================================================================
