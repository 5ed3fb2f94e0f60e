---------------------------- MODULE SendPipeProofs ----------------------------
(***************************************************************************)
(* TcpConnection implements SendPipe, for every bound and set of events.   *)
(***************************************************************************)
EXTENDS TcpConnectionProofs

-----------------------------------------------------------------------------
(* The strengthened invariant. *)

\* The numbers of the accepted packets increase, and a number that a Send under
\* way has taken is larger than all of them.
AcceptedIncreases ==
  /\ \A i \in DOMAIN accepted : accepted[i] <= sendSequenceNumber
  /\ logic = "sending" =>
       \A i \in DOMAIN accepted : accepted[i] < sendSequenceNumber
  /\ \A i, j \in DOMAIN accepted : i < j => accepted[i] < accepted[j]

\* Nothing accepted is lost while the socket is open.
NothingSkipped ==
  socket = "open" => accepted = (wire \o sortSendMap) \o sendQueue

\* Nobody closes without a call of Close.
CloseWasCalled ==
  /\ \A mode \in Mode : postedClose[mode] > 0 => closeCalls > 0
  /\ closeStatus = "1_CLOSING" => closeCalls > 0
  /\ closeCalls > 0 => flushMark <= Len(accepted)

\* The shutdown comes when everything has been flushed.
FlushedBeforeShut ==
  io = "drained" /\ closeStatus = "1_CLOSING" /\ socket = "open" =>
    Len(wire) >= flushMark

PipeInv == AcceptedIncreases /\ NothingSkipped /\ CloseWasCalled
           /\ FlushedBeforeShut

-----------------------------------------------------------------------------
(* A packet that sorts after all others is inserted at the end. *)

LEMMA InsertLast ==
  ASSUME NEW S \in SUBSET Nat, NEW s \in Seq(S), NEW x \in S,
         \A i \in DOMAIN s : s[i] < x
  PROVE  InsertSorted(s, x) = Append(s, x)
<1>1. DOMAIN s = 1..Len(s) /\ Len(s) \in Nat
  OBVIOUS
<1>2. {i \in DOMAIN s : s[i] < x} = 1..Len(s)
  BY <1>1
<1>3. Cardinality(1..Len(s)) = Len(s)
  <2>1. 1 \in Int /\ Len(s) \in Int
    BY <1>1
  <2>2. Cardinality(1..Len(s)) = IF 1 > Len(s) THEN 0 ELSE Len(s)-1+1
    BY <2>1, FS_Interval, Zenon
  <2> QED
    BY <1>1, <2>2
<1>4. ~\E i \in DOMAIN s : s[i] = x
  <2>1. \A i \in DOMAIN s : s[i] \in S
    BY <1>1, ElementOfSeq
  <2>2. \A i \in DOMAIN s : s[i] \in Nat
    BY <2>1
  <2>3. x \in Nat
    OBVIOUS
  <2> QED
    BY <2>2, <2>3
<1>5. SubSeq(s, 1, Len(s)) = s
  BY SubSeqFull
<1>6. SubSeq(s, Len(s) + 1, Len(s)) = <<>>
  <2>1. Len(s) + 1 \in Int /\ Len(s) \in Int /\ Len(s) < Len(s) + 1
    BY <1>1
  <2> QED
    BY <2>1, SubSeqEmpty
<1>7. (s \o <<x>>) \o <<>> = Append(s, x)
  <2>1. s \o <<x>> = Append(s, x)
    BY AppendIsConcat
  <2>2. Append(s, x) \in Seq(S)
    OBVIOUS
  <2>3. Append(s, x) \o <<>> = Append(s, x)
    BY <2>2, ConcatEmptySeq
  <2> QED
    BY <2>1, <2>3
<1>8. InsertSorted(s, x)
      = (SubSeq(s, 1, Len(s)) \o <<x>>) \o SubSeq(s, Len(s) + 1, Len(s))
  BY <1>2, <1>3, <1>4, Zenon DEF InsertSorted
<1> QED
  BY <1>5, <1>6, <1>7, <1>8, Zenon

-----------------------------------------------------------------------------
(* The invariant holds initially. *)

LEMMA PipeInvInit == Init => PipeInv
  BY DEF Init, PipeInv, AcceptedIncreases, NothingSkipped, CloseWasCalled,
         FlushedBeforeShut, Mode

-----------------------------------------------------------------------------
(* What the proofs below need of the types. *)

Queued == /\ accepted \in Seq(1..MaxSend) /\ wire \in Seq(1..MaxSend)
          /\ sortSendMap \in Seq(1..MaxSend) /\ sendQueue \in Seq(1..MaxSend)
          /\ sendSequenceNumber \in Nat
          /\ closeCalls \in Nat /\ flushMark \in Nat

LEMMA QueuedFromType == TypeInv => Queued
  BY BoundsAreNat DEF TypeInv, TypeOK, SharedOK, ThreadsOK, HistoryOK, Queued

\* Write: the packet is accepted and queued at once.
LEMMA PushKeepsOrder ==
  ASSUME Queued, TypeInv, PipeInv, WritePush
  PROVE  AcceptedIncreases' /\ NothingSkipped'
<1> DEFINE Packets == 1..MaxSend
           x == sendSequenceNumber
<1>1. x \in Packets /\ x \in Nat
  BY DEF WritePush, TypeInv, SendingHasNumber, Queued
<1>2. /\ accepted' = Append(accepted, x) /\ sendQueue' = Append(sendQueue, x)
      /\ UNCHANGED <<wire, sortSendMap, socket, sendSequenceNumber>>
      /\ logic = "sending" /\ logic' = "pushed"
  BY DEF WritePush, net
<1>3. /\ Len(accepted') = Len(accepted) + 1
      /\ \A i \in 1..Len(accepted) : accepted'[i] = accepted[i]
      /\ accepted'[Len(accepted) + 1] = x
      /\ accepted' \in Seq(Packets)
  <2>1. accepted \in Seq(Packets)
    BY DEF Queued
  <2> HIDE DEF Packets, x
  <2> QED
    BY <1>1, <1>2, <2>1, AppendProperties
<1>4. AcceptedIncreases'
  <2>1. /\ DOMAIN accepted = 1..Len(accepted) /\ Len(accepted) \in Nat
        /\ DOMAIN accepted' = 1..(Len(accepted) + 1)
    <3>1. accepted \in Seq(Packets)
      BY DEF Queued
    <3> QED
      BY <3>1, <1>3, LenProperties
  <2>2. \A i \in DOMAIN accepted : accepted[i] < x
    BY <1>2 DEF PipeInv, AcceptedIncreases
  <2>3. \A i, j \in DOMAIN accepted : i < j => accepted[i] < accepted[j]
    BY DEF PipeInv, AcceptedIncreases
  <2>4. \A i \in DOMAIN accepted : accepted[i] \in Nat
    <3>1. \A i \in DOMAIN accepted : accepted[i] \in Packets
      BY <2>1, ElementOfSeq DEF Queued
    <3> QED
      BY <3>1
  <2>5. \A i \in DOMAIN accepted' : accepted'[i] <= x
    BY <1>1, <1>3, <2>1, <2>2, <2>4
  <2>6. \A i, j \in DOMAIN accepted' : i < j => accepted'[i] < accepted'[j]
    BY <1>1, <1>3, <2>1, <2>2, <2>3
  <2> QED
    BY <1>2, <2>5, <2>6 DEF AcceptedIncreases
<1>5. NothingSkipped'
  <2> SUFFICES ASSUME socket = "open"
               PROVE  accepted' = (wire \o sortSendMap) \o sendQueue'
    BY <1>2 DEF NothingSkipped
  <2> DEFINE done == wire \o sortSendMap
  <2>1. accepted = done \o sendQueue
    BY DEF PipeInv, NothingSkipped
  <2>2. /\ done \in Seq(Packets) /\ sendQueue \in Seq(Packets)
        /\ accepted \in Seq(Packets) /\ <<x>> \in Seq(Packets)
    BY <1>1 DEF Queued
  <2> HIDE DEF done, Packets, x
  <2>3. accepted' = accepted \o <<x>> /\ sendQueue' = sendQueue \o <<x>>
    BY <1>1, <1>2, <2>2, AppendIsConcat
  <2>4. (done \o sendQueue) \o <<x>> = done \o (sendQueue \o <<x>>)
    BY <2>2, ConcatAssociative
  <2> QED
    BY <2>1, <2>3, <2>4 DEF done
<1> QED
  BY <1>4, <1>5

\* write_core: the next packet sorts after those popped before it.
LEMMA DrainKeepsOrder ==
  ASSUME Queued, PipeInv, Drain
  PROVE  NothingSkipped'
<1> DEFINE Packets == 1..MaxSend
           x == Head(sendQueue)
           rest == Tail(sendQueue)
           done == wire \o sortSendMap
<1> SUFFICES ASSUME socket = "open"
             PROVE  accepted' = (wire' \o sortSendMap') \o sendQueue'
  BY DEF Drain, net, NothingSkipped
<1>1. /\ sendQueue # <<>> /\ sendQueue' = rest
      /\ sortSendMap' = InsertSorted(sortSendMap, x)
      /\ UNCHANGED <<accepted, wire>>
  BY DEF Drain, history
<1>2. /\ wire \in Seq(Packets) /\ sortSendMap \in Seq(Packets)
      /\ sendQueue \in Seq(Packets) /\ done \in Seq(Packets)
  BY DEF Queued
<1>3. x \in Packets /\ rest \in Seq(Packets) /\ <<x>> \in Seq(Packets)
  <2> HIDE DEF Packets
  <2>1. x \in Packets /\ rest \in Seq(Packets)
    BY <1>1, <1>2, HeadTailProperties
  <2> QED
    BY <2>1
<1>4. sendQueue = <<x>> \o rest
  BY <1>1, <1>2
<1>5. accepted = done \o sendQueue
  BY DEF PipeInv, NothingSkipped
<1>6. \A i \in DOMAIN sortSendMap : sortSendMap[i] < x
  <2> HIDE DEF Packets
  <2>1. /\ Len(wire) \in Nat /\ Len(sortSendMap) \in Nat
        /\ Len(sendQueue) \in Nat /\ Len(sendQueue) > 0
        /\ DOMAIN sortSendMap = 1..Len(sortSendMap)
    <3>1. Len(sendQueue) \in Nat \ {0}
      BY <1>1, <1>2, EmptySeq
    <3> QED
      BY <1>2, <3>1, LenProperties
  <2>2. /\ Len(done) = Len(wire) + Len(sortSendMap)
        /\ \A i \in 1..Len(sortSendMap) : done[Len(wire) + i] = sortSendMap[i]
    <3>1. /\ Len(done) = Len(wire) + Len(sortSendMap)
          /\ \A i \in 1..Len(wire) + Len(sortSendMap) :
               done[i] = IF i <= Len(wire) THEN wire[i]
                                           ELSE sortSendMap[i - Len(wire)]
      BY <1>2, ConcatProperties
    <3> HIDE DEF done
    <3> QED
      BY <2>1, <3>1
  <2>3. /\ Len(accepted) = Len(done) + Len(sendQueue)
        /\ \A i \in 1..Len(done) : accepted[i] = done[i]
        /\ accepted[Len(done) + 1] = sendQueue[1]
        /\ DOMAIN accepted = 1..Len(accepted)
    <3> HIDE DEF done
    <3>1. /\ Len(accepted) = Len(done) + Len(sendQueue)
          /\ \A i \in 1..Len(done) + Len(sendQueue) :
               accepted[i] = IF i <= Len(done) THEN done[i]
                                               ELSE sendQueue[i - Len(done)]
          /\ accepted \in Seq(Packets)
      BY <1>2, <1>5, ConcatProperties
    <3>2. DOMAIN accepted = 1..Len(accepted) /\ Len(done) \in Nat
      BY <1>2, <3>1, LenProperties
    <3> QED
      BY <2>1, <3>1, <3>2
  <2>4. sendQueue[1] = x
    BY <1>1, <1>2
  <2> HIDE DEF done, x
  <2> SUFFICES ASSUME NEW i \in 1..Len(sortSendMap)
               PROVE  sortSendMap[i] < x
    BY <2>1
  <2>5. /\ Len(wire) + i \in DOMAIN accepted
        /\ Len(done) + 1 \in DOMAIN accepted
        /\ Len(wire) + i < Len(done) + 1
    BY <2>1, <2>2, <2>3
  <2>6. accepted[Len(wire) + i] < accepted[Len(done) + 1]
    BY <2>5 DEF PipeInv, AcceptedIncreases
  <2>7. accepted[Len(wire) + i] = sortSendMap[i]
    BY <2>1, <2>2, <2>3
  <2> QED
    BY <2>3, <2>4, <2>6, <2>7
<1>7. sortSendMap' = sortSendMap \o <<x>>
  <2>1. Packets \in SUBSET Nat
    OBVIOUS
  <2> HIDE DEF Packets, x
  <2>2. InsertSorted(sortSendMap, x) = Append(sortSendMap, x)
    BY <1>2, <1>3, <1>6, <2>1, InsertLast
  <2> QED
    BY <1>1, <1>2, <1>3, <2>2, AppendIsConcat
<1>8. (wire \o (sortSendMap \o <<x>>)) \o rest = done \o sendQueue
  <2> HIDE DEF Packets, x, rest
  <2>1. wire \o (sortSendMap \o <<x>>) = done \o <<x>>
    BY <1>2, <1>3, ConcatAssociative
  <2>2. (done \o <<x>>) \o rest = done \o (<<x>> \o rest)
    <3> HIDE DEF done
    <3> QED BY <1>2, <1>3, ConcatAssociative
  <2> QED
    BY <1>4, <2>1, <2>2
<1> QED
  BY <1>1, <1>5, <1>7, <1>8

\* The end of write_core: all that was popped goes to an open socket.
LEMMA DrainEndFlushes ==
  ASSUME Queued, PipeInv, DrainEnd, socket = "open"
  PROVE  /\ wire' = wire \o sortSendMap
         /\ accepted' = wire' /\ sortSendMap' = <<>> /\ sendQueue' = <<>>
<1> DEFINE Packets == 1..MaxSend
<1>1. /\ wire \in Seq(Packets) /\ sortSendMap \in Seq(Packets)
      /\ wire \o sortSendMap \in Seq(Packets)
  BY DEF Queued
<1> HIDE DEF Packets
<1>2. /\ sendQueue = <<>> /\ sendQueue' = sendQueue /\ accepted' = accepted
      /\ sortSendMap' = <<>>
  BY DEF DrainEnd, shared
<1>3. accepted = (wire \o sortSendMap) \o sendQueue
  BY DEF PipeInv, NothingSkipped
<1>4. accepted = wire \o sortSendMap
  BY <1>1, <1>2, <1>3, ConcatEmptySeq
<1>5. wire' = wire \o sortSendMap
  <2>1. CASE sortSendMap = <<>>
    <3>1. wire' = wire
      BY <2>1 DEF DrainEnd
    <3> QED
      BY <1>1, <2>1, <3>1, ConcatEmptySeq
  <2>2. CASE sortSendMap # <<>>
    BY <2>2 DEF DrainEnd
  <2> QED
    BY <2>1, <2>2
<1> QED
  BY <1>2, <1>4, <1>5

-----------------------------------------------------------------------------
(* The invariant is inductive, given the types.                              *)

LEMMA PipeInvStep == TypeInv /\ PipeInv /\ [Next]_vars => PipeInv'
<1> SUFFICES ASSUME TypeInv, PipeInv, [Next]_vars PROVE PipeInv'
  OBVIOUS
<1>0. Queued /\ io \in {"run", "drain", "drained"}
  BY QueuedFromType DEF TypeInv, TypeOK, ThreadsOK
<1>00. postedClose \in [Mode -> Nat]
  BY DEF TypeInv, TypeOK, QueuesOK
\* A step that accepts nothing and starts no Send.
<1>1. ASSUME UNCHANGED <<accepted, sendSequenceNumber>>,
             logic' = "sending" => logic = "sending"
      PROVE  AcceptedIncreases'
  BY <1>1 DEF PipeInv, AcceptedIncreases
\* A step that moves no packet.
<1>2. ASSUME UNCHANGED <<accepted, wire, sortSendMap, sendQueue>>,
             socket' = "open" => socket = "open"
      PROVE  NothingSkipped'
  BY <1>2 DEF PipeInv, NothingSkipped
\* A step that does not start to close.
<1>3. ASSUME UNCHANGED <<closeCalls, flushMark, accepted>>,
             postedClose' = postedClose,
             closeStatus' = "1_CLOSING" => closeStatus = "1_CLOSING"
      PROVE  CloseWasCalled'
  BY <1>3 DEF PipeInv, CloseWasCalled
\* A call of Close.
<1>4. ASSUME NEW mode \in Mode, Close(mode), accepted' = accepted,
             wire' = wire, socket' = socket, io' = io,
             closeStatus' = closeStatus
      PROVE  CloseWasCalled' /\ FlushedBeforeShut'
  <2>1. closeCalls \in Nat /\ closeCalls' = closeCalls + 1
    BY <1>0, <1>4 DEF Close, Queued
  <2>2. flushMark' <= Len(accepted)
    <3>1. Len(accepted) \in Nat
      BY <1>0 DEF Queued
    <3>2. flushMark' = IF closeCalls = 0 THEN Len(accepted) ELSE flushMark
      BY <1>4 DEF Close
    <3>3. closeCalls > 0 => flushMark <= Len(accepted)
      BY DEF PipeInv, CloseWasCalled
    <3> QED
      BY <2>1, <3>1, <3>2, <3>3
  <2>3. CloseWasCalled'
    BY <1>4, <2>1, <2>2 DEF CloseWasCalled
  <2>4. FlushedBeforeShut'
    <3>1. closeStatus = "1_CLOSING" => flushMark' = flushMark
      BY <1>4, <2>1 DEF Close, PipeInv, CloseWasCalled
    <3> QED
      BY <1>4, <3>1 DEF PipeInv, FlushedBeforeShut
  <2> QED
    BY <2>3, <2>4
\* A step that does not finish write_core.
<1>5. ASSUME UNCHANGED <<wire, flushMark>>,
             io' = "drained" => io = "drained",
             closeStatus' = "1_CLOSING" => closeStatus = "1_CLOSING",
             socket' = "open" => socket = "open"
      PROVE  FlushedBeforeShut'
  BY <1>5 DEF PipeInv, FlushedBeforeShut
<1>6. CASE Logic
  <2>1. CASE SendBegin
    <3>1. AcceptedIncreases'
      <4>1. /\ accepted' = accepted
            /\ sendSequenceNumber' = sendSequenceNumber + 1
            /\ sendSequenceNumber \in Nat
        BY <1>0, <2>1 DEF SendBegin, history, Queued
      <4>2. \A i \in DOMAIN accepted : accepted[i] \in Nat
        <5>1. accepted \in Seq(1..MaxSend) /\ DOMAIN accepted = 1..Len(accepted)
          BY <1>0 DEF Queued
        <5>2. \A i \in DOMAIN accepted : accepted[i] \in 1..MaxSend
          BY <5>1, ElementOfSeq
        <5> QED
          BY <5>2
      <4> QED
        BY <4>1, <4>2 DEF PipeInv, AcceptedIncreases
    <3> QED
      BY <1>2, <1>3, <1>5, <2>1, <3>1
         DEF SendBegin, net, queues, history, PipeInv
  <2>2. CASE SendRefused
    BY <1>1, <1>2, <1>3, <1>5, <2>2
       DEF SendRefused, shared, net, queues, history, PipeInv
  <2>3. CASE SendTooLarge
    BY <1>1, <1>2, <1>3, <1>5, <2>3 DEF SendTooLarge, net, queues, PipeInv
  <2>4. CASE WritePush
    <3>1. AcceptedIncreases' /\ NothingSkipped'
      BY <1>0, <2>4, PushKeepsOrder
    <3>2. CloseWasCalled'
      <4>1. Len(accepted') = Len(accepted) + 1 /\ Len(accepted) \in Nat
        BY <1>0, <2>4 DEF WritePush, TypeInv, SendingHasNumber, Queued
      <4>2. UNCHANGED <<closeCalls, flushMark, postedClose, closeStatus>>
        BY <2>4 DEF WritePush, queues
      <4> QED
        BY <1>0, <4>1, <4>2 DEF PipeInv, CloseWasCalled, Queued
    <3>3. FlushedBeforeShut'
      BY <1>5, <2>4 DEF WritePush, net
    <3> QED
      BY <3>1, <3>2, <3>3 DEF PipeInv
  <2>5. CASE WriteCAS
    BY <1>1, <1>2, <1>3, <1>5, <2>5 DEF WriteCAS, net, queues, history, PipeInv
  <2>6. CASE WritePost
    BY <1>1, <1>2, <1>3, <1>5, <2>6
       DEF WritePost, shared, net, history, PipeInv
  <2>7. CASE CloseBegin
    BY <1>1, <1>2, <1>3, <1>5, <2>7 DEF CloseBegin, net, queues, PipeInv
  <2>8. CASE ClosePost
    BY <1>1, <1>2, <1>4, <2>8 DEF ClosePost, shared, net, Mode, PipeInv
  <2>9. CASE ProcessDisconnected
    BY <1>1, <1>2, <1>3, <1>5, <2>9
       DEF ProcessDisconnected, shared, net, history, PipeInv
  <2> QED
    BY <1>6, <2>1, <2>2, <2>3, <2>4, <2>5, <2>6, <2>7, <2>8, <2>9 DEF Logic
<1>7. CASE Io
  <2>1. CASE RunWriteImpl
    BY <1>1, <1>2, <1>3, <1>5, <2>1
       DEF RunWriteImpl, EnterWriteImpl, shared, net, history, PipeInv
  <2>2. CASE RunWriteTimer
    BY <1>1, <1>2, <1>3, <1>5, <2>2
       DEF RunWriteTimer, EnterWriteImpl, shared, net, history, PipeInv
  <2>3. CASE OnWritten
    BY <1>1, <1>2, <1>3, <1>5, <2>3
       DEF OnWritten, EnterWriteImpl, shared, queues, history, PipeInv
  <2>4. CASE OnWrittenError
    BY <1>1, <1>2, <1>3, <1>5, <2>4
       DEF OnWrittenError, CloseCore, history, PipeInv
  <2>5. CASE Drain
    <3>1. NothingSkipped'
      BY <1>0, <2>5, DrainKeepsOrder
    <3> QED
      BY <1>1, <1>3, <1>5, <2>5, <3>1 DEF Drain, net, queues, history, PipeInv
  <2>6. CASE DrainEnd
    <3>1. AcceptedIncreases' /\ CloseWasCalled'
      BY <1>1, <1>3, <2>6 DEF DrainEnd, shared, queues
    <3>2. NothingSkipped'
      <4> SUFFICES ASSUME socket = "open"
                   PROVE  accepted' = (wire' \o sortSendMap') \o sendQueue'
        BY <2>6 DEF DrainEnd, NothingSkipped
      <4>1. /\ wire' = wire \o sortSendMap
            /\ accepted' = wire' /\ sortSendMap' = <<>> /\ sendQueue' = <<>>
        BY <1>0, <2>6, DrainEndFlushes
      <4>2. wire' \in Seq(1..MaxSend)
        BY <1>0, <4>1 DEF Queued
      <4> QED
        BY <4>1, <4>2, ConcatEmptySeq
    <3>3. FlushedBeforeShut'
      <4> SUFFICES ASSUME socket = "open", closeStatus = "1_CLOSING"
                   PROVE  Len(wire') >= flushMark'
        BY <2>6 DEF DrainEnd, shared, FlushedBeforeShut
      <4>1. accepted' = wire' /\ UNCHANGED <<accepted, flushMark>>
        BY <1>0, <2>6, DrainEndFlushes DEF DrainEnd
      <4>2. flushMark <= Len(accepted)
        BY DEF PipeInv, CloseWasCalled
      <4>3. Len(accepted) \in Nat /\ flushMark \in Nat
        BY <1>0 DEF Queued
      <4> QED
        BY <4>1, <4>2, <4>3
    <3> QED
      BY <3>1, <3>2, <3>3 DEF PipeInv
  <2>7. CASE WriteDone
    <3>1. /\ closeStatus' = "1_CLOSING" => closeStatus = "1_CLOSING"
          /\ socket' = "open" => socket = "open"
      BY <2>7 DEF WriteDone, CloseCore, NoCloseCore
    <3>2. /\ UNCHANGED <<accepted, wire, sortSendMap, sendQueue, logic,
                         sendSequenceNumber, closeCalls, flushMark>>
          /\ postedClose' = postedClose /\ io' = "run"
      BY <2>7 DEF WriteDone, history
    <3> QED
      BY <1>1, <1>2, <1>3, <1>5, <3>1, <3>2 DEF PipeInv
  <2>8. ASSUME NEW mode \in Mode, CloseImpl(mode)
        PROVE  PipeInv'
    <3>1. /\ UNCHANGED <<accepted, wire, sortSendMap, sendQueue, logic, io,
                         sendSequenceNumber, closeCalls, flushMark>>
          /\ io = "run" /\ postedClose[mode] > 0
          /\ postedClose' = [postedClose EXCEPT ![mode] = @ - 1]
          /\ socket' = "open" => socket = "open"
      BY <2>8 DEF CloseImpl, CloseCore, history
    <3>2. CloseWasCalled'
      <4>1. closeCalls > 0
        BY <3>1 DEF PipeInv, CloseWasCalled
      <4> QED
        BY <3>1, <4>1 DEF PipeInv, CloseWasCalled
    <3> QED
      BY <1>1, <1>2, <3>1, <3>2 DEF PipeInv, FlushedBeforeShut
  <2>9. ASSUME NEW reconnect \in BOOLEAN, ReadEnds(reconnect)
        PROVE  PipeInv'
    <3>1. UNCHANGED <<accepted, wire, sortSendMap, sendQueue, logic, io,
                      sendSequenceNumber>>
      BY <2>9 DEF ReadEnds
    <3>2. CASE guid /\ closeStatus = "CLOSE_WRITE"
      <4>1. /\ UNCHANGED <<postedClose, closeCalls, flushMark>>
            /\ closeStatus' = "CLOSE_FULL" /\ socket' = "closed"
        BY <2>9, <3>2 DEF ReadEnds, CloseCore
      <4> QED
        BY <1>1, <1>2, <1>3, <1>5, <3>1, <4>1 DEF PipeInv
    <3>3. CASE guid /\ closeStatus # "CLOSE_WRITE"
      <4>1. /\ Close("passive") /\ "passive" \in Mode
            /\ closeStatus' = closeStatus /\ socket' = socket
        BY <2>9, <3>3 DEF ReadEnds, NoCloseCore, Mode
      <4> QED
        BY <1>1, <1>2, <1>4, <3>1, <4>1 DEF PipeInv
    <3>4. CASE ~guid
      <4>1. /\ UNCHANGED <<postedClose, closeCalls, flushMark>>
            /\ closeStatus' = closeStatus /\ socket' = socket
        BY <2>9, <3>4 DEF ReadEnds, NoCloseCore
      <4> QED
        BY <1>1, <1>2, <1>3, <1>5, <3>1, <4>1 DEF PipeInv
    <3> QED
      BY <3>2, <3>3, <3>4
  <2>10. CASE OnReadEof
    BY <2>9, <2>10 DEF OnReadEof
  <2>11. CASE OnReadError
    BY <2>9, <2>11 DEF OnReadError
  <2>12. CASE OnRead
    BY <1>1, <1>2, <1>3, <1>5, <2>12
       DEF OnRead, shared, queues, history, PipeInv
  <2>13. CASE OnReadFull
    BY <1>1, <1>2, <1>4, <2>13 DEF OnReadFull, shared, Mode, PipeInv
  <2>14. CASE OnReadBad
    BY <1>1, <1>2, <1>4, <2>14 DEF OnReadBad, net, Mode, PipeInv
  <2>15. CASE Replace
    BY <1>1, <1>2, <1>3, <1>5, <2>15 DEF Replace, queues, history, PipeInv
  <2>16. CASE HeartbeatTimeout
    BY <1>1, <1>2, <1>3, <1>5, <2>16
       DEF HeartbeatTimeout, shared, net, history, PipeInv
  <2>17. CASE HeartbeatClose
    BY <1>1, <1>2, <1>4, <2>17 DEF HeartbeatClose, shared, net, Mode, PipeInv
  <2> QED
    BY <1>7, <2>1, <2>2, <2>3, <2>4, <2>5, <2>6, <2>7, <2>8, <2>10, <2>11,
       <2>12, <2>13, <2>14, <2>15, <2>16, <2>17
       DEF Io, Write, Net
<1>8. CASE UNCHANGED vars
  BY <1>1, <1>2, <1>3, <1>5, <1>8
     DEF vars, shared, net, queues, history, PipeInv
<1> QED
  BY <1>6, <1>7, <1>8 DEF Next

-----------------------------------------------------------------------------
(* Every step of TcpConnection is a step of SendPipe, or stutters.           *)

LEMMA PipeInit == Init => Pipe!Init
  BY DEF Init, Pipe!Init

LEMMA PipeStep ==
  TypeInv /\ PipeInv /\ [Next]_vars => [Pipe!Next]_(Pipe!vars)
<1> SUFFICES ASSUME TypeInv, PipeInv, [Next]_vars
             PROVE  [Pipe!Next]_(Pipe!vars)
  OBVIOUS
<1>0. Queued
  BY QueuedFromType
\* A step that SendPipe does not see.
<1>1. ASSUME UNCHANGED <<accepted, wire, socket, closeCalls, flushMark>>
      PROVE  [Pipe!Next]_(Pipe!vars)
  BY <1>1 DEF Pipe!vars
\* The socket is closed.
<1>2. ASSUME UNCHANGED <<accepted, wire, closeCalls, flushMark>>,
             socket' = "closed"
      PROVE  [Pipe!Next]_(Pipe!vars)
  BY <1>2 DEF Pipe!Next, Pipe!Die
\* A call of Close: the first one is noted, the others are not.
<1>3. ASSUME NEW mode \in Mode, Close(mode),
             UNCHANGED <<accepted, wire, socket>>
      PROVE  [Pipe!Next]_(Pipe!vars)
  <2>1. closeCalls \in Nat /\ closeCalls' = closeCalls + 1
    BY <1>0, <1>3 DEF Close, Queued
  <2>2. CASE closeCalls = 0
    <3>1. flushMark' = Len(accepted)
      BY <1>3, <2>2 DEF Close
    <3>2. ~(closeCalls > 0) /\ (closeCalls' > 0)
      BY <2>1, <2>2
    <3> QED
      BY <1>3, <3>1, <3>2 DEF Pipe!Next, Pipe!AskClose
  <2>3. CASE closeCalls # 0
    <3>1. flushMark' = flushMark
      BY <1>3, <2>3 DEF Close
    <3>2. (closeCalls > 0) /\ (closeCalls' > 0)
      BY <2>1, <2>3
    <3> QED
      BY <1>3, <3>1, <3>2 DEF Pipe!vars
  <2> QED
    BY <2>2, <2>3
<1>4. CASE Logic
  <2>1. CASE WritePush
    <3>1. /\ sendSequenceNumber \in 1..MaxSend
          /\ accepted' = Append(accepted, sendSequenceNumber)
          /\ UNCHANGED <<wire, socket, closeCalls, flushMark>>
      BY <2>1 DEF WritePush, net, TypeInv, SendingHasNumber
    <3> QED
      BY <3>1 DEF Pipe!Next, Pipe!Accept
  <2>2. CASE ClosePost
    BY <1>3, <2>2 DEF ClosePost, net, Mode
  <2>3. CASE SendBegin \/ SendRefused \/ SendTooLarge \/ WriteCAS \/ WritePost
             \/ CloseBegin \/ ProcessDisconnected
    BY <1>1, <2>3 DEF SendBegin, SendRefused, SendTooLarge, WriteCAS, WritePost,
       CloseBegin, ProcessDisconnected, net, history
  <2> QED
    BY <1>4, <2>1, <2>2, <2>3 DEF Logic
<1>5. CASE Io
  <2>1. CASE RunWriteImpl \/ RunWriteTimer \/ OnWritten \/ Drain \/ OnRead
             \/ HeartbeatTimeout
    BY <1>1, <2>1 DEF RunWriteImpl, RunWriteTimer, OnWritten, Drain, OnRead,
       HeartbeatTimeout, net, history
  <2>2. CASE OnWrittenError \/ Replace
    BY <1>2, <2>2 DEF OnWrittenError, CloseCore, Replace, history
  <2>3. CASE DrainEnd
    <3>1. CASE socket = "open" /\ sortSendMap # <<>>
      <4>1. /\ wire' = wire \o sortSendMap
            /\ accepted' = wire' /\ accepted' = accepted
            /\ UNCHANGED <<socket, closeCalls, flushMark>>
        BY <1>0, <2>3, <3>1, DrainEndFlushes DEF DrainEnd
      <4>2. /\ wire \in Seq(1..MaxSend) /\ sortSendMap \in Seq(1..MaxSend)
            /\ accepted \in Seq(1..MaxSend)
        BY <1>0 DEF Queued
      <4>3. /\ Len(accepted) = Len(wire) + Len(sortSendMap)
            /\ Len(wire) \in Nat /\ Len(sortSendMap) \in Nat \ {0}
        <5>1. Len(wire \o sortSendMap) = Len(wire) + Len(sortSendMap)
          BY <4>2, ConcatProperties
        <5>2. Len(wire) \in Nat /\ Len(sortSendMap) \in Nat \ {0}
          BY <3>1, <4>2, EmptySeq, LenProperties
        <5> QED
          BY <4>1, <5>1, <5>2
      <4>4. Len(accepted) \in Len(wire) + 1 .. Len(accepted)
        BY <4>3
      <4>5. wire' = SubSeq(accepted, 1, Len(accepted))
        BY <4>1, <4>2, SubSeqFull
      <4> QED
        BY <3>1, <4>1, <4>4, <4>5 DEF Pipe!Next, Pipe!HandOver
    <3>2. CASE ~(socket = "open" /\ sortSendMap # <<>>)
      BY <1>1, <2>3, <3>2 DEF DrainEnd
    <3> QED
      BY <3>1, <3>2
  <2>4. CASE WriteDone
    <3>1. UNCHANGED <<accepted, wire, closeCalls, flushMark>>
      BY <2>4 DEF WriteDone, history
    <3>2. CASE socket' = socket
      BY <1>1, <3>1, <3>2
    <3>3. CASE socket' = "closed"
      BY <1>2, <3>1, <3>3
    <3>4. CASE socket = "open" /\ closeStatus = "1_CLOSING" /\ socket' = "shut"
      <4>1. closeCalls > 0 /\ Len(wire) >= flushMark
        BY <2>4, <3>4 DEF WriteDone, PipeInv, CloseWasCalled, FlushedBeforeShut
      <4>2. closeCalls' > 0
        BY <3>1, <4>1
      <4> QED
        BY <3>1, <3>4, <4>1, <4>2 DEF Pipe!Next, Pipe!Shut
    <3> QED
      BY <2>4, <3>2, <3>3, <3>4 DEF WriteDone, CloseCore, NoCloseCore
  <2>5. ASSUME NEW mode \in Mode, CloseImpl(mode)
        PROVE  [Pipe!Next]_(Pipe!vars)
    BY <1>1, <1>2, <2>5 DEF CloseImpl, CloseCore, history
  <2>6. ASSUME NEW reconnect \in BOOLEAN, ReadEnds(reconnect)
        PROVE  [Pipe!Next]_(Pipe!vars)
    <3>1. accepted' = accepted /\ wire' = wire /\ "passive" \in Mode
      BY <2>6 DEF ReadEnds, Mode
    <3>2. CASE guid /\ closeStatus = "CLOSE_WRITE"
      BY <1>2, <2>6, <3>1, <3>2 DEF ReadEnds, CloseCore
    <3>3. CASE guid /\ closeStatus # "CLOSE_WRITE"
      BY <1>3, <2>6, <3>1, <3>3 DEF ReadEnds, NoCloseCore
    <3>4. CASE ~guid
      BY <1>1, <2>6, <3>1, <3>4 DEF ReadEnds, NoCloseCore
    <3> QED
      BY <3>2, <3>3, <3>4
  <2>7. CASE OnReadEof \/ OnReadError
    BY <2>6, <2>7 DEF OnReadEof, OnReadError
  <2>8. CASE OnReadFull \/ OnReadBad \/ HeartbeatClose
    BY <1>3, <2>8 DEF OnReadFull, OnReadBad, HeartbeatClose, net, Mode
  <2> QED
    BY <1>5, <2>1, <2>2, <2>3, <2>4, <2>5, <2>7, <2>8 DEF Io, Write, Net
<1>6. CASE UNCHANGED vars
  BY <1>1, <1>6 DEF vars, net, history
<1> QED
  BY <1>4, <1>5, <1>6 DEF Next

(* The send side of a connection keeps the promise of SendPipe: whatever the  *)
(* logic thread, the handlers and the network do, the packets that Write      *)
(* accepted reach the socket in order, each once and none skipped, nothing    *)
(* follows the shutdown of the send half, and the shutdown comes only after   *)
(* everything accepted before the first Close.                                *)
THEOREM SendSideIsAPipe == Spec => PipeSpec
<1>1. TypeInv /\ PipeInv /\ [Next]_vars => TypeInv' /\ PipeInv'
  BY TypeInvStep, PipeInvStep
<1>2. Init => TypeInv /\ PipeInv
  BY TypeInvInit, PipeInvInit
<1> QED
  BY <1>1, <1>2, PipeInit, PipeStep, PTL DEF Spec, PipeSpec, Pipe!Spec
=============================================================================
