------------------------- MODULE TcpConnectionProofs -------------------------
(***************************************************************************)
(* Theorems about TcpConnection, for every bound and every set of events.  *)
(***************************************************************************)
EXTENDS TcpConnection, FiniteSetTheorems, SequenceTheorems, TLAPS

-----------------------------------------------------------------------------
(* The sorted insertion of write_core yields a sequence of packets. *)

LEMMA InsertSortedType ==
  ASSUME NEW S \in SUBSET Nat, NEW s \in Seq(S), NEW x \in S
  PROVE  InsertSorted(s, x) \in Seq(S)
<1> DEFINE below == {i \in DOMAIN s : s[i] < x}
           n == Cardinality(below)
<1>1. IsFiniteSet(DOMAIN s) /\ Cardinality(DOMAIN s) = Len(s)
  <2>1. DOMAIN s = 1..Len(s) /\ Len(s) \in Nat
    OBVIOUS
  <2>2. IsFiniteSet(1..Len(s)) /\ Cardinality(1..Len(s)) = Len(s)
    <3>1. 1 \in Int /\ Len(s) \in Int
      BY <2>1
    <3>2. /\ IsFiniteSet(1..Len(s))
          /\ Cardinality(1..Len(s)) = IF 1 > Len(s) THEN 0 ELSE Len(s)-1+1
      BY <3>1, FS_Interval, Zenon
    <3> QED
      BY <2>1, <3>2
  <2> QED
    BY <2>1, <2>2
<1>2. n \in 0..Len(s)
  <2>1. below \subseteq DOMAIN s
    OBVIOUS
  <2>2. IsFiniteSet(below) /\ Cardinality(below) <= Cardinality(DOMAIN s)
    BY <1>1, <2>1, FS_Subset
  <2>3. Cardinality(below) \in Nat
    BY <2>2, FS_CardinalityType
  <2> QED
    BY <1>1, <2>2, <2>3
<1>3. SubSeq(s, 1, n) \in Seq(S) /\ SubSeq(s, n + 1, Len(s)) \in Seq(S)
  <2> HIDE DEF n
  <2>1. 1 \in 1..Len(s)+1 /\ n \in 1-1..Len(s)
    BY <1>2
  <2>2. n + 1 \in 1..Len(s)+1 /\ Len(s) \in (n+1)-1..Len(s)
    BY <1>2
  <2> QED
    BY <2>1, <2>2, <1>2
<1>4. <<x>> \in Seq(S)
  OBVIOUS
<1>5. SubSeq(s, 1, n) \o <<x>> \o SubSeq(s, n + 1, Len(s)) \in Seq(S)
  <2> HIDE DEF n
  <2> QED BY <1>3, <1>4
<1> QED
  BY <1>5 DEF InsertSorted

-----------------------------------------------------------------------------
(* Type correctness.  A Send under way has taken a number. *)

SendingHasNumber == logic = "sending" => sendSequenceNumber \in 1..MaxSend

TypeInv == TypeOK /\ SendingHasNumber

LEMMA CloseType ==
  ASSUME postedClose \in [Mode -> Nat], NEW mode \in Mode, Close(mode)
  PROVE  postedClose' \in [Mode -> Nat]
BY DEF Close

LEMMA TypeInvInit == Init => TypeInv
<1> SUFFICES ASSUME Init PROVE TypeInv
  OBVIOUS
<1> USE BoundsAreNat DEF Init
<1>1. ConfigOK
  BY DEF ConfigOK
<1>2. SharedOK
  <2>1. closeStatus \in CloseStatus /\ guid \in BOOLEAN /\ loseTime \in BOOLEAN
    BY DEF CloseStatus
  <2>2. sendSequenceNumber \in 0..MaxSend /\ sendQueue \in Seq(1..MaxSend)
    OBVIOUS
  <2> QED
    BY <2>1, <2>2 DEF SharedOK
<1>3. NetOK
  BY DEF NetOK
<1>4. QueuesOK
  BY DEF QueuesOK
<1>5. ThreadsOK
  BY DEF ThreadsOK
<1>6. HistoryOK
  <2>1. accepted \in Seq(1..MaxSend) /\ wire \in Seq(1..MaxSend)
    OBVIOUS
  <2>2. appClosed \in BOOLEAN /\ closeCalls \in Nat /\ flushMark \in Nat
    OBVIOUS
  <2> QED
    BY <2>1, <2>2 DEF HistoryOK
<1>7. SendingHasNumber
  BY DEF SendingHasNumber
<1> QED
  BY <1>1, <1>2, <1>3, <1>4, <1>5, <1>6, <1>7 DEF TypeInv, TypeOK

LEMMA TypeInvStep == TypeInv /\ [Next]_vars => TypeInv'
<1> SUFFICES ASSUME TypeInv, [Next]_vars PROVE TypeInv'
  OBVIOUS
<1> USE BoundsAreNat DEF TypeInv, TypeOK
<1>1. CASE Logic
  <2>1. CASE SendBegin
    <3> USE <2>1 DEF SendBegin
    <3>1. ConfigOK'
      BY DEF ConfigOK, config
    <3>2. SharedOK'
      BY DEF SharedOK, CloseStatus
    <3>3. NetOK'
      BY DEF NetOK, net
    <3>4. QueuesOK'
      BY DEF QueuesOK, queues
    <3>5. ThreadsOK'
      BY DEF ThreadsOK
    <3>6. HistoryOK'
      BY DEF HistoryOK, history
    <3>7. SendingHasNumber'
      BY DEF SendingHasNumber, SharedOK
    <3> QED
      BY <3>1, <3>2, <3>3, <3>4, <3>5, <3>6, <3>7
  <2>2. CASE SendRefused
    <3> USE <2>2 DEF SendRefused
    <3>1. ConfigOK'
      BY DEF ConfigOK, config
    <3>2. SharedOK'
      BY DEF SharedOK, shared
    <3>3. NetOK'
      BY DEF NetOK, net
    <3>4. QueuesOK'
      BY DEF QueuesOK, queues
    <3>5. ThreadsOK'
      BY DEF ThreadsOK
    <3>6. HistoryOK'
      BY DEF HistoryOK, history
    <3>7. SendingHasNumber'
      BY DEF SendingHasNumber, SharedOK, shared
    <3> QED
      BY <3>1, <3>2, <3>3, <3>4, <3>5, <3>6, <3>7
  <2>3. CASE SendTooLarge
    <3> USE <2>3 DEF SendTooLarge
    <3>1. ConfigOK'
      BY DEF ConfigOK, config
    <3>2. SharedOK'
      BY DEF SharedOK, CloseStatus
    <3>3. NetOK'
      BY DEF NetOK, net
    <3>4. QueuesOK'
      BY DEF QueuesOK, queues
    <3>5. ThreadsOK'
      BY DEF ThreadsOK
    <3>6. HistoryOK'
      BY DEF HistoryOK
    <3>7. SendingHasNumber'
      BY DEF SendingHasNumber, SharedOK
    <3> QED
      BY <3>1, <3>2, <3>3, <3>4, <3>5, <3>6, <3>7
  <2>4. CASE WritePush
    <3> USE <2>4 DEF WritePush
    <3>a. /\ Append(sendQueue, sendSequenceNumber) \in Seq(1..MaxSend)
          /\ Append(accepted, sendSequenceNumber) \in Seq(1..MaxSend)
      BY DEF SharedOK, HistoryOK, SendingHasNumber
    <3>1. ConfigOK'
      BY DEF ConfigOK, config
    <3>2. SharedOK'
      BY <3>a DEF SharedOK, CloseStatus
    <3>3. NetOK'
      BY DEF NetOK, net
    <3>4. QueuesOK'
      BY DEF QueuesOK, queues
    <3>5. ThreadsOK'
      BY DEF ThreadsOK
    <3>6. HistoryOK'
      BY <3>a DEF HistoryOK
    <3>7. SendingHasNumber'
      BY DEF SendingHasNumber, SharedOK
    <3> QED
      BY <3>1, <3>2, <3>3, <3>4, <3>5, <3>6, <3>7
  <2>5. CASE WriteCAS
    <3> USE <2>5 DEF WriteCAS
    <3>1. ConfigOK'
      BY DEF ConfigOK, config
    <3>2. SharedOK'
      BY DEF SharedOK, CloseStatus
    <3>3. NetOK'
      BY DEF NetOK, net
    <3>4. QueuesOK'
      BY DEF QueuesOK, queues
    <3>5. ThreadsOK'
      BY DEF ThreadsOK
    <3>6. HistoryOK'
      BY DEF HistoryOK, history
    <3>7. SendingHasNumber'
      BY DEF SendingHasNumber, SharedOK
    <3> QED
      BY <3>1, <3>2, <3>3, <3>4, <3>5, <3>6, <3>7
  <2>6. CASE WritePost
    <3> USE <2>6 DEF WritePost, Schedule
    <3>1. ConfigOK'
      BY DEF ConfigOK, config
    <3>2. SharedOK'
      BY DEF SharedOK, shared
    <3>3. NetOK'
      BY DEF NetOK, net
    <3>4. QueuesOK'
      BY DEF QueuesOK
    <3>5. ThreadsOK'
      BY DEF ThreadsOK
    <3>6. HistoryOK'
      BY DEF HistoryOK, history
    <3>7. SendingHasNumber'
      BY DEF SendingHasNumber, SharedOK, shared
    <3> QED
      BY <3>1, <3>2, <3>3, <3>4, <3>5, <3>6, <3>7
  <2>7. CASE CloseBegin
    <3> USE <2>7 DEF CloseBegin
    <3>1. ConfigOK'
      BY DEF ConfigOK, config
    <3>2. SharedOK'
      BY DEF SharedOK, CloseStatus
    <3>3. NetOK'
      BY DEF NetOK, net
    <3>4. QueuesOK'
      BY DEF QueuesOK, queues
    <3>5. ThreadsOK'
      BY DEF ThreadsOK
    <3>6. HistoryOK'
      BY DEF HistoryOK
    <3>7. SendingHasNumber'
      BY DEF SendingHasNumber, SharedOK
    <3> QED
      BY <3>1, <3>2, <3>3, <3>4, <3>5, <3>6, <3>7
  <2>8. CASE ClosePost
    <3> USE <2>8 DEF ClosePost, Close
    <3>a. postedClose' \in [Mode -> Nat]
      BY CloseType DEF QueuesOK, Mode
    <3>1. ConfigOK'
      BY DEF ConfigOK, config
    <3>2. SharedOK'
      BY DEF SharedOK, shared
    <3>3. NetOK'
      BY DEF NetOK, net
    <3>4. QueuesOK'
      BY <3>a DEF QueuesOK
    <3>5. ThreadsOK'
      BY DEF ThreadsOK
    <3>6. HistoryOK'
      BY DEF HistoryOK
    <3>7. SendingHasNumber'
      BY DEF SendingHasNumber, SharedOK, shared
    <3> QED
      BY <3>1, <3>2, <3>3, <3>4, <3>5, <3>6, <3>7
  <2>9. CASE ProcessDisconnected
    <3> USE <2>9 DEF ProcessDisconnected
    <3>1. ConfigOK'
      BY DEF ConfigOK, config
    <3>2. SharedOK'
      BY DEF SharedOK, shared
    <3>3. NetOK'
      BY DEF NetOK, net
    <3>4. QueuesOK'
      BY DEF QueuesOK
    <3>5. ThreadsOK'
      BY DEF ThreadsOK
    <3>6. HistoryOK'
      BY DEF HistoryOK, history
    <3>7. SendingHasNumber'
      BY DEF SendingHasNumber, SharedOK, shared
    <3> QED
      BY <3>1, <3>2, <3>3, <3>4, <3>5, <3>6, <3>7
  <2> QED
    BY <1>1, <2>1, <2>2, <2>3, <2>4, <2>5, <2>6, <2>7, <2>8, <2>9 DEF Logic
<1>2. CASE Io
  <2>1. CASE RunWriteImpl
    <3> USE <2>1 DEF RunWriteImpl, EnterWriteImpl
    <3>1. ConfigOK'
      BY DEF ConfigOK, config
    <3>2. SharedOK'
      BY DEF SharedOK, shared
    <3>3. NetOK'
      BY DEF NetOK, net
    <3>4. QueuesOK'
      BY DEF QueuesOK
    <3>5. ThreadsOK'
      BY DEF ThreadsOK
    <3>6. HistoryOK'
      BY DEF HistoryOK, history
    <3>7. SendingHasNumber'
      BY DEF SendingHasNumber, SharedOK, shared
    <3> QED
      BY <3>1, <3>2, <3>3, <3>4, <3>5, <3>6, <3>7
  <2>2. CASE RunWriteTimer
    <3> USE <2>2 DEF RunWriteTimer, EnterWriteImpl
    <3>1. ConfigOK'
      BY DEF ConfigOK, config
    <3>2. SharedOK'
      BY DEF SharedOK, shared
    <3>3. NetOK'
      BY DEF NetOK, net
    <3>4. QueuesOK'
      BY DEF QueuesOK
    <3>5. ThreadsOK'
      BY DEF ThreadsOK
    <3>6. HistoryOK'
      BY DEF HistoryOK, history
    <3>7. SendingHasNumber'
      BY DEF SendingHasNumber, SharedOK, shared
    <3> QED
      BY <3>1, <3>2, <3>3, <3>4, <3>5, <3>6, <3>7
  <2>3. CASE OnWritten
    <3> USE <2>3 DEF OnWritten, EnterWriteImpl
    <3>1. ConfigOK'
      BY DEF ConfigOK, config
    <3>2. SharedOK'
      BY DEF SharedOK, shared
    <3>3. NetOK'
      BY DEF NetOK
    <3>4. QueuesOK'
      BY DEF QueuesOK, queues
    <3>5. ThreadsOK'
      BY DEF ThreadsOK
    <3>6. HistoryOK'
      BY DEF HistoryOK, history
    <3>7. SendingHasNumber'
      BY DEF SendingHasNumber, SharedOK, shared
    <3> QED
      BY <3>1, <3>2, <3>3, <3>4, <3>5, <3>6, <3>7
  <2>4. CASE OnWrittenError
    <3> USE <2>4 DEF OnWrittenError, CloseCore, ReleaseWritting
    <3>1. ConfigOK'
      BY DEF ConfigOK, config
    <3>2. SharedOK'
      BY DEF SharedOK, CloseStatus
    <3>3. NetOK'
      BY DEF NetOK
    <3>4. QueuesOK'
      BY DEF QueuesOK
    <3>5. ThreadsOK'
      BY DEF ThreadsOK
    <3>6. HistoryOK'
      BY DEF HistoryOK, history
    <3>7. SendingHasNumber'
      BY DEF SendingHasNumber, SharedOK
    <3> QED
      BY <3>1, <3>2, <3>3, <3>4, <3>5, <3>6, <3>7
  <2>5. CASE Drain
    <3> USE <2>5 DEF Drain
    <3> DEFINE next == Head(sendQueue)
    <3>a. next \in 1..MaxSend /\ Tail(sendQueue) \in Seq(1..MaxSend)
      BY DEF SharedOK
    <3>b. InsertSorted(sortSendMap, next) \in Seq(1..MaxSend)
      <4>1. 1..MaxSend \in SUBSET Nat /\ sortSendMap \in Seq(1..MaxSend)
        BY DEF ThreadsOK
      <4> QED
        BY <4>1, <3>a, InsertSortedType
    <3>1. ConfigOK'
      BY DEF ConfigOK, config
    <3>2. SharedOK'
      BY <3>a DEF SharedOK, CloseStatus
    <3>3. NetOK'
      BY DEF NetOK, net
    <3>4. QueuesOK'
      BY DEF QueuesOK, queues
    <3>5. ThreadsOK'
      BY <3>b DEF ThreadsOK
    <3>6. HistoryOK'
      BY DEF HistoryOK, history
    <3>7. SendingHasNumber'
      BY DEF SendingHasNumber, SharedOK
    <3> QED
      BY <3>1, <3>2, <3>3, <3>4, <3>5, <3>6, <3>7
  <2>6. CASE DrainEnd
    <3> USE <2>6 DEF DrainEnd
    <3>b. wire \o sortSendMap \in Seq(1..MaxSend)
      BY DEF ThreadsOK, HistoryOK
    <3>1. ConfigOK'
      BY DEF ConfigOK, config
    <3>2. SharedOK'
      BY DEF SharedOK, shared
    <3>3. NetOK'
      BY DEF NetOK
    <3>4. QueuesOK'
      BY DEF QueuesOK, queues
    <3>5. ThreadsOK'
      BY DEF ThreadsOK
    <3>6. HistoryOK'
      BY <3>b DEF HistoryOK
    <3>7. SendingHasNumber'
      BY DEF SendingHasNumber, SharedOK, shared
    <3> QED
      BY <3>1, <3>2, <3>3, <3>4, <3>5, <3>6, <3>7
  <2>7. CASE WriteDone
    <3> USE <2>7 DEF WriteDone, CloseCore, NoCloseCore, ReleaseWritting
    <3>1. ConfigOK'
      BY DEF ConfigOK, config
    <3>2. SharedOK'
      BY DEF SharedOK, CloseStatus
    <3>3. NetOK'
      BY DEF NetOK
    <3>4. QueuesOK'
      BY DEF QueuesOK
    <3>5. ThreadsOK'
      BY DEF ThreadsOK
    <3>6. HistoryOK'
      BY DEF HistoryOK, history
    <3>7. SendingHasNumber'
      BY DEF SendingHasNumber, SharedOK
    <3> QED
      BY <3>1, <3>2, <3>3, <3>4, <3>5, <3>6, <3>7
  <2>8. ASSUME NEW mode \in Mode, CloseImpl(mode)
        PROVE  TypeInv'
    <3> USE <2>8 DEF CloseImpl, CloseCore, Schedule
    <3>1. ConfigOK'
      BY DEF ConfigOK, config
    <3>2. SharedOK'
      BY DEF SharedOK, CloseStatus
    <3>3. NetOK'
      BY DEF NetOK
    <3>4. QueuesOK'
      BY DEF QueuesOK
    <3>5. ThreadsOK'
      BY DEF ThreadsOK
    <3>6. HistoryOK'
      BY DEF HistoryOK, history
    <3>7. SendingHasNumber'
      BY DEF SendingHasNumber, SharedOK
    <3> QED
      BY <3>1, <3>2, <3>3, <3>4, <3>5, <3>6, <3>7
  <2>9. CASE OnReadEof
    <3> USE <2>9 DEF OnReadEof, ReadEnds, CloseCore, NoCloseCore, Close
    <3>1. ConfigOK'
      BY DEF ConfigOK, config
    <3>2. SharedOK'
      BY DEF SharedOK, CloseStatus
    <3>3. NetOK'
      BY DEF NetOK
    <3>4. QueuesOK'
      BY DEF QueuesOK
    <3>5. ThreadsOK'
      BY DEF ThreadsOK
    <3>6. HistoryOK'
      BY DEF HistoryOK
    <3>7. SendingHasNumber'
      BY DEF SendingHasNumber, SharedOK
    <3> QED
      BY <3>1, <3>2, <3>3, <3>4, <3>5, <3>6, <3>7
  <2>10. CASE OnReadError
    <3> USE <2>10 DEF OnReadError, ReadEnds, CloseCore, NoCloseCore, Close
    <3>1. ConfigOK'
      BY DEF ConfigOK, config
    <3>2. SharedOK'
      BY DEF SharedOK, CloseStatus
    <3>3. NetOK'
      BY DEF NetOK
    <3>4. QueuesOK'
      BY DEF QueuesOK
    <3>5. ThreadsOK'
      BY DEF ThreadsOK
    <3>6. HistoryOK'
      BY DEF HistoryOK
    <3>7. SendingHasNumber'
      BY DEF SendingHasNumber, SharedOK
    <3> QED
      BY <3>1, <3>2, <3>3, <3>4, <3>5, <3>6, <3>7
  <2>11. CASE OnRead
    <3> USE <2>11 DEF OnRead
    <3>1. ConfigOK'
      BY DEF ConfigOK, config
    <3>2. SharedOK'
      BY DEF SharedOK, shared
    <3>3. NetOK'
      BY DEF NetOK
    <3>4. QueuesOK'
      BY DEF QueuesOK, queues
    <3>5. ThreadsOK'
      BY DEF ThreadsOK
    <3>6. HistoryOK'
      BY DEF HistoryOK, history
    <3>7. SendingHasNumber'
      BY DEF SendingHasNumber, SharedOK, shared
    <3> QED
      BY <3>1, <3>2, <3>3, <3>4, <3>5, <3>6, <3>7
  <2>12. CASE OnReadFull
    <3> USE <2>12 DEF OnReadFull, Close
    <3>a. postedClose' \in [Mode -> Nat]
      BY CloseType DEF QueuesOK, Mode
    <3>1. ConfigOK'
      BY DEF ConfigOK, config
    <3>2. SharedOK'
      BY DEF SharedOK, shared
    <3>3. NetOK'
      BY DEF NetOK
    <3>4. QueuesOK'
      BY <3>a DEF QueuesOK
    <3>5. ThreadsOK'
      BY DEF ThreadsOK
    <3>6. HistoryOK'
      BY DEF HistoryOK
    <3>7. SendingHasNumber'
      BY DEF SendingHasNumber, SharedOK, shared
    <3> QED
      BY <3>1, <3>2, <3>3, <3>4, <3>5, <3>6, <3>7
  <2>13. CASE OnReadBad
    <3> USE <2>13 DEF OnReadBad, Close
    <3>a. postedClose' \in [Mode -> Nat]
      BY CloseType DEF QueuesOK, Mode
    <3>1. ConfigOK'
      BY DEF ConfigOK, config
    <3>2. SharedOK'
      BY DEF SharedOK, CloseStatus
    <3>3. NetOK'
      BY DEF NetOK, net
    <3>4. QueuesOK'
      BY <3>a DEF QueuesOK
    <3>5. ThreadsOK'
      BY DEF ThreadsOK
    <3>6. HistoryOK'
      BY DEF HistoryOK
    <3>7. SendingHasNumber'
      BY DEF SendingHasNumber, SharedOK
    <3> QED
      BY <3>1, <3>2, <3>3, <3>4, <3>5, <3>6, <3>7
  <2>14. CASE Replace
    <3> USE <2>14 DEF Replace
    <3>1. ConfigOK'
      BY DEF ConfigOK, config
    <3>2. SharedOK'
      BY DEF SharedOK, CloseStatus
    <3>3. NetOK'
      BY DEF NetOK
    <3>4. QueuesOK'
      BY DEF QueuesOK, queues
    <3>5. ThreadsOK'
      BY DEF ThreadsOK
    <3>6. HistoryOK'
      BY DEF HistoryOK, history
    <3>7. SendingHasNumber'
      BY DEF SendingHasNumber, SharedOK
    <3> QED
      BY <3>1, <3>2, <3>3, <3>4, <3>5, <3>6, <3>7
  <2>15. CASE HeartbeatTimeout
    <3> USE <2>15 DEF HeartbeatTimeout
    <3>1. ConfigOK'
      BY DEF ConfigOK, config
    <3>2. SharedOK'
      BY DEF SharedOK, shared
    <3>3. NetOK'
      BY DEF NetOK, net
    <3>4. QueuesOK'
      BY DEF QueuesOK
    <3>5. ThreadsOK'
      BY DEF ThreadsOK
    <3>6. HistoryOK'
      BY DEF HistoryOK, history
    <3>7. SendingHasNumber'
      BY DEF SendingHasNumber, SharedOK, shared
    <3> QED
      BY <3>1, <3>2, <3>3, <3>4, <3>5, <3>6, <3>7
  <2>16. CASE HeartbeatClose
    <3> USE <2>16 DEF HeartbeatClose, Close
    <3>a. postedClose' \in [Mode -> Nat]
      BY CloseType DEF QueuesOK, Mode
    <3>1. ConfigOK'
      BY DEF ConfigOK, config
    <3>2. SharedOK'
      BY DEF SharedOK, shared
    <3>3. NetOK'
      BY DEF NetOK, net
    <3>4. QueuesOK'
      BY <3>a DEF QueuesOK
    <3>5. ThreadsOK'
      BY DEF ThreadsOK
    <3>6. HistoryOK'
      BY DEF HistoryOK
    <3>7. SendingHasNumber'
      BY DEF SendingHasNumber, SharedOK, shared
    <3> QED
      BY <3>1, <3>2, <3>3, <3>4, <3>5, <3>6, <3>7
  <2> QED
    BY <1>2, <2>1, <2>2, <2>3, <2>4, <2>5, <2>6, <2>7, <2>8, <2>9, <2>10, <2>11, <2>12, <2>13,
       <2>14, <2>15, <2>16
       DEF Io, Write, Net
<1>3. CASE UNCHANGED vars
  BY <1>3 DEF vars, ConfigOK, config, SharedOK, shared, NetOK, net, QueuesOK,
              queues, ThreadsOK, HistoryOK, history, SendingHasNumber
<1> QED
  BY <1>1, <1>2, <1>3 DEF Next

(* Every variable keeps its type, in particular no counter of outstanding     *)
(* operations goes below zero.                                                *)
THEOREM TypeCorrect == Spec => []TypeOK
<1>1. TypeInv => TypeOK
  BY DEF TypeInv
<1> QED
  BY TypeInvInit, TypeInvStep, <1>1, PTL DEF Spec
-----------------------------------------------------------------------------
(* The invariant of the write path.  SingleWriter is inductive by itself; the *)
(* other two need it, and need to know that write_core runs only while the    *)
(* connection may still write.                                                *)

WriteInv == SingleWriter /\ NoCutWrite /\ OpenFlagMeansPosted
            /\ (io # "run" => closeStatus \in Writable)

\* What the proofs below need of the types.
Counts == /\ postedWrite \in Nat /\ timerQueue \in Nat /\ asyncWrites \in Nat
          /\ io \in {"run", "drain", "drained"}
          /\ logic \in {"idle", "sending", "pushed", "posting", "closing"}
          /\ writting \in BOOLEAN /\ closeStatus \in CloseStatus

LEMMA CountsFromType == TypeOK => Counts
  BY DEF TypeOK, NetOK, QueuesOK, ThreadsOK, SharedOK, Counts

LEMMA WriteInvInit == Init => WriteInv
  BY DEF Init, WriteInv, SingleWriter, NoCutWrite, OpenFlagMeansPosted, Writers

LEMMA WriteInvStep == TypeOK /\ WriteInv /\ [Next]_vars => WriteInv'
<1> SUFFICES ASSUME TypeOK, WriteInv, [Next]_vars PROVE WriteInv'
  OBVIOUS
<1>0. Counts
  BY CountsFromType
<1> USE <1>0 DEF WriteInv, SingleWriter, NoCutWrite, OpenFlagMeansPosted, Writers,
                 Writable, CloseStatus, Counts
\* The steps that neither write nor close leave the writers alone, but for
\* what the logic thread does outside of posting.
<1>1. ASSUME UNCHANGED <<postedWrite, timerQueue, asyncWrites, io, writting,
                         closeStatus>>,
             (logic' = "posting") <=> (logic = "posting")
      PROVE  WriteInv'
  BY <1>1
<1>2. CASE WriteCAS
  BY <1>2 DEF WriteCAS, net, shared, queues
<1>3. CASE WritePost
  BY <1>3 DEF WritePost, Schedule, net, shared, queues
<1>4. CASE RunWriteImpl
  BY <1>4 DEF RunWriteImpl, EnterWriteImpl, net, shared, queues
<1>5. CASE RunWriteTimer
  BY <1>5 DEF RunWriteTimer, EnterWriteImpl, net, shared, queues
<1>6. CASE OnWritten
  BY <1>6 DEF OnWritten, EnterWriteImpl, net, shared, queues
<1>7. CASE OnWrittenError
  BY <1>7 DEF OnWrittenError, CloseCore, ReleaseWritting
<1>8. CASE DrainEnd
  BY <1>8 DEF DrainEnd, net, shared, queues
<1>9. CASE WriteDone
  BY <1>9 DEF WriteDone, CloseCore, NoCloseCore, ReleaseWritting
<1>10. ASSUME NEW mode \in Mode, CloseImpl(mode) PROVE WriteInv'
  BY <1>10 DEF CloseImpl, CloseCore, Schedule, net, shared
<1>11. ASSUME NEW reconnect \in BOOLEAN, ReadEnds(reconnect) PROVE WriteInv'
  BY <1>11 DEF ReadEnds, CloseCore, NoCloseCore
<1>12. CASE Logic
  <2>1. CASE SendBegin
    BY <1>1, <2>1 DEF SendBegin, shared, net, queues
  <2>2. CASE SendRefused
    BY <1>1, <2>2 DEF SendRefused, shared, net, queues
  <2>3. CASE SendTooLarge
    BY <1>1, <2>3 DEF SendTooLarge, shared, net, queues
  <2>4. CASE WritePush
    BY <1>1, <2>4 DEF WritePush, shared, net, queues
  <2>5. CASE CloseBegin
    BY <1>1, <2>5 DEF CloseBegin, shared, net, queues
  <2>6. CASE ClosePost
    BY <1>1, <2>6 DEF ClosePost, shared, net, queues
  <2>7. CASE ProcessDisconnected
    BY <1>1, <2>7 DEF ProcessDisconnected, shared, net, queues
  <2> QED
    BY <1>12, <1>2, <1>3, <2>1, <2>2, <2>3, <2>4, <2>5, <2>6, <2>7 DEF Logic
<1>13. CASE Io
  <2>1. CASE OnReadEof
    BY <2>1, <1>11 DEF OnReadEof
  <2>2. CASE OnReadError
    BY <2>2, <1>11 DEF OnReadError
  <2>3. CASE Drain
    BY <1>1, <2>3 DEF Drain, shared, net, queues
  <2>4. CASE OnRead
    BY <1>1, <2>4 DEF OnRead, shared, net, queues
  <2>5. CASE OnReadFull
    BY <1>1, <2>5 DEF OnReadFull, shared, net, queues
  <2>6. CASE OnReadBad
    BY <1>1, <2>6 DEF OnReadBad, shared, net, queues
  <2>7. CASE Replace
    BY <1>1, <2>7 DEF Replace, shared, net, queues
  <2>8. CASE HeartbeatTimeout
    BY <1>1, <2>8 DEF HeartbeatTimeout, shared, net, queues
  <2>9. CASE HeartbeatClose
    BY <1>1, <2>9 DEF HeartbeatClose, shared, net, queues
  <2> QED
    BY <1>13, <1>4, <1>5, <1>6, <1>7, <1>8, <1>9, <1>10,
       <2>1, <2>2, <2>3, <2>4, <2>5, <2>6, <2>7, <2>8, <2>9
       DEF Io, Write, Net
<1>14. CASE UNCHANGED vars
  BY <1>1, <1>14 DEF vars, shared, net, queues
<1> QED
  BY <1>12, <1>13, <1>14 DEF Next

(* Two threads post writes through the flag writting; whatever they do, at    *)
(* most one write of a connection is posted, running or outstanding.          *)
THEOREM SingleWriterAlways == Spec => []SingleWriter
<1>1. WriteInv => SingleWriter
  BY DEF WriteInv
<1> QED
  BY TypeCorrect, WriteInvInit, WriteInvStep, <1>1, PTL DEF Spec

(* No async_write is outstanding when the send half is shut or the socket     *)
(* closed by the connection's own close state machine.                        *)
THEOREM NoCutWriteAlways == Spec => []NoCutWrite
<1>1. WriteInv => NoCutWrite
  BY DEF WriteInv
<1> QED
  BY TypeCorrect, WriteInvInit, WriteInvStep, <1>1, PTL DEF Spec

(* While the connection is open, writting is never on with no write on its    *)
(* way to turn it off.                                                        *)
THEOREM OpenFlagMeansPostedAlways == Spec => []OpenFlagMeansPosted
<1>1. WriteInv => OpenFlagMeansPosted
  BY DEF WriteInv
<1> QED
  BY TypeCorrect, WriteInvInit, WriteInvStep, <1>1, PTL DEF Spec
=============================================================================
