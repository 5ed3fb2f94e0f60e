---------------------------- MODULE TcpConnection ----------------------------
(***************************************************************************)
(* The life of one established CConnection of contrib/scgl, from the       *)
(* moment its first asynchronous read is posted: the write path, the close *)
(* state machine and what both threads do to it.                           *)
(*                                                                         *)
(*   logic thread   CNetService::Send/RawSend/Broadcast -> CTcpHandler::   *)
(*                  Write, CNetService::Close, the DISCONNECTED packet;    *)
(*   I/O thread     the handlers that CTcpHandler's io_service runs one at *)
(*                  a time: writeImpl, OnWritten, OnRead, closeImpl,       *)
(*                  ActiveWriteTimer, Heartbeat, and InsertConnection of a *)
(*                  newer connection with the same guid.                   *)
(*                                                                         *)
(* A step of the logic thread touches one shared item; a handler of the    *)
(* I/O thread is one step, except the write path, which is cut wherever    *)
(* the logic thread can slip in: each try_pop, and the reset of writting.  *)
(* Packets are their sequence numbers.                                     *)
(***************************************************************************)
EXTENDS Naturals, Sequences, FiniteSets

CONSTANTS MaxSend,    \* bound: calls of Send
          MaxClose,   \* bound: Close calls that do not come from a dead read
          MaxNotice,  \* bound: DISCONNECTED packets pending because of Heartbeat
          Events      \* the events of the environment that may happen

EventKinds ==
  { "readError",    \* the read fails with neither eof nor connection_reset
    "readFull",     \* a packet longer than the receive buffer
    "readBad",      \* a frame whose length is not positive
    "writeError",   \* an async_write fails
    "shutdownError",\* shutdown_send fails
    "replace",      \* a newer connection presents the same guid
    "heartbeat" }   \* Heartbeat closes for silence or a long wait-for-ack queue

ASSUME BoundsAreNat == MaxSend \in Nat /\ MaxClose \in Nat /\ MaxNotice \in Nat
ASSUME EventsAreKinds == Events \subseteq EventKinds

VARIABLES
  isWriteFast, isClientNode,   \* configuration, fixed when the net starts
  closeStatus, writting, sendQueue, needReconnect, guid, loseTime,
  sendSequenceNumber,
  socket,        \* "open", "shut" (send half shut down) or "closed"
  readPending,   \* an async_read_some is outstanding
  asyncWrites,   \* async_write operations outstanding
  postedWrite,   \* writeImpl handlers posted and not yet run
  timerQueue,    \* entries of this connection in CTcpHandler::Impl::sendQueue
  postedClose,   \* closeImpl handlers posted and not yet run, by mode
  inMap,         \* the connection is in CNetService::Impl::connections
  notices,       \* DISCONNECTED packets posted and not yet processed
  connects,      \* reconnections started by close_core
  logic,         \* where the logic thread is
  io,            \* where the I/O thread is
  sortSendMap,   \* local to write_core
  accepted,      \* history: the packets Write accepted, in order
  wire,          \* history: the packets handed to a socket that was open
  closeCalls,    \* history: Close calls, counted against MaxClose
  flushMark,     \* history: Len(accepted) at the first post of closeImpl
  appClosed      \* history: CNetService::Close was called

config  == <<isWriteFast, isClientNode>>
shared  == <<closeStatus, writting, sendQueue, needReconnect, guid, loseTime,
             sendSequenceNumber>>
net     == <<socket, readPending, asyncWrites>>
queues  == <<postedWrite, timerQueue, postedClose, notices>>
history == <<accepted, wire, closeCalls, flushMark, appClosed>>
vars    == <<config, shared, net, queues, inMap, connects, logic, io,
             sortSendMap, history>>

CloseStatus == {"OPEN", "1_CLOSING", "2_CLOSING", "CLOSE_WRITE", "CLOSE_FULL"}
Writable    == {"OPEN", "1_CLOSING", "2_CLOSING"}
Mode        == {"active", "passive"}   \* isPassive of Close

ConfigOK  == isWriteFast \in BOOLEAN /\ isClientNode \in BOOLEAN

SharedOK  == /\ closeStatus \in CloseStatus
             /\ writting \in BOOLEAN /\ needReconnect \in BOOLEAN
             /\ guid \in BOOLEAN                    \* guid # 0
             /\ loseTime \in BOOLEAN                \* loseTime > 0
             /\ sendSequenceNumber \in 0..MaxSend
             /\ sendQueue \in Seq(1..MaxSend)

NetOK     == /\ socket \in {"open", "shut", "closed"}
             /\ readPending \in BOOLEAN
             /\ asyncWrites \in Nat

QueuesOK  == /\ postedWrite \in Nat /\ timerQueue \in Nat /\ notices \in Nat
             /\ postedClose \in [Mode -> Nat]

ThreadsOK == /\ inMap \in BOOLEAN /\ connects \in Nat
             /\ logic \in {"idle", "sending", "pushed", "posting", "closing"}
             /\ io \in {"run", "drain", "drained"}
             /\ sortSendMap \in Seq(1..MaxSend)

HistoryOK == /\ accepted \in Seq(1..MaxSend) /\ wire \in Seq(1..MaxSend)
             /\ closeCalls \in Nat /\ flushMark \in Nat
             /\ appClosed \in BOOLEAN

TypeOK == ConfigOK /\ SharedOK /\ NetOK /\ QueuesOK /\ ThreadsOK /\ HistoryOK

Init ==
  /\ isWriteFast \in BOOLEAN /\ isClientNode \in BOOLEAN
  /\ closeStatus = "OPEN" /\ writting = FALSE /\ sendQueue = <<>>
  /\ needReconnect = TRUE /\ guid = TRUE /\ loseTime = FALSE
  /\ sendSequenceNumber = 0
  /\ socket = "open" /\ readPending = TRUE /\ asyncWrites = 0
  /\ postedWrite = 0 /\ timerQueue = 0
  /\ postedClose = [mode \in Mode |-> 0]
  /\ notices = 0 /\ inMap = TRUE /\ connects = 0
  /\ logic = "idle" /\ io = "run" /\ sortSendMap = <<>>
  /\ accepted = <<>> /\ wire = <<>>
  /\ closeCalls = 0 /\ flushMark = 0 /\ appClosed = FALSE

-----------------------------------------------------------------------------
(* Helpers shared by the handlers. *)

\* Mutant: the timer mode is forgotten.
ScheduleFastOnly ==
  /\ postedWrite' = IF isWriteFast THEN postedWrite + 1 ELSE postedWrite
  /\ UNCHANGED timerQueue

\* Post writeImpl, or leave the connection for ActiveWriteTimer.
Schedule ==
  IF isWriteFast
  THEN postedWrite' = postedWrite + 1 /\ UNCHANGED timerQueue
  ELSE timerQueue' = timerQueue + 1 /\ UNCHANGED postedWrite

\* Mutant: the reset of writting is missing.
KeepWritting == UNCHANGED writting

\* The writer that is done turns writting off.
ReleaseWritting == writting' = FALSE

\* CTcpHandler::Close: post closeImpl.  The history notes what had been
\* accepted when closing was first asked for.
Close(mode) ==
  /\ postedClose' = [postedClose EXCEPT ![mode] = @ + 1]
  /\ closeCalls' = closeCalls + 1
  /\ flushMark' = IF closeCalls = 0 THEN Len(accepted) ELSE flushMark

\* Close calls of the application and of the environment are bounded.
MayClose == closeCalls < MaxClose

\* Mutant: the application is not told of the end of a closed connection.
CloseCoreSilent(reconnect) ==
  /\ socket' = "closed" /\ closeStatus' = "CLOSE_FULL"
  /\ loseTime' = (loseTime \/ reconnect)
  /\ connects' = IF reconnect /\ isClientNode THEN connects + 1 ELSE connects
  /\ UNCHANGED notices

\* close_core.  reconnect is the value of needReconnect that it reads.
CloseCore(reconnect) ==
  /\ socket' = "closed"
  /\ closeStatus' = "CLOSE_FULL"
  /\ IF reconnect
     THEN /\ loseTime' = TRUE
          /\ connects' = IF isClientNode THEN connects + 1 ELSE connects
          /\ UNCHANGED notices
     ELSE /\ notices' = IF guid THEN notices + 1 ELSE notices  \* DestoryConnection
          /\ UNCHANGED <<loseTime, connects>>

NoCloseCore == UNCHANGED <<socket, closeStatus, loseTime, connects, notices>>

\* std::map::insert by sequence number: in order, and a number that is already
\* there keeps its first packet.
InsertSorted(s, seq) ==
  IF \E i \in DOMAIN s : s[i] = seq
  THEN s
  ELSE LET n == Cardinality({i \in DOMAIN s : s[i] < seq})
       IN  SubSeq(s, 1, n) \o <<seq>> \o SubSeq(s, n + 1, Len(s))

\* Mutant: a connection that is closing shuts down before it has drained.
EnterWithoutDrain ==
  IF closeStatus \in Writable
  THEN io' = IF closeStatus = "1_CLOSING" THEN "drained" ELSE "drain"
  ELSE UNCHANGED io

\* Enter writeImpl: a connection that may still write starts write_core,
\* any other status makes the handler return at once.
EnterWriteImpl ==
  IF closeStatus \in Writable THEN io' = "drain" ELSE UNCHANGED io

-----------------------------------------------------------------------------
(* The logic thread. *)

\* Send, RawSend, Broadcast: the connection is found and takes a number.
SendBegin ==
  /\ logic = "idle" /\ inMap /\ guid
  /\ sendSequenceNumber < MaxSend
  /\ sendSequenceNumber' = sendSequenceNumber + 1
  /\ logic' = "sending"
  /\ UNCHANGED <<config, closeStatus, writting, sendQueue, needReconnect, guid,
                 loseTime, net, queues, inMap, connects, io, sortSendMap,
                 history>>

\* The packet cannot be encoded, or Write finds guid = 0: the number is spent.
SendRefused ==
  /\ logic = "sending"
  /\ logic' = "idle"
  /\ UNCHANGED <<config, shared, net, queues, inMap, connects, io, sortSendMap,
                 history>>

\* Write refuses a packet above MAX_PACKET_SIZE and closes the connection.
SendTooLarge ==
  /\ logic = "sending" /\ guid /\ MayClose
  /\ needReconnect' = FALSE
  /\ appClosed' = TRUE
  /\ logic' = "closing"
  /\ UNCHANGED <<config, closeStatus, writting, sendQueue, guid, loseTime,
                 sendSequenceNumber, net, queues, inMap, connects, io,
                 sortSendMap, accepted, wire, closeCalls, flushMark>>

\* CTcpHandler::Write, first half: the packet enters sendQueue.
WritePush ==
  /\ logic = "sending"
  /\ sendQueue' = Append(sendQueue, sendSequenceNumber)
  /\ accepted' = Append(accepted, sendSequenceNumber)
  /\ logic' = "pushed"
  /\ UNCHANGED <<config, closeStatus, writting, needReconnect, guid, loseTime,
                 sendSequenceNumber, net, queues, inMap, connects, io,
                 sortSendMap, wire, closeCalls, flushMark, appClosed>>

\* Mutant: a store instead of the compare_and_swap.
WriteStore ==
  /\ logic = "pushed"
  /\ logic' = "posting" /\ writting' = TRUE
  /\ UNCHANGED <<config, closeStatus, sendQueue, needReconnect, guid, loseTime,
                 sendSequenceNumber, net, queues, inMap, connects, io,
                 sortSendMap, history>>

\* CTcpHandler::Write, second half: whoever turns writting on posts the write.
WriteCAS ==
  /\ logic = "pushed"
  /\ logic' = IF writting THEN "idle" ELSE "posting"
  /\ writting' = TRUE
  /\ UNCHANGED <<config, closeStatus, sendQueue, needReconnect, guid, loseTime,
                 sendSequenceNumber, net, queues, inMap, connects, io,
                 sortSendMap, history>>

WritePost ==
  /\ logic = "posting"
  /\ Schedule
  /\ logic' = "idle"
  /\ UNCHANGED <<config, shared, net, postedClose, notices, inMap, connects, io,
                 sortSendMap, history>>

\* CNetService::Close: an active close does not wait for a reconnection ...
CloseBegin ==
  /\ logic = "idle" /\ inMap /\ guid /\ MayClose
  /\ needReconnect' = FALSE
  /\ appClosed' = TRUE
  /\ logic' = "closing"
  /\ UNCHANGED <<config, closeStatus, writting, sendQueue, guid, loseTime,
                 sendSequenceNumber, net, queues, inMap, connects, io,
                 sortSendMap, accepted, wire, closeCalls, flushMark>>

\* ... and then posts closeImpl.
ClosePost ==
  /\ logic = "closing"
  /\ Close("active")
  /\ logic' = "idle"
  /\ UNCHANGED <<config, shared, net, postedWrite, timerQueue, notices, inMap,
                 connects, io, sortSendMap, accepted, wire, appClosed>>

\* ProcessPacket of DISCONNECTED: the connection leaves the map.
ProcessDisconnected ==
  /\ logic = "idle" /\ notices > 0
  /\ notices' = notices - 1
  /\ inMap' = FALSE
  /\ UNCHANGED <<config, shared, net, postedWrite, timerQueue, postedClose,
                 connects, logic, io, sortSendMap, history>>

Logic == \/ SendBegin \/ SendRefused \/ SendTooLarge
         \/ WritePush \/ WriteCAS \/ WritePost
         \/ CloseBegin \/ ClosePost \/ ProcessDisconnected

-----------------------------------------------------------------------------
(* The I/O thread: the write path. *)

RunWriteImpl ==
  /\ io = "run" /\ postedWrite > 0
  /\ postedWrite' = postedWrite - 1
  /\ EnterWriteImpl
  /\ UNCHANGED <<config, shared, net, timerQueue, postedClose, notices, inMap,
                 connects, logic, sortSendMap, history>>

\* Mutant: the result of try_pop is not looked at.
RunWriteTimerBlind ==
  /\ io = "run"
  /\ timerQueue' = timerQueue - 1
  /\ EnterWriteImpl
  /\ UNCHANGED <<config, shared, net, postedWrite, postedClose, notices, inMap,
                 connects, logic, sortSendMap, history>>

\* ActiveWriteTimer takes the connection out of the timer's queue.
RunWriteTimer ==
  /\ io = "run" /\ timerQueue > 0
  /\ timerQueue' = timerQueue - 1
  /\ EnterWriteImpl
  /\ UNCHANGED <<config, shared, net, postedWrite, postedClose, notices, inMap,
                 connects, logic, sortSendMap, history>>

\* OnWritten without error goes on with writeImpl.  The completion may have been
\* queued before the socket was closed, so a closed socket does not exclude it.
OnWritten ==
  /\ io = "run" /\ asyncWrites > 0
  /\ asyncWrites' = asyncWrites - 1
  /\ EnterWriteImpl
  /\ UNCHANGED <<config, shared, socket, readPending, queues, inMap, connects,
                 logic, sortSendMap, history>>

\* OnWritten with an error: of the link, or because the socket was closed.
OnWrittenError ==
  /\ io = "run" /\ asyncWrites > 0
  /\ "writeError" \in Events \/ socket = "closed"
  /\ asyncWrites' = asyncWrites - 1
  /\ ReleaseWritting
  /\ CloseCore(needReconnect)
  /\ UNCHANGED <<config, sendQueue, needReconnect, guid, sendSequenceNumber,
                 readPending, postedWrite, timerQueue, postedClose, inMap,
                 logic, io, sortSendMap, history>>

\* One successful try_pop of write_core.
Drain ==
  /\ io = "drain" /\ sendQueue # <<>>
  /\ sortSendMap' = InsertSorted(sortSendMap, Head(sendQueue))
  /\ sendQueue' = Tail(sendQueue)
  /\ UNCHANGED <<config, closeStatus, writting, needReconnect, guid, loseTime,
                 sendSequenceNumber, net, queues, inMap, connects, logic, io,
                 history>>

\* Mutant: write_core answers that it sent nothing although it did.
DrainEndWrongResult ==
  /\ io = "drain" /\ sendQueue = <<>>
  /\ io' = "drained"
  /\ asyncWrites' = IF sortSendMap = <<>> THEN asyncWrites ELSE asyncWrites + 1
  /\ wire' = IF socket = "open" THEN wire \o sortSendMap ELSE wire
  /\ sortSendMap' = <<>>
  /\ UNCHANGED <<config, shared, socket, readPending, queues, inMap, connects,
                 logic, accepted, closeCalls, flushMark, appClosed>>

\* The try_pop that fails: hand over what was popped, if anything.
DrainEnd ==
  /\ io = "drain" /\ sendQueue = <<>>
  /\ IF sortSendMap = <<>>
     THEN /\ io' = "drained"
          /\ UNCHANGED <<asyncWrites, wire>>
     ELSE /\ io' = "run"
          /\ asyncWrites' = asyncWrites + 1
          /\ wire' = IF socket = "open" THEN wire \o sortSendMap ELSE wire
  /\ sortSendMap' = <<>>
  /\ UNCHANGED <<config, shared, socket, readPending, queues, inMap, connects,
                 logic, accepted, closeCalls, flushMark, appClosed>>

\* writeImpl after write_core found nothing: writting goes off, and a
\* connection that is closing goes on closing.
WriteDone ==
  /\ io = "drained"
  /\ io' = "run"
  /\ ReleaseWritting
  /\ \/ /\ closeStatus = "OPEN"
        /\ NoCloseCore
     \/ /\ closeStatus = "1_CLOSING" /\ socket = "open"      \* shutdown_send
        /\ socket' = "shut" /\ closeStatus' = "CLOSE_WRITE"
        /\ UNCHANGED <<loseTime, connects, notices>>
     \/ /\ closeStatus = "1_CLOSING"                         \* shutdown_send fails
        /\ "shutdownError" \in Events \/ socket = "closed"
        /\ CloseCore(needReconnect)
     \/ /\ closeStatus = "2_CLOSING"
        /\ CloseCore(needReconnect)
  /\ UNCHANGED <<config, sendQueue, needReconnect, guid, sendSequenceNumber,
                 readPending, asyncWrites, postedWrite, timerQueue, postedClose,
                 inMap, logic, sortSendMap, history>>

\* closeImpl.
CloseImpl(mode) ==
  /\ io = "run" /\ postedClose[mode] > 0
  /\ postedClose' = [postedClose EXCEPT ![mode] = @ - 1]
  /\ IF closeStatus = "CLOSE_WRITE"
     THEN /\ CloseCore(needReconnect)
          /\ UNCHANGED <<writting, postedWrite, timerQueue>>
     ELSE /\ closeStatus' = IF mode = "passive" THEN "2_CLOSING" ELSE "1_CLOSING"
          /\ writting' = TRUE
          /\ IF writting THEN UNCHANGED <<postedWrite, timerQueue>> ELSE Schedule
          /\ UNCHANGED <<socket, loseTime, connects, notices>>
  /\ UNCHANGED <<config, sendQueue, needReconnect, guid, sendSequenceNumber,
                 readPending, asyncWrites, inMap, logic, io, sortSendMap,
                 history>>

-----------------------------------------------------------------------------
(* The I/O thread: the read path and the handlers of other objects. *)

\* OnRead with an error.  reconnect is what it assigns to needReconnect; a
\* connection without guid is left alone.
ReadEnds(reconnect) ==
  /\ io = "run" /\ readPending
  /\ readPending' = FALSE
  /\ needReconnect' = reconnect
  /\ IF guid /\ closeStatus = "CLOSE_WRITE"
     THEN CloseCore(reconnect) /\ UNCHANGED <<postedClose, closeCalls, flushMark>>
     ELSE /\ NoCloseCore
          /\ IF guid THEN Close("passive")
                     ELSE UNCHANGED <<postedClose, closeCalls, flushMark>>
  /\ UNCHANGED <<config, writting, sendQueue, guid, sendSequenceNumber,
                 asyncWrites, postedWrite, timerQueue, inMap, logic, io,
                 sortSendMap, accepted, wire, appClosed>>

\* The peer shut its send half, or reset the connection.
OnReadEof == ReadEnds(FALSE)

\* The link failed, or the socket was closed under the read.
OnReadError ==
  /\ "readError" \in Events \/ socket = "closed"
  /\ ReadEnds(TRUE)

\* Data arrives.  It stops the reading of a connection that the peer left;
\* otherwise the next read is posted (no change of this module's state).
OnRead ==
  /\ io = "run" /\ readPending
  /\ readPending' = (closeStatus \notin {"2_CLOSING", "CLOSE_FULL"})
  /\ UNCHANGED <<config, shared, socket, asyncWrites, queues, inMap, connects,
                 logic, io, sortSendMap, history>>

\* Data arrives, fills the buffer and completes no packet: no read is posted.
OnReadFull ==
  /\ "readFull" \in Events
  /\ io = "run" /\ readPending /\ MayClose
  /\ closeStatus \notin {"2_CLOSING", "CLOSE_FULL"}
  /\ readPending' = FALSE
  /\ Close("active")
  /\ UNCHANGED <<config, shared, socket, asyncWrites, postedWrite, timerQueue,
                 notices, inMap, connects, logic, io, sortSendMap, accepted,
                 wire, appClosed>>

\* DecodeRingBuffer finds a length that is not positive: CNetService::Close on
\* the I/O thread, and the reading goes on.
OnReadBad ==
  /\ "readBad" \in Events
  /\ io = "run" /\ readPending /\ guid /\ MayClose
  /\ closeStatus \notin {"2_CLOSING", "CLOSE_FULL"}
  /\ needReconnect' = FALSE
  /\ appClosed' = TRUE
  /\ Close("active")
  /\ UNCHANGED <<config, closeStatus, writting, sendQueue, guid, loseTime,
                 sendSequenceNumber, net, postedWrite, timerQueue, notices,
                 inMap, connects, logic, io, sortSendMap, accepted, wire>>

\* InsertConnection of a newer connection with this guid.
Replace ==
  /\ "replace" \in Events
  /\ io = "run" /\ inMap /\ guid
  /\ inMap' = FALSE
  /\ needReconnect' = FALSE
  /\ guid' = FALSE
  /\ socket' = "closed"
  /\ UNCHANGED <<config, closeStatus, writting, sendQueue, loseTime,
                 sendSequenceNumber, readPending, asyncWrites, queues, connects,
                 logic, io, sortSendMap, history>>

\* Heartbeat gives up waiting for the peer to reconnect.
HeartbeatTimeout ==
  /\ io = "run" /\ inMap /\ guid /\ notices < MaxNotice
  /\ loseTime /\ closeStatus # "OPEN" /\ ~isClientNode
  /\ notices' = notices + 1
  /\ UNCHANGED <<config, shared, net, postedWrite, timerQueue, postedClose,
                 inMap, connects, logic, io, sortSendMap, history>>

\* Heartbeat closes a silent connection, or one whose peer does not acknowledge.
\* It goes straight to CTcpHandler::Close: needReconnect stays as it is.
HeartbeatClose ==
  /\ "heartbeat" \in Events
  /\ io = "run" /\ inMap /\ guid /\ MayClose
  /\ ~(loseTime /\ closeStatus # "OPEN" /\ ~isClientNode)
  /\ Close("active")
  /\ UNCHANGED <<config, shared, net, postedWrite, timerQueue, notices, inMap,
                 connects, logic, io, sortSendMap, accepted, wire, appClosed>>

Write == RunWriteImpl \/ RunWriteTimer \/ Drain \/ DrainEnd \/ WriteDone
Net   == OnWritten \/ OnWrittenError \/ OnReadEof \/ OnReadError \/ OnRead
         \/ OnReadFull \/ OnReadBad \/ Replace
Io    == \/ Write \/ Net
         \/ \E mode \in Mode : CloseImpl(mode)
         \/ HeartbeatTimeout \/ HeartbeatClose

Next == Logic \/ Io

Spec == Init /\ [][Next]_vars

-----------------------------------------------------------------------------
(* Safety. *)

\* The writers of the connection: a writeImpl that is or will be posted, an
\* entry in the timer's queue, a running writeImpl, an outstanding async_write.
Writers ==
  postedWrite + timerQueue + asyncWrites
  + (IF io = "run" THEN 0 ELSE 1) + (IF logic = "posting" THEN 1 ELSE 0)

\* The flag writting serialises the writes of the two threads: there is never
\* more than one writer, so two composed async_write operations never interleave
\* their bytes (CTcpHandler::Write, closeImpl and writeImpl around writting).
SingleWriter == Writers <= 1 /\ (Writers = 1 => writting)

\* The send half is never shut, nor the socket closed by this connection's own
\* close state machine, under an async_write that is still outstanding: a packet
\* is not cut in half (writeImpl goes on closing only when write_core finds
\* nothing, closeImpl closes only a connection that has shut its send half).
NoCutWrite == asyncWrites > 0 => closeStatus \in Writable

\* While nobody has asked to close, writting means that a write is on its way
\* (the comment of CConnection::writting); no path of the open state leaves
\* the flag on with nobody to turn it off.
OpenFlagMeansPosted == closeStatus = "OPEN" /\ writting => Writers = 1

\* The send side implements SendPipe: in order, once, nothing skipped, nothing
\* after the shutdown, and a graceful close flushes what was sent before it.
Pipe == INSTANCE SendPipe WITH Packet <- 1..MaxSend, asked <- closeCalls > 0,
                               mark <- flushMark
PipeSpec == Pipe!Spec

(* Properties that comments of the code state and the code does not have. *)

\* CNetService::Close: what this side closes actively does not wait for a
\* reconnection.  So no reconnection starts after the application closed.
NoReconnectAfterClose == [][appClosed => connects' = connects]_vars

\* CConnection::writting: the flag tells whether an asynchronous send is posted.
\* So a packet that waits in the queue of an open connection, with the flag on,
\* has a send that will take it.
QueuedIsPosted ==
  closeStatus = "OPEN" /\ logic = "idle" /\ sendQueue # <<>> => Writers = 1

-----------------------------------------------------------------------------
(* Liveness. *)

\* The logic thread finishes the call it is in and empties the packet queue.
LogicGoesOn == SendRefused \/ WritePush \/ WriteCAS \/ WritePost \/ ClosePost
               \/ ProcessDisconnected

\* The io_service runs what was posted; an outstanding write completes; a read
\* on a closed socket is aborted.
IoGoesOn == \/ Write \/ OnWritten \/ OnWrittenError
            \/ \E mode \in Mode : CloseImpl(mode)
            \/ socket = "closed" /\ OnReadError

\* The peer answers the end of our stream by ending its own: its OnRead gets eof
\* and closes passively.
PeerEnds == closeStatus = "CLOSE_WRITE" /\ (OnReadEof \/ OnReadError)

FairSpec == /\ Spec
            /\ WF_vars(LogicGoesOn) /\ WF_vars(IoGoesOn)
            /\ WF_vars(PeerEnds) /\ WF_vars(HeartbeatTimeout)

\* A close that was asked for takes effect, whatever the two threads and the
\* network do meanwhile: no order of Write, writeImpl and closeImpl loses it, and
\* the peer gets to see the end of the stream.
CloseTakesEffect ==
  \A mode \in Mode : postedClose[mode] > 0 ~> socket # "open"

\* A connection whose socket is gone is reported: it leaves the map of the
\* application, or a client starts to reconnect, or a newer one took its guid
\* (close_core, DestoryConnection and the 60 seconds of Heartbeat).
DeathIsReported == socket = "closed" ~> ~inMap \/ ~guid \/ connects > 0
=============================================================================
