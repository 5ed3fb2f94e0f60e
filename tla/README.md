# A verification project for LLcode

LLcode is a C++ framework for game servers.  Its own code is `contrib/scgl`
(networking, packets, players, Lua binding), `contrib/hpf` (a memory-mapped
record file), `contrib/luaMongo` (asynchronous database access) and
`contrib/luaProfiler`; the rest of `contrib/` is vendored (boost, tbb, lua,
mongo, protobuf, pcre, log4cplus, loki) and `pb/` is generated.  The repository
has no tests and hardly any documentation of its own, so the models are read
from the code, and the statements to hold it to are its comments.

This directory holds TLA+ models of the framework's concurrent core, their TLC
configurations, and proofs for TLAPS.

## Inventory

Two threads matter.  The **logic thread** runs `CNetService::Impl::io_service`
and all application code.  The **I/O thread** runs `CTcpHandler`'s own
`io_service`: every completion handler and everything posted there, one at a
time.  A third thread runs `accept_service`.  What they share is
`CConnection` ("all items of this class may be accessed by several threads"),
the map of connections behind `connections_mutex`, and concurrent queues.

| component | state | operations | hard | correct when |
|---|---|---|---|---|
| `CTcpHandler`, `CConnection` | `closeStatus`, `writting`, `sendQueue`, `needReconnect`, `guid`, socket | `Write`, `writeImpl`, `write_core`, `OnWritten`, `Close`, `closeImpl`, `close_core`, `OnRead`, `ActiveWriteTimer` | two threads meet on `writting`, `closeStatus` and `needReconnect`; handlers arrive in any order | one writer, packets in order and once, a close flushes and takes effect, a dead connection is reported |
| receive buffer | ring of a power of two bytes, two indices | `RingBuffer_*`, `Read`, `OnRead`, `DecodeRingBuffer` | the system writes into the ring behind the decoder; frames wrap; the buffer fills | frames are decoded whole, in order, all of them |
| session | guid, sequence numbers, `waitAckQueue`, `inited` on either side | `Connect`, `Accept`, `OnConnected`, `OnReadGuid`, `OnReadAckSequenceNumber`, `InsertConnection`, `ProcessAck`, `Heartbeat` | links break at any step, either side notices late, old handshakes finish late | nothing twice, nothing out of order, nothing lost |
| packet queue, dispatch | four queues by priority, `isPosted`, processors | `PostPacket`, `ProcessAllPacket`, `ProcessPacket`, timers | posts race with the end of a drain | every packet processed, in order of its class |
| player registry | `PlayerMap` with two indexes, a group per game server and per room, the players' keys and places | `Add`, `Delete`, `Remove`, `Notify`, `Update`, `AddPlayer`, `DeletePlayer`, the setters | long sequences of legal calls; the indexes hold copies of keys that can change | the containers agree on who exists and where |
| asynchronous database | a pool of one thread per connection, its queue and counters; event objects | `AsyncProcess`, `Do_Excute`, `Handle_...`, the waiting query, `UnInit` | three threads touch an event; the pool's condition and counters; shutting down with work queued | one answer per call, in order per connection, none from an event that is gone |
| hpf | file size, mapping, window, offset | `init_file`, `_hpf_append_f`, `_hpf_enlarge_map`, `_hpf_remap_view`, `hpf_close_file` | data across the window's end, growth in the middle, system calls that fail | every byte lands at its offset, the tail stays clean |
| pools, singletons, behaviours, codecs | free lists, current state | `Create`/`Release`, `Instance`, `Process`/`ChangeBehavior`, `EncodePacketToBuffer` | reentrancy | sequential contracts |

`PROJECT.json` lists the components with their status; what is left out, and
why, is under *Not modelled* below.

`PROJECT.json` lists the hazards of this code at their lines, and for each the
properties that would catch it.

## Modules

| module | what it is |
|---|---|
| `TcpConnection` | one established connection: both threads on the write path, the close state machine, the failing of reads and writes, the heartbeat, replacement by a newer connection |
| `SendPipe` | what the sending side of a connection promises; `TcpConnection` implements it (`PipeSpec`) |
| `ReceiveBuffer` | the ring buffer, the asynchronous reads into it and the decoder |
| `FrameChannel` | what the receiving side promises, of frames that fit the static buffer and of those that do not; `ReceiveBuffer` implements it (`ChannelSpec`) |
| `Session` | a client and a server over several links: handshake, numbering, acknowledgement, reconnection |
| `PacketDispatch` | the four packet queues, `isPosted`, the drain on the logic thread and what `ProcessPacket` does with a packet whose connection is gone |
| `HpfFile` | the memory-mapped record file: an append in the steps between its system calls, each of which may fail |
| `AppendFile` | what a record file promises; `HpfFile` implements it (`AppendSpec`) |
| `AsyncDB` | database calls: the logic thread, the pool threads, the event objects and the shutting down |
| `DBService` | what asynchronous database access promises; `AsyncDB` implements it (`ServiceSpec`) |
| `PlayerRegistry` | `SPlayerManager`: the container of players with its indexes and the groups that observe it |
| `MC...` | the modules that TLC runs; the constants are in the `.cfg` files |
| `TcpConnectionProofs` | the invariants of `TcpConnection`, proved |
| `SendPipeProofs` | the proof that `TcpConnection` implements `SendPipe` |
| `PacketDispatchProofs` | the invariants of `PacketDispatch`, proved |
| `HpfFileProofs` | the invariants of `HpfFile`, and that it implements `AppendFile`, proved |
| `PlayerRegistryProofs` | the invariants of `PlayerRegistry`, proved |
| `AsyncDBProofs` | the invariants of `AsyncDB`, and that it implements `DBService`, proved |
| `ReceiveBufferProofs` | the invariants of `ReceiveBuffer`, and that it implements `FrameChannel`, proved |
| `SessionProofs` | the invariants of `Session`, proved |

`TcpConnection` and `ReceiveBuffer` share the read completions: the former knows
whether a read is outstanding and what its failing does to the status, the
latter what its bytes become.  `Session` takes the closing of a connection as one
step and the drain by its last `writeImpl` as `TcpConnection` has it.
`PacketDispatch` starts where `ReceiveBuffer` ends, with a decoded packet, and
reduces a connection to its status, its guid and its place in the map.
`HpfFile`, `AsyncDB` and `PlayerRegistry` stand alone, as the code does: a file
belongs to one thread, the registry to the logic thread, and `AsyncDB` shares with
the network only the `io_service` of the logic thread, of which it has its own
handlers and one for everything else (`StartApp`).

### TcpConnection

The variables are the fields of `CConnection` and what the I/O service holds for
it: posted `writeImpl` handlers (`postedWrite`), entries in the write timer's
queue (`timerQueue`), posted `closeImpl` handlers by `isPassive`
(`postedClose`), outstanding reads and writes.  `isWriteFast` (is the write
posted at once, or by the timer of a server) and `isClientNode` are fixed in
`Init`, so every run checks all four configurations.  Packets are their
sequence numbers.

A step of the logic thread touches one shared item: `Send` is `SendBegin` (take
a number), `WritePush`, `WriteCAS` and `WritePost`; `Close` is `CloseBegin` (clear
`needReconnect`) and `ClosePost`.  A handler of the I/O thread is one step, but
`writeImpl` is cut where the logic thread can slip in: `RunWriteImpl`,
`RunWriteTimer` or `OnWritten` enter it, each successful `try_pop` is a `Drain`,
`DrainEnd` is the one that fails, `WriteDone` resets `writting` and continues a
close.  `close_core` is part of the handlers that call it (`CloseCore`).
`guid`, `loseTime` and sizes are reduced to the conditions the code tests.

### ReceiveBuffer

A byte is named by its frame and offset, so that a byte in the wrong place is
seen.  `& bigMask` and `& smallMask` are the remainders by twice the size and by
the size (`RingBuffer_Init` insists on a power of two).  `Arrive` writes into
the region of the outstanding read at any time, also between two rounds of
`OnRead`'s loop, as overlapped I/O does.  `FrameData` has the four cases of
`DecodeRingBuffer` with their own addresses.

The peer may send any length, and `DecodeRingBuffer` calculates with it as an `int`
(`AsInt`, `PacketLen`): near `MaxInt` (INT_MAX) the sum is negative, passes the test for
the bytes that are there, and `DecodeData` runs on bytes that are no frame, once in every
`OnRead`, while nothing is taken (`NextFrame` of kind `wrapped`; `misread` records it).
A frame whose body is split by the end of the ring is copied into a static buffer of
`MaxPacket` (`MAX_PACKET_SIZE`, 40 KB) bytes without a look at its length, and the ring is
larger than that (`Overruns`).  The model hands such a frame over whole or with any bytes behind the
first `MaxPacket` (`Spoilt`, `Garbage`), and a behaviour may stop there, as the process may.
What the copy does to other static data is not modelled.  `CNetService::Write` refuses
packets of these sizes, so neither happens between two nodes of this code: it is the
receiving side that relies on its peer.

### Session

Each link has a connection record on either side.  `map[n]` is the connection
that node `n` has under its peer's guid.  `pipe` is what is under way on a link;
`Break` takes the link away and either side notices it at its own time (`Lost`,
`HandshakeFails`) or sends into the void until then.  Packets carry the
acknowledgement of the moment they were numbered in, also when they are sent
again.  Since the numbers in `sendQueue` are in order (`WaitOrdered`), the sorting
of `write_core` is left to `TcpConnection`.

Within `InsertConnection` the logic thread goes on.  A `Send` that finds the new connection
before the numbers were taken over is refused there, but its unlocked increment may write
over the number (`NumbersAfter`); DISCONNECTED may erase the old connection between its
look-up and the lock (`told` in `OnReadGuid`); a `Send` on the old connection is as if it
had come before.  A loss can be noticed by a write first: `WriteFails`
closes and aborts the read, and `AbortedRead`, its handler, closes again, so that a client
connects twice.  Three history variables say where the code's promises end: `former`
counts what was decoded before the application was told that the peer is gone, `erased` and
`torn` hold the nodes where DISCONNECTED erased a newer connection and where a number was
overwritten.  `scale` is the size of the behaviour, chosen in `Init`.  A connection that
nothing refers to is reset (`Freed`), and bytes on a closed socket are dropped.

### PacketDispatch

`isWin` (a timer runs `ProcessAllPacket`; `isPosted` is not compiled) and
`needPostUpdate` (the application asked for update packets) are fixed in `Init`,
so a run checks all four builds and configurations.  Three threads post: the
logic thread itself (timers, processors), the I/O thread (packets and
DISCONNECTED) and the application's own.  `PostPacket` is `Push`, `SwapIsPosted`
and `PostHandler`; `ProcessAllPacket` is one `TryNext` or `Take` per `try_pop`
of its `while` condition, then `ProcessPacket`, then `EndProcessAllPacket`.
`ProcessPacket` looks connections up and erases them in separate steps, with the
I/O thread in between: `NeedsConfirmation` and `DeliverConfirmed` or `Drop`,
`FindDisconnected` and `EraseDisconnected`.  There is one remote guid; its
successive connections are numbered, and a connection that was replaced has lost
its guid (`named`).  A connection is `up`, `lost` (closed, waiting for its client)
or `ended`; how it gets there is `TcpConnection`'s business.  `count` and
`passed` are history variables.

### HpfFile

The variables are the fields of `hpf_file` and the locals of the append that
runs.  `view` is the file offset of the mapped window and not its address,
`content` the file on the disk, which the system keeps coherent with the window.
`HpfAppend` and `AppendChar` begin a call; `InitFile` is `_hpf_init_file`,
`EnlargeMap`, `GrowTarget` (a round of the doubling) and `CreateMapping` are
`_hpf_enlarge_map`, `CopyChunk` is a round of the loop of `_hpf_append_f` with
`_hpf_remap_view` in it, `RemapFails` its failing.  A system call fails when it is
asked for the impossible (`CanMap`: `MapViewOfFile` wants a multiple of the
granularity and a window inside the map) and may fail at any time
(`sysFailed`), also the `CloseHandle` with which `EnlargeMap` begins.  An error makes the file invalid for every later append, as `sign`
does.  Sizes are small numbers; that they are bytes, 64 KB and 4 GB is a choice
of the constants.  A view size of 0, with which the copy loop never ends, is
excluded by an assumption.

Observations the model keeps and no property complains about: a view size that
is no multiple of the granularity works until the first window is full and then
invalidates the file (`Fits`); `_hpf_init_file` uses `CREATE_ALWAYS`, so a restart
begins an empty file; `hpf_close_file` refuses a file nothing was appended to and
does not free it.

`hpf_close_file` only shows the errors of its system calls and returns success
(`closeFailed`): when `SetEndOfFile` fails the file keeps the tail that `TailIsClean`
describes, and when `SetFilePointerEx` fails and `SetEndOfFile` does not, the file is cut where
the handle's pointer still is, at 0, and all records are gone.  `AppendFile` has this as
`CloseFails`: closing that fails keeps all or nothing.

### AsyncDB

A call is a number with a connection and a kind.  `MakeCall` is the whole Lua method:
an event is constructed and given to `AsyncProcess`, which finds the connection's
pool or refuses, and whose result nobody looks at.  The pool is the vendored
`boost/threadpool` with one thread: `FetchTask`, `WakeUp` and `Leave` are what
`execute_task` and `worker_destructed` do under the pool's monitor, with
`m_active_worker_count` (`active`), `m_target_worker_count` (`target`) and the
condition variable (`notified`).  `Execute` is `Do_Excute` up to its last
`if`, `PostAnswer` the last `if`: a handler is posted, or the Windows event of a
blocking query is set.  `RunHandler` is a `Handle_...` up to the resumption of the
coroutine, which may make further calls or `UnInit`; `ReturnFromApp` ends it, and
for writes destroys the event only now (the other handlers destroy it before).
`UnInit` waits for pool after pool and then drops them (`UnInitWait`,
`UnInitClear`, which is also `wait_for_all_tasks::shutdown`).

`bSuccess` of a command that the database refuses without throwing is never
assigned: `BSuccess` is a choice there.  That a call which was not accepted keeps
its event for ever, that a query that blocks can overtake answers posted
before it, and that a pool's thread outlives its pool by a little (`worker` may
still be `leaving`: the shutdown policy waits only while
`m_active_worker_count` is above zero) is in the model; the properties say what
holds all the same.

A connection lives as long as the model runs.  In the code it is a Lua userdata:
`connection_gc` deletes it when Lua drops the last reference, with its calls still queued
or running, and its entry stays in the map of pools, so that a new connection at the
same address is given the old pool (`insert` in `AddConnection` changes nothing).  The model
takes Lua to hold every connection until `UnInit`, and its results are limited to that.

### PlayerRegistry

Everything runs on the logic thread, so a call is a step: each action contains the
notifications and the updates of the observers that the call makes.  An entry of
`m_players` holds its own copy of the keys, as `PlayerDetailWrapper` does; a group
is a set of entries with the id and the guid under which they were inserted.
`life` says who is to free a player: the application, the container, nobody
(`leaked`: `Add` of a new player whose guid is taken forgets it).  The application is
assumed to use only players that are still there, and not to `Delete` through an
entry whose player it has freed; otherwise it calls anything in any order,
setters included.  `SetContainer` is one of them: it takes a player from the observers
(its argument is NULL, or a container other than the manager's, which has no other players;
`Add` sets it again).  The container has no creator and no deletor of its own, an empty
`boost::function` throws: the application is taken to have set them, to `new` and `delete`,
before it needs them.

`heldID`, `heldGuid`, `rekeyed`, `outdated` and `silent` are history
variables that the properties use to say *unless*: the setters change the keys of
a player without telling the indexes, a player without a container moves and is freed
without telling the groups, and the invariants state exactly what is lost by it.  So they
are no promise that a change of keys or of the container does no harm; it does, at the
recorded keys.

## Runs

| run | shows | bounds |
|---|---|---|
| `connection` | `SingleWriter`, `NoCutWrite`, `OpenFlagMeansPosted`, that the send side implements `SendPipe`, and `CloseTakesEffect` and `DeathIsReported` under `FairSpec` | 2 sends, 2 closes, 1 heartbeat notice, every event; 966 352 states |
| `stranded` | violated: `QueuedIsPosted` | 2 sends, no close, no event |
| `reconnect_after_close` | violated: `NoReconnectAfterClose` | 2 closes |
| `receive` | `RingHoldsStream`, `NothingLeftBehind`, `CloseJustified`, `ChannelSpec`, `FramesArrive` | a ring of 8 bytes, headers of 2, a static buffer of 5, "INT_MAX" at 31, three frames of 4, 7, 8 and 9 bytes, of length 0 and of length 31; 214 200 states |
| `session` | `InOrderOnce`, `AckHonest`, `WaitOrdered` | 2 links, 2 packets of the client, 1 of the server, 1 retry; and 3 links, 2 packets of the client; 3 910 940 states |
| `session_inited` | violated: `UpIsInited` | the same |
| `dispatch` | `OneProcessor`, `PassedOnce`, and `EveryPacketIsProcessed` under `FairSpec` | 3 packets of class default, 1 of debug and of db, an update packet at a time, 2 connections; 508 666 states |
| `dispatch_dropped` | violated: `DroppedIsGone` | the same |
| `hpf` | `WindowAtOffset`, `TailIsClean`, `FailureJustified`, that the file implements `AppendFile`, and `AppendReturns` under `FairSpec` | windows of 2, 3, 4 and 6, granularity 2, "4 GB" at 8, appends of 0, 1 and 5 bytes and 3 characters, 19 bytes in all; 768 788 states |
| `hpf_char` | violated: `FilledWithChar` | the same |
| `database` | `NothingLost`, `EventsAlive`, `UnInitDrains`, `CommandTold`, that the calls implement `DBService`, and `AnswersArrive` and `UnInitReturns` under `FairSpec` | 2 connections, 2 calls, every kind; 226 252 states |
| `players` | `NoDangling`, `GroupsTrue`, `PlacedIsGrouped`, `KeptUnlessGuidShared` | 2 players, id 0 and 2 others, 2 guids, 2 places of one kind, 1 change of keys, any number of the container; 1 702 715 states up to symmetry |

Why the bounds are enough.  *connection*: the races are between one packet's
push and one drain, or between two closes; a second packet is what sorting and
order need, and `MaxClose` does not count the closes that a dead read causes.
The invariants hold for all bounds (see Proofs).  *receive*: frames of 4
and 7 bytes put frame starts at positions of the ring that split a header, end it with the ring
and split a body, one of 8 fills the ring exactly and one of 9 overflows it; a body of 6
exceeds the static buffer by one byte, a length of 31 wraps.  *session*: two
links are one reconnection; three are needed for a connection that left the map and was not
replaced, and for the client that connects twice for one loss.  Three links
with one packet each way and with two packets of the server were checked as well, and random
simulation with up to five links and three packets each way (30 million states) found no
violation.
*dispatch*: a packet of each class is what priorities need, three of the network
are data on the old connection, its DISCONNECTED and data on the new one; update
packets are not counted, only one waits at a time, so the timer never stops.

*hpf*: an append of 5 crosses one or two ends of the window, begins inside a window
or at its end, and the file grows by doubling below and in steps above the
high-half size; windows of 3 (off the granularity) and 6 (no divisor of
it) are there so that `Fits` is needed.  The invariants hold for all sizes (see
Proofs).  *database*: two calls are what order, a second wake-up of the pool thread and
an `UnInit` between them need; two connections are what `UnInit`'s loop over pools
needs.  Three calls on one connection were checked as well.  *players*: a duplicate
needs two players, a stale key one change, and the new key may be the other player's.
Ids, guids, places and players are only compared, so all four are symmetric.  Without
`SetContainer`, which multiplies the states, two and three changes, three players
with one place, and both kinds of places were checked as well, and the invariants are proved for
all bounds.

`CHECK_DEADLOCK FALSE` everywhere: a closed connection, or a session whose
bounded packets and links are used up, really stops, and so do a closed file
and a registry that is destroyed.

### Fairness

`TcpConnection!FairSpec`: the logic thread finishes the call it is in and works
through its packet queue; the I/O service runs what was posted, completes
outstanding writes and aborts reads on a closed socket; the peer answers the
end of our stream by ending its own, as the same code does there; the 60 seconds
of `Heartbeat` pass.  Nobody is assumed to send or to close again.  That is why
`QueuedIsPosted` is an invariant and not a leads-to: a packet that waits for the
next `Write` may wait for ever.  `ReceiveBuffer!FairSpec`: the I/O thread runs,
and the network delivers.
`PacketDispatch!FairSpec`: every thread finishes the `PostPacket` it is in, the
logic thread runs what was posted, and the update timer goes off again and again.
`EveryPacketIsProcessed` is claimed where update packets are posted, or the
`_WIN32` timer runs: without either, a packet that is pushed after the last
`try_pop` and before the reset of `isPosted` waits for the next `PostPacket`, which
nobody has to make (the same race as `QueuedIsPosted`).

`HpfFile!FairSpec`: the thread that called an append goes on with it.
`AsyncDB!FairSpec`: the pool threads run, each of them; the database answers or
throws; the application returns to the `io_service` (or waits in a query or in
`UnInit`); the `io_service` serves handlers in the order they were posted, so an answer
that is posted is served although other handlers keep coming: that is
the strong fairness of `RunHandler`.  `AnswersArrive` excepts the logic thread that
waits for a query no pool has (`Hung`): it was made after `UnInit`, which nothing in
the code prevents.

### What the violated properties show

* `QueuedIsPosted`: `write_core` finds the queue empty, the logic thread pushes a
  packet and finds `writting` on, then `writeImpl` turns it off.  The packet
  waits for the next `Write`.
* `NoReconnectAfterClose`: the read that `close_core` aborts is taken for a
  network error, which turns `needReconnect` on again after an active close.
* `UpIsInited`: `inited` is set only when the peer has received nothing, so a
  resumed session never sends again.
* `DroppedIsGone`: a packet waits in the queue while its connection is lost and
  replaced; `InsertConnection` cleared the old connection's guid, the look-up of
  guid 0 finds nothing, and the packet is dropped as one of a peer that is gone.
  `PostPacket` had acknowledged it already.
* `FilledWithChar`: `hpf_append_char` hands its character to the copy loop as if it
  were the address of the data, and the loop advances that address by what it has
  written; the part of the run behind the end of a window gets another character.

More behaviours of this kind are in the models and have no run of their
own: the eof consumed by a passive close that an active one overwrites leaves
`CLOSE_WRITE` waiting for a second eof with no read posted (`TcpConnection`; the 180
seconds of silence after which `Heartbeat` closes the connection of a player or a GM end it, not
the 60 of a lost one, which only `close_core` starts: `loseTime`); `InsertConnection` does not take `sendQueue` over, so packets that were
not yet written when the link broke are not sent again (`Session`);
DISCONNECTED of an ended connection that is processed after its successor
entered the map erases the successor (`EraseDisconnected` of `PacketDispatch`), and when the
client then connects once more, its packets on the new link are decoded before those that
are still to be read from the erased one (`Session`: `InOrderOnce` without `erased`); and a
`Send` during `InsertConnection` can make the numbers of a session start again, so that
two packets that wait have the same number (`Session`: `WaitOrdered` without `torn`).

## Proofs

`TcpConnectionProofs` proves for every `MaxSend`, `MaxClose`, `MaxNotice` and
every set of events, from the two assumptions on the constants:

* `TypeCorrect`: `Spec => []TypeOK`;
* `SingleWriterAlways`, `NoCutWriteAlways`, `OpenFlagMeansPostedAlways`.

The invariant is `WriteInv`.  None of the three is inductive alone: that there is
at most one writer follows from *there is a writer only while `writting` is on*
together with *writting is turned on only by who found it off, and off only by
the one writer*; that no write is cut needs that an I/O thread inside `writeImpl`
holds the writer's place and that the status is still writable there.  The proof
has one step per action, on top of the type invariant; it needs the lemmas
`InsertSortedType` (the sorted queue stays a sequence of packets) and
`CountsFromType`.

`SendPipeProofs` builds on it and proves `Spec => PipeSpec`: under the mapping of
`TcpConnection` every step is a step of `SendPipe` or a stutter.  The work is in
`PipeInv`: *accepted packets increase*, so the sorted queue that `write_core`
collects is the queue's order; *nothing is skipped*, the wire followed by what
`write_core` holds and by the queue is exactly what was accepted; *whoever
closes was asked to*; and *flushed before shut*, a status that lets the send half
be shut with an empty hand means that everything accepted before the request is
on the wire.  The lemmas `InsertLast`, `PushKeepsOrder`, `DrainKeepsOrder` and
`DrainEndFlushes` say what each step does to these sequences.

`PacketDispatchProofs` proves for every `MaxPost` and `MaxLinks`:

* `DispatchTypeCorrect`: `Spec => []TypeOK`;
* `OneProcessorAlways`: `OneProcessor` is inductive on top of the type, because it is
  an equation: the handlers posted, about to be posted and running add up to
  `isPosted`, and every step moves one unit from one summand to another;
* `PassedOnceAlways`: `PassedOnce` needs that, at level `k` of the `while` condition,
  a class the scan has already found empty has not been passed since
  (`PassedInv`).

`HpfFileProofs` proves, for every granularity, view size, initial value, data and bound,
from `SizesAssumption`, `BytesAssumption` and `FillsAssumption`:

* `HpfTypeCorrect`: `Spec => []TypeOK`;
* `WindowAtOffsetAlways`, which is inductive only together with where a call can be with
  which file handle (`CallInv`: the loop that grows never shrinks the file) and with the
  mapping and the file being of one piece (`SizeInv`: until it is closed the file is as
  long as its mapping, and never shorter than what was written, unless closing it failed); `FillInv` says that the
  characters `_hpf_memset` calculates with are numbers;
* `TailIsCleanAlways`, on top of it: a new window is filled over zeros only, because what
  lies behind the old window was never touched; a closing that fails leaves that tail or
  cuts it off;
* `HpfIsAnAppendFile`: `Spec => AppendSpec`.  The lemmas `CopyPlace` and `CopiedIs`
  say what a chunk leaves in the file: its bytes at the offset and everything before it as
  it was.

* `FailureJustifiedAlways`, with `ReasonInv`: as long as the file is sound, its size, the
  size that is about to be asked for and the window's place are whole numbers of views
  (`WholeViews`), and a copying append has room in the file for what it still has to write
  (`RoomInv`).  So the next window is on the granularity and inside the map
  (`NextWindowFits`, over the lemmas on multiples).  It needs one more assumption,
  `GranularityAssumption`, that the default view is not larger than the granularity (both
  are 64 KB): with a larger one, a view that does not divide it would be mapped over the
  end of the file.

`PlayerRegistryProofs` proves all five invariants of `PlayerRegistry` for every set of
players, ids, guids, kinds and places, from `KeysAssumption` (0 is an id and no place) and
`ChangesAssumption`.  The
inductive invariant `IInv` consists of the types, `KeptUnlessGuidShared`, `PlacedIsGrouped`
and three strengthenings: the histories hold the keys that players and index entries have
now (`HeldInv`); an entry of a player whose guid was not changed under it has that guid
and belongs to the container (`OwnInv`, from which `NoDangling` follows); the observers were
told of the place of the player that a group lists (`ListInv`, from which `GroupsTrue` follows).
The stated invariants are not inductive alone: that `Delete` frees the player whose entry it
erases, and leaves its group, depends on whose entry it is; and that a player which leaves a
place without its container is recorded in `outdated` needs that its last change of place was
notified, else the entry would be somebody else's.

`AsyncDBProofs` proves the four invariants of `AsyncDB` and `Spec => ServiceSpec`, for any
connections and any number of calls, from `CallsAssumption`.  The inductive invariant
`IInv` follows a call on its way:

* where a pool's thread is decides whether it is counted as active and holds a call
  (`ThreadInv`), and a pool that was waited for or dropped stays idle (`DrainInv`,
  from which `UnInitDrains` follows);
* a call is accepted, executed and answered in that order (`CallInv`); what is queued is
  in the order of the calls and not executed (`QueueInv`), and what is neither queued nor
  running is executed (`OrderInv`);
* an answer on its way belongs to one executed call, is there once, and those of a
  connection are in order (`PostedInv`, `SignaledInv`); what is executed and not
  answered has its answer on the way (`AnswerInv`).  `NothingLost` follows from these;
* an event is alive until its call is answered (`EventInv`, from which `EventsAlive`
  follows), and `bSuccess` says what the database did (`SuccessInv`, with `CommandTold`).

None of the stated invariants is inductive alone: that the thread which takes the head of a
queue executes the next call of its connection needs the order of the queue, and that the
handler at the head of `posted` tells it the right way round needs the order in which the
threads posted.  The refinement then needs two lemmas that say it in the words of
`DBService`: `ExecutedBefore`, whatever was called before the running call is executed, and
`AnsweredBefore`, whatever was called before the answered callback is answered.

`ReceiveBufferProofs` proves the four invariants of `ReceiveBuffer` and `Spec => ChannelSpec`,
for every size of the buffer that `SizesOK` admits (the powers of two to 2^24), every size of
the header, every set of lengths and any number of frames:

* `TypeCorrect`, `RingIsTheStream`, `NothingStays`, `ClosesForAReason`;
* `RefinesChannel`.

The inductive invariant `IInv` says where everything that arrived is: the stream is the
frames one behind the other, and the decoder stands at the beginning of the one that comes
next (`StreamInv`), and what was decoded are the frames before it, whole or spoilt behind the
static buffer (`DecodedInv`); what arrived is taken, in the ring, or in a completed read that is not
accounted for (`CountInv`), and the latter two are those bytes (`ContentInv`); an
outstanding read lies in the free part of the ring and does not wrap (`ReadInv`); a read
is posted exactly when `armed` says so (`LoopInv`); the reasons to close are told by the next
frame (`ClosesInv`), and outside `OnRead` no whole frame is in the ring.  `RingHoldsStream` alone
is not inductive: that `TakeFrame` leaves the ring at the stream's next byte needs that the
length in the header is the frame's, hence that the decoder stands at a frame's beginning.
The lemmas `SmallMask`, `BigMask` and `CellNotFree` say what the two masks compute for indexes
below twice the size of the buffer; `MemSeen`, `HeaderSeen` and `FrameDataSeen` say that the decoder
sees the frame's bytes also across the end of the buffer, `PacketLenFacts` that the sum of
`int`s is the frame's size or negative, and `FrameSeen` that `NextFrame` tells its outcomes apart
rightly; `EndDecodeMisreads` is the one step of the refinement in which `DecodeData` runs on bytes
that are no frame.  The assumption is that twice the size of the buffer is not above INT_MAX
(`SizesOK`).

`SessionProofs` proves the four invariants of `Session`, for any number of links, of packets
and of attempts:

* `TypeCorrect`, `AcksAreHonest`, `WaitingInOrder`, `DecodedInOrderOnce`.

The inductive invariant has three parts besides the types and `AckHonest`:

* `LinkInv`, what holds between the two ends of a link and the messages under way, the same
  for either direction (`Side`): a connection is silent until it has read the guid and the
  number of its peer; an acknowledgement under way is the number that its sender has
  decoded, and until it is read the peer hands nothing over (`Answered`); the packets under
  way are in order, all new to the receiver, and before those that are still queued (`Flow`);
  what waits and what is queued is in order (`QueueOK`);
* `PlaceInv`: only the connection in the map goes on being read, unless a DISCONNECTED
  erased it; one that is lost or about to be reported is closed;
* `ReceivedInv`: what was decoded since the last DISCONNECTED is in order, and its last number
  is the one that the connection in the map acknowledges.

So when a connection is replaced, the newer one takes over the number that was decoded last,
its answer tells the peer that number, and `ProcessAck` takes what is not above it out of the
packets that are sent again (`UnacknowledgedFacts`, `ReleaseFacts`): this is why none is
decoded twice.  What a step does to the two ends of a link is proved once on their values
(`Fades`, `Opens`, `Greets`, `Answers`, `Flushes`, `Receives`, `Sends`), then one lemma per action
places them in the state.  The exceptions `erased` and `torn` of the stated invariants are also in
the inductive one, at the places where the two observations above break it.

Both inductive invariants were checked by TLC on the runs' instances before they were proved.

Only model-checked are the liveness properties, which are out of the prover's reach:
`CloseTakesEffect`, `DeathIsReported`, `FramesArrive`, `EveryPacketIsProcessed`, `AnswersArrive`,
`UnInitReturns` and `AppendReturns`.  Every invariant of a passing run and each of the four
refinements is a theorem.

## Not modelled

By far the largest part of the repository is not its own: boost, tbb, lua, the
MongoDB client, protobuf, pcre, log4cplus and loki under `contrib/`, and the
generated `pb/`.  Their share of the lines is above nine tenths, which is why the
models cover a small part of the whole although they cover most of the stateful code of
`scgl`'s network, of `hpf` and of `luaMongo`'s asynchronous part.  They are used
through their interfaces; where a guarantee of theirs decides a property
(`boost/threadpool`, `io_service`, `concurrent_queue`) it is modelled as the code relies on
it.

Of the project's own code:

* encryption and hashing, values and tables, packet encoding: functions of their
  arguments without state that outlives a call;
* logging and crash reports: pure output;
* the Lua binding, the synchronous methods of `luaMongo`, `luaProfiler`: calls into the Lua
  interpreter or a blocking client, whose behaviour is theirs;
* behaviours, reactors and processors: templates whose states and events a
  game defines, with no instance in the repository;
* `connection_gc` of `luaMongo` and the address that recurs after it (see *AsyncDB*); the data
  behind the static buffer of `DecodeRingBuffer` (see *ReceiveBuffer*);
* pools and singletons: a free list of a few lines, and a double-checked pointer that
  depends on the memory model of the build;
* `Listen`, `Shutdown` and socket options of `CTcpHandler`; NAT and packet
  statistics of `CNetService`.

## Plan

1. `TcpConnection`, `SendPipe`, the proof of the refinement; `ReceiveBuffer`,
   `FrameChannel`; `Session`; `PacketDispatch` and its proofs (done).
2. `HpfFile`, `AppendFile` and the proof of the refinement; `AsyncDB`, `DBService` and
   the proof of theirs; `PlayerRegistry` and its proofs (done).
3. Prove: the invariants of `ReceiveBuffer` for every buffer size (over lemmas on
   remainders) and that it implements `FrameChannel`; the invariants of `Session`;
   `FailureJustified` of `HpfFile` (done).
4. Extend `Session`: the write completions of a replaced connection (they need a client
   with a fourth link), and a session that the application closes.
