--------------------------- MODULE ReceiveBuffer ----------------------------
(***************************************************************************)
(* The receiving side of a connection of contrib/scgl: ringbuffer.c, the   *)
(* asynchronous reads of CTcpHandler::Read and OnRead into it, and         *)
(* CNetService::DecodeRingBuffer, which takes the frames out of it.        *)
(*                                                                         *)
(* A frame is a header of HeaderSize bytes (the int dataLen), dataLen bytes*)
(* and one trailing byte.  A byte is named by its frame and its offset in  *)
(* it, so that a byte in the wrong place is told from the right one.  The  *)
(* network fills the region of an outstanding read while the decoder runs. *)
(*                                                                         *)
(* The peer may send any length.  The decoder copies a frame that wraps    *)
(* into a static buffer of MAX_PACKET_SIZE bytes without a look at its     *)
(* length, and adds to the length as an int.                               *)
(***************************************************************************)
EXTENDS Integers, Sequences

CONSTANTS BufferSize,  \* bufferSize of the ring, a power of two
          HeaderSize,  \* sizeof(int)
          MaxPacket,   \* MAX_PACKET_SIZE, the size of the decoder's static buffer
          MaxInt,      \* INT_MAX
          Lengths,     \* the values of dataLen that the peer sends
          MaxFrames    \* bound: frames sent

ASSUME SizesOK == /\ BufferSize \in {2^k : k \in 1..24}
                  /\ HeaderSize \in 1..(BufferSize - 1)
                  /\ MaxPacket \in Nat /\ MaxInt \in Nat /\ 2 * BufferSize <= MaxInt
                  /\ Lengths \subseteq 0..MaxInt /\ MaxFrames \in Nat

VARIABLES
  frames,       \* the dataLen of every frame sent, 0 for one not positive
  stream,       \* the bytes sent
  arrived,      \* how many of them the system put into the buffer
  buffer, writeIndex, readIndex,
  read,         \* the asynchronous read: its state, its region, bytes received
  armed,        \* local of OnRead: what Read answered
  io,           \* "idle", or "decode" inside OnRead
  guid,         \* guid # 0
  ended,        \* closeStatus is 2_CLOSING or CLOSE_FULL
  failed,       \* a read completed with an error
  closes,       \* the reasons for which the receiving side called Close
  taken,        \* history: how many bytes the decoder took
  decoded,      \* history: the arguments of DecodeData for the frames taken
  misread       \* history: DecodeData got a length that is not in the ring

ring == <<buffer, writeIndex, readIndex>>
peer == <<frames, stream, arrived>>
vars == <<peer, ring, read, armed, io, guid, ended, failed, closes, taken, decoded,
          misread>>

Garbage == <<0, 0>>                       \* memory that may hold anything
Byte    == (1..MaxFrames) \X Nat
NoRead  == [state |-> "none", at |-> 0, size |-> 0, got |-> 0]
Reason  == {"full", "length", "content"}

Span(f, from, to) == [i \in 1..(to - from + 1) |-> <<f, from + i - 1>>]
FrameSize(len)    == IF len = 0 THEN HeaderSize ELSE HeaderSize + len + 1
Header(f)         == Span(f, 1, HeaderSize)
Body(f)           == IF frames[f] = 0 THEN <<>>
                     ELSE Span(f, HeaderSize + 1, FrameSize(frames[f]))

TypeOK ==
  /\ frames \in Seq(Lengths) /\ stream \in Seq(Byte) /\ arrived \in 0..Len(stream)
  /\ buffer \in [0..(BufferSize - 1) -> Byte \cup {Garbage}]
  /\ writeIndex \in 0..(2 * BufferSize - 1)
  /\ readIndex \in 0..(2 * BufferSize - 1)
  /\ read \in [state : {"none", "pending", "done"}, at : 0..(BufferSize - 1),
               size : 0..BufferSize, got : 0..BufferSize]
  /\ armed \in BOOLEAN /\ io \in {"idle", "decode"}
  /\ guid \in BOOLEAN /\ ended \in BOOLEAN /\ failed \in BOOLEAN
  /\ closes \subseteq Reason /\ taken \in 0..arrived
  /\ decoded \in Seq(Seq(Byte \cup {Garbage})) /\ misread \in BOOLEAN

-----------------------------------------------------------------------------
(* ringbuffer.c. *)

bigMask(n)   == n % (2 * BufferSize)      \* n & bigMask
smallMask(n) == n % BufferSize            \* n & smallMask

GetReadAvailable  == bigMask(2 * BufferSize + writeIndex - readIndex)
GetWriteAvailable == BufferSize - GetReadAvailable

\* The two regions of n bytes from an index on: the second starts the buffer.
Regions(index, n) ==
  LET at == smallMask(index)
  IN  IF at + n > BufferSize
      THEN [at |-> at, size1 |-> BufferSize - at, size2 |-> n - (BufferSize - at)]
      ELSE [at |-> at, size1 |-> n, size2 |-> 0]

\* Mutant: the second region is not told from the first.
OneRegion == [at |-> smallMask(writeIndex), size1 |-> GetWriteAvailable, size2 |-> 0]

GetWriteRegions == Regions(writeIndex, GetWriteAvailable)
GetReadRegions  == Regions(readIndex, GetReadAvailable)

\* Mutant: the index is not masked.
AdvanceUnmasked(index, n) == index + n

Advance(index, n) == bigMask(index + n)

-----------------------------------------------------------------------------
(* CNetService::DecodeRingBuffer. *)

\* The memory from an address on, as memcpy or a pointer sees it.
Mem(at, n) == [i \in 1..n |-> IF at + i - 1 \in DOMAIN buffer
                              THEN buffer[at + i - 1] ELSE Garbage]

\* The header is put together from both regions when it wraps.
HeaderBytes(r) ==
  IF r.size1 < HeaderSize
  THEN Mem(r.at, r.size1) \o Mem(0, HeaderSize - r.size1)
  ELSE Mem(r.at, HeaderSize)

\* The dataLen that a header says; one that is no header says 0.
DataLen(header) ==
  IF \E f \in DOMAIN frames : header = Header(f)
  THEN frames[header[1][1]] ELSE 0

\* Mutant: a wrapped header is not skipped in the second region.
FrameDataFromStart(r, n) ==
  IF r.size2 = 0 THEN Mem(r.at + HeaderSize, n)
  ELSE IF r.size1 <= HeaderSize THEN Mem(0, n)
  ELSE IF r.size1 < HeaderSize + n
  THEN Mem(r.at + HeaderSize, r.size1 - HeaderSize) \o Mem(0, n - r.size1 + HeaderSize)
  ELSE Mem(r.at + HeaderSize, n)

\* The n bytes after the header: in the first region, behind a header that wraps
\* or ends the first region, or copied together.
FrameData(r, n) ==
  IF r.size2 = 0 THEN Mem(r.at + HeaderSize, n)
  ELSE IF r.size1 <= HeaderSize THEN Mem(HeaderSize - r.size1, n)
  ELSE IF r.size1 < HeaderSize + n
  THEN Mem(r.at + HeaderSize, r.size1 - HeaderSize) \o Mem(0, n - r.size1 + HeaderSize)
  ELSE Mem(r.at + HeaderSize, n)

\* The static buffer overruns: a frame split by the end of the ring is copied into it.
Overruns(r, n) ==
  r.size2 # 0 /\ HeaderSize < r.size1 /\ r.size1 < HeaderSize + n /\ n > MaxPacket

\* What lies behind the static buffer may be anybody's.
Spoilt(data) == [i \in DOMAIN data |-> IF i <= MaxPacket THEN data[i] ELSE Garbage]

\* What DecodeData may find.
Handed(r, n) ==
  {FrameData(r, n)} \cup {Spoilt(d) : d \in {x \in {FrameData(r, n)} : Overruns(r, n)}}

\* An int, from a sum that may exceed INT_MAX.
AsInt(n) == IF n > MaxInt THEN n - 2 * (MaxInt + 1) ELSE n

PacketLen(dataLen) == AsInt(HeaderSize + AsInt(dataLen + 1))

\* Mutant: a frame that ends with the last unread byte is left for later.
WaitForMore ==
  IF ~guid \/ GetReadAvailable <= HeaderSize
  THEN [kind |-> "wait"]
  ELSE LET len == DataLen(HeaderBytes(GetReadRegions))
       IN  IF len <= 0 THEN [kind |-> "bad"]
           ELSE IF GetReadAvailable <= PacketLen(len) THEN [kind |-> "wait"]
           ELSE IF PacketLen(len) <= 0 THEN [kind |-> "wrapped"]
           ELSE [kind |-> "frame", size |-> PacketLen(len),
                 payloads |-> Handed(GetReadRegions, len + 1)]

\* What the decoder sees at readIndex: nothing to take yet, a length that is not
\* positive, one whose sum with the header wraps and passes the test for bytes that
\* are not there, or a frame.
NextFrame ==
  IF ~guid \/ GetReadAvailable <= HeaderSize
  THEN [kind |-> "wait"]
  ELSE LET len == DataLen(HeaderBytes(GetReadRegions))
       IN  IF len <= 0 THEN [kind |-> "bad"]
           ELSE IF GetReadAvailable < PacketLen(len) THEN [kind |-> "wait"]
           ELSE IF PacketLen(len) <= 0 THEN [kind |-> "wrapped"]
           ELSE [kind |-> "frame", size |-> PacketLen(len),
                 payloads |-> Handed(GetReadRegions, len + 1)]

-----------------------------------------------------------------------------
(* The reads and the decoder, on the I/O thread. *)

\* CTcpHandler::Read in the state where the write index is w: post a read into
\* the first region, unless the buffer is full.
Read ==
  LET r == GetWriteRegions
  IN  IF GetWriteAvailable = 0
      THEN NoRead
      ELSE [state |-> "pending", at |-> r.at, size |-> r.size1, got |-> 0]

Init ==
  /\ frames = <<>> /\ stream = <<>> /\ arrived = 0 /\ taken = 0
  /\ buffer = [i \in 0..(BufferSize - 1) |-> Garbage]
  /\ writeIndex = 0 /\ readIndex = 0
  /\ read = Read
  /\ armed = TRUE /\ io = "idle" /\ guid = TRUE
  /\ ended = FALSE /\ failed = FALSE /\ closes = {} /\ decoded = <<>> /\ misread = FALSE

\* OnRead, up to its loop: account for the bytes and read again at once.
OnRead ==
  /\ io = "idle" /\ read.state = "done"
  /\ UNCHANGED <<peer, buffer, readIndex, guid, ended, failed, closes, taken,
                 decoded, misread>>
  /\ IF ended
     THEN read' = NoRead /\ UNCHANGED <<writeIndex, armed, io>>
     ELSE /\ writeIndex' = Advance(writeIndex, read.got)
          /\ read' = Read'
          /\ armed' = (GetWriteAvailable' # 0)
          /\ io' = "decode"

\* Mutant: an if instead of the while of OnRead.
TakeOnlyOne ==
  /\ io = "decode" /\ NextFrame.kind = "frame"
  /\ \E payload \in NextFrame.payloads : decoded' = Append(decoded, payload)
  /\ readIndex' = Advance(readIndex, NextFrame.size)
  /\ taken' = taken + NextFrame.size
  /\ UNCHANGED <<peer, buffer, writeIndex, armed, guid, ended, failed, closes, misread>>
  /\ read' = (IF armed THEN read ELSE Read')
  /\ io' = "idle"

\* One round of OnRead's loop that takes a frame.  DecodeData may find that the
\* content cannot be decoded, and closes.
TakeFrame ==
  /\ io = "decode" /\ NextFrame.kind = "frame"
  /\ \E payload \in NextFrame.payloads : decoded' = Append(decoded, payload)
  /\ readIndex' = Advance(readIndex, NextFrame.size)
  /\ taken' = taken + NextFrame.size
  /\ closes' \in {closes, closes \cup {"content"}}
  /\ UNCHANGED <<peer, buffer, writeIndex, read, armed, io, guid,
                 ended, failed, misread>>

\* Mutant: OnRead does not read again after a full buffer was emptied.
StopReading ==
  /\ io = "decode" /\ NextFrame.kind # "frame"
  /\ io' = "idle"
  /\ closes' = IF NextFrame.kind = "bad" THEN closes \cup {"length"} ELSE closes
  /\ UNCHANGED <<peer, ring, read, armed, guid, ended, failed, taken, decoded, misread>>

\* The round that takes nothing ends the loop.  If the buffer was full before,
\* it is read into now; if it still is, the data is wrong and OnRead closes.  For a
\* length that wraps DecodeData runs, and may close, but nothing is taken: the
\* negative packetLen ends the loop.
EndDecode ==
  /\ io = "decode" /\ NextFrame.kind # "frame"
  /\ io' = "idle"
  /\ read' = IF armed THEN read ELSE Read
  /\ \E content \in SUBSET {why \in {"content"} : NextFrame.kind = "wrapped"} :
       closes' = closes \cup content
         \cup {why \in {"length"} : NextFrame.kind = "bad"}
         \cup {why \in {"full"} : ~armed /\ GetWriteAvailable = 0}
  /\ misread' = (misread \/ NextFrame.kind = "wrapped")
  /\ UNCHANGED <<peer, ring, armed, guid, ended, failed, taken, decoded>>

-----------------------------------------------------------------------------
(* The peer, the network and the handlers of TcpConnection. *)

Send(len) ==
  /\ Len(frames) < MaxFrames
  /\ frames' = Append(frames, len)
  /\ stream' = stream \o Span(Len(frames) + 1, 1, FrameSize(len))
  /\ UNCHANGED <<arrived, ring, read, armed, io, guid, ended, failed, closes, taken,
                 decoded, misread>>

\* The system puts n bytes into the region of the read and completes it.
Arrive(n) ==
  /\ read.state = "pending" /\ n <= Len(stream) - arrived /\ n <= read.size
  /\ buffer' = [i \in DOMAIN buffer |-> IF i \in read.at..(read.at + n - 1)
                                        THEN stream[arrived + i - read.at + 1]
                                        ELSE buffer[i]]
  /\ arrived' = arrived + n
  /\ read' = [read EXCEPT !.state = "done", !.got = n]
  /\ UNCHANGED <<frames, stream, writeIndex, readIndex, armed, io, guid, ended,
                 failed, closes, taken, decoded, misread>>

\* OnRead with an error: no more reads.
ReadFails ==
  /\ io = "idle" /\ read.state = "pending"
  /\ read' = NoRead /\ failed' = TRUE
  /\ UNCHANGED <<peer, ring, armed, io, guid, ended, closes, taken, decoded, misread>>

\* closeImpl for a peer that ended, or close_core.
StatusEnds ==
  /\ io = "idle" /\ ~ended /\ ended' = TRUE
  /\ UNCHANGED <<peer, ring, read, armed, io, guid, failed, closes,
                 taken, decoded, misread>>

\* InsertConnection of a newer connection takes the guid away.
Replaced ==
  /\ io = "idle" /\ guid /\ guid' = FALSE
  /\ UNCHANGED <<peer, ring, read, armed, io, ended, failed, closes,
                 taken, decoded, misread>>

Next == \/ OnRead \/ TakeFrame \/ EndDecode
        \/ \E len \in Lengths : Send(len)
        \/ \E n \in 1..BufferSize : Arrive(n)
        \/ ReadFails \/ StatusEnds \/ Replaced

Spec == Init /\ [][Next]_vars

-----------------------------------------------------------------------------
(* Safety. *)

\* The ring is the stream: its unread bytes are the next ones of the stream, no
\* outstanding read may overwrite them, and the bytes that a completed read
\* brought follow them.  It holds at every position of a frame in the ring, at a
\* full and at an empty buffer, while the system fills the buffer behind the
\* decoder (ringbuffer.c, CTcpHandler::Read and OnRead).
RingHoldsStream ==
  LET unread == GetReadAvailable
      cell(i) == smallMask(readIndex + i)
  IN  /\ ended \/ unread + read.got = arrived - taken
      /\ \A i \in 0..(unread - 1) :
           /\ buffer[cell(i)] = stream[taken + i + 1]
           /\ read.state # "none" => cell(i) \notin read.at..(read.at + read.size - 1)
      /\ \A i \in 0..(read.got - 1) :
           /\ read.at + i \in DOMAIN buffer
           /\ buffer[read.at + i] = stream[taken + unread + i + 1]

\* When OnRead is done, no whole frame is left in the ring, and the next read is
\* posted, unless the connection ends: nothing waits for bytes that nobody reads.
NothingLeftBehind ==
  io = "idle" =>
    /\ guid => NextFrame.kind # "frame"
    /\ read.state = "none" => ended \/ failed \/ "full" \in closes

\* OnRead gives a connection up as wrong only for a frame that can never fit the
\* buffer or that is never taken, DecodeRingBuffer only for a length that is not
\* positive; a frame that fills the buffer to the last byte, or lies across its
\* end, is no reason.
CloseJustified ==
  LET next == Len(decoded) + 1
  IN  guid => /\ "length" \in closes => frames[next] = 0
              /\ "full" \in closes => \/ frames[next] = 0
                                      \/ FrameSize(frames[next]) > BufferSize

\* What the frames carry, and the frames that the peer sent so far.
Payloads == {<<>>} \cup {Span(f, HeaderSize + 1, FrameSize(len)) :
                           f \in 1..MaxFrames, len \in Lengths}
Sent     == [f \in DOMAIN frames |-> Body(f)]

\* The decoder gets the frames of the peer in order and once each, a frame that fits
\* the static buffer whole; a frame whose length wraps is never taken for one, and
\* only such a frame makes DecodeData read what the peer did not send
\* (DecodeRingBuffer and DecodeData against FrameChannel).
Channel == INSTANCE FrameChannel WITH
             Payload <- Payloads, MaxWhole <- MaxPacket, MaxLength <- MaxInt - HeaderSize,
             Unknown <- Garbage, sent <- Sent, received <- decoded, ended <- ~guid
ChannelSpec == Channel!Spec

-----------------------------------------------------------------------------
(* Liveness. *)

\* The I/O thread runs the completion of a read and its loop; the network
\* delivers what was sent.
FairSpec == /\ Spec
            /\ WF_vars(OnRead \/ TakeFrame \/ EndDecode)
            /\ WF_vars(\E n \in 1..BufferSize : Arrive(n))

\* A frame that can be decoded, and that follows only such frames, reaches the
\* decoder, unless the connection ends; it is one that fits the ring and, since the
\* process need not survive an overrun, the static buffer.
FramesArrive ==
  \A k \in 1..MaxFrames :
    Len(frames) >= k ~> \/ Len(decoded) >= k
                        \/ ended \/ failed \/ ~guid
                        \/ \E f \in DOMAIN frames :
                             /\ f <= k
                             /\ \/ frames[f] = 0 \/ FrameSize(frames[f]) > BufferSize
                                \/ frames[f] + 1 > MaxPacket
=============================================================================
