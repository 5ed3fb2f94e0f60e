------------------------- MODULE ReceiveBufferProofs -------------------------
(***************************************************************************)
(* ReceiveBuffer for every size of the buffer, of the header and of the     *)
(* frames, and every number of frames.                                      *)
(***************************************************************************)
EXTENDS ReceiveBuffer, SequenceTheorems, TLAPS

-----------------------------------------------------------------------------
(* The inductive invariant. *)

unread == GetReadAvailable
next   == Len(decoded) + 1

\* The stream is the frames one behind the other: frame f begins after start[f] bytes.
Layout(start) ==
  /\ start \in [1..(Len(frames) + 1) -> Nat]
  /\ start[Len(frames) + 1] = Len(stream)
  /\ \A f \in 1..Len(frames) :
       /\ start[f + 1] = start[f] + FrameSize(frames[f])
       /\ start[f + 1] <= Len(stream)
       /\ \A k \in 1..FrameSize(frames[f]) : stream[start[f] + k] = <<f, k>>

\* The decoder stands at the beginning of the frame that comes next.
AtBoundary(start) == next \in 1..(Len(frames) + 1) /\ taken = start[next]

StreamInv == \E start : Layout(start) /\ AtBoundary(start)

\* It took the frames before that one.
DecodedInv ==
  \A f \in 1..Len(decoded) : frames[f] > 0 /\ decoded[f] \in {Body(f), Spoilt(Body(f))}

\* An outstanding read lies behind the written bytes, in the free part of the ring.
ReadInv ==
  /\ unread \in 0..BufferSize
  /\ read.state = "none" => read = NoRead
  /\ read.state = "pending" => read.got = 0
  /\ read.state # "none" =>
       /\ read.at = smallMask(writeIndex)
       /\ read.at + read.size <= BufferSize
       /\ read.size <= GetWriteAvailable /\ read.got <= read.size

\* What arrived is taken, in the ring, or in the read that is not accounted for; the
\* bytes of a read that completes after the end are given up.
CountInv ==
  /\ taken + unread + read.got <= arrived
  /\ \/ taken + unread + read.got = arrived
     \/ ended /\ read.state = "none"

\* The bytes of the ring, and of the completed read, are those of the stream.
ContentInv ==
  /\ \A i \in 0..(unread - 1) : buffer[smallMask(readIndex + i)] = stream[taken + i + 1]
  /\ \A i \in 0..(read.got - 1) : buffer[read.at + i] = stream[taken + unread + i + 1]

\* Inside OnRead, armed says whether a read is outstanding; outside, one is.
LoopInv ==
  /\ io = "decode" => ~ended /\ (armed <=> read.state # "none")
  /\ io = "idle" /\ read.state = "none" => ended \/ failed \/ "full" \in closes

\* A whole frame is in the ring.
Whole == /\ guid /\ unread > HeaderSize /\ frames[next] > 0
         /\ unread >= FrameSize(frames[next])

\* The reasons to close, told by the frame that comes next.
ClosesInv ==
  guid => /\ "length" \in closes => next \in DOMAIN frames /\ frames[next] = 0
          /\ "full" \in closes => /\ next \in DOMAIN frames
                                  /\ \/ frames[next] = 0
                                     \/ FrameSize(frames[next]) > BufferSize

IInv == /\ TypeOK /\ ReadInv /\ CountInv /\ ContentInv
        /\ StreamInv /\ DecodedInv /\ LoopInv /\ ClosesInv
        /\ io = "idle" => ~Whole

-----------------------------------------------------------------------------
(* The masks of the ring, and sequences of bytes. *)

\* What SizesOK says of the sizes as numbers.
LEMMA Sizes ==
  /\ BufferSize \in Nat /\ BufferSize > 1
  /\ HeaderSize \in Nat /\ 0 < HeaderSize /\ HeaderSize < BufferSize
  /\ MaxPacket \in Nat /\ MaxInt \in Nat /\ 2 * BufferSize <= MaxInt
  /\ Lengths \subseteq 0..MaxInt /\ Lengths \subseteq Nat /\ MaxFrames \in Nat
<1>1. BufferSize \in {2^k : k \in 1..24}
  BY SizesOK
<1>2. BufferSize \in Nat /\ BufferSize > 1
  BY <1>1
<1> QED
  BY <1>2, SizesOK

\* The two masks without division.
LEMMA SmallMask ==
  \A x \in 0..(3 * BufferSize - 1) :
    smallMask(x) = IF x < BufferSize THEN x
                   ELSE IF x < 2 * BufferSize THEN x - BufferSize
                   ELSE x - 2 * BufferSize
<1> SUFFICES ASSUME NEW x \in 0..(3 * BufferSize - 1)
             PROVE  smallMask(x) = IF x < BufferSize THEN x
                                   ELSE IF x < 2 * BufferSize THEN x - BufferSize
                                   ELSE x - 2 * BufferSize
  OBVIOUS
<1> DEFINE b == BufferSize
<1>1. b \in Nat \ {0} /\ x \in 0..(3 * b - 1)
  BY Sizes
<1> HIDE DEF b
<1>2. x < b => x % b = x
  BY <1>1
<1>3. b <= x /\ x < 2 * b => x % b = x - b
  BY <1>1
<1>4. 2 * b <= x => x % b = x - 2 * b
  BY <1>1
<1>5. x % b = IF x < b THEN x ELSE IF x < 2 * b THEN x - b ELSE x - 2 * b
  BY <1>1, <1>2, <1>3, <1>4
<1> QED
  BY <1>5 DEF b, smallMask

LEMMA BigMask ==
  \A x \in 0..(4 * BufferSize - 1) :
    bigMask(x) = IF x < 2 * BufferSize THEN x ELSE x - 2 * BufferSize
<1> SUFFICES ASSUME NEW x \in 0..(4 * BufferSize - 1)
             PROVE  bigMask(x) = IF x < 2 * BufferSize THEN x ELSE x - 2 * BufferSize
  OBVIOUS
<1> DEFINE b == 2 * BufferSize
<1>1. b \in Nat \ {0} /\ x \in 0..(2 * b - 1)
  BY Sizes
<1> HIDE DEF b
<1>2. x < b => x % b = x
  BY <1>1
<1>3. b <= x => x % b = x - b
  BY <1>1
<1>4. x % b = IF x < b THEN x ELSE x - b
  BY <1>1, <1>2, <1>3
<1> QED
  BY <1>4 DEF b, bigMask

\* ringbuffer_get_read_available without division.
Distance(w, r) == IF w >= r THEN w - r ELSE 2 * BufferSize + w - r

LEMMA Available ==
  \A w, r \in 0..(2 * BufferSize - 1) : bigMask(2 * BufferSize + w - r) = Distance(w, r)
<1> SUFFICES ASSUME NEW w \in 0..(2 * BufferSize - 1), NEW r \in 0..(2 * BufferSize - 1)
             PROVE  bigMask(2 * BufferSize + w - r) = Distance(w, r)
  OBVIOUS
<1>1. 2 * BufferSize + w - r \in 0..(4 * BufferSize - 1)
  BY Sizes
<1> QED
  BY <1>1, BigMask, Sizes DEF Distance

\* Where index r, advanced by n, and then i cells on, lies in the buffer.
LEMMA CellAfterAdvance ==
  ASSUME NEW r \in 0..(2 * BufferSize - 1), NEW n \in 0..BufferSize, NEW i \in Nat,
         n + i < BufferSize
  PROVE  smallMask(Advance(r, n) + i) = smallMask(r + (n + i))
<1>1. Advance(r, n) = IF r + n < 2 * BufferSize THEN r + n ELSE r + n - 2 * BufferSize
  BY BigMask, Sizes DEF Advance
<1>2. r + (n + i) \in 0..(3 * BufferSize - 1)
      /\ Advance(r, n) + i \in 0..(3 * BufferSize - 1)
  BY <1>1, Sizes
<1> QED
  BY <1>1, <1>2, SmallMask, Sizes

\* The cells behind the unread bytes are those from the write index on.
LEMMA CellBehind ==
  ASSUME NEW w \in 0..(2 * BufferSize - 1), NEW r \in 0..(2 * BufferSize - 1),
         Distance(w, r) <= BufferSize, NEW i \in Nat, smallMask(w) + i < BufferSize
  PROVE  smallMask(r + (Distance(w, r) + i)) = smallMask(w) + i
<1>1. smallMask(w) = IF w < BufferSize THEN w ELSE w - BufferSize
  BY SmallMask, Sizes
<1>2. r + (Distance(w, r) + i) \in 0..(4 * BufferSize - 1)
  BY <1>1, Sizes DEF Distance
<1>3. r + (Distance(w, r) + i) \in 0..(3 * BufferSize - 1)
  BY <1>1, Sizes DEF Distance
<1> QED
  BY <1>1, <1>3, SmallMask, Sizes DEF Distance

\* No unread byte lies in a free region behind the write index.
LEMMA CellNotFree ==
  ASSUME NEW w \in 0..(2 * BufferSize - 1), NEW r \in 0..(2 * BufferSize - 1),
         NEW size \in Nat, smallMask(w) + size <= BufferSize,
         Distance(w, r) + size <= BufferSize, NEW i \in 0..(Distance(w, r) - 1)
  PROVE  smallMask(r + i) \notin smallMask(w)..(smallMask(w) + size - 1)
<1>1. smallMask(w) = IF w < BufferSize THEN w ELSE w - BufferSize
  BY SmallMask, Sizes
<1>2. r + i \in 0..(3 * BufferSize - 1) /\ Distance(w, r) \in Nat
  BY Sizes DEF Distance
<1> QED
  BY <1>1, <1>2, SmallMask, Sizes DEF Distance

-----------------------------------------------------------------------------
(* What the decoder sees. *)

\* The n bytes of the stream after the first o that are not taken.
Bytes(o, n) == [i \in 1..n |-> stream[taken + o + i]]

LEMMA BytesConcat ==
  ASSUME TypeOK, NEW o \in Nat, NEW n \in Nat, NEW m \in Nat
  PROVE  Bytes(o, n) \o Bytes(o + n, m) = Bytes(o, n + m)
<1> DEFINE S == {stream[taken + o + i] : i \in 1..(n + m)}
           s == Bytes(o, n)
           t == Bytes(o + n, m)
<1>0. taken \in Nat
  BY DEF TypeOK
<1>1. s \in Seq(S) /\ Len(s) = n /\ \A i \in 1..n : s[i] = stream[taken + o + i]
  BY DEF Bytes
<1>2. \A i \in 1..m : taken + (o + n) + i = taken + o + (n + i) /\ n + i \in 1..(n + m)
  BY <1>0
<1>3. t \in Seq(S) /\ Len(t) = m /\ \A i \in 1..m : t[i] = stream[taken + o + (n + i)]
  BY <1>2 DEF Bytes
<1> HIDE DEF S, s, t
<1>4. /\ s \o t \in Seq(S) /\ Len(s \o t) = n + m
      /\ \A i \in 1..(n + m) : (s \o t)[i] = IF i <= n THEN s[i] ELSE t[i - n]
  BY <1>1, <1>3, ConcatProperties, ZenonT(30)
<1>5. \A i \in 1..(n + m) : (s \o t)[i] = stream[taken + o + i]
  <2> SUFFICES ASSUME NEW i \in 1..(n + m) PROVE (s \o t)[i] = stream[taken + o + i]
    OBVIOUS
  <2>1. CASE i <= n
    BY <2>1, <1>1, <1>4
  <2>2. CASE ~(i <= n)
    <3>1. i - n \in 1..m /\ n + (i - n) = i
      BY <2>2
    <3> QED
      BY <2>2, <3>1, <1>3, <1>4
  <2> QED
    BY <2>1, <2>2
<1>6. s \o t = [i \in 1..(n + m) |-> (s \o t)[i]]
  BY <1>4, LenProperties
<1> QED
  BY <1>5, <1>6 DEF Bytes, s, t

\* The regions of the unread bytes, and where the unread byte number p lies.
LEMMA UnreadCells ==
  ASSUME TypeOK, ReadInv, ContentInv
  PROVE  LET at == smallMask(readIndex)
             r  == GetReadRegions
         IN  /\ at \in 0..(BufferSize - 1) /\ unread \in Nat
             /\ r.at = at
             /\ r.size1 = IF at + unread > BufferSize THEN BufferSize - at ELSE unread
             /\ r.size2 = unread - r.size1
             /\ \A p \in 0..(unread - 1) :
                  IF at + p < BufferSize THEN buffer[at + p] = stream[taken + p + 1]
                  ELSE buffer[at + p - BufferSize] = stream[taken + p + 1]
<1> DEFINE at == smallMask(readIndex)
<1>1. at = IF readIndex < BufferSize THEN readIndex ELSE readIndex - BufferSize
  BY SmallMask, Sizes DEF TypeOK
<1>2. at \in 0..(BufferSize - 1) /\ unread \in 0..BufferSize
  BY <1>1, Sizes DEF TypeOK, ReadInv
<1>3. \A p \in 0..(unread - 1) :
        smallMask(readIndex + p) = IF at + p < BufferSize THEN at + p
                                   ELSE at + p - BufferSize
  <2> SUFFICES ASSUME NEW p \in 0..(unread - 1)
               PROVE  smallMask(readIndex + p) = IF at + p < BufferSize THEN at + p
                                                 ELSE at + p - BufferSize
    OBVIOUS
  <2>1. readIndex + p \in 0..(3 * BufferSize - 1)
    BY <1>2, Sizes DEF TypeOK
  <2> QED
    BY <1>1, <1>2, <2>1, SmallMask, Sizes DEF TypeOK
<1>4. GetReadRegions = IF at + unread > BufferSize
                       THEN [at |-> at, size1 |-> BufferSize - at,
                             size2 |-> unread - (BufferSize - at)]
                       ELSE [at |-> at, size1 |-> unread, size2 |-> 0]
  BY DEF GetReadRegions, Regions, unread
<1> HIDE DEF at
<1>5. \A p \in 0..(unread - 1) :
        IF at + p < BufferSize THEN buffer[at + p] = stream[taken + p + 1]
        ELSE buffer[at + p - BufferSize] = stream[taken + p + 1]
  BY <1>3 DEF ContentInv
<1> QED
  BY <1>2, <1>4, <1>5, Sizes DEF at

\* Unread bytes read as one piece of memory, before and behind the end of the buffer.
LEMMA MemSeen ==
  ASSUME TypeOK, ReadInv, ContentInv, NEW o \in Nat, NEW n \in Nat, o + n <= unread
  PROVE  LET at == smallMask(readIndex)
         IN  /\ at + o + n <= BufferSize => Mem(at + o, n) = Bytes(o, n)
             /\ at + o >= BufferSize => Mem(at + o - BufferSize, n) = Bytes(o, n)
<1> DEFINE at == smallMask(readIndex)
<1>1. at \in 0..(BufferSize - 1) /\ unread \in 0..BufferSize
  BY UnreadCells DEF ReadInv
<1>2. \A p \in 0..(unread - 1) :
        IF at + p < BufferSize THEN buffer[at + p] = stream[taken + p + 1]
        ELSE buffer[at + p - BufferSize] = stream[taken + p + 1]
  BY UnreadCells
<1>3. taken \in Nat /\ DOMAIN buffer = 0..(BufferSize - 1)
  BY DEF TypeOK
<1> HIDE DEF at
<1>4. ASSUME at + o + n <= BufferSize
      PROVE  Mem(at + o, n) = Bytes(o, n)
  <2>1. ASSUME NEW i \in 1..n
        PROVE  /\ at + o + i - 1 \in DOMAIN buffer
               /\ buffer[at + o + i - 1] = stream[taken + o + i]
    <3> DEFINE p == o + i - 1
    <3>1. /\ p \in 0..(unread - 1) /\ at + p < BufferSize
          /\ at + o + i - 1 = at + p /\ taken + o + i = taken + p + 1
      BY <1>1, <1>3, <1>4, Sizes
    <3>2. at + p \in DOMAIN buffer
      BY <3>1, <1>1, <1>3, Sizes
    <3> HIDE DEF p
    <3> QED
      BY <3>1, <3>2, <1>2
  <2> QED
    BY <2>1 DEF Mem, Bytes
<1>5. ASSUME at + o >= BufferSize
      PROVE  Mem(at + o - BufferSize, n) = Bytes(o, n)
  <2>1. ASSUME NEW i \in 1..n
        PROVE  /\ at + o - BufferSize + i - 1 \in DOMAIN buffer
               /\ buffer[at + o - BufferSize + i - 1] = stream[taken + o + i]
    <3> DEFINE p == o + i - 1
    <3>1. /\ p \in 0..(unread - 1) /\ ~(at + p < BufferSize)
          /\ at + p - BufferSize \in 0..(BufferSize - 1)
          /\ at + o - BufferSize + i - 1 = at + p - BufferSize
          /\ taken + o + i = taken + p + 1
      BY <1>1, <1>3, <1>5, Sizes
    <3> HIDE DEF p
    <3> QED
      BY <3>1, <1>2, <1>3
  <2> QED
    BY <2>1 DEF Mem, Bytes
<1> QED
  BY <1>4, <1>5 DEF at

\* The header is read right, also when it wraps.
LEMMA HeaderSeen ==
  ASSUME TypeOK, ReadInv, ContentInv, unread >= HeaderSize
  PROVE  HeaderBytes(GetReadRegions) = Bytes(0, HeaderSize)
<1> DEFINE at == smallMask(readIndex)
           r  == GetReadRegions
           size1 == r.size1
<1>1. /\ at \in 0..(BufferSize - 1) /\ unread \in Nat
      /\ r.at = at
      /\ size1 = IF at + unread > BufferSize THEN BufferSize - at ELSE unread
  BY UnreadCells
<1>2. \A o, n \in Nat : o + n <= unread =>
        /\ at + o + n <= BufferSize => Mem(at + o, n) = Bytes(o, n)
        /\ at + o >= BufferSize => Mem(at + o - BufferSize, n) = Bytes(o, n)
  BY MemSeen
<1>3. HeaderBytes(r) = IF size1 < HeaderSize
                       THEN Mem(at, size1) \o Mem(0, HeaderSize - size1)
                       ELSE Mem(at, HeaderSize)
  BY <1>1 DEF HeaderBytes
<1> HIDE DEF at, size1, r
<1>4. CASE size1 < HeaderSize
  <2> DEFINE n == HeaderSize - size1
  <2>1. /\ 0 \in Nat /\ size1 \in Nat /\ n \in Nat /\ at + 0 = at
        /\ 0 + size1 <= unread /\ at + 0 + size1 <= BufferSize
        /\ size1 + n <= unread
        /\ at + size1 >= BufferSize /\ at + size1 - BufferSize = 0
        /\ 0 + size1 = size1 /\ size1 + n = HeaderSize
    BY <1>1, <1>4, Sizes
  <2> HIDE DEF n
  <2>2. Mem(at, size1) = Bytes(0, size1)
    BY <1>2, <2>1
  <2>3. Mem(0, n) = Bytes(size1, n)
    BY <1>2, <2>1
  <2>4. Bytes(0, size1) \o Bytes(0 + size1, n) = Bytes(0, size1 + n)
    BY <2>1, BytesConcat, Zenon
  <2> USE DEF n
  <2> QED
    BY <1>3, <1>4, <2>1, <2>2, <2>3, <2>4 DEF r
<1>5. CASE ~(size1 < HeaderSize)
  <2>1. /\ at + 0 = at /\ at + 0 + HeaderSize <= BufferSize
        /\ 0 + HeaderSize <= unread /\ HeaderSize \in Nat
    BY <1>1, <1>5, Sizes
  <2> QED
    BY <1>2, <1>3, <1>5, <2>1 DEF r
<1> QED
  BY <1>4, <1>5

\* The n bytes behind the header are read right, wherever the buffer ends.
LEMMA FrameDataSeen ==
  ASSUME TypeOK, ReadInv, ContentInv, NEW n \in Nat, n > 0, unread >= HeaderSize + n
  PROVE  FrameData(GetReadRegions, n) = Bytes(HeaderSize, n)
<1> DEFINE at == smallMask(readIndex)
           r  == GetReadRegions
           size1 == r.size1
<1>1. /\ at \in 0..(BufferSize - 1) /\ unread \in Nat
      /\ r.at = at
      /\ size1 = IF at + unread > BufferSize THEN BufferSize - at ELSE unread
      /\ r.size2 = unread - size1
  BY UnreadCells
<1>2. \A o, m \in Nat : o + m <= unread =>
        /\ at + o + m <= BufferSize => Mem(at + o, m) = Bytes(o, m)
        /\ at + o >= BufferSize => Mem(at + o - BufferSize, m) = Bytes(o, m)
  BY MemSeen
<1>3. FrameData(r, n) =
        IF unread - size1 = 0 THEN Mem(at + HeaderSize, n)
        ELSE IF size1 <= HeaderSize THEN Mem(HeaderSize - size1, n)
        ELSE IF size1 < HeaderSize + n
        THEN Mem(at + HeaderSize, size1 - HeaderSize) \o Mem(0, n - size1 + HeaderSize)
        ELSE Mem(at + HeaderSize, n)
  BY <1>1 DEF FrameData
<1> HIDE DEF at, size1, r
<1>4. CASE at + HeaderSize + n <= BufferSize
  <2>1. /\ HeaderSize \in Nat /\ HeaderSize + n <= unread
        /\ \/ unread - size1 = 0
           \/ /\ ~(unread - size1 = 0) /\ ~(size1 <= HeaderSize)
              /\ ~(size1 < HeaderSize + n)
    BY <1>1, <1>4, Sizes
  <2>2. Mem(at + HeaderSize, n) = Bytes(HeaderSize, n)
    BY <1>2, <1>4, <2>1
  <2> QED
    BY <1>3, <2>1, <2>2 DEF r
<1>5. CASE at + HeaderSize >= BufferSize
  <2>1. /\ HeaderSize \in Nat /\ HeaderSize + n <= unread
        /\ ~(unread - size1 = 0) /\ size1 <= HeaderSize
        /\ at + HeaderSize - BufferSize = HeaderSize - size1
    BY <1>1, <1>5, Sizes
  <2>2. Mem(HeaderSize - size1, n) = Bytes(HeaderSize, n)
    BY <1>2, <1>5, <2>1
  <2> QED
    BY <1>3, <2>1, <2>2 DEF r
<1>6. CASE at + HeaderSize < BufferSize /\ at + HeaderSize + n > BufferSize
  <2> DEFINE n1 == size1 - HeaderSize
             n2 == n - size1 + HeaderSize
  <2>1. /\ HeaderSize \in Nat /\ ~(unread - size1 = 0) /\ ~(size1 <= HeaderSize)
        /\ size1 < HeaderSize + n /\ size1 \in Nat /\ at + size1 = BufferSize
    BY <1>1, <1>6, Sizes
  <2>2. /\ n1 \in Nat /\ n2 \in Nat /\ HeaderSize + n1 = size1 /\ n1 + n2 = n
        /\ HeaderSize + n1 <= unread /\ size1 + n2 <= unread
        /\ at + HeaderSize + n1 <= BufferSize
        /\ at + size1 >= BufferSize /\ at + size1 - BufferSize = 0
    BY <1>1, <2>1, Sizes
  <2>3. FrameData(r, n) = Mem(at + HeaderSize, n1) \o Mem(0, n2)
    BY <1>3, <2>1
  <2> HIDE DEF n1, n2
  <2>4. Mem(at + HeaderSize, n1) = Bytes(HeaderSize, n1)
    BY <1>2, <2>1, <2>2
  <2>5. Mem(0, n2) = Bytes(size1, n2)
    BY <1>2, <2>1, <2>2
  <2>6. Bytes(HeaderSize, n1) \o Bytes(HeaderSize + n1, n2) = Bytes(HeaderSize, n1 + n2)
    BY <2>1, <2>2, BytesConcat
  <2> QED
    BY <2>2, <2>3, <2>4, <2>5, <2>6 DEF r
<1> QED
  BY <1>1, <1>4, <1>5, <1>6, Sizes

LEMMA SpanFacts ==
  \A f, from, to \in Nat : from <= to =>
    /\ Span(f, from, to) \in Seq({f} \X Nat) /\ Len(Span(f, from, to)) = to - from + 1
    /\ \A i \in 1..(to - from + 1) : Span(f, from, to)[i] = <<f, from + i - 1>>
BY DEF Span

\* The frame that comes next lies at the bytes that are not taken.
LEMMA NextBytes ==
  ASSUME TypeOK, NEW start, Layout(start), AtBoundary(start), next \in DOMAIN frames
  PROVE  /\ frames[next] \in Nat /\ FrameSize(frames[next]) \in Nat
         /\ HeaderSize <= FrameSize(frames[next])
         /\ taken + FrameSize(frames[next]) <= Len(stream)
         /\ Bytes(0, HeaderSize) = Header(next)
         /\ frames[next] > 0 => Bytes(HeaderSize, frames[next] + 1) = Body(next)
<1> DEFINE f    == next
           size == FrameSize(frames[f])
<1>1. f \in 1..Len(frames) /\ f \in Nat /\ frames[f] \in Nat /\ taken \in Nat
  <2>1. frames \in Seq(Nat) /\ taken \in Nat
    <3>1. frames \in Seq(Lengths) /\ taken \in Nat
      BY DEF TypeOK
    <3> QED
      BY <3>1, Sizes, SeqMonotonic
  <2>2. DOMAIN frames = 1..Len(frames) /\ Len(frames) \in Nat
    BY <2>1
  <2> QED
    BY <2>1, <2>2
<1>2. size = IF frames[f] = 0 THEN HeaderSize ELSE HeaderSize + frames[f] + 1
  BY DEF FrameSize
<1>3. size \in Nat /\ HeaderSize <= size
  BY <1>1, <1>2, Sizes
<1>4. /\ taken = start[f] /\ start[f + 1] = start[f] + size /\ start[f + 1] <= Len(stream)
      /\ \A k \in 1..size : stream[start[f] + k] = <<f, k>>
  BY <1>1 DEF Layout, AtBoundary
<1> HIDE DEF f, size
<1>5. Bytes(0, HeaderSize) = Header(f)
  <2>1. ASSUME NEW i \in 1..HeaderSize
        PROVE  stream[taken + 0 + i] = <<f, 1 + i - 1>>
    <3>1. i \in 1..size /\ taken + 0 + i = taken + i /\ 1 + i - 1 = i
      BY <1>1, <1>3, Sizes
    <3> QED
      BY <1>4, <3>1
  <2>2. HeaderSize - 1 + 1 = HeaderSize
    BY Sizes
  <2> QED
    BY <2>1, <2>2 DEF Bytes, Header, Span
<1>6. ASSUME frames[f] > 0
      PROVE  Bytes(HeaderSize, frames[f] + 1) = Body(f)
  <2>1. size = HeaderSize + frames[f] + 1 /\ frames[f] # 0
    BY <1>1, <1>2, <1>6
  <2>2. ASSUME NEW i \in 1..(frames[f] + 1)
        PROVE  stream[taken + HeaderSize + i] = <<f, HeaderSize + 1 + i - 1>>
    <3>1. HeaderSize + i \in 1..size /\ taken + HeaderSize + i = taken + (HeaderSize + i)
          /\ HeaderSize + 1 + i - 1 = HeaderSize + i
      BY <1>1, <2>1, Sizes
    <3> QED
      BY <1>4, <3>1
  <2>3. size - (HeaderSize + 1) + 1 = frames[f] + 1
    BY <1>1, <2>1, Sizes
  <2>4. Body(f) = Span(f, HeaderSize + 1, size)
    BY <2>1 DEF Body, size
  <2> QED
    BY <2>2, <2>3, <2>4 DEF Bytes, Span
<1> QED
  BY <1>1, <1>3, <1>4, <1>5, <1>6 DEF f, size

\* packetLen is the size of the frame unless it exceeds INT_MAX; then it is negative.
LEMMA PacketLenFacts ==
  \A len \in 1..MaxInt :
    /\ FrameSize(len) <= MaxInt => PacketLen(len) = FrameSize(len)
    /\ FrameSize(len) > MaxInt => PacketLen(len) \in Int /\ PacketLen(len) < 0
<1> SUFFICES ASSUME NEW len \in 1..MaxInt
             PROVE  /\ FrameSize(len) <= MaxInt => PacketLen(len) = FrameSize(len)
                    /\ FrameSize(len) > MaxInt => PacketLen(len) \in Int /\ PacketLen(len) < 0
  OBVIOUS
<1>1. FrameSize(len) = HeaderSize + len + 1
  BY Sizes DEF FrameSize
<1>2. CASE len = MaxInt
  <2>1. AsInt(len + 1) = -(MaxInt + 1)
    BY <1>2, Sizes DEF AsInt
  <2>2. PacketLen(len) = HeaderSize - (MaxInt + 1)
    BY <2>1, Sizes DEF PacketLen, AsInt
  <2> QED
    BY <1>1, <1>2, <2>2, Sizes
<1>3. CASE len < MaxInt
  <2>1. AsInt(len + 1) = len + 1
    BY <1>3, Sizes DEF AsInt
  <2> QED
    BY <1>1, <1>3, <2>1, Sizes DEF PacketLen, AsInt
<1> QED
  BY <1>2, <1>3, Sizes

\* DecodeRingBuffer tells a whole frame, a bad length and an incomplete frame from each
\* other as the stream says, and hands over the frame that comes next, whole or with what
\* does not fit the static buffer spoilt; a length that wraps is none of the three.
LEMMA FrameSeen ==
  ASSUME TypeOK, ReadInv, CountInv, ContentInv, NEW start, Layout(start), AtBoundary(start)
  PROVE  /\ unread > 0 => next \in DOMAIN frames /\ frames[next] \in Nat
         /\ NextFrame.kind = "frame" <=> Whole
         /\ NextFrame.kind = "bad" => guid /\ unread > HeaderSize /\ frames[next] = 0
         /\ NextFrame.kind = "wrapped" => /\ guid /\ unread > HeaderSize
                                          /\ FrameSize(frames[next]) > MaxInt
         /\ Whole => /\ NextFrame.size = FrameSize(frames[next])
                     /\ NextFrame.payloads \subseteq {Body(next), Spoilt(Body(next))}
<1>1. unread \in 0..BufferSize /\ taken \in Nat /\ taken + unread <= Len(stream)
      /\ Len(stream) \in Nat /\ Len(frames) \in Nat
  BY Sizes DEF TypeOK, ReadInv, CountInv
<1>2. ASSUME unread > 0
      PROVE  next \in DOMAIN frames
  <2>1. next \in 1..(Len(frames) + 1) /\ taken = start[next]
        /\ start[Len(frames) + 1] = Len(stream)
    BY DEF Layout, AtBoundary
  <2>2. next # Len(frames) + 1
    BY <2>1, <1>1, <1>2, Sizes
  <2>3. next \in 1..Len(frames)
    BY <2>1, <2>2, <1>1
  <2> QED
    BY <2>3 DEF TypeOK
<1>3. CASE ~guid \/ unread <= HeaderSize
  <2>1. NextFrame = [kind |-> "wait"]
    BY <1>3 DEF NextFrame, unread
  <2>2. ~Whole
    BY <1>1, <1>3, Sizes DEF Whole
  <2>3. unread > 0 => frames[next] \in Nat
    BY <1>2, NextBytes
  <2> QED
    BY <1>2, <2>1, <2>2, <2>3
<1>4. CASE guid /\ unread > HeaderSize
  <2> DEFINE f   == next
             len == frames[f]
             at  == GetReadRegions
  <2>1. next \in DOMAIN frames /\ unread >= HeaderSize
    BY <1>1, <1>2, <1>4, Sizes
  <2>2. /\ len \in Nat /\ FrameSize(len) \in Nat
        /\ Bytes(0, HeaderSize) = Header(f)
        /\ len > 0 => Bytes(HeaderSize, len + 1) = Body(f)
    BY <2>1, NextBytes
  <2>3. HeaderBytes(at) = Header(f)
    BY <2>1, <2>2, HeaderSeen
  <2>4. DataLen(HeaderBytes(at)) = len
    <3>1. Header(f)[1] = <<f, 1>>
      BY Sizes DEF Header, Span
    <3>2. Header(f)[1][1] = f
      BY <3>1
    <3> QED
      BY <2>1, <2>3, <3>2 DEF DataLen
  <2>5. NextFrame = IF len <= 0 THEN [kind |-> "bad"]
                    ELSE IF unread < PacketLen(len) THEN [kind |-> "wait"]
                    ELSE IF PacketLen(len) <= 0 THEN [kind |-> "wrapped"]
                    ELSE [kind |-> "frame", size |-> PacketLen(len),
                          payloads |-> Handed(at, len + 1)]
    <3>1. ~(~guid \/ GetReadAvailable <= HeaderSize)
      BY <1>1, <1>4, Sizes DEF unread
    <3> QED
      BY <3>1, <2>4 DEF NextFrame, unread
  <2>6. Whole <=> len > 0 /\ unread >= FrameSize(len)
    BY <1>4 DEF Whole
  <2>10. len \in 0..MaxInt
    <3>1. frames \in Seq(Lengths)
      BY DEF TypeOK
    <3>2. len \in Lengths
      BY <2>1, <3>1
    <3> QED
      BY <3>2, Sizes
  <2>11. CASE len > 0 /\ FrameSize(len) > MaxInt
    <3>1. PacketLen(len) \in Int /\ PacketLen(len) < 0
      BY <2>10, <2>11, PacketLenFacts
    <3>2. NextFrame = [kind |-> "wrapped"]
      BY <1>1, <2>2, <2>5, <2>11, <3>1
    <3>3. ~(unread >= FrameSize(len))
      BY <1>1, <2>2, <2>11, Sizes
    <3> QED
      BY <1>4, <2>1, <2>2, <2>6, <2>11, <3>2, <3>3
  <2>7. CASE len = 0
    BY <1>4, <2>1, <2>2, <2>5, <2>6, <2>7
  <2>8. CASE len > 0 /\ FrameSize(len) <= MaxInt /\ unread < FrameSize(len)
    <3>1. PacketLen(len) = FrameSize(len)
      BY <2>8, <2>10, PacketLenFacts
    <3> QED
      BY <1>1, <2>1, <2>2, <2>5, <2>6, <2>8, <3>1
  <2>9. CASE len > 0 /\ FrameSize(len) <= MaxInt /\ unread >= FrameSize(len)
    <3>1. len + 1 \in Nat /\ len + 1 > 0 /\ unread >= HeaderSize + (len + 1)
      BY <2>2, <2>9, Sizes, <1>1 DEF FrameSize
    <3>2. FrameData(at, len + 1) = Bytes(HeaderSize, len + 1)
      BY <3>1, FrameDataSeen
    <3>3. PacketLen(len) = FrameSize(len)
      BY <2>9, <2>10, PacketLenFacts
    <3>4. NextFrame = [kind |-> "frame", size |-> FrameSize(len),
                       payloads |-> Handed(at, len + 1)]
      <4>1. ~(len <= 0) /\ ~(unread < PacketLen(len)) /\ ~(PacketLen(len) <= 0)
        BY <1>1, <2>2, <2>9, <3>3, Sizes DEF FrameSize
      <4> QED
        BY <2>5, <3>3, <4>1
    <3>5. Handed(at, len + 1) \subseteq {Body(f), Spoilt(Body(f))}
      BY <2>2, <2>9, <3>2 DEF Handed
    <3> QED
      BY <2>1, <2>2, <2>6, <2>9, <3>4, <3>5
  <2> QED
    BY <1>1, <2>2, <2>7, <2>8, <2>9, <2>10, <2>11, Sizes
<1> QED
  BY <1>1, <1>3, <1>4, Sizes

-----------------------------------------------------------------------------
(* Every step preserves the invariant. *)

LEMMA RegionsFacts ==
  \A w \in 0..(2 * BufferSize - 1), n \in 0..BufferSize :
    LET r == Regions(w, n)
    IN  /\ r.at = smallMask(w) /\ r.at \in 0..(BufferSize - 1)
        /\ r.size1 \in 0..n /\ r.at + r.size1 <= BufferSize
<1> SUFFICES ASSUME NEW w \in 0..(2 * BufferSize - 1), NEW n \in 0..BufferSize
             PROVE  LET r == Regions(w, n)
                    IN  /\ r.at = smallMask(w) /\ r.at \in 0..(BufferSize - 1)
                        /\ r.size1 \in 0..n /\ r.at + r.size1 <= BufferSize
  OBVIOUS
<1>1. smallMask(w) \in 0..(BufferSize - 1)
  BY SmallMask, Sizes
<1> QED
  BY <1>1, Sizes DEF Regions

LEMMA UnreadIsDistance ==
  TypeOK => unread = Distance(writeIndex, readIndex)
BY Available DEF TypeOK, unread, GetReadAvailable

\* A read that is posted when unread bytes are in the ring.
LEMMA ReadFacts ==
  ASSUME NEW w \in 0..(2 * BufferSize - 1), NEW n \in 0..BufferSize, NEW rd,
         rd = IF n = 0 THEN NoRead
              ELSE [state |-> "pending", at |-> Regions(w, n).at,
                    size |-> Regions(w, n).size1, got |-> 0]
  PROVE  /\ rd \in [state : {"none", "pending", "done"}, at : 0..(BufferSize - 1),
                    size : 0..BufferSize, got : 0..BufferSize]
         /\ rd.state = "none" <=> n = 0
         /\ rd.state = "none" => rd = NoRead
         /\ rd.got = 0
         /\ n # 0 => rd.at = smallMask(w) /\ rd.at + rd.size <= BufferSize /\ rd.size <= n
<1>1. CASE n = 0
  BY <1>1, Sizes DEF NoRead
<1>2. CASE n # 0
  <2> DEFINE r == Regions(w, n)
  <2>1. /\ r.at = smallMask(w) /\ r.at \in 0..(BufferSize - 1)
        /\ r.size1 \in 0..n /\ r.at + r.size1 <= BufferSize
    BY RegionsFacts
  <2>2. rd = [state |-> "pending", at |-> r.at, size |-> r.size1, got |-> 0]
    BY <1>2
  <2> HIDE DEF r
  <2>3. r.size1 \in 0..BufferSize /\ r.size1 <= n /\ 0 \in 0..BufferSize
    BY <2>1, Sizes
  <2> QED
    BY <1>2, <2>1, <2>2, <2>3
<1> QED
  BY <1>1, <1>2

LEMMA InitInv == Init => IInv
<1> SUFFICES ASSUME Init PROVE IInv
  OBVIOUS
<1> USE Sizes
<1>1. 0 \in 0..(2 * BufferSize - 1) /\ BufferSize \in 0..BufferSize /\ BufferSize # 0
  OBVIOUS
<1>2. unread = 0 /\ GetWriteAvailable = BufferSize
  BY <1>1, Available DEF Init, unread, GetReadAvailable, GetWriteAvailable, Distance
<1>3. read = [state |-> "pending", at |-> Regions(0, BufferSize).at,
              size |-> Regions(0, BufferSize).size1, got |-> 0]
  BY <1>1, <1>2 DEF Init, Read, GetWriteRegions
<1>4. /\ read \in [state : {"none", "pending", "done"}, at : 0..(BufferSize - 1),
                   size : 0..BufferSize, got : 0..BufferSize]
      /\ read.state # "none" /\ read.got = 0
      /\ read.at = smallMask(0) /\ read.at + read.size <= BufferSize
      /\ read.size <= BufferSize /\ read.state = "pending"
  BY <1>1, <1>3, ReadFacts
<1>5. TypeOK
  <2>1. buffer \in [0..(BufferSize - 1) -> Byte \cup {Garbage}]
    BY DEF Init
  <2>2. frames \in Seq(Lengths) /\ stream \in Seq(Byte) /\ Len(stream) = 0
        /\ decoded \in Seq(Seq(Byte \cup {Garbage}))
    BY DEF Init
  <2> QED
    <3>1. closes \subseteq Reason /\ misread \in BOOLEAN /\ armed \in BOOLEAN /\ guid \in BOOLEAN
          /\ ended \in BOOLEAN /\ failed \in BOOLEAN /\ io = "idle"
      BY DEF Init
    <3>2. arrived = 0 /\ taken = 0 /\ writeIndex = 0 /\ readIndex = 0
      BY DEF Init
    <3> QED
      BY <1>1, <1>4, <2>1, <2>2, <3>1, <3>2 DEF TypeOK
<1>6. ReadInv /\ CountInv /\ ContentInv /\ LoopInv
  BY <1>2, <1>4 DEF Init, ReadInv, CountInv, ContentInv, LoopInv
<1>7. StreamInv
  <2>1. Layout([i \in 1..1 |-> 0]) /\ AtBoundary([i \in 1..1 |-> 0])
    BY DEF Init, Layout, AtBoundary, next
  <2> QED
    BY <2>1 DEF StreamInv
<1>8. DecodedInv /\ ClosesInv /\ ~Whole
  BY <1>2 DEF Init, DecodedInv, ClosesInv, Whole
<1> QED
  BY <1>5, <1>6, <1>7, <1>8 DEF IInv

\* Steps that only decide about the connection.
LEMMA StatusStep ==
  ASSUME IInv, ReadFails \/ StatusEnds \/ Replaced
  PROVE  IInv'
<1> USE DEF ReadFails, StatusEnds, Replaced
<1>1. UNCHANGED <<peer, ring, taken, decoded, closes, io, armed, misread>> /\ io = "idle"
  OBVIOUS
<1>2. unread' = unread /\ GetWriteAvailable' = GetWriteAvailable /\ next' = next
  BY <1>1 DEF unread, GetReadAvailable, GetWriteAvailable, ring, next
<1>3. read' = read \/ (read' = NoRead /\ failed' /\ read.state = "pending")
  OBVIOUS
<1>4. (ended => ended') /\ (failed => failed') /\ (guid' => guid)
  OBVIOUS
<1>5. NoRead.state = "none" /\ NoRead.got = 0
      /\ NoRead \in [state : {"none", "pending", "done"}, at : 0..(BufferSize - 1),
                     size : 0..BufferSize, got : 0..BufferSize]
  BY Sizes DEF NoRead
<1>6. TypeOK'
  BY <1>1, <1>3, <1>5 DEF IInv, TypeOK, peer, ring
<1>7. ReadInv'
  BY <1>1, <1>2, <1>3, <1>5 DEF IInv, ReadInv, ring
<1>8. CountInv'
  BY <1>1, <1>2, <1>3, <1>4, <1>5 DEF IInv, TypeOK, ReadInv, CountInv, peer
<1>9. ContentInv'
  <2>1. (read'.at = read.at /\ read'.got = read.got) \/ read'.got = 0
    BY <1>3, <1>5
  <2> QED
    BY <1>1, <1>2, <2>1 DEF IInv, ContentInv, ring, peer
<1>10. StreamInv' /\ DecodedInv'
  BY <1>1, <1>2 DEF IInv, StreamInv, Layout, AtBoundary, DecodedInv, Body, peer
<1>11. LoopInv'
  BY <1>1, <1>3, <1>4 DEF IInv, LoopInv
<1>12. ClosesInv' /\ (io' = "idle" => ~Whole')
  BY <1>1, <1>2, <1>4 DEF IInv, ClosesInv, Whole, peer
<1> QED
  BY <1>6, <1>7, <1>8, <1>9, <1>10, <1>11, <1>12 DEF IInv

\* What a step that leaves the frames and the decoder alone keeps.
LEMMA StreamKept ==
  ASSUME StreamInv, DecodedInv, UNCHANGED <<frames, stream, taken, decoded>>
  PROVE  StreamInv' /\ DecodedInv' /\ next' = next
BY DEF StreamInv, Layout, AtBoundary, DecodedInv, Body, next

\* OnRead accounts for the bytes of the read and posts the next one.
LEMMA OnReadStep ==
  ASSUME IInv, OnRead
  PROVE  IInv'
<1> USE DEF IInv
<1>1. /\ io = "idle" /\ read.state = "done"
      /\ UNCHANGED <<peer, buffer, readIndex, guid, ended, failed, closes, taken, decoded,
                     misread>>
  BY DEF OnRead
<1>2. StreamInv' /\ DecodedInv' /\ next' = next
  BY <1>1, StreamKept DEF peer
<1>3. ClosesInv'
  BY <1>1, <1>2 DEF ClosesInv, peer
<1>4. CASE ended
  <2>1. read' = NoRead /\ UNCHANGED <<writeIndex, armed, io>>
    BY <1>4 DEF OnRead
  <2>2. unread' = unread /\ GetWriteAvailable' = GetWriteAvailable
    BY <1>1, <2>1 DEF unread, GetReadAvailable, GetWriteAvailable
  <2>3. NoRead.state = "none" /\ NoRead.got = 0
        /\ NoRead \in [state : {"none", "pending", "done"}, at : 0..(BufferSize - 1),
                       size : 0..BufferSize, got : 0..BufferSize]
    BY Sizes DEF NoRead
  <2>4. TypeOK'
    BY <1>1, <2>1, <2>3 DEF TypeOK, peer
  <2>5. ReadInv'
    BY <2>1, <2>2, <2>3 DEF ReadInv
  <2>6. CountInv'
    BY <1>1, <1>4, <2>1, <2>2, <2>3, Sizes DEF TypeOK, ReadInv, CountInv, peer
  <2>7. ContentInv'
    BY <1>1, <2>1, <2>2, <2>3 DEF ContentInv, peer
  <2>8. LoopInv' /\ (io' = "idle" => ~Whole')
    BY <1>1, <1>2, <1>4, <2>1, <2>2 DEF LoopInv, Whole, peer
  <2> QED
    BY <1>2, <1>3, <2>4, <2>5, <2>6, <2>7, <2>8
<1>5. CASE ~ended
  <2>1. /\ writeIndex' = Advance(writeIndex, read.got)
        /\ read' = IF GetWriteAvailable' = 0 THEN NoRead
                   ELSE [state |-> "pending",
                         at |-> Regions(writeIndex', GetWriteAvailable').at,
                         size |-> Regions(writeIndex', GetWriteAvailable').size1, got |-> 0]
        /\ armed' = (GetWriteAvailable' # 0)
        /\ io' = "decode"
    BY <1>5 DEF OnRead, Read, GetWriteRegions
  <2> DEFINE w   == writeIndex
             got == read.got
             at  == smallMask(writeIndex)
  <2>2. /\ unread = Distance(w, readIndex) /\ unread \in 0..BufferSize
        /\ w \in 0..(2 * BufferSize - 1) /\ readIndex \in 0..(2 * BufferSize - 1)
        /\ read.at = at /\ at \in 0..(BufferSize - 1) /\ got \in 0..BufferSize
        /\ at + got <= BufferSize /\ unread + got <= BufferSize
    <3>1. /\ unread = Distance(w, readIndex) /\ unread \in 0..BufferSize
          /\ w \in 0..(2 * BufferSize - 1) /\ readIndex \in 0..(2 * BufferSize - 1)
          /\ read.at = at /\ read.at \in 0..(BufferSize - 1) /\ got \in 0..BufferSize
      BY <1>1, UnreadIsDistance DEF TypeOK, ReadInv
    <3>2. /\ read.at + read.size <= BufferSize /\ read.size \in 0..BufferSize
          /\ read.size <= BufferSize - unread /\ got <= read.size
      BY <1>1 DEF TypeOK, ReadInv, GetWriteAvailable, unread
    <3> QED
      BY <3>1, <3>2, Sizes
  <2>3. /\ writeIndex' \in 0..(2 * BufferSize - 1)
        /\ writeIndex' = IF w + got < 2 * BufferSize THEN w + got
                         ELSE w + got - 2 * BufferSize
    BY <2>1, <2>2, BigMask, Sizes DEF Advance
  <2>4. unread' = unread + got
    <3>1. unread' = Distance(writeIndex', readIndex)
      BY <1>1, <2>2, <2>3, Available DEF unread, GetReadAvailable
    <3> QED
      BY <2>2, <2>3, <3>1, Sizes DEF Distance
  <2>5. unread' \in 0..BufferSize /\ GetWriteAvailable' = BufferSize - unread'
        /\ GetWriteAvailable' \in 0..BufferSize
    BY <2>2, <2>4, Sizes DEF GetWriteAvailable, unread
  <2>6. /\ read' \in [state : {"none", "pending", "done"}, at : 0..(BufferSize - 1),
                      size : 0..BufferSize, got : 0..BufferSize]
        /\ read'.state = "none" <=> GetWriteAvailable' = 0
        /\ read'.state = "none" => read' = NoRead
        /\ read'.got = 0
        /\ GetWriteAvailable' # 0 => /\ read'.at = smallMask(writeIndex')
                                     /\ read'.at + read'.size <= BufferSize
                                     /\ read'.size <= GetWriteAvailable'
    BY <2>1, <2>3, <2>5, ReadFacts
  <2>7. TypeOK'
    BY <1>1, <2>1, <2>3, <2>6 DEF TypeOK, peer
  <2>8. ReadInv'
    BY <2>5, <2>6 DEF ReadInv, TypeOK
  <2>9. CountInv'
    <3>1. taken + unread + got = arrived /\ taken \in Nat
      BY <1>1, <1>5 DEF CountInv, TypeOK
    <3> QED
      BY <1>1, <2>2, <2>4, <2>6, <3>1, Sizes DEF CountInv, peer
  <2>10. ContentInv'
    <3>1. taken \in Nat /\ \A i \in 0..(got - 1) :
                              buffer[at + i] = stream[taken + unread + i + 1]
      BY <2>2 DEF ContentInv, TypeOK
    <3>2. ASSUME NEW i \in 0..(unread + got - 1)
          PROVE  buffer[smallMask(readIndex + i)] = stream[taken + i + 1]
      <4>1. CASE i < unread
        BY <2>2, <4>1 DEF ContentInv
      <4>2. CASE i >= unread
        <5> DEFINE k == i - unread
        <5>1. k \in 0..(got - 1) /\ k \in Nat /\ i = unread + k /\ at + k < BufferSize
              /\ taken + unread + k + 1 = taken + i + 1
          BY <2>2, <3>1, <4>2, Sizes
        <5>2. Distance(w, readIndex) <= BufferSize
          BY <2>2
        <5> HIDE DEF k
        <5>3. smallMask(readIndex + (Distance(w, readIndex) + k)) = at + k
          BY <2>2, <5>1, <5>2, CellBehind
        <5> QED
          BY <2>2, <3>1, <5>1, <5>3
      <4> QED
        BY <2>2, <4>1, <4>2
    <3>3. ASSUME NEW i \in 0..(unread' - 1)
          PROVE  buffer'[smallMask(readIndex' + i)] = stream'[taken' + i + 1]
      <4>1. stream' = stream /\ taken' = taken /\ buffer' = buffer /\ readIndex' = readIndex
        BY <1>1 DEF peer
      <4>2. i \in 0..(unread + got - 1)
        BY <2>2, <2>4, <2>5
      <4> QED
        BY <3>2, <4>1, <4>2
    <3>4. 0..(read'.got - 1) = {}
      BY <2>6
    <3> QED
      BY <3>3, <3>4 DEF ContentInv, smallMask
  <2>11. LoopInv' /\ io' = "decode"
    BY <1>1, <1>5, <2>1, <2>6 DEF LoopInv
  <2> QED
    BY <1>2, <1>3, <2>7, <2>8, <2>9, <2>10, <2>11
<1> QED
  BY <1>4, <1>5

\* The decoder takes a frame.
LEMMA TakeFrameStep ==
  ASSUME IInv, TakeFrame
  PROVE  IInv'
<1> USE DEF IInv
<1>1. /\ io = "decode" /\ NextFrame.kind = "frame"
      /\ \E p \in NextFrame.payloads : decoded' = Append(decoded, p)
      /\ readIndex' = Advance(readIndex, NextFrame.size)
      /\ taken' = taken + NextFrame.size
      /\ closes' \in {closes, closes \cup {"content"}}
      /\ UNCHANGED <<peer, buffer, writeIndex, read, armed, io, guid, ended, failed,
                     misread>>
  BY DEF TakeFrame
<1>2. PICK start : Layout(start) /\ AtBoundary(start)
  BY DEF StreamInv
<1> DEFINE size == FrameSize(frames[next])
           f    == next
<1>3. /\ Whole /\ next \in DOMAIN frames /\ frames[next] \in Nat
      /\ NextFrame.size = size
      /\ NextFrame.payloads \subseteq {Body(next), Spoilt(Body(next))}
  <2>1. Whole
    BY <1>1, <1>2, FrameSeen
  <2>2. unread > 0
    BY <2>1, Sizes DEF Whole, ReadInv
  <2> QED
    BY <1>2, <2>1, <2>2, FrameSeen
<1>4. /\ size \in Nat /\ size <= unread /\ unread \in 0..BufferSize /\ frames[next] > 0
      /\ taken \in Nat /\ ~ended
  BY <1>1, <1>2, <1>3, NextBytes DEF Whole, ReadInv, TypeOK, LoopInv
<1> HIDE DEF size
<1>5. /\ unread = Distance(writeIndex, readIndex)
      /\ writeIndex \in 0..(2 * BufferSize - 1) /\ readIndex \in 0..(2 * BufferSize - 1)
  BY UnreadIsDistance DEF TypeOK
<1>6. /\ readIndex' \in 0..(2 * BufferSize - 1)
      /\ readIndex' = IF readIndex + size < 2 * BufferSize THEN readIndex + size
                      ELSE readIndex + size - 2 * BufferSize
  BY <1>1, <1>3, <1>4, <1>5, BigMask, Sizes DEF Advance
<1>7. unread' = unread - size /\ unread' \in 0..BufferSize
  <2>1. unread' = Distance(writeIndex', readIndex')
    BY <1>1, <1>5, <1>6, Available DEF unread, GetReadAvailable
  <2> QED
    BY <1>1, <1>4, <1>5, <1>6, <2>1, Sizes DEF Distance
<1>8. f \in 1..Len(frames) /\ f \in 1..MaxFrames /\ Len(decoded) \in Nat /\ f = Len(decoded) + 1
  <2>1. f \in 1..Len(frames) /\ Len(decoded) \in Nat /\ f = Len(decoded) + 1
    BY <1>3 DEF TypeOK, next
  <2>2. start[f] + 1 \in 1..Len(stream) /\ stream[start[f] + 1] = <<f, 1>>
    <3>1. 1 \in 1..FrameSize(frames[f])
      BY <1>2, <1>3, <1>4, NextBytes, Sizes
    <3>2. stream[start[f] + 1] = <<f, 1>>
      BY <1>2, <2>1, <3>1 DEF Layout
    <3>3. start[f] = taken /\ taken + size <= Len(stream) /\ size >= 1
      BY <1>2, <1>3, <3>1, NextBytes, <1>4 DEF AtBoundary, size
    <3> QED
      BY <3>2, <3>3, <1>4 DEF TypeOK
  <2>3. <<f, 1>> \in Byte
    <3>1. stream \in Seq(Byte)
      BY DEF TypeOK
    <3> QED
      BY <2>2, <3>1, ElementOfSeq, Zenon
  <2> QED
    BY <2>1, <2>3 DEF Byte
<1>9. /\ decoded' \in Seq(Seq(Byte \cup {Garbage}))
      /\ Len(decoded') = Len(decoded) + 1
      /\ \A k \in 1..Len(decoded) : decoded'[k] = decoded[k]
      /\ decoded'[f] \in {Body(f), Spoilt(Body(f))} /\ next' = f + 1
  <2>1. Body(f) \in Seq(Byte \cup {Garbage})
    <3>1. Body(f) = Span(f, HeaderSize + 1, FrameSize(frames[f]))
      BY <1>3, <1>4 DEF Body
    <3>2. /\ FrameSize(frames[f]) \in Nat /\ HeaderSize + 1 <= FrameSize(frames[f])
          /\ HeaderSize + 1 \in Nat /\ f \in Nat
      BY <1>3, <1>4, <1>8, Sizes DEF FrameSize
    <3>3. Body(f) \in Seq({f} \X Nat)
      BY <3>1, <3>2, SpanFacts, ZenonT(30)
    <3>4. {f} \X Nat \subseteq Byte \cup {Garbage}
      BY <1>8 DEF Byte
    <3> QED
      BY <3>3, <3>4, SeqMonotonic
  <2>2. Spoilt(Body(f)) \in Seq(Byte \cup {Garbage})
    <3>1. /\ DOMAIN Body(f) = 1..Len(Body(f)) /\ Len(Body(f)) \in Nat
          /\ \A i \in 1..Len(Body(f)) : Body(f)[i] \in Byte \cup {Garbage}
      BY <2>1
    <3> QED
      BY <3>1 DEF Spoilt
  <2>3. PICK p \in {Body(f), Spoilt(Body(f))} : decoded' = Append(decoded, p)
    BY <1>1, <1>3
  <2>4. p \in Seq(Byte \cup {Garbage}) /\ decoded \in Seq(Seq(Byte \cup {Garbage}))
    BY <2>1, <2>2 DEF TypeOK
  <2> QED
    BY <1>8, <2>3, <2>4, AppendProperties DEF next
<1>10. CountInv' /\ taken' \in 0..arrived'
  <2>1. taken' + unread' = taken + unread /\ taken' \in Nat
    BY <1>1, <1>3, <1>4, <1>7
  <2>2. read.got \in Nat /\ arrived \in Nat
    BY Sizes DEF TypeOK
  <2> QED
    BY <1>1, <1>4, <1>7, <2>1, <2>2, Sizes DEF CountInv, peer
<1>11. TypeOK'
  BY <1>1, <1>6, <1>9, <1>10 DEF TypeOK, peer, Reason
<1>12. ReadInv'
  <2>1. GetWriteAvailable' = BufferSize - unread' /\ GetWriteAvailable = BufferSize - unread
    BY DEF GetWriteAvailable, unread
  <2>2. GetWriteAvailable' >= GetWriteAvailable
        /\ GetWriteAvailable' \in Nat /\ GetWriteAvailable \in Nat
    BY <1>4, <1>7, <2>1, Sizes
  <2>3. read.size \in Nat
    BY DEF TypeOK
  <2> QED
    BY <1>1, <1>7, <2>2, <2>3 DEF ReadInv
<1>13. ContentInv'
  <2>1. ASSUME NEW i \in 0..(unread' - 1)
        PROVE  buffer'[smallMask(readIndex' + i)] = stream'[taken' + i + 1]
    <3> DEFINE k == size + i
    <3>1. /\ k \in 0..(unread - 1) /\ k < BufferSize /\ size \in 0..BufferSize /\ i \in Nat
          /\ taken' + i + 1 = taken + k + 1 /\ k = size + i
      BY <1>1, <1>3, <1>4, <1>7, Sizes
    <3>2. smallMask(Advance(readIndex, size) + i) = smallMask(readIndex + (size + i))
      BY <1>5, <3>1, CellAfterAdvance
    <3> HIDE DEF k
    <3>3. buffer[smallMask(readIndex + k)] = stream[taken + k + 1]
      BY <3>1 DEF ContentInv
    <3>4. readIndex' = Advance(readIndex, size) /\ buffer' = buffer /\ stream' = stream
      BY <1>1, <1>3 DEF peer
    <3> QED
      BY <3>1, <3>2, <3>3, <3>4
  <2>2. ASSUME NEW i \in 0..(read'.got - 1)
        PROVE  buffer'[read'.at + i] = stream'[taken' + unread' + i + 1]
    <3>1. taken' + unread' = taken + unread
      BY <1>1, <1>3, <1>4, <1>7
    <3>2. buffer' = buffer /\ stream' = stream /\ read' = read
      BY <1>1 DEF peer
    <3> QED
      BY <3>1, <3>2 DEF ContentInv
  <2> QED
    BY <2>1, <2>2 DEF ContentInv, smallMask
<1>14. StreamInv'
  <2>1. Layout(start)'
    BY <1>1, <1>2 DEF Layout, peer
  <2>2. AtBoundary(start)'
    <3>1. taken = start[f] /\ start[f + 1] = start[f] + size
      BY <1>2, <1>8 DEF AtBoundary, Layout, size
    <3>2. f + 1 \in 1..(Len(frames) + 1)
      BY <1>8 DEF TypeOK
    <3> QED
      BY <1>1, <1>3, <1>9, <3>1, <3>2 DEF AtBoundary, peer
  <2> QED
    BY <2>1, <2>2 DEF StreamInv
<1>15. DecodedInv'
  <2>1. frames' = frames /\ \A k : Body(k)' = Body(k) /\ Spoilt(Body(k))' = Spoilt(Body(k))
    BY <1>1 DEF peer, Body, Spoilt
  <2>2. \A k \in 1..Len(decoded') : k \in 1..Len(decoded) \/ k = f
    BY <1>8, <1>9
  <2> QED
    BY <1>4, <1>9, <2>1, <2>2 DEF DecodedInv
<1>16. LoopInv' /\ io' = "decode"
  BY <1>1 DEF LoopInv
<1>17. ClosesInv'
  <2>1. "length" \notin closes /\ "full" \notin closes
    BY <1>3, <1>4, Sizes DEF Whole, ClosesInv, size
  <2>2. "length" \notin closes' /\ "full" \notin closes'
    BY <1>1, <2>1
  <2> QED
    BY <2>2 DEF ClosesInv
<1> QED
  BY <1>10, <1>11, <1>12, <1>13, <1>14, <1>15, <1>16, <1>17

\* The loop of OnRead ends.
LEMMA EndDecodeStep ==
  ASSUME IInv, EndDecode
  PROVE  IInv'
<1> USE DEF IInv
<1>1. /\ io = "decode" /\ NextFrame.kind # "frame" /\ io' = "idle"
      /\ read' = (IF armed THEN read ELSE Read)
      /\ closes' \subseteq Reason \cup closes
      /\ "length" \in closes' <=> "length" \in closes \/ NextFrame.kind = "bad"
      /\ "full" \in closes' <=> "full" \in closes \/ (~armed /\ GetWriteAvailable = 0)
      /\ misread' \in BOOLEAN
      /\ UNCHANGED <<peer, ring, armed, guid, ended, failed, taken, decoded>>
  BY DEF EndDecode, TypeOK, Reason
<1>2. PICK start : Layout(start) /\ AtBoundary(start)
  BY DEF StreamInv
<1>3. StreamInv' /\ DecodedInv' /\ next' = next
  BY <1>1, StreamKept DEF peer
<1>4. /\ ~Whole
      /\ NextFrame.kind = "bad" => next \in DOMAIN frames /\ frames[next] = 0
      /\ unread > 0 => next \in DOMAIN frames /\ frames[next] \in Nat
  <2>1. /\ unread > 0 => next \in DOMAIN frames /\ frames[next] \in Nat
        /\ ~Whole
        /\ NextFrame.kind = "bad" => unread > HeaderSize /\ frames[next] = 0
    BY <1>1, <1>2, FrameSeen
  <2>2. unread > HeaderSize => unread > 0
    BY Sizes DEF ReadInv
  <2> QED
    BY <2>1, <2>2
<1>5. /\ unread' = unread /\ GetWriteAvailable' = GetWriteAvailable
      /\ GetWriteAvailable = BufferSize - unread /\ unread \in 0..BufferSize
      /\ writeIndex \in 0..(2 * BufferSize - 1)
  BY <1>1 DEF unread, GetReadAvailable, GetWriteAvailable, ring, ReadInv, TypeOK
<1>6. ~armed =>
        /\ read' \in [state : {"none", "pending", "done"}, at : 0..(BufferSize - 1),
                      size : 0..BufferSize, got : 0..BufferSize]
        /\ read'.state = "none" <=> GetWriteAvailable = 0
        /\ read'.state = "none" => read' = NoRead
        /\ read'.got = 0
        /\ GetWriteAvailable # 0 => /\ read'.at = smallMask(writeIndex)
                                    /\ read'.at + read'.size <= BufferSize
                                    /\ read'.size <= GetWriteAvailable
  <2> SUFFICES ASSUME ~armed
               PROVE  /\ read' \in [state : {"none", "pending", "done"},
                                    at : 0..(BufferSize - 1),
                                    size : 0..BufferSize, got : 0..BufferSize]
                      /\ read'.state = "none" <=> GetWriteAvailable = 0
                      /\ read'.state = "none" => read' = NoRead
                      /\ read'.got = 0
                      /\ GetWriteAvailable # 0 =>
                           /\ read'.at = smallMask(writeIndex)
                           /\ read'.at + read'.size <= BufferSize
                           /\ read'.size <= GetWriteAvailable
    OBVIOUS
  <2>1. read' = IF GetWriteAvailable = 0 THEN NoRead
                ELSE [state |-> "pending",
                      at |-> Regions(writeIndex, GetWriteAvailable).at,
                      size |-> Regions(writeIndex, GetWriteAvailable).size1, got |-> 0]
    BY <1>1 DEF Read, GetWriteRegions
  <2>2. GetWriteAvailable \in 0..BufferSize
    BY <1>5, Sizes
  <2> QED
    BY <1>5, <2>1, <2>2, ReadFacts
<1>7. ~armed => read = NoRead /\ read.got = 0
  BY <1>1 DEF LoopInv, ReadInv, NoRead
<1>8. TypeOK'
  <2>1. read' \in [state : {"none", "pending", "done"}, at : 0..(BufferSize - 1),
                   size : 0..BufferSize, got : 0..BufferSize]
    BY <1>1, <1>6 DEF TypeOK
  <2>2. closes' \subseteq Reason
    BY <1>1 DEF TypeOK, Reason
  <2> QED
    BY <1>1, <2>1, <2>2 DEF TypeOK, peer, ring
<1>9. ReadInv'
  BY <1>1, <1>5, <1>6, Sizes DEF ReadInv, TypeOK, ring
<1>10. CountInv'
  BY <1>1, <1>5, <1>6, <1>7 DEF CountInv, LoopInv, peer
<1>11. ContentInv'
  <2>1. (read' = read) \/ read'.got = 0
    BY <1>1, <1>6
  <2> QED
    BY <1>1, <1>5, <2>1 DEF ContentInv, peer, ring
<1>12. LoopInv'
  BY <1>1, <1>6 DEF LoopInv
<1>13. ClosesInv'
  <2> SUFFICES ASSUME guid
               PROVE  /\ "length" \in closes' => next \in DOMAIN frames /\ frames[next] = 0
                      /\ "full" \in closes' => /\ next \in DOMAIN frames
                                               /\ \/ frames[next] = 0
                                                  \/ FrameSize(frames[next]) > BufferSize
    BY <1>1, <1>3 DEF ClosesInv, peer
  <2>1. "length" \in closes' => next \in DOMAIN frames /\ frames[next] = 0
    BY <1>1, <1>4 DEF ClosesInv
  <2>2. ASSUME "full" \in closes'
        PROVE  /\ next \in DOMAIN frames
               /\ frames[next] = 0 \/ FrameSize(frames[next]) > BufferSize
    <3>1. CASE "full" \in closes
      BY <3>1 DEF ClosesInv
    <3>2. CASE GetWriteAvailable = 0
      <4>1. unread = BufferSize /\ unread > HeaderSize /\ unread > 0
        BY <1>5, <3>2, Sizes
      <4>2. next \in DOMAIN frames /\ frames[next] \in Nat
        BY <1>4, <4>1
      <4>3. FrameSize(frames[next]) \in Nat
        BY <4>2, Sizes DEF FrameSize
      <4> QED
        BY <1>4, <4>1, <4>2, <4>3, Sizes DEF Whole
    <3> QED
      BY <1>1, <2>2, <3>1, <3>2
  <2> QED
    BY <2>1, <2>2
<1>14. ~Whole'
  BY <1>1, <1>3, <1>4, <1>5 DEF Whole, peer
<1> QED
  BY <1>3, <1>8, <1>9, <1>10, <1>11, <1>12, <1>13, <1>14

\* The system fills the region of the read and completes it.
LEMMA ArriveStep ==
  ASSUME IInv, NEW n \in 1..BufferSize, Arrive(n)
  PROVE  IInv'
<1> USE DEF IInv
<1>1. /\ read.state = "pending" /\ n <= Len(stream) - arrived /\ n <= read.size
      /\ buffer' = [i \in DOMAIN buffer |-> IF i \in read.at..(read.at + n - 1)
                                            THEN stream[arrived + i - read.at + 1]
                                            ELSE buffer[i]]
      /\ arrived' = arrived + n
      /\ read' = [read EXCEPT !.state = "done", !.got = n]
      /\ UNCHANGED <<frames, stream, writeIndex, readIndex, armed, io, guid, ended,
                     failed, closes, taken, decoded, misread>>
  BY DEF Arrive
<1>2. StreamInv' /\ DecodedInv' /\ next' = next
  BY <1>1, StreamKept
<1>3. unread' = unread /\ GetWriteAvailable' = GetWriteAvailable
  BY <1>1 DEF unread, GetReadAvailable, GetWriteAvailable
<1>4. /\ unread \in 0..BufferSize /\ unread = Distance(writeIndex, readIndex)
      /\ GetWriteAvailable = BufferSize - unread
      /\ writeIndex \in 0..(2 * BufferSize - 1) /\ readIndex \in 0..(2 * BufferSize - 1)
      /\ read.at = smallMask(writeIndex) /\ read.at \in 0..(BufferSize - 1)
      /\ read.size \in 0..BufferSize /\ read.at + read.size <= BufferSize
      /\ read.size <= BufferSize - unread /\ read.got = 0
  BY <1>1, UnreadIsDistance DEF ReadInv, TypeOK, GetWriteAvailable, unread
<1>5. /\ arrived \in Nat /\ taken \in Nat /\ taken + unread = arrived
      /\ Len(stream) \in Nat /\ taken <= arrived /\ arrived + n <= Len(stream)
  <2>1. arrived \in Nat /\ taken \in Nat /\ Len(stream) \in Nat
    BY DEF TypeOK
  <2>2. taken + unread = arrived
    BY <1>1, <1>4, <2>1 DEF CountInv
  <2>3. n \in Nat /\ n <= Len(stream) - arrived /\ unread \in Nat
    BY <1>1, <1>4
  <2> QED
    BY <2>1, <2>2, <2>3
<1>n. n \in Nat /\ read.at \in Nat /\ read.at + n <= BufferSize
  <2>1. /\ read.at \in Nat /\ read.size \in Nat /\ BufferSize \in Nat
        /\ read.at + read.size <= BufferSize
    BY <1>4, Sizes
  <2>2. n \in Nat /\ n <= read.size
    BY <1>1
  <2> QED
    BY <2>1, <2>2
<1>6. /\ read'.state = "done" /\ read'.at = read.at /\ read'.size = read.size
      /\ read'.got = n
      /\ read' \in [state : {"none", "pending", "done"}, at : 0..(BufferSize - 1),
                    size : 0..BufferSize, got : 0..BufferSize]
  <2>1. n \in 0..BufferSize
    BY Sizes
  <2> QED
    BY <1>1, <2>1 DEF TypeOK
<1>7. TypeOK'
  <2>1. buffer' \in [0..(BufferSize - 1) -> Byte \cup {Garbage}]
    <3>1. ASSUME NEW i \in read.at..(read.at + n - 1)
          PROVE  stream[arrived + i - read.at + 1] \in Byte
      <4>1. arrived + i - read.at + 1 \in 1..Len(stream)
        <5>1. i \in Int /\ read.at <= i /\ i <= read.at + n - 1
          BY <1>n
        <5> QED
          BY <1>5, <1>n, <5>1
      <4>2. stream \in Seq(Byte)
        BY DEF TypeOK
      <4> QED
        BY <4>1, <4>2, ElementOfSeq, Zenon
    <3>2. buffer \in [0..(BufferSize - 1) -> Byte \cup {Garbage}]
      BY DEF TypeOK
    <3> QED
      BY <1>1, <3>1, <3>2
  <2>2. arrived' \in 0..Len(stream) /\ taken \in 0..arrived'
    BY <1>1, <1>5
  <2> QED
    BY <1>1, <1>6, <2>1, <2>2 DEF TypeOK
<1>8. ReadInv'
  BY <1>1, <1>3, <1>6, <1>4 DEF ReadInv
<1>9. CountInv'
  BY <1>1, <1>3, <1>4, <1>5, <1>6 DEF CountInv
<1>10. ContentInv'
  <2>0. DOMAIN buffer = 0..(BufferSize - 1)
    BY DEF TypeOK
  <2>1. ASSUME NEW i \in 0..(unread - 1)
        PROVE  buffer'[smallMask(readIndex + i)] = stream[taken + i + 1]
    <3>1. /\ smallMask(writeIndex) + read.size <= BufferSize /\ read.size \in Nat
          /\ Distance(writeIndex, readIndex) + read.size <= BufferSize
          /\ i \in 0..(Distance(writeIndex, readIndex) - 1)
      BY <1>4, Sizes
    <3>2. smallMask(readIndex + i) \notin
            smallMask(writeIndex)..(smallMask(writeIndex) + read.size - 1)
      BY <1>4, <3>1, CellNotFree
    <3>3. smallMask(readIndex + i) \in 0..(BufferSize - 1)
      <4>1. readIndex + i \in 0..(3 * BufferSize - 1)
        BY <1>4, Sizes
      <4> QED
        BY <4>1, SmallMask, Sizes
    <3>4. smallMask(readIndex + i) \notin read.at..(read.at + n - 1)
      BY <1>1, <1>4, <1>n, <3>2, <3>3, SMTT(30)
    <3>5. buffer[smallMask(readIndex + i)] = stream[taken + i + 1]
      BY DEF ContentInv
    <3> QED
      BY <1>1, <2>0, <3>3, <3>4, <3>5
  <2>2. ASSUME NEW i \in 0..(n - 1)
        PROVE  buffer'[read.at + i] = stream[taken + unread + i + 1]
    <3> DEFINE k == read.at + i
    <3>1. k \in 0..(BufferSize - 1) /\ k \in read.at..(read.at + n - 1)
      BY <1>n, Sizes
    <3>2. arrived + k - read.at + 1 = taken + unread + i + 1
      BY <1>4, <1>5, <1>n
    <3> HIDE DEF k
    <3>3. buffer'[k] = stream[taken + unread + i + 1]
      BY <1>1, <2>0, <3>1, <3>2
    <3> QED
      BY <3>3 DEF k
  <2>3. stream' = stream /\ taken' = taken /\ readIndex' = readIndex
    BY <1>1
  <2> QED
    BY <1>3, <1>6, <2>1, <2>2, <2>3 DEF ContentInv, smallMask
<1>11. LoopInv' /\ ClosesInv' /\ (io' = "idle" => ~Whole')
  BY <1>1, <1>2, <1>3, <1>6 DEF LoopInv, ClosesInv, Whole
<1> QED
  BY <1>2, <1>7, <1>8, <1>9, <1>10, <1>11

\* The peer sends a frame.
LEMMA SendStep ==
  ASSUME IInv, NEW len \in Lengths, Send(len)
  PROVE  IInv'
<1> USE DEF IInv
<1>1. /\ Len(frames) < MaxFrames
      /\ frames' = Append(frames, len)
      /\ stream' = stream \o Span(Len(frames) + 1, 1, FrameSize(len))
      /\ UNCHANGED <<arrived, ring, read, armed, io, guid, ended, failed, closes, taken,
                     decoded, misread>>
  BY DEF Send
<1> DEFINE F    == Len(frames) + 1
           size == FrameSize(len)
           new  == Span(F, 1, size)
<1>2. /\ len \in Nat /\ size \in Nat /\ 1 <= size /\ F \in 1..MaxFrames /\ F \in Nat
      /\ Len(frames) \in Nat /\ Len(stream) \in Nat
  BY <1>1, Sizes DEF TypeOK, FrameSize
<1>3. /\ frames' \in Seq(Lengths) /\ Len(frames') = F /\ frames'[F] = len
      /\ \A k \in 1..Len(frames) : frames'[k] = frames[k]
      /\ DOMAIN frames = 1..Len(frames) /\ DOMAIN frames' = 1..F
  BY <1>1 DEF TypeOK
<1>4. /\ new \in Seq({F} \X Nat) /\ Len(new) = size
      /\ \A k \in 1..size : new[k] = <<F, k>>
  <2>1. size - 1 + 1 = size /\ \A k \in 1..size : 1 + k - 1 = k
    BY <1>2
  <2>2. 1 \in Nat /\ F \in Nat /\ size \in Nat /\ 1 <= size
    BY <1>2
  <2> HIDE DEF size, F
  <2>3. /\ Span(F, 1, size) \in Seq({F} \X Nat) /\ Len(Span(F, 1, size)) = size - 1 + 1
        /\ \A k \in 1..(size - 1 + 1) : Span(F, 1, size)[k] = <<F, 1 + k - 1>>
    BY <2>2, SpanFacts, ZenonT(30)
  <2> QED
    BY <2>1, <2>3
<1>5. new \in Seq(Byte)
  <2>1. {F} \X Nat \subseteq Byte
    BY <1>2 DEF Byte
  <2> QED
    BY <1>4, <2>1, SeqMonotonic
<1>6. /\ stream' \in Seq(Byte) /\ Len(stream') = Len(stream) + size
      /\ \A i \in 1..(Len(stream) + size) :
           stream'[i] = IF i <= Len(stream) THEN stream[i] ELSE new[i - Len(stream)]
  <2>1. stream \in Seq(Byte) /\ stream' = stream \o new
    BY <1>1 DEF TypeOK
  <2> HIDE DEF new
  <2> QED
    BY <1>4, <1>5, <2>1, ConcatProperties, ZenonT(30)
<1> HIDE DEF new
<1>7. /\ \A i \in 1..Len(stream) : stream'[i] = stream[i]
      /\ \A k \in 1..size : stream'[Len(stream) + k] = <<F, k>>
  <2>1. ASSUME NEW k \in 1..size
        PROVE  stream'[Len(stream) + k] = <<F, k>>
    <3>1. /\ Len(stream) + k \in 1..(Len(stream) + size) /\ ~(Len(stream) + k <= Len(stream))
          /\ Len(stream) + k - Len(stream) = k
      BY <1>2
    <3>2. stream'[Len(stream) + k] = new[Len(stream) + k - Len(stream)]
      BY <1>6, <3>1
    <3> QED
      BY <1>4, <3>1, <3>2
  <2>2. ASSUME NEW i \in 1..Len(stream)
        PROVE  stream'[i] = stream[i]
    BY <1>2, <1>6
  <2> QED
    BY <2>1, <2>2
<1>8. unread' = unread /\ next' = next /\ GetWriteAvailable' = GetWriteAvailable
  BY <1>1 DEF unread, next, GetReadAvailable, GetWriteAvailable, ring
<1>9. TypeOK'
  BY <1>1, <1>2, <1>3, <1>6, SMTT(30) DEF TypeOK, ring
<1>10. ReadInv' /\ CountInv' /\ LoopInv'
  BY <1>1, <1>8 DEF ReadInv, CountInv, LoopInv, ring
<1>11. PICK start : Layout(start) /\ AtBoundary(start)
  BY DEF StreamInv
<1>12. StreamInv'
  <2>1. PICK start2 :
          /\ start \in [1..F -> Nat] /\ start[F] = Len(stream)
          /\ start2 \in [1..(F + 1) -> Nat]
          /\ \A k \in 1..F : start2[k] = start[k]
          /\ start2[F + 1] = Len(stream) + size
    <3> DEFINE s2 == [i \in 1..(F + 1) |-> IF i <= F THEN start[i]
                                           ELSE Len(stream) + size]
    <3>1. /\ start \in [1..F -> Nat] /\ start[F] = Len(stream)
          /\ s2 \in [1..(F + 1) -> Nat]
          /\ \A k \in 1..F : s2[k] = start[k]
          /\ s2[F + 1] = Len(stream) + size
      BY <1>2, <1>11 DEF Layout
    <3> QED
      BY <3>1
  <2> HIDE DEF F, size
  <2>2. ASSUME NEW k \in 1..F
        PROVE  /\ start2[k + 1] = start2[k] + FrameSize(frames'[k])
               /\ start2[k + 1] <= Len(stream')
               /\ \A j \in 1..FrameSize(frames'[k]) : stream'[start2[k] + j] = <<k, j>>
    <3>1. CASE k = F
      <4>1. FrameSize(frames'[k]) = size
        BY <1>3, <3>1 DEF size, F
      <4>2. start2[k + 1] = Len(stream) + size /\ start2[k] = Len(stream)
        BY <2>1, <3>1
      <4>3. \A j \in 1..size : stream'[Len(stream) + j] = <<k, j>>
        BY <1>7, <3>1 DEF size, F
      <4>4. Len(stream') = Len(stream) + size /\ size \in Nat
        BY <1>2, <1>6 DEF size
      <4>5. start2[k + 1] = start2[k] + FrameSize(frames'[k])
            /\ start2[k + 1] <= Len(stream')
        BY <1>2, <4>1, <4>2, <4>4
      <4>6. \A j \in 1..FrameSize(frames'[k]) : stream'[start2[k] + j] = <<k, j>>
        BY <4>1, <4>2, <4>3
      <4> QED
        BY <4>5, <4>6
    <3>2. CASE k # F
      <4>1. k \in 1..Len(frames) /\ k + 1 \in 1..F
        BY <1>2, <3>2 DEF F
      <4>2. frames'[k] = frames[k] /\ frames[k] \in Nat
        <5>1. frames[k] \in Lengths
          BY <4>1 DEF TypeOK
        <5> QED
          BY <1>3, <4>1, <5>1, Sizes
      <4>3. FrameSize(frames[k]) \in Nat
        BY <4>2, Sizes DEF FrameSize
      <4>4. /\ start[k + 1] = start[k] + FrameSize(frames[k])
            /\ start[k + 1] <= Len(stream)
            /\ \A j \in 1..FrameSize(frames[k]) : stream[start[k] + j] = <<k, j>>
        BY <1>11, <4>1 DEF Layout
      <4>5. start[k] \in Nat /\ start[k + 1] \in Nat
        BY <2>1, <4>1
      <4>6. ASSUME NEW j \in 1..FrameSize(frames[k])
            PROVE  stream'[start[k] + j] = <<k, j>>
        <5>1. start[k] + j \in 1..Len(stream)
          BY <1>2, <4>3, <4>4, <4>5
        <5> QED
          BY <1>7, <4>4, <5>1
      <4>7. start2[k] = start[k] /\ start2[k + 1] = start[k + 1]
        BY <2>1, <4>1
      <4>8. start2[k + 1] <= Len(stream')
        <5>1. Len(stream') = Len(stream) + size /\ size \in Nat
          BY <1>2, <1>6 DEF size
        <5> QED
          BY <1>2, <4>4, <4>5, <4>7, <5>1
      <4>9. \A j \in 1..FrameSize(frames'[k]) : stream'[start2[k] + j] = <<k, j>>
        BY <4>2, <4>6, <4>7
      <4> QED
        BY <4>2, <4>4, <4>7, <4>8, <4>9
    <3> QED
      BY <3>1, <3>2
  <2>3. Layout(start2)'
    <3>1. Len(frames') = F /\ F \in Nat /\ Len(stream') = Len(stream) + size
      BY <1>2, <1>3, <1>6 DEF F, size
    <3> QED
      BY <2>1, <2>2, <3>1 DEF Layout
  <2>4. AtBoundary(start2)'
    BY <1>1, <1>2, <1>3, <1>8, <1>11, <2>1 DEF AtBoundary, F
  <2> QED
    BY <2>3, <2>4 DEF StreamInv
<1>13. DecodedInv'
  <2>1. \A k \in 1..Len(decoded) : k \in 1..Len(frames)
    BY <1>2, <1>11 DEF AtBoundary, next, TypeOK
  <2>2. \A k \in 1..Len(frames) : Body(k)' = Body(k)
    BY <1>3 DEF Body
  <2> QED
    BY <1>1, <1>3, <2>1, <2>2 DEF DecodedInv
<1>14. ContentInv'
  <2>1. taken \in Nat /\ taken + unread + read.got <= Len(stream) /\ unread \in Nat
        /\ read.got \in Nat
    BY <1>2, Sizes DEF TypeOK, CountInv, ReadInv
  <2>2. ASSUME NEW i \in 0..(unread - 1)
        PROVE  stream'[taken + i + 1] = stream[taken + i + 1]
    <3>1. taken + i + 1 \in 1..Len(stream)
      BY <1>2, <2>1
    <3> QED
      BY <1>7, <3>1
  <2>3. ASSUME NEW i \in 0..(read.got - 1)
        PROVE  stream'[taken + unread + i + 1] = stream[taken + unread + i + 1]
    <3>1. taken + unread + i + 1 \in 1..Len(stream)
      BY <1>2, <2>1
    <3> QED
      BY <1>7, <3>1
  <2>4. UNCHANGED <<buffer, readIndex, taken, read>>
    BY <1>1 DEF ring
  <2> QED
    BY <1>8, <2>2, <2>3, <2>4 DEF ContentInv, smallMask
<1>15. next \in DOMAIN frames => frames'[next] = frames[next] /\ next \in DOMAIN frames'
  BY <1>2, <1>3
<1>16. ClosesInv'
  BY <1>1, <1>8, <1>15 DEF ClosesInv
<1>17. io' = "idle" => ~Whole'
  <2>1. unread > HeaderSize => unread > 0
    BY Sizes DEF ReadInv
  <2>2. unread > 0 => next \in DOMAIN frames
    BY <1>11, FrameSeen
  <2> QED
    BY <1>1, <1>8, <1>15, <2>1, <2>2 DEF Whole
<1> QED
  BY <1>9, <1>10, <1>12, <1>13, <1>14, <1>16, <1>17

LEMMA NextInv == IInv /\ [Next]_vars => IInv'
<1> SUFFICES ASSUME IInv, [Next]_vars PROVE IInv'
  OBVIOUS
<1>1. CASE OnRead
  BY <1>1, OnReadStep
<1>2. CASE TakeFrame
  BY <1>2, TakeFrameStep
<1>3. CASE EndDecode
  BY <1>3, EndDecodeStep
<1>4. CASE \E len \in Lengths : Send(len)
  BY <1>4, SendStep
<1>5. CASE \E n \in 1..BufferSize : Arrive(n)
  BY <1>5, ArriveStep
<1>6. CASE ReadFails \/ StatusEnds \/ Replaced
  BY <1>6, StatusStep
<1>7. CASE UNCHANGED vars
  <2>1. /\ UNCHANGED <<frames, stream, arrived, buffer, writeIndex, readIndex, read, armed,
                       io, guid, ended, failed, closes, taken, decoded, misread>>
    BY <1>7 DEF vars, peer, ring
  <2>2. StreamInv' /\ DecodedInv' /\ next' = next
    BY <2>1, StreamKept DEF IInv
  <2>3. unread' = unread /\ GetWriteAvailable' = GetWriteAvailable
    BY <2>1 DEF unread, GetReadAvailable, GetWriteAvailable
  <2> QED
    BY <2>1, <2>2, <2>3 DEF IInv, TypeOK, ReadInv, CountInv, ContentInv, LoopInv, ClosesInv,
                            Whole
<1> QED
  BY <1>1, <1>2, <1>3, <1>4, <1>5, <1>6, <1>7 DEF Next

LEMMA InvAlways == Spec => []IInv
<1>1. Init => IInv
  BY InitInv
<1>2. IInv /\ [Next]_vars => IInv'
  BY NextInv
<1> QED
  BY <1>1, <1>2, PTL DEF Spec

-----------------------------------------------------------------------------
(* What follows for every behaviour. *)

\* The state is well typed: both indexes stay below twice the size of the buffer, and
\* only bytes of the peer's frames reach the buffer and DecodeData (ringbuffer.c).
THEOREM TypeCorrect == Spec => []TypeOK
<1>1. IInv => TypeOK
  BY DEF IInv
<1> QED
  BY <1>1, InvAlways, PTL

\* The ring is the stream for every size of the buffer and every length of the frames:
\* no unread byte is overwritten by the read that fills the buffer behind the decoder.
THEOREM RingIsTheStream == Spec => []RingHoldsStream
<1>1. IInv => RingHoldsStream
  <2> SUFFICES ASSUME IInv PROVE RingHoldsStream
    OBVIOUS
  <2> USE DEF IInv
  <2>1. /\ unread \in 0..BufferSize /\ arrived \in Nat /\ taken \in Nat
        /\ unread = Distance(writeIndex, readIndex)
        /\ writeIndex \in 0..(2 * BufferSize - 1) /\ readIndex \in 0..(2 * BufferSize - 1)
        /\ read.size \in Nat /\ read.at \in 0..(BufferSize - 1) /\ read.got \in Nat
    BY UnreadIsDistance, Sizes DEF ReadInv, TypeOK
  <2>2. ended \/ unread + read.got = arrived - taken
    BY <2>1 DEF CountInv
  <2>3. ASSUME NEW i \in 0..(unread - 1), read.state # "none"
        PROVE  smallMask(readIndex + i) \notin read.at..(read.at + read.size - 1)
    <3>1. /\ read.at = smallMask(writeIndex) /\ read.at + read.size <= BufferSize
          /\ Distance(writeIndex, readIndex) + read.size <= BufferSize
          /\ i \in 0..(Distance(writeIndex, readIndex) - 1)
      BY <2>1, <2>3, Sizes DEF ReadInv, GetWriteAvailable, unread
    <3> QED
      BY <2>1, <3>1, CellNotFree
  <2>4. ASSUME NEW i \in 0..(read.got - 1)
        PROVE  read.at + i \in DOMAIN buffer
    <3>1. read.state # "none"
      BY <2>1 DEF ReadInv, NoRead
    <3>2. read.at + read.size <= BufferSize /\ read.got <= read.size
      BY <3>1 DEF ReadInv
    <3>3. read.at + i \in 0..(BufferSize - 1)
      BY <2>1, <3>2, Sizes
    <3> QED
      BY <3>3 DEF TypeOK
  <2> QED
    BY <2>2, <2>3, <2>4 DEF RingHoldsStream, ContentInv, unread
<1> QED
  BY <1>1, InvAlways, PTL

\* When OnRead is done, no whole frame waits in the ring and a read is posted, unless the
\* connection ends (OnRead, CNetService::DecodeRingBuffer).
THEOREM NothingStays == Spec => []NothingLeftBehind
<1>1. IInv => NothingLeftBehind
  <2> SUFFICES ASSUME IInv, io = "idle"
               PROVE  /\ guid => NextFrame.kind # "frame"
                      /\ read.state = "none" => ended \/ failed \/ "full" \in closes
    BY DEF NothingLeftBehind
  <2>1. PICK start : Layout(start) /\ AtBoundary(start)
    BY DEF IInv, StreamInv
  <2>2. NextFrame.kind # "frame"
    BY <2>1, FrameSeen DEF IInv
  <2> QED
    BY <2>2 DEF IInv, LoopInv
<1> QED
  BY <1>1, InvAlways, PTL

\* OnRead and DecodeRingBuffer give a connection up only for a frame that cannot be taken.
THEOREM ClosesForAReason == Spec => []CloseJustified
<1>1. IInv => CloseJustified
  BY DEF IInv, ClosesInv, CloseJustified, next
<1> QED
  BY <1>1, InvAlways, PTL

-----------------------------------------------------------------------------
(* The refinement of FrameChannel. *)

LEMMA ChannelInit == Init => Channel!Init
BY DEF Init, Channel!Init, Sent

LEMMA SendIsSend ==
  ASSUME IInv, NEW len \in Lengths, Send(len)
  PROVE  Channel!Send
<1>0. PICK F : F = Len(frames) + 1
  OBVIOUS
<1>1. /\ Len(frames) \in Nat /\ Len(frames) < MaxFrames /\ F \in 1..MaxFrames
      /\ frames \in Seq(Lengths) /\ DOMAIN frames = 1..Len(frames)
      /\ frames' = Append(frames, len) /\ guid' = guid /\ decoded' = decoded
  BY <1>0, Sizes DEF Send, IInv, TypeOK
<1>2. /\ DOMAIN frames' = 1..F /\ frames'[F] = len
      /\ \A k \in 1..Len(frames) : frames'[k] = frames[k]
  BY <1>0, <1>1
<1> DEFINE p == Body(F)'
<1>3. p \in Payloads
  BY <1>1, <1>2 DEF Body, Payloads
<1>4. \A k \in 1..Len(frames) : Body(k)' = Body(k)
  BY <1>2 DEF Body
<1> HIDE DEF p
<1>5. Sent' = [k \in 1..F |-> IF k = F THEN p ELSE Sent[k]]
  <2>1. \A k \in 1..F : k \in 1..Len(frames) \/ k = F
    BY <1>0, <1>1
  <2>2. Sent' = [k \in 1..F |-> Body(k)']
    BY <1>2 DEF Sent
  <2>3. \A k \in 1..Len(frames) : k # F /\ Sent[k] = Body(k)
    BY <1>0, <1>1 DEF Sent
  <2> QED
    BY <1>4, <2>1, <2>2, <2>3 DEF p
<1>6. Sent' = Append(Sent, p)
  <2> DEFINE S == {Sent[k] : k \in 1..Len(frames)} \cup {p}
  <2>1. /\ Sent \in Seq(S) /\ Len(Sent) = Len(frames)
        /\ Sent' \in Seq(S) /\ Len(Sent') = F /\ p \in S
    <3>1. Sent = [k \in 1..Len(frames) |-> Sent[k]]
      BY <1>1 DEF Sent
    <3>2. F \in Nat /\ \A k \in 1..F : (IF k = F THEN p ELSE Sent[k]) \in S
      BY <1>0, <1>1
    <3>3. \A k \in 1..Len(frames) : Sent[k] \in S
      OBVIOUS
    <3>4. p \in S
      OBVIOUS
    <3> HIDE DEF S
    <3>5. Sent \in Seq(S) /\ Len(Sent) = Len(frames)
      BY <1>1, <3>1, <3>3
    <3>6. Sent' \in Seq(S) /\ Len(Sent') = F
      BY <1>5, <3>2
    <3> QED
      BY <3>4, <3>5, <3>6
  <2> HIDE DEF S
  <2>2. /\ Append(Sent, p) \in Seq(S) /\ Len(Append(Sent, p)) = F
        /\ \A k \in 1..Len(frames) : Append(Sent, p)[k] = Sent[k]
        /\ Append(Sent, p)[F] = p
    BY <1>0, <2>1, AppendProperties
  <2>3. \A k \in 1..F : Sent'[k] = Append(Sent, p)[k]
    <3>1. \A k \in 1..F : k = F \/ k \in 1..Len(frames)
      BY <1>0, <1>1
    <3> QED
      BY <1>5, <2>2, <3>1
  <2> QED
    BY <2>1, <2>2, <2>3, SeqEqual
<1>7. \E q \in Payloads : Sent' = Append(Sent, q)
  BY <1>3, <1>6
<1>8. UNCHANGED <<decoded, ~guid, misread>>
  BY <1>1 DEF Send
<1> QED
  BY <1>7, <1>8 DEF Channel!Send

LEMMA TakeFrameIsDeliver ==
  ASSUME IInv, TakeFrame
  PROVE  Channel!Deliver
<1>1. /\ NextFrame.kind = "frame"
      /\ \E p \in NextFrame.payloads : decoded' = Append(decoded, p)
      /\ frames' = frames /\ guid' = guid /\ misread' = misread
  BY DEF TakeFrame, peer
<1>2. PICK start : Layout(start) /\ AtBoundary(start)
  BY DEF IInv, StreamInv
<1>3. Whole /\ NextFrame.payloads \subseteq {Body(next), Spoilt(Body(next))}
  BY <1>1, <1>2, FrameSeen DEF IInv
<1>4. next \in DOMAIN frames /\ frames[next] \in Nat /\ frames[next] > 0 /\ guid
  <2>1. unread > 0
    BY <1>3, Sizes DEF Whole, IInv, ReadInv
  <2> QED
    BY <1>2, <1>3, <2>1, FrameSeen DEF IInv, Whole
<1>5. Len(Body(next)) \in 1..(MaxInt - HeaderSize)
  <2>1. /\ FrameSize(frames[next]) \in Nat /\ HeaderSize + 1 \in Nat /\ next \in Nat
        /\ HeaderSize + 1 <= FrameSize(frames[next])
        /\ FrameSize(frames[next]) - (HeaderSize + 1) + 1 > 0
    BY <1>4, Sizes DEF FrameSize, IInv, TypeOK, next
  <2>2. Len(Body(next)) = FrameSize(frames[next]) - (HeaderSize + 1) + 1
    <3>1. Body(next) = Span(next, HeaderSize + 1, FrameSize(frames[next]))
      BY <1>4 DEF Body
    <3> QED
      BY <2>1, <3>1, SpanFacts, ZenonT(30)
  <2>3. FrameSize(frames[next]) <= MaxInt
    BY <1>3, <2>1, Sizes DEF Whole, IInv, ReadInv
  <2> QED
    BY <2>1, <2>2, <2>3, Sizes
<1>6. next \in DOMAIN Sent /\ Sent[next] = Body(next)
  BY <1>4 DEF Sent
<1>7. UNCHANGED <<Sent, ~guid, misread>>
  BY <1>1 DEF Sent, Body
<1>8. \E p \in {Sent[next], Channel!Spoilt(Sent[next])} : decoded' = Append(decoded, p)
  BY <1>1, <1>3, <1>6 DEF Spoilt, Channel!Spoilt
<1> QED
  BY <1>4, <1>5, <1>6, <1>7, <1>8 DEF Channel!Deliver, next

\* The round that takes nothing, for a length that wraps.
LEMMA EndDecodeMisreads ==
  ASSUME IInv, EndDecode
  PROVE  Channel!Misread \/ UNCHANGED Channel!cvars
<1>1. /\ UNCHANGED <<frames, decoded, guid>>
      /\ misread' = (misread \/ NextFrame.kind = "wrapped")
  BY DEF EndDecode, peer
<1>2. UNCHANGED <<Sent, decoded, ~guid>>
  BY <1>1 DEF Sent, Body
<1>3. CASE NextFrame.kind # "wrapped"
  <2>1. misread' = misread
    BY <1>1, <1>3 DEF IInv, TypeOK
  <2> QED
    BY <1>2, <2>1 DEF Channel!cvars
<1>4. CASE NextFrame.kind = "wrapped"
  <2>1. PICK start : Layout(start) /\ AtBoundary(start)
    BY DEF IInv, StreamInv
  <2>2. /\ guid /\ unread > HeaderSize /\ FrameSize(frames[next]) > MaxInt
        /\ unread > 0 => next \in DOMAIN frames /\ frames[next] \in Nat
    BY <1>4, <2>1, FrameSeen DEF IInv
  <2>3. next \in DOMAIN frames /\ frames[next] \in Nat
    BY <2>2, Sizes DEF IInv, ReadInv
  <2>4. /\ frames[next] # 0 /\ FrameSize(frames[next]) \in Nat
        /\ HeaderSize + 1 <= FrameSize(frames[next]) /\ HeaderSize + 1 \in Nat
        /\ next \in Nat
    BY <2>2, <2>3, Sizes DEF FrameSize, IInv, TypeOK, next
  <2>5. Len(Body(next)) = FrameSize(frames[next]) - (HeaderSize + 1) + 1
    <3>1. Body(next) = Span(next, HeaderSize + 1, FrameSize(frames[next]))
      BY <2>4 DEF Body
    <3> QED
      BY <2>4, <3>1, SpanFacts, ZenonT(30)
  <2>6. Len(Sent[next]) > MaxInt - HeaderSize /\ next \in DOMAIN Sent
    BY <2>2, <2>3, <2>4, <2>5, Sizes DEF Sent
  <2> QED
    BY <1>1, <1>2, <1>4, <2>2, <2>6 DEF Channel!Misread, next
<1> QED
  BY <1>3, <1>4

LEMMA ChannelStep == IInv /\ [Next]_vars => [Channel!Next]_(Channel!cvars)
<1> SUFFICES ASSUME IInv, [Next]_vars PROVE [Channel!Next]_(Channel!cvars)
  OBVIOUS
<1>1. CASE \E len \in Lengths : Send(len)
  BY <1>1, SendIsSend DEF Channel!Next
<1>2. CASE TakeFrame
  BY <1>2, TakeFrameIsDeliver DEF Channel!Next
<1>3. CASE Replaced
  <2>1. frames' = frames /\ decoded' = decoded /\ guid' = FALSE /\ misread' = misread
    BY <1>3 DEF Replaced, peer
  <2>2. Channel!End
    BY <2>1 DEF Channel!End, Sent, Body
  <2> QED
    BY <2>2 DEF Channel!Next
<1>4. CASE EndDecode
  BY <1>4, EndDecodeMisreads DEF Channel!Next
<1>5. CASE UNCHANGED <<frames, decoded, guid, misread>>
  BY <1>5 DEF Channel!cvars, Sent, Body
<1> QED
  <2>1. ASSUME NEW n \in 1..BufferSize, Arrive(n)
        PROVE  UNCHANGED <<frames, decoded, guid, misread>>
    BY <2>1 DEF Arrive
  <2>2. OnRead \/ ReadFails \/ StatusEnds \/ UNCHANGED vars
          => UNCHANGED <<frames, decoded, guid, misread>>
    BY DEF OnRead, ReadFails, StatusEnds, vars, peer
  <2> QED
    BY <1>1, <1>2, <1>3, <1>4, <1>5, <2>1, <2>2 DEF Next

\* The decoder gets the frames of the peer in order and once each, whole unless they are
\* longer than the static buffer, and none at or behind a length that is not positive or
\* that wraps; only the latter makes DecodeData read what was never sent (DecodeRingBuffer
\* and DecodeData against FrameChannel).
THEOREM RefinesChannel == Spec => ChannelSpec
<1>1. Init => Channel!Init
  BY ChannelInit
<1>2. IInv /\ [Next]_vars => [Channel!Next]_(Channel!cvars)
  BY ChannelStep
<1> QED
  BY <1>1, <1>2, InvAlways, PTL DEF Spec, ChannelSpec, Channel!Spec
=============================================================================
