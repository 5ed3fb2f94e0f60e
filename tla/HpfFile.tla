------------------------------ MODULE HpfFile -------------------------------
(***************************************************************************)
(* contrib/hpf: a file that only grows, written through a window that is   *)
(* mapped over its end.  An append enlarges the mapped file when it is too *)
(* short, then copies as much as fits into the window, moves the window    *)
(* behind itself when it is full, and goes on.  Every system call may      *)
(* fail.                                                                   *)
(*                                                                         *)
(* Sizes are in units of the caller's choice; the code's own sizes are     *)
(* Granularity = HPF_DEFAULT_VIEW_SIZE = 64 KB and FourGB = 2^32.          *)
(***************************************************************************)
EXTENDS Integers, Sequences

CONSTANTS
  Byte,           \* the values of a byte
  CharRange,      \* characters are 0 .. CharRange - 1 (256)
  Blocks,         \* the data that hpf_append is given
  Fills,          \* the character and the amount that hpf_append_char is given
  Granularity,    \* the granularity of allocation of the system
  DefaultView,    \* HPF_DEFAULT_VIEW_SIZE
  FourGB,         \* the least size with a high half
  ViewSizes,      \* the view sizes hpf_create_file is given
  InitialValues,  \* the initial values hpf_create_file is given
  MaxOffset       \* bound on the length of the file

Char == 0 .. CharRange - 1

ASSUME SizesAssumption ==
  /\ CharRange \in Nat \ {0} /\ Granularity \in Nat \ {0} /\ FourGB \in Nat \ {0}
  /\ DefaultView \in Nat \ {0}
  /\ ViewSizes \subseteq Nat \ {0}
  /\ MaxOffset \in Nat

\* Both are 64 KB.
ASSUME GranularityAssumption == DefaultView <= Granularity

ASSUME BytesAssumption ==
  /\ Char \subseteq Byte
  /\ InitialValues \subseteq Char
  /\ Blocks \subseteq Seq(Byte)

ASSUME FillsAssumption == \A fill \in Fills : fill[1] \in Char /\ fill[2] \in Nat

NULL == -1

VARIABLES
  view_size, initial_value,  \* what hpf_create_file was given
  sign,         \* HPF_NOT_INIT, HPF_SIGN, HPF_SIGN_INVALID, or the file is closed
  map,          \* there is a file mapping
  size,         \* its size, and that of the file
  offset,       \* how much of it has been written
  view,         \* the file offset of the mapped window, or NULL
  view_offset,  \* how much of the window has been written
  content,      \* the file on the disk, coherent with the window
  \* the running append
  pc,           \* idle, init, enlarge, grow or copy
  target,       \* the size _hpf_enlarge_map is about to ask for
  data,         \* the bytes the caller asked for
  memcpy,       \* do_memory is memcpy, not _hpf_memset
  wrote,        \* how many of them are done
  \* history
  sysFailed,    \* a system call of an append failed for want of a resource
  closeFailed   \* a system call of hpf_close_file failed

fileVars == <<sign, map, size, offset, view, view_offset, content>>
callVars == <<data, memcpy>>
history == <<sysFailed, closeFailed>>
vars == <<view_size, initial_value, fileVars, pc, target, callVars, wrote, history>>

Signs == {"HPF_NOT_INIT", "HPF_SIGN", "HPF_SIGN_INVALID", "closed"}

TypeOK ==
  /\ view_size \in ViewSizes /\ initial_value \in InitialValues
  /\ sign \in Signs
  /\ map \in BOOLEAN
  /\ size \in Nat /\ offset \in Nat
  /\ view \in Nat \cup {NULL} /\ view_offset \in 0 .. view_size
  /\ content \in Seq(Byte)
  /\ pc \in {"idle", "init", "enlarge", "grow", "copy"}
  /\ target \in Nat
  /\ data \in Seq(Byte) /\ memcpy \in BOOLEAN
  /\ wrote \in 0 .. Len(data)
  /\ sysFailed \in BOOLEAN /\ closeFailed \in BOOLEAN

Init ==
  /\ view_size \in ViewSizes /\ initial_value \in InitialValues
  /\ sign = "HPF_NOT_INIT"
  /\ map = FALSE /\ size = 0 /\ offset = 0
  /\ view = NULL /\ view_offset = 0
  /\ content = <<>>
  /\ pc = "idle" /\ target = 0
  /\ data = <<>> /\ memcpy = TRUE /\ wrote = 0
  /\ sysFailed = FALSE /\ closeFailed = FALSE
-----------------------------------------------------------------------------
(* hpf_append, hpf_append_string, hpf_append_char and _hpf_append_f.       *)

AppendF(bytes, isMemcpy) ==
  /\ pc = "idle"
  /\ sign \in {"HPF_NOT_INIT", "HPF_SIGN"}
  /\ offset + Len(bytes) <= MaxOffset
  /\ data' = bytes /\ memcpy' = isMemcpy
  /\ wrote' = 0
  /\ pc' = IF sign = "HPF_NOT_INIT" THEN "init" ELSE "enlarge"
  /\ UNCHANGED <<view_size, initial_value, fileVars, target, history>>

HpfAppend == \E block \in Blocks : AppendF(block, TRUE)

AppendChar ==
  \E fill \in Fills : AppendF([i \in 1 .. fill[2] |-> fill[1]], FALSE)

\* The running append returns an error.
Invalidate ==
  /\ sign' = "HPF_SIGN_INVALID"
  /\ pc' = "idle"

\* CREATE_ALWAYS: whatever the file held before is gone.
InitFile ==
  /\ pc = "init"
  /\ \/ /\ sign' = "HPF_SIGN" /\ pc' = "enlarge"
        /\ UNCHANGED sysFailed
     \/ Invalidate /\ sysFailed' = TRUE
  /\ UNCHANGED <<view_size, initial_value, map, size, offset, view, view_offset,
                 content, target, callVars, wrote, closeFailed>>

\* Mutant: what the append needs, without what is in the file already.
LeastOfData == Len(data)

Least == offset + Len(data)

Max2(a, b) == IF a >= b THEN a ELSE b

\* _hpf_enlarge_map up to its loop: the old mapping is closed before there is a
\* new one, which may fail.  The window stays as it is.
EnlargeMap ==
  /\ pc = "enlarge"
  /\ \/ /\ size >= Least
        /\ pc' = "copy"
        /\ UNCHANGED <<sign, map, target, sysFailed>>
     \/ /\ size < Least
        /\ map' = FALSE
        /\ target' = Max2(size, Max2(DefaultView, view_size))
        /\ pc' = "grow"
        /\ UNCHANGED <<sign, sysFailed>>
     \/ /\ size < Least /\ map
        /\ Invalidate /\ sysFailed' = TRUE
        /\ UNCHANGED <<map, target>>
  /\ UNCHANGED <<view_size, initial_value, size, offset, view, view_offset, content,
                 callVars, wrote, closeFailed>>

\* One round of the loop: doubled up to 4 GB, then 4 GB more at a time.
GrowTarget ==
  /\ pc = "grow" /\ target < Least
  /\ target' = IF target >= FourGB THEN target + FourGB ELSE 2 * target
  /\ UNCHANGED <<view_size, initial_value, fileVars, pc, callVars, wrote, history>>

\* A file that its mapping enlarges is filled up with zeros.
FilledUp(n) == [i \in 1 .. n |-> IF i <= Len(content) THEN content[i] ELSE 0]

CreateMapping ==
  /\ pc = "grow" /\ target >= Least
  /\ \/ /\ map' = TRUE
        /\ size' = target
        /\ content' = FilledUp(target)
        /\ pc' = "copy"
        /\ UNCHANGED <<sign, sysFailed>>
     \/ /\ Invalidate /\ sysFailed' = TRUE
        /\ UNCHANGED <<map, size, content>>
  /\ UNCHANGED <<view_size, initial_value, offset, view, view_offset, target, callVars,
                 wrote, closeFailed>>

\* MapViewOfFile wants an offset on its granularity and a window inside the map.
CanMap == /\ offset % Granularity = 0
          /\ offset + view_size <= size

\* Mutant: the window is mapped once and never moved.
RemapsOnce == view = NULL

Remaps == view = NULL \/ view_offset = view_size

\* Mutant: as much as is left, whether it fits into the window or not.
Min2Left(a, b) == b

Min2(a, b) == IF a <= b THEN a ELSE b

\* Mutant: every chunk is taken from the beginning of the data.
WrittenFromStart(i) == data[i]

\* What do_memory puts at the i-th place of a chunk: memcpy takes the bytes
\* from where the last chunk ended, _hpf_memset takes the address for the
\* character, and the address has been moved too.
Written(i) == IF memcpy THEN data[wrote + i] ELSE (data[1] + wrote) % CharRange

\* Mutant: the window is not filled with the initial value.
CopiedUnfilled(base, at, n) ==
  [i \in 1 .. Len(content) |->
     IF i \in base + at + 1 .. base + at + n
     THEN Written(i - (base + at)) ELSE content[i]]

\* The file after the window was moved to `base` (and filled with the initial
\* value, if it was moved and there is one) and n bytes were put in it at `at`.
Copied(base, at, n) ==
  [i \in 1 .. Len(content) |->
     IF i \in base + at + 1 .. base + at + n
     THEN Written(i - (base + at))
     ELSE IF /\ Remaps /\ initial_value # 0
             /\ i \in base + 1 .. base + view_size
          THEN initial_value
          ELSE content[i]]

\* Mutant: the offset of the file is set from that of the append.
AdvanceFromCall(at, n) ==
  /\ view_offset' = at + n
  /\ offset' = wrote + n
  /\ wrote' = wrote + n

Advance(at, n) ==
  /\ view_offset' = at + n
  /\ offset' = offset + n
  /\ wrote' = wrote + n

\* One round of the loop: _hpf_remap_view, then do_memory.
CopyChunk ==
  LET base  == IF Remaps THEN offset ELSE view
      at    == IF Remaps THEN 0 ELSE view_offset
      space == Min2(view_size - at, Len(data) - wrote)
  IN
  /\ pc = "copy" /\ wrote < Len(data)
  /\ map
  /\ Remaps => CanMap
  /\ view' = base
  /\ content' = Copied(base, at, space)
  /\ Advance(at, space)
  /\ UNCHANGED <<view_size, initial_value, sign, map, size, pc, target,
                 callVars, history>>

\* MapViewOfFile fails; the old window is gone already.
RemapFails ==
  /\ pc = "copy" /\ wrote < Len(data)
  /\ map /\ Remaps
  /\ view' = NULL
  /\ Invalidate
  /\ sysFailed' = (sysFailed \/ CanMap)
  /\ UNCHANGED <<view_size, initial_value, map, size, offset, view_offset, content,
                 target, callVars, wrote, closeFailed>>

AppendReturn ==
  /\ pc = "copy" /\ wrote = Len(data)
  /\ pc' = "idle"
  /\ UNCHANGED <<view_size, initial_value, fileVars, target, callVars, wrote, history>>

\* hpf_close_file: the file is cut at what was written.  A system call that fails
\* is shown and nothing more: SetEndOfFile may leave the file as it is, and behind
\* a SetFilePointerEx that failed it cuts at the handle's pointer, which is still 0.
\* A file that nothing was appended to is refused (and never freed).
CloseFile ==
  /\ pc = "idle"
  /\ sign \in {"HPF_SIGN", "HPF_SIGN_INVALID"}
  /\ sign' = "closed"
  /\ map' = FALSE /\ view' = NULL
  /\ \/ content' = SubSeq(content, 1, offset) /\ UNCHANGED closeFailed
     \/ /\ content' \in {SubSeq(content, 1, n) : n \in {0, offset, Len(content)}}
        /\ closeFailed' = TRUE
  /\ UNCHANGED <<view_size, initial_value, size, offset, view_offset, pc, target,
                 callVars, wrote, sysFailed>>

InCall == \/ InitFile \/ EnlargeMap \/ GrowTarget \/ CreateMapping
          \/ CopyChunk \/ RemapFails \/ AppendReturn

Next == HpfAppend \/ AppendChar \/ InCall \/ CloseFile

Spec == Init /\ [][Next]_vars

\* The thread that called finishes its append.
FairSpec == Spec /\ WF_vars(InCall)
-----------------------------------------------------------------------------
\* The window lies inside the file and its first free byte is the file's: no
\* copy of hpf_append lands outside the mapping, or at another place than the
\* one the file is cut at in the end.
WindowAtOffset ==
  view # NULL => /\ view + view_offset = offset
                 /\ view + view_size <= Len(content)

\* Initial values up to w behind the last record, and zeros behind them.
CleanUpTo(w) ==
  \A i \in offset + 1 .. Len(content) : content[i] = IF i <= w THEN initial_value ELSE 0

WindowEnd == IF view = NULL THEN offset ELSE view + view_size

\* If the process dies now, what the file has behind its last record is the
\* initial value as far as the window goes and zeros after it, so that a reader
\* finds the end.  A file that was closed ends with its last record; if a system
\* call of hpf_close_file failed, it may have such a tail of one window.
TailIsClean ==
  IF sign # "closed" THEN CleanUpTo(WindowEnd)
  ELSE IF closeFailed THEN \E w \in offset .. offset + view_size : CleanUpTo(w)
  ELSE Len(content) = offset

\* The views that _hpf_enlarge_map makes room for whole: their size is on the
\* granularity of allocation and divides 4 GB.
Fits == view_size % Granularity = 0 /\ FourGB % view_size = 0

\* With such a view no append fails unless the system is out of a resource: the
\* window is never moved to an offset, or over an end, that cannot be mapped.
FailureJustified == sign = "HPF_SIGN_INVALID" => sysFailed \/ ~Fits

\* What is on the disk up to the offset is the promised file: whatever is
\* enlarged, remapped or filled, what an append has written stays as it was
\* asked for (the bytes of hpf_append_char are FilledWithChar's business), unless
\* hpf_close_file cuts all of it off behind a system call that failed.
Broken == sign \in {"HPF_SIGN_INVALID", "closed"}

Log == IF offset <= Len(content) THEN [i \in 1 .. offset |-> content[i]] ELSE <<>>

File == INSTANCE AppendFile
          WITH log <- Log, exact <- memcpy, broken <- Broken, unsafe <- closeFailed

AppendSpec == File!Spec

\* Every append returns: neither the loop that doubles the size nor the one that
\* copies goes on for ever.
AppendReturns == pc # "idle" ~> pc = "idle"

\* hpf_append_char(file, c, amount) appends the character c.
FilledWithChar ==
  [][ ~memcpy => \A i \in offset + 1 .. offset' : content'[i] = data[1] ]_vars
=============================================================================
