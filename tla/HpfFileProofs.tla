---------------------------- MODULE HpfFileProofs -----------------------------
(***************************************************************************)
(* Theorems about HpfFile, for all sizes, all view sizes and all data.     *)
(***************************************************************************)
EXTENDS HpfFile, SequenceTheorems, TLAPS

\* Where the call is decides what the file handle is, and conversely.
CallInv ==
  /\ pc = "init" => sign = "HPF_NOT_INIT"
  /\ pc \in {"enlarge", "grow", "copy"} => sign = "HPF_SIGN"
  /\ pc = "grow" => target >= size
  /\ pc = "idle" /\ ~Broken => wrote = Len(data)

\* The mapping, the window and the file are of one piece.
SizeInv ==
  /\ sign # "closed" => offset <= Len(content) /\ Len(content) = size /\ ~closeFailed
  /\ sign = "closed" => /\ view = NULL
                        /\ ~closeFailed => Len(content) = offset

\* Characters are numbers: _hpf_memset calculates with them.
FillInv == ~memcpy => data \in Seq(Char)

HpfInv == TypeOK /\ CallInv /\ SizeInv /\ FillInv /\ WindowAtOffset
-----------------------------------------------------------------------------
LEMMA ModIsChar == \A n \in Nat : n % CharRange \in Char
  BY SizesAssumption, SMT DEF Char

LEMMA WrittenIsByte ==
  ASSUME TypeOK, FillInv, NEW i \in Nat \ {0}, wrote + i <= Len(data)
  PROVE  Written(i) \in Byte
<1>1. CASE memcpy
  <2>1. wrote + i \in 1 .. Len(data)
    BY DEF TypeOK
  <2> QED
    BY <1>1, <2>1 DEF TypeOK, Written
<1>2. CASE ~memcpy
  <2>1. 1 \in 1 .. Len(data) /\ wrote \in Nat
    BY DEF TypeOK
  <2>2. data[1] \in Char
    BY <1>2, <2>1 DEF FillInv
  <2>3. data[1] + wrote \in Nat
    BY <2>1, <2>2, SizesAssumption DEF Char
  <2>4. (data[1] + wrote) % CharRange \in Byte
    BY <2>3, ModIsChar, BytesAssumption
  <2> QED
    BY <1>2, <2>4 DEF Written
<1> QED
  BY <1>1, <1>2

LEMMA ZeroIsByte == 0 \in Byte /\ InitialValues \subseteq Byte
  BY SizesAssumption, BytesAssumption DEF Char

\* The constants as the arithmetic of the steps needs them.
LEMMA Sizes == /\ view_size \in ViewSizes => view_size \in Nat /\ view_size > 0
               /\ DefaultView \in Nat /\ FourGB \in Nat
<1>1. view_size \in ViewSizes => view_size \in Nat \ {0}
  BY SizesAssumption
<1>2. \A n \in Nat \ {0} : n > 0
  OBVIOUS
<1> QED
  BY <1>1, <1>2, SizesAssumption

THEOREM InitInv == Init => HpfInv
<1> SUFFICES ASSUME Init PROVE HpfInv
  OBVIOUS
<1>1. TypeOK
  <2>1. /\ content \in Seq(Byte) /\ data \in Seq(Byte) /\ wrote \in 0 .. Len(data)
    BY DEF Init
  <2>2. /\ view_size \in ViewSizes /\ view_offset \in 0 .. view_size
        /\ initial_value \in InitialValues
    BY Sizes DEF Init
  <2>3. /\ sign \in Signs /\ map \in BOOLEAN /\ memcpy \in BOOLEAN
        /\ sysFailed \in BOOLEAN /\ closeFailed \in BOOLEAN
        /\ pc \in {"idle", "init", "enlarge", "grow", "copy"}
        /\ size \in Nat /\ offset \in Nat /\ target \in Nat /\ view \in Nat \cup {NULL}
    BY DEF Init, Signs
  <2> QED
    BY <2>1, <2>2, <2>3, Zenon DEF TypeOK
<1> QED
  BY <1>1 DEF Init, HpfInv, CallInv, SizeInv, FillInv, WindowAtOffset, Broken
-----------------------------------------------------------------------------
(* Every step keeps the invariant.                                         *)

LEMMA AppendInv ==
  ASSUME HpfInv, NEW b \in Seq(Byte), NEW m \in BOOLEAN,
         ~m => b \in Seq(Char), AppendF(b, m)
  PROVE  HpfInv'
<1>1. TypeOK'
  BY DEF AppendF, HpfInv, TypeOK, fileVars, history
<1>2. CallInv' /\ SizeInv' /\ FillInv' /\ WindowAtOffset'
  BY DEF AppendF, HpfInv, TypeOK, CallInv, SizeInv, FillInv, WindowAtOffset, Broken, fileVars,
         history
<1> QED
  BY <1>1, <1>2 DEF HpfInv

LEMMA InitFileInv == ASSUME HpfInv, InitFile PROVE HpfInv'
<1>1. TypeOK'
  BY DEF InitFile, Invalidate, HpfInv, TypeOK, Signs, callVars
<1>2. CallInv' /\ SizeInv' /\ FillInv' /\ WindowAtOffset'
  BY DEF InitFile, Invalidate, HpfInv, TypeOK, CallInv, SizeInv, FillInv, WindowAtOffset,
         Broken, callVars
<1> QED
  BY <1>1, <1>2 DEF HpfInv

LEMMA EnlargeInv == ASSUME HpfInv, EnlargeMap PROVE HpfInv'
<1>1. target' \in Nat /\ (pc' = "grow" => target' >= size')
  BY Sizes DEF EnlargeMap, Invalidate, HpfInv, TypeOK, Max2
<1>2. TypeOK'
  BY <1>1 DEF EnlargeMap, Invalidate, HpfInv, TypeOK, Signs, callVars
<1>3. CallInv' /\ SizeInv' /\ FillInv' /\ WindowAtOffset'
  BY <1>1 DEF EnlargeMap, Invalidate, HpfInv, TypeOK, CallInv, SizeInv, FillInv,
              WindowAtOffset, Broken, callVars
<1> QED
  BY <1>2, <1>3 DEF HpfInv

LEMMA GrowInv == ASSUME HpfInv, GrowTarget PROVE HpfInv'
<1>1. target' \in Nat /\ target' >= size
  BY Sizes DEF GrowTarget, HpfInv, TypeOK, CallInv
<1>2. TypeOK'
  BY <1>1 DEF GrowTarget, HpfInv, TypeOK, fileVars, history, callVars
<1>3. CallInv' /\ SizeInv' /\ FillInv' /\ WindowAtOffset'
  BY <1>1 DEF GrowTarget, HpfInv, TypeOK, CallInv, SizeInv, FillInv, WindowAtOffset, Broken,
              fileVars, history, callVars
<1> QED
  BY <1>2, <1>3 DEF HpfInv

\* The file a larger mapping makes.
LEMMA FilledUpIs ==
  ASSUME TypeOK, NEW n \in Nat
  PROVE  /\ FilledUp(n) \in Seq(Byte)
         /\ Len(FilledUp(n)) = n
         /\ \A i \in 1 .. n : FilledUp(n)[i] = IF i <= Len(content) THEN content[i] ELSE 0
<1>1. \A i \in 1 .. n : (IF i <= Len(content) THEN content[i] ELSE 0) \in Byte
  BY ZeroIsByte DEF TypeOK
<1> QED
  BY <1>1 DEF FilledUp

LEMMA CreateInv == ASSUME HpfInv, CreateMapping PROVE HpfInv'
<1>0. target \in Nat /\ target >= size /\ size = Len(content)
  BY DEF CreateMapping, HpfInv, TypeOK, CallInv, SizeInv
<1>1. CASE /\ map' = TRUE /\ size' = target /\ content' = FilledUp(target)
           /\ pc' = "copy" /\ UNCHANGED <<sign, sysFailed>>
  <2>1. content' \in Seq(Byte) /\ Len(content') = size'
    BY <1>0, <1>1, FilledUpIs DEF HpfInv
  <2>2. TypeOK'
    BY <1>0, <1>1, <2>1 DEF CreateMapping, HpfInv, TypeOK, callVars
  <2>3. CallInv' /\ SizeInv' /\ FillInv' /\ WindowAtOffset'
    <3>1. SizeInv' /\ FillInv' /\ CallInv'
      BY <1>0, <1>1, <2>1 DEF CreateMapping, HpfInv, TypeOK, CallInv, SizeInv, FillInv,
         Broken, callVars
    <3>2. view_size \in Nat /\ (view # NULL => view \in Nat)
      BY Sizes DEF HpfInv, TypeOK
    <3>3. WindowAtOffset'
      BY <1>0, <1>1, <2>1, <3>2 DEF CreateMapping, HpfInv, WindowAtOffset
    <3> QED
      BY <3>1, <3>3
  <2> QED
    BY <2>2, <2>3 DEF HpfInv
<1>2. CASE Invalidate /\ sysFailed' = TRUE /\ UNCHANGED <<map, size, content>>
  <2>1. TypeOK'
    BY <1>2 DEF CreateMapping, Invalidate, HpfInv, TypeOK, Signs, callVars
  <2>2. CallInv' /\ SizeInv' /\ FillInv' /\ WindowAtOffset'
    BY <1>2 DEF CreateMapping, Invalidate, HpfInv, TypeOK, CallInv, SizeInv, FillInv,
       WindowAtOffset, Broken, callVars
  <2> QED
    BY <2>1, <2>2 DEF HpfInv
<1> QED
  BY <1>1, <1>2 DEF CreateMapping

\* What one round of the loop does: space bytes go behind the offset, inside the
\* window, and the window only touches what lies behind the offset.
Base  == IF Remaps THEN offset ELSE view
At    == IF Remaps THEN 0 ELSE view_offset
Space == Min2(view_size - At, Len(data) - wrote)

LEMMA CopyPlace ==
  ASSUME HpfInv, CopyChunk
  PROVE  /\ Base \in Nat /\ At \in Nat /\ Space \in Nat \ {0}
         /\ Base + At = offset
         /\ At + Space <= view_size
         /\ Base + view_size <= Len(content)
         /\ wrote + Space <= Len(data)
         /\ view' = Base /\ view_offset' = At + Space
         /\ offset' = offset + Space /\ wrote' = wrote + Space
         /\ content' = Copied(Base, At, Space)
<1>1. view_size \in Nat /\ view_size > 0 /\ Len(data) \in Nat /\ wrote \in Nat
      /\ offset \in Nat /\ view_offset \in 0 .. view_size /\ Len(content) = size
      /\ wrote < Len(data)
  BY Sizes DEF CopyChunk, HpfInv, TypeOK, SizeInv, CallInv
<1>2. CASE Remaps
  BY <1>1, <1>2 DEF CopyChunk, CanMap, Base, At, Space, Min2, Advance
<1>3. CASE ~Remaps
  <2>1. view \in Nat /\ view + view_offset = offset /\ view + view_size <= Len(content)
        /\ view_offset < view_size
    BY <1>1, <1>3 DEF HpfInv, TypeOK, WindowAtOffset, Remaps
  <2> QED
    BY <1>1, <1>3, <2>1 DEF CopyChunk, Base, At, Space, Min2, Advance
<1> QED
  BY <1>2, <1>3

LEMMA CopiedIs ==
  ASSUME HpfInv, CopyChunk
  PROVE  /\ content' \in Seq(Byte) /\ Len(content') = Len(content)
         /\ \A i \in 1 .. offset : content'[i] = content[i]
         /\ \A i \in 1 .. Space : content'[offset + i] = Written(i)
         /\ \A i \in offset + Space + 1 .. Len(content) :
              content'[i] = IF Remaps /\ initial_value # 0 /\ i <= Base + view_size
                            THEN initial_value ELSE content[i]
<1> DEFINE new(i) == IF i \in Base + At + 1 .. Base + At + Space
                     THEN Written(i - (Base + At))
                     ELSE IF Remaps /\ initial_value # 0 /\ i \in Base + 1 .. Base + view_size
                          THEN initial_value ELSE content[i]
<1>1. content' = [i \in 1 .. Len(content) |-> new(i)]
  BY CopyPlace DEF Copied
<1>2. \A i \in 1 .. Len(content) : new(i) \in Byte
  <2> SUFFICES ASSUME NEW i \in 1 .. Len(content) PROVE new(i) \in Byte
    OBVIOUS
  <2>1. content[i] \in Byte /\ initial_value \in Byte /\ Len(content) \in Nat
    BY ZeroIsByte DEF HpfInv, TypeOK
  <2>2. CASE i \in Base + At + 1 .. Base + At + Space
    <3>1. i - (Base + At) \in Nat \ {0} /\ wrote + (i - (Base + At)) <= Len(data)
      <4>1. Len(data) \in Nat /\ wrote \in Nat
        BY DEF HpfInv, TypeOK
      <4> QED
        BY <2>2, <4>1, CopyPlace
    <3> QED
      BY <2>2, <3>1, WrittenIsByte DEF HpfInv
  <2> QED
    BY <2>1, <2>2
<1>3. Len(content) \in Nat /\ offset \in Nat /\ offset <= Len(content)
  BY DEF CopyChunk, HpfInv, TypeOK, CallInv, SizeInv
<1>4. content' \in Seq(Byte) /\ Len(content') = Len(content)
  BY <1>1, <1>2, <1>3
<1>5. \A i \in 1 .. offset : content'[i] = content[i]
  <2> SUFFICES ASSUME NEW i \in 1 .. offset PROVE new(i) = content[i]
    BY <1>1, <1>3
  <2>1. i \notin Base + At + 1 .. Base + At + Space
    BY CopyPlace, <1>3
  <2>2. Remaps => i \notin Base + 1 .. Base + view_size
    BY <1>3 DEF Base
  <2> QED
    BY <2>1, <2>2
<1>6. \A i \in 1 .. Space : content'[offset + i] = Written(i)
  <2> SUFFICES ASSUME NEW i \in 1 .. Space PROVE content'[offset + i] = Written(i)
    OBVIOUS
  <2>1. offset + i \in 1 .. Len(content) /\ offset + i \in Base + At + 1 .. Base + At + Space
        /\ (offset + i) - (Base + At) = i
    <3>1. /\ Base \in Nat /\ At \in Nat /\ Space \in Nat /\ Base + At = offset
          /\ At + Space <= view_size /\ Base + view_size <= Len(content)
      BY CopyPlace
    <3>2. view_size \in Nat
      BY Sizes DEF HpfInv, TypeOK
    <3> QED
      BY <1>3, <3>1, <3>2
  <2> QED
    BY <1>1, <2>1
<1>7. ASSUME NEW i \in offset + Space + 1 .. Len(content)
      PROVE  content'[i] = IF Remaps /\ initial_value # 0 /\ i <= Base + view_size
                           THEN initial_value ELSE content[i]
  <2>1. i \in 1 .. Len(content) /\ i \notin Base + At + 1 .. Base + At + Space
    <3>1. /\ Base \in Nat /\ At \in Nat /\ Space \in Nat /\ Base + At = offset
      BY CopyPlace
    <3> QED
      BY <1>3, <3>1
  <2>2. Remaps => (i \in Base + 1 .. Base + view_size <=> i <= Base + view_size)
    BY <1>3, CopyPlace DEF Base
  <2> QED
    BY <1>1, <2>1, <2>2
<1> QED
  BY <1>4, <1>5, <1>6, <1>7

LEMMA CopyInv == ASSUME HpfInv, CopyChunk PROVE HpfInv'
<1>1. view_size \in Nat /\ Len(data) \in Nat /\ wrote \in Nat /\ offset \in Nat
  BY Sizes DEF HpfInv, TypeOK
<1>2. /\ view' \in Nat /\ view_offset' \in 0 .. view_size
      /\ offset' \in Nat /\ wrote' \in 0 .. Len(data)
  BY <1>1, CopyPlace
<1>3. TypeOK'
  BY <1>2, CopiedIs DEF CopyChunk, HpfInv, TypeOK, callVars, history
<1>4. WindowAtOffset'
  <2>1. view_size' = view_size /\ Len(content') = Len(content)
    BY CopiedIs DEF CopyChunk
  <2>2. view' + view_offset' = offset' /\ view' + view_size <= Len(content)
    BY <1>1, CopyPlace
  <2> QED
    BY <2>1, <2>2 DEF WindowAtOffset
<1>5. SizeInv'
  BY <1>1, CopyPlace, CopiedIs DEF CopyChunk, HpfInv, SizeInv, CallInv, history
<1>6. CallInv' /\ FillInv'
  BY DEF CopyChunk, HpfInv, CallInv, FillInv, Broken, callVars
<1> QED
  BY <1>3, <1>4, <1>5, <1>6 DEF HpfInv

LEMMA RemapFailsInv == ASSUME HpfInv, RemapFails PROVE HpfInv'
<1>1. TypeOK'
  BY DEF RemapFails, Invalidate, CanMap, HpfInv, TypeOK, Signs, callVars
<1>2. CallInv' /\ SizeInv' /\ FillInv' /\ WindowAtOffset'
  BY DEF RemapFails, Invalidate, HpfInv, TypeOK, CallInv, SizeInv, FillInv, WindowAtOffset,
         Broken, callVars
<1> QED
  BY <1>1, <1>2 DEF HpfInv

LEMMA ReturnInv == ASSUME HpfInv, AppendReturn PROVE HpfInv'
<1>1. TypeOK'
  BY DEF AppendReturn, HpfInv, TypeOK, fileVars, history, callVars
<1>2. CallInv' /\ SizeInv' /\ FillInv' /\ WindowAtOffset'
  BY DEF AppendReturn, HpfInv, TypeOK, CallInv, SizeInv, FillInv, WindowAtOffset, Broken,
         fileVars, history, callVars
<1> QED
  BY <1>1, <1>2 DEF HpfInv

\* The file that closing leaves: all of the promised one, or nothing.
LEMMA CutIs ==
  ASSUME HpfInv, CloseFile
  PROVE  /\ content \in Seq(Byte) /\ offset \in Nat /\ offset <= Len(content)
         /\ closeFailed' \in BOOLEAN
         /\ \E n \in 0 .. Len(content) :
              /\ content' = SubSeq(content, 1, n)
              /\ n = 0 \/ offset <= n
              /\ ~closeFailed' => n = offset
              /\ content' \in Seq(Byte) /\ Len(content') = n
              /\ \A i \in 1 .. n : content'[i] = content[i]
<1>1. content \in Seq(Byte) /\ offset \in Nat /\ offset <= Len(content) /\ ~closeFailed
  BY DEF CloseFile, HpfInv, TypeOK, SizeInv
<1>2. PICK n \in {0, offset, Len(content)} :
        content' = SubSeq(content, 1, n) /\ (~closeFailed' => n = offset)
  BY DEF CloseFile
<1>3. n \in 0 .. Len(content) /\ (n = 0 \/ offset <= n)
  BY <1>1
<1>4. /\ SubSeq(content, 1, n) \in Seq(Byte) /\ Len(SubSeq(content, 1, n)) = n
      /\ \A i \in 1 .. n : SubSeq(content, 1, n)[i] = content[i]
  BY <1>1, <1>3
<1>5. closeFailed' \in BOOLEAN
  BY DEF CloseFile, HpfInv, TypeOK
<1> QED
  BY <1>1, <1>2, <1>3, <1>4, <1>5

LEMMA CloseInv == ASSUME HpfInv, CloseFile PROVE HpfInv'
<1>1. TypeOK'
  BY CutIs DEF CloseFile, HpfInv, TypeOK, Signs, callVars
<1>2. CallInv' /\ SizeInv' /\ FillInv' /\ WindowAtOffset'
  BY CutIs DEF CloseFile, HpfInv, TypeOK, CallInv, SizeInv, FillInv, WindowAtOffset, Broken,
               callVars
<1> QED
  BY <1>1, <1>2 DEF HpfInv

LEMMA StutterInv == ASSUME HpfInv, UNCHANGED vars PROVE HpfInv'
  BY DEF vars, fileVars, history, callVars, HpfInv, TypeOK, CallInv, SizeInv, FillInv,
         WindowAtOffset, Broken

LEMMA FillsAre ==
  \A fill \in Fills : [i \in 1 .. fill[2] |-> fill[1]] \in Seq(Char) \cap Seq(Byte)
<1> SUFFICES ASSUME NEW fill \in Fills
             PROVE  [i \in 1 .. fill[2] |-> fill[1]] \in Seq(Char) \cap Seq(Byte)
  OBVIOUS
<1>1. fill[1] \in Char /\ fill[1] \in Byte /\ fill[2] \in Nat
  BY FillsAssumption, BytesAssumption
<1> QED
  BY <1>1

THEOREM NextInv == HpfInv /\ [Next]_vars => HpfInv'
<1> SUFFICES ASSUME HpfInv, [Next]_vars PROVE HpfInv'
  OBVIOUS
<1>1. ASSUME NEW block \in Blocks, AppendF(block, TRUE) PROVE HpfInv'
  BY <1>1, AppendInv, BytesAssumption
<1>2. ASSUME NEW fill \in Fills, AppendF([i \in 1 .. fill[2] |-> fill[1]], FALSE)
      PROVE  HpfInv'
  BY <1>2, AppendInv, FillsAre
<1> QED
  BY <1>1, <1>2, InitFileInv, EnlargeInv, GrowInv, CreateInv, CopyInv, RemapFailsInv,
     ReturnInv, CloseInv, StutterInv DEF Next, InCall, HpfAppend, AppendChar

THEOREM HpfInvAlways == Spec => []HpfInv
  BY InitInv, NextInv, PTL DEF Spec

\* Every reachable state is of its type, whatever the sizes are.
THEOREM HpfTypeCorrect == Spec => []TypeOK
  BY HpfInvAlways, PTL DEF HpfInv

\* No copy lands outside the mapped file or at another place than its offset.
THEOREM WindowAtOffsetAlways == Spec => []WindowAtOffset
  BY HpfInvAlways, PTL DEF HpfInv
-----------------------------------------------------------------------------
(* What lies behind the last record.                                       *)

\* A window that is to be moved covers nothing behind the offset.
LEMMA MovedWindowIsFull ==
  ASSUME HpfInv, Remaps, NEW i \in Nat, i > offset, view # NULL
  PROVE  ~(i <= view + view_size)
  BY Sizes DEF HpfInv, TypeOK, WindowAtOffset, Remaps

TailInv == HpfInv /\ TailIsClean

LEMMA TailStep == ASSUME TailInv, [Next]_vars PROVE TailIsClean'
<1> USE DEF TailInv
<1>0. HpfInv' /\ offset \in Nat /\ Len(content) \in Nat
  BY NextInv DEF HpfInv, TypeOK
<1> USE DEF CleanUpTo, WindowEnd
<1>1. CASE UNCHANGED <<sign, offset, view, view_size, initial_value, content, closeFailed>>
  BY <1>1 DEF TailIsClean
<1>2. CASE /\ sign # "closed" /\ sign' # "closed"
           /\ UNCHANGED <<offset, view, view_size, initial_value, content>>
  BY <1>2 DEF TailIsClean
<1>3. CASE CreateMapping
  <2>1. CASE content' = FilledUp(target) /\ size' = target /\ sign' = sign
    <3>1. target \in Nat /\ sign # "closed"
      BY <1>3 DEF CreateMapping, HpfInv, TypeOK, CallInv
    <3>2. Len(content') = target
      BY <2>1, <3>1, FilledUpIs DEF HpfInv
    <3>3. view # NULL => view + view_size <= Len(content)
      BY DEF HpfInv, WindowAtOffset
    <3>4. ASSUME NEW i \in offset + 1 .. target
          PROVE  content'[i] = IF i <= WindowEnd THEN initial_value ELSE 0
      <4>1. content'[i] = IF i <= Len(content) THEN content[i] ELSE 0
        <5>1. i \in 1 .. target
          BY <1>0, <3>1
        <5> QED
          BY <2>1, <3>1, <5>1, FilledUpIs DEF HpfInv
      <4>2. CASE i <= Len(content)
        <5>1. i \in offset + 1 .. Len(content)
          BY <1>0, <3>1, <4>2
        <5> QED
          BY <3>1, <4>1, <4>2, <5>1 DEF TailIsClean
      <4>3. CASE ~(i <= Len(content))
        <5>1. ~(i <= WindowEnd)
          <6>1. /\ offset \in Nat /\ Len(content) \in Nat /\ view \in Nat \cup {NULL}
                /\ view # NULL => view + view_size <= Len(content)
            BY <1>0, <3>3 DEF HpfInv, TypeOK
          <6>2. offset <= Len(content) /\ view_size \in Nat
            BY <1>0, <3>1, Sizes DEF HpfInv, TypeOK, SizeInv
          <6> QED
            BY <4>3, <6>1, <6>2 DEF WindowEnd
        <5> QED
          BY <4>1, <4>3, <5>1
      <4> QED
        BY <4>2, <4>3
    <3> QED
      BY <1>3, <2>1, <3>1, <3>2, <3>4 DEF CreateMapping, TailIsClean
  <2>2. CASE Invalidate /\ UNCHANGED content
    BY <1>2, <1>3, <2>2 DEF CreateMapping, Invalidate, HpfInv, CallInv
  <2> QED
    BY <1>3, <2>1, <2>2 DEF CreateMapping
<1>4. CASE CopyChunk
  <2>1. /\ sign' = sign /\ view_size' = view_size /\ initial_value' = initial_value
        /\ sign # "closed"
    BY <1>4 DEF CopyChunk, HpfInv, CallInv
  <2>2. /\ view' = Base /\ view' # NULL /\ offset' = offset + Space /\ Space \in Nat
        /\ Len(content') = Len(content)
    BY <1>4, CopyPlace, CopiedIs DEF NULL
  <2>3. ASSUME NEW i \in offset + Space + 1 .. Len(content)
        PROVE  content'[i] = IF i <= Base + view_size THEN initial_value ELSE 0
    <3>1. /\ i \in Nat /\ i > offset /\ i \in offset + 1 .. Len(content)
          /\ content'[i] = IF Remaps /\ initial_value # 0 /\ i <= Base + view_size
                           THEN initial_value ELSE content[i]
      BY <1>0, <1>4, <2>2, CopiedIs
    <3>2. content[i] = IF i <= WindowEnd THEN initial_value ELSE 0
      BY <2>1, <3>1 DEF TailIsClean
    <3>3. CASE Remaps
      <4>1. content[i] = 0
        BY <1>0, <3>1, <3>2, <3>3, MovedWindowIsFull
      <4> QED
        BY <3>1, <3>3, <4>1
    <3>4. CASE ~Remaps
      BY <3>1, <3>2, <3>4 DEF Base, Remaps
    <3> QED
      BY <3>3, <3>4
  <2> QED
    BY <2>1, <2>2, <2>3 DEF TailIsClean
<1>5. CASE RemapFails
  <2>1. /\ sign' = "HPF_SIGN_INVALID" /\ view' = NULL /\ Remaps /\ sign # "closed"
        /\ UNCHANGED <<offset, content>>
    BY <1>5 DEF RemapFails, Invalidate, HpfInv, CallInv
  <2>2. ASSUME NEW i \in offset + 1 .. Len(content) PROVE content[i] = 0
    <3>1. content[i] = IF i <= WindowEnd THEN initial_value ELSE 0
      BY <2>1 DEF TailIsClean
    <3>2. i \in Nat /\ i > offset
      BY <1>0
    <3> QED
      BY <1>0, <2>1, <3>1, <3>2, MovedWindowIsFull
  <2>3. ASSUME NEW i \in offset + 1 .. Len(content) PROVE ~(i <= offset)
    BY <1>0
  <2> QED
    BY <2>1, <2>2, <2>3 DEF TailIsClean
<1>6. CASE CloseFile
  <2>1. /\ sign' = "closed" /\ sign # "closed"
        /\ UNCHANGED <<offset, view_size, initial_value>>
    BY <1>6 DEF CloseFile
  <2>2. ~closeFailed' => Len(content') = offset
    BY <1>6, CutIs
  <2>3. WindowEnd \in offset .. offset + view_size
    <3>1. view_size \in Nat /\ view_offset \in 0 .. view_size
          /\ (view # NULL => view \in Nat /\ view + view_offset = offset)
      BY Sizes DEF HpfInv, TypeOK, WindowAtOffset
    <3> QED
      BY <1>0, <3>1
  <2>4. ASSUME NEW i \in offset + 1 .. Len(content')
        PROVE  content'[i] = IF i <= WindowEnd THEN initial_value ELSE 0
    <3>1. PICK n \in 0 .. Len(content) :
            Len(content') = n /\ \A k \in 1 .. n : content'[k] = content[k]
      BY <1>6, CutIs
    <3>2. i \in 1 .. n /\ i \in offset + 1 .. Len(content)
      BY <1>0, <3>1
    <3> QED
      BY <2>1, <3>1, <3>2 DEF TailIsClean
  <2>5. \E w \in offset .. offset + view_size :
          \A i \in offset + 1 .. Len(content') :
            content'[i] = IF i <= w THEN initial_value ELSE 0
    BY <2>3, <2>4
  <2> QED
    BY <2>1, <2>2, <2>5 DEF TailIsClean
<1>7. CASE InitFile \/ EnlargeMap
  BY <1>2, <1>7 DEF InitFile, EnlargeMap, Invalidate, HpfInv, CallInv
<1>8. UNCHANGED <<sign, offset, view, view_size, initial_value, content, closeFailed>>
      \/ InitFile \/ EnlargeMap \/ CreateMapping \/ CopyChunk \/ RemapFails \/ CloseFile
  BY DEF Next, InCall, HpfAppend, AppendChar, AppendF, GrowTarget, AppendReturn,
         vars, fileVars, history
<1> QED
  BY <1>1, <1>3, <1>4, <1>5, <1>6, <1>7, <1>8

\* Behind the last record an open file holds the initial value up to the end of the
\* window and zeros after it, and a closed file nothing, or such a tail of one window
\* if a system call of hpf_close_file failed.
THEOREM TailIsCleanAlways == Spec => []TailIsClean
<1>1. Init => TailInv
  BY InitInv DEF TailInv, Init, TailIsClean, CleanUpTo
<1>2. TailInv /\ [Next]_vars => TailInv'
  BY NextInv, TailStep DEF TailInv
<1>3. TailInv => TailIsClean
  BY DEF TailInv
<1> QED
  BY <1>1, <1>2, <1>3, PTL DEF Spec
-----------------------------------------------------------------------------
(* The file is the promised one.                                           *)

LEMMA LogIs ==
  ASSUME NEW c \in Seq(Byte), NEW n \in Nat, n <= Len(c)
  PROVE  Len([i \in 1 .. n |-> c[i]]) = n
  OBVIOUS

\* A step that keeps the file up to the offset keeps the promised file.
LEMMA LogKept ==
  ASSUME HpfInv, offset' = offset, offset <= Len(content) <=> offset <= Len(content'),
         offset <= Len(content) => \A i \in 1 .. offset : content'[i] = content[i]
  PROVE  Log' = Log
  BY DEF Log

LEMMA BeginStep ==
  ASSUME HpfInv, NEW b \in Seq(Byte), NEW m \in BOOLEAN, AppendF(b, m)
  PROVE  File!Begin
<1>1. wrote = Len(data) /\ ~Broken
  BY DEF AppendF, HpfInv, CallInv, Broken
<1>2. data' \in Seq(Byte) /\ memcpy' \in BOOLEAN /\ wrote' = 0 /\ Broken' = Broken
  BY DEF AppendF, fileVars, history, Broken
<1>3. Log' = Log /\ closeFailed' = closeFailed
  BY LogKept DEF AppendF, fileVars, history
<1> QED
  BY <1>1, <1>2, <1>3 DEF File!Begin

LEMMA AddStep == ASSUME HpfInv, CopyChunk PROVE File!Add
<1>1. ~Broken /\ UNCHANGED <<data, memcpy, Broken, closeFailed>>
  BY DEF CopyChunk, HpfInv, CallInv, Broken, callVars, history
<1>2. HpfInv' /\ sign # "closed" /\ sign' = sign
  BY CopyInv DEF CopyChunk, HpfInv, CallInv
<1>8. /\ Log = [i \in 1 .. offset |-> content[i]]
      /\ Log' = [i \in 1 .. offset' |-> content'[i]]
  BY <1>2 DEF Log, HpfInv, SizeInv
<1>3. Len(Log) = offset /\ Len(Log') = offset' /\ offset \in Nat
  <2>1. content \in Seq(Byte) /\ offset \in Nat /\ offset <= Len(content)
    BY <1>2 DEF HpfInv, TypeOK, SizeInv
  <2>2. content' \in Seq(Byte) /\ offset' \in Nat /\ offset' <= Len(content')
    BY <1>2 DEF HpfInv, TypeOK, SizeInv
  <2> QED
    BY <1>8, <2>1, <2>2, LogIs
<1>4. \A i \in 1 .. offset : Log'[i] = Log[i]
  <2> SUFFICES ASSUME NEW i \in 1 .. offset PROVE Log'[i] = Log[i]
    OBVIOUS
  <2>1. i \in 1 .. offset'
    BY <1>3, CopyPlace
  <2> QED
    BY <1>8, <2>1, CopiedIs
<1>5. memcpy => \A i \in 1 .. Space : Log'[offset + i] = data[wrote + i]
  <2> SUFFICES ASSUME memcpy, NEW i \in 1 .. Space PROVE Log'[offset + i] = data[wrote + i]
    OBVIOUS
  <2>1. offset + i \in 1 .. offset'
    BY <1>3, CopyPlace
  <2> QED
    BY <1>8, <2>1, CopiedIs DEF Written
<1>6. Space \in 1 .. Len(data) - wrote
  BY CopyPlace DEF HpfInv, TypeOK
<1>7. wrote' = wrote + Space /\ offset' = offset + Space
  BY CopyPlace
<1> QED
  BY <1>1, <1>3, <1>4, <1>5, <1>6, <1>7 DEF File!Add

LEMMA FileStep == ASSUME HpfInv, [Next]_vars PROVE [File!Next]_File!vars
<1>1. ASSUME NEW block \in Blocks, AppendF(block, TRUE) PROVE File!Begin
  BY <1>1, BeginStep, BytesAssumption
<1>2. ASSUME NEW fill \in Fills, AppendF([i \in 1 .. fill[2] |-> fill[1]], FALSE)
      PROVE  File!Begin
  BY <1>2, BeginStep, FillsAre
<1>3. CASE /\ UNCHANGED <<data, memcpy, wrote, offset>>
           /\ offset <= Len(content) <=> offset <= Len(content')
           /\ offset <= Len(content) => \A i \in 1 .. offset : content'[i] = content[i]
           /\ Broken' = Broken \/ Broken'
           /\ closeFailed' = closeFailed
  <2>1. Log' = Log
    BY <1>3, LogKept
  <2>2. CASE Broken'
    <3>1. Broken' = TRUE
      BY <2>2 DEF Broken
    <3>2. File!Fail
      BY <1>3, <2>1, <3>1 DEF File!Fail, Log
    <3> QED
      BY <3>2 DEF File!Next
  <2>3. CASE Broken' = Broken
    BY <1>3, <2>1, <2>3 DEF File!vars, Log
  <2> QED
    BY <1>3, <2>2, <2>3
<1>4. CASE UNCHANGED vars
  BY <1>3, <1>4 DEF vars, fileVars, history, callVars, Broken
<1>5. CASE InitFile
  BY <1>3, <1>5 DEF InitFile, Invalidate, Broken, callVars, HpfInv, CallInv
<1>6. CASE EnlargeMap \/ GrowTarget \/ AppendReturn
  BY <1>3, <1>6 DEF EnlargeMap, Invalidate, GrowTarget, AppendReturn, Broken, fileVars,
                    history, callVars
<1>7. CASE CreateMapping
  <2>1. /\ offset <= Len(content) /\ offset <= Len(content')
        /\ \A i \in 1 .. offset : content'[i] = content[i]
    <3>1. CASE content' = FilledUp(target)
      <4>1. target \in Nat /\ target >= size /\ offset \in Nat /\ offset <= Len(content)
            /\ Len(content) = size
        BY <1>7 DEF CreateMapping, HpfInv, TypeOK, CallInv, SizeInv
      <4>2. \A i \in 1 .. offset : i \in 1 .. target /\ i <= Len(content)
        BY <4>1
      <4> QED
        <5>1. /\ Len(content') = target
              /\ \A i \in 1 .. target : content'[i] = IF i <= Len(content) THEN content[i] ELSE 0
          BY <3>1, <4>1, FilledUpIs DEF HpfInv
        <5> QED
          BY <4>1, <4>2, <5>1
    <3>2. CASE UNCHANGED content
      BY <1>7, <3>2 DEF CreateMapping, HpfInv, CallInv, SizeInv
    <3> QED
      BY <1>7, <3>1, <3>2 DEF CreateMapping
  <2>2. UNCHANGED <<data, memcpy, wrote, offset, closeFailed>>
    BY <1>7 DEF CreateMapping, callVars
  <2>3. Broken' = Broken \/ Broken'
    BY <1>7 DEF CreateMapping, Invalidate, Broken
  <2> QED
    BY <1>3, <2>1, <2>2, <2>3
<1>8. CASE CopyChunk
  BY <1>8, AddStep DEF File!Next
<1>9. CASE RemapFails
  BY <1>3, <1>9 DEF RemapFails, Invalidate, Broken, callVars
<1>10. CASE CloseFile
  <2>1. /\ content \in Seq(Byte) /\ offset \in Nat /\ offset <= Len(content)
        /\ closeFailed' \in BOOLEAN /\ closeFailed = FALSE
        /\ UNCHANGED <<data, memcpy, wrote, offset>> /\ Broken' = TRUE
    BY <1>10, CutIs DEF CloseFile, HpfInv, TypeOK, SizeInv, Broken, callVars
  <2>2. PICK n \in 0 .. Len(content) :
          /\ n = 0 \/ offset <= n
          /\ ~closeFailed' => n = offset
          /\ Len(content') = n /\ \A i \in 1 .. n : content'[i] = content[i]
    BY <1>10, CutIs
  <2>3. CASE offset <= n
    <3>1. Log' = Log
      <4>1. offset <= Len(content') /\ \A i \in 1 .. offset : content'[i] = content[i]
        BY <2>1, <2>2, <2>3
      <4> QED
        BY <2>1, <4>1, LogKept
    <3>2. File!Fail \/ File!CloseFails
      BY <2>1, <3>1 DEF File!Fail, File!CloseFails
    <3> QED
      BY <3>2 DEF File!Next
  <2>4. CASE ~(offset <= n)
    <3>1. Log' = <<>> /\ closeFailed' = TRUE
      BY <2>1, <2>2, <2>4 DEF Log
    <3>2. File!CloseFails
      BY <2>1, <3>1 DEF File!CloseFails
    <3> QED
      BY <3>2 DEF File!Next
  <2> QED
    BY <2>3, <2>4
<1> QED
  BY <1>1, <1>2, <1>4, <1>5, <1>6, <1>7, <1>8, <1>9, <1>10
     DEF Next, InCall, HpfAppend, AppendChar, File!Next

\* hpf implements an append-only file: bytes are added in order behind those that
\* are there, and none that was added is touched again, unless closing fails and leaves
\* nothing.
THEOREM HpfIsAnAppendFile == Spec => AppendSpec
<1>1. Init => File!Init
  <2> SUFFICES ASSUME Init PROVE File!Init
    OBVIOUS
  <2>1. Log = <<>>
    BY DEF Init, Log
  <2> QED
    BY <2>1 DEF Init, File!Init, Log, Broken
<1>2. HpfInv /\ [Next]_vars => [File!Next]_File!vars
  BY FileStep
<1> QED
  BY <1>1, <1>2, HpfInvAlways, PTL DEF Spec, AppendSpec, File!Spec
-----------------------------------------------------------------------------
(* Why an append fails.  With a view that fits, the file and the window's  *)
(* place are whole views, and a running append has room for what it still  *)
(* has to write; so the window is moved to where it can be mapped.         *)

WholeViews ==
  Fits /\ sign \in {"HPF_NOT_INIT", "HPF_SIGN"} =>
    /\ size % view_size = 0
    /\ pc = "grow" => target % view_size = 0
    /\ view = NULL => offset = 0
    /\ view # NULL => view % view_size = 0

RoomInv == pc = "copy" => offset + (Len(data) - wrote) <= size

ReasonInv == WholeViews /\ RoomInv /\ FailureJustified

LEMMA Multiple ==
  ASSUME NEW d \in Nat \ {0}, NEW k \in Nat
  PROVE  (d * k) % d = 0
  OBVIOUS

LEMMA Quotient ==
  ASSUME NEW d \in Nat \ {0}, NEW n \in Nat, n % d = 0
  PROVE  \E k \in Nat : n = d * k
  OBVIOUS

LEMMA SumOfMultiples ==
  ASSUME NEW d \in Nat \ {0}, NEW a \in Nat, NEW b \in Nat, a % d = 0, b % d = 0
  PROVE  (a + b) % d = 0
<1>1. PICK k \in Nat : a = d * k
  BY Quotient
<1>2. PICK m \in Nat : b = d * m
  BY Quotient
<1>3. a + b = d * (k + m) /\ k + m \in Nat
  BY <1>1, <1>2
<1>4. (d * (k + m)) % d = 0
  BY <1>3, Multiple
<1> QED
  BY <1>3, <1>4

LEMMA MultipleOfMultiple ==
  ASSUME NEW d \in Nat \ {0}, NEW e \in Nat \ {0}, NEW a \in Nat, e % d = 0, a % e = 0
  PROVE  a % d = 0
<1>1. PICK k \in Nat : a = e * k
  BY Quotient
<1>2. PICK m \in Nat : e = d * m
  BY Quotient
<1>3. a = d * (m * k)
  BY <1>1, <1>2
<1> QED
  BY <1>3, Multiple

LEMMA NextMultiple ==
  ASSUME NEW d \in Nat \ {0}, NEW a \in Nat, NEW b \in Nat, a % d = 0, b % d = 0, a < b
  PROVE  a + d <= b
<1>1. PICK k \in Nat : a = d * k
  BY Quotient
<1>2. PICK m \in Nat : b = d * m
  BY Quotient
<1>3. k < m
  BY <1>1, <1>2
<1>4. PICK j \in Nat : m = k + 1 + j
  <2>1. m - k - 1 \in Nat /\ m = k + 1 + (m - k - 1)
    BY <1>3
  <2> QED
    BY <2>1
<1>5. b = a + d + d * j
  BY <1>1, <1>2, <1>4
<1>6. d * j \in Nat
  OBVIOUS
<1> QED
  BY <1>5, <1>6

LEMMA ViewIsGranular ==
  ASSUME TypeOK, Fits
  PROVE  /\ view_size \in Nat \ {0} /\ DefaultView <= view_size
         /\ view_size % view_size = 0
<1>1. view_size \in Nat \ {0} /\ Granularity \in Nat \ {0} /\ DefaultView \in Nat
  BY SizesAssumption DEF TypeOK
<1>2. view_size % Granularity = 0
  BY DEF Fits
<1>3. 0 % Granularity = 0
  BY <1>1
<1>4. 0 + Granularity <= view_size
  BY <1>1, <1>2, <1>3, NextMultiple
<1>5. (view_size * 1) % view_size = 0
  BY <1>1, Multiple
<1> QED
  BY <1>1, <1>4, <1>5, GranularityAssumption

\* The end of a full window is a whole number of views.
LEMMA MovesToWholeView ==
  ASSUME HpfInv, WholeViews, Fits, sign = "HPF_SIGN", Remaps
  PROVE  offset % view_size = 0
<1>1. view_size \in Nat \ {0} /\ view_size % view_size = 0
  BY ViewIsGranular DEF HpfInv
<1>2. CASE view = NULL
  <2>1. offset = 0
    BY <1>2 DEF WholeViews
  <2> QED
    BY <1>1, <2>1
<1>3. CASE view # NULL
  <2>1. view \in Nat /\ view % view_size = 0 /\ offset = view + view_size
    BY <1>1, <1>3 DEF WholeViews, HpfInv, TypeOK, WindowAtOffset, Remaps
  <2> QED
    BY <1>1, <2>1, SumOfMultiples
<1> QED
  BY <1>2, <1>3

\* A running append can always map its next window.
LEMMA NextWindowFits ==
  ASSUME HpfInv, WholeViews, RoomInv, Fits, pc = "copy", wrote < Len(data), Remaps
  PROVE  CanMap
<1>1. /\ view_size \in Nat \ {0} /\ Granularity \in Nat \ {0}
      /\ offset \in Nat /\ size \in Nat /\ wrote \in Nat /\ Len(data) \in Nat
  BY ViewIsGranular, SizesAssumption DEF HpfInv, TypeOK
<1>2. sign = "HPF_SIGN"
  BY DEF HpfInv, CallInv
<1>3. offset % view_size = 0
  BY <1>2, MovesToWholeView
<1>4. view_size % Granularity = 0 /\ size % view_size = 0
  BY <1>2 DEF Fits, WholeViews
<1>5. offset % Granularity = 0
  BY <1>1, <1>3, <1>4, MultipleOfMultiple
<1>6. offset < size
  BY <1>1 DEF RoomInv
<1>7. offset + view_size <= size
  BY <1>1, <1>3, <1>4, <1>6, NextMultiple
<1> QED
  BY <1>5, <1>7 DEF CanMap

LEMMA ReasonInit == Init => ReasonInv
<1> SUFFICES ASSUME Init PROVE ReasonInv
  OBVIOUS
<1>1. 0 % view_size = 0
  BY SizesAssumption DEF Init
<1> QED
  BY <1>1 DEF Init, ReasonInv, WholeViews, RoomInv, FailureJustified

LEMMA EnlargeReason == ASSUME HpfInv, ReasonInv, EnlargeMap PROVE ReasonInv'
<1>1. /\ size \in Nat /\ offset \in Nat /\ Len(data) \in Nat /\ wrote \in Nat
      /\ DefaultView \in Nat
  BY SizesAssumption DEF HpfInv, TypeOK
<1>2. RoomInv'
  BY <1>1 DEF EnlargeMap, Invalidate, Least, RoomInv, callVars
<1>3. FailureJustified'
  BY DEF EnlargeMap, Invalidate, ReasonInv, FailureJustified, Fits
<1>4. ASSUME Fits, pc' = "grow", sign = "HPF_SIGN" PROVE target' % view_size = 0
  <2>1. /\ view_size \in Nat \ {0} /\ DefaultView <= view_size
        /\ view_size % view_size = 0
    BY <1>4, ViewIsGranular DEF HpfInv
  <2>2. size % view_size = 0
    BY <1>4 DEF ReasonInv, WholeViews
  <2>3. target' = Max2(size, Max2(DefaultView, view_size))
    BY <1>4 DEF EnlargeMap, Invalidate
  <2>4. target' = size \/ target' = view_size
    BY <1>1, <2>1, <2>3 DEF Max2
  <2> QED
    BY <2>1, <2>2, <2>4
<1>5. WholeViews'
  BY <1>4 DEF EnlargeMap, Invalidate, ReasonInv, WholeViews, Fits, HpfInv, CallInv
<1> QED
  BY <1>2, <1>3, <1>5 DEF ReasonInv

LEMMA GrowReason == ASSUME HpfInv, ReasonInv, GrowTarget PROVE ReasonInv'
<1>1. RoomInv' /\ FailureJustified'
  BY DEF GrowTarget, ReasonInv, RoomInv, FailureJustified, Fits, fileVars, history
<1>2. ASSUME Fits PROVE target' % view_size = 0
  <2>1. view_size \in Nat \ {0} /\ target \in Nat /\ FourGB \in Nat
    BY <1>2, ViewIsGranular, SizesAssumption DEF HpfInv, TypeOK
  <2>2. target % view_size = 0 /\ FourGB % view_size = 0
    BY <1>2 DEF GrowTarget, ReasonInv, WholeViews, Fits, HpfInv, CallInv
  <2>3. (target + FourGB) % view_size = 0 /\ (target + target) % view_size = 0
    BY <2>1, <2>2, SumOfMultiples
  <2>4. target' = target + FourGB \/ target' = target + target
    BY <2>1 DEF GrowTarget
  <2> QED
    BY <2>3, <2>4
<1>3. WholeViews'
  BY <1>2 DEF GrowTarget, ReasonInv, WholeViews, Fits, fileVars, history
<1> QED
  BY <1>1, <1>3 DEF ReasonInv

LEMMA CreateReason == ASSUME HpfInv, ReasonInv, CreateMapping PROVE ReasonInv'
<1>1. target \in Nat /\ offset \in Nat /\ Len(data) \in Nat /\ wrote \in Nat
  BY DEF HpfInv, TypeOK
<1>2. RoomInv'
  BY <1>1 DEF CreateMapping, Invalidate, Least, RoomInv, callVars
<1>3. FailureJustified'
  BY DEF CreateMapping, Invalidate, ReasonInv, FailureJustified, Fits
<1>4. WholeViews'
  BY DEF CreateMapping, Invalidate, ReasonInv, WholeViews, Fits, HpfInv, CallInv
<1> QED
  BY <1>2, <1>3, <1>4 DEF ReasonInv

LEMMA CopyReason == ASSUME HpfInv, ReasonInv, CopyChunk PROVE ReasonInv'
<1>1. /\ Base \in Nat /\ Space \in Nat /\ offset \in Nat /\ Len(data) \in Nat
      /\ wrote \in Nat /\ size \in Nat
  BY CopyPlace DEF HpfInv, TypeOK
<1>2. /\ view' = Base /\ offset' = offset + Space /\ wrote' = wrote + Space
      /\ sign = "HPF_SIGN" /\ pc = "copy" /\ pc' = pc
      /\ UNCHANGED <<view_size, sign, size, target, data, sysFailed>>
  BY CopyPlace DEF CopyChunk, HpfInv, CallInv, callVars, history
<1>3. RoomInv'
  BY <1>1, <1>2 DEF ReasonInv, RoomInv
<1>4. FailureJustified'
  BY <1>2 DEF FailureJustified
<1>5. ASSUME Fits PROVE Base % view_size = 0
  <2>1. CASE Remaps
    BY <1>2, <1>5, <2>1, MovesToWholeView DEF Base, ReasonInv
  <2>2. CASE ~Remaps
    BY <1>2, <1>5, <2>2 DEF Base, Remaps, ReasonInv, WholeViews
  <2> QED
    BY <2>1, <2>2
<1>6. view' # NULL
  BY <1>1, <1>2 DEF NULL
<1>7. WholeViews'
  BY <1>2, <1>5, <1>6 DEF ReasonInv, WholeViews, Fits
<1> QED
  BY <1>3, <1>4, <1>7 DEF ReasonInv

LEMMA RemapFailsReason == ASSUME HpfInv, ReasonInv, RemapFails PROVE ReasonInv'
<1>1. RoomInv' /\ WholeViews'
  BY DEF RemapFails, Invalidate, RoomInv, WholeViews
<1>2. Fits => CanMap
  BY NextWindowFits DEF RemapFails, ReasonInv
<1>3. FailureJustified'
  BY <1>2 DEF RemapFails, FailureJustified, Fits
<1> QED
  BY <1>1, <1>3 DEF ReasonInv

LEMMA AppendReason ==
  ASSUME HpfInv, ReasonInv, NEW b, NEW m, AppendF(b, m)
  PROVE  ReasonInv'
  BY DEF AppendF, ReasonInv, WholeViews, RoomInv, FailureJustified, Fits, fileVars, history

LEMMA ReasonStep == HpfInv /\ ReasonInv /\ [Next]_vars => ReasonInv'
<1> SUFFICES ASSUME HpfInv, ReasonInv, [Next]_vars PROVE ReasonInv'
  OBVIOUS
<1>1. ASSUME NEW block \in Blocks, AppendF(block, TRUE) PROVE ReasonInv'
  BY <1>1, AppendReason
<1>2. ASSUME NEW fill \in Fills, AppendF([i \in 1 .. fill[2] |-> fill[1]], FALSE)
      PROVE  ReasonInv'
  BY <1>2, AppendReason
<1>3. CASE InitFile
  BY <1>3 DEF InitFile, Invalidate, ReasonInv, WholeViews, RoomInv, FailureJustified, Fits,
              HpfInv, CallInv, callVars
<1>4. CASE AppendReturn
  BY <1>4 DEF AppendReturn, ReasonInv, WholeViews, RoomInv, FailureJustified, Fits,
              fileVars, history, callVars
<1>5. CASE CloseFile
  BY <1>5 DEF CloseFile, ReasonInv, WholeViews, RoomInv, FailureJustified
<1>6. CASE UNCHANGED vars
  BY <1>6 DEF vars, fileVars, history, callVars, ReasonInv, WholeViews, RoomInv,
              FailureJustified, Fits
<1> QED
  BY <1>1, <1>2, <1>3, <1>4, <1>5, <1>6, EnlargeReason, GrowReason, CreateReason, CopyReason,
     RemapFailsReason DEF Next, InCall, HpfAppend, AppendChar

\* With a view on the granularity that divides 4 GB an append fails only when a
\* system call does for want of a resource, whatever was appended before.
THEOREM FailureJustifiedAlways == Spec => []FailureJustified
<1>1. Spec => []ReasonInv
  BY HpfInvAlways, ReasonInit, ReasonStep, PTL DEF Spec
<1> QED
  BY <1>1, PTL DEF ReasonInv
=============================================================================
