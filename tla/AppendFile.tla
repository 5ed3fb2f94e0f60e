----------------------------- MODULE AppendFile -----------------------------
(***************************************************************************)
(* What a record file promises, without maps and windows: the bytes of an  *)
(* append are added behind those that are there, chunk by chunk, and       *)
(* nothing that was added is touched again.  An append that fails leaves   *)
(* the chunks it has added, and nothing is added any more.  Of a call that *)
(* is not exact only the number of bytes is promised.  A file whose closing*)
(* fails keeps all or nothing.                                             *)
(***************************************************************************)
EXTENDS Naturals, Sequences

CONSTANT Byte

VARIABLES log,     \* the bytes of the file
          data,    \* the bytes of the append that is running
          wrote,   \* how many of them have been added
          exact,   \* they are to be added as they are
          broken,  \* an append has failed, or the file is closed
          unsafe   \* closing it has failed

vars == <<log, data, wrote, exact, broken, unsafe>>

Init == /\ log = <<>> /\ data = <<>>
        /\ wrote = 0
        /\ exact = TRUE
        /\ broken = FALSE /\ unsafe = FALSE

Begin == /\ wrote = Len(data) /\ ~broken
         /\ data' \in Seq(Byte) /\ exact' \in BOOLEAN
         /\ wrote' = 0
         /\ UNCHANGED <<log, broken, unsafe>>

Add == /\ ~broken
       /\ \E n \in 1 .. Len(data) - wrote :
             /\ wrote' = wrote + n
             /\ Len(log') = Len(log) + n
             /\ exact => \A i \in 1 .. n : log'[Len(log) + i] = data[wrote + i]
       /\ \A i \in 1 .. Len(log) : log'[i] = log[i]
       /\ UNCHANGED <<data, exact, broken, unsafe>>

Fail == /\ broken' = TRUE
        /\ UNCHANGED <<log, data, wrote, exact, unsafe>>

CloseFails == /\ ~unsafe
              /\ broken' = TRUE /\ unsafe' = TRUE
              /\ log' \in {log, <<>>}
              /\ UNCHANGED <<data, wrote, exact>>

Next == Begin \/ Add \/ Fail \/ CloseFails

Spec == Init /\ [][Next]_vars
=============================================================================
