---------------------------- MODULE FrameChannel ----------------------------
(***************************************************************************)
(* What the receiving side of a connection promises: the frames that the   *)
(* peer sent reach the decoder in order and once each, and whole when they *)
(* are not longer than MaxWhole.  A longer one has its length and its first*)
(* MaxWhole bytes.  A frame whose length is not positive, or exceeds       *)
(* MaxLength, stops the decoding for good, and only one of the second kind *)
(* may make the decoder read what was never sent.                          *)
(***************************************************************************)
EXTENDS Integers, Sequences

CONSTANTS Payload,    \* what a frame may carry; <<>> stands for a bad length
          MaxWhole, MaxLength,
          Unknown     \* any byte

VARIABLES sent, received, ended, misread

cvars == <<sent, received, ended, misread>>

Init == sent = <<>> /\ received = <<>> /\ ended = FALSE /\ misread = FALSE

Send == /\ \E p \in Payload : sent' = Append(sent, p)
        /\ UNCHANGED <<received, ended, misread>>

Spoilt(p) == [i \in DOMAIN p |-> IF i <= MaxWhole THEN p[i] ELSE Unknown]

Deliver ==
  LET next == Len(received) + 1
  IN  /\ ~ended
      /\ next \in DOMAIN sent /\ Len(sent[next]) \in 1..MaxLength
      /\ \E p \in {sent[next], Spoilt(sent[next])} : received' = Append(received, p)
      /\ UNCHANGED <<sent, ended, misread>>

Misread ==
  LET next == Len(received) + 1
  IN  /\ ~ended
      /\ next \in DOMAIN sent /\ Len(sent[next]) > MaxLength
      /\ misread' = TRUE
      /\ UNCHANGED <<sent, received, ended>>

\* The connection is replaced or dies: nothing more is delivered.
End == ended' = TRUE /\ UNCHANGED <<sent, received, misread>>

Next == Send \/ Deliver \/ Misread \/ End

Spec == Init /\ [][Next]_cvars
=============================================================================
