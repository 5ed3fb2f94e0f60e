------------------------------ MODULE SendPipe ------------------------------
(***************************************************************************)
(* What the sending side of a connection promises, without threads, flags  *)
(* or queues: the packets that were accepted are handed to the socket in   *)
(* the order of acceptance, each once and none skipped; after the send     *)
(* half is shut nothing more is handed over; and the send half is shut     *)
(* only when closing was asked for and everything accepted before the      *)
(* request has been handed over.                                           *)
(***************************************************************************)
EXTENDS Naturals, Sequences

CONSTANT Packet

VARIABLES accepted,  \* the packets accepted, in order
          wire,      \* the packets handed to the socket, in order
          socket,    \* "open", "shut" or "closed"
          asked,     \* closing was asked for
          mark       \* how many packets had been accepted by then

vars == <<accepted, wire, socket, asked, mark>>

Init == /\ accepted = <<>> /\ wire = <<>>
        /\ socket = "open"
        /\ asked = FALSE /\ mark = 0

Accept == /\ \E p \in Packet : accepted' = Append(accepted, p)
          /\ UNCHANGED <<wire, socket, asked, mark>>

AskClose == /\ ~asked
            /\ asked' = TRUE
            /\ mark' = Len(accepted)
            /\ UNCHANGED <<accepted, wire, socket>>

HandOver == /\ socket = "open"
            /\ \E n \in Len(wire) + 1 .. Len(accepted) :
                  wire' = SubSeq(accepted, 1, n)
            /\ UNCHANGED <<accepted, socket, asked, mark>>

Shut == /\ socket = "open" /\ asked
        /\ Len(wire) >= mark
        /\ socket' = "shut"
        /\ UNCHANGED <<accepted, wire, asked, mark>>

\* The socket is closed, by an error or after both sides are done; the first
\* request to close may be what the error handler answers with.
Die == /\ socket' = "closed"
       /\ UNCHANGED <<accepted, wire, asked, mark>>

Next == Accept \/ AskClose \/ HandOver \/ Shut \/ Die

Spec == Init /\ [][Next]_vars
=============================================================================
