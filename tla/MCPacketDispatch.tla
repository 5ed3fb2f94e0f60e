-------------------------- MODULE MCPacketDispatch --------------------------
(* Model-checking instances of PacketDispatch. *)
EXTENDS PacketDispatch

\* The packets of the network are the most interesting ones.
MostFromNetwork ==
  [c \in Classes |-> IF c = "default" THEN 3 ELSE 1]
=============================================================================
