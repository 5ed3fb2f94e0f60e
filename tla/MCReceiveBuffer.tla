--------------------------- MODULE MCReceiveBuffer ---------------------------
(* ReceiveBuffer for TLC: the constants are in the .cfg files. *)
EXTENDS ReceiveBuffer
=============================================================================
