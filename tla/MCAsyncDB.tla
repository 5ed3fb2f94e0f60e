----------------------------- MODULE MCAsyncDB ------------------------------
(* AsyncDB for TLC: the constants are in the .cfg file. *)
EXTENDS AsyncDB
=============================================================================
