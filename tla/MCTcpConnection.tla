--------------------------- MODULE MCTcpConnection ---------------------------
(* Model-checking instances of TcpConnection. *)
EXTENDS TcpConnection
=============================================================================
