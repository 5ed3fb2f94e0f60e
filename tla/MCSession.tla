------------------------------ MODULE MCSession ------------------------------
(* Session for TLC: the bounds of the .cfg files that are records. *)
EXTENDS Session

OneReconnection  == [client |-> 2, server |-> 1, links |-> 2, retry |-> 1]
TwoReconnections == [client |-> 2, server |-> 0, links |-> 3, retry |-> 0]
Sizes == {OneReconnection, TwoReconnections}
=============================================================================
