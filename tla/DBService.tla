----------------------------- MODULE DBService ------------------------------
(***************************************************************************)
(* What asynchronous database access promises, without threads, queues or  *)
(* event objects: the calls on a connection are executed one after the     *)
(* other in the order they were accepted, each at most once; each is       *)
(* answered at most once and only after it was executed; and the answers   *)
(* that a connection gives through callbacks come in the order of their    *)
(* calls.                                                                  *)
(***************************************************************************)
EXTENDS Naturals

CONSTANTS Call,  \* calls are numbered in the order they are made
          Peer   \* a call's connection, or one of no call

VARIABLES on,        \* the connection a call was accepted on
          direct,    \* the calls whose caller waits for the answer
          executed,  \* the calls the database has executed
          answered   \* the calls whose caller has been told

vars == <<on, direct, executed, answered>>

CONSTANT None

Init == /\ on = [k \in Call |-> None]
        /\ direct = {} /\ executed = {} /\ answered = {}

Accepted == {k \in Call : on[k] # None}

\* The calls made on k's connection before k.
Before(k) == {j \in Accepted : j < k /\ on[j] = on[k]}

Accept(k) == /\ on[k] = None
             /\ \A j \in Accepted : j < k
             /\ \E c \in Peer : on' = [on EXCEPT ![k] = c]
             /\ direct' \in {direct, direct \cup {k}}
             /\ UNCHANGED <<executed, answered>>

Execute(k) == /\ k \in Accepted \ executed
              /\ Before(k) \subseteq executed
              /\ executed' = executed \cup {k}
              /\ UNCHANGED <<on, direct, answered>>

Answer(k) == /\ k \in executed \ answered
             /\ k \in direct \/ Before(k) \subseteq answered \cup direct
             /\ answered' = answered \cup {k}
             /\ UNCHANGED <<on, direct, executed>>

Next == \E k \in Call : Accept(k) \/ Execute(k) \/ Answer(k)

Spec == Init /\ [][Next]_vars
=============================================================================
