--------------------------- MODULE AsyncDBProofs ----------------------------
(***************************************************************************)
(* Proofs about AsyncDB, for any connections and any number of calls.      *)
(***************************************************************************)
EXTENDS AsyncDB, FiniteSetTheorems, TLAPS

Made == 1 .. Len(calls)
In(k, s) == \E i \in 1 .. Len(s) : s[i] = k

\* Where the thread of a pool is decides whether it is counted and has a call.
ThreadInv ==
  \A c \in Connection :
    /\ worker[c] = "none" <=> c \notin made
    /\ active[c] = 1 <=> worker[c] \in {"fetch", "running", "post", "leaving"}
    /\ busy[c] = NoCall <=> worker[c] \notin {"running", "post"}
    /\ c \notin made => tasks[c] = <<>>

\* A pool that UnInit has waited for, or dropped, is idle.
DrainInv ==
  \A c \in Connection :
    (logic = "uninit" /\ c \in waited) \/ c \notin connectionPool =>
      tasks[c] = <<>> /\ busy[c] = NoCall

\* Calls are accepted, executed and answered in that order.
CallInv ==
  /\ accepted \subseteq Made /\ executed \subseteq accepted
  /\ \A k \in Call : told[k] # "none" => k \in executed
  /\ logic = "blocked" =>
       waitsFor \in Made /\ KindOf(waitsFor) = "blocking" /\ told[waitsFor] = "none"
  /\ logic # "blocked" => waitsFor = NoCall
  /\ handling # NoCall => told[handling] # "none"

\* What a pool has, in the order of the calls, has not been executed, except for the
\* call whose answer is being posted.
QueueInv ==
  \A c \in Connection :
    /\ \A i \in 1 .. Len(tasks[c]) :
         /\ tasks[c][i] \in accepted \ executed /\ ConnOf(tasks[c][i]) = c
         /\ \A j \in 1 .. Len(tasks[c]) : i < j => tasks[c][i] < tasks[c][j]
         /\ busy[c] < tasks[c][i]
    /\ busy[c] # NoCall => busy[c] \in accepted /\ ConnOf(busy[c]) = c
    /\ worker[c] = "running" => busy[c] \notin executed
    /\ worker[c] = "post" => busy[c] \in executed

\* What has been executed was called before what waits; what has not waits.
OrderInv ==
  \A k \in accepted :
    LET c == ConnOf(k)
    IN  IF k \in executed
        THEN /\ \A i \in 1 .. Len(tasks[c]) : k < tasks[c][i]
             /\ busy[c] # NoCall => k <= busy[c]
        ELSE In(k, tasks[c]) \/ busy[c] = k

\* The answers on their way are to executed calls, each is there once, and those of a
\* connection are in the order of its calls.
PostedInv ==
  \A i \in 1 .. Len(posted) :
    LET k == posted[i]
    IN  /\ work_service
        /\ k \in executed /\ told[k] = "none" /\ KindOf(k) # "blocking"
        /\ busy[ConnOf(k)] # k
        /\ \A j \in 1 .. Len(posted) :
             i < j => /\ posted[j] # k
                      /\ ConnOf(posted[j]) = ConnOf(k) => k < posted[j]

SignaledInv ==
  \A k \in signaled :
    k \in executed /\ told[k] = "none" /\ KindOf(k) = "blocking" /\ busy[ConnOf(k)] # k

\* What has been executed and not answered is on its way.
AnswerInv ==
  \A k \in executed :
    /\ busy[ConnOf(k)] = k => told[k] = "none"
    /\ told[k] = "none" /\ busy[ConnOf(k)] # k =>
         IF KindOf(k) = "blocking" THEN k \in signaled
                                   ELSE work_service => In(k, posted)

\* An event is there until its call is answered.
EventInv == \A k \in Made : told[k] = "none" => event[k] = "alive"

\* bSuccess is true of what the database has done, and false of what threw.
SuccessInv ==
  /\ \A k \in executed :
       /\ outcome[k] \in {"done", "refused", "threw"}
       /\ KindOf(k) # "command" => outcome[k] = "done"
       /\ outcome[k] = "done" => bSuccess[k]
       /\ outcome[k] = "threw" => ~bSuccess[k]
  /\ CommandTold

IInv == /\ TypeOK /\ ThreadInv /\ DrainInv /\ CallInv /\ QueueInv /\ OrderInv
        /\ PostedInv /\ SignaledInv /\ AnswerInv /\ EventInv /\ SuccessInv
-----------------------------------------------------------------------------
LEMMA CallsAre == /\ MaxCall \in Nat /\ NoCall \notin Call /\ Made \subseteq Nat
                  /\ Len(calls) <= MaxCall => Made \subseteq Call
  BY CallsAssumption DEF Call, NoCall, Made

LEMMA InitInv == Init => IInv
<1> SUFFICES ASSUME Init PROVE IInv
  OBVIOUS
<1> USE DEF Init
<1>1. TypeOK
  BY CallsAre DEF TypeOK, Workers
<1>2. ThreadInv /\ DrainInv /\ QueueInv
  BY CallsAre DEF ThreadInv, DrainInv, QueueInv, NoCall
<1>3. CallInv /\ OrderInv /\ PostedInv /\ SignaledInv /\ AnswerInv /\ EventInv /\ SuccessInv
  BY DEF CallInv, OrderInv, PostedInv, SignaledInv, AnswerInv, EventInv, SuccessInv, CommandTold,
         Made, NoCall
<1> QED
  BY <1>1, <1>2, <1>3 DEF IInv

\* What a call can do to the tasks of a pool, and its thread's taking of a task.
LEMMA TasksType ==
  ASSUME TypeOK, NEW c \in Connection, TakeTask(c), tasks[c] # <<>>
  PROVE  /\ tasks' \in [Connection -> Seq(Call)]
         /\ worker' \in [Connection -> Workers]
         /\ busy' \in [Connection -> Call \cup {NoCall}]
  BY DEF TakeTask, TypeOK, Workers

LEMMA AcceptType ==
  ASSUME TypeOK, NEW c \in Connection, NEW k \in Call, AsyncProcess(c, k)
  PROVE  /\ tasks' \in [Connection -> Seq(Call)]
         /\ notified' \in [Connection -> BOOLEAN]
         /\ accepted' \subseteq Call
<1>1. CASE c \in connectionPool
  <2>1. Append(tasks[c], k) \in Seq(Call)
    BY DEF TypeOK
  <2>2. /\ tasks' = [tasks EXCEPT ![c] = Append(tasks[c], k)]
        /\ notified' = [notified EXCEPT ![c] = TRUE]
        /\ accepted' = accepted \cup {k}
    BY <1>1 DEF AsyncProcess
  <2>3. tasks' \in [Connection -> Seq(Call)]
    BY <2>1, <2>2 DEF TypeOK
  <2>4. notified' \in [Connection -> BOOLEAN]
    BY <2>2 DEF TypeOK
  <2> QED
    BY <2>2, <2>3, <2>4 DEF TypeOK
<1>2. CASE c \notin connectionPool
  BY <1>2 DEF AsyncProcess, TypeOK
<1> QED
  BY <1>1, <1>2

LEMMA TypeStep == ASSUME TypeOK, ThreadInv, CallInv, [Next]_vars PROVE TypeOK'
<1>1. CASE StartApp
  BY <1>1 DEF TypeOK, StartApp, poolVars, callVars, history
<1>2. CASE ReturnFromApp
  BY <1>2 DEF TypeOK, ReturnFromApp, poolVars, history
<1>3. CASE QueryReturns
  BY <1>3 DEF TypeOK, QueryReturns, poolVars
<1>4. CASE RunHandler
  BY <1>4 DEF TypeOK, RunHandler, poolVars
<1>5. CASE UnInit
  BY <1>5 DEF TypeOK, UnInit, poolVars, callVars, history
<1>6. ASSUME NEW c \in Connection, New(c)
      PROVE  TypeOK'
  BY <1>6 DEF TypeOK, New, callVars, logicVars, history, Workers
<1>7. ASSUME NEW c \in Connection, NEW kind \in Kind, MakeCall(c, kind)
      PROVE  TypeOK'
  <2> DEFINE k == Len(calls) + 1
  <2>1. k \in Call
    BY <1>7, CallsAre DEF MakeCall, Call, TypeOK
  <2>2. calls' \in Seq([conn : Connection, kind : Kind]) /\ Len(calls') <= MaxCall
    BY <1>7, CallsAre DEF MakeCall, TypeOK
  <2>3. /\ tasks' \in [Connection -> Seq(Call)]
        /\ notified' \in [Connection -> BOOLEAN]
        /\ accepted' \subseteq Call
    BY <1>7, <2>1, AcceptType DEF MakeCall
  <2> QED
    BY <1>7, <2>1, <2>2, <2>3 DEF TypeOK, MakeCall
<1>8. ASSUME NEW c \in Connection, UnInitWait(c)
      PROVE  TypeOK'
  BY <1>8 DEF TypeOK, UnInitWait, poolVars, callVars, history
<1>9. ASSUME NEW c \in Connection, UnInitClear(c)
      PROVE  TypeOK'
  BY <1>9 DEF TypeOK, UnInitClear, callVars, history
<1>10. ASSUME NEW c \in Connection, FetchTask(c)
       PROVE  TypeOK'
  <2>1. active[c] = 1
    BY <1>10 DEF FetchTask, ThreadInv
  <2>2. active' \in [Connection -> {0, 1}]
    BY <1>10, <2>1 DEF FetchTask, Deactivate, TypeOK
  <2>3. notified' \in [Connection -> BOOLEAN]
    BY <1>10 DEF FetchTask, TypeOK
  <2>4. /\ tasks' \in [Connection -> Seq(Call)]
        /\ worker' \in [Connection -> Workers]
        /\ busy' \in [Connection -> Call \cup {NoCall}]
    BY <1>10, TasksType DEF FetchTask, TypeOK, Workers
  <2> QED
    BY <1>10, <2>2, <2>3, <2>4 DEF TypeOK, FetchTask, callVars, logicVars, history
<1>11. ASSUME NEW c \in Connection, WakeUp(c)
       PROVE  TypeOK'
  <2>1. worker[c] = "waiting"
    BY <1>11 DEF WakeUp
  <2>2. active[c] = 0
    BY <2>1 DEF ThreadInv, TypeOK
  <2>3. active' \in [Connection -> {0, 1}]
    BY <1>11, <2>2 DEF WakeUp, Activate, TypeOK
  <2>4. notified' \in [Connection -> BOOLEAN]
    BY <1>11 DEF WakeUp, TypeOK
  <2>5. /\ tasks' \in [Connection -> Seq(Call)]
        /\ worker' \in [Connection -> Workers]
        /\ busy' \in [Connection -> Call \cup {NoCall}]
    BY <1>11, TasksType DEF WakeUp, TypeOK, Workers
  <2> QED
    BY <1>11, <2>3, <2>4, <2>5 DEF TypeOK, WakeUp, callVars, logicVars, history
<1>12. ASSUME NEW c \in Connection, Leave(c)
       PROVE  TypeOK'
  <2>1. active[c] = 1
    BY <1>12 DEF Leave, ThreadInv
  <2> QED
    BY <1>12, <2>1 DEF TypeOK, Leave, Deactivate, callVars, logicVars, history, Workers
<1>13. ASSUME NEW c \in Connection, Execute(c)
       PROVE  TypeOK'
  <2>1. busy[c] \in Call
    BY <1>13 DEF Execute, ThreadInv, TypeOK
  <2>2. /\ outcome' \in [Call -> {"none", "done", "refused", "threw"}]
        /\ bSuccess' \in [Call -> BOOLEAN]
    BY <1>13, <2>1 DEF Execute, BSuccess, TypeOK
  <2> QED
    BY <1>13, <2>1, <2>2 DEF TypeOK, Execute, logicVars, Workers
<1>14. ASSUME NEW c \in Connection, PostAnswer(c)
       PROVE  TypeOK'
  <2>1. busy[c] \in Call
    BY <1>14 DEF PostAnswer, ThreadInv, TypeOK
  <2> QED
    BY <1>14, <2>1 DEF TypeOK, PostAnswer, logicVars, history, Workers
<1>15. CASE UNCHANGED vars
  BY <1>15 DEF TypeOK, vars, poolVars, callVars, logicVars, history
<1> QED
  BY <1>1, <1>2, <1>3, <1>4, <1>5, <1>6, <1>7, <1>8, <1>9, <1>10, <1>11, <1>12, <1>13, <1>14,
     <1>15 DEF Next, Work

\* No thread is counted twice or forgotten.
LEMMA ThreadStep == ASSUME TypeOK, ThreadInv, [Next]_vars PROVE ThreadInv'
<1>1. CASE UNCHANGED <<made, tasks, worker, active, busy>>
  BY <1>1 DEF ThreadInv
<1>2. ASSUME NEW c \in Connection, New(c)
      PROVE  ThreadInv'
  BY <1>2 DEF ThreadInv, TypeOK, New
<1>3. ASSUME NEW c \in Connection, NEW kind \in Kind, MakeCall(c, kind)
      PROVE  ThreadInv'
  <2>1. \A d \in Connection : d # c => tasks'[d] = tasks[d]
    BY <1>3 DEF MakeCall, AsyncProcess, TypeOK
  <2> QED
    BY <1>3, <2>1 DEF ThreadInv, MakeCall
<1>4. ASSUME NEW c \in Connection, FetchTask(c)
      PROVE  ThreadInv'
  <2>1. active[c] = 1 /\ busy[c] = NoCall /\ c \in made
    BY <1>4 DEF FetchTask, ThreadInv, TypeOK
  <2>2. CASE target[c] = 0 /\ worker' = [worker EXCEPT ![c] = "leaving"]
             /\ UNCHANGED <<tasks, active, busy, made>>
    BY <2>1, <2>2 DEF ThreadInv, TypeOK
  <2>3. CASE tasks[c] # <<>> /\ TakeTask(c) /\ UNCHANGED <<active, made>>
    <3>1. Head(tasks[c]) # NoCall
      BY <2>3, CallsAre DEF TypeOK
    <3> QED
      BY <2>1, <2>3, <3>1 DEF ThreadInv, TypeOK, TakeTask
  <2>4. CASE worker' = [worker EXCEPT ![c] = "waiting"] /\ Deactivate(c)
             /\ UNCHANGED <<tasks, busy, made>>
    BY <2>1, <2>4 DEF ThreadInv, TypeOK, Deactivate
  <2> QED
    BY <1>4, <2>2, <2>3, <2>4 DEF FetchTask
<1>5. ASSUME NEW c \in Connection, WakeUp(c)
      PROVE  ThreadInv'
  <2>1. worker[c] = "waiting" /\ Activate(c) /\ made' = made
    BY <1>5 DEF WakeUp
  <2>2. active[c] = 0 /\ busy[c] = NoCall /\ c \in made
    BY <2>1 DEF ThreadInv, TypeOK
  <2>3. CASE tasks[c] # <<>> /\ TakeTask(c)
    <3>1. Head(tasks[c]) # NoCall
      BY <2>3, CallsAre DEF TypeOK
    <3> QED
      BY <2>1, <2>2, <2>3, <3>1 DEF ThreadInv, TypeOK, TakeTask, Activate
  <2>4. CASE worker' = [worker EXCEPT ![c] = "leaving"] /\ UNCHANGED <<tasks, busy>>
    BY <2>1, <2>2, <2>4 DEF ThreadInv, TypeOK, Activate
  <2> QED
    BY <1>5, <2>3, <2>4 DEF WakeUp
<1>6. ASSUME NEW c \in Connection, Leave(c)
      PROVE  ThreadInv'
  BY <1>6 DEF ThreadInv, TypeOK, Leave, Deactivate
<1>7. ASSUME NEW c \in Connection, Execute(c)
      PROVE  ThreadInv'
  BY <1>7 DEF ThreadInv, TypeOK, Execute
<1>8. ASSUME NEW c \in Connection, PostAnswer(c)
      PROVE  ThreadInv'
  BY <1>8 DEF ThreadInv, TypeOK, PostAnswer
<1>9. CASE StartApp \/ ReturnFromApp \/ QueryReturns \/ RunHandler \/ UnInit
  BY <1>1, <1>9 DEF StartApp, ReturnFromApp, QueryReturns, RunHandler, UnInit, poolVars
<1>10. ASSUME NEW c \in Connection, UnInitWait(c) \/ UnInitClear(c)
       PROVE  ThreadInv'
  BY <1>1, <1>10 DEF UnInitWait, UnInitClear, poolVars
<1>11. CASE UNCHANGED vars
  BY <1>1, <1>11 DEF vars, poolVars
<1> QED
  BY <1>2, <1>3, <1>4, <1>5, <1>6, <1>7, <1>8, <1>9, <1>10, <1>11 DEF Next, Work

\* Once a pool is idle and gets no more calls it stays idle, whatever wakes its thread.
LEMMA DrainStep ==
  ASSUME TypeOK, ThreadInv, DrainInv, [Next]_vars PROVE DrainInv'
<1>1. CASE /\ UNCHANGED <<connectionPool, tasks, busy>>
           /\ logic' = "uninit" =>
                (logic = "uninit" /\ waited' = waited) \/ waited' = {}
  BY <1>1 DEF DrainInv, TypeOK
<1>2. CASE StartApp \/ ReturnFromApp \/ QueryReturns \/ RunHandler \/ UnInit
  BY <1>1, <1>2 DEF StartApp, ReturnFromApp, QueryReturns, RunHandler, UnInit, poolVars
<1>3. ASSUME NEW c \in Connection, New(c)
      PROVE  DrainInv'
  BY <1>3 DEF New, DrainInv, TypeOK, logicVars
<1>4. ASSUME NEW c \in Connection, NEW kind \in Kind, MakeCall(c, kind)
      PROVE  DrainInv'
  <2>1. \A d \in Connection : d # c \/ c \notin connectionPool => tasks'[d] = tasks[d]
    BY <1>4 DEF MakeCall, AsyncProcess, TypeOK
  <2> QED
    BY <1>4, <2>1 DEF MakeCall, DrainInv
<1>5. ASSUME NEW c \in Connection, UnInitWait(c) \/ UnInitClear(c)
      PROVE  DrainInv'
  <2>1. active[c] = 0 /\ tasks[c] = <<>>
    BY <1>5 DEF UnInitWait, UnInitClear
  <2>2. busy[c] = NoCall
    BY <2>1 DEF ThreadInv
  <2> QED
    BY <1>5, <2>1, <2>2 DEF UnInitWait, UnInitClear, DrainInv, poolVars
<1>6. ASSUME NEW c \in Connection, FetchTask(c) \/ WakeUp(c)
      PROVE  DrainInv'
  <2>1. UNCHANGED <<connectionPool, logic, waited>>
    BY <1>6 DEF FetchTask, WakeUp, logicVars
  <2>2. \/ UNCHANGED <<tasks, busy>>
        \/ /\ tasks[c] # <<>>
           /\ \A d \in Connection : d # c => tasks'[d] = tasks[d] /\ busy'[d] = busy[d]
    BY <1>6 DEF FetchTask, WakeUp, TakeTask, TypeOK
  <2> QED
    BY <2>1, <2>2 DEF DrainInv
<1>7. ASSUME NEW c \in Connection, Leave(c) \/ Execute(c)
      PROVE  DrainInv'
  BY <1>7 DEF Leave, Execute, DrainInv, logicVars
<1>8. ASSUME NEW c \in Connection, PostAnswer(c)
      PROVE  DrainInv'
  BY <1>8 DEF PostAnswer, DrainInv, TypeOK, logicVars
<1>9. CASE UNCHANGED vars
  BY <1>1, <1>9 DEF vars, poolVars, logicVars
<1> QED
  BY <1>2, <1>3, <1>4, <1>5, <1>6, <1>7, <1>8, <1>9 DEF Next, Work

\* The call that is made next is none of those that were.
LEMMA NewCall ==
  ASSUME TypeOK, NEW c \in Connection, NEW kind \in Kind, MakeCall(c, kind)
  PROVE  LET k == Len(calls) + 1
         IN  /\ k \in Call /\ k \notin Made /\ Made' = Made \cup {k}
             /\ calls'[k] = [conn |-> c, kind |-> kind]
             /\ \A j \in Made : j < k /\ j \in Call /\ calls'[j] = calls[j]
<1>1. Len(calls) \in Nat /\ Len(calls) + 1 <= MaxCall
  BY DEF MakeCall, TypeOK
<1>2. calls' = Append(calls, [conn |-> c, kind |-> kind])
  BY DEF MakeCall
<1> QED
  BY <1>1, <1>2, CallsAssumption DEF TypeOK, Made, Call

LEMMA CallStep ==
  ASSUME TypeOK, ThreadInv, CallInv, QueueInv, PostedInv, SignaledInv, [Next]_vars
  PROVE  CallInv'
<1>1. CASE /\ UNCHANGED <<calls, accepted, executed, told>>
           /\ logic' # "blocked" => waitsFor' = NoCall
           /\ logic' = "blocked" => logic = "blocked" /\ waitsFor' = waitsFor
           /\ handling' = NoCall \/ handling' = handling
  BY <1>1 DEF CallInv, Made, KindOf
<1>2. CASE StartApp \/ ReturnFromApp \/ UnInit
  BY <1>1, <1>2 DEF StartApp, ReturnFromApp, UnInit, callVars, history, CallInv
<1>3. CASE QueryReturns
  <2>1. waitsFor \in executed /\ waitsFor \in Call
    BY <1>3 DEF QueryReturns, SignaledInv, TypeOK
  <2> QED
    BY <1>3, <2>1 DEF QueryReturns, CallInv, TypeOK, Made
<1>4. CASE RunHandler
  <2> DEFINE k == Head(posted)
  <2>1. k \in executed /\ k \in Call
    BY <1>4 DEF RunHandler, PostedInv, TypeOK
  <2>2. /\ told' = [told EXCEPT ![k] = told'[k]] /\ told'[k] # "none"
        /\ handling' \in {k, handling}
        /\ logic' = "app" /\ logic # "blocked"
        /\ UNCHANGED <<calls, accepted, executed, waitsFor>>
    BY <1>4, <2>1 DEF RunHandler, TypeOK
  <2> HIDE DEF k
  <2> QED
    BY <2>1, <2>2 DEF CallInv, TypeOK, Made
<1>5. ASSUME NEW c \in Connection, NEW kind \in Kind, MakeCall(c, kind)
      PROVE  CallInv'
  <2> DEFINE k == Len(calls) + 1
  <2>1. /\ k \in Call /\ k \notin Made /\ Made' = Made \cup {k}
        /\ calls'[k] = [conn |-> c, kind |-> kind]
        /\ \A j \in Made : calls'[j] = calls[j]
    BY <1>5, NewCall
  <2>2. /\ accepted' \subseteq accepted \cup {k} /\ accepted \subseteq accepted'
        /\ UNCHANGED <<executed, told, handling>>
        /\ logic = "app"
        /\ \/ kind = "blocking" /\ logic' = "blocked" /\ waitsFor' = k
           \/ logic' = "app" /\ waitsFor' = waitsFor
    BY <1>5 DEF MakeCall, AsyncProcess
  <2>3. told[k] = "none"
    BY <2>1 DEF CallInv, TypeOK
  <2> HIDE DEF k
  <2> QED
    BY <2>1, <2>2, <2>3 DEF CallInv, KindOf
<1>6. ASSUME NEW c \in Connection, New(c) \/ UnInitWait(c) \/ UnInitClear(c)
      PROVE  CallInv'
  BY <1>1, <1>6 DEF New, UnInitWait, UnInitClear, callVars, logicVars, history, CallInv
<1>7. ASSUME NEW c \in Connection, FetchTask(c) \/ WakeUp(c) \/ Leave(c) \/ PostAnswer(c)
      PROVE  CallInv'
  BY <1>1, <1>7 DEF FetchTask, WakeUp, Leave, PostAnswer, callVars, logicVars, history, CallInv
<1>8. ASSUME NEW c \in Connection, Execute(c)
      PROVE  CallInv'
  <2>1. busy[c] \in accepted
    BY <1>8 DEF Execute, QueueInv, ThreadInv
  <2> QED
    BY <1>8, <2>1 DEF Execute, CallInv, logicVars, Made, KindOf
<1>9. CASE UNCHANGED vars
  BY <1>1, <1>9 DEF vars, callVars, logicVars, history, CallInv
<1> QED
  BY <1>2, <1>3, <1>4, <1>5, <1>6, <1>7, <1>8, <1>9 DEF Next, Work

\* A thread that looks for a task has none, and takes the first one or none.
LEMMA ThreadLooks ==
  ASSUME TypeOK, ThreadInv, NEW c \in Connection, FetchTask(c) \/ WakeUp(c)
  PROVE  /\ UNCHANGED <<work_service, callVars, logicVars, history>>
         /\ busy[c] = NoCall
         /\ \/ /\ UNCHANGED <<tasks, busy>>
               /\ \A d \in Connection : worker'[d] \in {"running", "post"} =>
                                          worker'[d] = worker[d]
            \/ /\ tasks[c] # <<>>
               /\ tasks' = [tasks EXCEPT ![c] = Tail(@)]
               /\ busy' = [busy EXCEPT ![c] = Head(tasks[c])]
               /\ worker' = [worker EXCEPT ![c] = "running"]
<1>1. UNCHANGED <<work_service, callVars, logicVars, history>>
  BY DEF FetchTask, WakeUp
<1>2. worker[c] \in {"fetch", "waiting"}
  BY DEF FetchTask, WakeUp
<1>3. busy[c] = NoCall
  BY <1>2 DEF ThreadInv
<1>4. \/ TakeTask(c) /\ tasks[c] # <<>>
      \/ UNCHANGED <<tasks, busy>> /\ worker' = [worker EXCEPT ![c] = "leaving"]
      \/ UNCHANGED <<tasks, busy>> /\ worker' = [worker EXCEPT ![c] = "waiting"]
  BY DEF FetchTask, WakeUp
<1> QED
  BY <1>1, <1>3, <1>4 DEF TakeTask, TypeOK

\* The head of a pool's tasks and what is behind it.
LEMMA HeadAndTail ==
  ASSUME TypeOK, NEW c \in Connection, tasks[c] # <<>>
  PROVE  /\ Head(tasks[c]) = tasks[c][1] /\ Head(tasks[c]) \in Call
         /\ Len(tasks[c]) \in Nat /\ Len(tasks[c]) >= 1
         /\ Len(Tail(tasks[c])) = Len(tasks[c]) - 1
         /\ \A i \in 1 .. Len(tasks[c]) - 1 : Tail(tasks[c])[i] = tasks[c][i + 1]
  BY DEF TypeOK

LEMMA QueueStep ==
  ASSUME TypeOK, ThreadInv, CallInv, QueueInv, [Next]_vars
  PROVE  QueueInv'
<1>1. CASE /\ UNCHANGED <<tasks, busy, calls, accepted, executed>>
           /\ \A d \in Connection : worker'[d] \in {"running", "post"} =>
                                      worker'[d] = worker[d]
  BY <1>1 DEF QueueInv, ConnOf
<1>2. CASE StartApp \/ ReturnFromApp \/ QueryReturns \/ RunHandler \/ UnInit
  BY <1>1, <1>2 DEF StartApp, ReturnFromApp, QueryReturns, RunHandler, UnInit, poolVars, callVars,
                    history
<1>3. ASSUME NEW c \in Connection, New(c)
      PROVE  QueueInv'
  BY <1>1, <1>3 DEF New, callVars, history, TypeOK
<1>4. ASSUME NEW c \in Connection, NEW kind \in Kind, MakeCall(c, kind)
      PROVE  QueueInv'
  <2> DEFINE k == Len(calls) + 1
  <2>1. /\ k \in Call /\ k \notin Made
        /\ calls'[k] = [conn |-> c, kind |-> kind]
        /\ \A j \in Made : j < k /\ calls'[j] = calls[j]
    BY <1>4, NewCall
  <2>2. UNCHANGED <<worker, busy, executed>> /\ AsyncProcess(c, k)
    BY <1>4 DEF MakeCall
  <2> HIDE DEF k
  <2>3. accepted \subseteq Made /\ executed \subseteq accepted
    BY DEF CallInv
  <2>4. CASE UNCHANGED <<tasks, accepted>>
    BY <2>1, <2>2, <2>3, <2>4 DEF QueueInv, ConnOf
  <2>5. CASE /\ tasks' = [tasks EXCEPT ![c] = Append(@, k)]
             /\ accepted' = accepted \cup {k}
    <3>1. \A d \in Connection : d # c => tasks'[d] = tasks[d]
      BY <2>5 DEF TypeOK
    <3>2. /\ Len(tasks'[c]) = Len(tasks[c]) + 1 /\ Len(tasks[c]) \in Nat
          /\ tasks'[c][Len(tasks[c]) + 1] = k
          /\ \A i \in 1 .. Len(tasks[c]) : tasks'[c][i] = tasks[c][i]
      BY <2>1, <2>5 DEF TypeOK
    <3>3. \A d \in Connection : busy[d] # NoCall => busy[d] \in Made
      BY <2>3 DEF QueueInv
    <3>4. busy[c] < k
      BY <2>1, <3>3 DEF NoCall, Call
    <3>5. \A i \in 1 .. Len(tasks[c]) : tasks[c][i] < k
      BY <2>1, <2>3 DEF QueueInv
    <3>6. \A i \in 1 .. Len(tasks'[c]) :
             /\ tasks'[c][i] \in accepted' \ executed' /\ calls'[tasks'[c][i]].conn = c
             /\ \A j \in 1 .. Len(tasks'[c]) : i < j => tasks'[c][i] < tasks'[c][j]
             /\ busy'[c] < tasks'[c][i]
      <4> SUFFICES ASSUME NEW i \in 1 .. Len(tasks'[c])
                   PROVE  /\ tasks'[c][i] \in accepted' \ executed' /\ calls'[tasks'[c][i]].conn = c
                          /\ \A j \in 1 .. Len(tasks'[c]) : i < j => tasks'[c][i] < tasks'[c][j]
                          /\ busy'[c] < tasks'[c][i]
        OBVIOUS
      <4>1. CASE i = Len(tasks[c]) + 1
        <5>1. tasks'[c][i] = k /\ k \in accepted' \ executed' /\ calls'[k].conn = c
          BY <2>1, <2>2, <2>3, <2>5, <3>2, <4>1
        <5>2. \A j \in 1 .. Len(tasks'[c]) : ~(i < j)
          BY <3>2, <4>1
        <5> QED
          BY <2>2, <3>4, <5>1, <5>2
      <4>2. CASE i \in 1 .. Len(tasks[c])
        <5>1. /\ tasks[c][i] \in accepted \ executed /\ ConnOf(tasks[c][i]) = c
              /\ \A j \in 1 .. Len(tasks[c]) : i < j => tasks[c][i] < tasks[c][j]
              /\ busy[c] < tasks[c][i]
          BY <4>2 DEF QueueInv
        <5>2. tasks'[c][i] = tasks[c][i] /\ calls'[tasks[c][i]].conn = c
          BY <2>1, <2>3, <3>2, <4>2, <5>1 DEF ConnOf
        <5>3. \A j \in 1 .. Len(tasks'[c]) : i < j => tasks'[c][i] < tasks'[c][j]
          BY <3>2, <3>5, <4>2, <5>1, <5>2
        <5>4. tasks'[c][i] \in accepted' \ executed' /\ busy'[c] < tasks'[c][i]
          BY <2>2, <2>5, <5>1, <5>2
        <5> QED
          BY <5>2, <5>3, <5>4
      <4> QED
        BY <3>2, <4>1, <4>2
    <3>7. \A d \in Connection :
             /\ busy'[d] # NoCall => busy'[d] \in accepted' /\ calls'[busy'[d]].conn = d
             /\ worker'[d] = "running" => busy'[d] \notin executed'
             /\ worker'[d] = "post" => busy'[d] \in executed'
      <4> TAKE d \in Connection
      <4>1. busy'[d] = busy[d] /\ worker'[d] = worker[d]
        BY <2>2
      <4>2. busy[d] # NoCall => calls'[busy[d]] = calls[busy[d]]
        BY <2>1, <3>3
      <4> QED
        BY <2>2, <2>5, <4>1, <4>2 DEF QueueInv, ConnOf
    <3>8. \A d \in Connection \ {c} : \A i \in 1 .. Len(tasks'[d]) :
             /\ tasks'[d][i] \in accepted' \ executed' /\ calls'[tasks'[d][i]].conn = d
             /\ \A j \in 1 .. Len(tasks'[d]) : i < j => tasks'[d][i] < tasks'[d][j]
             /\ busy'[d] < tasks'[d][i]
      <4> TAKE d \in Connection \ {c}
      <4> TAKE i \in 1 .. Len(tasks'[d])
      <4>1. tasks'[d] = tasks[d] /\ busy'[d] = busy[d]
        BY <2>2, <3>1
      <4>2. /\ tasks[d][i] \in accepted \ executed /\ ConnOf(tasks[d][i]) = d
            /\ \A j \in 1 .. Len(tasks[d]) : i < j => tasks[d][i] < tasks[d][j]
            /\ busy[d] < tasks[d][i]
        BY <4>1 DEF QueueInv
      <4>3. calls'[tasks[d][i]].conn = d
        BY <2>1, <2>3, <4>2 DEF ConnOf
      <4> QED
        BY <2>2, <2>5, <4>1, <4>2, <4>3
    <3> QED
      BY <3>6, <3>7, <3>8 DEF QueueInv, ConnOf
  <2> QED
    BY <2>2, <2>4, <2>5 DEF AsyncProcess
<1>5. ASSUME NEW c \in Connection, UnInitWait(c) \/ UnInitClear(c)
      PROVE  QueueInv'
  BY <1>1, <1>5 DEF UnInitWait, UnInitClear, poolVars, callVars, history
<1>6. ASSUME NEW c \in Connection, FetchTask(c) \/ WakeUp(c)
      PROVE  QueueInv'
  <2>1. UNCHANGED <<calls, accepted, executed>>
    BY <1>6, ThreadLooks DEF callVars, history
  <2>2. CASE /\ UNCHANGED <<tasks, busy>>
             /\ \A d \in Connection : worker'[d] \in {"running", "post"} =>
                                        worker'[d] = worker[d]
    BY <1>1, <2>1, <2>2
  <2>3. CASE /\ tasks[c] # <<>>
             /\ tasks' = [tasks EXCEPT ![c] = Tail(@)]
             /\ busy' = [busy EXCEPT ![c] = Head(tasks[c])]
             /\ worker' = [worker EXCEPT ![c] = "running"]
    <3>1. \A d \in Connection \ {c} :
            tasks'[d] = tasks[d] /\ busy'[d] = busy[d] /\ worker'[d] = worker[d]
      BY <2>3 DEF TypeOK
    <3>2. /\ tasks'[c] = Tail(tasks[c]) /\ busy'[c] = tasks[c][1] /\ worker'[c] = "running"
          /\ tasks[c][1] \in accepted \ executed /\ ConnOf(tasks[c][1]) = c
      BY <2>3, HeadAndTail DEF TypeOK, QueueInv
    <3>3. \A i \in 1 .. Len(tasks'[c]) :
            /\ i + 1 \in 1 .. Len(tasks[c]) /\ tasks'[c][i] = tasks[c][i + 1]
            /\ tasks[c][1] < tasks[c][i + 1]
      <4> TAKE i \in 1 .. Len(tasks'[c])
      <4>1. i + 1 \in 1 .. Len(tasks[c]) /\ tasks'[c][i] = tasks[c][i + 1]
        <5>1. /\ Len(tasks[c]) \in Nat /\ Len(Tail(tasks[c])) = Len(tasks[c]) - 1
              /\ \A j \in 1 .. Len(tasks[c]) - 1 : Tail(tasks[c])[j] = tasks[c][j + 1]
          BY <2>3, HeadAndTail
        <5>2. i \in 1 .. Len(tasks[c]) - 1
          BY <3>2, <5>1
        <5> QED
          BY <3>2, <5>1, <5>2
      <4>2. 1 \in 1 .. Len(tasks[c]) /\ 1 < i + 1
        BY <2>3, HeadAndTail, <4>1
      <4> QED
        BY <4>1, <4>2 DEF QueueInv
    <3>4. \A i \in 1 .. Len(tasks'[c]) :
             /\ tasks'[c][i] \in accepted \ executed /\ ConnOf(tasks'[c][i]) = c
             /\ \A j \in 1 .. Len(tasks'[c]) : i < j => tasks'[c][i] < tasks'[c][j]
             /\ busy'[c] < tasks'[c][i]
      <4> TAKE i \in 1 .. Len(tasks'[c])
      <4>1. i + 1 \in 1 .. Len(tasks[c]) /\ tasks'[c][i] = tasks[c][i + 1]
        BY <3>3
      <4>2. tasks'[c][i] \in accepted \ executed /\ ConnOf(tasks'[c][i]) = c
        BY <4>1 DEF QueueInv
      <4>3. ASSUME NEW j \in 1 .. Len(tasks'[c]), i < j
            PROVE  tasks'[c][i] < tasks'[c][j]
        <5>1. /\ j + 1 \in 1 .. Len(tasks[c]) /\ tasks'[c][j] = tasks[c][j + 1]
              /\ i + 1 < j + 1
          BY <3>3, <4>3
        <5> QED
          BY <4>1, <5>1 DEF QueueInv
      <4> QED
        BY <3>2, <3>3, <4>1, <4>2, <4>3
    <3>5. ASSUME NEW d \in Connection \ {c}
          PROVE  /\ \A i \in 1 .. Len(tasks'[d]) :
                      /\ tasks'[d][i] \in accepted \ executed /\ ConnOf(tasks'[d][i]) = d
                      /\ \A j \in 1 .. Len(tasks'[d]) : i < j => tasks'[d][i] < tasks'[d][j]
                      /\ busy'[d] < tasks'[d][i]
                 /\ busy'[d] # NoCall => busy'[d] \in accepted /\ ConnOf(busy'[d]) = d
                 /\ worker'[d] = "running" => busy'[d] \notin executed
                 /\ worker'[d] = "post" => busy'[d] \in executed
      BY <3>1, <3>5 DEF QueueInv
    <3> QED
      BY <2>1, <3>2, <3>4, <3>5 DEF QueueInv, ConnOf
  <2> QED
    BY <1>6, <2>2, <2>3, ThreadLooks
<1>7. ASSUME NEW c \in Connection, Leave(c)
      PROVE  QueueInv'
  BY <1>1, <1>7 DEF Leave, callVars, history, TypeOK
<1>8. ASSUME NEW c \in Connection, Execute(c)
      PROVE  QueueInv'
  <2>1. /\ UNCHANGED <<tasks, busy, calls, accepted>>
        /\ executed' = executed \cup {busy[c]}
        /\ worker' = [worker EXCEPT ![c] = "post"]
        /\ worker[c] = "running" /\ busy[c] # NoCall /\ busy[c] \in Nat
    BY <1>8, CallsAre DEF Execute, ThreadInv, TypeOK, Call, NoCall
  <2>2. ConnOf(busy[c]) = c
    BY <2>1 DEF QueueInv
  <2>3. ASSUME NEW d \in Connection, NEW i \in 1 .. Len(tasks[d])
        PROVE  tasks[d][i] # busy[c]
    <3>1. busy[d] < tasks[d][i] /\ ConnOf(tasks[d][i]) = d
      BY DEF QueueInv
    <3> QED
      BY <2>1, <2>2, <3>1
  <2>4. \A d \in Connection : busy[d] = busy[c] => d = c
    BY <2>1, <2>2 DEF QueueInv
  <2>5. \A d \in Connection : worker'[d] = "running" => worker[d] = "running" /\ d # c
    BY <2>1 DEF TypeOK
  <2>6. \A d \in Connection : worker'[d] = "post" => worker[d] = "post" \/ d = c
    BY <2>1 DEF TypeOK
  <2> QED
    BY <2>1, <2>3, <2>4, <2>5, <2>6 DEF QueueInv, ConnOf
<1>9. ASSUME NEW c \in Connection, PostAnswer(c)
      PROVE  QueueInv'
  <2>1. /\ UNCHANGED <<tasks, calls, accepted, executed>>
        /\ busy' = [busy EXCEPT ![c] = NoCall]
        /\ worker' = [worker EXCEPT ![c] = "fetch"]
    BY <1>9 DEF PostAnswer, history
  <2>2. /\ busy'[c] = NoCall /\ worker'[c] = "fetch"
        /\ \A d \in Connection \ {c} : busy'[d] = busy[d] /\ worker'[d] = worker[d]
    BY <2>1 DEF TypeOK
  <2>3. tasks[c] \in Seq(Call)
    BY DEF TypeOK
  <2>4. \A i \in 1 .. Len(tasks[c]) : NoCall < tasks[c][i]
    BY <2>3, CallsAre DEF Call, NoCall
  <2> QED
    BY <2>1, <2>2, <2>4 DEF QueueInv, ConnOf
<1>10. CASE UNCHANGED vars
  BY <1>1, <1>10 DEF vars, poolVars, callVars, history
<1> QED
  BY <1>2, <1>3, <1>4, <1>5, <1>6, <1>7, <1>8, <1>9, <1>10 DEF Next, Work

LEMMA AppendIs ==
  ASSUME NEW s \in Seq(Call), NEW k \in Call
  PROVE  LET t == Append(s, k)
         IN  /\ Len(s) \in Nat /\ Len(t) = Len(s) + 1 /\ t[Len(s) + 1] = k
             /\ \A i \in 1 .. Len(s) : t[i] = s[i]
             /\ \A i \in 1 .. Len(t) : i \in 1 .. Len(s) \/ i = Len(s) + 1
             /\ \A j : In(j, t) <=> In(j, s) \/ j = k
<1> DEFINE t == Append(s, k)
<1>1. /\ Len(s) \in Nat /\ Len(t) = Len(s) + 1 /\ t[Len(s) + 1] = k
      /\ \A i \in 1 .. Len(s) : t[i] = s[i]
  OBVIOUS
<1> HIDE DEF t
<1>2. \A i \in 1 .. Len(t) : i \in 1 .. Len(s) \/ i = Len(s) + 1
  BY <1>1
<1>3. \A i \in 1 .. Len(s) : i \in 1 .. Len(t)
  BY <1>1
<1>4. Len(s) + 1 \in 1 .. Len(t)
  BY <1>1
<1>5. ASSUME NEW j PROVE In(j, t) <=> In(j, s) \/ j = k
  BY <1>1, <1>2, <1>3, <1>4 DEF In
<1> QED
  BY <1>1, <1>2, <1>5 DEF t

LEMMA TailIs ==
  ASSUME NEW s \in Seq(Call), s # <<>>
  PROVE  /\ Head(s) = s[1] /\ 1 \in 1 .. Len(s)
         /\ \A i \in 1 .. Len(Tail(s)) :
              /\ i + 1 \in 1 .. Len(s) /\ 1 < i + 1
              /\ Tail(s)[i] = s[i + 1]
         /\ \A i, j \in 1 .. Len(Tail(s)) : i < j => i + 1 < j + 1
         /\ \A j : In(j, s) <=> j = s[1] \/ In(j, Tail(s))
<1>1. Head(s) = s[1] /\ Len(s) \in Nat /\ Len(s) >= 1 /\ Len(Tail(s)) = Len(s) - 1
  OBVIOUS
<1>2. \A i \in 1 .. Len(s) - 1 : Tail(s)[i] = s[i + 1]
  OBVIOUS
<1>3. ASSUME NEW i \in 1 .. Len(Tail(s))
      PROVE  i + 1 \in 1 .. Len(s) /\ 1 < i + 1 /\ Tail(s)[i] = s[i + 1]
  BY <1>1, <1>2
<1>4. ASSUME NEW j PROVE In(j, s) <=> j = s[1] \/ In(j, Tail(s))
  <2>1. ASSUME NEW i \in 1 .. Len(s), s[i] = j PROVE j = s[1] \/ In(j, Tail(s))
    <3>1. CASE i = 1
      BY <2>1, <3>1
    <3>2. CASE i # 1
      <4>1. i - 1 \in 1 .. Len(Tail(s)) /\ Tail(s)[i - 1] = s[i]
        BY <1>1, <1>2, <3>2
      <4> QED
        BY <2>1, <4>1 DEF In
    <3> QED
      BY <3>1, <3>2
  <2>2. 1 \in 1 .. Len(s)
    BY <1>1
  <2> QED
    BY <1>3, <2>1, <2>2 DEF In
<1>5. \A i, j \in 1 .. Len(Tail(s)) : i < j => i + 1 < j + 1
  BY <1>1
<1>6. 1 \in 1 .. Len(s)
  BY <1>1
<1> QED
  BY <1>1, <1>3, <1>4, <1>5, <1>6

LEMMA CallIs ==
  ASSUME TypeOK, NEW k \in Made
  PROVE  ConnOf(k) \in Connection /\ KindOf(k) \in Kind /\ k \in Call /\ k # NoCall
<1> DEFINE R == [conn : Connection, kind : Kind]
<1>0. calls \in Seq(R)
  BY DEF TypeOK
<1> HIDE DEF R
<1>1. calls[k] \in R
  BY <1>0 DEF Made
<1>2. Len(calls) \in Nat /\ Len(calls) <= MaxCall
  BY <1>0 DEF TypeOK
<1> QED
  BY <1>1, <1>2, CallsAssumption DEF R, ConnOf, KindOf, Made, Call, NoCall

\* A call is accepted behind the others, or turned away.
LEMMA Accepts ==
  ASSUME TypeOK, CallInv, NEW c \in Connection, NEW kind \in Kind, MakeCall(c, kind)
  PROVE  LET k == Len(calls) + 1
         IN  /\ UNCHANGED <<worker, busy, executed, posted, signaled, told>>
             /\ accepted \subseteq Made /\ executed \subseteq accepted
             /\ \/ UNCHANGED <<tasks, accepted>>
                \/ /\ tasks' = [tasks EXCEPT ![c] = Append(@, k)]
                   /\ accepted' = accepted \cup {k}
  BY DEF MakeCall, AsyncProcess, CallInv

LEMMA OrderStep ==
  ASSUME TypeOK, ThreadInv, CallInv, QueueInv, OrderInv, [Next]_vars
  PROVE  OrderInv'
<1>1. CASE UNCHANGED <<tasks, busy, calls, accepted, executed>>
  BY <1>1 DEF OrderInv, ConnOf, In
<1>2. CASE StartApp \/ ReturnFromApp \/ QueryReturns \/ RunHandler \/ UnInit
  BY <1>1, <1>2 DEF StartApp, ReturnFromApp, QueryReturns, RunHandler, UnInit, poolVars, callVars,
                    history
<1>3. ASSUME NEW c \in Connection, New(c) \/ UnInitWait(c) \/ UnInitClear(c) \/ Leave(c)
      PROVE  OrderInv'
  BY <1>1, <1>3 DEF New, UnInitWait, UnInitClear, Leave, poolVars, callVars, history
<1>4. ASSUME NEW c \in Connection, NEW kind \in Kind, MakeCall(c, kind)
      PROVE  OrderInv'
  <2> DEFINE k == Len(calls) + 1
  <2>1. /\ k \in Call /\ k \notin Made
        /\ calls'[k] = [conn |-> c, kind |-> kind]
        /\ \A j \in Made : j < k /\ j \in Call /\ calls'[j] = calls[j]
    BY <1>4, NewCall
  <2>2. /\ UNCHANGED <<busy, executed>>
        /\ accepted \subseteq Made /\ executed \subseteq accepted
        /\ \/ UNCHANGED <<tasks, accepted>>
           \/ /\ tasks' = [tasks EXCEPT ![c] = Append(@, k)]
              /\ accepted' = accepted \cup {k}
    BY <1>4, Accepts
  <2> HIDE DEF k
  <2>3. CASE UNCHANGED <<tasks, accepted>>
    BY <2>1, <2>2, <2>3 DEF OrderInv, ConnOf, In
  <2>4. CASE /\ tasks' = [tasks EXCEPT ![c] = Append(@, k)]
             /\ accepted' = accepted \cup {k}
    <3>1. /\ \A d \in Connection \ {c} : tasks'[d] = tasks[d]
          /\ tasks'[c] = Append(tasks[c], k) /\ tasks[c] \in Seq(Call)
      BY <2>4 DEF TypeOK
    <3>2. \A j : In(j, tasks[c]) \/ j = k => In(j, tasks'[c])
      BY <2>1, <3>1, AppendIs
    <3>3. \A i \in 1 .. Len(tasks'[c]) :
            \/ i \in 1 .. Len(tasks[c]) /\ tasks'[c][i] = tasks[c][i]
            \/ tasks'[c][i] = k
      BY <2>1, <3>1, AppendIs
    <3>4. ASSUME NEW j \in accepted
          PROVE  LET d == calls'[j].conn
                 IN  IF j \in executed
                     THEN /\ \A i \in 1 .. Len(tasks'[d]) : j < tasks'[d][i]
                          /\ busy'[d] # NoCall => j <= busy'[d]
                     ELSE In(j, tasks'[d]) \/ busy'[d] = j
      <4>1. j < k /\ calls'[j].conn = ConnOf(j) /\ ConnOf(j) \in Connection
        BY <2>1, <2>2, CallIs DEF ConnOf
      <4>2. LET d == ConnOf(j)
            IN  IF j \in executed
                THEN /\ \A i \in 1 .. Len(tasks[d]) : j < tasks[d][i]
                     /\ busy[d] # NoCall => j <= busy[d]
                ELSE In(j, tasks[d]) \/ busy[d] = j
        BY DEF OrderInv
      <4>3. CASE ConnOf(j) = c
        BY <2>2, <3>2, <3>3, <4>1, <4>2, <4>3
      <4>4. CASE ConnOf(j) # c
        BY <2>2, <3>1, <4>1, <4>2, <4>4
      <4> QED
        BY <4>3, <4>4
    <3>5. k \notin executed /\ In(k, tasks'[c])
      BY <2>1, <2>2, <3>2
    <3> QED
      BY <2>1, <2>2, <2>4, <3>4, <3>5 DEF OrderInv, ConnOf, In
  <2> QED
    BY <2>2, <2>3, <2>4
<1>5. ASSUME NEW c \in Connection, FetchTask(c) \/ WakeUp(c)
      PROVE  OrderInv'
  <2>1. UNCHANGED <<calls, accepted, executed>> /\ busy[c] = NoCall
    BY <1>5, ThreadLooks DEF callVars, history
  <2>2. CASE /\ tasks[c] # <<>>
             /\ tasks' = [tasks EXCEPT ![c] = Tail(@)]
             /\ busy' = [busy EXCEPT ![c] = Head(tasks[c])]
    <3>1. /\ \A d \in Connection \ {c} : tasks'[d] = tasks[d] /\ busy'[d] = busy[d]
          /\ tasks[c] \in Seq(Call)
          /\ tasks'[c] = Tail(tasks[c]) /\ busy'[c] = Head(tasks[c])
      BY <2>2 DEF TypeOK
    <3>2. /\ busy'[c] = tasks[c][1] /\ 1 \in 1 .. Len(tasks[c])
          /\ \A i \in 1 .. Len(tasks'[c]) :
               i + 1 \in 1 .. Len(tasks[c]) /\ tasks'[c][i] = tasks[c][i + 1]
          /\ \A j : In(j, tasks[c]) => j = busy'[c] \/ In(j, tasks'[c])
      <4> DEFINE s == tasks[c]
      <4>1. s \in Seq(Call) /\ s # <<>> /\ tasks'[c] = Tail(s) /\ busy'[c] = Head(s)
        BY <2>2, <3>1
      <4> HIDE DEF s
      <4>2. /\ Head(s) = s[1] /\ 1 \in 1 .. Len(s)
            /\ \A i \in 1 .. Len(Tail(s)) : i + 1 \in 1 .. Len(s) /\ Tail(s)[i] = s[i + 1]
            /\ \A j : In(j, s) <=> j = s[1] \/ In(j, Tail(s))
        BY <4>1, TailIs
      <4>3. /\ busy'[c] = s[1] /\ 1 \in 1 .. Len(s)
            /\ \A i \in 1 .. Len(tasks'[c]) :
                 i + 1 \in 1 .. Len(s) /\ tasks'[c][i] = s[i + 1]
            /\ \A j : In(j, s) => j = busy'[c] \/ In(j, tasks'[c])
        BY <4>1, <4>2
      <4> QED
        BY <4>3 DEF s
    <3>3. ASSUME NEW j \in accepted
          PROVE  LET d == ConnOf(j)
                 IN  IF j \in executed
                     THEN /\ \A i \in 1 .. Len(tasks'[d]) : j < tasks'[d][i]
                          /\ busy'[d] # NoCall => j <= busy'[d]
                     ELSE In(j, tasks'[d]) \/ busy'[d] = j
      <4>1. LET d == ConnOf(j)
            IN  IF j \in executed
                THEN /\ \A i \in 1 .. Len(tasks[d]) : j < tasks[d][i]
                     /\ busy[d] # NoCall => j <= busy[d]
                ELSE In(j, tasks[d]) \/ busy[d] = j
        BY DEF OrderInv
      <4>2. j # NoCall /\ ConnOf(j) \in Connection
        BY CallIs DEF CallInv
      <4>3. CASE ConnOf(j) = c /\ j \in executed
        <5>1. \A i \in 1 .. Len(tasks'[c]) : j < tasks'[c][i]
          BY <3>2, <4>1, <4>3
        <5>2. j < busy'[c] /\ j \in Nat /\ busy'[c] \in Nat
          BY <3>2, <4>1, <4>3, <3>1, CallsAssumption DEF TypeOK, Call
        <5> QED
          BY <4>3, <5>1, <5>2
      <4>4. CASE ConnOf(j) = c /\ j \notin executed
        BY <2>1, <3>2, <4>1, <4>2, <4>4
      <4>5. CASE ConnOf(j) # c
        BY <3>1, <4>1, <4>2, <4>5
      <4> QED
        BY <4>3, <4>4, <4>5
    <3> QED
      BY <2>1, <3>3 DEF OrderInv, ConnOf, In
  <2> QED
    BY <1>1, <1>5, <2>1, <2>2, ThreadLooks
<1>6. ASSUME NEW c \in Connection, Execute(c)
      PROVE  OrderInv'
  <2>1. /\ UNCHANGED <<tasks, busy, calls, accepted>>
        /\ executed' = executed \cup {busy[c]}
        /\ busy[c] # NoCall /\ busy[c] \in Nat
    BY <1>6, CallsAre DEF Execute, ThreadInv, TypeOK, Call, NoCall
  <2>2. ConnOf(busy[c]) = c /\ \A i \in 1 .. Len(tasks[c]) : busy[c] < tasks[c][i]
    BY <2>1 DEF QueueInv
  <2> QED
    BY <2>1, <2>2 DEF OrderInv, ConnOf, In
<1>7. ASSUME NEW c \in Connection, PostAnswer(c)
      PROVE  OrderInv'
  <2>1. /\ UNCHANGED <<tasks, calls, accepted, executed>>
        /\ busy' = [busy EXCEPT ![c] = NoCall]
        /\ busy[c] \in executed
    BY <1>7 DEF PostAnswer, history, QueueInv
  <2>2. busy'[c] = NoCall /\ \A d \in Connection \ {c} : busy'[d] = busy[d]
    BY <2>1 DEF TypeOK
  <2>3. \A j \in accepted : ConnOf(j) \in Connection
    BY CallIs DEF CallInv
  <2> QED
    BY <2>1, <2>2, <2>3 DEF OrderInv, ConnOf, In
<1>8. CASE UNCHANGED vars
  BY <1>1, <1>8 DEF vars, poolVars, callVars, history
<1> QED
  BY <1>2, <1>3, <1>4, <1>5, <1>6, <1>7, <1>8 DEF Next, Work

-----------------------------------------------------------------------------
(* The answers.                                                            *)

answerVars == <<work_service, calls, bSuccess, posted, signaled, busy, accepted, executed, outcome,
                told>>

\* The steps that the answers are not touched by.
Quiet == \/ StartApp \/ ReturnFromApp \/ UnInit \/ UNCHANGED vars
         \/ \E c \in Connection : New(c) \/ UnInitWait(c) \/ UnInitClear(c) \/ Leave(c)

LEMMA QuietIs == Quiet => UNCHANGED answerVars
  BY DEF Quiet, answerVars, vars, poolVars, callVars, logicVars, history, StartApp, ReturnFromApp,
         UnInit, New, UnInitWait, UnInitClear, Leave

LEMMA StepsAre ==
  ASSUME [Next]_vars
  PROVE  \/ Quiet \/ QueryReturns \/ RunHandler
         \/ \E c \in Connection : \/ \E kind \in Kind : MakeCall(c, kind)
                                  \/ FetchTask(c) \/ WakeUp(c) \/ Execute(c) \/ PostAnswer(c)
  BY DEF Next, Work, Quiet

\* A call made now changes nothing about those that were executed.
LEMMA MakeCallKeeps ==
  ASSUME TypeOK, CallInv, NEW c \in Connection, NEW kind \in Kind, MakeCall(c, kind)
  PROVE  /\ UNCHANGED <<work_service, bSuccess, posted, signaled, busy, executed, outcome, told>>
         /\ \A k \in executed : k \in Made /\ k \in Call /\ calls'[k] = calls[k]
<1>1. UNCHANGED <<work_service, bSuccess, posted, signaled, busy, executed, outcome, told>>
  BY DEF MakeCall
<1>2. \A k \in Made : k \in Call /\ calls'[k] = calls[k]
  BY NewCall
<1> QED
  BY <1>1, <1>2 DEF CallInv

\* A thread that looks for a task finds one that has not been executed, or none.
LEMMA LooksKeeps ==
  ASSUME TypeOK, ThreadInv, CallInv, QueueInv, NEW c \in Connection, FetchTask(c) \/ WakeUp(c)
  PROVE  /\ UNCHANGED <<work_service, calls, event, bSuccess, posted, signaled, executed, outcome,
                        told>>
         /\ \A d \in Connection : \/ busy'[d] = busy[d]
                                  \/ busy[d] = NoCall /\ busy'[d] \notin executed
<1>1. /\ UNCHANGED <<work_service, calls, event, bSuccess, posted, signaled, executed, outcome,
                     told>>
      /\ busy[c] = NoCall
  BY ThreadLooks DEF callVars, history
<1>2. CASE UNCHANGED busy
  BY <1>1, <1>2
<1>3. CASE tasks[c] # <<>> /\ busy' = [busy EXCEPT ![c] = Head(tasks[c])]
  <2>1. Head(tasks[c]) = tasks[c][1] /\ 1 \in 1 .. Len(tasks[c])
    BY <1>3, HeadAndTail
  <2>2. Head(tasks[c]) \notin executed
    BY <2>1 DEF QueueInv
  <2> QED
    BY <1>1, <1>3, <2>2 DEF TypeOK
<1> QED
  BY <1>1, <1>2, <1>3, ThreadLooks

\* What the pool's thread answers has been executed and its caller not been told.
LEMMA PostAnswerIs ==
  ASSUME TypeOK, ThreadInv, CallInv, QueueInv, AnswerInv, NEW c \in Connection, PostAnswer(c)
  PROVE  LET k == busy[c]
         IN  /\ k \in Call /\ k # NoCall /\ k \in executed /\ told[k] = "none" /\ ConnOf(k) = c
             /\ UNCHANGED <<work_service, calls, event, bSuccess, executed, outcome, told>>
             /\ busy'[c] = NoCall /\ \A d \in Connection \ {c} : busy'[d] = busy[d]
             /\ posted' = IF KindOf(k) # "blocking" /\ work_service THEN Append(posted, k)
                                                                    ELSE posted
             /\ signaled' = IF KindOf(k) = "blocking" THEN signaled \cup {k} ELSE signaled
<1>1. /\ worker[c] = "post" /\ busy' = [busy EXCEPT ![c] = NoCall]
      /\ UNCHANGED <<work_service, calls, event, bSuccess, executed, outcome, told>>
  BY DEF PostAnswer, history
<1>2. busy[c] # NoCall /\ busy[c] \in Call
  BY <1>1 DEF ThreadInv, TypeOK
<1>3. busy[c] \in executed /\ ConnOf(busy[c]) = c
  BY <1>1, <1>2 DEF QueueInv
<1>4. told[busy[c]] = "none"
  BY <1>3 DEF AnswerInv
<1>5. busy'[c] = NoCall /\ \A d \in Connection \ {c} : busy'[d] = busy[d]
  BY <1>1 DEF TypeOK
<1>6. LET k == busy[c]
      IN  /\ posted' = IF KindOf(k) # "blocking" /\ work_service THEN Append(posted, k)
                                                                 ELSE posted
          /\ signaled' = IF KindOf(k) = "blocking" THEN signaled \cup {k} ELSE signaled
  BY DEF PostAnswer
<1> QED
  BY <1>1, <1>2, <1>3, <1>4, <1>5, <1>6

\* What Do_Excute executes has not been executed before.
LEMMA ExecuteIs ==
  ASSUME TypeOK, ThreadInv, CallInv, QueueInv, NEW c \in Connection, Execute(c)
  PROVE  LET k == busy[c]
         IN  /\ k \in Call /\ k \in accepted \ executed /\ told[k] = "none" /\ ConnOf(k) = c
             /\ executed' = executed \cup {k}
             /\ UNCHANGED <<work_service, calls, event, posted, signaled, busy, accepted, told>>
<1>1. /\ worker[c] = "running" /\ executed' = executed \cup {busy[c]}
      /\ UNCHANGED <<work_service, calls, event, posted, signaled, busy, accepted, told>>
  BY DEF Execute
<1>2. busy[c] # NoCall /\ busy[c] \in Call
  BY <1>1 DEF ThreadInv, TypeOK
<1>3. busy[c] \in accepted \ executed /\ ConnOf(busy[c]) = c
  BY <1>1, <1>2 DEF QueueInv
<1> QED
  BY <1>1, <1>2, <1>3 DEF CallInv

\* The handler that is run is that of the first answer; its caller is told.
LEMMA HandlerIs ==
  ASSUME TypeOK, CallInv, PostedInv, RunHandler
  PROVE  LET k == posted[1]
         IN  /\ k \in Call /\ k \in executed /\ told[k] = "none" /\ KindOf(k) # "blocking"
             /\ busy[ConnOf(k)] # k /\ work_service
             /\ told'[k] \in {"value", "nil"} /\ \A j \in Call \ {k} : told'[j] = told[j]
             /\ event'[k] \in {"cleared", "freed"} /\ \A j \in Call \ {k} : event'[j] = event[j]
             /\ UNCHANGED <<work_service, calls, bSuccess, signaled, busy, accepted, executed,
                            outcome>>
             /\ 1 \in 1 .. Len(posted) /\ posted' = Tail(posted)
             /\ \A i \in 1 .. Len(posted') :
                  /\ i + 1 \in 1 .. Len(posted) /\ posted'[i] = posted[i + 1]
                  /\ posted'[i] # k
             /\ \A i, j \in 1 .. Len(posted') : i < j => i + 1 < j + 1
             /\ \A j : In(j, posted) => j = k \/ In(j, posted')
<1> DEFINE s == posted
           k == posted[1]
<1>1. s \in Seq(Call) /\ s # <<>> /\ posted' = Tail(s)
  BY DEF RunHandler, TypeOK
<1>2. /\ Head(s) = s[1] /\ 1 \in 1 .. Len(s)
      /\ \A i \in 1 .. Len(Tail(s)) :
           /\ i + 1 \in 1 .. Len(s) /\ 1 < i + 1
           /\ Tail(s)[i] = s[i + 1]
      /\ \A i, j \in 1 .. Len(Tail(s)) : i < j => i + 1 < j + 1
      /\ \A j : In(j, s) <=> j = s[1] \/ In(j, Tail(s))
  <2> HIDE DEF s
  <2> QED
    BY <1>1, TailIs
<1>3. /\ k \in executed /\ told[k] = "none" /\ KindOf(k) # "blocking" /\ work_service
      /\ busy[ConnOf(k)] # k
      /\ \A j \in 1 .. Len(posted) : 1 < j => posted[j] # k
  BY <1>2 DEF PostedInv
<1>4. k \in Call
  BY <1>3 DEF TypeOK
<1>5. /\ told' = [told EXCEPT ![k] = IF KindOf(k) = "command" /\ ~bSuccess[k] THEN "nil"
                                                                            ELSE "value"]
      /\ \/ event' = [event EXCEPT ![k] = "cleared"]
         \/ event' = [event EXCEPT ![k] = "freed"]
      /\ UNCHANGED <<work_service, calls, bSuccess, signaled, busy, accepted, executed, outcome>>
  BY <1>2 DEF RunHandler, poolVars
<1>6. /\ told'[k] \in {"value", "nil"} /\ \A j \in Call \ {k} : told'[j] = told[j]
      /\ event'[k] \in {"cleared", "freed"} /\ \A j \in Call \ {k} : event'[j] = event[j]
  BY <1>4, <1>5 DEF TypeOK
<1> QED
  BY <1>1, <1>2, <1>3, <1>4, <1>5, <1>6

\* A query that returns is answered.
LEMMA QueryIs ==
  ASSUME TypeOK, CallInv, SignaledInv, QueryReturns
  PROVE  LET k == waitsFor
         IN  /\ k \in Call /\ k \in executed /\ told[k] = "none" /\ KindOf(k) = "blocking"
             /\ busy[ConnOf(k)] # k
             /\ told'[k] = "value" /\ \A j \in Call \ {k} : told'[j] = told[j]
             /\ \A j \in Call \ {k} : event'[j] = event[j]
             /\ signaled' = signaled \ {k}
             /\ UNCHANGED <<work_service, calls, bSuccess, posted, busy, accepted, executed,
                            outcome>>
<1>1. /\ waitsFor \in signaled
      /\ told' = [told EXCEPT ![waitsFor] = "value"]
      /\ event' = [event EXCEPT ![waitsFor] = "freed"]
      /\ signaled' = signaled \ {waitsFor}
      /\ UNCHANGED <<work_service, calls, bSuccess, posted, busy, accepted, executed, outcome>>
  BY DEF QueryReturns, poolVars
<1>2. /\ waitsFor \in executed /\ told[waitsFor] = "none" /\ KindOf(waitsFor) = "blocking"
      /\ busy[ConnOf(waitsFor)] # waitsFor
  BY <1>1 DEF SignaledInv
<1>3. waitsFor \in Call
  BY <1>2 DEF TypeOK
<1> QED
  BY <1>1, <1>2, <1>3 DEF TypeOK

LEMMA PostedStep ==
  ASSUME TypeOK, ThreadInv, CallInv, QueueInv, OrderInv, PostedInv, SignaledInv, AnswerInv,
         [Next]_vars
  PROVE  PostedInv'
<1> USE DEF ConnOf, KindOf
<1>1. CASE Quiet
  BY <1>1, QuietIs DEF answerVars, PostedInv
<1>2. CASE QueryReturns
  <2>1. \A i \in 1 .. Len(posted) : posted[i] # waitsFor /\ posted[i] \in Call
    BY <1>2, QueryIs DEF PostedInv, TypeOK
  <2> QED
    BY <1>2, <2>1, QueryIs DEF PostedInv
<1>3. CASE RunHandler
  <2>1. ASSUME NEW i \in 1 .. Len(posted')
        PROVE  LET k == posted'[i]
               IN  /\ work_service'
                   /\ k \in executed' /\ told'[k] = "none" /\ calls'[k].kind # "blocking"
                   /\ busy'[calls'[k].conn] # k
    <3>1. /\ i + 1 \in 1 .. Len(posted) /\ posted'[i] = posted[i + 1]
          /\ posted'[i] # posted[1]
      BY <1>3, HandlerIs
    <3>2. LET k == posted[i + 1]
          IN  /\ work_service
              /\ k \in executed /\ told[k] = "none" /\ KindOf(k) # "blocking"
              /\ busy[ConnOf(k)] # k
      BY <3>1 DEF PostedInv
    <3>3. posted[i + 1] \in Call
      BY <3>2 DEF TypeOK
    <3> QED
      BY <1>3, <3>1, <3>2, <3>3, HandlerIs
  <2>2. ASSUME NEW i \in 1 .. Len(posted'), NEW j \in 1 .. Len(posted'), i < j
        PROVE  /\ posted'[j] # posted'[i]
               /\ calls'[posted'[j]].conn = calls'[posted'[i]].conn => posted'[i] < posted'[j]
    <3>1. /\ i + 1 \in 1 .. Len(posted) /\ j + 1 \in 1 .. Len(posted) /\ i + 1 < j + 1
          /\ posted'[i] = posted[i + 1] /\ posted'[j] = posted[j + 1] /\ calls' = calls
      BY <1>3, <2>2, HandlerIs
    <3> QED
      BY <3>1 DEF PostedInv
  <2> QED
    BY <2>1, <2>2 DEF PostedInv
<1>4. ASSUME NEW c \in Connection, NEW kind \in Kind, MakeCall(c, kind)
      PROVE  PostedInv'
  BY <1>4, MakeCallKeeps DEF PostedInv
<1>5. ASSUME NEW c \in Connection, FetchTask(c) \/ WakeUp(c)
      PROVE  PostedInv'
  <2>1. \A k \in executed : ConnOf(k) \in Connection /\ k # NoCall
    BY CallIs DEF CallInv
  <2>2. ASSUME NEW k \in executed, busy[ConnOf(k)] # k
        PROVE  busy'[ConnOf(k)] # k
    BY <1>5, <2>1, <2>2, LooksKeeps
  <2> QED
    BY <1>5, <2>2, LooksKeeps DEF PostedInv
<1>6. ASSUME NEW c \in Connection, Execute(c)
      PROVE  PostedInv'
  BY <1>6, ExecuteIs DEF PostedInv
<1>7. ASSUME NEW c \in Connection, PostAnswer(c)
      PROVE  PostedInv'
  <2> DEFINE k == busy[c]
  <2>1. /\ k \in Call /\ k # NoCall /\ k \in executed /\ told[k] = "none" /\ ConnOf(k) = c
        /\ UNCHANGED <<work_service, calls, executed, told>>
        /\ busy'[c] = NoCall /\ \A d \in Connection \ {c} : busy'[d] = busy[d]
    BY <1>7, PostAnswerIs
  <2>2. ASSUME NEW i \in 1 .. Len(posted)
        PROVE  /\ posted[i] \in executed /\ told[posted[i]] = "none"
               /\ KindOf(posted[i]) # "blocking" /\ work_service
               /\ busy'[ConnOf(posted[i])] # posted[i]
               /\ posted[i] # k /\ (ConnOf(posted[i]) = c => posted[i] < k)
    <3>1. /\ posted[i] \in executed /\ told[posted[i]] = "none" /\ KindOf(posted[i]) # "blocking"
          /\ busy[ConnOf(posted[i])] # posted[i] /\ work_service
      BY DEF PostedInv
    <3>2. posted[i] \in accepted /\ ConnOf(posted[i]) \in Connection /\ posted[i] \in Call
          /\ posted[i] # NoCall
      BY <3>1, CallIs DEF CallInv
    <3>3. posted[i] # k
      BY <2>1, <3>1
    <3>4. ConnOf(posted[i]) = c => posted[i] <= k
      BY <2>1, <3>1, <3>2 DEF OrderInv
    <3>5. posted[i] \in Nat /\ k \in Nat
      BY <2>1, <3>2, CallsAssumption DEF Call
    <3>6. busy'[ConnOf(posted[i])] # posted[i]
      BY <2>1, <3>1, <3>2
    <3> QED
      BY <3>1, <3>3, <3>4, <3>5, <3>6
  <2>3. CASE posted' = posted
    BY <2>1, <2>2, <2>3 DEF PostedInv
  <2>4. CASE posted' = Append(posted, k) /\ KindOf(k) # "blocking" /\ work_service
    <3> HIDE DEF k
    <3>1. /\ Len(posted) \in Nat /\ Len(posted') = Len(posted) + 1 /\ posted'[Len(posted) + 1] = k
          /\ \A i \in 1 .. Len(posted) : posted'[i] = posted[i]
          /\ \A i \in 1 .. Len(posted') : i \in 1 .. Len(posted) \/ i = Len(posted) + 1
      BY <2>1, <2>4, AppendIs DEF TypeOK
    <3>2. ASSUME NEW i \in 1 .. Len(posted')
          PROVE  LET h == posted'[i]
                 IN  /\ work_service'
                     /\ h \in executed' /\ told'[h] = "none" /\ calls'[h].kind # "blocking"
                     /\ busy'[calls'[h].conn] # h
      <4>1. CASE i \in 1 .. Len(posted)
        BY <2>1, <2>2, <3>1, <4>1
      <4>2. CASE i = Len(posted) + 1
        BY <2>1, <2>4, <3>1, <4>2
      <4> QED
        BY <3>1, <4>1, <4>2
    <3>3. ASSUME NEW i \in 1 .. Len(posted'), NEW j \in 1 .. Len(posted'), i < j
          PROVE  /\ posted'[j] # posted'[i]
                 /\ calls'[posted'[j]].conn = calls'[posted'[i]].conn => posted'[i] < posted'[j]
      <4>1. i \in 1 .. Len(posted) /\ posted'[i] = posted[i]
        BY <3>1, <3>3
      <4>2. CASE j \in 1 .. Len(posted)
        BY <2>1, <3>1, <3>3, <4>1, <4>2 DEF PostedInv
      <4>3. CASE j = Len(posted) + 1
        BY <2>1, <2>2, <3>1, <4>1, <4>3
      <4> QED
        BY <3>1, <4>2, <4>3
    <3> QED
      BY <3>2, <3>3 DEF PostedInv
  <2> QED
    BY <1>7, <2>3, <2>4, PostAnswerIs
<1> QED
  BY <1>1, <1>2, <1>3, <1>4, <1>5, <1>6, <1>7, StepsAre

LEMMA SignaledStep ==
  ASSUME TypeOK, ThreadInv, CallInv, QueueInv, PostedInv, SignaledInv, AnswerInv, [Next]_vars
  PROVE  SignaledInv'
<1> USE DEF ConnOf, KindOf
<1>0. \A k \in executed : ConnOf(k) \in Connection /\ k # NoCall /\ k \in Call
  BY CallIs DEF CallInv
<1>1. CASE Quiet
  BY <1>1, QuietIs DEF answerVars, SignaledInv
<1>2. CASE QueryReturns
  BY <1>2, QueryIs DEF SignaledInv, TypeOK
<1>3. CASE RunHandler
  BY <1>0, <1>3, HandlerIs DEF SignaledInv
<1>4. ASSUME NEW c \in Connection, NEW kind \in Kind, MakeCall(c, kind)
      PROVE  SignaledInv'
  BY <1>4, MakeCallKeeps DEF SignaledInv
<1>5. ASSUME NEW c \in Connection, FetchTask(c) \/ WakeUp(c)
      PROVE  SignaledInv'
  BY <1>0, <1>5, LooksKeeps DEF SignaledInv
<1>6. ASSUME NEW c \in Connection, Execute(c)
      PROVE  SignaledInv'
  BY <1>6, ExecuteIs DEF SignaledInv
<1>7. ASSUME NEW c \in Connection, PostAnswer(c)
      PROVE  SignaledInv'
  <2>1. LET k == busy[c]
        IN  /\ k # NoCall /\ k \in executed /\ told[k] = "none" /\ ConnOf(k) = c
            /\ UNCHANGED <<calls, executed, told>>
            /\ busy'[c] = NoCall /\ \A d \in Connection \ {c} : busy'[d] = busy[d]
            /\ signaled' = IF KindOf(k) = "blocking" THEN signaled \cup {k} ELSE signaled
    BY <1>7, PostAnswerIs
  <2> QED
    BY <1>0, <2>1 DEF SignaledInv
<1> QED
  BY <1>1, <1>2, <1>3, <1>4, <1>5, <1>6, <1>7, StepsAre

LEMMA AnswerStep ==
  ASSUME TypeOK, ThreadInv, CallInv, QueueInv, PostedInv, SignaledInv, AnswerInv, [Next]_vars
  PROVE  AnswerInv'
<1> USE DEF ConnOf, KindOf
<1>0. \A k \in executed : ConnOf(k) \in Connection /\ k # NoCall /\ k \in Call
  BY CallIs DEF CallInv
<1>1. CASE Quiet
  BY <1>1, QuietIs DEF answerVars, AnswerInv, In
<1>2. CASE QueryReturns
  BY <1>0, <1>2, QueryIs DEF AnswerInv, In
<1>3. CASE RunHandler
  <2> DEFINE h == posted[1]
  <2>1. /\ h \in executed /\ busy[ConnOf(h)] # h
        /\ told'[h] # "none" /\ \A j \in Call \ {h} : told'[j] = told[j]
        /\ UNCHANGED <<work_service, calls, signaled, busy, executed>>
        /\ \A j : In(j, posted) => j = h \/ In(j, posted')
    BY <1>3, HandlerIs
  <2> HIDE DEF h
  <2>2. ASSUME NEW k \in executed
        PROVE  /\ busy[ConnOf(k)] = k => told'[k] = "none"
               /\ told'[k] = "none" /\ busy[ConnOf(k)] # k =>
                    IF KindOf(k) = "blocking" THEN k \in signaled
                                              ELSE work_service => In(k, posted')
    BY <1>0, <2>1 DEF AnswerInv
  <2> QED
    BY <2>1, <2>2 DEF AnswerInv, In
<1>4. ASSUME NEW c \in Connection, NEW kind \in Kind, MakeCall(c, kind)
      PROVE  AnswerInv'
  BY <1>4, MakeCallKeeps DEF AnswerInv, In
<1>5. ASSUME NEW c \in Connection, FetchTask(c) \/ WakeUp(c)
      PROVE  AnswerInv'
  <2>1. ASSUME NEW k \in executed
        PROVE  busy'[ConnOf(k)] = k <=> busy[ConnOf(k)] = k
    BY <1>0, <1>5, LooksKeeps
  <2> QED
    BY <1>5, <2>1, LooksKeeps DEF AnswerInv, In
<1>6. ASSUME NEW c \in Connection, Execute(c)
      PROVE  AnswerInv'
  BY <1>6, ExecuteIs DEF AnswerInv, In
<1>7. ASSUME NEW c \in Connection, PostAnswer(c)
      PROVE  AnswerInv'
  <2> DEFINE h == busy[c]
  <2>1. /\ h \in Call /\ h # NoCall /\ h \in executed /\ ConnOf(h) = c
        /\ UNCHANGED <<work_service, calls, executed, told>>
        /\ busy'[c] = NoCall /\ \A d \in Connection \ {c} : busy'[d] = busy[d]
        /\ posted' = IF KindOf(h) # "blocking" /\ work_service THEN Append(posted, h) ELSE posted
        /\ signaled' = IF KindOf(h) = "blocking" THEN signaled \cup {h} ELSE signaled
    BY <1>7, PostAnswerIs
  <2> HIDE DEF h
  <2>2. posted \in Seq(Call)
    BY DEF TypeOK
  <2>3. \A j : In(j, posted) => In(j, posted')
    BY <2>1, <2>2, AppendIs
  <2>4. KindOf(h) # "blocking" /\ work_service => In(h, posted')
    BY <2>1, <2>2, AppendIs
  <2>5. \A k \in executed : busy[ConnOf(k)] = k /\ busy'[ConnOf(k)] # k => k = h
    BY <1>0, <2>1 DEF h
  <2>6. \A k \in executed : busy'[ConnOf(k)] = k => busy[ConnOf(k)] = k
    BY <1>0, <2>1
  <2>7. ASSUME NEW k \in executed
        PROVE  /\ busy'[ConnOf(k)] = k => told[k] = "none"
               /\ told[k] = "none" /\ busy'[ConnOf(k)] # k =>
                    IF KindOf(k) = "blocking" THEN k \in signaled'
                                              ELSE work_service => In(k, posted')
    BY <2>1, <2>3, <2>4, <2>5, <2>6 DEF AnswerInv
  <2> QED
    BY <2>1, <2>7 DEF AnswerInv, In
<1> QED
  BY <1>1, <1>2, <1>3, <1>4, <1>5, <1>6, <1>7, StepsAre

LEMMA EventStep ==
  ASSUME TypeOK, ThreadInv, CallInv, QueueInv, PostedInv, SignaledInv, AnswerInv, EventInv,
         [Next]_vars
  PROVE  EventInv'
<1>0. Made \subseteq Call
  BY CallIs
<1>1. CASE UNCHANGED <<calls, event, told>>
  BY <1>1 DEF EventInv, Made
<1>2. CASE StartApp \/ UnInit \/ UNCHANGED vars
  BY <1>1, <1>2 DEF StartApp, UnInit, vars, callVars, history
<1>3. ASSUME NEW c \in Connection, New(c) \/ UnInitWait(c) \/ UnInitClear(c) \/ Leave(c)
      PROVE  EventInv'
  BY <1>1, <1>3 DEF New, UnInitWait, UnInitClear, Leave, callVars, history
<1>4. ASSUME NEW c \in Connection, FetchTask(c) \/ WakeUp(c) \/ Execute(c) \/ PostAnswer(c)
      PROVE  EventInv'
  BY <1>1, <1>4 DEF FetchTask, WakeUp, Execute, PostAnswer, callVars, history
<1>5. CASE ReturnFromApp
  <2>1. \A k \in Call : k # handling => event'[k] = event[k]
    BY <1>5 DEF ReturnFromApp, TypeOK
  <2>2. UNCHANGED <<calls, told>> /\ (handling # NoCall => told[handling] # "none")
    BY <1>5 DEF ReturnFromApp, history, CallInv
  <2>3. handling = NoCall => event' = event
    BY <1>5 DEF ReturnFromApp
  <2> QED
    BY <1>0, <2>1, <2>2, <2>3 DEF EventInv, Made
<1>6. CASE QueryReturns
  <2>1. LET k == waitsFor
        IN  /\ told'[k] = "value" /\ \A j \in Call \ {k} : told'[j] = told[j]
            /\ \A j \in Call \ {k} : event'[j] = event[j]
            /\ calls' = calls
    BY <1>6, QueryIs
  <2> QED
    BY <1>0, <2>1 DEF EventInv, Made
<1>7. CASE RunHandler
  <2>1. LET k == posted[1]
        IN  /\ told'[k] # "none" /\ \A j \in Call \ {k} : told'[j] = told[j]
            /\ \A j \in Call \ {k} : event'[j] = event[j]
            /\ calls' = calls
    BY <1>7, HandlerIs
  <2> QED
    BY <1>0, <2>1 DEF EventInv, Made
<1>8. ASSUME NEW c \in Connection, NEW kind \in Kind, MakeCall(c, kind)
      PROVE  EventInv'
  <2> DEFINE k == Len(calls) + 1
  <2>1. k \in Call /\ k \notin Made /\ Made' = Made \cup {k}
    BY <1>8, NewCall
  <2>2. event' = [event EXCEPT ![k] = "alive"] /\ told' = told
    BY <1>8 DEF MakeCall
  <2> HIDE DEF k
  <2>3. event'[k] = "alive" /\ \A j \in Made : event'[j] = event[j]
    BY <1>0, <2>1, <2>2 DEF TypeOK
  <2> QED
    BY <2>1, <2>2, <2>3 DEF EventInv
<1> QED
  BY <1>2, <1>3, <1>4, <1>5, <1>6, <1>7, <1>8 DEF Next, Work

LEMMA SuccessStep ==
  ASSUME TypeOK, ThreadInv, CallInv, QueueInv, PostedInv, SignaledInv, AnswerInv, SuccessInv,
         [Next]_vars
  PROVE  SuccessInv'
<1> USE DEF KindOf
<1>1. CASE UNCHANGED <<calls, bSuccess, executed, outcome, told>>
  BY <1>1 DEF SuccessInv, CommandTold
<1>2. CASE Quiet
  BY <1>1, <1>2, QuietIs DEF answerVars
<1>3. CASE QueryReturns
  <2>1. LET k == waitsFor
        IN  /\ k \in executed /\ KindOf(k) = "blocking"
            /\ told'[k] = "value" /\ \A j \in Call \ {k} : told'[j] = told[j]
            /\ UNCHANGED <<calls, bSuccess, executed, outcome>>
    BY <1>3, QueryIs
  <2>2. outcome[waitsFor] = "done"
    BY <2>1 DEF SuccessInv
  <2> QED
    BY <2>1, <2>2 DEF SuccessInv, CommandTold
<1>4. CASE RunHandler
  <2> DEFINE k == posted[1]
  <2>1. /\ k \in executed /\ k \in Call
        /\ \A j \in Call \ {k} : told'[j] = told[j]
        /\ UNCHANGED <<calls, bSuccess, executed, outcome>>
    BY <1>4, HandlerIs
  <2>2. told'[k] = IF KindOf(k) = "command" /\ ~bSuccess[k] THEN "nil" ELSE "value"
    <3>1. Head(posted) = k
      BY <1>4 DEF RunHandler, TypeOK
    <3>2. told' = [told EXCEPT ![k] =
                     IF KindOf(k) = "command" /\ ~bSuccess[k] THEN "nil" ELSE "value"]
      BY <1>4, <3>1 DEF RunHandler
    <3> HIDE DEF k
    <3> QED
      BY <2>1, <3>2 DEF TypeOK
  <2> HIDE DEF k
  <2>3. /\ outcome[k] \in {"done", "refused", "threw"}
        /\ KindOf(k) # "command" => outcome[k] = "done"
        /\ outcome[k] = "done" => bSuccess[k]
        /\ outcome[k] = "threw" => ~bSuccess[k]
    BY <2>1 DEF SuccessInv
  <2>4. /\ told'[k] = "nil" => outcome[k] # "done"
        /\ told'[k] = "value" => outcome[k] \in {"done", "refused"}
    BY <2>2, <2>3
  <2> QED
    BY <2>1, <2>4 DEF SuccessInv, CommandTold
<1>5. ASSUME NEW c \in Connection, NEW kind \in Kind, MakeCall(c, kind)
      PROVE  SuccessInv'
  BY <1>5, MakeCallKeeps DEF SuccessInv, CommandTold
<1>6. ASSUME NEW c \in Connection, FetchTask(c) \/ WakeUp(c)
      PROVE  SuccessInv'
  BY <1>1, <1>6, LooksKeeps
<1>7. ASSUME NEW c \in Connection, Execute(c)
      PROVE  SuccessInv'
  <2> DEFINE k == busy[c]
  <2>1. /\ k \in Call /\ k \notin executed /\ told[k] = "none"
        /\ executed' = executed \cup {k} /\ UNCHANGED <<calls, told>>
    BY <1>7, ExecuteIs
  <2>2. PICK result \in IF KindOf(k) = "command" THEN {"done", "refused", "threw"} ELSE {"done"} :
          /\ outcome' = [outcome EXCEPT ![k] = result]
          /\ \E b \in BSuccess(result) : bSuccess' = [bSuccess EXCEPT ![k] = b]
    BY <1>7 DEF Execute
  <2> HIDE DEF k
  <2>b. PICK b \in BSuccess(result) : bSuccess' = [bSuccess EXCEPT ![k] = b]
    BY <2>2
  <2>3. /\ outcome'[k] = result /\ bSuccess'[k] = b
        /\ \A j \in Call \ {k} : outcome'[j] = outcome[j] /\ bSuccess'[j] = bSuccess[j]
    BY <2>1, <2>2, <2>b DEF TypeOK
  <2>4. /\ result \in {"done", "refused", "threw"}
        /\ KindOf(k) # "command" => result = "done"
        /\ result = "done" => b
        /\ result = "threw" => ~b
    BY <2>2, <2>b DEF BSuccess
  <2>5. executed \subseteq Call
    BY DEF TypeOK
  <2> QED
    BY <2>1, <2>3, <2>4, <2>5 DEF SuccessInv, CommandTold
<1>8. ASSUME NEW c \in Connection, PostAnswer(c)
      PROVE  SuccessInv'
  BY <1>1, <1>8, PostAnswerIs
<1> QED
  BY <1>2, <1>3, <1>4, <1>5, <1>6, <1>7, <1>8, StepsAre
-----------------------------------------------------------------------------
LEMMA NextInv == IInv /\ [Next]_vars => IInv'
  BY TypeStep, ThreadStep, DrainStep, CallStep, QueueStep, OrderStep, PostedStep, SignaledStep,
     AnswerStep, EventStep, SuccessStep DEF IInv

LEMMA InvAlways == Spec => []IInv
  BY InitInv, NextInv, PTL DEF Spec

(* Every reachable state is of its type, for any connections and any number of  *)
(* calls.                                                                      *)
THEOREM AsyncTypeCorrect == Spec => []TypeOK
<1>1. IInv => TypeOK
  BY DEF IInv
<1> QED
  BY <1>1, InvAlways, PTL

(* A pool that UnInit has waited for, or dropped, has nothing queued and nothing *)
(* running, in whatever state its thread is.                                     *)
THEOREM UnInitDrainsAlways == Spec => []UnInitDrains
<1>1. IInv => UnInitDrains
  BY DEF IInv, TypeOK, DrainInv, UnInitDrains
<1> QED
  BY <1>1, InvAlways, PTL

(* No thread and no handler meets an event that was cleared or destroyed.      *)
THEOREM EventsAliveAlways == Spec => []EventsAlive
<1>1. ASSUME IInv PROVE EventsAlive
  <2> SUFFICES ASSUME NEW k \in Call,
                      \/ \E c \in Connection : busy[c] = k \/ Times(k, tasks[c]) > 0
                      \/ Times(k, posted) > 0 \/ k \in signaled \/ waitsFor = k
               PROVE  event[k] = "alive"
    BY DEF EventsAlive
  <2>0. /\ TypeOK /\ ThreadInv /\ CallInv /\ QueueInv
        /\ PostedInv /\ SignaledInv /\ AnswerInv /\ EventInv
    BY <1>1 DEF IInv
  <2>1. \A s \in Seq(Call) : Times(k, s) > 0 => In(k, s)
    <3> SUFFICES ASSUME NEW s \in Seq(Call), ~In(k, s) PROVE ~(Times(k, s) > 0)
      OBVIOUS
    <3>1. {i \in DOMAIN s : s[i] = k} = {}
      BY DEF In
    <3>2. Times(k, s) = 0
      BY <3>1, FS_EmptySet DEF Times
    <3> QED
      BY <3>2
  <2>2. k \in Made /\ told[k] = "none"
    <3>1. k # NoCall
      BY CallsAre
    <3>2. ASSUME NEW c \in Connection, busy[c] = k PROVE k \in Made /\ told[k] = "none"
      <4>1. k \in accepted /\ (k \in executed => worker[c] = "post" /\ ConnOf(k) = c)
        BY <2>0, <3>1, <3>2 DEF QueueInv, ThreadInv
      <4>2. k \in executed => told[k] = "none"
        BY <2>0, <3>2, <4>1 DEF AnswerInv
      <4> QED
        BY <2>0, <4>1, <4>2 DEF CallInv
    <3>3. ASSUME NEW c \in Connection, Times(k, tasks[c]) > 0
          PROVE  k \in Made /\ told[k] = "none"
      <4>1. In(k, tasks[c])
        BY <2>0, <2>1, <3>3 DEF TypeOK
      <4>2. k \in accepted \ executed
        BY <2>0, <4>1 DEF In, QueueInv
      <4> QED
        BY <2>0, <4>2 DEF CallInv
    <3>4. ASSUME Times(k, posted) > 0 PROVE k \in Made /\ told[k] = "none"
      <4>1. In(k, posted)
        BY <2>0, <2>1, <3>4 DEF TypeOK
      <4>2. k \in executed /\ told[k] = "none"
        BY <2>0, <4>1 DEF In, PostedInv
      <4> QED
        BY <2>0, <4>2 DEF CallInv
    <3>5. ASSUME k \in signaled PROVE k \in Made /\ told[k] = "none"
      BY <2>0, <3>5 DEF SignaledInv, CallInv
    <3>6. ASSUME waitsFor = k PROVE k \in Made /\ told[k] = "none"
      BY <2>0, <3>1, <3>6 DEF CallInv
    <3> QED
      BY <3>2, <3>3, <3>4, <3>5, <3>6
  <2> QED
    BY <2>0, <2>2 DEF EventInv
<1> QED
  BY <1>1, InvAlways, PTL

(* A command that the database has done is never answered with nil, and one that *)
(* threw never with a value.                                                     *)
THEOREM CommandToldAlways == Spec => []CommandTold
<1>1. IInv => CommandTold
  BY DEF IInv, SuccessInv
<1> QED
  BY <1>1, InvAlways, PTL

(* A call that was accepted and not answered is in exactly one place, one that   *)
(* was answered, or has no io_service to be answered through, in none: nothing   *)
(* is lost, executed twice or answered twice.                                    *)
THEOREM NothingLostAlways == Spec => []NothingLost
<1>1. ASSUME IInv PROVE NothingLost
  <2>0. /\ TypeOK /\ ThreadInv /\ CallInv /\ QueueInv /\ OrderInv
        /\ PostedInv /\ SignaledInv /\ AnswerInv
    BY <1>1 DEF IInv
  <2> SUFFICES ASSUME NEW k \in accepted
               PROVE  LET c == ConnOf(k)
                          places == Times(k, tasks[c])
                                    + Cardinality({d \in Connection : busy[d] = k})
                                    + Times(k, posted) + Cardinality({k} \cap signaled)
                      IN  IF \/ told[k] # "none"
                             \/ /\ ~work_service /\ KindOf(k) # "blocking" /\ k \in executed
                                /\ busy[c] # k
                          THEN places = 0
                          ELSE places = 1
    BY DEF NothingLost
  <2> DEFINE c == ConnOf(k)
             t == Times(k, tasks[c])
             b == Cardinality({d \in Connection : busy[d] = k})
             p == Times(k, posted)
             s == Cardinality({k} \cap signaled)
  <2>1. k \in Made /\ k \in Call /\ k # NoCall /\ c \in Connection
    BY <2>0, CallIs DEF CallInv
  <2>2. tasks[c] \in Seq(Call) /\ posted \in Seq(Call)
    BY <2>0, <2>1 DEF TypeOK
  <2>3. \A q \in Seq(Call) : ~In(k, q) => Times(k, q) = 0
    <3> SUFFICES ASSUME NEW q \in Seq(Call), ~In(k, q) PROVE Times(k, q) = 0
      OBVIOUS
    <3>1. {i \in DOMAIN q : q[i] = k} = {}
      BY DEF In
    <3> QED
      BY <3>1, FS_EmptySet DEF Times
  <2>4. ASSUME NEW q \in Seq(Call), In(k, q),
               \A i, j \in 1 .. Len(q) : i < j => q[i] # q[j]
        PROVE  Times(k, q) = 1
    <3>1. PICK i \in 1 .. Len(q) : q[i] = k
      BY <2>4 DEF In
    <3>2. \A j \in 1 .. Len(q) : q[j] = k => j = i
      BY <2>4, <3>1
    <3>3. {j \in DOMAIN q : q[j] = k} = {i}
      BY <3>1, <3>2
    <3> QED
      BY <3>3, FS_Singleton DEF Times
  <2>5. busy[c] = k => b = 1
    <3> SUFFICES ASSUME busy[c] = k PROVE b = 1
      OBVIOUS
    <3>1. \A d \in Connection : busy[d] = k => d = c
      BY <2>0, <2>1 DEF QueueInv
    <3>2. {d \in Connection : busy[d] = k} = {c}
      BY <2>1, <3>1
    <3> QED
      BY <3>2, FS_Singleton
  <2>6. busy[c] # k => b = 0
    <3> SUFFICES ASSUME busy[c] # k PROVE b = 0
      OBVIOUS
    <3>1. {d \in Connection : busy[d] = k} = {}
      BY <2>0, <2>1 DEF QueueInv
    <3> QED
      BY <3>1, FS_EmptySet
  <2>7. k \in signaled => s = 1
    <3> SUFFICES ASSUME k \in signaled PROVE s = 1
      OBVIOUS
    <3>1. {k} \cap signaled = {k}
      OBVIOUS
    <3> QED
      BY <3>1, FS_Singleton
  <2>8. k \notin signaled => s = 0
    <3> SUFFICES ASSUME k \notin signaled PROVE s = 0
      OBVIOUS
    <3>1. {k} \cap signaled = {}
      OBVIOUS
    <3> QED
      BY <3>1, FS_EmptySet
  <2>9. \A i, j \in 1 .. Len(tasks[c]) : i < j => tasks[c][i] # tasks[c][j]
    <3> SUFFICES ASSUME NEW i \in 1 .. Len(tasks[c]), NEW j \in 1 .. Len(tasks[c]), i < j
                 PROVE  tasks[c][i] # tasks[c][j]
      OBVIOUS
    <3>1. tasks[c][i] < tasks[c][j]
      BY <2>0, <2>1 DEF QueueInv
    <3>2. tasks[c][i] \in Nat /\ tasks[c][j] \in Nat
      BY <2>2, CallsAssumption DEF Call
    <3> QED
      BY <3>1, <3>2
  <2>10. \A i, j \in 1 .. Len(posted) : i < j => posted[i] # posted[j]
    BY <2>0 DEF PostedInv
  <2>11. In(k, tasks[c]) => t = 1 /\ k \notin executed /\ busy[c] # k
    <3> SUFFICES ASSUME In(k, tasks[c]) PROVE t = 1 /\ k \notin executed /\ busy[c] # k
      OBVIOUS
    <3>1. t = 1
      BY <2>2, <2>4, <2>9
    <3>2. k \notin executed /\ busy[c] < k
      BY <2>0, <2>1 DEF In, QueueInv
    <3>3. k \in Nat
      BY <2>1, CallsAssumption DEF Call
    <3> QED
      BY <3>1, <3>2, <3>3
  <2>12. /\ ~In(k, tasks[c]) => t = 0
         /\ ~In(k, posted) => p = 0
    BY <2>2, <2>3
  <2>13. In(k, posted) =>
           /\ p = 1 /\ k \in executed /\ told[k] = "none" /\ busy[c] # k
           /\ KindOf(k) # "blocking" /\ work_service
    <3> SUFFICES ASSUME In(k, posted)
                 PROVE  /\ p = 1 /\ k \in executed /\ told[k] = "none" /\ busy[c] # k
                        /\ KindOf(k) # "blocking" /\ work_service
      OBVIOUS
    <3>1. p = 1
      BY <2>2, <2>4, <2>10
    <3> QED
      BY <2>0, <3>1 DEF In, PostedInv
  <2>14. k \in signaled =>
           k \in executed /\ told[k] = "none" /\ KindOf(k) = "blocking" /\ busy[c] # k
    BY <2>0 DEF SignaledInv
  <2>15. k \notin executed => (In(k, tasks[c]) \/ busy[c] = k) /\ told[k] = "none"
    BY <2>0, <2>1 DEF OrderInv, CallInv
  <2>16. k \in executed =>
           /\ busy[c] = k => told[k] = "none"
           /\ told[k] = "none" /\ busy[c] # k =>
                IF KindOf(k) = "blocking" THEN k \in signaled ELSE work_service => In(k, posted)
    BY <2>0 DEF AnswerInv
  <2> HIDE DEF c, t, b, p, s
  <2>17. IF \/ told[k] # "none"
            \/ /\ ~work_service /\ KindOf(k) # "blocking" /\ k \in executed
               /\ busy[c] # k
         THEN t + b + p + s = 0
         ELSE t + b + p + s = 1
    <3>1. CASE k \notin executed
      BY <3>1, <2>5, <2>6, <2>8, <2>11, <2>12, <2>13, <2>14, <2>15
    <3>2. CASE k \in executed /\ busy[c] = k
      BY <3>2, <2>5, <2>8, <2>11, <2>12, <2>13, <2>14, <2>16
    <3>3. CASE k \in executed /\ busy[c] # k /\ told[k] # "none"
      BY <3>3, <2>6, <2>8, <2>11, <2>12, <2>13, <2>14
    <3>4. CASE k \in executed /\ busy[c] # k /\ told[k] = "none" /\ KindOf(k) = "blocking"
      BY <3>4, <2>6, <2>7, <2>11, <2>12, <2>13, <2>16
    <3>5. CASE k \in executed /\ busy[c] # k /\ told[k] = "none" /\ KindOf(k) # "blocking"
      BY <3>5, <2>6, <2>8, <2>11, <2>12, <2>13, <2>14, <2>16
    <3> QED
      BY <3>1, <3>2, <3>3, <3>4, <3>5
  <2> QED
    BY <2>17 DEF c, t, b, p, s
<1> QED
  BY <1>1, InvAlways, PTL
-----------------------------------------------------------------------------
(* AsyncDB implements DBService.                                           *)

on == [k \in Call |-> IF k \in accepted THEN ConnOf(k) ELSE None]
direct == {k \in accepted : KindOf(k) = "blocking"}
answered == {k \in Call : told[k] # "none"}

LEMMA ServiceInit == Init => Service!Init
  BY DEF Init, Service!Init

LEMMA AcceptedIs ==
  ASSUME TypeOK, CallInv
  PROVE  /\ Service!Accepted = accepted
         /\ \A k \in accepted : k \in Call /\ on[k] = ConnOf(k) /\ ConnOf(k) \in Connection
         /\ \A k \in accepted :
              Service!Before(k) = {j \in accepted : j < k /\ ConnOf(j) = ConnOf(k)}
<1>1. \A k \in accepted : k \in Call /\ ConnOf(k) \in Connection
  BY CallIs DEF CallInv
<1>2. \A k \in accepted : on[k] = ConnOf(k)
  BY <1>1 DEF on
<1>3. \A k \in Call \ accepted : on[k] = None
  BY DEF on
<1>4. Service!Accepted = accepted
  BY <1>1, <1>2, <1>3, CallsAssumption DEF Service!Accepted, on
<1>5. \A k \in accepted : Service!Before(k) = {j \in accepted : j < k /\ ConnOf(j) = ConnOf(k)}
  BY <1>1, <1>2, <1>4 DEF Service!Before, on
<1> QED
  BY <1>1, <1>2, <1>4, <1>5

\* The calls of a connection are executed in order: what was made before an executed
\* call, or before one that is running, has been executed.
LEMMA ExecutedBefore ==
  ASSUME TypeOK, CallInv, QueueInv, OrderInv,
         NEW k \in accepted, k \in executed \/ busy[ConnOf(k)] = k,
         NEW j \in accepted, j < k, ConnOf(j) = ConnOf(k)
  PROVE  j \in executed
<1> SUFFICES ASSUME j \notin executed PROVE FALSE
  OBVIOUS
<1> DEFINE c == ConnOf(k)
<1>1. j \in Nat /\ k \in Nat /\ j # NoCall /\ k # NoCall /\ c \in Connection
  BY CallIs, CallsAssumption DEF CallInv, Call
<1>2. In(j, tasks[c]) \/ busy[c] = j
  BY DEF OrderInv
<1>3. CASE k \in executed
  <2>1. (\A i \in 1 .. Len(tasks[c]) : k < tasks[c][i]) /\ (busy[c] # NoCall => k <= busy[c])
    BY <1>3 DEF OrderInv
  <2>2. CASE In(j, tasks[c])
    BY <1>1, <2>1, <2>2 DEF In
  <2>3. CASE busy[c] = j
    BY <1>1, <2>1, <2>3
  <2> QED
    BY <1>2, <2>2, <2>3
<1>4. CASE busy[c] = k
  <2>1. \A i \in 1 .. Len(tasks[c]) : k < tasks[c][i]
    BY <1>1, <1>4 DEF QueueInv
  <2>2. ~In(j, tasks[c])
    BY <1>1, <2>1 DEF In
  <2> QED
    BY <1>1, <1>2, <1>4, <2>2
<1> QED
  BY <1>3, <1>4

\* What a connection answers through a callback is answered in the order of its calls.
LEMMA AnsweredBefore ==
  ASSUME TypeOK, ThreadInv, CallInv, QueueInv, OrderInv, PostedInv, AnswerInv, RunHandler,
         NEW j \in accepted, j < posted[1], ConnOf(j) = ConnOf(posted[1]),
         KindOf(j) # "blocking"
  PROVE  told[j] # "none"
<1> DEFINE k == posted[1]
           c == ConnOf(k)
<1>1. /\ k \in executed /\ work_service /\ busy[c] # k /\ 1 \in 1 .. Len(posted)
      /\ k \in accepted /\ k \in Call
  BY HandlerIs DEF CallInv
<1>2. j \in Nat /\ k \in Nat /\ j # NoCall /\ c \in Connection
  BY <1>1, CallIs, CallsAssumption DEF CallInv, Call
<1>3. j \in executed
  BY <1>1, ExecutedBefore
<1> SUFFICES ASSUME told[j] = "none" PROVE FALSE
  OBVIOUS
<1>4. CASE busy[c] = j
  <2>1. k <= j
    BY <1>1, <1>2, <1>4 DEF OrderInv
  <2> QED
    BY <1>2, <2>1
<1>5. CASE busy[c] # j
  <2>1. In(j, posted)
    BY <1>1, <1>3, <1>5 DEF AnswerInv
  <2>2. PICK i \in 1 .. Len(posted) : posted[i] = j
    BY <2>1 DEF In
  <2>3. 1 < i
    BY <1>2, <2>2
  <2>4. k < j
    BY <1>1, <2>2, <2>3 DEF PostedInv
  <2> QED
    BY <1>2, <2>4
<1> QED
  BY <1>4, <1>5

LEMMA ServiceStep == ASSUME IInv, [Next]_vars PROVE [Service!Next]_(Service!vars)
<1>0. /\ TypeOK /\ ThreadInv /\ CallInv /\ QueueInv /\ OrderInv
      /\ PostedInv /\ SignaledInv /\ AnswerInv
  BY DEF IInv
<1>1. CASE UNCHANGED <<on, direct, executed, answered>>
  BY <1>1 DEF Service!vars, on, direct, answered
<1>2. CASE UNCHANGED <<calls, accepted, executed, told>>
  BY <1>1, <1>2 DEF on, direct, answered, ConnOf, KindOf
<1>3. CASE Quiet
  BY <1>2, <1>3, QuietIs DEF answerVars
<1>4. ASSUME NEW c \in Connection, FetchTask(c) \/ WakeUp(c)
      PROVE  UNCHANGED <<calls, accepted, executed, told>>
  BY <1>0, <1>4, ThreadLooks DEF callVars, history
<1>5. ASSUME NEW c \in Connection, PostAnswer(c)
      PROVE  UNCHANGED <<calls, accepted, executed, told>>
  BY <1>5 DEF PostAnswer, history
<1>6. ASSUME NEW c \in Connection, NEW kind \in Kind, MakeCall(c, kind)
      PROVE  [Service!Next]_(Service!vars)
  <2>0. PICK k \in Call : k = Len(calls) + 1
    BY <1>0, <1>6, NewCall
  <2>1. /\ k \in Call /\ k \notin Made
        /\ calls'[k] = [conn |-> c, kind |-> kind]
        /\ \A j \in Made : j < k /\ j \in Call /\ calls'[j] = calls[j]
    BY <1>0, <1>6, <2>0, NewCall
  <2>2. /\ UNCHANGED <<executed, told>>
        /\ accepted \subseteq Made
        /\ \/ accepted' = accepted
           \/ accepted' = accepted \cup {k}
    BY <1>0, <1>6, <2>0, Accepts
  <2>3. answered' = answered
    BY <2>2 DEF answered
  <2>4. \A j \in accepted : calls'[j].conn = ConnOf(j) /\ calls'[j].kind = KindOf(j) /\ j # k
    BY <2>1, <2>2 DEF ConnOf, KindOf
  <2>5. CASE accepted' = accepted
    <3>1. on' = on /\ direct' = direct
      BY <2>4, <2>5 DEF on, direct, ConnOf, KindOf
    <3> QED
      BY <1>1, <2>2, <2>3, <3>1
  <2>6. CASE accepted' = accepted \cup {k}
    <3>1. on' = [on EXCEPT ![k] = c]
      <4>1. on' \in [Call -> {None} \cup {on'[j] : j \in Call}] /\ DOMAIN on' = Call
        BY DEF on
      <4>2. ASSUME NEW j \in Call
            PROVE  (IF j \in accepted' THEN calls'[j].conn ELSE None)
                   = (IF j = k THEN c ELSE IF j \in accepted THEN ConnOf(j) ELSE None)
        BY <2>1, <2>4, <2>6
      <4> QED
        BY <2>1, <4>2 DEF on, ConnOf
    <3>2. direct' \in {direct, direct \cup {k}}
      <4>1. direct' = {j \in accepted \cup {k} : calls'[j].kind = "blocking"}
        BY <2>6 DEF direct, KindOf
      <4>2. calls'[k].kind = kind
        BY <2>1
      <4>3. CASE kind = "blocking"
        <5>1. direct' = direct \cup {k}
          BY <2>4, <4>1, <4>2, <4>3 DEF direct
        <5> QED
          BY <5>1
      <4>4. CASE kind # "blocking"
        <5>1. direct' = direct
          BY <2>4, <4>1, <4>2, <4>4 DEF direct
        <5> QED
          BY <5>1
      <4> QED
        BY <4>3, <4>4
    <3>3. on[k] = None
      BY <2>1, <2>2 DEF on
    <3>4. \A j \in Service!Accepted : j < k
      BY <1>0, <2>1, <2>2, AcceptedIs
    <3>5. Service!Accept(k)
      BY <2>2, <2>3, <3>1, <3>2, <3>3, <3>4 DEF Service!Accept, on, direct, answered
    <3> QED
      BY <3>5 DEF Service!Next
  <2> QED
    BY <2>2, <2>5, <2>6
<1>7. ASSUME NEW c \in Connection, Execute(c)
      PROVE  [Service!Next]_(Service!vars)
  <2> DEFINE k == busy[c]
  <2>1. /\ k \in Call /\ k \in accepted \ executed /\ ConnOf(k) = c
        /\ executed' = executed \cup {k} /\ UNCHANGED <<calls, accepted, told>>
    BY <1>0, <1>7, ExecuteIs
  <2>2. Service!Before(k) \subseteq executed
    BY <1>0, <2>1, AcceptedIs, ExecutedBefore
  <2>3. on' = on /\ direct' = direct /\ answered' = answered
    BY <2>1 DEF on, direct, answered, ConnOf, KindOf
  <2>4. k \in Service!Accepted \ executed
    BY <1>0, <2>1, AcceptedIs
  <2>5. Service!Execute(k)
    BY <2>1, <2>2, <2>3, <2>4 DEF Service!Execute, on, direct, answered
  <2> QED
    BY <2>1, <2>5 DEF Service!Next
<1>8. ASSUME NEW k \in Call, k \in executed, told[k] = "none",
             k \in direct \/ Service!Before(k) \subseteq answered \cup direct,
             told'[k] # "none", \A j \in Call \ {k} : told'[j] = told[j],
             UNCHANGED <<calls, accepted, executed>>
      PROVE  [Service!Next]_(Service!vars)
  <2>1. on' = on /\ direct' = direct
    BY <1>8 DEF on, direct, ConnOf, KindOf
  <2>2. answered' = answered \cup {k} /\ k \in executed \ answered
    BY <1>8 DEF answered
  <2>3. Service!Answer(k)
    BY <1>8, <2>1, <2>2 DEF Service!Answer, on, direct, answered
  <2> QED
    BY <2>3 DEF Service!Next
<1>9. CASE QueryReturns
  <2>1. LET k == waitsFor
        IN  /\ k \in Call /\ k \in executed /\ told[k] = "none" /\ KindOf(k) = "blocking"
            /\ told'[k] = "value" /\ \A j \in Call \ {k} : told'[j] = told[j]
            /\ UNCHANGED <<calls, accepted, executed>>
    BY <1>0, <1>9, QueryIs
  <2>2. waitsFor \in direct
    BY <1>0, <2>1 DEF direct, CallInv
  <2> QED
    BY <1>8, <2>1, <2>2
<1>10. CASE RunHandler
  <2>1. LET k == posted[1]
        IN  /\ k \in Call /\ k \in executed /\ told[k] = "none"
            /\ told'[k] # "none" /\ \A j \in Call \ {k} : told'[j] = told[j]
            /\ UNCHANGED <<calls, accepted, executed>>
    BY <1>0, <1>10, HandlerIs
  <2>2. posted[1] \in accepted
    BY <1>0, <2>1 DEF CallInv
  <2>3. ASSUME NEW j \in Service!Before(posted[1])
        PROVE  j \in answered \cup direct
    <3>1. j \in accepted /\ j \in Call /\ j < posted[1] /\ ConnOf(j) = ConnOf(posted[1])
      BY <1>0, <2>2, AcceptedIs
    <3> QED
      BY <1>0, <1>10, <3>1, AnsweredBefore DEF answered, direct
  <2> QED
    BY <1>8, <2>1, <2>3
<1> QED
  BY <1>2, <1>3, <1>4, <1>5, <1>6, <1>7, <1>9, <1>10, StepsAre

(* Asynchronous database access keeps the promise of DBService, with any number  *)
(* of connections, threads that race and pools that are shut down: the calls of  *)
(* a connection are executed in order and at most once, answered at most once,   *)
(* after their execution, and through callbacks in order.                        *)
THEOREM CallsAreServed == Spec => ServiceSpec
<1> QED
  BY InvAlways, ServiceInit, ServiceStep, PTL DEF Spec, ServiceSpec, Service!Spec
=============================================================================
