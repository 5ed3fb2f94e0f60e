------------------------------ MODULE AsyncDB -------------------------------
(***************************************************************************)
(* contrib/luaMongo: the logic thread makes database calls, each connection*)
(* has a thread pool of one thread that executes them, and the answers come*)
(* back as handlers of the logic thread's io_service, or to a caller that  *)
(* waits for them.                                                         *)
(*                                                                         *)
(* The pool is boost/threadpool, which the repository carries along; what  *)
(* happens under its monitor is one step.  A call is a number; its event   *)
(* object is constructed by the call, cleared and destroyed by its handler.*)
(***************************************************************************)
EXTENDS Naturals, Sequences, FiniteSets

CONSTANTS Connection,  \* the connections that can be made
          MaxCall,     \* bound on the calls
          None

ASSUME CallsAssumption == MaxCall \in Nat /\ None \notin Connection

Call == 1 .. MaxCall
NoCall == 0

\* insert, update and remove are alike; so are count and a query that does not
\* block; command is the one call whose answer can be nil.
Kind == {"write", "command", "query", "blocking"}

VARIABLES
  work_service,  \* mongo_init was given an io_service
  \* SDBServer
  made,          \* the connections that exist
  connectionPool,\* those that have a pool in the map
  \* the pool of a connection
  tasks,         \* m_scheduler
  worker,        \* where its thread is
  notified,      \* m_task_or_terminate_workers_event has been raised
  active,        \* m_active_worker_count
  target,        \* m_target_worker_count
  busy,          \* the call whose Do_Excute runs
  \* the calls
  calls,         \* their connection and kind
  event,         \* their event objects
  bSuccess,      \* what the event says of the command
  posted,        \* the handlers in the io_service
  signaled,      \* the blocking queries whose Windows event is set
  \* the logic thread
  logic,         \* where it is
  handling,      \* the write whose handler is resuming its coroutine
  waitsFor,      \* the query it waits for
  waited,        \* the pools UnInit has waited for
  \* history
  accepted,      \* the calls that AsyncProcess gave to a pool
  executed,      \* the calls the database has executed
  outcome,       \* what became of them there
  told           \* what their callers have been told

poolVars  == <<tasks, worker, notified, active, target, busy>>
callVars  == <<calls, event, bSuccess, posted, signaled>>
logicVars == <<logic, handling, waitsFor, waited>>
history   == <<accepted, executed, outcome, told>>
vars == <<work_service, made, connectionPool, poolVars, callVars, logicVars, history>>

Workers == {"none", "fetch", "waiting", "running", "post", "leaving", "ended"}

TypeOK ==
  /\ work_service \in BOOLEAN
  /\ made \subseteq Connection /\ connectionPool \subseteq made
  /\ tasks \in [Connection -> Seq(Call)]
  /\ worker \in [Connection -> Workers]
  /\ notified \in [Connection -> BOOLEAN]
  /\ active \in [Connection -> {0, 1}] /\ target \in [Connection -> {0, 1}]
  /\ busy \in [Connection -> Call \cup {NoCall}]
  /\ calls \in Seq([conn : Connection, kind : Kind]) /\ Len(calls) <= MaxCall
  /\ event \in [Call -> {"none", "alive", "cleared", "freed"}]
  /\ bSuccess \in [Call -> BOOLEAN]
  /\ posted \in Seq(Call) /\ signaled \subseteq Call
  /\ logic \in {"loop", "app", "blocked", "uninit"}
  /\ handling \in Call \cup {NoCall} /\ waitsFor \in Call \cup {NoCall}
  /\ waited \subseteq Connection
  /\ accepted \subseteq Call /\ executed \subseteq Call
  /\ outcome \in [Call -> {"none", "done", "refused", "threw"}]
  /\ told \in [Call -> {"none", "value", "nil"}]

Init ==
  /\ work_service \in BOOLEAN
  /\ made = {} /\ connectionPool = {}
  /\ tasks = [c \in Connection |-> <<>>]
  /\ worker = [c \in Connection |-> "none"]
  /\ notified = [c \in Connection |-> FALSE]
  /\ active = [c \in Connection |-> 0] /\ target = [c \in Connection |-> 0]
  /\ busy = [c \in Connection |-> NoCall]
  /\ calls = <<>>
  /\ event = [k \in Call |-> "none"]
  /\ bSuccess = [k \in Call |-> FALSE]
  /\ posted = <<>> /\ signaled = {}
  /\ logic = "loop"
  /\ handling = NoCall /\ waitsFor = NoCall /\ waited = {}
  /\ accepted = {} /\ executed = {}
  /\ outcome = [k \in Call |-> "none"]
  /\ told = [k \in Call |-> "none"]
-----------------------------------------------------------------------------
(* The logic thread: application code, run by a handler or in a coroutine  *)
(* that the handler of an answer resumes.                                  *)

\* Any other handler of the io_service.
StartApp ==
  /\ logic = "loop" /\ logic' = "app"
  /\ UNCHANGED <<work_service, made, connectionPool, poolVars, callVars, handling, waitsFor,
                 waited, history>>

\* The coroutine has yielded; the handler of a write destroys its event now.
ReturnFromApp ==
  /\ logic = "app" /\ logic' = "loop"
  /\ handling' = NoCall
  /\ event' = IF handling = NoCall THEN event ELSE [event EXCEPT ![handling] = "freed"]
  /\ UNCHANGED <<work_service, made, connectionPool, poolVars, calls, bSuccess, posted,
                 signaled, waitsFor, waited, history>>

\* connection_new: the new pool's thread counts as active until it first waits.
New(c) ==
  /\ logic = "app" /\ c \notin made
  /\ made' = made \cup {c}
  /\ connectionPool' = connectionPool \cup {c}
  /\ worker' = [worker EXCEPT ![c] = "fetch"]
  /\ active' = [active EXCEPT ![c] = 1]
  /\ target' = [target EXCEPT ![c] = 1]
  /\ UNCHANGED <<work_service, tasks, notified, busy, callVars, logicVars, history>>

\* Mutant: the newest task first.
AsyncProcessLifo(c, k) ==
  IF c \in connectionPool
  THEN /\ tasks' = [tasks EXCEPT ![c] = <<k>> \o @]
       /\ notified' = [notified EXCEPT ![c] = TRUE]
       /\ accepted' = accepted \cup {k}
  ELSE UNCHANGED <<tasks, notified, accepted>>

\* Mutant: the thread is not notified.
AsyncProcessQuiet(c, k) ==
  IF c \in connectionPool
  THEN /\ tasks' = [tasks EXCEPT ![c] = Append(@, k)]
       /\ accepted' = accepted \cup {k}
       /\ UNCHANGED notified
  ELSE UNCHANGED <<tasks, notified, accepted>>

\* SDBServer::AsyncProcess with schedule: what has no pool is turned away, and no
\* caller looks.
AsyncProcess(c, k) ==
  IF c \in connectionPool
  THEN /\ tasks' = [tasks EXCEPT ![c] = Append(@, k)]
       /\ notified' = [notified EXCEPT ![c] = TRUE]
       /\ accepted' = accepted \cup {k}
  ELSE UNCHANGED <<tasks, notified, accepted>>

\* connection_insert, _remove, _update, _runcommand, _count and _query; only the
\* last may wait for its answer.
MakeCall(c, kind) ==
  LET k == Len(calls) + 1
  IN
  /\ logic = "app" /\ c \in made
  /\ k <= MaxCall
  /\ calls' = Append(calls, [conn |-> c, kind |-> kind])
  /\ event' = [event EXCEPT ![k] = "alive"]
  /\ AsyncProcess(c, k)
  /\ IF kind = "blocking" THEN logic' = "blocked" /\ waitsFor' = k
                          ELSE UNCHANGED <<logic, waitsFor>>
  /\ UNCHANGED <<work_service, made, connectionPool, worker, active, target, busy, bSuccess,
                 posted, signaled, handling, waited, executed, outcome, told>>

\* Mutant: the wait times out.
QueryTimesOut ==
  /\ logic = "blocked"
  /\ logic' = "app" /\ waitsFor' = NoCall
  /\ event' = [event EXCEPT ![waitsFor] = "freed"]
  /\ signaled' = signaled \ {waitsFor}
  /\ told' = [told EXCEPT ![waitsFor] = "value"]
  /\ UNCHANGED <<work_service, made, connectionPool, poolVars, calls, bSuccess, posted,
                 handling, waited, accepted, executed, outcome>>

\* connection_query behind WaitForSingleObject.
QueryReturns ==
  /\ logic = "blocked" /\ waitsFor \in signaled
  /\ logic' = "app" /\ waitsFor' = NoCall
  /\ event' = [event EXCEPT ![waitsFor] = "freed"]
  /\ signaled' = signaled \ {waitsFor}
  /\ told' = [told EXCEPT ![waitsFor] = "value"]
  /\ UNCHANGED <<work_service, made, connectionPool, poolVars, calls, bSuccess, posted,
                 handling, waited, accepted, executed, outcome>>

KindOf(k) == calls[k].kind
ConnOf(k) == calls[k].conn

\* Handle_Insert, _Update and _Remove resume the coroutine before they destroy the
\* event, Handle_Query, _Command and _Count after.
RunHandler ==
  LET k == Head(posted)
  IN
  /\ logic = "loop" /\ posted # <<>>
  /\ posted' = Tail(posted)
  /\ logic' = "app"
  /\ told' = [told EXCEPT ![k] =
                IF KindOf(k) = "command" /\ ~bSuccess[k] THEN "nil" ELSE "value"]
  /\ IF KindOf(k) = "write"
     THEN event' = [event EXCEPT ![k] = "cleared"] /\ handling' = k
     ELSE event' = [event EXCEPT ![k] = "freed"] /\ UNCHANGED handling
  /\ UNCHANGED <<work_service, made, connectionPool, poolVars, calls, bSuccess, signaled,
                 waitsFor, waited, accepted, executed, outcome>>

\* SDBServer::UnInit: pool after pool it waits until nothing is active or queued,
\* then the map is cleared.
UnInit ==
  /\ logic = "app" /\ connectionPool # {}
  /\ logic' = "uninit" /\ waited' = {}
  /\ UNCHANGED <<work_service, made, connectionPool, poolVars, callVars, handling, waitsFor,
                 history>>

\* Mutant: it looks at the queue only.
UnInitWaitQueue(c) ==
  /\ logic = "uninit" /\ c \in connectionPool \ waited
  /\ tasks[c] = <<>>
  /\ waited' = waited \cup {c}
  /\ UNCHANGED <<work_service, made, connectionPool, poolVars, callVars, logic, handling,
                 waitsFor, history>>

UnInitWait(c) ==
  /\ logic = "uninit" /\ c \in connectionPool \ waited
  /\ active[c] = 0 /\ tasks[c] = <<>>
  /\ waited' = waited \cup {c}
  /\ UNCHANGED <<work_service, made, connectionPool, poolVars, callVars, logic, handling,
                 waitsFor, history>>

\* The last reference to a pool is dropped: wait_for_all_tasks::shutdown, which
\* waits again, then has its thread leave and waits while that is active.
UnInitClear(c) ==
  /\ logic = "uninit" /\ connectionPool \subseteq waited
  /\ c \in connectionPool
  /\ active[c] = 0 /\ tasks[c] = <<>>
  /\ target' = [target EXCEPT ![c] = 0]
  /\ notified' = [notified EXCEPT ![c] = TRUE]
  /\ connectionPool' = connectionPool \ {c}
  /\ logic' = IF connectionPool' = {} THEN "app" ELSE "uninit"
  /\ UNCHANGED <<work_service, made, tasks, worker, active, busy, callVars, handling,
                 waitsFor, waited, history>>
-----------------------------------------------------------------------------
(* The thread of a pool: execute_task and what it calls.                   *)

\* Mutant: the task is not popped.
TakeTaskKeep(c) ==
  /\ worker' = [worker EXCEPT ![c] = "running"]
  /\ busy' = [busy EXCEPT ![c] = Head(tasks[c])]
  /\ UNCHANGED tasks

TakeTask(c) ==
  /\ worker' = [worker EXCEPT ![c] = "running"]
  /\ busy' = [busy EXCEPT ![c] = Head(tasks[c])]
  /\ tasks' = [tasks EXCEPT ![c] = Tail(@)]

\* Mutant: a thread that waits is still counted.
StayActive(c) == UNCHANGED active

Deactivate(c) == active' = [active EXCEPT ![c] = @ - 1]

\* Mutant: a thread that wakes is not counted again.
ActivateNot(c) == UNCHANGED active

Activate(c) == active' = [active EXCEPT ![c] = @ + 1]

\* execute_task up to the task, or up to the wait on an empty queue.
FetchTask(c) ==
  /\ worker[c] = "fetch"
  /\ \/ /\ target[c] = 0
        /\ worker' = [worker EXCEPT ![c] = "leaving"]
        /\ UNCHANGED <<tasks, notified, active, busy>>
     \/ /\ target[c] = 1 /\ tasks[c] # <<>>
        /\ TakeTask(c)
        /\ UNCHANGED <<notified, active>>
     \/ /\ target[c] = 1 /\ tasks[c] = <<>>
        /\ worker' = [worker EXCEPT ![c] = "waiting"]
        /\ Deactivate(c)
        /\ notified' = [notified EXCEPT ![c] = FALSE]
        /\ UNCHANGED <<tasks, busy>>
  /\ UNCHANGED <<work_service, made, connectionPool, target, callVars, logicVars, history>>

\* The wait returns; if there is neither a task nor a reason to leave, it waits on.
WakeUp(c) ==
  /\ worker[c] = "waiting" /\ notified[c]
  /\ notified' = [notified EXCEPT ![c] = FALSE]
  /\ Activate(c)
  /\ \/ /\ tasks[c] # <<>>
        /\ TakeTask(c)
     \/ /\ tasks[c] = <<>> /\ target[c] = 0
        /\ worker' = [worker EXCEPT ![c] = "leaving"]
        /\ UNCHANGED <<tasks, busy>>
  /\ UNCHANGED <<work_service, made, connectionPool, target, callVars, logicVars, history>>

\* worker_destructed.
Leave(c) ==
  /\ worker[c] = "leaving"
  /\ worker' = [worker EXCEPT ![c] = "ended"]
  /\ Deactivate(c)
  /\ UNCHANGED <<work_service, made, connectionPool, tasks, notified, target, busy, callVars,
                 logicVars, history>>

\* Mutant: the catch leaves bSuccess as it is.
BSuccessUncaught(result) == IF result = "done" THEN {TRUE} ELSE BOOLEAN

\* What CDBCommandEvent::bSuccess may be after a command: if the database refuses it
\* without throwing, it is what the memory held.
BSuccess(result) == IF result = "done" THEN {TRUE}
                    ELSE IF result = "threw" THEN {FALSE} ELSE BOOLEAN

\* Do_Excute up to its last if.  What becomes of the other calls makes no
\* difference to their answers.
Execute(c) ==
  LET k == busy[c]
  IN
  /\ worker[c] = "running"
  /\ worker' = [worker EXCEPT ![c] = "post"]
  /\ executed' = executed \cup {k}
  /\ \E result \in IF KindOf(k) = "command" THEN {"done", "refused", "threw"} ELSE {"done"} :
        /\ outcome' = [outcome EXCEPT ![k] = result]
        /\ \E b \in BSuccess(result) : bSuccess' = [bSuccess EXCEPT ![k] = b]
  /\ UNCHANGED <<work_service, made, connectionPool, tasks, notified, active, target, busy,
                 calls, event, posted, signaled, logicVars, accepted, told>>

\* Its last if: a handler is posted, or the caller's Windows event is set.
PostAnswer(c) ==
  LET k == busy[c]
  IN
  /\ worker[c] = "post"
  /\ worker' = [worker EXCEPT ![c] = "fetch"]
  /\ busy' = [busy EXCEPT ![c] = NoCall]
  /\ posted' = IF KindOf(k) # "blocking" /\ work_service THEN Append(posted, k) ELSE posted
  /\ signaled' = IF KindOf(k) = "blocking" THEN signaled \cup {k} ELSE signaled
  /\ UNCHANGED <<work_service, made, connectionPool, tasks, notified, active, target, calls,
                 event, bSuccess, logicVars, history>>

Work(c) == FetchTask(c) \/ WakeUp(c) \/ Leave(c) \/ Execute(c) \/ PostAnswer(c)

Next == \/ StartApp \/ ReturnFromApp \/ QueryReturns \/ RunHandler \/ UnInit
        \/ \E c \in Connection : \/ New(c)
                                 \/ \E kind \in Kind : MakeCall(c, kind)
                                 \/ UnInitWait(c) \/ UnInitClear(c) \/ Work(c)

Spec == Init /\ [][Next]_vars

\* Threads run; the database answers or throws; the application comes back to the
\* io_service, which serves its handlers in the order they were posted.
FairSpec ==
  /\ Spec
  /\ WF_vars(ReturnFromApp) /\ WF_vars(QueryReturns) /\ SF_vars(RunHandler)
  /\ \A c \in Connection : /\ WF_vars(Work(c))
                           /\ WF_vars(UnInitWait(c)) /\ WF_vars(UnInitClear(c))
-----------------------------------------------------------------------------
Times(k, s) == Cardinality({i \in DOMAIN s : s[i] = k})

\* A call is executed and answered from one place at a time: an accepted call whose
\* caller has not been told is queued, running, posted or signaled once; after
\* that it is nowhere.  (Without an io_service its answer goes nowhere.)
NothingLost ==
  \A k \in accepted :
    LET c == ConnOf(k)
        places == Times(k, tasks[c]) + Cardinality({d \in Connection : busy[d] = k})
                  + Times(k, posted) + Cardinality({k} \cap signaled)
    IN  IF \/ told[k] # "none"
           \/ ~work_service /\ KindOf(k) # "blocking" /\ k \in executed /\ busy[c] # k
        THEN places = 0
        ELSE places = 1

\* No thread meets an event that its handler has cleared or destroyed, neither
\* the pool's nor, in a later handler, the logic thread.
EventsAlive ==
  \A k \in Call :
    \/ \E c \in Connection : busy[c] = k \/ Times(k, tasks[c]) > 0
    \/ Times(k, posted) > 0 \/ k \in signaled \/ waitsFor = k
    => event[k] = "alive"

\* "Wait until all tasks are finished": once UnInit has waited for a pool nothing
\* runs or is queued there any more, whatever the thread does when it is woken.
UnInitDrains ==
  \A c \in made : (logic = "uninit" /\ c \in waited) \/ c \notin connectionPool =>
    tasks[c] = <<>> /\ busy[c] = NoCall

\* A command that was executed is never answered with nil, and one that threw is
\* never answered with a value.
CommandTold ==
  \A k \in Call : /\ told[k] = "nil" => outcome[k] # "done"
                  /\ told[k] = "value" => outcome[k] \in {"done", "refused"}

\* The calls on a connection are executed and answered as DBService promises.
Service == INSTANCE DBService
             WITH on <- [k \in Call |-> IF k \in accepted THEN ConnOf(k) ELSE None],
                  direct <- {k \in accepted : KindOf(k) = "blocking"},
                  answered <- {k \in Call : told[k] # "none"},
                  Peer <- Connection

ServiceSpec == Service!Spec

\* The logic thread waits for a query that no pool has: it was made after UnInit.
Hung == logic = "blocked" /\ waitsFor \notin accepted

\* Every accepted call is answered, if there is an io_service to answer through
\* and the logic thread has not hung itself up.
AnswersArrive ==
  \A k \in Call : k \in accepted /\ (work_service \/ KindOf(k) = "blocking")
                    ~> told[k] # "none" \/ Hung

\* UnInit comes back.
UnInitReturns == logic = "uninit" ~> logic = "app"
=============================================================================
