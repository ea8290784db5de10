---------------------------- MODULE ThreadPool ----------------------------
(***************************************************************************)
(* The thread pool (thread_pool.h: ThreadPool): a queue of tasks under a   *)
(* mutex, workers that wait for a task with a condition variable, and a    *)
(* destructor that stops and joins them.                                   *)
(*                                                                         *)
(* What a thread does while it holds queue_mutex is one action.  The       *)
(* notifications come after the mutex is released and are actions of their *)
(* own, and the condition variable may wake a worker without any (a        *)
(* spurious wakeup).  Tasks enqueue too: a worker is then the caller.      *)
(*                                                                         *)
(* The contract of any destructor: clients have returned from enqueue and  *)
(* call it no more.  Tasks that still run may call it.                     *)
(***************************************************************************)
EXTENDS Integers, FiniteSets, Sequences

CONSTANTS
  Workers,   \* the threads of the pool
  Clients,   \* the other threads that call enqueue
  Tasks,     \* bound: the tasks, each enqueued at most once
  None       \* no task

ASSUME PoolAssumption ==
  /\ IsFiniteSet(Workers) /\ IsFiniteSet(Clients)
  /\ Workers \cap Clients = {}
  /\ None \notin Tasks

Callers == Workers \union Clients

VARIABLES
  tasks,      \* the queue of tasks
  stop,
  state,      \* of each worker: "ready" to test the predicate of the wait,
              \* "waiting", "running" a task, or "exited"
  task,       \* of each worker: the task it runs
  notifying,  \* the callers between the unlock and notify_one
  owner,      \* the thread with the pool: "using" it, in the destructor
              \* "notifying" or "joining", or the pool is "gone"
  accepted,   \* history: the tasks enqueued, in their order
  started,    \* history: the tasks taken from the queue, in their order
  refused,    \* history: the tasks for which enqueue has thrown
  done        \* history: the tasks that were executed

vars == <<tasks, stop, state, task, notifying, owner, accepted, started, refused, done>>
history == <<accepted, started, refused, done>>

RangeOf(s) == {s[k] : k \in DOMAIN s}
InState(st) == {w \in Workers : state[w] = st}

-----------------------------------------------------------------------------
\* A thread outside of enqueue that may call it: a client while the pool is
\* in use, or a worker that runs a task.
CanCall(c) ==
  /\ c \notin notifying
  /\ IF c \in Clients THEN owner = "using" ELSE state[c] = "running"

Fresh(t) == t \notin RangeOf(accepted) \union refused

\* ThreadPool::enqueue up to the unlock.
Enqueue(c, t) ==
  /\ CanCall(c) /\ Fresh(t)
  /\ ~stop
  /\ tasks' = Append(tasks, t)
  /\ accepted' = Append(accepted, t)
  /\ notifying' = notifying \union {c}
  /\ UNCHANGED <<stop, state, task, owner, started, refused, done>>

\* ThreadPool::enqueue throws.
Refuse(c, t) ==
  /\ CanCall(c) /\ Fresh(t)
  /\ stop
  /\ refused' = refused \union {t}
  /\ UNCHANGED <<tasks, stop, state, task, notifying, owner, accepted, started, done>>

\* A call that notifies only if the queue was empty: here it does nothing
\* when there is more than one task.
WakeOneIfFirst ==
  IF InState("waiting") = {} \/ Len(tasks) > 1 THEN UNCHANGED state
  ELSE \E w \in InState("waiting") : state' = [state EXCEPT ![w] = "ready"]

\* condition.notify_one: one of the waiting workers, if there is one, will test
\* the predicate.
WakeOne ==
  IF InState("waiting") = {} THEN UNCHANGED state
  ELSE \E w \in InState("waiting") : state' = [state EXCEPT ![w] = "ready"]

\* The end of enqueue.
NotifyOne(c) ==
  /\ c \in notifying
  /\ WakeOne
  /\ notifying' = notifying \ {c}
  /\ UNCHANGED <<tasks, stop, task, owner, history>>

-----------------------------------------------------------------------------
\* A wait whose predicate looks at the queue only.
MayProceedWithTask == tasks # << >>

\* The predicate of the wait.
MayProceed == stop \/ tasks # << >>

\* A worker goes to sleep, and releases the mutex as it does so.
Wait(w) ==
  /\ state[w] = "ready" /\ ~MayProceed
  /\ state' = [state EXCEPT ![w] = "waiting"]
  /\ UNCHANGED <<tasks, stop, task, notifying, owner, history>>

SpuriousWake(w) ==
  /\ state[w] = "waiting"
  /\ state' = [state EXCEPT ![w] = "ready"]
  /\ UNCHANGED <<tasks, stop, task, notifying, owner, history>>

\* A worker that ends as soon as the pool is stopped.
MayReturnAtOnce == stop

\* The condition under which a worker ends.
MayReturn == stop /\ tasks = << >>

\* A worker that copies the first task and leaves it in the queue.
TakeCopy(w) ==
  /\ state[w] = "ready" /\ MayProceed /\ ~MayReturn
  /\ task' = [task EXCEPT ![w] = Head(tasks)]
  /\ started' = Append(started, Head(tasks))
  /\ state' = [state EXCEPT ![w] = "running"]
  /\ UNCHANGED <<tasks, stop, notifying, owner, accepted, refused, done>>

\* A worker takes the first task of the queue.
Take(w) ==
  /\ state[w] = "ready" /\ MayProceed /\ ~MayReturn
  /\ task' = [task EXCEPT ![w] = Head(tasks)]
  /\ tasks' = Tail(tasks)
  /\ started' = Append(started, Head(tasks))
  /\ state' = [state EXCEPT ![w] = "running"]
  /\ UNCHANGED <<stop, notifying, owner, accepted, refused, done>>

\* The thread of a worker ends.
Return(w) ==
  /\ state[w] = "ready" /\ MayProceed /\ MayReturn
  /\ state' = [state EXCEPT ![w] = "exited"]
  /\ UNCHANGED <<tasks, stop, task, notifying, owner, history>>

\* The call of the task returns; what it throws is kept in its future.
Finish(w) ==
  /\ state[w] = "running" /\ w \notin notifying
  /\ done' = done \union {task[w]}
  /\ task' = [task EXCEPT ![w] = None]
  /\ state' = [state EXCEPT ![w] = "ready"]
  /\ UNCHANGED <<tasks, stop, notifying, owner, accepted, started, refused>>

-----------------------------------------------------------------------------
\* The destructor up to the unlock.
Stop ==
  /\ owner = "using" /\ notifying \cap Clients = {}
  /\ stop' = TRUE
  /\ owner' = "notifying"
  /\ UNCHANGED <<tasks, state, task, notifying, history>>

\* condition.notify_all
NotifyAll ==
  /\ owner = "notifying"
  /\ state' = [w \in Workers |-> IF state[w] = "waiting" THEN "ready" ELSE state[w]]
  /\ owner' = "joining"
  /\ UNCHANGED <<tasks, stop, task, notifying, history>>

\* Every worker is joined, and the members of the pool are destroyed.
Join ==
  /\ owner = "joining" /\ \A w \in Workers : state[w] = "exited"
  /\ owner' = "gone"
  /\ UNCHANGED <<tasks, stop, state, task, notifying, history>>

-----------------------------------------------------------------------------
Init ==
  /\ tasks = << >>
  /\ stop = FALSE
  /\ state = [w \in Workers |-> "ready"]
  /\ task = [w \in Workers |-> None]
  /\ notifying = {}
  /\ owner = "using"
  /\ accepted = << >> /\ started = << >> /\ refused = {} /\ done = {}

DestructorStep == NotifyAll \/ Join

WorkerStep(w) == Wait(w) \/ Take(w) \/ Return(w) \/ Finish(w)

Next ==
  \/ \E c \in Callers, t \in Tasks : Enqueue(c, t) \/ Refuse(c, t)
  \/ \E c \in Callers : NotifyOne(c)
  \/ \E w \in Workers : WorkerStep(w) \/ SpuriousWake(w)
  \/ Stop
  \/ DestructorStep

\* Every worker that can go on goes on, as the mutex is held for a few
\* instructions only and task bodies return; somebody who has to notify does;
\* and the destructor goes on.  Nobody has to call enqueue or the destructor.
Fairness ==
  /\ \A w \in Workers : WF_vars(WorkerStep(w))
  /\ WF_vars(\E c \in Callers : NotifyOne(c))
  /\ WF_vars(DestructorStep)

Spec == Init /\ [][Next]_vars /\ Fairness

-----------------------------------------------------------------------------
\* The type invariant.  A worker has a task exactly while it runs one.
TypeOK ==
  /\ tasks \in Seq(Tasks) /\ accepted \in Seq(Tasks) /\ started \in Seq(Tasks)
  /\ stop \in BOOLEAN
  /\ state \in [Workers -> {"ready", "waiting", "running", "exited"}]
  /\ task \in [Workers -> Tasks \union {None}]
  /\ \A w \in Workers : task[w] # None <=> state[w] = "running"
  /\ notifying \subseteq Callers
  /\ \A w \in notifying \cap Workers : state[w] = "running"
  /\ owner \in {"using", "notifying", "joining", "gone"}
  /\ stop <=> owner # "using"
  /\ refused \subseteq Tasks /\ done \subseteq Tasks

\* No task that enqueue took is lost, run twice or overtaken: the tasks taken
\* from the queue, followed by those in it, are the tasks accepted in their
\* order, no two of them are the same, and each one taken is either executed
\* or the task of exactly one worker.
EachTaskOnce ==
  /\ accepted = started \o tasks
  /\ \A j, k \in DOMAIN accepted : accepted[j] = accepted[k] => j = k
  /\ \A w \in Workers : task[w] # None => task[w] \in RangeOf(started) \ done
  /\ \A v, w \in Workers : v # w /\ task[v] # None => task[v] # task[w]
  /\ RangeOf(started) = done \union {task[w] : w \in InState("running")}
  /\ RangeOf(accepted) \cap refused = {}

\* No worker sleeps through work: as long as one waits, there are at least as
\* many notifications and awake workers to come as there are tasks, although
\* a notification may find a worker that is not waiting any more.
NoLostWakeup ==
  InState("waiting") # {} =>
    /\ Len(tasks) <= Cardinality(notifying) + Cardinality(InState("ready"))
    /\ stop => owner = "notifying"

\* When the pool is gone every task it accepted has been executed.
DrainedAtEnd == owner = "gone" => tasks = << >> /\ RangeOf(accepted) = done

\* Every task that is accepted is executed, and the destructor, once called,
\* returns: as there are only so many tasks, it happens again and again that
\* nothing is left to do.
PoolFinishes == []<>(RangeOf(accepted) \subseteq done /\ (stop => owner = "gone"))
=============================================================================
