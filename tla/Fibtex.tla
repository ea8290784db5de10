------------------------------- MODULE Fibtex -------------------------------
(***************************************************************************)
(* The mutex of fibers (ftl, fibtex.h: Fibtex, LockWrapper) with the       *)
(* counter it is made of, and a group of tasks with the counter that a     *)
(* main fiber waits for before it destroys both: the use of counters that  *)
(* scheduler.h makes, with tasks that lock.                                *)
(***************************************************************************)
EXTENDS AtomicCounter

CONSTANTS
  Main,           \* the fiber that adds the tasks; the others each run one
  Behaviors,      \* of each fiber: the ways in which it locks, see Begin
  AbleToSpin,     \* m_ableToSpin: there is more than one thread
  Iterations,     \* of lock_spin: 1000
  MaxLocks        \* bound: how often a task locks

ASSUME FibtexAssumption ==
  /\ Main \in Fibers
  /\ {"mutex", "tasks"} \subseteq Counters
  /\ Behaviors \in [Fibers \ {Main} -> SUBSET {"Traditional", "Spin", "SpinInfinite", "Try"}]
  /\ Iterations \in Nat \ {0} /\ MaxLocks \in Nat
  /\ Cardinality(Fibers) < ValueRange   \* or the count of the tasks wraps around

VARIABLES
  stage,   \* what each fiber is doing
  way,     \* the way each fiber locks
  spins,   \* how often it will try still, before it yields
  locks    \* how often each has locked

fibtexVars == <<counterVars, stage, way, spins, locks>>
ownVars == <<way, spins, locks>>

TaskFibers == Fibers \ {Main}

Goes(f, st) == stage' = [stage EXCEPT ![f] = st]

\* Fiber f at this stage calls nothing, or its call has returned.
Free(f, st) == stage[f] = st /\ call[f] = NoCall
Returned(f, st) == stage[f] = st /\ call[f].at = "returned"

\* The fiber uses the result of its call.
EndCall(f) ==
  /\ call' = [call EXCEPT ![f] = NoCall]
  /\ UNCHANGED <<value, inside, waiting, destroyed>>

FibtexInit ==
  /\ CounterInit
  /\ stage = [f \in Fibers |-> IF f = Main THEN "start" ELSE "new"]
  /\ way = [f \in Fibers |-> "Traditional"]
  /\ spins = [f \in Fibers |-> 0]
  /\ locks = [f \in Fibers |-> 0]

-----------------------------------------------------------------------------
\* LockWrapper::lock or try_lock, up to the first compare-and-exchange.
Begin(f, b) ==
  /\ Free(f, "ready") /\ locks[f] < MaxLocks
  /\ locks' = [locks EXCEPT ![f] = @ + 1]
  /\ way' = [way EXCEPT ![f] = IF AbleToSpin \/ b = "Try" THEN b ELSE "Traditional"]
  /\ spins' = [spins EXCEPT ![f] = IF way'[f] = "Spin" THEN Iterations ELSE 0]
  /\ Goes(f, "locking")
  /\ UNCHANGED counterVars

EndLocking(f) ==
  /\ way' = [way EXCEPT ![f] = "Traditional"]
  /\ spins' = [spins EXCEPT ![f] = 0]

Attempt(f) ==
  /\ Free(f, "locking")
  /\ Enter(f, "mutex", CompareExchange(0, 1))
  /\ UNCHANGED <<stage, ownVars>>

Locked(f) ==
  /\ Returned(f, "locking") /\ call[f].result
  /\ Goes(f, "holding")
  /\ EndLocking(f)
  /\ EndCall(f) /\ UNCHANGED locks

\* lock: the fiber yields.
Yield(f) ==
  /\ Returned(f, "locking") /\ ~call[f].result
  /\ way[f] = "Traditional"
  /\ WaitForCounter(f, "mutex", 0)
  /\ Goes(f, "waiting") /\ UNCHANGED ownVars

\* lock tries again.
Retry(f) ==
  /\ Returned(f, "waiting")
  /\ Goes(f, "locking")
  /\ EndCall(f) /\ UNCHANGED ownVars

\* lock_spin and lock_spin_infinite try again; lock_spin calls lock in the end.
Spin(f) ==
  /\ Returned(f, "locking") /\ ~call[f].result
  /\ way[f] \in {"Spin", "SpinInfinite"}
  /\ IF way[f] = "SpinInfinite" THEN UNCHANGED <<way, spins>>
     ELSE /\ spins' = [spins EXCEPT ![f] = @ - 1]
          /\ way' = [way EXCEPT ![f] = IF spins[f] > 1 THEN @ ELSE "Traditional"]
  /\ EndCall(f) /\ UNCHANGED <<stage, locks>>

\* try_lock returns false.
GiveUp(f) ==
  /\ Returned(f, "locking") /\ ~call[f].result
  /\ way[f] = "Try"
  /\ Goes(f, "ready")
  /\ EndLocking(f)
  /\ EndCall(f) /\ UNCHANGED locks

Unlock(f) ==
  /\ Free(f, "holding")
  /\ Enter(f, "mutex", CompareExchange(1, 0))
  /\ Goes(f, "unlocking") /\ UNCHANGED ownVars

Unlocked(f) ==
  /\ Returned(f, "unlocking")
  /\ Goes(f, "ready")
  /\ EndCall(f) /\ UNCHANGED ownVars

-----------------------------------------------------------------------------
\* The main fiber counts the tasks, as AddTasks does, or sets the counter.
CountTasks(o) ==
  /\ Free(Main, "start")
  /\ Enter(Main, "tasks", o)
  /\ Goes(Main, "adding") /\ UNCHANGED ownVars

\* It adds them.  (One by one; a task added late is one that is begun late.)
AddTasks ==
  /\ Returned(Main, "adding")
  /\ stage' = [f \in Fibers |-> IF f = Main THEN "added" ELSE "ready"]
  /\ EndCall(Main) /\ UNCHANGED ownVars

\* waitCounter looks at the counter, while tasks run.  It waits ...
LoadCounter ==
  /\ Free(Main, "added")
  /\ Enter(Main, "tasks", Load)
  /\ Goes(Main, "looking") /\ UNCHANGED ownVars

WaitForTasks ==
  /\ Returned(Main, "looking") /\ call[Main].result # 0
  /\ WaitForCounter(Main, "tasks", 0)
  /\ Goes(Main, "waiting") /\ UNCHANGED ownVars

\* ... unless all tasks have counted down.
SkipWaiting ==
  /\ Returned(Main, "looking") /\ call[Main].result = 0
  /\ Goes(Main, "destroying")
  /\ EndCall(Main) /\ UNCHANGED ownVars

\* A task ends, and its counter is decremented.
EndTask(f) ==
  /\ Free(f, "ready")
  /\ Enter(f, "tasks", FetchSub(1))
  /\ Goes(f, "ending") /\ UNCHANGED ownVars

TaskEnded(f) ==
  /\ Returned(f, "ending")
  /\ Goes(f, "ended")
  /\ EndCall(f) /\ UNCHANGED ownVars

\* The main fiber goes on.  It reads the counter once more, ...
MainResumes ==
  /\ Returned(Main, "waiting")
  /\ Goes(Main, "resumed")
  /\ EndCall(Main) /\ UNCHANGED ownVars

ReadCounter ==
  /\ Free(Main, "resumed")
  /\ Enter(Main, "tasks", Load)
  /\ Goes(Main, "reading") /\ UNCHANGED ownVars

\* ... and it destroys the mutex and the counter.
CounterRead ==
  /\ Returned(Main, "reading")
  /\ Goes(Main, "destroying")
  /\ EndCall(Main) /\ UNCHANGED ownVars

DestroyCounter(c) ==
  /\ stage[Main] = "destroying"
  /\ Destroy(c)
  /\ UNCHANGED <<stage, ownVars>>

-----------------------------------------------------------------------------
\* What a fiber does next, but that it locks once more, ...
FiberStep(f) ==
  \/ CallStep(f) /\ UNCHANGED <<stage, ownVars>>
  \/ Attempt(f) \/ Locked(f) \/ Yield(f) \/ Spin(f) \/ GiveUp(f)
  \/ f # Main /\ (Retry(f) \/ Unlock(f) \/ Unlocked(f) \/ EndTask(f) \/ TaskEnded(f))

\* ... and what the main fiber does.
MainStep ==
  \/ CallStep(Main) /\ UNCHANGED <<stage, ownVars>>
  \/ AddTasks \/ LoadCounter \/ WaitForTasks \/ SkipWaiting
  \/ MainResumes \/ ReadCounter \/ CounterRead
  \/ \E c \in Counters : DestroyCounter(c)

FibtexNext ==
  \/ \E o \in {FetchAdd(Cardinality(TaskFibers)), Store(Cardinality(TaskFibers))} : CountTasks(o)
  \/ MainStep
  \/ \E f \in TaskFibers : FiberStep(f) \/ \E b \in Behaviors[f] : Begin(f, b)

FibtexSpec == FibtexInit /\ [][FibtexNext]_fibtexVars

-----------------------------------------------------------------------------
FibtexTypeOK ==
  /\ CounterTypeOK
  /\ way \in [Fibers -> {"Traditional", "Spin", "SpinInfinite", "Try"}]
  /\ spins \in [Fibers -> 0 .. Iterations] /\ locks \in [Fibers -> 0 .. MaxLocks]
  /\ \A f \in Fibers :
       stage[f] \in IF f = Main
                      THEN {"start", "adding", "added", "looking", "waiting", "resumed", "reading",
                            "destroying"}
                    ELSE {"new", "ready", "locking", "waiting", "holding", "unlocking", "ending", "ended"}

\* The fibers whose lock has been taken and not given back.
Holders ==
  {f \in TaskFibers :
     \/ stage[f] = "holding"
     \/ stage[f] = "unlocking" /\ call[f].at = "entered"
     \/ stage[f] = "locking" /\ call[f].at \in {"checking", "leaving", "returned"} /\ call[f].result}

\* At most one fiber has the mutex, whatever mixture of ways to lock is used,
\* the counter says whether one has it, and unlock never fails its assertion.
MutualExclusion ==
  /\ value["mutex"] = Cardinality(Holders) /\ Cardinality(Holders) <= 1
  /\ \A f \in TaskFibers : Returned(f, "unlocking") => call[f].result

\* waitCounter returns only when every task has counted down, whether it had to
\* wait or not, and a counter is destroyed only when no call is in it and no
\* fiber waits for it: although the last task is in its call still when the
\* fiber that waits goes on.
CountersOutliveCalls ==
  /\ stage[Main] \in {"resumed", "reading", "destroying"} =>
       /\ value["tasks"] = 0
       /\ \A f \in TaskFibers : stage[f] \in {"ending", "ended"}
  /\ \A c \in destroyed :
       /\ inside[c] = 0 /\ waiting[c] = {}
       /\ \A f \in Fibers : call[f] # NoCall => call[f].at = "returned" \/ call[f].counter # c

\* No fiber is left asleep: once the main fiber has begun all tasks end, and it
\* destroys the counters.  (There are slots for all fibers that can wait at a
\* time.)
EveryFiberEnds ==
  []<>(\/ stage[Main] = "start"
       \/ destroyed = Counters /\ \A f \in TaskFibers : stage[f] = "ended")
=============================================================================
