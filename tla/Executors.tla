----------------------------- MODULE Executors -----------------------------
(***************************************************************************)
(* What runs tasks: the thread pool, and of the task scheduler a thread's  *)
(* queue of tasks and the fibers with their mutex and counter.  The three  *)
(* share nothing, so that it is enough to look at behaviours in which two  *)
(* of them are as they are at the start while the third moves.             *)
(***************************************************************************)
EXTENDS ThreadPool, WaitFreeQueue, Fibtex

allVars == <<vars, queueVars, fibtexVars>>

OfPool(A) == QueueInit /\ FibtexInit /\ A /\ UNCHANGED <<queueVars, fibtexVars>>
OfQueue(A) == Init /\ FibtexInit /\ A /\ UNCHANGED <<vars, fibtexVars>>
OfFibers(A) == Init /\ QueueInit /\ A /\ UNCHANGED <<vars, queueVars>>

ExecutorsInit == Init /\ QueueInit /\ FibtexInit

ExecutorsNext == OfPool(Next) \/ OfQueue(QueueNext) \/ OfFibers(FibtexNext)

\* Fairness of the pool as it states it itself.  A task body returns, a fiber that can
\* go on gets a thread in the end, and a task leaves the mutex: whatever a
\* fiber does but to lock once more happens.  Nothing of the queue is fair.
ExecutorsFairness ==
  /\ \A w \in Workers : WF_allVars(OfPool(WorkerStep(w)))
  /\ WF_allVars(OfPool(\E c \in Callers : NotifyOne(c)))
  /\ WF_allVars(OfPool(DestructorStep))
  /\ WF_allVars(OfFibers(MainStep))
  /\ \A f \in TaskFibers : WF_allVars(OfFibers(FiberStep(f)))

ExecutorsSpec == ExecutorsInit /\ [][ExecutorsNext]_allVars /\ ExecutorsFairness

-----------------------------------------------------------------------------
\* The type invariants of the three.
ExecutorsTypeOK == TypeOK /\ QueueTypeOK /\ FibtexTypeOK
=============================================================================
