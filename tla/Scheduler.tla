----------------------------- MODULE Scheduler -----------------------------
(***************************************************************************)
(* The scheduler of systems (scheduler.h: Scheduler, System, Job).         *)
(*                                                                         *)
(* The main thread schedules systems and calls runSystems, which gives the *)
(* task scheduler one task for each group of systems.  A group task runs   *)
(* the jobs of the group's systems one after another; for each job it adds *)
(* one task per chunk of the job's view and waits for them.  Jobs record   *)
(* commands, which the main thread executes when all groups are done.      *)
(*                                                                         *)
(* The task scheduler itself is the library ftl, whose implementation is   *)
(* not in the repository.  As its header says: AddTasks adds the number of *)
(* tasks to the counter and queues them, any free thread takes any queued  *)
(* task, a task that ends subtracts one, and WaitForCounter lends the      *)
(* thread to other tasks until the counter is 0.                           *)
(*                                                                         *)
(* `ub' becomes TRUE when the code leaves what C++ defines: it uses a      *)
(* group counter or a part of argBuffer past the end of the array.         *)
(***************************************************************************)
EXTENDS FiniteSets, Lists

CONSTANTS
  Classes,        \* the classes of systems
  JobsOf,         \* of each class: the jobs of scheduleJobs, each named by its query
  GroupCounters,  \* the number of elements of groupCounters: 4 in the code
  BufferSize,     \* the size of argBuffer, in the 16 bytes of a group's argument
  Threads,        \* the number of threads of the task scheduler
  MaxSystems,     \* bound: systems in the list
  MaxGroup,       \* bound: group indices a client chooses itself
  MaxChunks       \* bound: chunks that match a query

ASSUME SchedulerAssumption ==
  /\ \A c \in Classes : JobsOf[c] \in Seq(Range(JobsOf[c]))
  /\ GroupCounters \in Nat \ {0}
  /\ Threads \in Nat \ {0}
  /\ BufferSize \in Nat
  /\ MaxSystems \in Nat /\ MaxGroup \in Nat /\ MaxChunks \in Nat

Queries == UNION {Range(JobsOf[c]) : c \in Classes}
JobNumbers == UNION {DOMAIN JobsOf[c] : c \in Classes}

VARIABLES
  systems,                  \* the sequence of [class, group]
  currentSystemGroupIndex,
  singleThreadedMode,
  currentBufferIndex,
  argBuffer,                \* what was last written at each offset, see Write
  groupCounters,
  main,                     \* the main thread in runSystems: [phase, groups, at]
  queue,                    \* the tasks no thread has taken yet
  fibers,                   \* the started task of each group, see StartGroup
  running,                  \* the tasks on chunks that are being executed
  chunkCount,               \* the store: how many chunks each query finds
  recorded,                 \* jobs have recorded commands not executed yet
  processed,                \* history: how often this run did a job on a chunk
  ub

vars == <<systems, currentSystemGroupIndex, singleThreadedMode, currentBufferIndex,
          argBuffer, groupCounters, main, queue, fibers, running, chunkCount,
          recorded, processed, ub>>

clientVars == <<systems, currentSystemGroupIndex, singleThreadedMode>>
storeVars == <<chunkCount, recorded>>

Idle == [phase |-> "idle", groups |-> << >>, at |-> 0]
Free == [kind |-> "free"]
GroupArg(g) == [kind |-> "group", group |-> g]
JobArg(s, j, c) == [kind |-> "chunk", system |-> s, job |-> j, chunk |-> c]

-----------------------------------------------------------------------------
\* An argument of a chunk counted with the size of a group's.
ArgSizeOfGroup(arg) == 1

\* sizeof(argTuple), in units of 16 bytes: {Scheduler*, int} for a group,
\* {View*, int, Fn*, const char*} for a chunk.
ArgSize(arg) == IF arg.kind = "group" THEN 1 ELSE 2

\* memcpy of an argument at an offset: no other argument that overlaps these
\* bytes is what it was.
Write(buffer, offset, arg) ==
  [k \in DOMAIN buffer |->
     IF k = offset THEN arg
     ELSE IF k \in offset .. offset + ArgSize(arg) - 1 THEN Free
     ELSE IF k + 1 = offset /\ buffer[k].kind = "chunk" THEN Free
     ELSE buffer[k]]

\* currentBufferIndex.fetch_add, then the memcpy; ok says that it fits.
Allocate(arg, ok) ==
  /\ currentBufferIndex' = currentBufferIndex + ArgSize(arg)
  /\ ok = (currentBufferIndex' <= BufferSize)
  /\ argBuffer' = IF ok THEN Write(argBuffer, currentBufferIndex, arg) ELSE argBuffer

\* The threads that execute a task; the main thread is one of them except
\* while it adds the groups.
HasFreeThread ==
  Cardinality({i \in DOMAIN fibers : fibers[i].state = "running"}) + Cardinality(running)
    + (IF main.phase = "adding" THEN 1 ELSE 0) < Threads

\* The groups of the systems, in the order of their first systems.
UniqueGroups ==
  FoldLeft(LAMBDA gs, s : IF s.group \in Range(gs) THEN gs ELSE Append(gs, s.group), << >>, systems)

\* The order of the loops, on <<system, job>>.
Before(p, q) == p[1] < q[1] \/ (p[1] = q[1] /\ p[2] < q[2])

\* The jobs of a group, as <<system, job>>, that come after a position.
JobsAfter(g, pos) ==
  {p \in (DOMAIN systems) \X JobNumbers :
     /\ systems[p[1]].group = g
     /\ p[2] \in DOMAIN JobsOf[systems[p[1]].class]
     /\ Before(pos, p)}

QueryOf(pos) == JobsOf[systems[pos[1]].class][pos[2]]

-----------------------------------------------------------------------------
\* Scheduler::scheduleSystem.  A negative index asks for a group of its own.
ScheduleSystem(class, systemGroupIndex) ==
  /\ ~ub /\ main = Idle
  /\ Len(systems) < MaxSystems
  /\ systems' = Append(systems, [class |-> class,
       group |-> IF systemGroupIndex < 0 THEN currentSystemGroupIndex ELSE systemGroupIndex])
  /\ currentSystemGroupIndex' =
       IF systemGroupIndex < 0 THEN currentSystemGroupIndex + 1 ELSE currentSystemGroupIndex
  /\ UNCHANGED <<singleThreadedMode, currentBufferIndex, argBuffer, groupCounters, main,
                 queue, fibers, running, storeVars, processed, ub>>

\* The client sets the public field.
SetMode ==
  /\ ~ub /\ main = Idle
  /\ singleThreadedMode' = ~singleThreadedMode
  /\ UNCHANGED <<systems, currentSystemGroupIndex, currentBufferIndex, argBuffer, groupCounters,
                 main, queue, fibers, running, storeVars, processed, ub>>

\* runSystems in single-threaded mode: every job on every chunk, and an early
\* return that leaves the systems, their indices and the commands.
RunSingleThreaded ==
  /\ ~ub /\ main = Idle
  /\ singleThreadedMode
  /\ recorded' \in {recorded,
       \E s \in DOMAIN systems : \E q \in Range(JobsOf[systems[s].class]) : chunkCount[q] > 0}
  /\ UNCHANGED <<clientVars, currentBufferIndex, argBuffer, groupCounters, main, queue,
                 fibers, running, chunkCount, processed, ub>>

\* Calls of the store between two runs, by which chunks appear and vanish.
UseStore ==
  /\ ~ub /\ main = Idle
  /\ chunkCount' \in [Queries -> 0 .. MaxChunks]
  /\ UNCHANGED <<clientVars, currentBufferIndex, argBuffer, groupCounters, main, queue,
                 fibers, running, recorded, processed, ub>>

\* runSystems up to the groups and their counters.
RunSystems ==
  /\ ~ub /\ main = Idle
  /\ ~singleThreadedMode
  /\ groupCounters' = [i \in 1 .. GroupCounters |-> 0]
  /\ main' = [phase |-> IF systems = << >> THEN "waiting" ELSE "adding",
              groups |-> UniqueGroups, at |-> 1]
  /\ UNCHANGED <<clientVars, currentBufferIndex, argBuffer, queue, fibers, running,
                 storeVars, processed, ub>>

\* runSystems: the task of the next group.
AddGroupTask ==
  LET arg == GroupArg(main.groups[main.at])
  IN  /\ ~ub /\ main.phase = "adding"
      /\ \E ok \in BOOLEAN :
           /\ Allocate(arg, ok)
           /\ ub' = (~ok \/ main.at > GroupCounters)
      /\ IF ub' THEN UNCHANGED <<queue, groupCounters>>
         ELSE /\ queue' = queue \union {[offset |-> currentBufferIndex, arg |-> arg, counter |-> main.at]}
              /\ groupCounters' = [groupCounters EXCEPT ![main.at] = @ + 1]
      /\ main' = IF main.at < Len(main.groups) THEN [main EXCEPT !.at = @ + 1]
                 ELSE [main EXCEPT !.phase = "waiting"]
      /\ UNCHANGED <<clientVars, fibers, running, storeVars, processed>>

\* Waiting for the first group only.
GroupsDoneFirst == groupCounters[1] = 0

\* The loop of waitCounter over groupCounters is over.
GroupsDone == \A i \in DOMAIN groupCounters : groupCounters[i] = 0

\* A reset that forgets the buffer.
ResetIndicesOfSystems == currentSystemGroupIndex' = 0 /\ UNCHANGED currentBufferIndex

\* The indices from which the next systems and arguments are numbered.
ResetIndices == currentSystemGroupIndex' = 0 /\ currentBufferIndex' = 0

\* The end of runSystems.  What the recorded commands change is any number of
\* chunks.
FinishRun ==
  /\ ~ub /\ main.phase = "waiting"
  /\ GroupsDone /\ HasFreeThread
  /\ ResetIndices
  /\ systems' = << >>
  /\ IF recorded THEN chunkCount' \in [Queries -> 0 .. MaxChunks] ELSE UNCHANGED chunkCount
  /\ recorded' = FALSE
  /\ main' = Idle
  /\ argBuffer' = [k \in DOMAIN argBuffer |-> Free]   \* the old bytes are not read again
  /\ processed' = << >>
  /\ UNCHANGED <<singleThreadedMode, groupCounters, queue, fibers, running, ub>>

-----------------------------------------------------------------------------
\* A thread takes the task of a group: fnWrapperTask.  Its state is the job it
\* is at, the number of chunks the job's view listed, the arguments it has
\* made for them, and the counter of the chunk tasks, local to scheduleJob.
StartGroup(t) ==
  /\ ~ub /\ t \in queue /\ t.arg.kind = "group" /\ HasFreeThread
  /\ queue' = queue \ {t}
  /\ fibers' = [i \in DOMAIN fibers \union {t.counter} |->
                  IF i # t.counter THEN fibers[i]
                  ELSE [offset |-> t.offset, arg |-> t.arg, state |-> "running", pos |-> <<0, 0>>,
                        chunks |-> 0, made |-> << >>, counter |-> 0]]
  /\ UNCHANGED <<clientVars, currentBufferIndex, argBuffer, groupCounters, main, running,
                 storeVars, processed, ub>>

\* The job of the group after this position, in the order of the loops.
NextJob(pos, left) ==
  /\ pos \in left
  /\ \A p \in left : ~ Before(p, pos)

\* The group task has no job under way.
BetweenJobs(i) == fibers[i].state = "running" /\ Len(fibers[i].made) = fibers[i].chunks

\* System::scheduleJob begins: the view lists its chunks.  The index of the
\* group is read from argBuffer, by reference.
BeginJob(i) ==
  LET left == JobsAfter(argBuffer[fibers[i].offset].group, fibers[i].pos)
  IN  /\ ~ub /\ BetweenJobs(i) /\ left # {}
      /\ \E pos \in left :
           /\ NextJob(pos, left)
           /\ fibers' = [fibers EXCEPT ![i].pos = pos, ![i].made = << >>,
                                       ![i].chunks = chunkCount[QueryOf(pos)]]
      /\ UNCHANGED <<clientVars, currentBufferIndex, argBuffer, groupCounters, main, queue,
                     running, storeVars, processed, ub>>

\* The tasks of a job, as Scheduler::addTask queues them.
TasksOf(i, made) ==
  {[offset |-> made[c], arg |-> JobArg(fibers[i].pos[1], fibers[i].pos[2], c), counter |-> i] :
     c \in DOMAIN made}

\* A counter that is not raised before the tasks are queued.
CountedNever(n) == 0

\* The counter of the job when its n tasks are queued.
Counted(n) == n

\* Scheduler::addTask: the argument of the next chunk's task; after the last
\* one all tasks are queued and the group waits for them.
AddChunkTask(i) ==
  LET made == Append(fibers[i].made, currentBufferIndex)
      last == Len(made) = fibers[i].chunks
  IN  /\ ~ub /\ fibers[i].state = "running"
      /\ Len(fibers[i].made) < fibers[i].chunks
      /\ \E ok \in BOOLEAN :
           /\ Allocate(JobArg(fibers[i].pos[1], fibers[i].pos[2], Len(made)), ok)
           /\ ub' = ~ok
      /\ IF ub' THEN UNCHANGED <<fibers, queue>>
         ELSE /\ fibers' = [fibers EXCEPT ![i].made = made,
                              ![i].state = IF last THEN "waiting" ELSE @,
                              ![i].counter = IF last THEN Counted(Len(made)) ELSE @]
              /\ queue' = IF last THEN queue \union TasksOf(i, made) ELSE queue
      /\ UNCHANGED <<clientVars, groupCounters, main, running, storeVars, processed>>

\* A wait that returns when one task is done.
JobDoneEarly(fiber) == fiber.counter < fiber.chunks

\* Scheduler::waitCounter returns.
JobDone(fiber) == fiber.counter = 0

\* scheduleJob ends, and with it the job and its view.
EndJob(i) ==
  /\ ~ub /\ fibers[i].state = "waiting"
  /\ JobDone(fibers[i]) /\ HasFreeThread
  /\ fibers' = [fibers EXCEPT ![i].state = "running"]
  /\ UNCHANGED <<clientVars, currentBufferIndex, argBuffer, groupCounters, main, queue,
                 running, storeVars, processed, ub>>

\* The group task ends, and the library subtracts one from its counter.
EndGroup(i) ==
  /\ ~ub /\ BetweenJobs(i)
  /\ JobsAfter(argBuffer[fibers[i].offset].group, fibers[i].pos) = {}
  /\ fibers' = [k \in DOMAIN fibers \ {i} |-> fibers[k]]
  /\ groupCounters' = [groupCounters EXCEPT ![i] = @ - 1]
  /\ UNCHANGED <<clientVars, currentBufferIndex, argBuffer, main, queue, running,
                 storeVars, processed, ub>>

\* A thread takes the task of a chunk, which copies its argument.
StartChunk(t) ==
  /\ ~ub /\ t \in queue /\ t.arg.kind = "chunk" /\ HasFreeThread
  /\ queue' = queue \ {t}
  /\ running' = running \union {[t EXCEPT !.arg = argBuffer[t.offset]]}
  /\ UNCHANGED <<clientVars, currentBufferIndex, argBuffer, groupCounters, main, fibers,
                 storeVars, processed, ub>>

\* A counter that its last task leaves at 1.
SubtractButLast(n) == IF n > 1 THEN n - 1 ELSE n

\* The counter when a task that belongs to it is done.
Subtract(n) == n - 1

\* createTaskFunction: the job was called for every entity of the chunk.
EndChunk(t) ==
  LET what == <<t.arg.system, t.arg.job, t.arg.chunk>>
  IN  /\ ~ub /\ t \in running
      /\ running' = running \ {t}
      /\ recorded' \in {recorded, TRUE}
      /\ processed' = IF what \in DOMAIN processed THEN [processed EXCEPT ![what] = @ + 1]
                      ELSE [w \in DOMAIN processed \union {what} |->
                              IF w = what THEN 1 ELSE processed[w]]
      /\ fibers' = [k \in DOMAIN fibers |->
                      IF k = t.counter THEN [fibers[k] EXCEPT !.counter = Subtract(@)]
                      ELSE fibers[k]]
      /\ UNCHANGED <<clientVars, currentBufferIndex, argBuffer, groupCounters, main, queue,
                     chunkCount, ub>>

-----------------------------------------------------------------------------
Init ==
  /\ systems = << >>
  /\ currentSystemGroupIndex = 0 /\ currentBufferIndex = 0
  /\ singleThreadedMode = FALSE
  /\ argBuffer = [k \in 0 .. BufferSize - 1 |-> Free]
  /\ groupCounters = [i \in 1 .. GroupCounters |-> 0]
  /\ main = Idle
  /\ queue = {} /\ fibers = << >> /\ running = {}
  /\ chunkCount \in [Queries -> 0 .. MaxChunks]
  /\ recorded = FALSE
  /\ processed = << >>
  /\ ub = FALSE

\* What the client does between two runs.
ClientStep ==
  \/ \E c \in Classes, g \in -1 .. MaxGroup : ScheduleSystem(c, g)
  \/ SetMode
  \/ RunSingleThreaded
  \/ UseStore
  \/ RunSystems

\* A step of a run, by whichever thread.
RunStep ==
  \/ AddGroupTask
  \/ FinishRun
  \/ \E t \in queue : StartGroup(t) \/ StartChunk(t)
  \/ \E i \in DOMAIN fibers : BeginJob(i) \/ AddChunkTask(i) \/ EndJob(i) \/ EndGroup(i)
  \/ \E t \in running : EndChunk(t)

Next == ClientStep \/ RunStep

\* While a run is under way, some thread that has something to do goes on, and
\* the bodies of the jobs return: the operating system runs the threads, and
\* the library never leaves the last ready task in a queue.  Which thread goes
\* on, and which task it takes, is open.
Fairness == WF_vars(RunStep)

Spec == Init /\ [][Next]_vars /\ Fairness

-----------------------------------------------------------------------------
\* The type invariant.  Counters are unsigned: they never go below 0.
TypeOK ==
  /\ systems \in Seq([class : Classes, group : Nat])
  /\ currentSystemGroupIndex \in Nat /\ currentBufferIndex \in Nat
  /\ groupCounters \in [1 .. GroupCounters -> 0 .. 1]
  /\ main.phase \in {"idle", "adding", "waiting"}
  /\ DOMAIN fibers \subseteq 1 .. GroupCounters
  /\ \A i \in DOMAIN fibers : fibers[i].counter \in 0 .. fibers[i].chunks
  /\ chunkCount \in [Queries -> 0 .. MaxChunks]
  /\ {singleThreadedMode, recorded, ub} \subseteq BOOLEAN

\* The bytes a task's argument points at hold what was written for that task
\* until it has read them, for the task of a group until it ends: no two
\* arguments overlap, and the buffer is not started again under a task.
ArgumentsIntact ==
  /\ \A t \in queue : argBuffer[t.offset] = t.arg
  /\ \A i \in DOMAIN fibers : argBuffer[fibers[i].offset] = fibers[i].arg

\* A task on a chunk exists only while its group waits for the very job the
\* task belongs to, so that the job and its view, locals of scheduleJobs, are
\* alive, and no two tasks of a group are on the same chunk.
JobsInOrder ==
  \A t \in {q \in queue : q.arg.kind = "chunk"} \union running :
    /\ t.counter \in DOMAIN fibers
    /\ fibers[t.counter].state = "waiting"
    /\ fibers[t.counter].pos = <<t.arg.system, t.arg.job>>
    /\ \A u \in running : u # t /\ u.counter = t.counter => u.arg.chunk # t.arg.chunk

\* The store changes, and runSystems returns, only when no task is left and
\* every job of every system has been called once for every chunk.
CommandsAfterAllJobs ==
  [][main.phase # "idle" /\ (main'.phase = "idle" \/ chunkCount' # chunkCount) =>
       /\ queue = {} /\ fibers = << >> /\ running = {}
       /\ \A s \in DOMAIN systems, j \in JobNumbers, c \in 1 .. MaxChunks :
            j \in DOMAIN JobsOf[systems[s].class] /\ c <= chunkCount[QueryOf(<<s, j>>)] =>
              <<s, j, c>> \in DOMAIN processed /\ processed[<<s, j, c>>] = 1]_vars

\* The number of chunks the jobs of a system find, and those of all systems.
ChunksOfSystem(system) ==
  Total([j \in DOMAIN JobsOf[system.class] |-> chunkCount[JobsOf[system.class][j]]])
ChunksOfAll == Total([s \in DOMAIN systems |-> ChunksOfSystem(systems[s])])

\* runSystems leaves its arrays only when the run itself asks for more groups
\* than there are counters, or for more chunk tasks than argBuffer holds: no
\* earlier run contributes to it.
OverflowOnlyByDemand ==
  ub => \/ Len(UniqueGroups) > GroupCounters
        \/ Len(UniqueGroups) + 2 * ChunksOfAll > BufferSize

\* Every call of runSystems returns, with any number of threads: a group that
\* waits for its job does not keep its thread from the tasks of that job.
RunsEnd == main.phase # "idle" ~> (main.phase = "idle" \/ ub)

=============================================================================
