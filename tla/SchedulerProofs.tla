-------------------------- MODULE SchedulerProofs --------------------------
(***************************************************************************)
(* Proofs about the scheduler, for any classes of systems, any number of   *)
(* counters and threads and any size of argBuffer: the arguments of tasks  *)
(* stay what they are, jobs run one after another and on every chunk once  *)
(* before the commands, and only the run itself can ask for too much.      *)
(***************************************************************************)
EXTENDS Scheduler, ListProofs

\* The positions of the jobs of the systems in the list, and the chunks the
\* jobs find, as <<position, chunk>>.
Positions ==
  {p \in (DOMAIN systems) \X JobNumbers : p[2] \in DOMAIN JobsOf[systems[p[1]].class]}

AllTasks == {w \in Positions \X (1 .. MaxChunks) : w[2] <= chunkCount[QueryOf(w[1])]}

\* What was given to the library as the task of the c-th chunk of a group's job.
ChunkTask(i, c) ==
  [offset |-> fibers[i].made[c], arg |-> JobArg(fibers[i].pos[1], fibers[i].pos[2], c), counter |-> i]

\* The tasks of the job a group is at that are not done.
Open(i) == {t \in queue \union running : t.arg.kind = "chunk" /\ t.counter = i}

-----------------------------------------------------------------------------
\* The types of the variables.
Args ==
  {Free} \union [kind : {"group"}, group : Nat]
    \union [kind : {"chunk"}, system : Nat, job : Nat, chunk : Nat]

Fiber ==
  [offset : Nat, arg : Args, state : {"running", "waiting"}, pos : Nat \X Nat,
   chunks : Nat, made : Seq(Nat), counter : Nat]

ClientFits ==
  /\ systems \in Seq([class : Classes, group : Nat])
  /\ currentSystemGroupIndex \in Nat
  /\ chunkCount \in [Queries -> 0 .. MaxChunks]
  /\ singleThreadedMode \in BOOLEAN /\ recorded \in BOOLEAN /\ ub \in BOOLEAN

RunFits ==
  /\ currentBufferIndex \in Nat
  /\ argBuffer \in [0 .. BufferSize - 1 -> Args]
  /\ groupCounters \in [1 .. GroupCounters -> {0, 1}]
  /\ main \in [phase : {"idle", "adding", "waiting"}, groups : Seq(Nat), at : Nat]
  /\ fibers \in [DOMAIN fibers -> Fiber]
  /\ DOMAIN fibers \subseteq 1 .. GroupCounters
  /\ queue \subseteq [offset : Nat, arg : Args, counter : Nat] /\ IsFiniteSet(queue)
  /\ running \subseteq [offset : Nat, arg : Args, counter : Nat] /\ IsFiniteSet(running)

\* Between two runs nothing is left of the last one.
IdleIsClean ==
  main.phase = "idle" =>
    /\ main = Idle /\ ~ub
    /\ queue = {} /\ running = {} /\ DOMAIN fibers = {} /\ DOMAIN processed = {}
    /\ currentBufferIndex = 0
    /\ \A k \in 1 .. GroupCounters : groupCounters[k] = 0

\* The group whose counter is the k-th has its task.
Added(k) ==
  /\ k \in 1 .. Len(main.groups)
  /\ main.phase = "adding" => k < main.at

\* The groups of a run are those of the systems.
GroupsListed ==
  /\ main.phase # "idle" => main.groups = UniqueGroups
  /\ main.phase = "adding" => main.at \in 1 .. Len(main.groups)

\* A counter of a group is 1 from when its task is queued until it ends.
GroupsCounted ==
  /\ \A k \in 1 .. GroupCounters : groupCounters[k] = 1 => Added(k)
  /\ \A i \in DOMAIN fibers :
       groupCounters[i] = 1 /\ fibers[i].arg = GroupArg(main.groups[i])
  /\ \A t \in queue : t.arg.kind = "group" =>
       /\ t.counter \in (1 .. GroupCounters) \ DOMAIN fibers
       /\ groupCounters[t.counter] = 1
       /\ t.arg = GroupArg(main.groups[t.counter])
  /\ \A t, u \in queue :
       t.arg.kind = "group" /\ u.arg.kind = "group" /\ t.counter = u.counter => t = u
  /\ \A t \in queue : t.arg.kind \in {"group", "chunk"}
  /\ \A t \in running : t.arg.kind = "chunk"

\* An argument that is still to be read has its bytes to itself.
Holds(offset, arg) ==
  /\ offset \in DOMAIN argBuffer /\ argBuffer[offset] = arg
  /\ offset + ArgSize(arg) <= currentBufferIndex

ArgumentsHeld ==
  /\ \A t \in queue : Holds(t.offset, t.arg)
  /\ \A i \in DOMAIN fibers : Holds(fibers[i].offset, fibers[i].arg)
  /\ \A i \in DOMAIN fibers : \A c \in DOMAIN fibers[i].made :
       Holds(fibers[i].made[c], ChunkTask(i, c).arg)

\* What a fiber knows of its job.
InJob(i, f) ==
  /\ Len(f.made) <= f.chunks
  /\ f.state = "waiting" => Len(f.made) = f.chunks
  /\ f.pos = <<0, 0>> => f.chunks = 0
  /\ f.pos # <<0, 0>> =>
       /\ f.pos \in Positions
       /\ systems[f.pos[1]].group = main.groups[i]
       /\ f.chunks = chunkCount[QueryOf(f.pos)]

FibersInJobs == \A i \in DOMAIN fibers : InJob(i, fibers[i])

\* The tasks of a group that are not done are of the job it waits for, and its
\* counter is their number.
OpenCounted ==
  /\ queue \intersect running = {}
  /\ \A t \in queue \union running : t.arg.kind = "chunk" => t.counter \in DOMAIN fibers
  /\ \A i \in DOMAIN fibers :
       /\ \A t \in Open(i) : \E c \in 1 .. fibers[i].chunks : t = ChunkTask(i, c)
       /\ fibers[i].counter = Cardinality(Open(i))
       /\ fibers[i].state = "running" => fibers[i].counter = 0

-----------------------------------------------------------------------------
\* A group whose task has ended.
Ended(k) == Added(k) /\ k \in 1 .. GroupCounters /\ groupCounters[k] = 0

\* The group's task has come to the job at a position p.
Past(k, p) == Ended(k) \/ (k \in DOMAIN fibers /\ Before(p, fibers[k].pos))
At(k, p) == k \in DOMAIN fibers /\ p = fibers[k].pos

\* The argument of the task for w was made; the task is done.
IsMade(k, w) == Past(k, w[1]) \/ (At(k, w[1]) /\ w[2] <= Len(fibers[k].made))
IsDone(k, w) ==
  \/ Past(k, w[1])
  \/ At(k, w[1]) /\ Len(fibers[k].made) = fibers[k].chunks /\ ChunkTask(k, w[2]) \notin Open(k)

MadeTasks == {w \in AllTasks :
                \E k \in 1 .. Len(main.groups) : systems[w[1][1]].group = main.groups[k] /\ IsMade(k, w)}
DoneTasks == {w \in AllTasks :
                \E k \in 1 .. Len(main.groups) : systems[w[1][1]].group = main.groups[k] /\ IsDone(k, w)}

\* Every job was done once on every chunk whose task is done.
DoneOnce ==
  /\ \A x \in DOMAIN processed : processed[x] = 1
  /\ DOMAIN processed = {<<w[1][1], w[1][2], w[2]>> : w \in DoneTasks}

\* The number of the groups that have their tasks.
AddedNumber == IF main.phase = "adding" THEN main.at - 1 ELSE Len(main.groups)

\* Exactly the arguments of this run are in the buffer.
SpaceCounted == currentBufferIndex = AddedNumber + 2 * Cardinality(MadeTasks)

RunIInv == DoneOnce /\ SpaceCounted /\ AddedNumber <= GroupCounters

IInv ==
  /\ ClientFits /\ RunFits /\ IdleIsClean /\ GroupsListed
  /\ GroupsCounted /\ ArgumentsHeld /\ FibersInJobs /\ OpenCounted
  /\ ~ub => RunIInv
  /\ OverflowOnlyByDemand

-----------------------------------------------------------------------------
\* The function that the fold of UniqueGroups defines: it exists.
IsGroups(it, S, sys) ==
  it = [s \in SUBSET S |->
          IF s = {} THEN << >>
          ELSE IF sys[Max(s)].group \in Range(it[s \ {Max(s)}]) THEN it[s \ {Max(s)}]
          ELSE Append(it[s \ {Max(s)}], sys[Max(s)].group)]

LEMMA GroupsIter ==
  UniqueGroups = (CHOOSE it : IsGroups(it, DOMAIN systems, systems))[DOMAIN systems]
BY DEF UniqueGroups, FoldLeft, MapThenFoldSet, IsGroups


LEMMA GroupsExist ==
  ASSUME NEW n \in Nat, NEW sys
  PROVE  \E it : IsGroups(it, 1 .. n, sys)
<1> DEFINE Add(gs, g) == IF g \in Range(gs) THEN gs ELSE Append(gs, g)
           T == {k \in 0 .. n : \E it : IsGroups(it, 1 .. k, sys)}
<1>1. 0 \in T
  <2> DEFINE it == [s \in SUBSET (1 .. 0) |-> << >>]
  <2>1. 1 .. 0 = {}
    OBVIOUS
  <2>2. IsGroups(it, 1 .. 0, sys)
    BY <2>1 DEF IsGroups
  <2> QED
    BY <2>2
<1>2. ASSUME NEW k \in 0 .. n - 1, k \in T PROVE k + 1 \in T
  <2>1. PICK h : IsGroups(h, 1 .. k, sys)
    BY <1>2
  <2> DEFINE it == [s \in SUBSET (1 .. k + 1) |->
                      IF k + 1 \in s THEN Add(h[s \ {k + 1}], sys[k + 1].group) ELSE h[s]]
  <2>2. ASSUME NEW s \in SUBSET (1 .. k + 1)
        PROVE  it[s] = IF s = {} THEN << >> ELSE Add(it[s \ {Max(s)}], sys[Max(s)].group)
    <3> HIDE DEF Add
    <3>1. CASE k + 1 \in s
      <4>1. Max(s) = k + 1
        <5>1. k \in Nat /\ s \subseteq 1 .. k + 1
          OBVIOUS
        <5> HIDE DEF it, T
        <5> QED BY <3>1, <5>1, MaxOfTop
      <4>2. s \ {k + 1} \in SUBSET (1 .. k + 1) /\ k + 1 \notin s \ {k + 1} /\ s # {}
        BY <3>1
      <4>3. it[s \ {k + 1}] = h[s \ {k + 1}]
        BY <4>2
      <4> QED
        BY <3>1, <4>1, <4>2, <4>3
    <3>2. CASE k + 1 \notin s
      <4>1. s \in SUBSET (1 .. k)
        BY <3>2
      <4>2. h[s] = IF s = {} THEN << >> ELSE Add(h[s \ {Max(s)}], sys[Max(s)].group)
        BY <2>1, <4>1 DEF IsGroups, Add
      <4>3. \A r \in SUBSET (1 .. k + 1) : k + 1 \notin r => it[r] = h[r]
        OBVIOUS
      <4>4. s \ {Max(s)} \in SUBSET (1 .. k + 1) /\ k + 1 \notin s \ {Max(s)}
        BY <3>2
      <4>5. it[s] = h[s] /\ it[s \ {Max(s)}] = h[s \ {Max(s)}]
        <5> HIDE DEF it
        <5> QED BY <3>2, <4>3, <4>4
      <4> QED
        BY <4>2, <4>5
    <3> QED
      BY <3>1, <3>2
  <2>3. IsGroups(it, 1 .. k + 1, sys)
    <3>1. it = [s \in SUBSET (1 .. k + 1) |->
                  IF s = {} THEN << >> ELSE Add(it[s \ {Max(s)}], sys[Max(s)].group)]
      <4> HIDE DEF Add
      <4> QED BY <2>2
    <3> HIDE DEF it
    <3> QED BY <3>1 DEF IsGroups
  <2> QED
    BY <2>3
<1>3. \A k \in 0 .. n : k \in T
  <2> HIDE DEF T
  <2> QED BY <1>1, <1>2, UpTo
<1> QED
  BY <1>3

\* The groups of the systems are listed once each.
LEMMA GroupsAreListed ==
  ASSUME systems \in Seq([class : Classes, group : Nat])
  PROVE  /\ UniqueGroups \in Seq(Nat)
         /\ \A k, l \in DOMAIN UniqueGroups : UniqueGroups[k] = UniqueGroups[l] => k = l
         /\ \A s \in DOMAIN systems : \E k \in DOMAIN UniqueGroups : UniqueGroups[k] = systems[s].group
<1> DEFINE n  == Len(systems)
           it == CHOOSE it : IsGroups(it, 1 .. n, systems)
           Lists(gs, j) == /\ gs \in Seq(Nat)
                           /\ \A k, l \in DOMAIN gs : gs[k] = gs[l] => k = l
                           /\ \A s \in 1 .. j : \E k \in DOMAIN gs : gs[k] = systems[s].group
<1>1. n \in Nat /\ DOMAIN systems = 1 .. n /\ \A s \in 1 .. n : systems[s].group \in Nat
  <2>1. systems \in [1 .. Len(systems) -> [class : Classes, group : Nat]] /\ Len(systems) \in Nat
    BY LenProperties
  <2>2. \A x \in [class : Classes, group : Nat] : x.group \in Nat
    OBVIOUS
  <2> QED BY <2>1, <2>2
<1>2. IsGroups(it, 1 .. n, systems)
  BY <1>1, GroupsExist
<1>3. UniqueGroups = it[1 .. n]
  BY <1>1, GroupsIter
<1> HIDE DEF it, n
<1>4. \A s \in SUBSET (1 .. n) :
        it[s] = IF s = {} THEN << >>
                ELSE IF systems[Max(s)].group \in Range(it[s \ {Max(s)}]) THEN it[s \ {Max(s)}]
                ELSE Append(it[s \ {Max(s)}], systems[Max(s)].group)
  BY <1>2 DEF IsGroups
<1>5. Lists(it[1 .. 0], 0)
  <2>1. 1 .. 0 = {}
    OBVIOUS
  <2>2. it[1 .. 0] = << >>
    BY <1>4, <2>1
  <2> QED BY <2>1, <2>2
<1>6. ASSUME NEW k \in 0 .. n - 1, Lists(it[1 .. k], k) PROVE Lists(it[1 .. k + 1], k + 1)
  <2> DEFINE gs == it[1 .. k]
             g  == systems[k + 1].group
  <2>1. 1 .. k + 1 \in SUBSET (1 .. n) /\ k \in Nat
    BY <1>1
  <2>2. Max(1 .. k + 1) = k + 1 /\ (1 .. k + 1) \ {k + 1} = 1 .. k /\ 1 .. k + 1 # {}
    BY <2>1, MaxOfInterval
  <2>4. it[1 .. k + 1] = IF g \in Range(gs) THEN gs ELSE Append(gs, g)
    BY <1>4, <2>1, <2>2
  <2>5. g \in Nat
    BY <1>1
  <2>6. Lists(gs, k)
    BY <1>6
  <2> HIDE DEF gs, g
  <2>7. gs \in Seq(Nat) /\ Len(gs) \in Nat /\ DOMAIN gs = 1 .. Len(gs)
    BY <2>6
  <2>8. CASE g \in Range(gs)
    <3>1. PICK m \in DOMAIN gs : gs[m] = g
      BY <2>8 DEF Range
    <3>2. ASSUME NEW s \in 1 .. k + 1 PROVE \E x \in DOMAIN gs : gs[x] = systems[s].group
      <4>1. s \in 1 .. k \/ s = k + 1
        BY <1>1
      <4>2. CASE s \in 1 .. k
        BY <4>2, <2>6
      <4>3. CASE s = k + 1
        BY <4>3, <3>1 DEF g
      <4> QED BY <4>1, <4>2, <4>3
    <3>3. Lists(gs, k + 1)
      BY <2>6, <3>2
    <3> QED BY <2>4, <2>8, <3>3 DEF gs
  <2>9. CASE g \notin Range(gs)
    <3> DEFINE new == Append(gs, g)
    <3>1. /\ new \in Seq(Nat) /\ Len(new) = Len(gs) + 1 /\ DOMAIN new = 1 .. Len(gs) + 1
          /\ \A m \in DOMAIN gs : new[m] = gs[m] /\ m \in DOMAIN new
          /\ new[Len(gs) + 1] = g
      BY <2>5, <2>7
    <3> HIDE DEF new
    <3>2. \A m \in DOMAIN gs : gs[m] # g
      BY <2>9 DEF Range
    <3>3. ASSUME NEW a \in DOMAIN new, NEW b \in DOMAIN new, new[a] = new[b] PROVE a = b
      <4>1. /\ a \in DOMAIN gs \/ a = Len(gs) + 1
            /\ b \in DOMAIN gs \/ b = Len(gs) + 1
        BY <3>1, <2>7
      <4> QED BY <4>1, <3>1, <3>2, <3>3, <2>6
    <3>4. ASSUME NEW s \in 1 .. k + 1 PROVE \E m \in DOMAIN new : new[m] = systems[s].group
      <4>1. CASE s \in 1 .. k
        BY <4>1, <2>6, <3>1
      <4>2. CASE s = k + 1
        <5>1. Len(gs) + 1 \in DOMAIN new
          BY <2>7, <3>1
        <5> QED BY <4>2, <5>1, <3>1 DEF g
      <4> QED BY <4>1, <4>2
    <3>5. Lists(new, k + 1)
      BY <3>1, <3>3, <3>4
    <3> QED BY <2>4, <2>9, <3>5 DEF new
  <2> QED BY <2>8, <2>9
<1>7. Lists(it[1 .. n], n)
  <2> DEFINE T == {j \in 0 .. n : Lists(it[1 .. j], j)}
  <2> HIDE DEF Lists
  <2>1. 0 \in T
    BY <1>1, <1>5
  <2>2. ASSUME NEW k \in 0 .. n - 1, k \in T PROVE k + 1 \in T
    BY <1>1, <1>6, <2>2
  <2> HIDE DEF T
  <2>3. \A k \in 0 .. n : k \in T
    BY <1>1, <2>1, <2>2, UpTo
  <2> QED BY <1>1, <2>3 DEF T
<1> QED
  BY <1>1, <1>3, <1>7

-----------------------------------------------------------------------------
\* The parts of the assumption the proofs use.
LEMMA SchedulerConstants ==
  /\ GroupCounters \in Nat /\ GroupCounters > 0
  /\ BufferSize \in Nat /\ MaxChunks \in Nat
BY SchedulerAssumption

\* The arguments of tasks, by their kinds.
LEMMA ArgKinds ==
  /\ Free \in Args /\ Free.kind = "free"
  /\ \A g \in Nat : GroupArg(g) \in Args /\ GroupArg(g).kind = "group" /\ GroupArg(g).group = g
  /\ \A s, j, c \in Nat :
       /\ JobArg(s, j, c) \in Args /\ JobArg(s, j, c).kind = "chunk"
       /\ JobArg(s, j, c).system = s /\ JobArg(s, j, c).job = j /\ JobArg(s, j, c).chunk = c
BY DEF Free, GroupArg, JobArg, Args

LEMMA JobArgs ==
  ASSUME NEW s, NEW j, NEW c
  PROVE  /\ JobArg(s, j, c).kind = "chunk"
         /\ JobArg(s, j, c).system = s /\ JobArg(s, j, c).job = j /\ JobArg(s, j, c).chunk = c
BY DEF JobArg

\* An argument takes one or two places.
LEMMA ArgSizes ==
  /\ \A a : ArgSize(a) \in {1, 2}
  /\ \A a : a.kind = "chunk" => ArgSize(a) = 2
  /\ \A a : a.kind = "group" => ArgSize(a) = 1
BY DEF ArgSize

\* The arguments of another task do not touch one that is held; the new one is
\* held, too, if there is room for it.
LEMMA AllocateHolds ==
  ASSUME RunFits, NEW arg \in Args, NEW ok \in BOOLEAN, Allocate(arg, ok)
  PROVE  /\ currentBufferIndex' \in Nat
         /\ currentBufferIndex' = currentBufferIndex + ArgSize(arg)
         /\ argBuffer' \in [0 .. BufferSize - 1 -> Args]
         /\ \A o \in Nat, a \in Args : Holds(o, a) => Holds(o, a)'
         /\ ok => \A o \in Nat : o = currentBufferIndex => Holds(o, arg)'
         /\ ok <=> currentBufferIndex' <= BufferSize
<1>1. /\ currentBufferIndex \in Nat /\ BufferSize \in Nat
      /\ argBuffer \in [0 .. BufferSize - 1 -> Args] /\ DOMAIN argBuffer = 0 .. BufferSize - 1
  BY SchedulerConstants DEF RunFits
<1>2. ArgSize(arg) \in {1, 2} /\ Free \in Args
  BY ArgSizes, ArgKinds
<1>3. /\ currentBufferIndex' = currentBufferIndex + ArgSize(arg)
      /\ ok <=> currentBufferIndex' <= BufferSize
      /\ argBuffer' = IF ok THEN Write(argBuffer, currentBufferIndex, arg) ELSE argBuffer
  BY DEF Allocate
<1>4. currentBufferIndex' \in Nat
  BY <1>1, <1>2, <1>3
<1> DEFINE W == Write(argBuffer, currentBufferIndex, arg)
<1>5. /\ W \in [0 .. BufferSize - 1 -> Args]
      /\ \A k \in 0 .. BufferSize - 1 :
           W[k] = IF k = currentBufferIndex THEN arg
                  ELSE IF k \in currentBufferIndex .. currentBufferIndex + ArgSize(arg) - 1 THEN Free
                  ELSE IF k + 1 = currentBufferIndex /\ argBuffer[k].kind = "chunk" THEN Free
                  ELSE argBuffer[k]
  BY <1>1, <1>2 DEF Write
<1> HIDE DEF W
<1>6. argBuffer' \in [0 .. BufferSize - 1 -> Args]
  BY <1>1, <1>3, <1>5 DEF W
<1>7. ASSUME NEW o \in Nat, NEW a \in Args, Holds(o, a)
      PROVE  Holds(o, a)'
  <2>1. /\ o \in 0 .. BufferSize - 1 /\ argBuffer[o] = a
        /\ o + ArgSize(a) <= currentBufferIndex
    BY <1>7, <1>1 DEF Holds
  <2>2. o < currentBufferIndex /\ (a.kind = "chunk" => o + 1 # currentBufferIndex)
    BY <2>1, <1>1, ArgSizes
  <2>3. W[o] = a
    BY <2>1, <2>2, <1>5, <1>1, <1>2
  <2>4. argBuffer'[o] = a
    BY <2>1, <2>3, <1>3 DEF W
  <2>5. o + ArgSize(a) <= currentBufferIndex'
    BY <2>1, <1>1, <1>2, <1>3, ArgSizes
  <2> QED
    BY <2>1, <2>4, <2>5, <1>6 DEF Holds
<1>8. ASSUME ok, NEW o \in Nat, o = currentBufferIndex PROVE Holds(o, arg)'
  <2>1. o \in 0 .. BufferSize - 1
    BY <1>8, <1>1, <1>2, <1>3
  <2>2. argBuffer'[o] = arg
    BY <2>1, <1>3, <1>5, <1>8 DEF W
  <2>3. o \in DOMAIN argBuffer' /\ o + ArgSize(arg) <= currentBufferIndex'
    BY <2>1, <1>8, <1>3, <1>6, <1>1, <1>2
  <2> QED
    BY <2>2, <2>3 DEF Holds
<1> QED
  BY <1>3, <1>4, <1>6, <1>7, <1>8


-----------------------------------------------------------------------------
\* The fields of a fiber, and what a fiber is with some of them changed.
LEMMA FiberFields ==
  ASSUME NEW f \in Fiber
  PROVE  /\ f.offset \in Nat /\ f.arg \in Args /\ f.state \in {"running", "waiting"}
         /\ f.pos \in Nat \X Nat /\ f.chunks \in Nat /\ f.made \in Seq(Nat) /\ f.counter \in Nat
         /\ \A st \in {"running", "waiting"}, p \in Nat \X Nat, n \in Nat, m \in Seq(Nat), c \in Nat :
              [offset |-> f.offset, arg |-> f.arg, state |-> st, pos |-> p, chunks |-> n,
               made |-> m, counter |-> c] \in Fiber
BY DEF Fiber

\* A fiber is the record of its fields.
FiberOf(f, st, p, n, m, c) ==
  [offset |-> f.offset, arg |-> f.arg, state |-> st, pos |-> p, chunks |-> n, made |-> m,
   counter |-> c]

LEMMA FiberIsItsFields ==
  ASSUME NEW f \in Fiber
  PROVE  f = FiberOf(f, f.state, f.pos, f.chunks, f.made, f.counter)
BY DEF Fiber, FiberOf

LEMMA FiberOfFields ==
  ASSUME NEW f, NEW st, NEW p, NEW n, NEW m, NEW c
  PROVE  /\ FiberOf(f, st, p, n, m, c).offset = f.offset /\ FiberOf(f, st, p, n, m, c).arg = f.arg
         /\ FiberOf(f, st, p, n, m, c).state = st /\ FiberOf(f, st, p, n, m, c).pos = p
         /\ FiberOf(f, st, p, n, m, c).chunks = n /\ FiberOf(f, st, p, n, m, c).made = m
         /\ FiberOf(f, st, p, n, m, c).counter = c
BY DEF FiberOf

\* No fiber but i moves, and i becomes f.
OnlyFiber(i, f) ==
  /\ DOMAIN fibers' = DOMAIN fibers
  /\ fibers'[i] = f
  /\ \A k \in DOMAIN fibers : k # i => fibers'[k] = fibers[k]
  /\ fibers' = [k \in DOMAIN fibers' |-> fibers'[k]]

\* The fiber that an action of a group moves.
LEMMA BeginJobFiber ==
  ASSUME RunFits, NEW i \in DOMAIN fibers, BeginJob(i)
  PROVE  \E pos \in JobsAfter(argBuffer[fibers[i].offset].group, fibers[i].pos) :
           /\ NextJob(pos, JobsAfter(argBuffer[fibers[i].offset].group, fibers[i].pos))
           /\ OnlyFiber(i, FiberOf(fibers[i], fibers[i].state, pos, chunkCount[QueryOf(pos)],
                                   << >>, fibers[i].counter))
<1>1. PICK pos \in JobsAfter(argBuffer[fibers[i].offset].group, fibers[i].pos) :
        /\ NextJob(pos, JobsAfter(argBuffer[fibers[i].offset].group, fibers[i].pos))
        /\ fibers' = [fibers EXCEPT ![i].pos = pos, ![i].made = << >>,
                                    ![i].chunks = chunkCount[QueryOf(pos)]]
  BY DEF BeginJob
<1>2. /\ fibers \in [DOMAIN fibers -> Fiber]
      /\ fibers[i] \in Fiber
  BY DEF RunFits
<1>f. fibers[i] = FiberOf(fibers[i], fibers[i].state, fibers[i].pos, fibers[i].chunks,
                          fibers[i].made, fibers[i].counter)
  BY <1>2, FiberIsItsFields
<1>3. [fibers[i] EXCEPT !.pos = pos, !.made = << >>, !.chunks = chunkCount[QueryOf(pos)]]
        = FiberOf(fibers[i], fibers[i].state, pos, chunkCount[QueryOf(pos)], << >>, fibers[i].counter)
  <2>1. ASSUME NEW f, f = fibers[i], NEW n, NEW m
        PROVE  [f EXCEPT !.pos = pos, !.made = m, !.chunks = n]
                 = FiberOf(f, f.state, pos, n, m, f.counter)
    <3> DEFINE g == [f EXCEPT !.pos = pos, !.made = m, !.chunks = n]
    <3>1. DOMAIN f = {"offset", "arg", "state", "pos", "chunks", "made", "counter"}
      BY <2>1, <1>2 DEF Fiber
    <3>2. /\ DOMAIN g = DOMAIN f /\ g.offset = f.offset /\ g.arg = f.arg
          /\ g.pos = pos /\ g.made = m /\ g.chunks = n /\ g.state = f.state /\ g.counter = f.counter
      BY <3>1
    <3>3. g = [x \in DOMAIN f |-> g[x]]
      BY <3>2
    <3> HIDE DEF g
    <3>4. g = FiberOf(f, f.state, pos, n, m, f.counter)
      BY <3>1, <3>2, <3>3 DEF FiberOf
    <3> QED
      BY <3>4 DEF g
  <2> QED
    BY <2>1
<1>4. fibers' = [fibers EXCEPT ![i] = FiberOf(fibers[i], fibers[i].state, pos,
                   chunkCount[QueryOf(pos)], << >>, fibers[i].counter)]
  BY <1>1, <1>2, <1>3
<1>5. OnlyFiber(i, FiberOf(fibers[i], fibers[i].state, pos, chunkCount[QueryOf(pos)],
                           << >>, fibers[i].counter))
  BY <1>2, <1>4 DEF OnlyFiber
<1> QED
  BY <1>1, <1>5

LEMMA AddChunkTaskFiber ==
  ASSUME RunFits, NEW i \in DOMAIN fibers, AddChunkTask(i), ~ub'
  PROVE  LET made == Append(fibers[i].made, currentBufferIndex)
             last == Len(made) = fibers[i].chunks
         IN  OnlyFiber(i, FiberOf(fibers[i], IF last THEN "waiting" ELSE fibers[i].state, fibers[i].pos,
                                  fibers[i].chunks, made, IF last THEN Len(made) ELSE fibers[i].counter))
<1> DEFINE made == Append(fibers[i].made, currentBufferIndex)
           last == Len(made) = fibers[i].chunks
<1>1. fibers' = [fibers EXCEPT ![i].made = made,
                   ![i].state = IF last THEN "waiting" ELSE @,
                   ![i].counter = IF last THEN Counted(Len(made)) ELSE @]
  BY DEF AddChunkTask
<1>2. /\ fibers \in [DOMAIN fibers -> Fiber]
      /\ fibers[i] \in Fiber
  BY DEF RunFits
<1>f. fibers[i] = FiberOf(fibers[i], fibers[i].state, fibers[i].pos, fibers[i].chunks,
                          fibers[i].made, fibers[i].counter)
  BY <1>2, FiberIsItsFields
<1>3. Counted(Len(made)) = Len(made)
  BY DEF Counted
<1> HIDE DEF made, last
<1>4. [fibers[i] EXCEPT !.made = made, !.state = IF last THEN "waiting" ELSE @,
                        !.counter = IF last THEN Counted(Len(made)) ELSE @]
        = FiberOf(fibers[i], IF last THEN "waiting" ELSE fibers[i].state, fibers[i].pos,
                  fibers[i].chunks, made, IF last THEN Len(made) ELSE fibers[i].counter)
  <2> DEFINE f  == fibers[i]
             st == IF last THEN "waiting" ELSE f.state
             n  == IF last THEN Len(made) ELSE f.counter
             g  == [f EXCEPT !.made = made, !.state = st, !.counter = n]
  <2>1. DOMAIN f = {"offset", "arg", "state", "pos", "chunks", "made", "counter"}
    BY <1>2 DEF Fiber
  <2>2. g = FiberOf(f, st, f.pos, f.chunks, made, n)
    <3> HIDE DEF f, st, n
    <3>1. /\ DOMAIN g = DOMAIN f /\ g.offset = f.offset /\ g.arg = f.arg
          /\ g.made = made /\ g.state = st /\ g.counter = n /\ g.pos = f.pos /\ g.chunks = f.chunks
      BY <2>1
    <3>2. g = [x \in DOMAIN f |-> g[x]]
      BY <3>1
    <3> HIDE DEF g
    <3> QED
      BY <2>1, <3>1, <3>2 DEF FiberOf
  <2>3. (IF last THEN Counted(Len(made)) ELSE fibers[i].counter) = n
    BY <1>3
  <2> QED
    BY <2>2, <2>3
<1>5. fibers' = [fibers EXCEPT ![i] =
        FiberOf(fibers[i], IF last THEN "waiting" ELSE fibers[i].state, fibers[i].pos,
                  fibers[i].chunks, made, IF last THEN Len(made) ELSE fibers[i].counter)]
  BY <1>1, <1>2, <1>4
<1>6. OnlyFiber(i, FiberOf(fibers[i], IF last THEN "waiting" ELSE fibers[i].state, fibers[i].pos,
                  fibers[i].chunks, made, IF last THEN Len(made) ELSE fibers[i].counter))
  BY <1>2, <1>5 DEF OnlyFiber
<1> QED
  BY <1>6 DEF made, last

LEMMA EndJobFiber ==
  ASSUME RunFits, NEW i \in DOMAIN fibers, EndJob(i)
  PROVE  OnlyFiber(i, FiberOf(fibers[i], "running", fibers[i].pos, fibers[i].chunks,
                              fibers[i].made, fibers[i].counter))
<1>1. fibers' = [fibers EXCEPT ![i].state = "running"]
  BY DEF EndJob
<1>2. /\ fibers \in [DOMAIN fibers -> Fiber]
      /\ fibers[i] \in Fiber
  BY DEF RunFits
<1>f. fibers[i] = FiberOf(fibers[i], fibers[i].state, fibers[i].pos, fibers[i].chunks,
                          fibers[i].made, fibers[i].counter)
  BY <1>2, FiberIsItsFields
<1>3. [fibers[i] EXCEPT !.state = "running"]
        = FiberOf(fibers[i], "running", fibers[i].pos, fibers[i].chunks, fibers[i].made,
                  fibers[i].counter)
  BY <1>f DEF FiberOf
<1> QED
  BY <1>1, <1>2, <1>3 DEF OnlyFiber

LEMMA EndChunkFiber ==
  ASSUME RunFits, NEW t \in running, EndChunk(t), t.counter \in DOMAIN fibers
  PROVE  OnlyFiber(t.counter, FiberOf(fibers[t.counter], fibers[t.counter].state,
           fibers[t.counter].pos, fibers[t.counter].chunks, fibers[t.counter].made,
           fibers[t.counter].counter - 1))
<1> DEFINE i == t.counter
<1>1. fibers' = [k \in DOMAIN fibers |->
                   IF k = i THEN [fibers[k] EXCEPT !.counter = Subtract(@)] ELSE fibers[k]]
  BY DEF EndChunk
<1>2. /\ fibers \in [DOMAIN fibers -> Fiber]
      /\ fibers[i] \in Fiber
  BY DEF RunFits
<1>f. fibers[i] = FiberOf(fibers[i], fibers[i].state, fibers[i].pos, fibers[i].chunks,
                          fibers[i].made, fibers[i].counter)
  BY <1>2, FiberIsItsFields
<1>3. [fibers[i] EXCEPT !.counter = Subtract(@)]
        = FiberOf(fibers[i], fibers[i].state, fibers[i].pos, fibers[i].chunks, fibers[i].made,
                  fibers[i].counter - 1)
  BY <1>f DEF FiberOf, Subtract
<1> QED
  BY <1>1, <1>2, <1>3 DEF OnlyFiber


-----------------------------------------------------------------------------
\* The parts of the invariant that say where things are; what the steps need of
\* each other.
Shape ==
  /\ ClientFits /\ RunFits /\ IdleIsClean /\ GroupsListed
  /\ GroupsCounted /\ ArgumentsHeld /\ FibersInJobs /\ OpenCounted

\* A position names a job, whose query finds some number of chunks.
LEMMA PositionParts ==
  ASSUME ClientFits, NEW p \in Positions
  PROVE  /\ p \in Nat \X Nat /\ p # <<0, 0>> /\ p[1] \in DOMAIN systems
         /\ p[1] \in Nat /\ p[2] \in Nat /\ p = <<p[1], p[2]>>
         /\ p[2] \in DOMAIN JobsOf[systems[p[1]].class]
         /\ systems[p[1]].class \in Classes /\ systems[p[1]].group \in Nat
         /\ QueryOf(p) \in Queries
         /\ chunkCount[QueryOf(p)] \in 0 .. MaxChunks /\ chunkCount[QueryOf(p)] \in Nat
<1>1. systems \in Seq([class : Classes, group : Nat]) /\ chunkCount \in [Queries -> 0 .. MaxChunks]
  BY DEF ClientFits
<1>2. /\ p \in (DOMAIN systems) \X JobNumbers
      /\ p[2] \in DOMAIN JobsOf[systems[p[1]].class]
  BY DEF Positions
<1>3. /\ DOMAIN systems = 1 .. Len(systems) /\ Len(systems) \in Nat
      /\ \A s \in DOMAIN systems : systems[s] \in [class : Classes, group : Nat]
  <2>1. PICK Systems : Systems = [class : Classes, group : Nat]
    OBVIOUS
  <2>2. systems \in Seq(Systems)
    BY <1>1, <2>1
  <2>3. systems \in [1 .. Len(systems) -> Systems] /\ Len(systems) \in Nat
    BY ONLY <2>2, LenProperties
  <2> QED BY <2>1, <2>3
<1>4. p[1] \in DOMAIN systems /\ p = <<p[1], p[2]>> /\ p[1] \in Nat /\ p[1] > 0
  BY <1>2, <1>3
<1>5. systems[p[1]].class \in Classes /\ systems[p[1]].group \in Nat
  BY <1>3, <1>4
<1> DEFINE q == JobsOf[systems[p[1]].class]
<1>6. q \in Seq(Range(q))
  BY <1>5, SchedulerAssumption
<1>7. DOMAIN q = 1 .. Len(q) /\ Len(q) \in Nat /\ p[2] \in DOMAIN q
  BY <1>2, <1>6, LenProperties
<1>8. p[2] \in Nat
  BY <1>7
<1>9. q[p[2]] \in Queries
  BY <1>5, <1>7 DEF Queries, Range
<1>10. QueryOf(p) \in Queries
  BY <1>9 DEF QueryOf
<1>11. chunkCount[QueryOf(p)] \in 0 .. MaxChunks /\ chunkCount[QueryOf(p)] \in Nat
  BY <1>1, <1>10, SchedulerConstants
<1>12. p \in Nat \X Nat /\ p # <<0, 0>>
  BY <1>4, <1>8
<1> QED
  BY <1>2, <1>4, <1>5, <1>8, <1>10, <1>11, <1>12

\* The jobs after a position are positions.
LEMMA JobsAfterPositions ==
  ASSUME NEW g, NEW pos, NEW p
  PROVE  p \in JobsAfter(g, pos) <=>
           p \in Positions /\ systems[p[1]].group = g /\ Before(pos, p)
BY DEF JobsAfter, Positions

\* The argument of a group's task gives its group.
LEMMA GroupOfFiber ==
  ASSUME Shape, NEW i \in DOMAIN fibers
  PROVE  /\ i \in 1 .. GroupCounters /\ groupCounters[i] = 1 /\ Added(i)
         /\ main.groups[i] \in Nat
         /\ argBuffer[fibers[i].offset].group = main.groups[i]
         /\ main.phase # "idle"
<1>1. fibers[i].arg = GroupArg(main.groups[i]) /\ groupCounters[i] = 1
  BY DEF Shape, GroupsCounted
<1>2. argBuffer[fibers[i].offset] = fibers[i].arg
  BY DEF Shape, ArgumentsHeld, Holds
<1>3. i \in 1 .. GroupCounters /\ main.groups \in Seq(Nat)
  BY DEF Shape, RunFits
<1>4. Added(i)
  BY <1>1, <1>3 DEF Shape, GroupsCounted
<1>5. i \in 1 .. Len(main.groups)
  BY <1>4 DEF Added
<1>6. main.groups[i] \in Nat
  BY <1>3, <1>5
<1>7. argBuffer[fibers[i].offset].group = main.groups[i]
  BY <1>1, <1>2, <1>6, ArgKinds
<1>8. main.phase # "idle"
  BY DEF Shape, IdleIsClean
<1> QED
  BY <1>1, <1>3, <1>4, <1>6, <1>7, <1>8

\* What a fiber knows of the job it is at.
LEMMA FiberJob ==
  ASSUME Shape, NEW i \in DOMAIN fibers
  PROVE  /\ fibers[i] \in Fiber
         /\ fibers[i].pos = <<0, 0>> \/ fibers[i].pos \in Positions
         /\ fibers[i].pos \in Nat \X Nat
         /\ fibers[i].pos[1] \in Nat /\ fibers[i].pos[2] \in Nat
         /\ fibers[i].made \in Seq(Nat) /\ fibers[i].counter \in Nat
         /\ Len(fibers[i].made) \in Nat /\ DOMAIN fibers[i].made = 1 .. Len(fibers[i].made)
         /\ fibers[i].chunks \in 0 .. MaxChunks /\ fibers[i].chunks \in Nat
         /\ Len(fibers[i].made) <= fibers[i].chunks
<1>1. fibers[i] \in Fiber
  BY DEF Shape, RunFits
<1>2. /\ fibers[i].pos \in Nat \X Nat /\ fibers[i].made \in Seq(Nat)
      /\ fibers[i].counter \in Nat /\ fibers[i].chunks \in Nat
  BY <1>1, FiberFields
<1>3. /\ Len(fibers[i].made) <= fibers[i].chunks
      /\ fibers[i].pos = <<0, 0>> => fibers[i].chunks = 0
      /\ fibers[i].pos # <<0, 0>> =>
           /\ fibers[i].pos \in Positions
           /\ fibers[i].chunks = chunkCount[QueryOf(fibers[i].pos)]
  BY DEF Shape, FibersInJobs, InJob
<1>4. ClientFits
  BY DEF Shape
<1>5. fibers[i].chunks \in 0 .. MaxChunks
  BY <1>3, <1>4, PositionParts, SchedulerConstants
<1>6. Len(fibers[i].made) \in Nat /\ DOMAIN fibers[i].made = 1 .. Len(fibers[i].made)
  BY <1>2, LenProperties
<1>7. fibers[i].pos[1] \in Nat /\ fibers[i].pos[2] \in Nat
  BY <1>2
<1> QED
  BY <1>1, <1>2, <1>3, <1>5, <1>6, <1>7

\* A job begins at the first position after the last one.
LEMMA BeginJobFacts ==
  ASSUME Shape, NEW i \in DOMAIN fibers, BeginJob(i)
  PROVE  \E pos \in Positions :
           /\ systems[pos[1]].group = main.groups[i]
           /\ Before(fibers[i].pos, pos)
           /\ \A p \in Positions :
                systems[p[1]].group = main.groups[i] /\ Before(fibers[i].pos, p) => ~ Before(p, pos)
           /\ OnlyFiber(i, FiberOf(fibers[i], fibers[i].state, pos, chunkCount[QueryOf(pos)],
                                   << >>, fibers[i].counter))
<1>1. RunFits
  BY DEF Shape
<1>2. argBuffer[fibers[i].offset].group = main.groups[i]
  BY GroupOfFiber
<1>3. PICK pos \in JobsAfter(main.groups[i], fibers[i].pos) :
        /\ NextJob(pos, JobsAfter(main.groups[i], fibers[i].pos))
        /\ OnlyFiber(i, FiberOf(fibers[i], fibers[i].state, pos, chunkCount[QueryOf(pos)],
                                << >>, fibers[i].counter))
  BY <1>1, <1>2, BeginJobFiber
<1>4. \A p \in JobsAfter(main.groups[i], fibers[i].pos) : ~ Before(p, pos)
  BY <1>3 DEF NextJob
<1> QED
  BY <1>3, <1>4, JobsAfterPositions

\* The task of a chunk that is done belongs to a job.
LEMMA OpenTask ==
  ASSUME Shape, NEW t \in queue \union running, t.arg.kind = "chunk"
  PROVE  /\ t.counter \in DOMAIN fibers /\ t \in Open(t.counter)
         /\ \E c \in 1 .. fibers[t.counter].chunks : t = ChunkTask(t.counter, c)
         /\ fibers[t.counter].state = "waiting"
         /\ fibers[t.counter].counter > 0
<1>1. t.counter \in DOMAIN fibers /\ t \in Open(t.counter)
  BY DEF Shape, OpenCounted, Open
<1>2. \E c \in 1 .. fibers[t.counter].chunks : t = ChunkTask(t.counter, c)
  BY <1>1 DEF Shape, OpenCounted
<1>3. IsFiniteSet(Open(t.counter))
  <2>1. IsFiniteSet(queue \union running)
    BY FS_Union DEF Shape, RunFits
  <2> QED
    BY <2>1, FS_Subset DEF Open
<1>4. Cardinality(Open(t.counter)) \in Nat /\ Cardinality(Open(t.counter)) # 0
  BY <1>1, <1>3, FS_CardinalityType, FS_EmptySet
<1>5. fibers[t.counter].counter = Cardinality(Open(t.counter))
  BY <1>1 DEF Shape, OpenCounted
<1>6. fibers[t.counter].state = "running" => fibers[t.counter].counter = 0
  BY <1>1 DEF Shape, OpenCounted
<1>7. fibers[t.counter].state \in {"running", "waiting"}
  BY <1>1, FiberJob, FiberFields
<1> QED
  BY <1>1, <1>2, <1>4, <1>5, <1>6, <1>7


-----------------------------------------------------------------------------
\* Every step keeps the types: a step of the client, of the main thread, of a
\* group, of a task.
LEMMA ClientTypes ==
  ASSUME Shape, ClientStep
  PROVE  /\ ClientFits' /\ RunFits' /\ ~ub' /\ main = Idle /\ fibers' = fibers
         /\ queue' = queue /\ running' = running /\ processed' = processed
         /\ currentBufferIndex' = currentBufferIndex
<1>1. ClientFits /\ RunFits
  BY DEF Shape
<1>2. ASSUME NEW c \in Classes, NEW g \in -1 .. MaxGroup, ScheduleSystem(c, g)
      PROVE  /\ ClientFits' /\ RunFits' /\ ~ub' /\ main = Idle /\ fibers' = fibers
             /\ queue' = queue /\ running' = running /\ processed' = processed
             /\ currentBufferIndex' = currentBufferIndex
  <2> DEFINE n == [class |-> c, group |-> IF g < 0 THEN currentSystemGroupIndex ELSE g]
  <2>1. systems' = Append(systems, n) /\ currentSystemGroupIndex' \in Nat
    BY <1>1, <1>2 DEF ScheduleSystem, ClientFits
  <2>2. n \in [class : Classes, group : Nat]
    BY <1>1 DEF ClientFits
  <2> HIDE DEF n
  <2>3. systems' \in Seq([class : Classes, group : Nat])
    BY <1>1, <2>1, <2>2 DEF ClientFits
  <2> QED
    BY <1>1, <1>2, <2>1, <2>3 DEF ScheduleSystem, ClientFits, RunFits, storeVars
<1>3. ASSUME SetMode \/ RunSingleThreaded \/ UseStore
      PROVE  /\ ClientFits' /\ RunFits' /\ ~ub' /\ main = Idle /\ fibers' = fibers
             /\ queue' = queue /\ running' = running /\ processed' = processed
             /\ currentBufferIndex' = currentBufferIndex
  <2>1. CASE SetMode
    BY <1>1, <2>1 DEF SetMode, ClientFits, RunFits, storeVars, clientVars
  <2>2. CASE RunSingleThreaded
    BY <1>1, <2>2 DEF RunSingleThreaded, ClientFits, RunFits, storeVars, clientVars
  <2>3. CASE UseStore
    BY <1>1, <2>3 DEF UseStore, ClientFits, RunFits, storeVars, clientVars
  <2> QED
    BY <1>3, <2>1, <2>2, <2>3
<1>4. ASSUME RunSystems
      PROVE  /\ ClientFits' /\ RunFits' /\ ~ub' /\ main = Idle /\ fibers' = fibers
             /\ queue' = queue /\ running' = running /\ processed' = processed
             /\ currentBufferIndex' = currentBufferIndex
  <2>1. UniqueGroups \in Seq(Nat)
    BY <1>1, GroupsAreListed DEF ClientFits
  <2>2. main' \in [phase : {"idle", "adding", "waiting"}, groups : Seq(Nat), at : Nat]
    BY <1>4, <2>1 DEF RunSystems
  <2>3. groupCounters' \in [1 .. GroupCounters -> {0, 1}]
    BY <1>4 DEF RunSystems
  <2> QED
    BY <1>1, <1>4, <2>2, <2>3 DEF RunSystems, ClientFits, RunFits, storeVars, clientVars
<1> QED
  BY <1>2, <1>3, <1>4 DEF ClientStep

LEMMA AddGroupTaskTypes ==
  ASSUME Shape, AddGroupTask
  PROVE  /\ ClientFits' /\ RunFits'
         /\ main.at \in 1 .. Len(main.groups)
         /\ main'.groups = main.groups /\ main'.at \in Nat
         /\ \/ main'.phase = "adding" /\ main'.at = main.at + 1 /\ main.at < Len(main.groups)
            \/ main'.phase = "waiting" /\ main'.at = main.at /\ main.at = Len(main.groups)
<1>1. ClientFits /\ RunFits
  BY DEF Shape
<1>2. main.phase = "adding" /\ main.at \in 1 .. Len(main.groups)
  BY DEF AddGroupTask, Shape, GroupsListed
<1>3. main \in [phase : {"idle", "adding", "waiting"}, groups : Seq(Nat), at : Nat]
  BY <1>1 DEF RunFits
<1>4. main' = IF main.at < Len(main.groups) THEN [main EXCEPT !.at = @ + 1]
              ELSE [main EXCEPT !.phase = "waiting"]
  BY DEF AddGroupTask
<1>5. Len(main.groups) \in Nat /\ main.groups \in Seq(Nat) /\ main.at \in Nat
  BY <1>3, LenProperties
<1>8. /\ main'.groups = main.groups /\ main'.at \in Nat
      /\ \/ main'.phase = "adding" /\ main'.at = main.at + 1 /\ main.at < Len(main.groups)
         \/ main'.phase = "waiting" /\ main'.at = main.at /\ main.at = Len(main.groups)
      /\ main' \in [phase : {"idle", "adding", "waiting"}, groups : Seq(Nat), at : Nat]
  <2>1. main.at < Len(main.groups) \/ main.at = Len(main.groups)
    BY <1>2, <1>5
  <2>2. CASE main.at < Len(main.groups)
    <3>1. main' = [main EXCEPT !.at = main.at + 1]
      BY <1>4, <2>2
    <3>2. main'.phase = "adding" /\ main'.groups = main.groups /\ main'.at = main.at + 1
      BY <3>1, <1>2, <1>3
    <3>3. main' \in [phase : {"idle", "adding", "waiting"}, groups : Seq(Nat), at : Nat]
      BY <3>1, <1>3
    <3> QED BY <3>2, <3>3, <2>2, <1>5
  <2>3. CASE main.at = Len(main.groups)
    <3>1. main' = [main EXCEPT !.phase = "waiting"]
      BY <1>4, <2>3, <1>5
    <3>2. main'.phase = "waiting" /\ main'.groups = main.groups /\ main'.at = main.at
      BY <3>1, <1>3
    <3>3. main' \in [phase : {"idle", "adding", "waiting"}, groups : Seq(Nat), at : Nat]
      BY <3>1, <1>3
    <3> QED BY <3>2, <3>3, <2>3, <1>5
  <2> QED BY <2>1, <2>2, <2>3
<1> DEFINE arg == GroupArg(main.groups[main.at])
<1>9. main.groups[main.at] \in Nat /\ arg \in Args
  BY <1>2, <1>5, ArgKinds
<1> HIDE DEF arg
<1>10. PICK ok \in BOOLEAN : Allocate(arg, ok) /\ ub' = (~ok \/ main.at > GroupCounters)
  BY DEF AddGroupTask, arg
<1>11. /\ currentBufferIndex' \in Nat /\ argBuffer' \in [0 .. BufferSize - 1 -> Args]
       /\ ub' \in BOOLEAN
  BY <1>1, <1>9, <1>10, AllocateHolds
<1>12. /\ queue' \subseteq [offset : Nat, arg : Args, counter : Nat] /\ IsFiniteSet(queue')
       /\ groupCounters' \in [1 .. GroupCounters -> {0, 1}]
  <2>1. CASE ub'
    BY <2>1, <1>1 DEF AddGroupTask, RunFits
  <2>2. CASE ~ub'
    <3> DEFINE t == [offset |-> currentBufferIndex, arg |-> arg, counter |-> main.at]
    <3>1. queue' = queue \union {t} /\ groupCounters' = [groupCounters EXCEPT ![main.at] = @ + 1]
      BY <2>2 DEF AddGroupTask, arg
    <3>2. t \in [offset : Nat, arg : Args, counter : Nat]
      BY <1>1, <1>5, <1>9 DEF RunFits
    <3> HIDE DEF t
    <3>3. IsFiniteSet(queue')
      BY <3>1, <1>1, FS_AddElement DEF RunFits
    <3>4. main.at \in 1 .. GroupCounters
      <4>1. ~ (main.at > GroupCounters)
        BY Zenon, <2>2, <1>10
      <4> QED BY <4>1, <1>2, <1>5, SchedulerConstants
    <3>5. groupCounters[main.at] = 0
      <4>1. ~ Added(main.at)
        BY <1>2, <1>5 DEF Added
      <4> QED
        BY <4>1, <3>4, <1>1 DEF Shape, GroupsCounted, RunFits
    <3>6. groupCounters' \in [1 .. GroupCounters -> {0, 1}]
      BY <3>1, <3>4, <3>5, <1>1 DEF RunFits
    <3> QED
      BY <3>1, <3>2, <3>3, <3>6, <1>1 DEF RunFits
  <2> QED
    BY <2>1, <2>2
<1>13. ClientFits'
  BY <1>1, <1>11 DEF AddGroupTask, ClientFits, clientVars, storeVars
<1>14. RunFits'
  BY <1>1, <1>8, <1>11, <1>12 DEF AddGroupTask, RunFits
<1> QED
  BY <1>2, <1>8, <1>13, <1>14


\* When the groups are done nothing of the run is left.
LEMMA NothingLeft ==
  ASSUME Shape, GroupsDone
  PROVE  DOMAIN fibers = {} /\ queue = {} /\ running = {}
<1>1. DOMAIN groupCounters = 1 .. GroupCounters
  BY DEF Shape, RunFits
<1>2. \A k \in 1 .. GroupCounters : groupCounters[k] = 0
  BY <1>1 DEF GroupsDone
<1>3. DOMAIN fibers = {}
  BY <1>2, GroupOfFiber
<1>4. \A t \in queue \union running : t.arg.kind # "chunk"
  BY <1>3, OpenTask
<1>5. \A t \in queue : t.arg.kind # "group"
  BY <1>2 DEF Shape, GroupsCounted
<1> QED
  BY <1>3, <1>4, <1>5 DEF Shape, GroupsCounted

LEMMA FinishRunTypes ==
  ASSUME Shape, FinishRun
  PROVE  ClientFits' /\ RunFits' /\ main' = Idle /\ ~ub'
<1>1. ClientFits /\ RunFits
  BY DEF Shape
<1>2. DOMAIN argBuffer = 0 .. BufferSize - 1
  BY <1>1 DEF RunFits
<1>3. argBuffer' \in [0 .. BufferSize - 1 -> Args]
  BY <1>2, ArgKinds DEF FinishRun
<1>4. currentSystemGroupIndex' = 0 /\ currentBufferIndex' = 0 /\ systems' = << >>
  BY DEF FinishRun, ResetIndices
<1>5. chunkCount' \in [Queries -> 0 .. MaxChunks]
  <2>1. CASE recorded
    BY <2>1 DEF FinishRun
  <2>2. CASE ~recorded
    BY <2>2, <1>1 DEF FinishRun, ClientFits
  <2> QED BY <2>1, <2>2
<1>9. << >> \in Seq([class : Classes, group : Nat]) /\ 0 \in Nat /\ FALSE \in BOOLEAN
  OBVIOUS
<1>10. singleThreadedMode' = singleThreadedMode /\ ub' = ub /\ recorded' = FALSE
  BY DEF FinishRun
<1>6. ClientFits'
  BY <1>1, <1>4, <1>5, <1>9, <1>10 DEF ClientFits
<1>7. main' \in [phase : {"idle", "adding", "waiting"}, groups : Seq(Nat), at : Nat] /\ main' = Idle
  BY DEF FinishRun, Idle
<1>8. RunFits'
  BY <1>1, <1>3, <1>4, <1>7 DEF FinishRun, RunFits
<1> QED
  BY <1>6, <1>7, <1>8 DEF FinishRun

\* The new fiber of a group.
NewFiber(t) ==
  [offset |-> t.offset, arg |-> t.arg, state |-> "running", pos |-> <<0, 0>>,
   chunks |-> 0, made |-> << >>, counter |-> 0]

LEMMA StartGroupTypes ==
  ASSUME Shape, NEW t \in queue, StartGroup(t)
  PROVE  /\ ClientFits' /\ RunFits'
         /\ t.counter \in (1 .. GroupCounters) \ DOMAIN fibers
         /\ DOMAIN fibers' = DOMAIN fibers \union {t.counter}
         /\ fibers'[t.counter] = NewFiber(t)
         /\ \A k \in DOMAIN fibers : fibers'[k] = fibers[k]
<1>1. ClientFits /\ RunFits
  BY DEF Shape
<1>2. t.arg.kind = "group" /\ t.counter \in (1 .. GroupCounters) \ DOMAIN fibers
  BY DEF StartGroup, Shape, GroupsCounted
<1>3. fibers' = [i \in DOMAIN fibers \union {t.counter} |->
                   IF i # t.counter THEN fibers[i] ELSE NewFiber(t)]
  BY DEF StartGroup, NewFiber
<1>4. NewFiber(t) \in Fiber
  BY <1>1 DEF RunFits, NewFiber, Fiber
<1>5. /\ DOMAIN fibers' = DOMAIN fibers \union {t.counter}
      /\ fibers'[t.counter] = NewFiber(t)
      /\ \A k \in DOMAIN fibers : fibers'[k] = fibers[k]
  BY <1>2, <1>3
<1>6. fibers' \in [DOMAIN fibers' -> Fiber] /\ DOMAIN fibers' \subseteq 1 .. GroupCounters
  <2>1. \A k \in DOMAIN fibers : fibers[k] \in Fiber
    BY <1>1 DEF RunFits
  <2>2. DOMAIN fibers \subseteq 1 .. GroupCounters
    BY <1>1 DEF RunFits
  <2> QED BY <1>2, <1>3, <1>4, <2>1, <2>2
<1>7. queue' \subseteq [offset : Nat, arg : Args, counter : Nat] /\ IsFiniteSet(queue')
  BY <1>1, FS_RemoveElement DEF StartGroup, RunFits
<1>8. RunFits'
  BY <1>1, <1>6, <1>7 DEF StartGroup, RunFits
<1>9. ClientFits'
  BY <1>1 DEF StartGroup, ClientFits, clientVars, storeVars
<1> QED
  BY <1>2, <1>5, <1>8, <1>9

\* If one fiber moves and is a fiber, all are.
LEMMA FibersFit ==
  ASSUME RunFits, NEW i \in DOMAIN fibers, NEW f \in Fiber, OnlyFiber(i, f)
  PROVE  fibers' \in [DOMAIN fibers' -> Fiber] /\ DOMAIN fibers' \subseteq 1 .. GroupCounters
<1>1. \A k \in DOMAIN fibers : fibers[k] \in Fiber
  BY DEF RunFits
<1>2. DOMAIN fibers \subseteq 1 .. GroupCounters
  BY DEF RunFits
<1>3. DOMAIN fibers' = DOMAIN fibers /\ \A k \in DOMAIN fibers' : fibers'[k] \in Fiber
  BY <1>1 DEF OnlyFiber
<1>4. fibers' = [k \in DOMAIN fibers' |-> fibers'[k]]
  BY DEF OnlyFiber
<1> QED
  BY <1>2, <1>3, <1>4

LEMMA BeginJobTypes ==
  ASSUME Shape, NEW i \in DOMAIN fibers, BeginJob(i)
  PROVE  ClientFits' /\ RunFits'
<1>1. ClientFits /\ RunFits
  BY DEF Shape
<1>2. PICK pos \in Positions :
        OnlyFiber(i, FiberOf(fibers[i], fibers[i].state, pos, chunkCount[QueryOf(pos)],
                             << >>, fibers[i].counter))
  BY BeginJobFacts
<1>3. FiberOf(fibers[i], fibers[i].state, pos, chunkCount[QueryOf(pos)], << >>, fibers[i].counter)
        \in Fiber
  <2>1. pos \in Nat \X Nat /\ chunkCount[QueryOf(pos)] \in Nat
    BY <1>1, PositionParts
  <2>2. fibers[i] \in Fiber
    BY FiberJob
  <2>3. << >> \in Seq(Nat)
    OBVIOUS
  <2> QED
    BY <2>1, <2>2, <2>3, FiberFields DEF FiberOf
<1>4. fibers' \in [DOMAIN fibers' -> Fiber] /\ DOMAIN fibers' \subseteq 1 .. GroupCounters
  BY <1>1, <1>2, <1>3, FibersFit
<1>5. RunFits'
  BY <1>1, <1>4 DEF BeginJob, RunFits
<1>6. ClientFits'
  BY <1>1 DEF BeginJob, ClientFits, clientVars, storeVars
<1> QED
  BY <1>5, <1>6

\* The tasks of a job are as many as their offsets.
LEMMA TasksOfJob ==
  ASSUME Shape, NEW i \in DOMAIN fibers, NEW made \in Seq(Nat)
  PROVE  /\ TasksOf(i, made) \subseteq [offset : Nat, arg : Args, counter : Nat]
         /\ IsFiniteSet(TasksOf(i, made))
         /\ Cardinality(TasksOf(i, made)) = Len(made)
         /\ \A t \in TasksOf(i, made) : t.arg.kind = "chunk" /\ t.counter = i
<1>0. fibers[i].pos[1] \in Nat /\ fibers[i].pos[2] \in Nat /\ i \in Nat
  BY FiberJob, GroupOfFiber
<1>1. PICK s \in Nat, j \in Nat : s = fibers[i].pos[1] /\ j = fibers[i].pos[2]
  BY <1>0
<1> DEFINE T(c) == [offset |-> made[c], arg |-> JobArg(s, j, c), counter |-> i]
           f == [c \in 1 .. Len(made) |-> T(c)]
<1>2. DOMAIN made = 1 .. Len(made) /\ Len(made) \in Nat /\ \A c \in DOMAIN made : made[c] \in Nat
  BY LenProperties
<1>3. TasksOf(i, made) = {T(c) : c \in 1 .. Len(made)}
  BY <1>1, <1>2 DEF TasksOf
<1>4. \A c \in 1 .. Len(made) :
        /\ T(c) \in [offset : Nat, arg : Args, counter : Nat]
        /\ T(c).arg.kind = "chunk" /\ T(c).counter = i /\ T(c).arg.chunk = c
  <2> TAKE c \in 1 .. Len(made)
  <2>1. c \in Nat /\ made[c] \in Nat
    BY <1>2
  <2>2. JobArg(s, j, c) \in Args /\ JobArg(s, j, c).kind = "chunk" /\ JobArg(s, j, c).chunk = c
    BY <2>1, JobArgs DEF JobArg, Args
  <2> QED
    BY <1>0, <2>1, <2>2
<1> HIDE DEF T
<1>5. /\ f \in [1 .. Len(made) -> TasksOf(i, made)]
      /\ \A c, d \in 1 .. Len(made) : f[c] = f[d] => c = d
      /\ \A t \in TasksOf(i, made) : \E c \in 1 .. Len(made) : f[c] = t
  BY <1>3, <1>4
<1> HIDE DEF f
<1>8. IsFiniteSet(TasksOf(i, made)) /\ Cardinality(TasksOf(i, made)) = Len(made)
  BY <1>2, <1>5, CountOfNumbered
<1> QED
  BY <1>3, <1>4, <1>8


LEMMA AddChunkTaskTypes ==
  ASSUME Shape, NEW i \in DOMAIN fibers, AddChunkTask(i)
  PROVE  ClientFits' /\ RunFits'
<1>1. ClientFits /\ RunFits
  BY DEF Shape
<1> DEFINE made == Append(fibers[i].made, currentBufferIndex)
           last == Len(made) = fibers[i].chunks
           arg  == JobArg(fibers[i].pos[1], fibers[i].pos[2], Len(made))
<1>2. made \in Seq(Nat) /\ Len(made) \in Nat /\ fibers[i].counter \in Nat
      /\ fibers[i].state \in {"running", "waiting"} /\ fibers[i].pos \in Nat \X Nat
      /\ fibers[i].chunks \in Nat /\ fibers[i] \in Fiber
  BY <1>1, FiberJob, FiberFields DEF RunFits
<1>3. arg \in Args
  BY <1>2 DEF JobArg, Args
<1>4. PICK ok \in BOOLEAN : Allocate(arg, ok) /\ ub' = ~ok
  BY DEF AddChunkTask
<1>5. /\ currentBufferIndex' \in Nat /\ argBuffer' \in [0 .. BufferSize - 1 -> Args]
      /\ ub' \in BOOLEAN
  <2> HIDE DEF arg
  <2> QED BY <1>1, <1>3, <1>4, AllocateHolds
<1>6. /\ fibers' \in [DOMAIN fibers' -> Fiber] /\ DOMAIN fibers' \subseteq 1 .. GroupCounters
      /\ queue' \subseteq [offset : Nat, arg : Args, counter : Nat] /\ IsFiniteSet(queue')
  <2>1. CASE ub'
    BY <2>1, <1>1 DEF AddChunkTask, RunFits
  <2>2. CASE ~ub'
    <3> DEFINE f == FiberOf(fibers[i], IF last THEN "waiting" ELSE fibers[i].state, fibers[i].pos,
                      fibers[i].chunks, made, IF last THEN Len(made) ELSE fibers[i].counter)
    <3>1. OnlyFiber(i, f)
      BY <1>1, <2>2, AddChunkTaskFiber
    <3>2. f \in Fiber
      <4>1. (IF last THEN "waiting" ELSE fibers[i].state) \in {"running", "waiting"}
            /\ (IF last THEN Len(made) ELSE fibers[i].counter) \in Nat
        BY <1>2
      <4> HIDE DEF last, made
      <4> QED
        BY <1>2, <4>1, FiberFields DEF FiberOf
    <3> HIDE DEF f
    <3>3. fibers' \in [DOMAIN fibers' -> Fiber] /\ DOMAIN fibers' \subseteq 1 .. GroupCounters
      BY <1>1, <3>1, <3>2, FibersFit
    <3>4. queue' = IF last THEN queue \union TasksOf(i, made) ELSE queue
      BY <2>2 DEF AddChunkTask
    <3>5. /\ TasksOf(i, made) \subseteq [offset : Nat, arg : Args, counter : Nat]
          /\ IsFiniteSet(TasksOf(i, made))
      <4> HIDE DEF made
      <4> QED BY <1>2, TasksOfJob
    <3> HIDE DEF made, last
    <3>6. IsFiniteSet(queue \union TasksOf(i, made))
      BY <3>5, <1>1, FS_Union DEF RunFits
    <3> QED
      BY <3>3, <3>4, <3>5, <3>6, <1>1 DEF RunFits
  <2> QED
    BY <2>1, <2>2, <1>5
<1>7. RunFits'
  BY <1>1, <1>5, <1>6 DEF AddChunkTask, RunFits
<1>8. ClientFits'
  BY <1>1, <1>5 DEF AddChunkTask, ClientFits, clientVars, storeVars
<1> QED
  BY <1>7, <1>8

LEMMA EndJobTypes ==
  ASSUME Shape, NEW i \in DOMAIN fibers, EndJob(i)
  PROVE  ClientFits' /\ RunFits'
<1>1. ClientFits /\ RunFits
  BY DEF Shape
<1> DEFINE f == FiberOf(fibers[i], "running", fibers[i].pos, fibers[i].chunks, fibers[i].made,
                        fibers[i].counter)
<1>2. OnlyFiber(i, f)
  BY <1>1, EndJobFiber
<1>3. f \in Fiber
  <2>1. fibers[i] \in Fiber
    BY FiberJob
  <2> QED
    BY <2>1, FiberFields DEF FiberOf
<1> HIDE DEF f
<1>4. fibers' \in [DOMAIN fibers' -> Fiber] /\ DOMAIN fibers' \subseteq 1 .. GroupCounters
  BY <1>1, <1>2, <1>3, FibersFit
<1>5. RunFits'
  BY <1>1, <1>4 DEF EndJob, RunFits
<1>6. ClientFits'
  BY <1>1 DEF EndJob, ClientFits, clientVars, storeVars
<1> QED
  BY <1>5, <1>6

LEMMA EndGroupTypes ==
  ASSUME Shape, NEW i \in DOMAIN fibers, EndGroup(i)
  PROVE  /\ ClientFits' /\ RunFits'
         /\ DOMAIN fibers' = DOMAIN fibers \ {i}
         /\ \A k \in DOMAIN fibers' : fibers'[k] = fibers[k]
         /\ groupCounters'[i] = 0
         /\ \A k \in 1 .. GroupCounters : k # i => groupCounters'[k] = groupCounters[k]
<1>1. ClientFits /\ RunFits
  BY DEF Shape
<1>2. i \in 1 .. GroupCounters /\ groupCounters[i] = 1
  BY GroupOfFiber
<1>3. groupCounters \in [1 .. GroupCounters -> {0, 1}]
  BY <1>1 DEF RunFits
<1>4. groupCounters' = [groupCounters EXCEPT ![i] = @ - 1]
  BY DEF EndGroup
<1>5. /\ groupCounters' \in [1 .. GroupCounters -> {0, 1}] /\ groupCounters'[i] = 0
      /\ \A k \in 1 .. GroupCounters : k # i => groupCounters'[k] = groupCounters[k]
  BY <1>2, <1>3, <1>4
<1>6. fibers' = [k \in DOMAIN fibers \ {i} |-> fibers[k]]
  BY DEF EndGroup
<1>7. /\ fibers' \in [DOMAIN fibers' -> Fiber] /\ DOMAIN fibers' \subseteq 1 .. GroupCounters
      /\ DOMAIN fibers' = DOMAIN fibers \ {i}
      /\ \A k \in DOMAIN fibers' : fibers'[k] = fibers[k]
  <2>1. \A k \in DOMAIN fibers : fibers[k] \in Fiber
    BY <1>1 DEF RunFits
  <2>2. DOMAIN fibers \subseteq 1 .. GroupCounters
    BY <1>1 DEF RunFits
  <2> QED BY <1>6, <2>1, <2>2
<1>8. RunFits'
  BY <1>1, <1>5, <1>7 DEF EndGroup, RunFits
<1>9. ClientFits'
  BY <1>1 DEF EndGroup, ClientFits, clientVars, storeVars
<1> QED
  BY <1>5, <1>7, <1>8, <1>9

LEMMA StartChunkTypes ==
  ASSUME Shape, NEW t \in queue, StartChunk(t)
  PROVE  /\ ClientFits' /\ RunFits'
         /\ queue' = queue \ {t} /\ running' = running \union {t} /\ fibers' = fibers
         /\ t.arg.kind = "chunk"
<1>1. ClientFits /\ RunFits
  BY DEF Shape
<1>2. t \in [offset : Nat, arg : Args, counter : Nat]
  BY <1>1 DEF RunFits
<1>3. argBuffer[t.offset] = t.arg
  BY DEF Shape, ArgumentsHeld, Holds
<1>4. [t EXCEPT !.arg = argBuffer[t.offset]] = t
  BY <1>2, <1>3
<1>5. queue' = queue \ {t} /\ running' = running \union {t} /\ fibers' = fibers /\ t.arg.kind = "chunk"
  BY <1>4 DEF StartChunk
<1>6. IsFiniteSet(queue') /\ IsFiniteSet(running')
  BY <1>1, <1>5, FS_RemoveElement, FS_AddElement DEF RunFits
<1>7. RunFits'
  BY <1>1, <1>2, <1>5, <1>6 DEF StartChunk, RunFits
<1>8. ClientFits'
  BY <1>1 DEF StartChunk, ClientFits, clientVars, storeVars
<1> QED
  BY <1>5, <1>7, <1>8

LEMMA EndChunkTypes ==
  ASSUME Shape, NEW t \in running, EndChunk(t)
  PROVE  /\ ClientFits' /\ RunFits'
         /\ t.counter \in DOMAIN fibers /\ t.arg.kind = "chunk"
         /\ OnlyFiber(t.counter, FiberOf(fibers[t.counter], fibers[t.counter].state,
              fibers[t.counter].pos, fibers[t.counter].chunks, fibers[t.counter].made,
              fibers[t.counter].counter - 1))
<1>1. ClientFits /\ RunFits
  BY DEF Shape
<1>2. t.arg.kind = "chunk"
  BY DEF Shape, GroupsCounted
<1> DEFINE i == t.counter
           f == FiberOf(fibers[i], fibers[i].state, fibers[i].pos, fibers[i].chunks, fibers[i].made,
                        fibers[i].counter - 1)
<1>3. i \in DOMAIN fibers /\ fibers[i].counter > 0
  BY <1>2, OpenTask
<1>4. OnlyFiber(i, f)
  BY <1>1, <1>3, EndChunkFiber
<1>5. f \in Fiber
  <2> HIDE DEF i
  <2>1. fibers[i] \in Fiber /\ fibers[i].counter - 1 \in Nat
    BY <1>3, FiberJob
  <2> QED
    BY <2>1, FiberFields DEF FiberOf
<1>6. fibers' \in [DOMAIN fibers' -> Fiber] /\ DOMAIN fibers' \subseteq 1 .. GroupCounters
  <2> HIDE DEF f, i
  <2> QED BY <1>1, <1>3, <1>4, <1>5, FibersFit
<1>7. running' = running \ {t} /\ IsFiniteSet(running')
  BY <1>1, FS_RemoveElement DEF EndChunk, RunFits
<1>8. RunFits'
  BY <1>1, <1>6, <1>7 DEF EndChunk, RunFits
<1>9. ClientFits'
  BY <1>1 DEF EndChunk, ClientFits, clientVars, storeVars
<1> QED
  BY <1>2, <1>3, <1>4, <1>8, <1>9


-----------------------------------------------------------------------------
\* What depends on the systems only, and on the fibers only.
LEMMA SameSystems ==
  ASSUME systems' = systems, chunkCount' = chunkCount
  PROVE  /\ UniqueGroups' = UniqueGroups /\ Positions' = Positions /\ AllTasks' = AllTasks
         /\ \A p : QueryOf(p)' = QueryOf(p)
<1>1. UniqueGroups' = UniqueGroups
  BY DEF UniqueGroups, FoldLeft, MapThenFoldSet
<1>2. Positions' = Positions
  BY DEF Positions
<1>3. \A p : QueryOf(p)' = QueryOf(p)
  BY DEF QueryOf
<1>4. AllTasks' = AllTasks
  BY <1>2 DEF AllTasks, QueryOf
<1> QED
  BY <1>1, <1>2, <1>3, <1>4

LEMMA SameFiber ==
  ASSUME NEW i, fibers'[i] = fibers[i]
  PROVE  \A c : ChunkTask(i, c)' = ChunkTask(i, c)
BY DEF ChunkTask

LEMMA SameOpen ==
  ASSUME NEW i,
         \A t : t.arg.kind = "chunk" /\ t.counter = i =>
                  (t \in queue' \union running' <=> t \in queue \union running)
  PROVE  Open(i)' = Open(i)
BY DEF Open

\* What a fiber knows of its job does not depend on the other variables.
LEMMA SameJob ==
  ASSUME main'.groups = main.groups, systems' = systems, chunkCount' = chunkCount
  PROVE  \A i, f : InJob(i, f)' <=> InJob(i, f)
BY SameSystems DEF InJob, QueryOf

\* The client's steps are taken when nothing runs.
LEMMA ClientShape ==
  ASSUME Shape, ClientStep
  PROVE  Shape'
<1>1. /\ ClientFits' /\ RunFits' /\ ~ub' /\ main = Idle /\ fibers' = fibers
      /\ queue' = queue /\ running' = running /\ processed' = processed
      /\ currentBufferIndex' = currentBufferIndex
  BY ClientTypes
<1>2. /\ queue = {} /\ running = {} /\ DOMAIN fibers = {} /\ DOMAIN processed = {}
      /\ currentBufferIndex = 0 /\ \A k \in 1 .. GroupCounters : groupCounters[k] = 0
  BY <1>1 DEF Shape, IdleIsClean, Idle
<1>3. \A k \in 1 .. GroupCounters : groupCounters'[k] = 0
  <2>1. CASE RunSystems
    BY <2>1 DEF RunSystems
  <2>2. CASE UNCHANGED groupCounters
    BY <2>2, <1>2
  <2> QED
    BY <2>1, <2>2 DEF ClientStep, ScheduleSystem, SetMode, RunSingleThreaded, UseStore
<1>4. IdleIsClean' /\ GroupsListed'
  <2>1. CASE RunSystems
    <3>1. systems' = systems /\ chunkCount' = chunkCount
      BY <2>1 DEF RunSystems, clientVars, storeVars
    <3>2. UniqueGroups' = UniqueGroups
      BY <3>1, SameSystems
    <3>3. main' = [phase |-> IF systems = << >> THEN "waiting" ELSE "adding",
                   groups |-> UniqueGroups, at |-> 1]
      BY <2>1 DEF RunSystems
    <3>4. /\ main'.phase # "idle" /\ main'.groups = UniqueGroups /\ main'.at = 1
          /\ main'.phase = "adding" => systems # << >>
      BY <3>3
    <3>5. /\ systems \in Seq([class : Classes, group : Nat])
          /\ UniqueGroups \in Seq(Nat)
          /\ \A s \in DOMAIN systems : \E k \in DOMAIN UniqueGroups : UniqueGroups[k] = systems[s].group
      BY GroupsAreListed DEF Shape, ClientFits
    <3>6. systems # << >> => 1 \in DOMAIN systems
      BY <3>5
    <3>7. systems # << >> => 1 \in 1 .. Len(UniqueGroups)
      BY <3>5, <3>6
    <3> QED
      BY <3>2, <3>4, <3>7 DEF IdleIsClean, GroupsListed
  <2>2. CASE UNCHANGED main
    <3>1. main'.phase = "idle" /\ main' = Idle
      BY <2>2, <1>1 DEF Idle
    <3> QED
      BY <3>1, <1>1, <1>2, <1>3 DEF IdleIsClean, GroupsListed
  <2> QED
    BY <2>1, <2>2 DEF ClientStep, ScheduleSystem, SetMode, RunSingleThreaded, UseStore
<1>5. GroupsCounted' /\ ArgumentsHeld' /\ FibersInJobs'
  BY <1>1, <1>2, <1>3 DEF GroupsCounted, ArgumentsHeld, FibersInJobs
<1>6. OpenCounted'
  BY <1>1, <1>2 DEF OpenCounted
<1> QED
  BY <1>1, <1>4, <1>5, <1>6 DEF Shape

LEMMA FinishRunShape ==
  ASSUME Shape, FinishRun
  PROVE  Shape'
<1>1. ClientFits' /\ RunFits' /\ main' = Idle /\ ~ub'
  BY FinishRunTypes
<1>2. /\ queue' = queue /\ running' = running /\ fibers' = fibers /\ groupCounters' = groupCounters
      /\ processed' = << >> /\ currentBufferIndex' = 0 /\ GroupsDone
  BY DEF FinishRun, ResetIndices
<1>3. DOMAIN fibers' = {} /\ queue' = {} /\ running' = {}
  BY <1>2, NothingLeft
<1>4. \A k \in 1 .. GroupCounters : groupCounters'[k] = 0
  BY <1>2 DEF GroupsDone, Shape, RunFits
<1>5. main'.phase = "idle" /\ DOMAIN processed' = {}
  BY <1>1, <1>2 DEF Idle
<1>6. IdleIsClean' /\ GroupsListed'
  BY <1>1, <1>2, <1>3, <1>4, <1>5 DEF IdleIsClean, GroupsListed
<1>7. GroupsCounted' /\ ArgumentsHeld' /\ FibersInJobs'
  BY <1>3, <1>4 DEF GroupsCounted, ArgumentsHeld, FibersInJobs
<1>8. OpenCounted'
  BY <1>3 DEF OpenCounted
<1> QED
  BY <1>1, <1>6, <1>7, <1>8 DEF Shape


\* What no step that leaves the bytes of held arguments changes.
LEMMA HeldOfFiber ==
  ASSUME Shape, NEW i \in DOMAIN fibers,
         \A o \in Nat, a \in Args : Holds(o, a) => Holds(o, a)'
  PROVE  /\ \A o, a : o = fibers[i].offset /\ a = fibers[i].arg => Holds(o, a)'
         /\ \A c \in DOMAIN fibers[i].made : \A o, a :
              o = fibers[i].made[c] /\ a = ChunkTask(i, c).arg => Holds(o, a)'
<1>1. fibers[i] \in Fiber
  BY FiberJob
<1>2. /\ fibers[i].offset \in Nat /\ fibers[i].arg \in Args
      /\ Holds(fibers[i].offset, fibers[i].arg)
  BY <1>1, FiberFields DEF Shape, ArgumentsHeld
<1>3. ASSUME NEW c \in DOMAIN fibers[i].made
      PROVE  /\ fibers[i].made[c] \in Nat /\ ChunkTask(i, c).arg \in Args
             /\ Holds(fibers[i].made[c], ChunkTask(i, c).arg)
  <2>1. fibers[i].made \in Seq(Nat) /\ DOMAIN fibers[i].made = 1 .. Len(fibers[i].made)
        /\ fibers[i].pos[1] \in Nat /\ fibers[i].pos[2] \in Nat /\ Len(fibers[i].made) \in Nat
    BY FiberJob
  <2>2. fibers[i].made[c] \in Nat /\ c \in Nat
    BY <1>3, <2>1
  <2>3. ChunkTask(i, c).arg = JobArg(fibers[i].pos[1], fibers[i].pos[2], c)
    BY DEF ChunkTask
  <2>4. ChunkTask(i, c).arg \in Args
    BY <2>1, <2>2, <2>3 DEF JobArg, Args
  <2>5. Holds(fibers[i].made[c], ChunkTask(i, c).arg)
    BY <1>3 DEF Shape, ArgumentsHeld
  <2> QED BY <2>2, <2>4, <2>5
<1>4. ASSUME NEW o, NEW a, o = fibers[i].offset, a = fibers[i].arg PROVE Holds(o, a)'
  <2>1. o \in Nat /\ a \in Args /\ Holds(o, a)
    BY <1>2, <1>4 DEF Holds
  <2> QED BY <2>1
<1>5. ASSUME NEW c \in DOMAIN fibers[i].made, NEW o, NEW a,
             o = fibers[i].made[c], a = ChunkTask(i, c).arg
      PROVE  Holds(o, a)'
  <2>1. o \in Nat /\ a \in Args /\ Holds(o, a)
    BY <1>3, <1>5 DEF Holds
  <2> QED BY <2>1
<1> QED
  BY <1>4, <1>5

LEMMA StillHeld ==
  ASSUME Shape, fibers' = fibers,
         \A o \in Nat, a \in Args : Holds(o, a) => Holds(o, a)',
         \A t \in queue' : Holds(t.offset, t.arg)'
  PROVE  ArgumentsHeld'
<1>1. ASSUME NEW i \in DOMAIN fibers'
      PROVE  /\ Holds(fibers[i].offset, fibers[i].arg)'
             /\ \A c \in DOMAIN fibers'[i].made : Holds(fibers[i].made[c], ChunkTask(i, c).arg)'
  <2>1. i \in DOMAIN fibers
    OBVIOUS
  <2>2. \A c : ChunkTask(i, c)' = ChunkTask(i, c)
    BY SameFiber
  <2> QED
    BY <2>1, <2>2, HeldOfFiber DEF Holds
<1> QED
  BY <1>1 DEF ArgumentsHeld

LEMMA SameOpenCounted ==
  ASSUME Shape, fibers' = fibers, queue' \intersect running' = {},
         \A t \in queue' \union running' : t.arg.kind = "chunk" => t \in queue \union running,
         \A k : Open(k)' = Open(k)
  PROVE  OpenCounted'
<1>1. \A i, c : ChunkTask(i, c)' = ChunkTask(i, c)
  BY SameFiber
<1> QED
  BY <1>1 DEF Shape, OpenCounted

LEMMA AddGroupTaskShape ==
  ASSUME Shape, AddGroupTask
  PROVE  /\ Shape'
         /\ \E ok \in BOOLEAN :
              /\ Allocate(GroupArg(main.groups[main.at]), ok)
              /\ ub' <=> (~ok \/ main.at > GroupCounters)
         /\ \A k : Open(k)' = Open(k)
         /\ \A k : Added(k) => Added(k)'
         /\ \A k : Added(k)' => Added(k) \/ k = main.at
         /\ ~Added(main.at)
         /\ \A k \in 1 .. GroupCounters : k # main.at => groupCounters'[k] = groupCounters[k]
         /\ ~ub' => main.at \in 1 .. GroupCounters /\ groupCounters'[main.at] = 1
<1>1. /\ ClientFits' /\ RunFits'
      /\ main.at \in 1 .. Len(main.groups)
      /\ main'.groups = main.groups /\ main'.at \in Nat
      /\ \/ main'.phase = "adding" /\ main'.at = main.at + 1 /\ main.at < Len(main.groups)
         \/ main'.phase = "waiting" /\ main'.at = main.at /\ main.at = Len(main.groups)
  BY AddGroupTaskTypes
<1>2. ClientFits /\ RunFits
  BY DEF Shape
<1>3. /\ fibers' = fibers /\ running' = running /\ systems' = systems /\ chunkCount' = chunkCount
      /\ main.phase = "adding"
  BY DEF AddGroupTask, clientVars, storeVars
<1>4. Len(main.groups) \in Nat /\ main.groups \in Seq(Nat) /\ main.groups[main.at] \in Nat
      /\ main.at \in Nat
  <2>1. main.groups \in Seq(Nat) /\ main.at \in Nat
    BY <1>2 DEF RunFits
  <2> QED BY <1>1, <2>1, LenProperties, ElementOfSeq
<1>a. GroupArg(main.groups[main.at]) \in Args /\ GroupArg(main.groups[main.at]).kind = "group"
  BY <1>4 DEF GroupArg, Args
<1>5. PICK arg \in Args : arg = GroupArg(main.groups[main.at]) /\ arg.kind = "group"
  BY <1>a
<1> DEFINE t == [offset |-> currentBufferIndex, arg |-> arg, counter |-> main.at]
<1>6. PICK ok \in BOOLEAN : /\ Allocate(arg, ok)
                            /\ ub' = (~ok \/ main.at > GroupCounters)
  BY <1>5 DEF AddGroupTask
<1>7. ub' <=> (~ok \/ main.at > GroupCounters)
  BY Zenon, <1>6
<1>8. /\ \A k : Added(k) => Added(k)'
      /\ \A k : Added(k)' => Added(k) \/ k = main.at
      /\ ~Added(main.at)
      /\ \A k : k = main.at => Added(k)'
  <2>1. CASE main'.phase = "adding"
    <3>1. main'.at = main.at + 1 /\ main'.groups = main.groups
      BY <2>1, <1>1
    <3>2. \A k : Added(k)' <=> k \in 1 .. Len(main.groups) /\ k < main.at + 1
      BY <2>1, <3>1 DEF Added
    <3>3. \A k : Added(k) <=> k \in 1 .. Len(main.groups) /\ k < main.at
      BY <1>3 DEF Added
    <3>4. \A k \in 1 .. Len(main.groups) : k < main.at + 1 <=> k < main.at \/ k = main.at
      BY <1>1, <1>4
    <3> QED
      BY <3>2, <3>3, <3>4, <1>1, <1>4
  <2>2. CASE main'.phase = "waiting"
    <3>1. main'.at = main.at /\ main.at = Len(main.groups) /\ main'.groups = main.groups
      BY <2>2, <1>1
    <3>2. \A k : Added(k)' <=> k \in 1 .. Len(main.groups)
      BY <2>2, <3>1 DEF Added
    <3>3. \A k : Added(k) <=> k \in 1 .. Len(main.groups) /\ k < main.at
      BY <1>3 DEF Added
    <3> QED
      BY <3>1, <3>2, <3>3, <1>1, <1>4
  <2> QED
    BY <2>1, <2>2, <1>1
<1>9. \/ ub' /\ queue' = queue /\ groupCounters' = groupCounters
      \/ /\ ~ub' /\ queue' = queue \union {t}
         /\ groupCounters' = [groupCounters EXCEPT ![main.at] = @ + 1]
  BY <1>5 DEF AddGroupTask
<1>10. t.arg = arg /\ t.counter = main.at /\ t.offset = currentBufferIndex
  OBVIOUS
<1>11. ~ub' => main.at \in 1 .. GroupCounters
  BY <1>7, <1>1, <1>4, SchedulerConstants
<1>12. groupCounters \in [1 .. GroupCounters -> {0, 1}]
  BY <1>2 DEF RunFits
<1>13. ~ub' => groupCounters[main.at] = 0
  BY <1>8, <1>11, <1>12 DEF Shape, GroupsCounted
<1>14. /\ \A k \in 1 .. GroupCounters : k # main.at => groupCounters'[k] = groupCounters[k]
       /\ ~ub' => groupCounters'[main.at] = 1
       /\ \A k \in 1 .. GroupCounters : groupCounters[k] = 1 => groupCounters'[k] = 1
       /\ ub' => groupCounters' = groupCounters
  <2>1. CASE ub'
    BY <2>1, <1>9
  <2>2. CASE ~ub'
    <3>1. groupCounters' = [groupCounters EXCEPT ![main.at] = @ + 1]
      BY <2>2, <1>9
    <3> QED
      BY <3>1, <2>2, <1>11, <1>12, <1>13
  <2> QED
    BY <2>1, <2>2
<1> HIDE DEF t
<1>15. \A k : Open(k)' = Open(k)
  <2> TAKE k
  <2>1. \A u : u.arg.kind = "chunk" /\ u.counter = k =>
                 (u \in queue' \union running' <=> u \in queue \union running)
    BY <1>3, <1>5, <1>9, <1>10
  <2> QED
    BY <2>1, SameOpen
<1>16. IdleIsClean'
  BY <1>1 DEF IdleIsClean
<1>17. GroupsListed'
  <2>1. UniqueGroups' = UniqueGroups
    BY <1>3, SameSystems
  <2>2. main.groups = UniqueGroups
    BY <1>3 DEF Shape, GroupsListed
  <2> QED
    BY <1>1, <1>4, <2>1, <2>2 DEF GroupsListed
<1>18. GroupsCounted'
  <2>1. \A k \in 1 .. GroupCounters : groupCounters'[k] = 1 => Added(k)'
    <3> TAKE k \in 1 .. GroupCounters
    <3>1. groupCounters[k] = 1 => Added(k)
      BY DEF Shape, GroupsCounted
    <3>2. CASE k = main.at
      BY <3>2, <1>8
    <3>3. CASE k # main.at
      <4>1. groupCounters'[k] = groupCounters[k]
        BY <3>3, <1>14
      <4>2. Added(k) => Added(k)'
        BY <1>8
      <4> QED BY <3>1, <4>1, <4>2
    <3> QED
      BY <3>2, <3>3
  <2>2. \A i \in DOMAIN fibers' :
          groupCounters'[i] = 1 /\ fibers'[i].arg = GroupArg(main'.groups[i])
    <3> TAKE i \in DOMAIN fibers'
    <3>1. i \in DOMAIN fibers /\ i \in 1 .. GroupCounters
      BY <1>3, GroupOfFiber
    <3>2. groupCounters[i] = 1 /\ fibers[i].arg = GroupArg(main.groups[i])
      BY <3>1 DEF Shape, GroupsCounted
    <3> QED
      BY <1>1, <1>3, <1>14, <3>1, <3>2
  <2>3. \A u \in queue : u.arg.kind = "group" =>
          /\ u.counter \in (1 .. GroupCounters) \ DOMAIN fibers
          /\ groupCounters[u.counter] = 1 /\ u.counter # main.at
          /\ u.arg = GroupArg(main.groups[u.counter])
    BY <1>8 DEF Shape, GroupsCounted
  <2>4. main.at \notin DOMAIN fibers
    BY <1>8, GroupOfFiber
  <2>5. \A u \in queue' : u.arg.kind = "group" =>
          /\ u.counter \in (1 .. GroupCounters) \ DOMAIN fibers'
          /\ groupCounters'[u.counter] = 1
          /\ u.arg = GroupArg(main'.groups[u.counter])
    <3> TAKE u \in queue'
    <3>1. CASE u \in queue
      BY <3>1, <2>3, <1>14, <1>1, <1>3
    <3>2. CASE ~ub' /\ u = t
      BY <3>2, <1>10, <1>11, <1>14, <1>1, <1>3, <2>4, <1>5
    <3> QED
      BY <1>9, <3>1, <3>2
  <2>6. \A u, v \in queue' :
          u.arg.kind = "group" /\ v.arg.kind = "group" /\ u.counter = v.counter => u = v
    BY <1>9, <1>10, <2>3 DEF Shape, GroupsCounted
  <2>7. /\ \A u \in queue' : u.arg.kind \in {"group", "chunk"}
        /\ \A u \in running' : u.arg.kind = "chunk"
    BY <1>3, <1>5, <1>9, <1>10 DEF Shape, GroupsCounted
  <2> QED
    BY <2>1, <2>2, <2>5, <2>6, <2>7 DEF GroupsCounted
<1>19. ArgumentsHeld'
  <2>1. /\ \A o \in Nat, a \in Args : Holds(o, a) => Holds(o, a)'
        /\ ok => \A o \in Nat : o = currentBufferIndex => Holds(o, arg)'
    BY <1>2, <1>6, AllocateHolds
  <2>2. \A u \in queue' : Holds(u.offset, u.arg)'
    <3> TAKE u \in queue'
    <3>1. CASE u \in queue
      <4>1. u.offset \in Nat /\ u.arg \in Args
        BY <3>1, <1>2 DEF RunFits
      <4>2. Holds(u.offset, u.arg)
        BY <3>1 DEF Shape, ArgumentsHeld
      <4> QED BY <4>1, <4>2, <2>1
    <3>2. CASE ~ub' /\ u = t
      <4>1. ok /\ u.offset = currentBufferIndex /\ u.arg = arg /\ u.offset \in Nat
        BY <3>2, <1>7, <1>10, <1>2 DEF RunFits
      <4>2. PICK o \in Nat : o = u.offset
        BY <4>1
      <4>3. Holds(o, arg)'
        BY <4>1, <4>2, <2>1
      <4> QED BY <4>1, <4>2, <4>3 DEF Holds
    <3> QED
      BY <1>9, <3>1, <3>2
  <2> QED
    BY <1>3, <2>1, <2>2, StillHeld
<1>20. FibersInJobs'
  <2>1. \A k \in DOMAIN fibers : \A x : x = fibers[k] => InJob(k, x)'
    BY <1>1, <1>3, SameJob DEF Shape, FibersInJobs
  <2>2. ASSUME NEW k \in DOMAIN fibers' PROVE InJob(k, fibers[k])'
    <3>1. PICK x : x = fibers[k]
      OBVIOUS
    <3>2. InJob(k, x)'
      BY <1>3, <2>1, <3>1
    <3> QED BY <1>3, <3>1, <3>2
  <2> QED
    BY <2>2 DEF FibersInJobs
<1>21. OpenCounted'
  <2>1. /\ queue' \intersect running' = {}
        /\ \A u \in queue' \union running' : u.arg.kind = "chunk" => u \in queue \union running
    BY <1>3, <1>5, <1>9, <1>10 DEF Shape, OpenCounted, GroupsCounted
  <2> QED
    BY <1>3, <1>15, <2>1, SameOpenCounted
<1> QED
  BY <1>1, <1>5, <1>6, <1>7, <1>8, <1>11, <1>14, <1>15, <1>16, <1>17, <1>18, <1>19, <1>20, <1>21 DEF Shape


\* What an action of a fiber at its job leaves.
LEMMA StillCounted ==
  ASSUME Shape, NEW i \in DOMAIN fibers, NEW f, OnlyFiber(i, f), f.arg = fibers[i].arg,
         main' = main, groupCounters' = groupCounters, systems' = systems, chunkCount' = chunkCount,
         \A t \in queue' : t.arg.kind = "group" => t \in queue,
         \A t \in queue' : t.arg.kind \in {"group", "chunk"},
         \A t \in running' : t.arg.kind = "chunk"
  PROVE  IdleIsClean' /\ GroupsListed' /\ GroupsCounted'
<1>1. main.phase # "idle"
  BY GroupOfFiber
<1>2. IdleIsClean'
  BY <1>1 DEF IdleIsClean
<1>3. GroupsListed'
  BY SameSystems DEF Shape, GroupsListed
<1>4. \A k : Added(k)' <=> Added(k)
  BY DEF Added
<1>5. DOMAIN fibers' = DOMAIN fibers /\ \A k \in DOMAIN fibers : fibers'[k].arg = fibers[k].arg
  BY DEF OnlyFiber
<1>6. \A k \in DOMAIN fibers' : groupCounters'[k] = 1 /\ fibers'[k].arg = GroupArg(main'.groups[k])
  BY <1>5 DEF Shape, GroupsCounted
<1>7. \A t \in queue' : t.arg.kind = "group" =>
        /\ t.counter \in (1 .. GroupCounters) \ DOMAIN fibers'
        /\ groupCounters'[t.counter] = 1
        /\ t.arg = GroupArg(main'.groups[t.counter])
  BY <1>5 DEF Shape, GroupsCounted
<1>8. \A k \in 1 .. GroupCounters : groupCounters'[k] = 1 => Added(k)'
  BY <1>4 DEF Shape, GroupsCounted
<1>9. \A t, u \in queue' :
        t.arg.kind = "group" /\ u.arg.kind = "group" /\ t.counter = u.counter => t = u
  BY DEF Shape, GroupsCounted
<1> QED
  BY <1>2, <1>3, <1>6, <1>7, <1>8, <1>9 DEF GroupsCounted

\* The other fibers stay in their jobs.
LEMMA StillInJobs ==
  ASSUME Shape, NEW i \in DOMAIN fibers, NEW f, OnlyFiber(i, f), InJob(i, f),
         main' = main, systems' = systems, chunkCount' = chunkCount
  PROVE  FibersInJobs'
<1>1. DOMAIN fibers' = DOMAIN fibers /\ fibers'[i] = f
      /\ \A k \in DOMAIN fibers : k # i => fibers'[k] = fibers[k]
  BY DEF OnlyFiber
<1>2. ASSUME NEW k \in DOMAIN fibers' PROVE \A x : x = fibers'[k] => InJob(k, x)'
  <2>1. CASE k = i
    BY <2>1, <1>1, SameJob
  <2>2. CASE k # i
    <3>1. k \in DOMAIN fibers /\ fibers'[k] = fibers[k]
      BY <2>2, <1>1
    <3>2. \A x : x = fibers[k] => InJob(k, x)
      BY <3>1 DEF Shape, FibersInJobs
    <3> QED BY <3>1, <3>2, SameJob
  <2> QED BY <2>1, <2>2
<1>3. ASSUME NEW k \in DOMAIN fibers' PROVE InJob(k, fibers[k])'
  <2>1. PICK x : x = fibers'[k]
    OBVIOUS
  <2>2. InJob(k, x)'
    BY <1>2, <2>1
  <2> QED BY <2>1, <2>2
<1> QED
  BY <1>3 DEF FibersInJobs

\* While a group's task runs, no task of its job does.
LEMMA RunningHasNone ==
  ASSUME Shape, NEW i \in DOMAIN fibers, fibers[i].state = "running"
  PROVE  fibers[i].counter = 0 /\ Open(i) = {}
<1>1. fibers[i].counter = 0 /\ fibers[i].counter = Cardinality(Open(i))
  BY DEF Shape, OpenCounted
<1>2. IsFiniteSet(queue \union running)
  BY FS_Union DEF Shape, RunFits
<1>3. IsFiniteSet(Open(i))
  BY <1>2, FS_Subset DEF Open
<1> QED
  BY <1>1, <1>3, FS_EmptySet

LEMMA BeginJobShape ==
  ASSUME Shape, NEW i \in DOMAIN fibers, BeginJob(i)
  PROVE  Shape'
<1>1. ClientFits' /\ RunFits' /\ ClientFits
  BY BeginJobTypes DEF Shape
<1>2. PICK pos \in Positions :
        /\ systems[pos[1]].group = main.groups[i]
        /\ OnlyFiber(i, FiberOf(fibers[i], fibers[i].state, pos, chunkCount[QueryOf(pos)],
                                << >>, fibers[i].counter))
  BY BeginJobFacts
<1>3. PICK f : f = FiberOf(fibers[i], fibers[i].state, pos, chunkCount[QueryOf(pos)],
                           << >>, fibers[i].counter)
  OBVIOUS
<1>4. /\ f.offset = fibers[i].offset /\ f.arg = fibers[i].arg
      /\ f.state = fibers[i].state /\ f.pos = pos /\ f.chunks = chunkCount[QueryOf(pos)]
      /\ f.made = << >> /\ f.counter = fibers[i].counter
  BY <1>3, FiberOfFields
<1>5. OnlyFiber(i, f)
  BY <1>2, <1>3
<1>6. /\ main' = main /\ groupCounters' = groupCounters /\ systems' = systems
      /\ chunkCount' = chunkCount /\ queue' = queue /\ running' = running
      /\ argBuffer' = argBuffer /\ currentBufferIndex' = currentBufferIndex
      /\ fibers[i].state = "running"
  BY DEF BeginJob, BetweenJobs, clientVars, storeVars
<1>7. IdleIsClean' /\ GroupsListed' /\ GroupsCounted'
  BY <1>4, <1>5, <1>6, StillCounted DEF Shape, GroupsCounted
<1>8. FibersInJobs'
  <2>1. chunkCount[QueryOf(pos)] \in Nat /\ pos # <<0, 0>>
    BY <1>1, PositionParts
  <2>2. Len(f.made) = 0
    BY <1>4
  <2> QED
    <3>1. InJob(i, f)
      BY <1>2, <1>4, <1>6, <2>1, <2>2 DEF InJob
    <3> QED BY <1>5, <1>6, <3>1, StillInJobs
<1>9. ArgumentsHeld'
  <2>1. \A o, a : Holds(o, a)' <=> Holds(o, a)
    BY <1>6 DEF Holds
  <2>2. DOMAIN fibers' = DOMAIN fibers /\ fibers'[i] = f
        /\ \A k \in DOMAIN fibers : k # i => fibers'[k] = fibers[k]
    BY <1>5 DEF OnlyFiber
  <2>3. DOMAIN f.made = {}
    BY <1>4
  <2>4. ASSUME NEW k \in DOMAIN fibers'
        PROVE  /\ Holds(fibers[k].offset, fibers[k].arg)'
               /\ \A c \in DOMAIN fibers'[k].made : Holds(fibers[k].made[c], ChunkTask(k, c).arg)'
    <3>1. fibers'[k].offset = fibers[k].offset /\ fibers'[k].arg = fibers[k].arg /\ k \in DOMAIN fibers
      BY <1>4, <2>2
    <3>2. Holds(fibers[k].offset, fibers[k].arg)'
      BY <3>1, <1>6 DEF Holds, Shape, ArgumentsHeld
    <3>3. CASE k = i
      BY <3>2, <3>3, <2>2, <2>3
    <3>4. CASE k # i
      <4>1. fibers'[k] = fibers[k]
        BY <3>1, <3>4, <2>2
      <4>2. \A c : ChunkTask(k, c)' = ChunkTask(k, c)
        BY <4>1, SameFiber
      <4>3. \A c \in DOMAIN fibers[k].made : Holds(fibers[k].made[c], ChunkTask(k, c).arg)
        BY <3>1 DEF Shape, ArgumentsHeld
      <4> QED
        BY <3>2, <4>1, <4>2, <4>3, <1>6 DEF Holds
    <3> QED BY <3>3, <3>4
  <2> QED
    BY <2>1, <2>4, <1>6 DEF ArgumentsHeld, Shape
<1>10. OpenCounted'
  <2>1. \A k : Open(k)' = Open(k)
    BY <1>6 DEF Open
  <2>2. DOMAIN fibers' = DOMAIN fibers /\ fibers'[i] = f
        /\ \A k \in DOMAIN fibers : k # i => fibers'[k] = fibers[k]
    BY <1>5 DEF OnlyFiber
  <2>3. fibers[i].counter = 0 /\ Open(i) = {}
    BY <1>6, RunningHasNone
  <2>4. ASSUME NEW k \in DOMAIN fibers'
        PROVE  /\ \A t \in Open(k)' : \E c \in 1 .. fibers'[k].chunks : t = ChunkTask(k, c)'
               /\ fibers'[k].counter = Cardinality(Open(k)')
               /\ fibers'[k].state = "running" => fibers'[k].counter = 0
    <3>1. CASE k = i
      <4>1. fibers[i].counter = Cardinality(Open(i))
        BY DEF Shape, OpenCounted
      <4> QED
        BY <3>1, <4>1, <2>1, <2>2, <2>3, <1>4
    <3>2. CASE k # i
      <4>1. fibers'[k] = fibers[k] /\ k \in DOMAIN fibers
        BY <3>2, <2>2
      <4>2. \A c : ChunkTask(k, c)' = ChunkTask(k, c)
        BY <4>1, SameFiber
      <4> QED
        BY <4>1, <4>2, <2>1 DEF Shape, OpenCounted
    <3> QED BY <3>1, <3>2
  <2> QED
    BY <1>6, <2>2, <2>4 DEF Shape, OpenCounted
<1> QED
  BY <1>1, <1>7, <1>8, <1>9, <1>10 DEF Shape


\* One fiber's part of ArgumentsHeld and OpenCounted, which a step that moves
\* another fiber leaves.
FiberHeld(i) ==
  /\ Holds(fibers[i].offset, fibers[i].arg)
  /\ \A c \in DOMAIN fibers[i].made : Holds(fibers[i].made[c], ChunkTask(i, c).arg)

FiberCounted(i) ==
  /\ \A t \in Open(i) : \E c \in 1 .. fibers[i].chunks : t = ChunkTask(i, c)
  /\ fibers[i].counter = Cardinality(Open(i))
  /\ fibers[i].state = "running" => fibers[i].counter = 0

LEMMA FiberParts ==
  /\ ArgumentsHeld <=> /\ \A t \in queue : Holds(t.offset, t.arg)
                       /\ \A i \in DOMAIN fibers : FiberHeld(i)
  /\ OpenCounted <=> /\ queue \intersect running = {}
                     /\ \A t \in queue \union running : t.arg.kind = "chunk" => t.counter \in DOMAIN fibers
                     /\ \A i \in DOMAIN fibers : FiberCounted(i)
BY DEF ArgumentsHeld, OpenCounted, FiberHeld, FiberCounted

LEMMA OtherFiber ==
  ASSUME Shape, NEW k \in DOMAIN fibers, fibers'[k] = fibers[k]
  PROVE  /\ (\A o \in Nat, a \in Args : Holds(o, a) => Holds(o, a)') => FiberHeld(k)'
         /\ Open(k)' = Open(k) => FiberCounted(k)'
<1>1. \A c : ChunkTask(k, c)' = ChunkTask(k, c)
  BY SameFiber
<1>2. ASSUME \A o \in Nat, a \in Args : Holds(o, a) => Holds(o, a)'
      PROVE  FiberHeld(k)'
  BY <1>1, <1>2, HeldOfFiber DEF FiberHeld, Holds
<1>3. ASSUME Open(k)' = Open(k) PROVE FiberCounted(k)'
  BY <1>1, <1>3 DEF FiberCounted, Shape, OpenCounted
<1> QED
  BY <1>2, <1>3

\* The bytes of no argument change while the buffer does not.
LEMMA SameBuffer ==
  ASSUME argBuffer' = argBuffer, currentBufferIndex' = currentBufferIndex
  PROVE  \A o, a : Holds(o, a)' <=> Holds(o, a)
BY DEF Holds

LEMMA StartGroupShape ==
  ASSUME Shape, NEW t \in queue, StartGroup(t)
  PROVE  Shape'
<1>1. /\ ClientFits' /\ RunFits'
      /\ t.counter \in (1 .. GroupCounters) \ DOMAIN fibers
      /\ DOMAIN fibers' = DOMAIN fibers \union {t.counter}
      /\ fibers'[t.counter] = NewFiber(t)
      /\ \A k \in DOMAIN fibers : fibers'[k] = fibers[k]
  BY StartGroupTypes
<1>2. PICK i : i = t.counter
  OBVIOUS
<1>3. PICK f : f = NewFiber(t)
  OBVIOUS
<1>4. /\ f.offset = t.offset /\ f.arg = t.arg /\ f.state = "running" /\ f.pos = <<0, 0>>
      /\ f.chunks = 0 /\ f.made = << >> /\ f.counter = 0
  BY <1>3 DEF NewFiber
<1>5. /\ main' = main /\ groupCounters' = groupCounters /\ systems' = systems
      /\ chunkCount' = chunkCount /\ queue' = queue \ {t} /\ running' = running
      /\ argBuffer' = argBuffer /\ currentBufferIndex' = currentBufferIndex
      /\ t.arg.kind = "group"
  BY DEF StartGroup, clientVars, storeVars
<1>6. main.phase # "idle"
  BY DEF Shape, IdleIsClean
<1>7. IdleIsClean' /\ GroupsListed'
  BY <1>5, <1>6, SameSystems DEF IdleIsClean, Shape, GroupsListed
<1>8. GroupsCounted'
  <2>1. \A k : Added(k)' <=> Added(k)
    BY <1>5 DEF Added
  <2>2. \A k \in 1 .. GroupCounters : groupCounters'[k] = 1 => Added(k)'
    BY <1>5, <2>1 DEF Shape, GroupsCounted
  <2>3. \A k \in DOMAIN fibers' : groupCounters'[k] = 1 /\ fibers'[k].arg = GroupArg(main'.groups[k])
    <3> TAKE k \in DOMAIN fibers'
    <3>1. CASE k = t.counter
      <4>1. groupCounters[t.counter] = 1 /\ t.arg = GroupArg(main.groups[t.counter])
        BY <1>5 DEF Shape, GroupsCounted
      <4> QED BY <3>1, <4>1, <1>1, <1>3, <1>4, <1>5
    <3>2. CASE k \in DOMAIN fibers
      BY <3>2, <1>1, <1>5 DEF Shape, GroupsCounted
    <3> QED BY <1>1, <3>1, <3>2
  <2>4. \A u \in queue' : u.arg.kind = "group" =>
          /\ u.counter \in (1 .. GroupCounters) \ DOMAIN fibers'
          /\ groupCounters'[u.counter] = 1
          /\ u.arg = GroupArg(main'.groups[u.counter])
    <3> TAKE u \in queue'
    <3> HAVE u.arg.kind = "group"
    <3>1. u \in queue /\ u # t
      BY <1>5
    <3>2. /\ u.counter # t.counter /\ u.counter \in (1 .. GroupCounters) \ DOMAIN fibers
          /\ groupCounters[u.counter] = 1 /\ u.arg = GroupArg(main.groups[u.counter])
      BY <3>1, <1>5 DEF Shape, GroupsCounted
    <3> QED BY <3>2, <1>1, <1>5
  <2> QED
    BY <2>2, <2>3, <2>4, <1>5 DEF Shape, GroupsCounted
<1>9. FibersInJobs'
  <2>1. ASSUME NEW k \in DOMAIN fibers' PROVE \A x : x = fibers'[k] => InJob(k, x)'
    <3>1. CASE k = t.counter
      <4>1. InJob(k, f)
        BY <1>4 DEF InJob
      <4> QED BY <3>1, <4>1, <1>1, <1>3, <1>5, SameJob
    <3>2. CASE k \in DOMAIN fibers
      <4>1. \A x : x = fibers[k] => InJob(k, x)
        BY <3>2 DEF Shape, FibersInJobs
      <4> QED BY <3>2, <4>1, <1>1, <1>5, SameJob
    <3> QED BY <1>1, <3>1, <3>2
  <2>2. ASSUME NEW k \in DOMAIN fibers' PROVE InJob(k, fibers[k])'
    <3>1. PICK x : x = fibers'[k]
      OBVIOUS
    <3>2. InJob(k, x)'
      BY <2>1, <3>1
    <3> QED BY <3>1, <3>2
  <2> QED BY <2>2 DEF FibersInJobs
<1>10. \A o, a : Holds(o, a)' <=> Holds(o, a)
  BY <1>5, SameBuffer
<1>11. ArgumentsHeld'
  <2>1. \A u \in queue' : Holds(u.offset, u.arg)'
    BY <1>5, <1>10 DEF Shape, ArgumentsHeld
  <2>2. ASSUME NEW k \in DOMAIN fibers' PROVE FiberHeld(k)'
    <3>1. CASE k = i
      <4>1. Holds(t.offset, t.arg)'
        BY <1>10 DEF Shape, ArgumentsHeld
      <4>2. fibers'[k].offset = t.offset /\ fibers'[k].arg = t.arg /\ DOMAIN fibers'[k].made = {}
        BY <3>1, <1>1, <1>2, <1>3, <1>4
      <4> QED BY <4>1, <4>2 DEF FiberHeld, Holds
    <3>2. CASE k # i
      <4>1. k \in DOMAIN fibers /\ fibers'[k] = fibers[k]
        BY <3>2, <1>1, <1>2
      <4> QED BY <4>1, <1>10, OtherFiber
    <3> QED BY <3>1, <3>2
  <2> QED BY <2>1, <2>2, FiberParts DEF ArgumentsHeld, FiberHeld
<1>12. OpenCounted'
  <2>1. \A k : Open(k)' = Open(k)
    <3> TAKE k
    <3>1. \A u : u.arg.kind = "chunk" /\ u.counter = k =>
                  (u \in queue' \union running' <=> u \in queue \union running)
      BY <1>5
    <3> QED BY <3>1, SameOpen
  <2>2. Open(i) = {}
    BY <1>1, <1>2, OpenTask DEF Open
  <2>3. ASSUME NEW k \in DOMAIN fibers' PROVE FiberCounted(k)'
    <3>1. CASE k = i
      <4>1. Open(k)' = {} /\ fibers'[k].counter = 0
        BY <3>1, <2>1, <2>2, <1>1, <1>2, <1>3, <1>4
      <4>2. Cardinality({}) = 0
        BY FS_EmptySet
      <4> QED BY <4>1, <4>2 DEF FiberCounted
    <3>2. CASE k # i
      <4>1. k \in DOMAIN fibers /\ fibers'[k] = fibers[k]
        BY <3>2, <1>1, <1>2
      <4> QED BY <4>1, <2>1, OtherFiber
    <3> QED BY <3>1, <3>2
  <2>4. /\ queue' \intersect running' = {}
        /\ \A u \in queue' \union running' : u.arg.kind = "chunk" => u.counter \in DOMAIN fibers'
    BY <1>1, <1>5 DEF Shape, OpenCounted
  <2> QED BY <2>3, <2>4 DEF OpenCounted, FiberCounted
<1> QED
  BY <1>1, <1>7, <1>8, <1>9, <1>11, <1>12 DEF Shape


\* The argument of one more chunk, which the buffer takes or not.
LEMMA AddChunkTaskShape ==
  ASSUME Shape, NEW i \in DOMAIN fibers, AddChunkTask(i)
  PROVE  /\ Shape'
         /\ \A k \in DOMAIN fibers : k # i => Open(k)' = Open(k)
         /\ ~ub' /\ Len(fibers'[i].made) = fibers'[i].chunks =>
              \A c \in 1 .. fibers'[i].chunks : ChunkTask(i, c)' \in Open(i)'
<1>1. ClientFits' /\ RunFits'
  BY AddChunkTaskTypes
<1>2. ClientFits /\ RunFits
  BY DEF Shape
<1>3. /\ main' = main /\ groupCounters' = groupCounters /\ systems' = systems
      /\ chunkCount' = chunkCount /\ running' = running
      /\ fibers[i].state = "running" /\ Len(fibers[i].made) < fibers[i].chunks
  BY DEF AddChunkTask, clientVars, storeVars
<1> DEFINE made == Append(fibers[i].made, currentBufferIndex)
           last == Len(made) = fibers[i].chunks
<1>4. /\ fibers[i].made \in Seq(Nat) /\ currentBufferIndex \in Nat
      /\ made \in Seq(Nat) /\ Len(made) = Len(fibers[i].made) + 1 /\ Len(made) \in Nat
      /\ DOMAIN made = 1 .. Len(made) /\ DOMAIN fibers[i].made = 1 .. Len(fibers[i].made)
      /\ Len(fibers[i].made) \in Nat
      /\ \A c \in DOMAIN fibers[i].made : made[c] = fibers[i].made[c]
      /\ made[Len(made)] = currentBufferIndex
  BY <1>2, FiberJob DEF RunFits
<1>a. JobArg(fibers[i].pos[1], fibers[i].pos[2], Len(made)) \in Args
  BY <1>4, FiberJob DEF JobArg, Args
<1>5. PICK arg \in Args : arg = JobArg(fibers[i].pos[1], fibers[i].pos[2], Len(made))
  BY <1>a
<1>6. PICK ok \in BOOLEAN : Allocate(arg, ok) /\ ub' = ~ok
  BY <1>5 DEF AddChunkTask
<1>7. /\ \A o \in Nat, a \in Args : Holds(o, a) => Holds(o, a)'
      /\ ok => \A o \in Nat : o = currentBufferIndex => Holds(o, arg)'
  BY <1>2, <1>6, AllocateHolds
<1>8. \A u \in queue : Holds(u.offset, u.arg)'
  <2> TAKE u \in queue
  <2>1. u.offset \in Nat /\ u.arg \in Args
    BY <1>2 DEF RunFits
  <2>2. Holds(u.offset, u.arg)
    BY DEF Shape, ArgumentsHeld
  <2> QED BY <2>1, <2>2, <1>7
<1>9. fibers[i].counter = 0 /\ Open(i) = {}
  BY <1>3, RunningHasNone
<1>10. ASSUME ub' PROVE Shape' /\ \A k : Open(k)' = Open(k)
  <2>1. fibers' = fibers /\ queue' = queue
    BY <1>10 DEF AddChunkTask
  <2>2. OnlyFiber(i, fibers[i])
    BY <2>1, <1>2 DEF OnlyFiber, RunFits
  <2>3. IdleIsClean' /\ GroupsListed' /\ GroupsCounted'
    BY <1>3, <2>1, <2>2, StillCounted DEF Shape, GroupsCounted
  <2>4. FibersInJobs'
    <3>1. InJob(i, fibers[i])
      BY DEF Shape, FibersInJobs
    <3> QED BY <3>1, <1>3, <2>2, StillInJobs
  <2>5. ArgumentsHeld'
    BY <2>1, <1>7, <1>8, StillHeld
  <2>6. \A k : Open(k)' = Open(k)
    BY <2>1, <1>3 DEF Open
  <2>7. OpenCounted'
    BY <2>1, <2>6, <1>3, SameOpenCounted DEF Shape, OpenCounted
  <2> QED BY <1>1, <2>3, <2>4, <2>5, <2>6, <2>7 DEF Shape
<1>11. ASSUME ~ub'
       PROVE  /\ Shape'
              /\ \A k \in DOMAIN fibers : k # i => Open(k)' = Open(k)
              /\ Len(fibers'[i].made) = fibers'[i].chunks =>
                   \A c \in 1 .. fibers'[i].chunks : ChunkTask(i, c)' \in Open(i)'
  <2>1. OnlyFiber(i, FiberOf(fibers[i], IF last THEN "waiting" ELSE fibers[i].state, fibers[i].pos,
                             fibers[i].chunks, made, IF last THEN Len(made) ELSE fibers[i].counter))
    BY <1>2, <1>11, AddChunkTaskFiber
  <2>2. queue' = IF last THEN queue \union TasksOf(i, made) ELSE queue
    BY <1>11 DEF AddChunkTask
  <2>3. ok
    BY <1>6, <1>11
  <2>b. TasksOf(i, made) = {[offset |-> made[c], arg |-> JobArg(fibers[i].pos[1], fibers[i].pos[2], c),
                             counter |-> i] : c \in 1 .. Len(made)}
    BY <1>4 DEF TasksOf
  <2> HIDE DEF made, last
  <2>4. /\ TasksOf(i, made) \subseteq [offset : Nat, arg : Args, counter : Nat]
        /\ IsFiniteSet(TasksOf(i, made)) /\ Cardinality(TasksOf(i, made)) = Len(made)
        /\ \A t \in TasksOf(i, made) : t.arg.kind = "chunk" /\ t.counter = i
    BY <1>4, TasksOfJob
  <2>5. PICK f : f = FiberOf(fibers[i], IF last THEN "waiting" ELSE fibers[i].state, fibers[i].pos,
                             fibers[i].chunks, made, IF last THEN Len(made) ELSE fibers[i].counter)
    OBVIOUS
  <2>6. /\ f.offset = fibers[i].offset /\ f.arg = fibers[i].arg /\ f.pos = fibers[i].pos
        /\ f.chunks = fibers[i].chunks /\ f.made = made
        /\ f.state = IF last THEN "waiting" ELSE fibers[i].state
        /\ f.counter = IF last THEN Len(made) ELSE fibers[i].counter
    BY <2>5, FiberOfFields
  <2>7. OnlyFiber(i, f)
    BY <2>1, <2>5
  <2>8. /\ DOMAIN fibers' = DOMAIN fibers /\ fibers'[i] = f
        /\ \A k \in DOMAIN fibers : k # i => fibers'[k] = fibers[k]
    BY <2>7 DEF OnlyFiber
  <2>9. IdleIsClean' /\ GroupsListed' /\ GroupsCounted'
    <3>1. /\ \A t \in queue' : t.arg.kind = "group" => t \in queue
          /\ \A t \in queue' : t.arg.kind \in {"group", "chunk"}
          /\ \A t \in running' : t.arg.kind = "chunk"
      BY <1>3, <2>2, <2>4 DEF Shape, GroupsCounted
    <3> QED BY <1>3, <2>6, <2>7, <3>1, StillCounted
  <2>10. FibersInJobs'
    <3>1. InJob(i, fibers[i])
      BY DEF Shape, FibersInJobs
    <3>2. fibers[i].chunks \in Nat
      BY FiberJob
    <3>3. InJob(i, f)
      BY <1>3, <1>4, <2>6, <3>1, <3>2 DEF InJob, last
    <3> QED BY <3>3, <1>3, <2>7, StillInJobs
  <2>11. ASSUME NEW c \in DOMAIN made, NEW o, NEW a,
                o = made[c], a = JobArg(fibers[i].pos[1], fibers[i].pos[2], c)
         PROVE  Holds(o, a)'
    <3>1. CASE c \in DOMAIN fibers[i].made
      <4>1. made[c] = fibers[i].made[c]
        BY <3>1, <1>4
      <4>2. ChunkTask(i, c).arg = JobArg(fibers[i].pos[1], fibers[i].pos[2], c)
        BY DEF ChunkTask
      <4> QED BY <2>11, <3>1, <4>1, <4>2, <1>7, HeldOfFiber
    <3>2. CASE c = Len(made)
      <4>1. o = currentBufferIndex /\ o \in Nat /\ a = arg
        BY <3>2, <1>4, <1>5, <2>11
      <4> QED BY <4>1, <1>7, <2>3
    <3> QED BY <1>4, <3>1, <3>2
  <2>12. ArgumentsHeld'
    <3>1. \A u \in queue' : Holds(u.offset, u.arg)'
      <4> TAKE u \in queue'
      <4>1. CASE u \in queue
        BY <4>1, <1>8
      <4>2. CASE u \in TasksOf(i, made)
        <5>1. PICK c \in DOMAIN made : u.offset = made[c]
                      /\ u.arg = JobArg(fibers[i].pos[1], fibers[i].pos[2], c)
          BY <4>2 DEF TasksOf
        <5> QED BY <5>1, <2>11 DEF Holds
      <4> QED BY <2>2, <4>1, <4>2
    <3>2. ASSUME NEW k \in DOMAIN fibers' PROVE FiberHeld(k)'
      <4>1. CASE k = i
        <5>1. \A o, a : o = fibers[i].offset /\ a = fibers[i].arg => Holds(o, a)'
          BY <1>7, HeldOfFiber
        <5>2. fibers'[k].offset = fibers[i].offset /\ fibers'[k].arg = fibers[i].arg
              /\ fibers'[k].made = made /\ fibers'[k].pos = fibers[i].pos
          BY <4>1, <2>8, <2>6
        <5>3. Holds(fibers[k].offset, fibers[k].arg)'
          BY <5>1, <5>2 DEF Holds
        <5>4. ASSUME NEW c \in DOMAIN fibers'[k].made
              PROVE  Holds(fibers[k].made[c], ChunkTask(k, c).arg)'
          <6>1. c \in DOMAIN made
            BY <5>2
          <6>2. ChunkTask(k, c)'.arg = JobArg(fibers[i].pos[1], fibers[i].pos[2], c)
            BY <5>2 DEF ChunkTask
          <6> QED BY <6>1, <6>2, <5>2, <2>11 DEF Holds
        <5> QED BY <5>3, <5>4 DEF FiberHeld
      <4>2. CASE k # i
        BY <4>2, <2>8, <1>7, OtherFiber
      <4> QED BY <4>1, <4>2
    <3> QED BY <3>1, <3>2 DEF ArgumentsHeld, FiberHeld
  <2>13. \A k : k # i => Open(k)' = Open(k)
    <3> TAKE k
    <3> HAVE k # i
    <3>1. \A u : u.arg.kind = "chunk" /\ u.counter = k =>
                  (u \in queue' \union running' <=> u \in queue \union running)
      BY <1>3, <2>2, <2>4
    <3> QED BY <3>1, SameOpen
  <2>14. Open(i)' = IF last THEN TasksOf(i, made) ELSE {}
    <3>1. Open(i)' = {t \in queue' \union running : t.arg.kind = "chunk" /\ t.counter = i}
      BY <1>3 DEF Open
    <3>2. \A t \in queue \union running : ~(t.arg.kind = "chunk" /\ t.counter = i)
      BY <1>9 DEF Open
    <3> QED BY <3>1, <3>2, <2>2, <2>4
  <2>15. \A c \in 1 .. Len(made) :
           /\ ChunkTask(i, c)' = [offset |-> made[c], arg |-> JobArg(fibers[i].pos[1], fibers[i].pos[2], c), counter |-> i]
           /\ ChunkTask(i, c)' \in TasksOf(i, made)
    <3> TAKE c \in 1 .. Len(made)
    <3>1. ChunkTask(i, c)' = [offset |-> made[c], arg |-> JobArg(fibers[i].pos[1], fibers[i].pos[2], c), counter |-> i]
      BY <2>6, <2>8 DEF ChunkTask
    <3> QED BY <3>1, <2>b
  <2>16. OpenCounted'
    <3>1. ASSUME NEW k \in DOMAIN fibers' PROVE FiberCounted(k)'
      <4>1. CASE k # i
        BY <4>1, <2>8, <2>13, OtherFiber
      <4>2. CASE k = i /\ last
        <5>1. Open(k)' = TasksOf(i, made) /\ fibers'[k].counter = Len(made)
              /\ fibers'[k].state = "waiting" /\ fibers'[k].chunks = Len(made)
          BY <4>2, <2>14, <2>6, <2>8 DEF last
        <5>2. \A t \in TasksOf(i, made) : \E c \in 1 .. Len(made) : t = ChunkTask(i, c)'
          BY <2>b, <2>15
        <5> QED BY <4>2, <5>1, <5>2, <2>4 DEF FiberCounted
      <4>3. CASE k = i /\ ~last
        <5>1. Open(k)' = {} /\ fibers'[k].counter = 0
          BY <4>3, <2>14, <2>6, <2>8, <1>9
        <5>2. Cardinality({}) = 0
          BY FS_EmptySet
        <5> QED BY <5>1, <5>2 DEF FiberCounted
      <4> QED BY <4>1, <4>2, <4>3
    <3>2. queue' \intersect running' = {}
      <4>1. \A t \in running : ~(t.arg.kind = "chunk" /\ t.counter = i)
        BY <1>9 DEF Open
      <4> QED BY <4>1, <1>3, <2>2, <2>4 DEF Shape, OpenCounted
    <3>3. \A u \in queue' \union running' : u.arg.kind = "chunk" => u.counter \in DOMAIN fibers'
      BY <1>3, <2>2, <2>4, <2>8 DEF Shape, OpenCounted
    <3> QED BY <3>1, <3>2, <3>3 DEF OpenCounted, FiberCounted
  <2>17. Len(fibers'[i].made) = fibers'[i].chunks =>
           \A c \in 1 .. fibers'[i].chunks : ChunkTask(i, c)' \in Open(i)'
    BY <2>6, <2>8, <2>14, <2>15 DEF last
  <2> QED
    BY <1>1, <2>9, <2>10, <2>12, <2>13, <2>16, <2>17 DEF Shape
<1> HIDE DEF made, last
<1> QED
  BY Zenon, <1>10, <1>11

LEMMA EndJobShape ==
  ASSUME Shape, NEW i \in DOMAIN fibers, EndJob(i)
  PROVE  Shape' /\ \A k : Open(k)' = Open(k)
<1>1. ClientFits' /\ RunFits' /\ RunFits
  BY EndJobTypes DEF Shape
<1>2. OnlyFiber(i, FiberOf(fibers[i], "running", fibers[i].pos, fibers[i].chunks,
                           fibers[i].made, fibers[i].counter))
  BY <1>1, EndJobFiber
<1>3. PICK f : f = FiberOf(fibers[i], "running", fibers[i].pos, fibers[i].chunks,
                           fibers[i].made, fibers[i].counter)
  OBVIOUS
<1>4. /\ f.offset = fibers[i].offset /\ f.arg = fibers[i].arg
      /\ f.state = "running" /\ f.pos = fibers[i].pos /\ f.chunks = fibers[i].chunks
      /\ f.made = fibers[i].made /\ f.counter = fibers[i].counter
  BY <1>3, FiberOfFields
<1>5. OnlyFiber(i, f)
  BY <1>2, <1>3
<1>6. /\ main' = main /\ groupCounters' = groupCounters /\ systems' = systems
      /\ chunkCount' = chunkCount /\ queue' = queue /\ running' = running
      /\ argBuffer' = argBuffer /\ currentBufferIndex' = currentBufferIndex
      /\ fibers[i].counter = 0
  BY DEF EndJob, JobDone, clientVars, storeVars
<1>7. IdleIsClean' /\ GroupsListed' /\ GroupsCounted'
  BY <1>4, <1>5, <1>6, StillCounted DEF Shape, GroupsCounted
<1>8. FibersInJobs'
  <2>1. InJob(i, fibers[i])
    BY DEF Shape, FibersInJobs
  <2>2. InJob(i, f)
    BY <2>1, <1>4 DEF InJob
  <2> QED BY <1>5, <1>6, <2>2, StillInJobs
<1>9. /\ DOMAIN fibers' = DOMAIN fibers /\ fibers'[i] = f
      /\ \A k \in DOMAIN fibers : k # i => fibers'[k] = fibers[k]
  BY <1>5 DEF OnlyFiber
<1>10. \A o, a : Holds(o, a)' <=> Holds(o, a)
  BY <1>6, SameBuffer
<1>11. \A c : ChunkTask(i, c)' = ChunkTask(i, c)
  BY <1>4, <1>9 DEF ChunkTask
<1>12. ArgumentsHeld'
  <2>1. ASSUME NEW k \in DOMAIN fibers' PROVE FiberHeld(k)'
    <3>1. CASE k = i
      <4>1. FiberHeld(i)
        BY FiberParts DEF Shape
      <4> QED BY <3>1, <4>1, <1>4, <1>6, <1>9, <1>11 DEF FiberHeld, Holds
    <3>2. CASE k # i
      BY <3>2, <1>9, <1>10, OtherFiber
    <3> QED BY <3>1, <3>2
  <2>2. \A u \in queue' : Holds(u.offset, u.arg)'
    BY <1>6, <1>10 DEF Shape, ArgumentsHeld
  <2> QED BY <2>1, <2>2 DEF ArgumentsHeld, FiberHeld
<1>13. \A k : Open(k)' = Open(k)
  BY <1>6 DEF Open
<1>14. OpenCounted'
  <2>1. ASSUME NEW k \in DOMAIN fibers' PROVE FiberCounted(k)'
    <3>1. CASE k = i
      <4>1. FiberCounted(i)
        BY FiberParts DEF Shape
      <4>2. Open(k)' = Open(i) /\ fibers'[k].counter = 0 /\ fibers'[k].chunks = fibers[i].chunks
        BY <3>1, <1>4, <1>6, <1>9, <1>13
      <4>3. /\ \A t \in Open(i) : \E c \in 1 .. fibers[i].chunks : t = ChunkTask(i, c)
            /\ Cardinality(Open(i)) = 0
        BY <4>1, <1>6 DEF FiberCounted
      <4>4. \A c : ChunkTask(k, c)' = ChunkTask(i, c)
        BY <3>1, <1>11
      <4> QED BY <4>2, <4>3, <4>4 DEF FiberCounted
    <3>2. CASE k # i
      BY <3>2, <1>9, <1>13, OtherFiber
    <3> QED BY <3>1, <3>2
  <2> QED BY <2>1, <1>6, <1>9 DEF Shape, OpenCounted, FiberCounted
<1> QED
  BY <1>1, <1>7, <1>8, <1>12, <1>13, <1>14 DEF Shape


LEMMA EndGroupShape ==
  ASSUME Shape, NEW i \in DOMAIN fibers, EndGroup(i)
  PROVE  Shape' /\ \A k : Open(k)' = Open(k)
<1>1. /\ ClientFits' /\ RunFits'
      /\ DOMAIN fibers' = DOMAIN fibers \ {i}
      /\ \A k \in DOMAIN fibers' : fibers'[k] = fibers[k]
      /\ groupCounters'[i] = 0
      /\ \A k \in 1 .. GroupCounters : k # i => groupCounters'[k] = groupCounters[k]
  BY EndGroupTypes
<1>2. /\ main' = main /\ systems' = systems
      /\ chunkCount' = chunkCount /\ queue' = queue /\ running' = running
      /\ argBuffer' = argBuffer /\ currentBufferIndex' = currentBufferIndex
      /\ fibers[i].state = "running"
  BY DEF EndGroup, BetweenJobs, clientVars, storeVars
<1>3. main.phase # "idle" /\ Open(i) = {}
  BY <1>2, GroupOfFiber, RunningHasNone
<1>4. IdleIsClean' /\ GroupsListed'
  BY <1>2, <1>3, SameSystems DEF IdleIsClean, Shape, GroupsListed
<1>5. GroupsCounted'
  <2>1. \A k : Added(k)' <=> Added(k)
    BY <1>2 DEF Added
  <2>2. \A k \in 1 .. GroupCounters : groupCounters'[k] = 1 => Added(k)'
    BY <1>1, <2>1 DEF Shape, GroupsCounted
  <2>3. ASSUME NEW k \in DOMAIN fibers'
        PROVE  groupCounters'[k] = 1 /\ fibers'[k].arg = GroupArg(main'.groups[k])
    <3>1. k \in DOMAIN fibers /\ k # i /\ k \in 1 .. GroupCounters
      BY <1>1, GroupOfFiber
    <3> QED BY <3>1, <1>1, <1>2 DEF Shape, GroupsCounted
  <2>4. \A u \in queue' : u.arg.kind = "group" =>
          /\ u.counter \in (1 .. GroupCounters) \ DOMAIN fibers'
          /\ groupCounters'[u.counter] = 1
          /\ u.arg = GroupArg(main'.groups[u.counter])
    <3> TAKE u \in queue'
    <3> HAVE u.arg.kind = "group"
    <3>1. /\ u.counter \in (1 .. GroupCounters) \ DOMAIN fibers
          /\ groupCounters[u.counter] = 1 /\ u.arg = GroupArg(main.groups[u.counter])
      BY <1>2 DEF Shape, GroupsCounted
    <3>2. u.counter # i
      BY <3>1
    <3> QED BY <3>1, <3>2, <1>1, <1>2
  <2> QED
    BY <2>2, <2>3, <2>4, <1>2 DEF Shape, GroupsCounted
<1>6. FibersInJobs'
  <2>1. ASSUME NEW k \in DOMAIN fibers' PROVE InJob(k, fibers[k])'
    <3>1. k \in DOMAIN fibers /\ fibers'[k] = fibers[k]
      BY <1>1
    <3>2. PICK x : x = fibers[k]
      OBVIOUS
    <3>3. InJob(k, x)
      BY <3>1, <3>2 DEF Shape, FibersInJobs
    <3>4. InJob(k, x)'
      BY <3>3, <1>2, SameJob
    <3> QED BY <3>1, <3>2, <3>4
  <2> QED BY <2>1 DEF FibersInJobs
<1>7. \A o, a : Holds(o, a)' <=> Holds(o, a)
  BY <1>2, SameBuffer
<1>8. \A k : Open(k)' = Open(k)
  BY <1>2 DEF Open
<1>9. ArgumentsHeld'
  <2>1. \A u \in queue' : Holds(u.offset, u.arg)'
    BY <1>2, <1>7 DEF Shape, ArgumentsHeld
  <2>2. \A k \in DOMAIN fibers' : FiberHeld(k)'
    BY <1>1, <1>7, OtherFiber
  <2> QED BY <2>1, <2>2 DEF ArgumentsHeld, FiberHeld
<1>10. OpenCounted'
  <2>1. \A k \in DOMAIN fibers' : FiberCounted(k)'
    BY <1>1, <1>8, OtherFiber
  <2>2. \A u \in queue' \union running' : u.arg.kind = "chunk" => u.counter \in DOMAIN fibers'
    <3> TAKE u \in queue' \union running'
    <3> HAVE u.arg.kind = "chunk"
    <3>1. u.counter \in DOMAIN fibers /\ u \in Open(u.counter)
      BY <1>2, OpenTask
    <3> QED BY <3>1, <1>3, <1>1
  <2> QED BY <2>1, <2>2, <1>2 DEF Shape, OpenCounted, FiberCounted
<1> QED
  BY <1>1, <1>4, <1>5, <1>6, <1>8, <1>9, <1>10 DEF Shape

LEMMA StartChunkShape ==
  ASSUME Shape, NEW t \in queue, StartChunk(t)
  PROVE  Shape' /\ \A k : Open(k)' = Open(k)
<1>1. /\ ClientFits' /\ RunFits'
      /\ queue' = queue \ {t} /\ running' = running \union {t} /\ fibers' = fibers
      /\ t.arg.kind = "chunk"
  BY StartChunkTypes
<1>2. /\ main' = main /\ systems' = systems /\ groupCounters' = groupCounters
      /\ chunkCount' = chunkCount
      /\ argBuffer' = argBuffer /\ currentBufferIndex' = currentBufferIndex
  BY DEF StartChunk, clientVars, storeVars
<1>3. PICK i \in DOMAIN fibers : i = t.counter
  BY <1>1, OpenTask
<1>4. OnlyFiber(i, fibers[i])
  BY <1>1 DEF OnlyFiber, Shape, RunFits
<1>5. IdleIsClean' /\ GroupsListed' /\ GroupsCounted'
  <2>1. /\ \A u \in queue' : u.arg.kind = "group" => u \in queue
        /\ \A u \in queue' : u.arg.kind \in {"group", "chunk"}
        /\ \A u \in running' : u.arg.kind = "chunk"
    BY <1>1 DEF Shape, GroupsCounted
  <2> QED BY <1>2, <1>4, <2>1, StillCounted
<1>6. FibersInJobs'
  <2>1. InJob(i, fibers[i])
    BY DEF Shape, FibersInJobs
  <2> QED BY <2>1, <1>2, <1>4, StillInJobs
<1>7. \A o, a : Holds(o, a)' <=> Holds(o, a)
  BY <1>2, SameBuffer
<1>8. ArgumentsHeld'
  <2>1. \A u \in queue' : Holds(u.offset, u.arg)'
    BY <1>1, <1>7 DEF Shape, ArgumentsHeld
  <2> QED BY <2>1, <1>1, <1>7, StillHeld
<1>9. \A k : Open(k)' = Open(k)
  BY <1>1 DEF Open
<1>10. OpenCounted'
  <2>1. queue' \intersect running' = {}
        /\ \A u \in queue' \union running' : u.arg.kind = "chunk" => u \in queue \union running
    BY <1>1 DEF Shape, OpenCounted
  <2> QED BY <2>1, <1>1, <1>9, SameOpenCounted
<1> QED
  BY <1>1, <1>5, <1>6, <1>8, <1>9, <1>10 DEF Shape

LEMMA EndChunkShape ==
  ASSUME Shape, NEW t \in running, EndChunk(t)
  PROVE  /\ Shape'
         /\ t \in Open(t.counter)
         /\ \A k : Open(k)' = Open(k) \ {t}
<1>1. /\ ClientFits' /\ RunFits'
      /\ t.counter \in DOMAIN fibers /\ t.arg.kind = "chunk"
      /\ OnlyFiber(t.counter, FiberOf(fibers[t.counter], fibers[t.counter].state,
           fibers[t.counter].pos, fibers[t.counter].chunks, fibers[t.counter].made,
           fibers[t.counter].counter - 1))
  BY EndChunkTypes
<1>2. /\ main' = main /\ systems' = systems /\ groupCounters' = groupCounters
      /\ chunkCount' = chunkCount /\ queue' = queue /\ running' = running \ {t}
      /\ argBuffer' = argBuffer /\ currentBufferIndex' = currentBufferIndex
  BY DEF EndChunk, clientVars, storeVars
<1>3. PICK i \in DOMAIN fibers : i = t.counter
  BY <1>1
<1>4. PICK f : f = FiberOf(fibers[i], fibers[i].state, fibers[i].pos, fibers[i].chunks,
                           fibers[i].made, fibers[i].counter - 1)
  OBVIOUS
<1>5. /\ f.offset = fibers[i].offset /\ f.arg = fibers[i].arg
      /\ f.state = fibers[i].state /\ f.pos = fibers[i].pos /\ f.chunks = fibers[i].chunks
      /\ f.made = fibers[i].made /\ f.counter = fibers[i].counter - 1
  BY <1>4, FiberOfFields
<1>6. OnlyFiber(i, f)
  BY <1>1, <1>3, <1>4
<1>7. /\ DOMAIN fibers' = DOMAIN fibers /\ fibers'[i] = f
      /\ \A k \in DOMAIN fibers : k # i => fibers'[k] = fibers[k]
  BY <1>6 DEF OnlyFiber
<1>8. t \in Open(t.counter) /\ fibers[i].state = "waiting"
  BY <1>1, <1>3, OpenTask
<1>9. IdleIsClean' /\ GroupsListed' /\ GroupsCounted'
  BY <1>2, <1>5, <1>6, StillCounted DEF Shape, GroupsCounted
<1>10. FibersInJobs'
  <2>1. InJob(i, fibers[i])
    BY DEF Shape, FibersInJobs
  <2>2. InJob(i, f)
    BY <2>1, <1>5 DEF InJob
  <2> QED BY <1>2, <1>6, <2>2, StillInJobs
<1>11. \A o, a : Holds(o, a)' <=> Holds(o, a)
  BY <1>2, SameBuffer
<1>12. \A c : ChunkTask(i, c)' = ChunkTask(i, c)
  BY <1>5, <1>7 DEF ChunkTask
<1>13. ArgumentsHeld'
  <2>1. ASSUME NEW k \in DOMAIN fibers' PROVE FiberHeld(k)'
    <3>1. CASE k = i
      <4>1. FiberHeld(i)
        BY FiberParts DEF Shape
      <4> QED BY <3>1, <4>1, <1>2, <1>5, <1>7, <1>12 DEF FiberHeld, Holds
    <3>2. CASE k # i
      BY <3>2, <1>7, <1>11, OtherFiber
    <3> QED BY <3>1, <3>2
  <2>2. \A u \in queue' : Holds(u.offset, u.arg)'
    BY <1>2, <1>11 DEF Shape, ArgumentsHeld
  <2> QED BY <2>1, <2>2 DEF ArgumentsHeld, FiberHeld
<1>14. t \notin queue
  BY DEF Shape, OpenCounted
<1>15. \A k : Open(k)' = Open(k) \ {t}
  <2> TAKE k
  <2>1. queue' \union running' = (queue \union running) \ {t}
    BY <1>2, <1>14
  <2> QED BY <2>1 DEF Open
<1>16. \A k : k # i => Open(k)' = Open(k)
  BY <1>15, <1>3 DEF Open
<1>17. OpenCounted'
  <2>1. ASSUME NEW k \in DOMAIN fibers' PROVE FiberCounted(k)'
    <3>1. CASE k = i
      <4>1. FiberCounted(i)
        BY FiberParts DEF Shape
      <4>2. IsFiniteSet(Open(i))
        <5>1. IsFiniteSet(queue \union running)
          BY FS_Union DEF Shape, RunFits
        <5> QED
          BY <5>1, FS_Subset DEF Open
      <4>3. Cardinality(Open(i) \ {t}) = Cardinality(Open(i)) - 1
        BY <4>2, <1>3, <1>8, FS_RemoveElement
      <4>4. Open(k)' = Open(i) \ {t} /\ fibers'[k].counter = fibers[i].counter - 1
            /\ fibers'[k].chunks = fibers[i].chunks /\ fibers'[k].state = "waiting"
        BY <3>1, <1>5, <1>7, <1>8, <1>15
      <4>5. /\ \A u \in Open(i) : \E c \in 1 .. fibers[i].chunks : u = ChunkTask(i, c)
            /\ fibers[i].counter = Cardinality(Open(i))
        BY <4>1 DEF FiberCounted
      <4>6. \A c : ChunkTask(k, c)' = ChunkTask(i, c)
        BY <3>1, <1>12
      <4> QED BY <4>3, <4>4, <4>5, <4>6 DEF FiberCounted
    <3>2. CASE k # i
      BY <3>2, <1>7, <1>16, OtherFiber
    <3> QED BY <3>1, <3>2
  <2>2. queue' \intersect running' = {}
        /\ \A u \in queue' \union running' : u.arg.kind = "chunk" => u.counter \in DOMAIN fibers'
    BY <1>2, <1>7 DEF Shape, OpenCounted
  <2> QED BY <2>1, <2>2 DEF OpenCounted, FiberCounted
<1> QED
  BY <1>1, <1>8, <1>9, <1>10, <1>13, <1>15, <1>17 DEF Shape


-----------------------------------------------------------------------------
\* A set cut into disjoint finite pieces has as many elements as its pieces
\* together.
LEMMA CountBySums ==
  ASSUME NEW n \in Nat, NEW numbers \in [1 .. n -> Nat], NEW piece,
         \A k \in 1 .. n : IsFiniteSet(piece[k]) /\ Cardinality(piece[k]) = numbers[k],
         \A k, l \in 1 .. n : k # l => piece[k] \intersect piece[l] = {}
  PROVE  /\ IsFiniteSet(UNION {piece[k] : k \in 1 .. n})
         /\ Cardinality(UNION {piece[k] : k \in 1 .. n}) = Total(numbers)
         /\ Total(numbers) \in Nat
<1>1. PICK T \in [0 .. n -> Nat] :
        /\ T[0] = 0 /\ \A k \in 0 .. n - 1 : T[k + 1] = T[k] + numbers[k + 1]
        /\ Total(numbers) = T[n]
  BY TotalIsSum
<1> DEFINE U(m) == UNION {piece[k] : k \in 1 .. m}
           S == {m \in 0 .. n : IsFiniteSet(U(m)) /\ Cardinality(U(m)) = T[m]}
<1>2. 0 \in S
  <2>1. U(0) = {} /\ 0 \in 0 .. n
    OBVIOUS
  <2>2. IsFiniteSet({}) /\ Cardinality({}) = 0 /\ T[0] = 0
    BY <1>1, FS_EmptySet
  <2> HIDE DEF U
  <2> QED BY <2>1, <2>2
<1>3. ASSUME NEW m \in 0 .. n - 1, m \in S PROVE m + 1 \in S
  <2>1. m + 1 \in 1 .. n /\ m \in 0 .. n /\ m + 1 \in 0 .. n /\ m \in Nat
    OBVIOUS
  <2>2. U(m + 1) = U(m) \union piece[m + 1]
    <3>1. 1 .. m + 1 = (1 .. m) \union {m + 1}
      BY <2>1
    <3> QED BY <3>1
  <2>3. U(m) \intersect piece[m + 1] = {}
    <3>1. \A k \in 1 .. m : k \in 1 .. n /\ k # m + 1
      BY <2>1
    <3> QED BY <3>1, <2>1
  <2>4. IsFiniteSet(piece[m + 1]) /\ Cardinality(piece[m + 1]) = numbers[m + 1]
    BY <2>1
  <2>5. IsFiniteSet(U(m)) /\ Cardinality(U(m)) = T[m] /\ T[m] \in Nat
    BY <1>1, <1>3, <2>1
  <2>6. T[m + 1] = T[m] + numbers[m + 1] /\ numbers[m + 1] \in Nat
    BY <1>1, <2>1
  <2> HIDE DEF U
  <2>7. IsFiniteSet(U(m) \union piece[m + 1])
    BY <2>4, <2>5, FS_Union
  <2>8. Cardinality(U(m) \union piece[m + 1]) =
          Cardinality(U(m)) + Cardinality(piece[m + 1]) - Cardinality(U(m) \intersect piece[m + 1])
    BY <2>4, <2>5, FS_Union
  <2>9. Cardinality(U(m) \intersect piece[m + 1]) = 0
    BY <2>3, FS_EmptySet
  <2>10. Cardinality(U(m) \union piece[m + 1]) = T[m + 1]
    BY <2>4, <2>5, <2>6, <2>8, <2>9
  <2> QED BY <2>1, <2>2, <2>7, <2>10
<1> HIDE DEF S, U
<1>4. n \in S
  <2>1. \A k \in 0 .. n : k \in S
    BY <1>2, <1>3, UpTo
  <2> QED BY <2>1
<1>5. T[n] \in Nat
  BY <1>1
<1> QED
  BY <1>1, <1>4, <1>5 DEF S, U

\* The tasks of all systems are as many as ChunksOfAll says.
LEMMA AllTasksCounted ==
  ASSUME ClientFits
  PROVE  IsFiniteSet(AllTasks) /\ Cardinality(AllTasks) = ChunksOfAll /\ ChunksOfAll \in Nat
<1>1. /\ DOMAIN systems = 1 .. Len(systems) /\ Len(systems) \in Nat
      /\ \A s \in 1 .. Len(systems) : systems[s].class \in Classes
  <2>1. systems \in Seq([class : Classes, group : Nat])
    BY DEF ClientFits
  <2>2. /\ DOMAIN systems = 1 .. Len(systems) /\ Len(systems) \in Nat
        /\ \A s \in 1 .. Len(systems) : systems[s] \in [class : Classes, group : Nat]
    BY <2>1, LenProperties
  <2> QED BY <2>2
<1> DEFINE ofJob(s, j) == {w \in AllTasks : w[1] = <<s, j>>}
           ofSystem(s) == {w \in AllTasks : w[1][1] = s}
<1>2. ASSUME NEW s \in 1 .. Len(systems)
      PROVE  /\ IsFiniteSet(ofSystem(s)) /\ Cardinality(ofSystem(s)) = ChunksOfSystem(systems[s])
             /\ ChunksOfSystem(systems[s]) \in Nat
  <2> DEFINE jobs == JobsOf[systems[s].class]
             n == Len(jobs)
             numbers == [j \in DOMAIN jobs |-> chunkCount[jobs[j]]]
             piece == [j \in 1 .. n |-> ofJob(s, j)]
  <2>1. /\ jobs \in Seq(Range(jobs)) /\ systems[s].class \in Classes
        /\ n \in Nat /\ DOMAIN jobs = 1 .. n
    BY <1>1, SchedulerAssumption
  <2>2. ASSUME NEW j \in 1 .. n
        PROVE  /\ jobs[j] \in Queries /\ j \in JobNumbers
               /\ <<s, j>> \in Positions /\ QueryOf(<<s, j>>) = jobs[j]
    <3>1. jobs[j] \in Queries /\ j \in JobNumbers
      BY <2>1 DEF Queries, JobNumbers, Range
    <3>2. <<s, j>> \in Positions
      BY <1>1, <2>1, <3>1 DEF Positions
    <3> QED BY <3>1, <3>2 DEF QueryOf
  <2>3. \A j \in 1 .. n : chunkCount[jobs[j]] \in 0 .. MaxChunks
    BY <2>2 DEF ClientFits
  <2>4. numbers \in [1 .. n -> Nat]
    BY <2>1, <2>3, SchedulerConstants
  <2>5. ASSUME NEW j \in 1 .. n
        PROVE  IsFiniteSet(ofJob(s, j)) /\ Cardinality(ofJob(s, j)) = numbers[j]
    <3>1. PICK m \in 0 .. MaxChunks : m = chunkCount[jobs[j]]
      BY <2>3
    <3> DEFINE f == [c \in 1 .. m |-> <<<<s, j>>, c>>]
    <3>2. \A c \in 1 .. m : c \in 1 .. MaxChunks
      BY SchedulerConstants
    <3>3. f \in [1 .. m -> ofJob(s, j)]
      BY <2>2, <3>1, <3>2 DEF AllTasks
    <3>4. \A c, d \in 1 .. m : f[c] = f[d] => c = d
      OBVIOUS
    <3>5. \A w \in ofJob(s, j) : \E c \in 1 .. m : f[c] = w
      <4> TAKE w \in ofJob(s, j)
      <4>1. w \in Positions \X (1 .. MaxChunks) /\ w[1] = <<s, j>> /\ w[2] <= m
        BY <2>2, <3>1 DEF AllTasks
      <4>2. w[2] \in 1 .. m /\ w = <<<<s, j>>, w[2]>>
        BY <4>1, SchedulerConstants
      <4> QED BY <4>2
    <3> HIDE DEF f
    <3>6. m \in Nat
      BY SchedulerConstants
    <3>7. IsFiniteSet(ofJob(s, j)) /\ Cardinality(ofJob(s, j)) = m
      <4> HIDE DEF ofJob
      <4> QED BY <3>3, <3>4, <3>5, <3>6, CountOfNumbered
    <3>8. numbers[j] = m
      BY <2>1, <3>1
    <3> QED BY <3>7, <3>8
  <2>6. UNION {piece[j] : j \in 1 .. n} = ofSystem(s)
    <3>1. ASSUME NEW w \in ofSystem(s) PROVE \E j \in 1 .. n : w \in ofJob(s, j)
      <4>1. w[1] \in Positions /\ w[1][1] = s
        BY DEF AllTasks
      <4>2. w[1][2] \in 1 .. n /\ w[1] = <<s, w[1][2]>>
        BY <4>1, <2>1 DEF Positions
      <4> QED BY <4>2
    <3>2. \A j \in 1 .. n : piece[j] = ofJob(s, j) /\ ofJob(s, j) \subseteq ofSystem(s)
      OBVIOUS
    <3> HIDE DEF piece, ofJob, ofSystem
    <3> QED BY <3>1, <3>2
  <2>7. /\ \A j \in 1 .. n : IsFiniteSet(piece[j]) /\ Cardinality(piece[j]) = numbers[j]
        /\ \A j, l \in 1 .. n : j # l => piece[j] \intersect piece[l] = {}
    <3>1. \A j \in 1 .. n : piece[j] = ofJob(s, j)
      OBVIOUS
    <3>2. \A j, l \in 1 .. n : j # l => ofJob(s, j) \intersect ofJob(s, l) = {}
      OBVIOUS
    <3> HIDE DEF piece, ofJob
    <3> QED BY <2>5, <3>1, <3>2
  <2>8. ChunksOfSystem(systems[s]) = Total(numbers)
    BY DEF ChunksOfSystem
  <2> HIDE DEF piece, numbers, ofSystem, ofJob, n
  <2>9. /\ IsFiniteSet(UNION {piece[j] : j \in 1 .. n})
        /\ Cardinality(UNION {piece[j] : j \in 1 .. n}) = Total(numbers)
        /\ Total(numbers) \in Nat
    BY <2>1, <2>4, <2>7, CountBySums
  <2> QED BY <2>6, <2>8, <2>9
<1> DEFINE numbers == [s \in DOMAIN systems |-> ChunksOfSystem(systems[s])]
           piece == [s \in 1 .. Len(systems) |-> ofSystem(s)]
<1>3. numbers \in [1 .. Len(systems) -> Nat]
  BY <1>1, <1>2
<1>4. UNION {piece[s] : s \in 1 .. Len(systems)} = AllTasks
  <2>1. ASSUME NEW w \in AllTasks PROVE \E s \in 1 .. Len(systems) : w \in ofSystem(s)
    <3>1. w[1][1] \in 1 .. Len(systems)
      BY <1>1 DEF AllTasks, Positions
    <3> QED BY <3>1
  <2>2. \A s \in 1 .. Len(systems) : piece[s] = ofSystem(s) /\ ofSystem(s) \subseteq AllTasks
    OBVIOUS
  <2> HIDE DEF piece, ofSystem
  <2> QED BY <2>1, <2>2
<1>5. /\ \A s \in 1 .. Len(systems) : IsFiniteSet(piece[s]) /\ Cardinality(piece[s]) = numbers[s]
      /\ \A s, r \in 1 .. Len(systems) : s # r => piece[s] \intersect piece[r] = {}
  <2>1. \A s \in 1 .. Len(systems) : piece[s] = ofSystem(s) /\ numbers[s] = ChunksOfSystem(systems[s])
    BY <1>1
  <2>2. \A s, r \in 1 .. Len(systems) : s # r => ofSystem(s) \intersect ofSystem(r) = {}
    OBVIOUS
  <2> HIDE DEF piece, ofSystem, numbers
  <2> QED BY <1>2, <2>1, <2>2
<1>6. ChunksOfAll = Total(numbers)
  BY DEF ChunksOfAll
<1> HIDE DEF piece, numbers, ofSystem
<1>7. /\ IsFiniteSet(UNION {piece[s] : s \in 1 .. Len(systems)})
      /\ Cardinality(UNION {piece[s] : s \in 1 .. Len(systems)}) = Total(numbers)
      /\ Total(numbers) \in Nat
  BY <1>1, <1>3, <1>5, CountBySums
<1> QED BY <1>4, <1>6, <1>7


-----------------------------------------------------------------------------
\* Before is a strict order of all positions.
LEMMA BeforeOrder ==
  /\ \A p, q, r \in Nat \X Nat : Before(p, q) /\ Before(q, r) => Before(p, r)
  /\ \A p, q \in Nat \X Nat : p = q \/ Before(p, q) \/ Before(q, p)
  /\ \A p, q \in Nat \X Nat : Before(p, q) => p # q /\ ~ Before(q, p)
  /\ \A p \in Nat \X Nat : ~ Before(p, <<0, 0>>)
BY DEF Before

\* What a task of the run is.
LEMMA TaskParts ==
  ASSUME ClientFits, NEW w \in AllTasks
  PROVE  /\ w[1] \in Positions /\ w[2] \in 1 .. MaxChunks /\ w[2] \in Nat /\ w[2] >= 1
         /\ w[2] <= chunkCount[QueryOf(w[1])] /\ w = <<w[1], w[2]>>
         /\ w[1] \in Nat \X Nat /\ w[1] # <<0, 0>> /\ w[1] = <<w[1][1], w[1][2]>>
         /\ w[1][1] \in DOMAIN systems
<1>1. /\ w \in Positions \X (1 .. MaxChunks) /\ w[2] <= chunkCount[QueryOf(w[1])]
  BY DEF AllTasks
<1>2. w[1] \in Positions /\ w[2] \in 1 .. MaxChunks /\ w = <<w[1], w[2]>>
  BY <1>1
<1>3. w[2] \in Nat /\ w[2] >= 1
  BY <1>2, SchedulerConstants
<1> QED
  BY <1>1, <1>2, <1>3, PositionParts

\* Every system has the counter of its group, and only that.
LEMMA OneGroup ==
  ASSUME Shape, main.phase # "idle", NEW p \in Positions
  PROVE  \E k \in 1 .. Len(main.groups) :
           /\ systems[p[1]].group = main.groups[k]
           /\ \A l \in 1 .. Len(main.groups) : systems[p[1]].group = main.groups[l] => l = k
<1>1. /\ ClientFits /\ systems \in Seq([class : Classes, group : Nat]) /\ main.groups = UniqueGroups
  BY DEF Shape, ClientFits, GroupsListed
<1>2. /\ UniqueGroups \in Seq(Nat)
      /\ \A k, l \in DOMAIN UniqueGroups : UniqueGroups[k] = UniqueGroups[l] => k = l
      /\ \A s \in DOMAIN systems : \E k \in DOMAIN UniqueGroups : UniqueGroups[k] = systems[s].group
  BY <1>1, GroupsAreListed
<1>3. DOMAIN main.groups = 1 .. Len(main.groups)
  BY <1>1, <1>2, LenProperties
<1>4. p[1] \in DOMAIN systems
  BY <1>1, PositionParts
<1>5. PICK k \in DOMAIN UniqueGroups : UniqueGroups[k] = systems[p[1]].group
  BY <1>2, <1>4
<1>6. k \in 1 .. Len(main.groups) /\ systems[p[1]].group = main.groups[k]
  BY <1>1, <1>3, <1>5
<1>7. \A l \in 1 .. Len(main.groups) : systems[p[1]].group = main.groups[l] => l = k
  BY <1>1, <1>2, <1>3, <1>6
<1> QED
  BY <1>6, <1>7

\* The group of a fiber is in the list.
LEMMA FiberListed ==
  ASSUME Shape, NEW i \in DOMAIN fibers
  PROVE  /\ i \in 1 .. Len(main.groups) /\ i \in 1 .. GroupCounters
         /\ \A p \in Positions : systems[p[1]].group = main.groups[i] =>
              \A l \in 1 .. Len(main.groups) : systems[p[1]].group = main.groups[l] => l = i
         /\ ~ Ended(i)
<1>1. Added(i) /\ groupCounters[i] = 1 /\ main.phase # "idle" /\ i \in 1 .. GroupCounters
  BY GroupOfFiber
<1>2. i \in 1 .. Len(main.groups)
  BY <1>1 DEF Added
<1>3. ~ Ended(i)
  BY <1>1 DEF Ended
<1>4. ASSUME NEW p \in Positions, systems[p[1]].group = main.groups[i]
      PROVE  \A l \in 1 .. Len(main.groups) : systems[p[1]].group = main.groups[l] => l = i
  BY <1>1, <1>2, <1>4, OneGroup
<1> QED
  BY <1>1, <1>2, <1>3, <1>4

\* What a step that does not touch a group leaves of its progress.
LEMMA SameGroup ==
  ASSUME NEW k, Ended(k)' <=> Ended(k), k \in DOMAIN fibers' <=> k \in DOMAIN fibers,
         k \in DOMAIN fibers =>
           /\ fibers'[k].pos = fibers[k].pos /\ fibers'[k].made = fibers[k].made
           /\ fibers'[k].chunks = fibers[k].chunks /\ Open(k)' = Open(k)
  PROVE  \A w : (IsMade(k, w)' <=> IsMade(k, w)) /\ (IsDone(k, w)' <=> IsDone(k, w))
<1>1. \A p : (Past(k, p)' <=> Past(k, p)) /\ (At(k, p)' <=> At(k, p))
  BY DEF Past, At
<1>2. k \in DOMAIN fibers => \A c : ChunkTask(k, c)' = ChunkTask(k, c)
  BY DEF ChunkTask
<1>3. \A p : At(k, p) => k \in DOMAIN fibers
  BY DEF At
<1> TAKE w
<1>4. IsMade(k, w)' <=> IsMade(k, w)
  BY <1>1, <1>3 DEF IsMade
<1>5. IsDone(k, w)' <=> IsDone(k, w)
  BY <1>1, <1>2, <1>3 DEF IsDone
<1> QED
  BY <1>4, <1>5

\* If no group makes progress, no task is made or done.
LEMMA SameTasks ==
  ASSUME systems' = systems, chunkCount' = chunkCount, main'.groups = main.groups
  PROVE  /\ (\A w \in AllTasks : \A k \in 1 .. Len(main.groups) :
               systems[w[1][1]].group = main.groups[k] => (IsMade(k, w)' <=> IsMade(k, w)))
              => MadeTasks' = MadeTasks
         /\ (\A w \in AllTasks : \A k \in 1 .. Len(main.groups) :
               systems[w[1][1]].group = main.groups[k] => (IsDone(k, w)' <=> IsDone(k, w)))
              => DoneTasks' = DoneTasks
<1>1. AllTasks' = AllTasks
  BY SameSystems
<1>2. MadeTasks' = {w \in AllTasks : \E k \in 1 .. Len(main.groups) :
                      systems[w[1][1]].group = main.groups[k] /\ IsMade(k, w)'}
  BY <1>1 DEF MadeTasks
<1>3. DoneTasks' = {w \in AllTasks : \E k \in 1 .. Len(main.groups) :
                      systems[w[1][1]].group = main.groups[k] /\ IsDone(k, w)'}
  BY <1>1 DEF DoneTasks
<1> QED
  BY <1>2, <1>3 DEF MadeTasks, DoneTasks

\* Then the counts are what they were.
LEMMA SameCounts ==
  ASSUME RunIInv, processed' = processed, currentBufferIndex' = currentBufferIndex, main' = main,
         MadeTasks' = MadeTasks, DoneTasks' = DoneTasks
  PROVE  RunIInv'
BY DEF RunIInv, DoneOnce, SpaceCounted, AddedNumber


\* Before the first task no group has made progress.
LEMMA NoSystemsNoGroups ==
  ASSUME systems = << >>
  PROVE  Len(UniqueGroups) = 0
<1>1. DOMAIN systems = {} /\ {} = 1 .. 0
  OBVIOUS
<1>2. IsGroups(CHOOSE it : IsGroups(it, 1 .. 0, systems), 1 .. 0, systems)
  BY GroupsExist
<1>3. PICK it : /\ IsGroups(it, 1 .. 0, systems)
                /\ UniqueGroups = it[{}]
  BY <1>1, <1>2, GroupsIter
<1>4. it[{}] = << >>
  BY <1>1, <1>3 DEF IsGroups
<1> QED
  BY <1>3, <1>4

LEMMA ClientRun ==
  ASSUME Shape, ClientStep
  PROVE  RunIInv'
<1>1. /\ main = Idle /\ fibers' = fibers /\ processed' = processed
      /\ currentBufferIndex' = currentBufferIndex
  BY ClientTypes
<1>2. DOMAIN fibers = {} /\ DOMAIN processed = {} /\ currentBufferIndex = 0
  BY <1>1 DEF Shape, IdleIsClean, Idle
<1>3. \/ main' = Idle
      \/ /\ systems' = systems /\ chunkCount' = chunkCount
         /\ main' = [phase |-> IF systems = << >> THEN "waiting" ELSE "adding",
                     groups |-> UniqueGroups, at |-> 1]
  <2>1. CASE RunSystems
    BY <2>1 DEF RunSystems, clientVars, storeVars
  <2>2. CASE UNCHANGED main
    BY <2>2, <1>1
  <2> QED
    BY <2>1, <2>2 DEF ClientStep, ScheduleSystem, SetMode, RunSingleThreaded, UseStore
<1>4. (\A k : ~ Added(k)') /\ AddedNumber' = 0
  <2>1. CASE main' = Idle
    <3>1. main'.phase = "idle" /\ main'.groups = << >> /\ Len(<< >>) = 0
      BY <2>1 DEF Idle
    <3> QED BY <3>1 DEF Added, AddedNumber
  <2>2. CASE systems = << >> /\ main'.phase = "waiting" /\ main'.groups = UniqueGroups
    <3>1. Len(main'.groups) = 0
      BY <2>2, NoSystemsNoGroups
    <3> QED BY <2>2, <3>1 DEF Added, AddedNumber
  <2>3. CASE main'.phase = "adding" /\ main'.groups = UniqueGroups /\ main'.at = 1
    <3>1. \A k : k \in 1 .. Len(UniqueGroups) => ~ (k < 1)
      OBVIOUS
    <3> QED BY <2>3, <3>1 DEF Added, AddedNumber
  <2> QED BY <1>3, <2>1, <2>2, <2>3
<1>5. \A k, w : ~ IsMade(k, w)' /\ ~ IsDone(k, w)'
  BY <1>1, <1>2, <1>4 DEF IsMade, IsDone, Past, At, Ended
<1>6. MadeTasks' = {} /\ DoneTasks' = {}
  BY <1>5 DEF MadeTasks, DoneTasks
<1>7. DoneOnce'
  BY <1>1, <1>2, <1>6 DEF DoneOnce
<1>8. SpaceCounted'
  BY <1>1, <1>2, <1>4, <1>6, FS_EmptySet DEF SpaceCounted
<1> QED
  BY <1>4, <1>7, <1>8, SchedulerConstants DEF RunIInv

LEMMA FinishRunRun ==
  ASSUME Shape, FinishRun
  PROVE  RunIInv'
<1>1. main' = Idle /\ fibers' = fibers /\ DOMAIN processed' = {} /\ currentBufferIndex' = 0
  BY DEF FinishRun, ResetIndices
<1>2. main'.phase = "idle" /\ Len(main'.groups) = 0 /\ 1 .. Len(main'.groups) = {}
  BY <1>1 DEF Idle
<1>3. MadeTasks' = {} /\ DoneTasks' = {}
  BY <1>2 DEF MadeTasks, DoneTasks
<1>4. AddedNumber' = 0
  BY <1>2 DEF AddedNumber
<1>5. DoneOnce'
  BY <1>1, <1>3 DEF DoneOnce
<1>6. SpaceCounted'
  BY <1>1, <1>3, <1>4, FS_EmptySet DEF SpaceCounted
<1> QED
  BY <1>4, <1>5, <1>6, SchedulerConstants DEF RunIInv

LEMMA AddGroupTaskRun ==
  ASSUME Shape, RunIInv, AddGroupTask, ~ub'
  PROVE  RunIInv'
<1>1. /\ \E ok \in BOOLEAN : Allocate(GroupArg(main.groups[main.at]), ok)
      /\ \A k : Open(k)' = Open(k)
      /\ \A k : Added(k) => Added(k)'
      /\ \A k : Added(k)' => Added(k) \/ k = main.at
      /\ ~Added(main.at)
      /\ \A k \in 1 .. GroupCounters : k # main.at => groupCounters'[k] = groupCounters[k]
      /\ main.at \in 1 .. GroupCounters /\ groupCounters'[main.at] = 1
  BY AddGroupTaskShape
<1>2. /\ main.at \in 1 .. Len(main.groups)
      /\ main'.groups = main.groups
      /\ \/ main'.phase = "adding" /\ main'.at = main.at + 1 /\ main.at < Len(main.groups)
         \/ main'.phase = "waiting" /\ main'.at = main.at /\ main.at = Len(main.groups)
  BY AddGroupTaskTypes
<1>3. /\ fibers' = fibers /\ systems' = systems /\ chunkCount' = chunkCount
      /\ processed' = processed /\ main.phase = "adding"
  BY DEF AddGroupTask, clientVars, storeVars
<1>4. \A k : Ended(k)' <=> Ended(k)
  <2> TAKE k
  <2>1. CASE k = main.at
    <3>1. ~ Ended(k)
      BY <2>1, <1>1 DEF Ended
    <3>2. ~ Ended(k)'
      BY <2>1, <1>1 DEF Ended
    <3> QED BY <3>1, <3>2
  <2>2. CASE k # main.at
    BY <2>2, <1>1 DEF Ended
  <2> QED BY <2>1, <2>2
<1>5. \A k, w : (IsMade(k, w)' <=> IsMade(k, w)) /\ (IsDone(k, w)' <=> IsDone(k, w))
  BY <1>1, <1>3, <1>4, SameGroup
<1>6. MadeTasks' = MadeTasks /\ DoneTasks' = DoneTasks
  BY <1>2, <1>3, <1>5, SameTasks
<1>7. main.at \in Nat /\ AddedNumber = main.at - 1 /\ AddedNumber' = main.at
  <2>1. main.at \in Nat
    BY DEF Shape, RunFits
  <2> QED BY <1>2, <1>3, <2>1 DEF AddedNumber
<1>8. currentBufferIndex' = currentBufferIndex + 1
  <2>1. GroupArg(main.groups[main.at]).kind = "group"
    BY DEF GroupArg
  <2> QED BY <1>1, <2>1, ArgSizes DEF Allocate
<1>9. DoneOnce'
  BY <1>3, <1>6 DEF DoneOnce, RunIInv
<1>10. SpaceCounted'
  <2>1. currentBufferIndex = AddedNumber + 2 * Cardinality(MadeTasks)
    BY DEF RunIInv, SpaceCounted
  <2>2. PICK n : n = Cardinality(MadeTasks)
    OBVIOUS
  <2>3. n \in Nat
    <3>1. IsFiniteSet(MadeTasks)
      BY AllTasksCounted, FS_Subset DEF MadeTasks, Shape
    <3> QED BY <2>2, <3>1, FS_CardinalityType
  <2>4. currentBufferIndex' = main.at + 2 * n
    BY <1>7, <1>8, <2>1, <2>2, <2>3
  <2> QED BY <1>6, <1>7, <2>2, <2>4 DEF SpaceCounted
<1> QED
  BY <1>1, <1>7, <1>9, <1>10, SchedulerConstants DEF RunIInv


\* A group that starts is before its first job.
LEMMA StartGroupRun ==
  ASSUME Shape, RunIInv, NEW t \in queue, StartGroup(t)
  PROVE  RunIInv'
<1>1. /\ t.counter \in (1 .. GroupCounters) \ DOMAIN fibers
      /\ DOMAIN fibers' = DOMAIN fibers \union {t.counter}
      /\ fibers'[t.counter] = NewFiber(t)
      /\ \A k \in DOMAIN fibers : fibers'[k] = fibers[k]
  BY StartGroupTypes
<1>2. /\ main' = main /\ groupCounters' = groupCounters /\ systems' = systems
      /\ chunkCount' = chunkCount /\ queue' = queue \ {t} /\ running' = running
      /\ currentBufferIndex' = currentBufferIndex /\ processed' = processed
      /\ t.arg.kind = "group"
  BY DEF StartGroup, clientVars, storeVars
<1>3. PICK i : i = t.counter
  OBVIOUS
<1>4. groupCounters[i] = 1
  BY <1>2, <1>3 DEF Shape, GroupsCounted
<1>5. \A k : Open(k)' = Open(k)
  <2> TAKE k
  <2>1. \A u : u.arg.kind = "chunk" /\ u.counter = k =>
                  (u \in queue' \union running' <=> u \in queue \union running)
    BY <1>2
  <2> QED BY <2>1, SameOpen
<1>6. \A k : Ended(k)' <=> Ended(k)
  BY <1>2 DEF Ended, Added
<1>7. ASSUME NEW w \in AllTasks, NEW k
      PROVE  (IsMade(k, w)' <=> IsMade(k, w)) /\ (IsDone(k, w)' <=> IsDone(k, w))
  <2>1. CASE k # i
    <3>1. /\ k \in DOMAIN fibers' <=> k \in DOMAIN fibers
          /\ k \in DOMAIN fibers => fibers'[k] = fibers[k]
      BY <2>1, <1>1, <1>3
    <3> QED BY <3>1, <1>5, <1>6, SameGroup
  <2>2. CASE k = i
    <3>1. ~ Ended(k) /\ ~ Ended(k)' /\ k \notin DOMAIN fibers
      BY <2>2, <1>1, <1>3, <1>4, <1>6 DEF Ended
    <3>2. fibers'[k].pos = <<0, 0>>
      BY <2>2, <1>1, <1>3 DEF NewFiber
    <3>3. w[1] # <<0, 0>> /\ ~ Before(w[1], <<0, 0>>)
      BY TaskParts, BeforeOrder DEF Shape
    <3>4. ~ Past(k, w[1])' /\ ~ At(k, w[1])' /\ ~ Past(k, w[1]) /\ ~ At(k, w[1])
      BY <3>1, <3>2, <3>3 DEF Past, At
    <3> QED BY <3>4 DEF IsMade, IsDone
  <2> QED BY <2>1, <2>2
<1>8. MadeTasks' = MadeTasks /\ DoneTasks' = DoneTasks
  BY <1>2, <1>7, SameTasks
<1> QED
  BY <1>2, <1>8, SameCounts

\* The tasks of the jobs that come before a fiber's are done, if it has none open.
LEMMA ReadyFiber ==
  ASSUME Shape, NEW i \in DOMAIN fibers, BetweenJobs(i), NEW w \in AllTasks,
         systems[w[1][1]].group = main.groups[i]
  PROVE  /\ IsMade(i, w) <=> (Before(w[1], fibers[i].pos) \/ w[1] = fibers[i].pos)
         /\ IsDone(i, w) <=> (Before(w[1], fibers[i].pos) \/ w[1] = fibers[i].pos)
<1>1. ~ Ended(i)
  BY FiberListed
<1>2. fibers[i].state = "running" /\ Len(fibers[i].made) = fibers[i].chunks
  BY DEF BetweenJobs
<1>3. Open(i) = {}
  BY <1>2, RunningHasNone
<1>4. w[1] = fibers[i].pos => w[2] <= fibers[i].chunks
  <2>1. w[2] <= chunkCount[QueryOf(w[1])] /\ w[1] # <<0, 0>>
    BY TaskParts DEF Shape
  <2>2. fibers[i].pos # <<0, 0>> => fibers[i].chunks = chunkCount[QueryOf(fibers[i].pos)]
    BY DEF Shape, FibersInJobs, InJob
  <2> QED BY <2>1, <2>2
<1> QED
  BY <1>1, <1>2, <1>3, <1>4 DEF IsMade, IsDone, Past, At

\* A job that begins is the next one: no task of it is made yet.
LEMMA BeginJobRun ==
  ASSUME Shape, RunIInv, NEW i \in DOMAIN fibers, BeginJob(i)
  PROVE  RunIInv'
<1>1. PICK pos \in Positions :
        /\ systems[pos[1]].group = main.groups[i]
        /\ Before(fibers[i].pos, pos)
        /\ \A p \in Positions :
             systems[p[1]].group = main.groups[i] /\ Before(fibers[i].pos, p) => ~ Before(p, pos)
        /\ OnlyFiber(i, FiberOf(fibers[i], fibers[i].state, pos, chunkCount[QueryOf(pos)],
                                << >>, fibers[i].counter))
  BY BeginJobFacts
<1>2. /\ main' = main /\ groupCounters' = groupCounters /\ systems' = systems
      /\ chunkCount' = chunkCount /\ queue' = queue /\ running' = running
      /\ currentBufferIndex' = currentBufferIndex /\ processed' = processed
      /\ BetweenJobs(i)
  BY DEF BeginJob, clientVars, storeVars
<1>3. /\ DOMAIN fibers' = DOMAIN fibers
      /\ fibers'[i].pos = pos /\ fibers'[i].made = << >> /\ fibers'[i].chunks = chunkCount[QueryOf(pos)]
      /\ \A k \in DOMAIN fibers : k # i => fibers'[k] = fibers[k]
  BY <1>1, FiberOfFields DEF OnlyFiber
<1>4. \A k : Open(k)' = Open(k)
  BY <1>2 DEF Open
<1>5. \A k : Ended(k)' <=> Ended(k)
  BY <1>2 DEF Ended, Added
<1>6. ASSUME NEW w \in AllTasks, NEW k \in 1 .. Len(main.groups),
             systems[w[1][1]].group = main.groups[k]
      PROVE  (IsMade(k, w)' <=> IsMade(k, w)) /\ (IsDone(k, w)' <=> IsDone(k, w))
  <2>1. CASE k # i
    BY <2>1, <1>3, <1>4, <1>5, SameGroup
  <2>2. CASE k = i
    <3>1. /\ IsMade(k, w) <=> (Before(w[1], fibers[i].pos) \/ w[1] = fibers[i].pos)
          /\ IsDone(k, w) <=> (Before(w[1], fibers[i].pos) \/ w[1] = fibers[i].pos)
      BY <1>2, <1>6, <2>2, ReadyFiber
    <3>2. /\ w[1] \in Positions /\ w[1] \in Nat \X Nat /\ w[2] >= 1 /\ w[2] \in Nat
          /\ w[2] <= chunkCount[QueryOf(w[1])]
      BY TaskParts DEF Shape
    <3>3. fibers[i].pos \in Nat \X Nat /\ pos \in Nat \X Nat
      BY FiberJob, PositionParts DEF Shape
    <3>4. Before(w[1], pos) <=> (Before(w[1], fibers[i].pos) \/ w[1] = fibers[i].pos)
      <4>1. CASE Before(fibers[i].pos, w[1])
        <5>1. ~ Before(w[1], pos)
          BY <4>1, <1>1, <1>6, <2>2, <3>2
        <5> QED BY <4>1, <5>1, <3>2, <3>3, BeforeOrder
      <4>2. CASE Before(w[1], fibers[i].pos) \/ w[1] = fibers[i].pos
        BY <4>2, <1>1, <3>2, <3>3, BeforeOrder
      <4> QED BY <4>1, <4>2, <3>2, <3>3, BeforeOrder
    <3>5. ~ Ended(k)'
      BY <2>2, <1>5, FiberListed
    <3>6. (Past(k, w[1])' <=> Before(w[1], pos)) /\ (At(k, w[1])' <=> w[1] = pos)
      BY <2>2, <1>3, <3>5 DEF Past, At
    <3>7. IsMade(k, w)' <=> Before(w[1], pos)
      <4>1. Len(fibers'[k].made) = 0
        BY <2>2, <1>3
      <4>2. ~ (w[2] <= Len(fibers'[k].made))
        BY <3>2, <4>1
      <4> QED BY <3>6, <4>2 DEF IsMade
    <3>8. IsDone(k, w)' <=> Before(w[1], pos)
      <4>1. Len(fibers'[k].made) = 0 /\ fibers'[k].chunks = chunkCount[QueryOf(pos)]
        BY <2>2, <1>3
      <4>2. chunkCount[QueryOf(pos)] \in Nat
        BY PositionParts DEF Shape
      <4>3. w[1] = pos => Len(fibers'[k].made) # fibers'[k].chunks
        BY <3>2, <4>1, <4>2
      <4> QED BY <3>6, <4>3 DEF IsDone
    <3> QED BY <3>1, <3>4, <3>7, <3>8
  <2> QED BY <2>1, <2>2
<1>7. MadeTasks' = MadeTasks /\ DoneTasks' = DoneTasks
  BY <1>2, <1>6, SameTasks
<1> QED
  BY <1>2, <1>7, SameCounts

LEMMA EndJobRun ==
  ASSUME Shape, RunIInv, NEW i \in DOMAIN fibers, EndJob(i)
  PROVE  RunIInv'
<1>1. RunFits
  BY DEF Shape
<1>2. OnlyFiber(i, FiberOf(fibers[i], "running", fibers[i].pos, fibers[i].chunks,
                           fibers[i].made, fibers[i].counter))
  BY <1>1, EndJobFiber
<1>3. /\ main' = main /\ groupCounters' = groupCounters /\ systems' = systems
      /\ chunkCount' = chunkCount /\ currentBufferIndex' = currentBufferIndex
      /\ processed' = processed
  BY DEF EndJob, clientVars, storeVars
<1>4. /\ DOMAIN fibers' = DOMAIN fibers
      /\ fibers'[i].pos = fibers[i].pos /\ fibers'[i].made = fibers[i].made
      /\ fibers'[i].chunks = fibers[i].chunks
      /\ \A k \in DOMAIN fibers : k # i => fibers'[k] = fibers[k]
  BY <1>2, FiberOfFields DEF OnlyFiber
<1>5. \A k : Open(k)' = Open(k)
  BY EndJobShape
<1>6. \A k : Ended(k)' <=> Ended(k)
  BY <1>3 DEF Ended, Added
<1>7. \A k, w : (IsMade(k, w)' <=> IsMade(k, w)) /\ (IsDone(k, w)' <=> IsDone(k, w))
  <2> TAKE k
  <2>1. k \in DOMAIN fibers =>
           /\ fibers'[k].pos = fibers[k].pos /\ fibers'[k].made = fibers[k].made
           /\ fibers'[k].chunks = fibers[k].chunks /\ Open(k)' = Open(k)
    BY <1>4, <1>5
  <2> QED BY <2>1, <1>4, <1>6, SameGroup
<1>8. MadeTasks' = MadeTasks /\ DoneTasks' = DoneTasks
  BY <1>3, <1>7, SameTasks
<1> QED
  BY <1>3, <1>8, SameCounts

LEMMA StartChunkRun ==
  ASSUME Shape, RunIInv, NEW t \in queue, StartChunk(t)
  PROVE  RunIInv'
<1>1. fibers' = fibers
  BY StartChunkTypes
<1>2. /\ main' = main /\ groupCounters' = groupCounters /\ systems' = systems
      /\ chunkCount' = chunkCount /\ currentBufferIndex' = currentBufferIndex
      /\ processed' = processed
  BY DEF StartChunk, clientVars, storeVars
<1>3. \A k : Open(k)' = Open(k)
  BY StartChunkShape
<1>4. \A k : Ended(k)' <=> Ended(k)
  BY <1>2 DEF Ended, Added
<1>5. \A k, w : (IsMade(k, w)' <=> IsMade(k, w)) /\ (IsDone(k, w)' <=> IsDone(k, w))
  BY <1>1, <1>3, <1>4, SameGroup
<1>6. MadeTasks' = MadeTasks /\ DoneTasks' = DoneTasks
  BY <1>2, <1>5, SameTasks
<1> QED
  BY <1>2, <1>6, SameCounts

\* A group ends after its last job.
LEMMA EndGroupRun ==
  ASSUME Shape, RunIInv, NEW i \in DOMAIN fibers, EndGroup(i)
  PROVE  RunIInv'
<1>1. /\ DOMAIN fibers' = DOMAIN fibers \ {i}
      /\ \A k \in DOMAIN fibers' : fibers'[k] = fibers[k]
      /\ groupCounters'[i] = 0
      /\ \A k \in 1 .. GroupCounters : k # i => groupCounters'[k] = groupCounters[k]
  BY EndGroupTypes
<1>2. /\ main' = main /\ systems' = systems /\ chunkCount' = chunkCount
      /\ currentBufferIndex' = currentBufferIndex /\ processed' = processed
      /\ BetweenJobs(i)
      /\ JobsAfter(argBuffer[fibers[i].offset].group, fibers[i].pos) = {}
  BY DEF EndGroup, clientVars, storeVars
<1>3. \A k : Open(k)' = Open(k)
  BY EndGroupShape
<1>4. \A k : Added(k)' <=> Added(k)
  BY <1>2 DEF Added
<1>5. Added(i) /\ i \in 1 .. GroupCounters /\ argBuffer[fibers[i].offset].group = main.groups[i]
  BY GroupOfFiber
<1>6. ASSUME NEW w \in AllTasks, NEW k \in 1 .. Len(main.groups),
             systems[w[1][1]].group = main.groups[k]
      PROVE  (IsMade(k, w)' <=> IsMade(k, w)) /\ (IsDone(k, w)' <=> IsDone(k, w))
  <2>1. CASE k # i
    <3>1. Ended(k)' <=> Ended(k)
      BY <2>1, <1>1, <1>4 DEF Ended
    <3>2. /\ k \in DOMAIN fibers' <=> k \in DOMAIN fibers
          /\ k \in DOMAIN fibers => fibers'[k] = fibers[k]
      BY <2>1, <1>1
    <3> QED BY <3>1, <3>2, <1>3, SameGroup
  <2>2. CASE k = i
    <3>1. /\ IsMade(k, w) <=> (Before(w[1], fibers[i].pos) \/ w[1] = fibers[i].pos)
          /\ IsDone(k, w) <=> (Before(w[1], fibers[i].pos) \/ w[1] = fibers[i].pos)
      BY <1>2, <1>6, <2>2, ReadyFiber
    <3>2. w[1] \in Positions /\ w[1] \in Nat \X Nat /\ fibers[i].pos \in Nat \X Nat
      BY TaskParts, FiberJob DEF Shape
    <3>3. w[1] \notin JobsAfter(main.groups[i], fibers[i].pos)
      BY <1>2, <1>5
    <3>4. ~ Before(fibers[i].pos, w[1])
      BY <3>2, <3>3, <2>2, <1>6, JobsAfterPositions
    <3>5. Before(w[1], fibers[i].pos) \/ w[1] = fibers[i].pos
      BY <3>2, <3>4, BeforeOrder
    <3>6. Ended(k)'
      BY <2>2, <1>1, <1>4, <1>5 DEF Ended
    <3> QED BY <3>1, <3>5, <3>6 DEF IsMade, IsDone, Past
  <2> QED BY <2>1, <2>2
<1>7. MadeTasks' = MadeTasks /\ DoneTasks' = DoneTasks
  BY <1>2, <1>6, SameTasks
<1> QED
  BY <1>2, <1>7, SameCounts


\* The next chunk of a job has no task yet.
LEMMA NextTask ==
  ASSUME Shape, NEW i \in DOMAIN fibers, Len(fibers[i].made) < fibers[i].chunks
  PROVE  \E w \in AllTasks \ MadeTasks :
           /\ w = <<fibers[i].pos, Len(fibers[i].made) + 1>>
           /\ systems[w[1][1]].group = main.groups[i]
<1>1. PICK p, n : p = fibers[i].pos /\ n = Len(fibers[i].made) + 1
  OBVIOUS
<1>2. /\ n \in Nat /\ n >= 1 /\ n <= fibers[i].chunks /\ fibers[i].chunks \in 0 .. MaxChunks
      /\ Len(fibers[i].made) \in Nat /\ ~ (n <= Len(fibers[i].made)) /\ fibers[i].chunks # 0
      /\ fibers[i].chunks \in Nat
  <2>1. /\ Len(fibers[i].made) \in Nat /\ fibers[i].chunks \in 0 .. MaxChunks
        /\ fibers[i].chunks \in Nat
    BY FiberJob
  <2> QED BY <2>1, <1>1
<1>3. /\ p \in Positions /\ p # <<0, 0>> /\ systems[p[1]].group = main.groups[i]
      /\ fibers[i].chunks = chunkCount[QueryOf(p)]
  BY <1>1, <1>2 DEF Shape, FibersInJobs, InJob
<1>4. <<p, n>> \in AllTasks
  <2>1. n \in 1 .. MaxChunks
    BY <1>2, SchedulerConstants
  <2> QED BY <1>2, <1>3, <2>1 DEF AllTasks
<1>5. <<p, n>> \notin MadeTasks
  <2>1. ASSUME NEW k \in 1 .. Len(main.groups), systems[p[1]].group = main.groups[k],
               IsMade(k, <<p, n>>)
        PROVE  FALSE
    <3>1. k = i /\ ~ Ended(i)
      BY <1>3, <2>1, FiberListed
    <3>2. ~ Before(p, p)
      BY <1>3, PositionParts, BeforeOrder DEF Shape
    <3>3. ~ Past(k, p) /\ ~ (n <= Len(fibers[k].made))
      BY <1>1, <1>2, <3>1, <3>2 DEF Past
    <3> QED BY <2>1, <3>3 DEF IsMade
  <2> QED BY <2>1 DEF MadeTasks
<1> QED
  BY <1>1, <1>3, <1>4, <1>5

LEMMA AddChunkTaskRun ==
  ASSUME Shape, RunIInv, NEW i \in DOMAIN fibers, AddChunkTask(i), ~ub'
  PROVE  RunIInv'
<1>1. /\ main' = main /\ groupCounters' = groupCounters /\ systems' = systems
      /\ chunkCount' = chunkCount /\ processed' = processed
      /\ Len(fibers[i].made) < fibers[i].chunks
      /\ \E ok \in BOOLEAN :
           Allocate(JobArg(fibers[i].pos[1], fibers[i].pos[2], Len(fibers[i].made) + 1), ok)
  <2>1. Len(Append(fibers[i].made, currentBufferIndex)) = Len(fibers[i].made) + 1
    BY FiberJob
  <2> QED BY <2>1 DEF AddChunkTask, clientVars, storeVars
<1>2. /\ DOMAIN fibers' = DOMAIN fibers
      /\ fibers'[i].pos = fibers[i].pos /\ fibers'[i].chunks = fibers[i].chunks
      /\ fibers'[i].made = Append(fibers[i].made, currentBufferIndex)
      /\ \A k \in DOMAIN fibers : k # i => fibers'[k] = fibers[k]
  <2>1. RunFits
    BY DEF Shape
  <2>2. LET made == Append(fibers[i].made, currentBufferIndex)
            last == Len(made) = fibers[i].chunks
        IN  OnlyFiber(i, FiberOf(fibers[i], IF last THEN "waiting" ELSE fibers[i].state, fibers[i].pos,
                                 fibers[i].chunks, made, IF last THEN Len(made) ELSE fibers[i].counter))
    BY <2>1, AddChunkTaskFiber
  <2>3. PICK st, n : OnlyFiber(i, FiberOf(fibers[i], st, fibers[i].pos, fibers[i].chunks,
                                          Append(fibers[i].made, currentBufferIndex), n))
    BY <2>2
  <2>4. PICK f : f = FiberOf(fibers[i], st, fibers[i].pos, fibers[i].chunks,
                             Append(fibers[i].made, currentBufferIndex), n)
    OBVIOUS
  <2>5. /\ f.pos = fibers[i].pos /\ f.chunks = fibers[i].chunks
        /\ f.made = Append(fibers[i].made, currentBufferIndex)
    BY <2>4 DEF FiberOf
  <2>6. OnlyFiber(i, f)
    BY <2>3, <2>4
  <2> QED BY <2>5, <2>6 DEF OnlyFiber
<1>3. /\ Len(fibers[i].made) \in Nat /\ Len(fibers'[i].made) = Len(fibers[i].made) + 1
      /\ fibers[i].made \in Seq(Nat)
  BY <1>2, FiberJob
<1>4. /\ \A k \in DOMAIN fibers : k # i => Open(k)' = Open(k)
      /\ Len(fibers'[i].made) = fibers'[i].chunks =>
              \A c \in 1 .. fibers'[i].chunks : ChunkTask(i, c)' \in Open(i)'
  BY AddChunkTaskShape
<1>5. \A k : Ended(k)' <=> Ended(k)
  BY <1>1 DEF Ended, Added
<1>6. PICK w0 \in AllTasks \ MadeTasks :
           /\ w0 = <<fibers[i].pos, Len(fibers[i].made) + 1>>
           /\ systems[w0[1][1]].group = main.groups[i]
  BY <1>1, NextTask
<1>7. ASSUME NEW w \in AllTasks, NEW k \in 1 .. Len(main.groups),
             systems[w[1][1]].group = main.groups[k]
      PROVE  /\ IsDone(k, w)' <=> IsDone(k, w)
             /\ IsMade(k, w)' <=> IsMade(k, w) \/ w = w0
  <2>0. w[1] \in Positions
    BY TaskParts DEF Shape
  <2>1. CASE k # i
    <3>1. (IsMade(k, w)' <=> IsMade(k, w)) /\ (IsDone(k, w)' <=> IsDone(k, w))
      BY <2>1, <1>2, <1>4, <1>5, SameGroup
    <3>2. w # w0
      BY <1>6, <1>7, <2>0, <2>1, FiberListed
    <3> QED BY <3>1, <3>2
  <2>2. CASE k = i
    <3>1. ~ Ended(k) /\ ~ Ended(k)'
      BY <2>2, <1>5, FiberListed
    <3>2. (Past(k, w[1])' <=> Past(k, w[1])) /\ (At(k, w[1])' <=> At(k, w[1]))
      BY <2>2, <1>2, <3>1 DEF Past, At
    <3>3. /\ w[2] \in Nat /\ w = <<w[1], w[2]>> /\ w[2] >= 1
          /\ w[2] <= chunkCount[QueryOf(w[1])] /\ w[1] # <<0, 0>>
      BY TaskParts DEF Shape
    <3>4. ~ Past(k, w0[1]) /\ (At(k, w[1]) <=> w[1] = w0[1]) /\ w0 = <<w0[1], w0[2]>>
      <4>1. w0[1] = fibers[i].pos /\ w0[1] \in Positions
        BY <1>6, TaskParts DEF Shape
      <4>2. ~ Before(w0[1], w0[1])
        BY <4>1, PositionParts, BeforeOrder DEF Shape
      <4> QED BY <1>6, <2>2, <3>1, <4>1, <4>2 DEF Past, At
    <3>5. w0[2] = Len(fibers[i].made) + 1
      BY <1>6
    <3>6. w[2] <= Len(fibers[i].made) + 1 <=> w[2] <= Len(fibers[i].made) \/ w[2] = w0[2]
      BY <3>3, <3>5, <1>3
    <3>7. w = w0 <=> w[1] = w0[1] /\ w[2] = w0[2]
      BY <3>3, <3>4
    <3>8. IsMade(k, w)' <=> IsMade(k, w) \/ w = w0
      BY <2>2, <1>3, <3>2, <3>4, <3>6, <3>7 DEF IsMade
    <3>9. IsDone(k, w)' <=> IsDone(k, w)
      <4>1. Len(fibers[k].made) # fibers[k].chunks
        BY <1>1, <1>3, <2>2, FiberJob
      <4>2. At(k, w[1]) => w[2] \in 1 .. fibers[i].chunks
        <5>1. At(k, w[1]) => fibers[i].chunks = chunkCount[QueryOf(w[1])]
          BY <2>2, <3>3 DEF At, Shape, FibersInJobs, InJob
        <5>2. fibers[i].chunks \in Nat
          BY FiberJob
        <5> QED BY <3>3, <5>1, <5>2
      <4>3. ~ (At(k, w[1]) /\ Len(fibers'[k].made) = fibers'[k].chunks /\ ChunkTask(k, w[2])' \notin Open(k)')
        BY <1>2, <1>4, <2>2, <4>2
      <4> QED BY <3>2, <4>1, <4>3 DEF IsDone
    <3> QED BY <3>8, <3>9
  <2> QED BY <2>1, <2>2
<1>8. DoneTasks' = DoneTasks
  BY <1>1, <1>7, SameTasks
<1>9. MadeTasks' = MadeTasks \union {w0}
  <2>1. AllTasks' = AllTasks
    BY <1>1, SameSystems
  <2>2. MadeTasks' = {w \in AllTasks : \E k \in 1 .. Len(main.groups) :
                        systems[w[1][1]].group = main.groups[k] /\ IsMade(k, w)'}
    BY <1>1, <2>1 DEF MadeTasks
  <2>3. i \in 1 .. Len(main.groups)
    BY FiberListed
  <2> QED BY <1>6, <1>7, <2>2, <2>3 DEF MadeTasks
<1>10. IsFiniteSet(MadeTasks)
  BY AllTasksCounted, FS_Subset DEF MadeTasks, Shape
<1>11. Cardinality(MadeTasks') = Cardinality(MadeTasks) + 1 /\ Cardinality(MadeTasks) \in Nat
  BY <1>6, <1>9, <1>10, FS_AddElement, FS_CardinalityType
<1>12. currentBufferIndex' = currentBufferIndex + 2
  BY <1>1, JobArgs, ArgSizes DEF Allocate
<1>13. SpaceCounted' /\ AddedNumber' = AddedNumber
  <2>1. AddedNumber' = AddedNumber
    BY <1>1 DEF AddedNumber
  <2>2. currentBufferIndex = AddedNumber + 2 * Cardinality(MadeTasks)
    BY DEF RunIInv, SpaceCounted
  <2>3. AddedNumber \in Nat \/ AddedNumber \in Int
    <3>1. main.at \in Nat /\ Len(main.groups) \in Nat
      BY DEF Shape, RunFits
    <3> QED BY <3>1 DEF AddedNumber
  <2>4. PICK n \in Nat : n = Cardinality(MadeTasks)
    BY <1>11
  <2>5. currentBufferIndex' = AddedNumber + 2 * (n + 1)
    BY <1>12, <2>2, <2>3, <2>4
  <2>6. Cardinality(MadeTasks') = n + 1
    BY <1>11, <2>4
  <2> QED BY <2>1, <2>5, <2>6 DEF SpaceCounted
<1>14. DoneOnce'
  BY <1>1, <1>8 DEF DoneOnce, RunIInv
<1> QED
  BY <1>13, <1>14 DEF RunIInv

\* A task that ends is done, and only that one.
LEMMA EndChunkRun ==
  ASSUME Shape, RunIInv, NEW t \in running, EndChunk(t)
  PROVE  RunIInv'
<1>1. /\ main' = main /\ systems' = systems /\ groupCounters' = groupCounters
      /\ chunkCount' = chunkCount /\ currentBufferIndex' = currentBufferIndex
  BY DEF EndChunk, clientVars, storeVars
<1>2. /\ t.counter \in DOMAIN fibers /\ t.arg.kind = "chunk"
      /\ OnlyFiber(t.counter, FiberOf(fibers[t.counter], fibers[t.counter].state,
           fibers[t.counter].pos, fibers[t.counter].chunks, fibers[t.counter].made,
           fibers[t.counter].counter - 1))
  BY EndChunkTypes
<1>3. PICK i \in DOMAIN fibers : i = t.counter
  BY <1>2
<1>4. /\ DOMAIN fibers' = DOMAIN fibers
      /\ fibers'[i].pos = fibers[i].pos /\ fibers'[i].chunks = fibers[i].chunks
      /\ fibers'[i].made = fibers[i].made
      /\ \A k \in DOMAIN fibers : k # i => fibers'[k] = fibers[k]
  BY <1>2, <1>3, FiberOfFields DEF OnlyFiber
<1>5. t \in Open(i) /\ \A k : Open(k)' = Open(k) \ {t}
  BY <1>3, EndChunkShape
<1>6. PICK c \in 1 .. fibers[i].chunks : t = ChunkTask(i, c)
  BY <1>2, <1>3, OpenTask
<1>7. fibers[i].state = "waiting" /\ Len(fibers[i].made) = fibers[i].chunks
  <2>1. fibers[i].state = "waiting"
    BY <1>2, <1>3, OpenTask
  <2> QED BY <2>1 DEF Shape, FibersInJobs, InJob
<1>8. PICK p : p = fibers[i].pos
  OBVIOUS
<1>9. /\ fibers[i].chunks \in 0 .. MaxChunks /\ fibers[i].chunks # 0 /\ c \in Nat /\ c >= 1
      /\ c <= fibers[i].chunks /\ c \in 1 .. MaxChunks
  <2>1. fibers[i].chunks \in 0 .. MaxChunks /\ fibers[i].chunks \in Nat
    BY FiberJob
  <2> QED BY <2>1, SchedulerConstants
<1>10. /\ p \in Positions /\ systems[p[1]].group = main.groups[i]
       /\ fibers[i].chunks = chunkCount[QueryOf(p)]
  BY <1>8, <1>9 DEF Shape, FibersInJobs, InJob
<1>11. PICK w0 : w0 = <<p, c>>
  OBVIOUS
<1>12. w0 \in AllTasks /\ w0[1] = p /\ w0[2] = c
  BY <1>9, <1>10, <1>11 DEF AllTasks
<1>13. i \in 1 .. Len(main.groups) /\ ~ Ended(i)
  BY FiberListed
<1>14. ~ Before(p, p) /\ p = <<p[1], p[2]>>
  BY <1>10, PositionParts, BeforeOrder DEF Shape
<1>15. /\ t.arg.system = p[1] /\ t.arg.job = p[2] /\ t.arg.chunk = c
       /\ \A d : ChunkTask(i, d) = t => d = c
  <2>1. \A d : ChunkTask(i, d).arg = JobArg(p[1], p[2], d)
    BY <1>8 DEF ChunkTask
  <2> QED BY <1>6, <2>1, JobArgs
<1>16. \A k : Ended(k)' <=> Ended(k)
  BY <1>1 DEF Ended, Added
<1>17. ASSUME NEW w \in AllTasks, NEW k \in 1 .. Len(main.groups),
              systems[w[1][1]].group = main.groups[k]
       PROVE  /\ IsMade(k, w)' <=> IsMade(k, w)
              /\ IsDone(k, w)' <=> IsDone(k, w) \/ w = w0
              /\ w = w0 => ~ IsDone(k, w)
  <2>0. w[1] \in Positions /\ w = <<w[1], w[2]>>
    BY TaskParts DEF Shape
  <2>1. CASE k # i
    <3>1. Open(k)' = Open(k)
      BY <2>1, <1>3, <1>5 DEF Open
    <3>2. (IsMade(k, w)' <=> IsMade(k, w)) /\ (IsDone(k, w)' <=> IsDone(k, w))
      BY <2>1, <3>1, <1>4, <1>16, SameGroup
    <3>3. w # w0
      BY <1>10, <1>12, <1>17, <2>0, <2>1, FiberListed
    <3> QED BY <3>2, <3>3
  <2>2. CASE k = i
    <3>1. ~ Ended(k) /\ ~ Ended(k)'
      BY <2>2, <1>16, FiberListed
    <3>2. (Past(k, w[1])' <=> Past(k, w[1])) /\ (At(k, w[1])' <=> At(k, w[1]))
      BY <2>2, <1>4, <3>1 DEF Past, At
    <3>3. IsMade(k, w)' <=> IsMade(k, w)
      BY <2>2, <1>4, <3>2 DEF IsMade
    <3>4. (At(k, w[1]) <=> w[1] = p) /\ (w = w0 <=> w[1] = p /\ w[2] = c)
      BY <2>0, <2>2, <1>8, <1>11, <1>12 DEF At
    <3>5. \A d : ChunkTask(k, d)' = ChunkTask(i, d)
      BY <2>2, <1>4 DEF ChunkTask
    <3>6. \A d : ChunkTask(k, d)' \notin Open(k)' <=> ChunkTask(i, d) \notin Open(i) \/ d = c
      BY <2>2, <3>5, <1>5, <1>6, <1>15
    <3>7. ChunkTask(k, c) \in Open(k)
      BY <2>2, <1>5, <1>6
    <3>8. w[1] = p => ~ Past(k, w[1])
      BY <2>2, <1>8, <1>14, <3>1 DEF Past
    <3>9. IsDone(k, w)' <=> IsDone(k, w) \/ w = w0
      BY <2>2, <1>4, <1>7, <3>2, <3>4, <3>6 DEF IsDone
    <3>10. w = w0 => ~ IsDone(k, w)
      BY <3>4, <3>7, <3>8 DEF IsDone
    <3> QED BY <3>3, <3>9, <3>10
  <2> QED BY <2>1, <2>2
<1>18. MadeTasks' = MadeTasks
  BY <1>1, <1>17, SameTasks
<1>19. DoneTasks' = DoneTasks \union {w0} /\ w0 \notin DoneTasks
  <2>1. AllTasks' = AllTasks
    BY <1>1, SameSystems
  <2>2. DoneTasks' = {w \in AllTasks : \E k \in 1 .. Len(main.groups) :
                        systems[w[1][1]].group = main.groups[k] /\ IsDone(k, w)'}
    BY <1>1, <2>1 DEF DoneTasks
  <2>3. DoneTasks' = DoneTasks \union {w0}
    BY <1>10, <1>12, <1>13, <1>17, <2>2 DEF DoneTasks
  <2>4. w0 \notin DoneTasks
    BY <1>17 DEF DoneTasks
  <2> QED BY <2>3, <2>4
<1>20. DoneOnce'
  <2> DEFINE of(w) == <<w[1][1], w[1][2], w[2]>>
             what == of(w0)
  <2>1. what = <<t.arg.system, t.arg.job, t.arg.chunk>>
    BY <1>12, <1>15
  <2>2. processed' = IF what \in DOMAIN processed THEN [processed EXCEPT ![what] = @ + 1]
                     ELSE [w \in DOMAIN processed \union {what} |-> IF w = what THEN 1 ELSE processed[w]]
    BY <2>1 DEF EndChunk
  <2>3. /\ \A x \in DOMAIN processed : processed[x] = 1
        /\ DOMAIN processed = {of(w) : w \in DoneTasks}
    BY DEF RunIInv, DoneOnce
  <2>4. \A w \in AllTasks : of(w) = what => w = w0
    <3> TAKE w \in AllTasks
    <3>1. /\ w = <<w[1], w[2]>> /\ w[1] = <<w[1][1], w[1][2]>>
          /\ w0 = <<w0[1], w0[2]>> /\ w0[1] = <<w0[1][1], w0[1][2]>>
      BY <1>12, TaskParts DEF Shape
    <3> QED BY <3>1
  <2>5. DoneTasks \subseteq AllTasks
    BY DEF DoneTasks
  <2> HIDE DEF what
  <2>6. what \notin DOMAIN processed
    BY <2>3, <2>4, <2>5, <1>19
  <2>7. /\ DOMAIN processed' = DOMAIN processed \union {what}
        /\ \A x \in DOMAIN processed' : processed'[x] = 1
    BY <2>2, <2>3, <2>6
  <2>8. DOMAIN processed' = {of(w) : w \in DoneTasks'}
    BY <2>3, <2>7, <1>19 DEF what
  <2> QED BY <2>7, <2>8 DEF DoneOnce
<1>21. SpaceCounted' /\ AddedNumber' <= GroupCounters
  BY <1>1, <1>18 DEF RunIInv, SpaceCounted, AddedNumber
<1> QED
  BY <1>20, <1>21 DEF RunIInv


-----------------------------------------------------------------------------
\* The number of chunks depends on the systems and the store.
LEMMA SameDemand ==
  ASSUME systems' = systems, chunkCount' = chunkCount
  PROVE  Len(UniqueGroups)' = Len(UniqueGroups) /\ ChunksOfAll' = ChunksOfAll
<1>1. UniqueGroups' = UniqueGroups
  BY SameSystems
<1>2. ChunksOfAll' = ChunksOfAll
  BY DEF ChunksOfAll, ChunksOfSystem
<1> QED
  BY <1>1, <1>2

\* There are no more arguments in the buffer than groups with a task and twice
\* the tasks on chunks.
LEMMA SpaceOfRun ==
  ASSUME Shape, RunIInv
  PROVE  /\ IsFiniteSet(MadeTasks) /\ Cardinality(MadeTasks) \in Nat
         /\ Cardinality(MadeTasks) <= ChunksOfAll /\ ChunksOfAll \in Nat
         /\ currentBufferIndex = AddedNumber + 2 * Cardinality(MadeTasks)
         /\ \A w \in AllTasks \ MadeTasks : Cardinality(MadeTasks) + 1 <= ChunksOfAll
<1>1. IsFiniteSet(AllTasks) /\ Cardinality(AllTasks) = ChunksOfAll /\ ChunksOfAll \in Nat
  BY AllTasksCounted DEF Shape
<1>2. MadeTasks \subseteq AllTasks
  BY DEF MadeTasks
<1>3. IsFiniteSet(MadeTasks) /\ Cardinality(MadeTasks) <= ChunksOfAll
  BY <1>1, <1>2, FS_Subset
<1>4. Cardinality(MadeTasks) \in Nat
  BY <1>3, FS_CardinalityType
<1>5. ASSUME NEW w \in AllTasks \ MadeTasks PROVE Cardinality(MadeTasks) + 1 <= ChunksOfAll
  <2>1. MadeTasks \union {w} \subseteq AllTasks
    BY <1>2
  <2>2. Cardinality(MadeTasks \union {w}) = Cardinality(MadeTasks) + 1
    BY <1>3, FS_AddElement
  <2>3. Cardinality(MadeTasks \union {w}) <= Cardinality(AllTasks)
    BY <1>1, <2>1, FS_Subset
  <2> QED BY <1>1, <2>2, <2>3
<1> QED
  BY <1>1, <1>3, <1>4, <1>5 DEF RunIInv, SpaceCounted

LEMMA AddGroupTaskOverflow ==
  ASSUME Shape, RunIInv, AddGroupTask, ub'
  PROVE  OverflowOnlyByDemand'
<1>1. PICK ok \in BOOLEAN :
        /\ Allocate(GroupArg(main.groups[main.at]), ok)
        /\ ub' <=> (~ok \/ main.at > GroupCounters)
  BY AddGroupTaskShape
<1>2. main.at \in 1 .. Len(main.groups)
  BY AddGroupTaskTypes
<1>3. systems' = systems /\ chunkCount' = chunkCount /\ main.phase = "adding"
  BY DEF AddGroupTask, clientVars, storeVars
<1>4. main.groups = UniqueGroups /\ main.at \in Nat /\ Len(main.groups) \in Nat
  BY <1>3 DEF Shape, GroupsListed, RunFits
<1>5. main.at <= Len(UniqueGroups) /\ Len(UniqueGroups) \in Nat
  BY <1>2, <1>4
<1>6. CASE main.at > GroupCounters
  <2>1. Len(UniqueGroups) > GroupCounters
    BY <1>4, <1>5, <1>6, SchedulerConstants
  <2> QED BY <2>1, <1>3, SameDemand DEF OverflowOnlyByDemand
<1>7. CASE ~ok
  <2>1. PICK n, m : n = Cardinality(MadeTasks) /\ m = ChunksOfAll
    OBVIOUS
  <2>2. n \in Nat /\ m \in Nat /\ n <= m /\ currentBufferIndex = AddedNumber + 2 * n
    BY <2>1, SpaceOfRun
  <2>3. currentBufferIndex' = currentBufferIndex + 1 /\ ~ (currentBufferIndex' <= BufferSize)
    <3>1. GroupArg(main.groups[main.at]).kind = "group"
      BY DEF GroupArg
    <3> QED BY <1>1, <1>7, <3>1, ArgSizes DEF Allocate
  <2>4. AddedNumber = main.at - 1
    BY <1>3 DEF AddedNumber
  <2>5. Len(UniqueGroups) + 2 * m > BufferSize
    BY <1>4, <1>5, <2>2, <2>3, <2>4, SchedulerConstants
  <2> QED BY <2>1, <2>5, <1>3, SameDemand DEF OverflowOnlyByDemand
<1> QED
  BY <1>1, <1>6, <1>7

LEMMA AddChunkTaskOverflow ==
  ASSUME Shape, RunIInv, NEW i \in DOMAIN fibers, AddChunkTask(i), ub'
  PROVE  OverflowOnlyByDemand'
<1>1. PICK ok \in BOOLEAN :
        /\ \E n : Allocate(JobArg(fibers[i].pos[1], fibers[i].pos[2], n), ok)
        /\ ub' = ~ok
  BY DEF AddChunkTask
<1>2. systems' = systems /\ chunkCount' = chunkCount /\ Len(fibers[i].made) < fibers[i].chunks
  BY DEF AddChunkTask, clientVars, storeVars
<1>3. currentBufferIndex' = currentBufferIndex + 2 /\ ~ (currentBufferIndex' <= BufferSize)
  <2>1. ~ok
    BY Zenon, <1>1
  <2>2. PICK a, n : a = JobArg(fibers[i].pos[1], fibers[i].pos[2], n) /\ Allocate(a, ok)
    BY <1>1
  <2>3. a.kind = "chunk"
    BY <2>2 DEF JobArg
  <2> QED BY <2>1, <2>2, <2>3, ArgSizes DEF Allocate
<1>4. PICK n, m : n = Cardinality(MadeTasks) /\ m = ChunksOfAll
  OBVIOUS
<1>5. \E w \in AllTasks : w \notin MadeTasks
  BY <1>2, NextTask
<1>6. n \in Nat /\ m \in Nat /\ n + 1 <= m /\ currentBufferIndex = AddedNumber + 2 * n
  BY <1>4, <1>5, SpaceOfRun
<1>7. main.groups = UniqueGroups /\ Len(main.groups) \in Nat /\ main.at \in Nat
  BY GroupOfFiber DEF Shape, GroupsListed, RunFits
<1>8. AddedNumber \in Int /\ AddedNumber <= Len(UniqueGroups)
  <2>1. CASE main.phase = "adding"
    <3>1. main.at \in 1 .. Len(main.groups)
      BY <2>1 DEF Shape, GroupsListed
    <3> QED BY <2>1, <3>1, <1>7 DEF AddedNumber
  <2>2. CASE main.phase # "adding"
    BY <2>2, <1>7 DEF AddedNumber
  <2> QED BY <2>1, <2>2
<1>9. Len(UniqueGroups) + 2 * m > BufferSize
  BY <1>3, <1>6, <1>7, <1>8, SchedulerConstants
<1> QED
  BY <1>2, <1>4, <1>9, SameDemand DEF OverflowOnlyByDemand

-----------------------------------------------------------------------------
\* The invariant holds initially.
LEMMA SchedulerInit ==
  ASSUME Init
  PROVE  IInv
<1>1. /\ main.phase = "idle" /\ main = Idle /\ Len(main.groups) = 0 /\ 1 .. Len(main.groups) = {}
      /\ queue = {} /\ running = {} /\ DOMAIN fibers = {} /\ DOMAIN processed = {}
      /\ currentBufferIndex = 0 /\ ~ub
      /\ \A k \in 1 .. GroupCounters : groupCounters[k] = 0
  BY DEF Init, Idle
<1>2. ClientFits
  <2>1. << >> \in Seq([class : Classes, group : Nat]) /\ 0 \in Nat /\ {TRUE, FALSE} \subseteq BOOLEAN
    OBVIOUS
  <2> QED BY <2>1 DEF Init, ClientFits
<1>3. RunFits
  <2>1. argBuffer \in [0 .. BufferSize - 1 -> Args]
    BY ArgKinds DEF Init
  <2>2. main \in [phase : {"idle", "adding", "waiting"}, groups : Seq(Nat), at : Nat]
    BY DEF Init, Idle
  <2>3. fibers \in [DOMAIN fibers -> Fiber]
    BY DEF Init
  <2> QED BY <1>1, <2>1, <2>2, <2>3, FS_EmptySet DEF RunFits, Init
<1>4. IdleIsClean /\ GroupsListed
  BY <1>1 DEF IdleIsClean, GroupsListed
<1>5. GroupsCounted /\ ArgumentsHeld /\ FibersInJobs /\ OpenCounted
  BY <1>1 DEF GroupsCounted, ArgumentsHeld, FibersInJobs, OpenCounted
<1>6. MadeTasks = {} /\ DoneTasks = {} /\ AddedNumber = 0
  BY <1>1 DEF MadeTasks, DoneTasks, AddedNumber
<1>7. DoneOnce
  BY <1>1, <1>6 DEF DoneOnce
<1>8. SpaceCounted /\ AddedNumber <= GroupCounters
  BY <1>1, <1>6, FS_EmptySet, SchedulerConstants DEF SpaceCounted
<1>9. OverflowOnlyByDemand
  BY <1>1 DEF OverflowOnlyByDemand
<1> QED
  BY <1>2, <1>3, <1>4, <1>5, <1>7, <1>8, <1>9 DEF IInv, RunIInv

\* Every step keeps it.
LEMMA SchedulerStutter ==
  ASSUME IInv, UNCHANGED vars
  PROVE  IInv'
<1>1. /\ systems' = systems /\ currentSystemGroupIndex' = currentSystemGroupIndex
      /\ singleThreadedMode' = singleThreadedMode /\ currentBufferIndex' = currentBufferIndex
      /\ argBuffer' = argBuffer /\ groupCounters' = groupCounters /\ main' = main
      /\ queue' = queue /\ fibers' = fibers /\ running' = running /\ chunkCount' = chunkCount
      /\ recorded' = recorded /\ processed' = processed /\ ub' = ub
  BY DEF vars
<1>2. Shape
  BY DEF IInv, Shape
<1>3. ClientFits' /\ RunFits'
  BY <1>1, <1>2 DEF Shape, ClientFits, RunFits
<1>4. IdleIsClean'
  BY <1>1, <1>2 DEF Shape, IdleIsClean
<1>5. GroupsListed'
  BY <1>1, <1>2, SameSystems DEF Shape, GroupsListed
<1>6. \A k : Added(k)' <=> Added(k)
  BY <1>1 DEF Added
<1>7. GroupsCounted'
  BY <1>1, <1>2, <1>6 DEF Shape, GroupsCounted
<1>8. \A o, a : Holds(o, a)' <=> Holds(o, a)
  BY <1>1, SameBuffer
<1>9. ArgumentsHeld'
  <2>1. \A t \in queue' : Holds(t.offset, t.arg)'
    BY <1>1, <1>2, <1>8 DEF Shape, ArgumentsHeld
  <2> QED BY <1>1, <1>2, <1>8, <2>1, StillHeld
<1>10. FibersInJobs'
  <2>1. ASSUME NEW k \in DOMAIN fibers' PROVE InJob(k, fibers[k])'
    <3>1. PICK x : x = fibers[k]
      OBVIOUS
    <3>2. InJob(k, x)
      BY <1>1, <1>2, <3>1 DEF Shape, FibersInJobs
    <3>3. InJob(k, x)'
      BY <3>2, <1>1, SameJob
    <3> QED BY <3>1, <3>3, <1>1
  <2> QED BY <2>1 DEF FibersInJobs
<1>11. \A k : Open(k)' = Open(k)
  BY <1>1 DEF Open
<1>12. OpenCounted'
  <2>1. /\ queue' \intersect running' = {}
        /\ \A t \in queue' \union running' : t.arg.kind = "chunk" => t \in queue \union running
    BY <1>1, <1>2 DEF Shape, OpenCounted
  <2> QED BY <1>1, <1>2, <1>11, <2>1, SameOpenCounted
<1>13. \A k : Ended(k)' <=> Ended(k)
  BY <1>1 DEF Ended, Added
<1>14. \A k, w : (IsMade(k, w)' <=> IsMade(k, w)) /\ (IsDone(k, w)' <=> IsDone(k, w))
  BY <1>1, <1>11, <1>13, SameGroup
<1>15. MadeTasks' = MadeTasks /\ DoneTasks' = DoneTasks
  BY <1>1, <1>14, SameTasks
<1>16. RunIInv => RunIInv'
  BY <1>1, <1>15, SameCounts
<1>17. OverflowOnlyByDemand'
  BY <1>1, SameDemand DEF IInv, OverflowOnlyByDemand
<1> QED
  BY <1>1, <1>3, <1>4, <1>5, <1>7, <1>9, <1>10, <1>12, <1>16, <1>17 DEF IInv

LEMMA SchedulerStep ==
  ASSUME IInv, Next
  PROVE  IInv'
<1>1. Shape
  BY DEF IInv, Shape
<1>2. ASSUME ~ub PROVE RunIInv
  BY <1>2 DEF IInv
<1>4. ASSUME Shape', ~ub', RunIInv' PROVE IInv'
  BY <1>4 DEF IInv, Shape, OverflowOnlyByDemand
<1>5. ASSUME Shape', ub', OverflowOnlyByDemand' PROVE IInv'
  BY <1>5 DEF IInv, Shape
<1>6. CASE ClientStep
  <2>1. ~ub'
    BY <1>1, <1>6, ClientTypes
  <2> QED BY <1>1, <1>4, <1>6, <2>1, ClientShape, ClientRun
<1>7. CASE AddGroupTask
  <2>1. ~ub
    BY <1>7 DEF AddGroupTask
  <2>2. Shape'
    BY <1>1, <1>7, AddGroupTaskShape
  <2>3. CASE ub'
    BY <1>1, <1>2, <1>5, <1>7, <2>1, <2>2, <2>3, AddGroupTaskOverflow
  <2>4. CASE ~ub'
    BY <1>1, <1>2, <1>4, <1>7, <2>1, <2>2, <2>4, AddGroupTaskRun
  <2> QED BY <2>3, <2>4
<1>8. CASE FinishRun
  <2>1. ~ub'
    BY <1>8 DEF FinishRun
  <2> QED BY <1>1, <1>4, <1>8, <2>1, FinishRunShape, FinishRunRun
<1>9. ASSUME NEW t \in queue, StartGroup(t) PROVE IInv'
  <2>1. ~ub /\ ~ub'
    BY <1>9 DEF StartGroup
  <2> QED BY <1>1, <1>2, <1>4, <1>9, <2>1, StartGroupShape, StartGroupRun
<1>10. ASSUME NEW t \in queue, StartChunk(t) PROVE IInv'
  <2>1. ~ub /\ ~ub'
    BY <1>10 DEF StartChunk
  <2> QED BY <1>1, <1>2, <1>4, <1>10, <2>1, StartChunkShape, StartChunkRun
<1>11. ASSUME NEW i \in DOMAIN fibers, BeginJob(i) PROVE IInv'
  <2>1. ~ub /\ ~ub'
    BY <1>11 DEF BeginJob
  <2> QED BY <1>1, <1>2, <1>4, <1>11, <2>1, BeginJobShape, BeginJobRun
<1>12. ASSUME NEW i \in DOMAIN fibers, AddChunkTask(i) PROVE IInv'
  <2>1. ~ub
    BY <1>12 DEF AddChunkTask
  <2>2. Shape'
    BY <1>1, <1>12, AddChunkTaskShape
  <2>3. CASE ub'
    BY <1>1, <1>2, <1>5, <1>12, <2>1, <2>2, <2>3, AddChunkTaskOverflow
  <2>4. CASE ~ub'
    BY <1>1, <1>2, <1>4, <1>12, <2>1, <2>2, <2>4, AddChunkTaskRun
  <2> QED BY <2>3, <2>4
<1>13. ASSUME NEW i \in DOMAIN fibers, EndJob(i) PROVE IInv'
  <2>1. ~ub /\ ~ub'
    BY <1>13 DEF EndJob
  <2> QED BY <1>1, <1>2, <1>4, <1>13, <2>1, EndJobShape, EndJobRun
<1>14. ASSUME NEW i \in DOMAIN fibers, EndGroup(i) PROVE IInv'
  <2>1. ~ub /\ ~ub'
    BY <1>14 DEF EndGroup
  <2> QED BY <1>1, <1>2, <1>4, <1>14, <2>1, EndGroupShape, EndGroupRun
<1>15. ASSUME NEW t \in running, EndChunk(t) PROVE IInv'
  <2>1. ~ub /\ ~ub'
    BY <1>15 DEF EndChunk
  <2> QED BY <1>1, <1>2, <1>4, <1>15, <2>1, EndChunkShape, EndChunkRun
<1> QED
  BY <1>6, <1>7, <1>8, <1>9, <1>10, <1>11, <1>12, <1>13, <1>14, <1>15 DEF Next, RunStep

\* The inductive invariant of the scheduler.
THEOREM SchedulerInvariant == Spec => []IInv
<1>1. Init => IInv
  BY SchedulerInit
<1>2. IInv /\ [Next]_vars => IInv'
  BY SchedulerStep, SchedulerStutter
<1> QED
  BY <1>1, <1>2, PTL DEF Spec


-----------------------------------------------------------------------------
\* The task of a chunk says which.
LEMMA ChunkTaskFields ==
  ASSUME NEW i, NEW c
  PROVE  /\ ChunkTask(i, c).arg.system = fibers[i].pos[1] /\ ChunkTask(i, c).arg.job = fibers[i].pos[2]
         /\ ChunkTask(i, c).arg.chunk = c
<1>1. PICK p, q : p = fibers[i].pos[1] /\ q = fibers[i].pos[2]
  OBVIOUS
<1>2. ChunkTask(i, c).arg = JobArg(p, q, c)
  BY <1>1 DEF ChunkTask
<1> QED
  BY <1>1, <1>2, JobArgs

\* The variables have the types of the code's, and no counter of tasks, an
\* unsigned number there, goes below 0 or above the number of tasks.
THEOREM SchedulerTypeCorrectness == Spec => []TypeOK
<1>1. ASSUME IInv PROVE TypeOK
  <2>1. Shape /\ ClientFits /\ RunFits
    BY <1>1 DEF IInv, Shape
  <2>2. ASSUME NEW i \in DOMAIN fibers PROVE fibers[i].counter \in 0 .. fibers[i].chunks
    <3>1. fibers[i].chunks \in Nat /\ fibers[i].counter \in Nat
      BY <2>1, FiberJob
    <3>2. /\ \A t \in Open(i) : \E c \in 1 .. fibers[i].chunks : t = ChunkTask(i, c)
          /\ fibers[i].counter = Cardinality(Open(i))
      BY <2>1 DEF Shape, OpenCounted
    <3>3. \A c : ChunkTask(i, c).arg.chunk = c
      BY ChunkTaskFields
    <3> DEFINE f == [t \in Open(i) |-> t.arg.chunk]
    <3>4. f \in Injection(Open(i), 1 .. fibers[i].chunks)
      <4>1. f \in [Open(i) -> 1 .. fibers[i].chunks]
        BY <3>2, <3>3
      <4>2. \A t, u \in Open(i) : f[t] = f[u] => t = u
        BY <3>2, <3>3
      <4> HIDE DEF f
      <4> QED BY <4>1, <4>2 DEF Injection, IsInjective
    <3>5. PICK n, S : n \in Nat /\ n = fibers[i].chunks /\ S = Open(i)
      BY <3>1
    <3>6. IsFiniteSet(1 .. n) /\ Cardinality(1 .. n) = n
      <4>1. n \in Int /\ 1 \in Int /\ (1 > n <=> n = 0)
        BY <3>5
      <4> QED BY <4>1, FS_Interval
    <3>7. PICK g : g \in Injection(S, 1 .. n)
      BY <3>4, <3>5
    <3>8. Cardinality(S) <= Cardinality(1 .. n)
      BY <3>6, <3>7, FS_Injection
    <3> QED BY <3>1, <3>2, <3>5, <3>6, <3>8
  <2>3. main.phase \in {"idle", "adding", "waiting"}
    BY <2>1 DEF RunFits
  <2>4. groupCounters \in [1 .. GroupCounters -> 0 .. 1]
    <3>1. 0 .. 1 = {0, 1}
      OBVIOUS
    <3> QED BY <2>1, <3>1 DEF RunFits
  <2>5. {singleThreadedMode, recorded, ub} \subseteq BOOLEAN
    BY Zenon, <2>1 DEF ClientFits
  <2> QED BY <2>1, <2>2, <2>3, <2>4, <2>5 DEF TypeOK, ClientFits, RunFits
<1>2. IInv => TypeOK
  BY <1>1
<1> QED
  BY <1>2, SchedulerInvariant, PTL

\* The bytes that a task's argument points at are its own until it has read
\* them, or for a group until it ends.
THEOREM ArgumentsStayIntact == Spec => []ArgumentsIntact
<1>1. IInv => ArgumentsIntact
  BY DEF IInv, ArgumentsHeld, Holds, ArgumentsIntact
<1> QED
  BY <1>1, SchedulerInvariant, PTL

\* A task on a chunk exists only while its group waits for the job it belongs
\* to, and is the only one on its chunk.
THEOREM JobsStayInOrder == Spec => []JobsInOrder
<1>1. ASSUME IInv PROVE JobsInOrder
  <2>1. Shape
    BY <1>1 DEF IInv, Shape
  <2>2. \A u \in running : u.arg.kind = "chunk"
    BY <2>1 DEF Shape, GroupsCounted
  <2>3. ASSUME NEW t \in {q \in queue : q.arg.kind = "chunk"} \union running
        PROVE  /\ t.counter \in DOMAIN fibers
               /\ fibers[t.counter].state = "waiting"
               /\ fibers[t.counter].pos = <<t.arg.system, t.arg.job>>
               /\ \A u \in running : u # t /\ u.counter = t.counter => u.arg.chunk # t.arg.chunk
    <3>1. t \in queue \union running /\ t.arg.kind = "chunk"
      BY <2>2
    <3>2. /\ t.counter \in DOMAIN fibers /\ fibers[t.counter].state = "waiting"
          /\ \E c : t = ChunkTask(t.counter, c)
      BY <2>1, <3>1, OpenTask
    <3>3. PICK i \in DOMAIN fibers : i = t.counter
      BY <3>2
    <3>4. PICK c : t = ChunkTask(i, c)
      BY <3>2, <3>3
    <3>6. /\ \A d : ChunkTask(i, d).arg.chunk = d
          /\ t.arg.system = fibers[i].pos[1] /\ t.arg.job = fibers[i].pos[2]
      BY <3>4, ChunkTaskFields
    <3>7. fibers[i].pos = <<t.arg.system, t.arg.job>>
      <4>1. fibers[i].pos \in Nat \X Nat
        BY <2>1, FiberJob
      <4> QED BY <3>6, <4>1
    <3>8. ASSUME NEW u \in running, u # t, u.counter = t.counter PROVE u.arg.chunk # t.arg.chunk
      <4>1. \E d : u = ChunkTask(i, d)
        BY <2>1, <2>2, <3>3, <3>8, OpenTask
      <4> QED BY <3>4, <3>6, <3>8, <4>1
    <3> QED BY <3>2, <3>3, <3>7, <3>8
  <2> QED BY <2>3 DEF JobsInOrder
<1>2. IInv => JobsInOrder
  BY <1>1
<1> QED
  BY <1>2, SchedulerInvariant, PTL

\* The arrays of runSystems are left only by a run that asks for more than they
\* hold, whatever the runs before it did.
THEOREM OverflowIsDemanded == Spec => []OverflowOnlyByDemand
<1>1. IInv => OverflowOnlyByDemand
  BY DEF IInv
<1> QED
  BY <1>1, SchedulerInvariant, PTL

\* When runSystems ends, each job was called once for each of its chunks and no
\* task is left; only then does the store change.
THEOREM CommandsComeLast == Spec => CommandsAfterAllJobs
<1> DEFINE All == /\ queue = {} /\ fibers = << >> /\ running = {}
                  /\ \A s \in DOMAIN systems, j \in JobNumbers, c \in 1 .. MaxChunks :
                       j \in DOMAIN JobsOf[systems[s].class] /\ c <= chunkCount[QueryOf(<<s, j>>)] =>
                         <<s, j, c>> \in DOMAIN processed /\ processed[<<s, j, c>>] = 1
<1>1. ASSUME IInv, FinishRun PROVE All
  <2>1. Shape /\ RunIInv /\ GroupsDone /\ main.phase = "waiting"
    BY <1>1 DEF IInv, Shape, FinishRun
  <2>2. DOMAIN fibers = {} /\ queue = {} /\ running = {}
    BY <2>1, NothingLeft
  <2>3. fibers = << >>
    BY <2>1, <2>2 DEF Shape, RunFits
  <2>4. \A k \in 1 .. GroupCounters : groupCounters[k] = 0
    BY <2>1 DEF Shape, RunFits, GroupsDone
  <2>5. Len(main.groups) \in Nat /\ Len(main.groups) <= GroupCounters
    BY <2>1 DEF Shape, RunFits, RunIInv, AddedNumber
  <2>6. \A k \in 1 .. Len(main.groups) : Ended(k)
    BY <2>1, <2>4, <2>5, SchedulerConstants DEF Ended, Added
  <2>7. ASSUME NEW w \in AllTasks PROVE w \in DoneTasks
    <3>1. w[1] \in Positions
      BY <2>1, TaskParts DEF Shape
    <3>2. \E k \in 1 .. Len(main.groups) : systems[w[1][1]].group = main.groups[k]
      BY <2>1, <3>1, OneGroup
    <3> QED BY <2>6, <3>2 DEF DoneTasks, IsDone, Past
  <2>8. ASSUME NEW s \in DOMAIN systems, NEW j \in JobNumbers, NEW c \in 1 .. MaxChunks,
               j \in DOMAIN JobsOf[systems[s].class], c <= chunkCount[QueryOf(<<s, j>>)]
        PROVE  <<s, j, c>> \in DOMAIN processed /\ processed[<<s, j, c>>] = 1
    <3>1. <<<<s, j>>, c>> \in AllTasks
      BY <2>8 DEF AllTasks, Positions
    <3>2. <<<<s, j>>, c>> \in DoneTasks
      BY <2>7, <3>1
    <3> DEFINE w == <<<<s, j>>, c>>
    <3>3. w[1][1] = s /\ w[1][2] = j /\ w[2] = c
      OBVIOUS
    <3> HIDE DEF w
    <3>4. <<s, j, c>> \in {<<v[1][1], v[1][2], v[2]>> : v \in DoneTasks}
      BY <3>2, <3>3 DEF w
    <3> QED BY <2>1, <3>4 DEF RunIInv, DoneOnce
  <2> QED BY <2>2, <2>3, <2>8
<1> DEFINE A == main.phase # "idle" /\ (main'.phase = "idle" \/ chunkCount' # chunkCount) => All
<1>2. ASSUME IInv, main.phase # "idle", main'.phase = "idle" \/ chunkCount' # chunkCount, Next
      PROVE  FinishRun
  <2>1. ~ ClientStep
    BY <1>2, ClientTypes DEF IInv, Shape, Idle
  <2>2. ASSUME AddGroupTask PROVE FALSE
    <3>1. Shape
      BY <1>2 DEF IInv, Shape
    <3>2. main'.phase = "adding" \/ main'.phase = "waiting"
      BY <2>2, <3>1, AddGroupTaskTypes
    <3>3. chunkCount' = chunkCount
      BY <2>2 DEF AddGroupTask, storeVars
    <3> QED BY <1>2, <3>2, <3>3
  <2>3. ASSUME main' = main, chunkCount' = chunkCount PROVE FALSE
    BY <1>2, <2>3
  <2>4. \A t \in queue : (StartGroup(t) \/ StartChunk(t)) => main' = main /\ chunkCount' = chunkCount
    BY DEF StartGroup, StartChunk, storeVars
  <2>5. \A i \in DOMAIN fibers : (BeginJob(i) \/ AddChunkTask(i) \/ EndJob(i) \/ EndGroup(i)) =>
          main' = main /\ chunkCount' = chunkCount
    BY DEF BeginJob, AddChunkTask, EndJob, EndGroup, storeVars
  <2>6. \A t \in running : EndChunk(t) => main' = main /\ chunkCount' = chunkCount
    BY DEF EndChunk
  <2> QED BY <1>2, <2>1, <2>2, <2>3, <2>4, <2>5, <2>6 DEF Next, RunStep
<1>3. IInv /\ [Next]_vars => [A]_vars
  <2>1. ASSUME IInv, Next PROVE A
    <3> HIDE DEF All
    <3> QED BY <2>1, <1>1, <1>2
  <2> HIDE DEF A
  <2> QED BY <2>1
<1>4. [][A]_vars => CommandsAfterAllJobs
  BY DEF CommandsAfterAllJobs
<1> HIDE DEF A
<1> QED
  BY <1>3, <1>4, SchedulerInvariant, PTL DEF Spec
=============================================================================
