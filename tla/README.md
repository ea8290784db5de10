# Verification of the Ecs library

This directory holds TLA+ models of the entity component system in
`src/Ecs`, the TLC configurations that check them on small instances, and
proofs, checked by TLAPS, of what holds for every instance.

    tlc -config MCEcs_moves.cfg MCEcs      # check one run
    tlapm EcsProofs.tla                    # check the proofs

## 1. The system

The library is a set of headers; a client is a C++ program that includes
`view.h` and `scheduler.h` (the only one here is `src/EcsTest/EcsTest.cpp`).

| Component | Source | State | Operations |
|---|---|---|---|
| Component types | `ecs_util.h` | descriptor of each type: kind, size, index; a `typeIdList` is a bit field over them | set operations on lists, `createTypeListStateComponentsOnly`, `createTypeListWithOnlySavedComponents` |
| Chunk | `component_array.h` | a 16 KB buffer with the ids, one array per type with data, one value per shared type; `size`, `entityCapacity` | `createEntity`, `allocateEntity`, `deleteEntity`, `moveEntityFromOtherChunk`, `save`, `load` |
| Archetype | `archetype.h`, `archetype_impl.h` | `containedTypes_`, the slots `chunks` (may be empty), `currentlyFilledChunkIndex` | `createEntity`, `allocateEntity`, `moveFromEntity`, `deleteEntity`, `setSharedComponent`, `save`, `load`, `createEntityFromStream` |
| Ecs entity store | `ecs.h`, `ecs_impl.h` | `archetypes_` (may hold empty slots), `entityDataIndexMap_`, `nextEntityId` | `createEntity` (two forms), `deleteEntity`, `addComponent`, `deleteComponents`, `changeComponents`, `setComponent`, `setSharedComponent`, reads |
| Deferred commands | `entitycommand.h`, `ecs.h`, `ecs_impl.h`, `view.h` | `entityCommandBuffer_` under a mutex, `nextTempEntityId` (atomic), `temporaryEntityIdRemapping_` | record a command, `executeCommmandBuffer` |
| Views and queries | `view.h`, `ecs.h` | the query and a snapshot of chunks with their entity counts | `initializeData`, iterate, `filterShared`, `with`, `exclude` |
| Type locks | `ecs_impl.h`, `view.h` | `lockedForRead`, `lockedForWrite` | `lockUsedTypes`, `unlockUsedTypes` |
| Scheduler | `scheduler.h` | `systems`, group counters, `argBuffer` and its index, mode | `scheduleSystem`, `runSystems`, `scheduleJob`, `addTask`, `waitCounter` |
| Thread pool | `thread_pool.h` | `tasks`, `stop`, workers | `enqueue`, worker loop, destruction |
| Save, load, prefabs | `ecs_impl.h`, `archetype_impl.h`, `component_array.h`, `ecs_util.h` | a stream | `save`, `load`, `savePrefab`, `createEntityFromPrefabStream` |
| Type registration | `ecs.h` | `typeDescriptors_`, `componentArrayFactory_`, and an index per type that is static in the process | `registerType`, `getTypeId_impl` |
| ftl (vendored) | `dependencies/ftl/include/ftl/*.h` | the queue of tasks of each thread, counters with the fibers that wait for them, mutexes of fibers | `Push`, `Pop`, `Steal`; `FetchSub`, `CompareExchange`, `WaitForCounter`; `lock`, `unlock` |

**How they interact.** All calls are synchronous. An Ecs owns archetypes, an
archetype owns chunks, a chunk owns arrays; `entityDataIndexMap_` points back
from an id to archetype, chunk and element. Whatever moves an entity in a
chunk reports the id it moved upwards as a return value (`Chunk::deleteEntity`
to `Archetype::deleteEntity` to `Ecs::deleteEntity`), and only the Ecs rewrites
the map. The scheduler runs the jobs of systems as tasks of the vendored `ftl`
fiber scheduler, one task per chunk of a view; jobs must not call the
operations above, they record commands, and `runSystems` executes these when
all tasks have ended. The thread pool is used by no other file.

**What is hard.** The store is sequential, but its representation is shared by
all entities: each deletion moves another entity, each move between archetypes
makes and frees chunks and archetypes, and every index held in the map must
survive. A fault shows only after a sequence of legal calls on several
entities. The concurrent parts are the command buffer (recording order, ids
that exist only later, entities deleted earlier in the buffer), the scheduler
(groups of systems that run together, waiting inside a task, the argument
buffer), the thread pool, and below the scheduler the lock-free queue and the
counters of `ftl`. Nothing persists between runs but a saved stream,
and a failed `save` or `load` is not handled.

**What makes each part correct.**

* Chunk: all arrays as long as the list of ids; no gap; never over capacity; a
  swap keeps values with their id.
* Archetype: the chunk chosen has room and the right shared values; freed slots
  do not shift the others and are reclaimed.
* Ecs: map and chunks agree exactly; one archetype for each set of types; an
  operation on one entity has no effect on another; state components outlive
  their entity.
* Commands: each temporary id becomes one entity; commands of one job keep their
  order; a command for a dead entity has no effect (`setSharedComponent` has one:
  3.1).
* View: an iteration visits each entity that matched once, whatever the client
  creates and sets meanwhile, if no entity left its place.
* Scheduler: every job of every scheduled system runs exactly once, systems of a
  group in order, and before `runSystems` returns; the commands after them.
* Thread pool: every accepted task runs once, and destruction ends.
* Save/load: what is loaded is what was saved, without the unsaved types.
* Types: an index means one type in every Ecs of the process; bit fields of
  different widths behave as sets; the arrays of a chunk fit its buffer.
* ftl: no task of a queue is lost or run twice; no fiber sleeps for ever; a
  counter is not destroyed under a call.

## 2. The modules

| Module | Models |
|---|---|
| `ComponentTypes` | the types, their kinds, and the lists of types derived from a list |
| `Chunk` | a chunk as a record `[ids, comps, shared]` and one operator per operation |
| `Archetype` | an archetype as a record `[types, chunks, filled]`: the four searches for a chunk, creation, deletion, moves |
| `Ecs` | the entity store: the variables, one action per client operation, the properties |
| `EntityStore` | what the store promises its clients: entities as functions from types to values |
| `CommandBuffer` | commands recorded by concurrent jobs, temporary ids, `executeCommmandBuffer` |
| `View` | a view on `Ecs`: the query, the list of chunks it takes once, the iterator, and the store's operations between its steps |
| `Scheduler` | systems, groups, jobs and tasks on chunks, the argument buffer, the counters, the single-threaded mode |
| `SaveLoad` | what a stream holds of a store, of an entity, of a prefab, and what a store makes of it, over `Ecs` |
| `TypeRegistry` | indices of types across the Ecs objects of a process; lists as bit fields with a width; queries |
| `TypeLocks` | the read and write locks of types |
| `ChunkLayout` | capacity and offsets of the arrays in a chunk's buffer, as arithmetic |
| `EcsTypes` | the three together, for one run |
| `ThreadPool` | workers, the queue and its condition variable, `enqueue`, the destructor |
| `WaitFreeQueue`, `Deque` | the queue of a thread of the task scheduler, one access to shared memory at a time, and the double-ended queue it implements |
| `AtomicCounter`, `Fibtex` | counters with waiting fibers, step by step; the mutex built on one, and a main fiber that adds tasks, waits for them and destroys both |
| `Executors` | the pool, the queue and the fibers together, for one run |
| `MCEcs`, `MCCommandBuffer`, `MCView`, `MCScheduler`, `MCSaveLoad`, `MCEcsTypes`, `MCExecutors` | types, kinds, capacities and behaviours of the small instances |
| `Lists` | what loops over lists compute, as folds: the elements kept, a sum |
| `ListProofs` | the lemmas about these folds and about `FlattenSeq`, and induction along a list |
| `EcsProofs` | the proofs about the entity store, in layers |
| `CommandBufferProofs`, `ViewProofs`, `SchedulerProofs`, `SaveLoadProofs`, `ExecutorsProofs`, `EcsTypesProofs` | the proofs about the module each is named after |

`Ecs` extends `Archetype`, which extends `Chunk`, which extends
`ComponentTypes`; `Ecs` instantiates `EntityStore` with a refinement mapping.
`CommandBuffer` instantiates `EntityStore` too, as the store its commands work
on: what the first shows of the storage is what the second builds upon. `View`
and `SaveLoad` extend `Ecs`: they depend on chunks and slots, which
`EntityStore` hides. `Fibtex` extends `AtomicCounter`. `EcsTypes` and `Executors`
each put parts side by side that share no state; a behaviour in which they take
turns says nothing more than one in which only one of them moves, and the
composed next-state relations leave the others at rest (in `EcsTypes`: locks
are taken before the first archetype is made).

**State.** `archetypes` is `archetypes_`, `entityDataIndexMap` is
`entityDataIndexMap_`, `nextEntityId` is itself. Indices count from 1, so the
code's "no chunk" (-1) is 0. An empty `unique_ptr` is `Null`. A `typeIdList` is
the set of its types. The value of a component is a member of `Value`, or
`Uninit` for memory no constructor wrote. `ub` is set by an operation that
would follow a null pointer; nothing happens afterwards.

**Actions.** One per operation a client can call, the whole operation in one
step (a client calls from one thread; no callback runs in between). Since the
operations of the code call one another (`addComponent` calls
`changeComponents`, which calls `deleteEntity` between the two halves of a
move), each is an operator from a store to a store, and the action applies it to
the current one. The order of the calls is that of the code: in `MoveEntity`
the entity is first in both places, then removed from the old one, which may
free chunk and archetype and which erases the map entry, then indexed.
`SetIndex` includes the five refusals of `setEntityIndexMap`.

Details of the code the model keeps because they could be wrong:
`currentlyFilledChunkIndex` outlives the chunk it names; default creation puts
an entity into the chunk filled last, whatever its shared values; the search for
a moved entity makes a chunk in *every* empty slot (`archetype_impl.h:180-188`
has no `break`); `setSharedComponent` never reuses an empty slot; values given
at creation are written for `Regular` and shared components only.

**Commands.** `entityCommandBuffer` is the buffer, `executing` the position of
the loop in `executeCommmandBuffer` (0 while jobs may run), and
`temporaryEntityIdRemapping` the map, in which `operator[]` leaves zeros.
`View::createEntity` is two steps of a job, the atomic `fetch_add` and the append
under the mutex, between which others record; the id is known to clients (and
stays known for ever) after the second. Each `execute` is one action. The
history variable `made` pairs temporary ids with entities and guards nothing.
Jobs do not run while commands are executed: `runSystems` waits for all counters
first (`StartExecution`). A command that adds a shared type an entity does not
have may set `ub`, as in `Ecs`. A command that sets the shared component of an id no
entity has, or of a temporary id that is not in the map, reaches the
`operator[]` of `Ecs::setSharedComponent` (`ExecuteSetSharedOfGone`): the id gets the first place of the
store, and the shared value of the entity there changes, if it has the type, or a null pointer is
followed. Which entity is first, `EntityStore` does not know, so that it may be any
(`EntityStore!SetSharedOfGoneId`; the run `store_state` shows that the storage does no more than this).
From then on two ids have one place (`aliased`), and what other calls do to the entities is not
followed (`Unfollowed`): temporary ids and the order of commands still are.

**Views.** `queriedChunks` is the snapshot, `iter` the iterator (position 0 when
it is past the end), `visited` and `promised` are histories: the ids looked at,
and those that matched when the view was initialized. The read of the id under
the iterator is part of the step that puts it there, so that a read in the wrong
chunk shows. `StoreOperation` is any operation of `Ecs`. The code has no guard
against a client that frees a chunk of a view it goes on using; a step by which an
entity leaves its place therefore ends the view (`Displaces`). Pointers that may be
null are sets with one element or none.

**Scheduler.** `main` is where `runSystems` is; `queue`, `fibers` and `running` are
tasks of `ftl`: not taken, of groups, on chunks. A group task that waits for its
job lends its thread (`HasFreeThread` counts only those that do not wait).
`argBuffer` holds what was last written at each offset, so that an overlap or a
reuse is seen by the reader. `processed` counts, per job and chunk, the calls of
this run. Leaving `argBuffer` or `groupCounters` sets `ub`.

**Save and load.** A stream is one value: the code looks for no short read or write.
A type is named by its index in the writer, whose order differs from that of the
names; values of types that are not trivially copyable are not written
(`SaveArray`, `WriteElement`). The merging of archetypes, and the renumbering of chunks
in the saved map (`PlacesWritten`), are as in the code. What a save writes is one value computed from
the store (`StoreStream`), and what a load makes of it a fold over the archetypes
in the stream (`LoadArchetypes`), as the loop of the code. The shared value of an
entity that is not the first of its chunk is read behind the array
(`ElementData`): any value.

**Types.** `typeIndex` is the static variable of `getTypeId_impl<T>`, one for the
process. A list is its width in bytes and a set of bits, so that bits outside the
field can be told (`ub`, `InField`). `ChunkLayout` repeats the arithmetic of the
constructor of `Chunk` with its integer divisions. In `TypeLocks` the history
variables `reading` and `writing` say who holds what: the code's lists do not.

**Thread pool.** What a thread does under `queue_mutex` is one action; the
notifications come after the unlock and are others. `wait` may wake spuriously.
Tasks call `enqueue` as well, also while the destructor waits (`Refuse`).

**ftl.** In `WaitFreeQueue` an action reaches to the next access to what others
write or read; thieves may hold an array that was replaced. In `AtomicCounter` a
call enters, accesses the value, wakes fibers and leaves, in four steps;
`Fibtex` adds the loops of `lock`, `lock_spin`, `lock_spin_infinite` and
`try_lock`, and what `scheduleJob` and `waitCounter` do: the main fiber adds the tasks, loads the counter
(`LoadCounter`), and waits for it (`WaitForTasks`) or goes on at once (`SkipWaiting`). Between
these steps, and until it has entered itself in the list of waiting fibers, tasks run, count down
and wake whoever is in the list by then. That tasks are added one after the other shows as
tasks that begin late. The list of waiting fibers, the destructor of a counter, `AddTasks` and
`WaitForCounter` are only declared in the repository; they do what the comments
at their declarations say and are marked external.

**Assumptions.**
* Components have no throwing or observing constructors. An archetype has a
  capacity of at least one (`CapacityAssumption`); a chunk with fewer types holds
  as many entities or more (`CapacityGrows`).
* `setSharedComponent` is called with the id of a live entity, except in the runs
  `shared_of_gone_id` and `store_state` and by deferred commands. Behaviours of `store_state` end with the first such
  call (`SpecUntilGone`).
* No type has an alignment above `MaxAlign`, which the code does not check, and the layout of a
  chunk is aligned relative to its buffer: the buffer itself is aligned for ids only.
* The Ecs objects of a process register types in one common order, as
  `EcsTest.cpp` does, and no type that makes lists a byte wider once there are
  archetypes. With other orders or later registrations `LookupsExact` and
  `ListsAreSets` do not hold; the code does not notice.
* A view is built (`with`, `exclude`) before it is initialized, and ends when an
  entity leaves its place.
* A client releases only type locks it got. Through `View::lockUsedTypes` it
  cannot know them: that function is declared `bool` and returns nothing.
* A reader of a stream has registered every type that occurs in it. A stream with a value that is
  written with more bytes than are read (a component of a prefab that has no data, or is not
  trivially copyable) makes the reader fault: what else it may read is not modelled. Prefabs live
  until the commands that name them are executed.
* Nobody calls `enqueue` from outside while the pool is destroyed, as for any
  destructor.
* Memory is sequentially consistent in `WaitFreeQueue`, `AtomicCounter` and
  `Fibtex`: the orders the code asks of its atomics are not modelled. A counter has slots for
  all fibers that can wait at a time (`FiberSlots`).

## 3. The runs

All runs bound the ids (`MaxId`) and the slots of an archetype (`MaxChunks`);
`CHECK_DEADLOCK FALSE` because a state may have used up both, or set `ub`.
An entity is identified by its id, and ids differ by age (`nextEntityId`), so no
symmetry is declared for ids. The concurrent models stop when all that was to
be done is done, and end in a state without a successor by intent.

| Run | Instance | Shows |
|---|---|---|
| `store_moves` | types `A`, `Tag`; 3 ids; capacity 2 for one type, else 1 | the map is exact, chunks fit, archetypes are distinct |
| `store_content` | types `A`, `Tag`; 3 ids, all of which fit into one chunk | swaps and moves keep values: the store implements `EntityStore` |
| `store_state` | types `S` (State), `Sh` (shared); 2 ids, 2 slots | deletion keeps State components and marks the entity; a second deletion, and removal of the last State component; each operation does what `EntityStore` promises of *it* (`OperationsAsPromised`); a call of `setSharedComponent` with an id that is not in the map does to the store what `commands` supposes of it (`GoneIdAsSupposed`) |
| `store_shared` | types `D` (DontSave), `Sh` (shared); 2 ids, 3 slots; capacity 2 for two types | the searches by shared value, `setSharedComponent`, and what default creation leaves, with empty slots between occupied ones; deletion never follows a null pointer |
| `commands` | 2 jobs, 2 temporary ids, 2 ids, buffers of 2 commands, any number of buffers; a Regular and a shared type | each temporary id is one entity for ever, a command never precedes the creation it names, and changes no entity it does not name, except for a `SetSharedComponent` that names none there is: it changes one other, and no more (`CommandsStayOnTarget`) |
| `views` | types `A`, `Sh`; 2 ids, 3 slots; capacity 1 and 2; the queries for everything and for `Sh` without `A` | loops over all chunks and over one visit every matching entity once and see its components, with creations and settings in between; `getCount` and the tasks of `addTask` agree (`CountExact`) |
| `scheduler` | up to 3 systems of a class with one job and one with two, 2 threads, 2 counters, buffer of 10 units, 2 chunks per query, any number of runs | `ArgumentsIntact`, `JobsInOrder`, `CommandsAfterAllJobs`, `RunsEnd`; arrays overflow only if one run asks for too much. Jobs of different groups may use the same components at the same time: nothing in the code keeps them apart, and no property speaks of it |
| `executors` | pool: 3 workers, 2 clients, 3 tasks. Queue: 2 thieves, 3 items, an array that grows from 1 to 4. Fibers: 3 that lock, each in another way, 2 slots for those that wait, and the main one | see below |
| `save_load` | a type of each kind and a shared one without data, 7 lists of types; 2 ids | what a load makes of every store (`RoundTrip`), when it faults (`LoadFaultsByDontSaveOnly`), and what comes of entities and prefabs sent through a stream (`PrefabCopy`) |
| `ecs_types` | 2 Ecs, 5 types, bytes of 3 bits, 2 archetypes each; chunks of up to 3 types of 22 shapes; 2 clients and 1 type for the locks | `LookupsExact`, `ListsAreSets`, `LayoutFits`, `LocksExclude` |
| `shared_of_gone_id` | types `A`, `Sh`; 3 ids; also calls on deleted ids | **violated**: see 3.1 |
| `add_shared_component` | `A`, `Sh`; 2 ids | **violated**: see 3.1 |

*Why the bounds are enough for the cases that matter.* Three entities in a chunk
distinguish the first, a middle and the last position of a swap; three with
capacity 2 and 1 fill a chunk, overflow into a second, free the first while the
second is in use, and reuse its slot. Three archetypes (`{A}`, `{Tag}`, both)
are enough to free one in the middle of the table and recreate it elsewhere.
Two entities with a shared component meet in one chunk, part, and meet again.
Capacities differ between archetypes so that a move can need a new chunk on
either side. Types of the other kinds behave like these: nothing in the store
looks at a kind except through `ArrayTypes`, `SharedTypes`, `StateTypes` and
the writing of initial values.

In `commands`, two jobs interleave their two halves of a creation; the main
thread's own creations make temporary ids and ids differ; a second buffer meets
ids of the first, of live and of deleted entities. Creations give one value and
commands write another, as what a command does depends on no value. The jobs are symmetric
(`Symmetry`), as they run the same code and nothing orders them.

*Two ways to implement the abstract specification.* `ImplementsEntityStore` is
the refinement `Abstract!Spec`: whatever the store does is something *some*
operation of `EntityStore` may do. Since `changeComponents` is public, that alone
would accept a `deleteEntity` that forgets the mark of a deleted entity.
`OperationsAsPromised` therefore compares operation by operation, with the same
arguments. It evaluates all operations at each transition and is checked on the
smaller instance. It compares calls that change the store: one that wrongly does nothing
passes.

*The other instances.* In `views` two ids with capacities 1 and 2 give a view a
full chunk, one that fills up, an empty one, a new one and one in a new
archetype; `visited` would show an id twice or missing. In `scheduler` two threads
are fewer than the groups that wait, so that a run ends only because waiting lends
the thread; 10 units of `argBuffer` and two counters are few enough to overflow.
In `save_load` lists with and without unsaved types merge two archetypes; capacity
2 and 1 make a merged archetype of several chunks; `Skip` is an archetype that is not saved.
In `ecs_types` bytes have 3 bits, so that the internal types and one more fill a byte, and two more
of the same process need a second one; the Ecs objects register different numbers of them. The shapes
are the sizes 0, 1, 2, 4, 6 with alignments 1, 2, 4 that divide them, shared or not, in a buffer
of 40 bytes: small enough that the reserve for padding is used up. In `executors`
one worker can run, one wait and one be woken while a client enqueues; the queue
of one place meets the race for the last item, the growth with a thief in the
old array, and the growth of a partly stolen array. The three fibers can hold,
spin and sleep at the same time, and end before, while or after the main fiber looks
at their counter.

*What `executors` shows.* Of the pool: tasks are executed once, in the order accepted
(`EachTaskOnce`), no worker sleeps through one (`NoLostWakeup`), none is left at
destruction (`DrainedAtEnd`), all is done in the end (`PoolFinishes`). Of the queue: it implements
`Deque` (`ImplementsDeque`): the contents are the items between `m_top` and the
owner's idea of `m_bottom`, and an item is taken where `m_top` is swapped or the
owner decides. Of the fibers: one has the mutex (`MutualExclusion`); none sleeps for ever, neither one that
yields to another that unlocks at that moment nor the main fiber when the last tasks end
between its look at the counter and its place in the list (`EveryFiberEnds`); a
counter is destroyed under no call (`CountersOutliveCalls`).

*Fairness.* Stores, buffers, views, streams, locks and the queue only react to
calls, and no client promises to call: their specifications state none. Where something has to
happen:
* `Scheduler`: `WF(RunStep)`. While a run is under way some thread that can do
  something does; which one, and which task it takes, is open. It rests on the
  operating system and on jobs that return. Weak fairness of the whole step suffices as a run has
  finitely many of them.
* `ThreadPool`: weak fairness of each worker (the mutex is held for a few
  instructions and tasks return), of a caller between unlock and `notify_one`, and of the
  destructor's steps. None of `enqueue` or of the start of destruction.
* `Fibtex`: weak fairness of each fiber's step but the one that locks once more.
  A fiber that is ready gets a thread in the end, as the library's threads run
  all fibers that are ready.

### 3.1 Where the code does not do what it says

* `shared_of_gone_id`: `Ecs::setSharedComponent` (`ecs.h:189`) looks the id up
  with `operator[]`. For a deleted id that inserts the place 0,0,0 and moves
  whatever entity is there; afterwards two ids name one place, a state
  `setEntityIndexMap` would refuse. A deferred command
  (`entitycommand.h:108`) reaches this with an id that an earlier command of the buffer deleted, and with
  a temporary id of an earlier buffer. That the call itself changes one other entity and no more
  is `GoneIdAsSupposed` and the exception in `CommandsStayOnTarget`.
* `add_shared_component`: `addComponent` of a shared type moves the entity to an
  archetype whose new chunk takes its shared values from the source chunk,
  which has no such array (`archetype_impl.h:203`): a null pointer. The comment
  in `component_array.h:307` says the target chunk was created with the shared
  components in mind. Deletion never gets there (`DeletionIsDefined`).

Both stay in the model: the other runs are of the code as it is.

## 4. The proofs

Every theorem is of the specification a run checks, or of the part of it that is in question (`Spec` of
the store, where `store_state` adds a last call with an id that is gone), and holds for every value of the
constants that satisfies the assumptions named with it. TLC evaluates these
assumptions in each run.

### 4.1 The entity store

For all types, kinds, values, capacities and bounds that satisfy
`TypesAssumption`, `CapacityAssumption` and `ClientAssumption`:

| Theorem | States |
|---|---|
| `Invariant` | `Spec => []IInv` |
| `TypeCorrectness` | `Spec => []TypeOK` |
| `IndexExactness` | `Spec => []IndexMapExact` |
| `CapacityRespected` | `Spec => []ChunksFit` |
| `ArchetypeUniqueness` | `Spec => []ArchetypesDistinct` |
| `SlotReclamation` | `Spec => []SlotsReclaimed` |
| `DeletionDefined` | `Spec => DeletionIsDefined` |
| `StoreImplements` | `Spec => ImplementsEntityStore` |
| `OperationsPromised` | `Spec => OperationsAsPromised` |

(All in `EcsProofs`.)

**The inductive invariant.** `IndexMapExact` alone is not inductive. That a move
leaves the archetype it came from untouched needs `ArchetypesDistinct` (the
target is another archetype), that a chosen chunk is one needs the types of all
chunks, that an id put into a chunk is in no other needs the ids in the map to
be below `nextEntityId`, and that a deletion leaves no archetype without a chunk
needs `SlotsReclaimed`. `IInv` is their conjunction:

    IInv == /\ TableOK(archetypes)              \* types, capacities, slots, distinctness
            /\ ExactCells(Cells(archetypes), entityDataIndexMap)
            /\ ids in the map are below nextEntityId

**The argument** has five layers.

1. On chunks: each operator on a chunk preserves `IsChunk` and appends to,
   or drops from, the list of ids.
2. On archetypes: each search yields a chunk with room and changes no list
   of ids (`Ready`); each operation adds one id to one slot (`Added`) or removes
   one (`Removed`).
3. On places: the chunks of all archetypes are seen as one function `Cells`
   from a pair (archetype, slot) to a list of ids, empty where there is no
   chunk. On this function a deletion followed by the rewriting of the moved id,
   and an insertion followed by the indexing of the new one, preserve
   `ExactCells`; freeing a chunk or an archetype does not change it at all.
4. On the store: each operation preserves both halves, by
   composition: creation is one insertion, a deletion is one removal, a move is
   an insertion elsewhere and a removal, `setSharedComponent` the same within an
   archetype. One lemma for each action of `Next`.
5. On values. A *row* is what the components of one entity hold:
   the elements of the arrays at its position, the shared values of its chunk, and
   the default for types without data. `Has(archs, id, row)` says that some chunk of the table
   holds this id with this row. Each operator, from the swap in a chunk upwards, is shown to keep
   the pairs (id, row) of all ids but its own, wherever it puts them. In a store
   that satisfies `IInv` an id is in one place, so that its pair is the row of
   the entity the map names (`HasIsRow`), and what clients see (`Entities`) changes at one
   id only (`Replaced`, `Dropped`): to a row that `EntityStore` allows. `SeenAfter`
   carries this over to the step, one lemma for each action (`DeleteEntityPromised`, ...), and
   the two theorems follow from `StepImplements` and `StepAsPromised`.

`IInv` is not evaluated by TLC (`Cells` has an infinite domain); its parts but
`SlotsReclaimed` are what the run `store_moves` checks. `SlotReclamation` is proved and not a property
of a run.

### 4.2 Deferred commands

From `TypesAssumption` and `CommandAssumption` (the jobs are finitely many):

| Theorem (`CommandBufferProofs`) | States |
|---|---|
| `CommandsTypeCorrectness` | `Spec => []TypeOK` |
| `CommandsOrdered` | `Spec => []CommandsFollowCreation` |
| `TemporaryIdsUnique` | `Spec => []OneEntityPerTempId` |
| `TemporaryIdsResolved` | `Spec => []TempIdsResolve` |
| `CommandsHitOnlyTheirTarget` | `Spec => CommandsStayOnTarget` |

`CommandsStayOnTarget` has the exception of 3.1: while no two ids have one place, a command changes the
entity it names and no other, unless it is a `SetSharedComponent` that names no entity there is; that
changes one entity at most (`OnlyHits`). The proof needs that an id that is gone, and the 0 a
temporary id of an earlier buffer leads to, are no entity's (`GoneNamesNone`): such a command does not name a
live entity after all.

That a temporary id becomes one entity is not visible in any one step: between the
`fetch_add` and the entity lie the recording, other jobs, and the commands before
it. The invariant follows an id along that way. `TakenFits`: two jobs never hold the
same id. `PendingUnmade`: under an id that is taken, or whose creation is still to
be executed, nothing was made yet. `ExecutedMapped`: a creation that was executed is
in the map, with what it made, until the buffer is cleared. Commands on an id follow its
creation (`CommandsFollowCreation`), so that they find it (`TempIdsResolve`). `RoomLeft`
counts: `made` has one element per id that was used, so that what is still to be made fits
below `MaxId`.

### 4.3 The scheduler

From `SchedulerAssumption`, for any classes of systems with any sequences of jobs,
any number of counters, threads and chunks, and any size of `argBuffer`:

| Theorem (`SchedulerProofs`) | States |
|---|---|
| `SchedulerInvariant` | `Spec => []IInv` |
| `SchedulerTypeCorrectness` | `Spec => []TypeOK` |
| `ArgumentsStayIntact` | `Spec => []ArgumentsIntact` |
| `JobsStayInOrder` | `Spec => []JobsInOrder` |
| `OverflowIsDemanded` | `Spec => []OverflowOnlyByDemand` |
| `CommandsComeLast` | `Spec => CommandsAfterAllJobs` |

The invariant says what each of the code's counters counts. `GroupsCounted`: a
group's counter is 1 from when its task is queued until it ends. `OpenCounted`: the
counter of a job is the number of its tasks that are queued or running, so that
`waitCounter` returns when all are done and not before. `ArgumentsHeld`: an argument
still to be read lies below `currentBufferIndex`, where nothing is written.
`FibersInJobs`: a group is at a job of one of its systems, with the number of chunks
its query found. From these `DoneOnce` follows: `processed` holds exactly the tasks
that are done (`DoneTasks`), each once. `SpaceCounted` says that the buffer holds one
argument for each group that was added and one for each task that was made
(`MadeTasks`), and nothing of earlier runs; `IdleIsClean` is why. When the buffer overflows
there is one task more than `MadeTasks`, hence `OverflowOnlyByDemand`.

What one run asks for is written in `OverflowOnlyByDemand` with sums over sequences
(`ChunksOfAll`). That this sum is the number of elements of `AllTasks` is an
induction along a sequence. The library's induction rules cannot be instantiated,
so it is done by the least counterexample: a set of numbers that is not empty has a
least element (`LeastNumber`, `UpTo` in `ListProofs`, from the well-foundedness of `<` on
`Nat`). What a fold over a list computes is shown in the same way: `TotalIsSum` for the sum,
`KeptElements` for a filter, `FlatElements` for a concatenation of lists.

`CommandsAfterAllJobs` compares two runs of `AllTasks`: when the last group has ended
every task is past, and `DoneOnce` says that it was done.

### 4.4 What executes tasks

From the assumptions of `ThreadPool`, `WaitFreeQueue`, `AtomicCounter` and `Fibtex`, for any number of
workers, clients, tasks and fibers, where the counters are wide enough to count the fibers
(`Cardinality(Fibers) < ValueRange`) and a fiber that spins tries once at least (`Iterations`):

| Theorem (`ExecutorsProofs`) | States |
|---|---|
| `PoolTypeCorrectness` | `Spec => []TypeOK` |
| `TasksRunOnce` | `Spec => []EachTaskOnce` |
| `WorkIsNoticed` | `Spec => []NoLostWakeup` |
| `DestructorDrains` | `Spec => []DrainedAtEnd`, if there is a worker |
| `FibersTypeCorrectness` | `FibtexSpec => []FibtexTypeOK` |
| `MutexExcludes` | `FibtexSpec => []MutualExclusion` |
| `DestructionIsLast` | `FibtexSpec => []CountersOutliveCalls` |
| `ExecutorsInvariant` | `ExecutorsSpec => [](PoolIInv /\ QueueIInv /\ FibtexIInv)`: the specification that has the three side by side |
| `ExecutorsTypeCorrectness` | `ExecutorsSpec => []ExecutorsTypeOK` |
| `QueueTypeCorrectness` | `QueueSpec => []QueueTypeOK` |
| `QueueImplementsDeque` | `QueueSpec => ImplementsDeque` |

*The pool.* `EachTaskOnce` and `NoLostWakeup` are inductive with the type invariant. The
latter compares the length of the queue with the number of notifications to come and of
workers awake: `notify_one` may find nobody waiting, or wake a worker that finds the
queue empty, but a worker goes back to sleep only when it is. `DrainedAtEnd` needs
`ExitedWhenDrained`: a worker ends only with `stop` set and the queue empty, and nothing is
accepted afterwards. Without a worker it is false, as tasks stay in the queue: the
hypothesis is the theorem's only one.

*The fibers.* `MutualExclusion` holds as the counter is the number of holders
(`OneHolder`). `CountersOutliveCalls` looks at the last step of others:
the fiber that waits may be resumed by a `fetch_sub` that is not over. `InsideCounted` says that
`m_lock` counts those in a call, `WaitersSleep` who is on the list of a counter,
`TasksCounted` that the counter of tasks is the number of those that have not
counted down, and `ZeroIsFinal` that nobody counts down once the main fiber goes
on: it does so after a wait, or without one if the value it loaded is 0, which
is a fact about the past. `MainGoesOn` carries it to the step that uses the value: once its load has given 0
no task is left to count down, and none appears. The destructor then waits for the calls that are left, and
`DestroyedAtRest` is preserved since no new one begins.

*The queue.* From `QueueAssumption`, for any number of thieves, any size of the first array
and any number of items. The modulo arithmetic of the code is right because `top` never
passes an index that is in use: `ArraysFit` and `IndicesFit` say that the items between
`top` and `bottom` fit into the current array, so that no two of them share a cell, and that
every older array that a thief can still hold has the items it may read.
`OwnerKnows`: the `top` the owner read is an old one at most, so that it believes the array
fuller than it is, and grows it too early rather than too late. `ThievesKnow`: as long as
`top` still is what a thief read, the cell it read holds the item that `TakeItem` then
removes, whatever array the pointer of the thief names; if `top` has moved on the
compare-and-swap fails. `QueueCallsFit` and `TakenFit` type the local
variables and the results. The mapped deque (`Items`) then changes at four steps only,
each an operation of `Deque`: `Publish` (a push), `PopOne` and `PopLast` (a pop, the
latter against thieves) and `TakeItem` (a steal). Every other step leaves it, which
includes growing the array.

### 4.5 Types

From `RegistryAssumption` (an order without repetition), `LocksAssumption`
(finitely many clients) and, for the layout, `LayoutAssumption` (a type is a whole number of its alignments
large, and no alignment is above `MaxAlign`) and `ArchetypeAssumption` (lists of all lengths that
occur are tried), for any number of Ecs objects, clients and types, and any size of the buffer:

| Theorem (`EcsTypesProofs`) | States |
|---|---|
| `LockExclusion` | `Spec => []LocksExclude` |
| `LookupExactness` | `Spec => []LookupsExact` |
| `ListsAreSetsOfTypes` | `Spec => []ListsAreSets` |
| `EveryLayoutFits` | `Fits(types)` for every sequence of types whose capacity is at least 1 |
| `LayoutsFit` | `Spec => []LayoutFits` |

The list of read locks names no client, so that exclusion rests on their number:
`ReadersCounted` says that a type is in the list as often as there are clients
that read it, and a release by one reader then leaves those of the others.
`LookupsExact` says nothing of a type an Ecs has not registered yet, and is not
inductive; `IndicesByOrder` does: the static index is the place in the order,
whichever Ecs set it.

That bit fields behave as sets depends on their widths. `ArchetypesAreSets` says that every
archetype has the list of a set of client types *as wide as lists are now*
(`SetList`), because no registration makes lists wider once there are archetypes. It is this
that makes two lists of one set equal, so that the search of an archetype by its list finds it. On
such lists the bitwise operations of the code are operations on sets and stay in the field
(`SetOperations`, `ListIs`), those of a query too (`ViewQueryIs`), and `CalcTypeIds` returns the
types of the set, each once (by `KeptElements`). `FactoriesMatch` adds that an Ecs has the factory of each
type it registered, so that `ub` stays `FALSE`: no list leaves its field and no
archetype looks for a factory that is not there.

That the arrays fit is not local to any of them: the constructor fixes the capacity with a reserve of
`MaxAlign` bytes for each type, and then places the arrays without looking at the end of the buffer.
`ArraysEnd` counts along the list: the first `k` arrays are aligned, lie one behind the other (`Laid`) and end at
the ids, the elements of these `k` types and `k` reserves at most, since one array takes
no more than its elements and less than its alignment (`PlaceIs`, `AlignedIs`). For the whole list this is what
the capacity was divided out of (`CapacityFits`).

### 4.6 Views

From the assumptions of the store and `QueriesAssumption` (queries name client types):

| Theorem (`ViewProofs`) | States |
|---|---|
| `ViewInvariant` | `ViewSpec => []ViewIInv` |
| `ViewTypeCorrectness` | `ViewSpec => []ViewTypeOK` |
| `IterationIsExact` | `ViewSpec => []IterationExact` |
| `CountIsExact` | `ViewSpec => []CountExact` |

A view keeps places and numbers, the store changes ids: the two meet in `Cells` only.
`ListFits` says that the list of a view names distinct cells and takes no more ids
from each than it holds; by `ExactCells` no id is in two positions, so that the ids taken are
distinct (`TakenOnce`). They are the ids that were promised: the list is made of all chunks whose
archetype matches the query (`FoundIs`, `GetIds`), and a filter by a shared value keeps those of entities
with this value (`FilterIds`). The iterator stands at a position of the list or past its end, and
`visited` holds the ids at the positions it passed, each once (`IteratorFits`);
a step of it, over the rest of a chunk or to the next, passes one position more
(`IteratorMoves`). A store operation that displaces no entity moves no id from its position
(`ListStays`), whatever it appends to the same cell, so that all of this stays (`ViewStoreOK`):
the number of entities is the one taken when the view was initialized, not the one the chunk has
now. `IterationExact` is what `IteratorFits` says at the end of the list and, for the components seen
on the way, that the cell and the map agree (`SeesIt`). `CountExact` compares the sum over the list with
the number of ids taken (`CountFits`, by `TotalOfParts`).

### 4.7 Save, load and prefabs

From the assumptions of the store, `SaveLoadAssumption` (types without data are trivially copyable
and `Internal` types have none; the types are finitely many, and numbered from 0) and
`CapacityGrows`:

| Theorem (`SaveLoadProofs`) | States |
|---|---|
| `SaveLoadInvariant` | `SaveLoadSpec => []SaveLoadInv` |
| `SaveLoadTypeCorrectness` | `SaveLoadSpec => []SaveLoadTypeOK` |
| `LoadedStoreWellFormed` | `SaveLoadSpec => [](IndexMapExact /\ ChunksFit /\ ArchetypesDistinct /\ SlotsReclaimed)` |
| `RoundTripHolds` | `SaveLoadSpec => RoundTrip` |
| `LoadFaultsKnown` | `SaveLoadSpec => LoadFaultsByDontSaveOnly` |
| `PrefabCopied` | `SaveLoadSpec => PrefabCopy` |

`SaveLoadInv` is the invariant of the store and `StreamOK`: a stream that is not read yet is
what is written in the present state (`StoreStream(archetypes, nextEntityId)`), or the stream of
one entity or prefab (`IsPrefabStream`). Nothing is assumed of a stream that is read: what a load does
is what it does to something `save` wrote. The argument follows the code.

*What is written.* Archetypes that have the same saved types are written as one, where the first of them
stands. Each chunk with entities of an archetype that is kept is written there
(`ChunkIsWritten`), each once (`ChunkWrittenOnce`): two positions with the same chunk have the same
ids, and by `ExactCells` an id is in one cell (`InhabitedOnce`). No two archetypes written have the same saved types
(`WrittenApart`), so that `createArchetype` makes a new one for each, in the next slot (`LoadNext`).

*What is loaded.* The fold over the archetypes of the stream gives `LoadedTable` (`LoadedIs`, an induction
along the list), a well-formed table (`LoadedTableOK`): this is where `CapacityGrows` is needed, as the chunk of an archetype
with more types becomes one of an archetype with fewer. The map has each entity at the place it was written at, and no other
(`LoadMapIs`): archetypes and chunks have new numbers, and these are those under which `save`
counted them (`WrittenAt`). Hence map and chunks agree (`LoadedExact`), and the row of an entity
is the row it had without the types that are not saved (`RowLoaded`, `EntitiesLoaded`).

*Faults.* The arrays written of a chunk are those of the Regular and the DontSave types: State is left out by
`Chunk::save`, `Internal` types have no array. The archetype read into has the Regular ones. So
a chunk cannot be read exactly if its archetype has a DontSave type with data (`ReadFailsIs`), and it is written
exactly if it holds an entity that is saved (`UnreadableEntity`, `UnreadableChunk`).

*Entities from streams.* The entity is created with what the stream has in arrays (`LoadElement`), and then the
shared values are set one after the other, each of which may move it to another chunk and another entity
into its place. `SharedOneMore` and `SharedAll` go along that list: the entity has the values read so far, every
other entity has its row (`Replaced`). `CreatedFromStream` says what comes of it, and
`StreamRowIs` that this is what the stream has.

### 4.8 Only model-checked

Every invariant and every action property of a passing run is the subject of a theorem. Only TLC checks
liveness (`RunsEnd`, `PoolFinishes`, `EveryFiberEnds`): it is out of the prover's reach, as are
`ENABLED` and what a recursive definition computes for every input.

## 5. What is not modelled

Modelled in part, or not:
* `View::lockUsedTypes`, `unlockUsedTypes`: see the assumptions; nothing calls them.
* The sorted copy of a type list that debug builds keep beside the bits.
* `Archetype::save`: nobody calls it, `Ecs::save` writes the chunks itself.
* `Ecs::load` clears the command buffer but not the remapping of temporary ids;
  the model of commands has no load. The variable `deletedEntity` of `Ecs::save` is not used.
* `ftl`: the implementation of `task_scheduler.h` is not in the repository; fiber
  stacks (`fiber.h`) and thread locals have no part in what is modelled.
* Failed reads and writes of a stream, which the code does not look for.

Left out for good: `easy_profiler` (instrumentation that does not touch the state
of the library), the test program, and the template machinery that selects
overloads.
