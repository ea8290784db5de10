------------------------------- MODULE View -------------------------------
(***************************************************************************)
(* A view on the entity store (view.h: View, View::iterator; ecs.h:        *)
(* Ecs::get; ecs_util.h: typeQueryList).                                   *)
(*                                                                         *)
(* A view has a query, the types an entity must and must not have, and,    *)
(* once initialized, a list of chunks with the number of entities each had *)
(* at that moment.  An iterator walks through this list without looking at *)
(* the store again, while the client may go on calling the store.          *)
(*                                                                         *)
(* Nothing in the code keeps a client from using a view after it has       *)
(* freed a chunk of it: the contract modelled here is that a call by which *)
(* an entity leaves its place ends the view.  (Jobs keep it: they record   *)
(* commands, which run when their views are gone.)  Creating entities and  *)
(* setting components while the loop runs is allowed.                      *)
(***************************************************************************)
EXTENDS Ecs, Lists

CONSTANT Queries   \* bound: the queries of the clients' views, as records

ASSUME QueriesAssumption ==
  Queries \subseteq [required : SUBSET ClientTypes, excluded : SUBSET ClientTypes]

VARIABLES
  query,          \* typeQueryList: [required, excluded]
  initialized,    \* initialized_
  queriedChunks,  \* queriedChunks_: the sequence of [place, entityCount]
  iter,           \* [chunkIndex, entityIndex, onlyChunk]; see Begin
  visited,        \* history: the ids the iterator pointed at, in their order
  promised        \* history: the ids of the entities the view was to visit

viewVars == <<query, initialized, queriedChunks, iter, visited, promised>>
allVars == <<vars, viewVars>>

NoIterator == [chunkIndex |-> 0, entityIndex |-> 0, onlyChunk |-> FALSE]

-----------------------------------------------------------------------------
\* A check that forgets the excluded types.
QueryCheckRequired(q, ts) == q.required \subseteq ts

\* typeQueryList::check, which Archetype::hasAllComponents calls
QueryCheck(q, ts) == q.required \subseteq ts /\ q.excluded \cap ts = {}

\* A search that does not skip a chunk without entities.
ListedWithEmpty(arch, c) == Occupied(arch.chunks, c)

\* The chunks of an archetype that Ecs::get takes.
Listed(arch, c) == Occupied(arch.chunks, c) /\ arch.chunks[c].ids # << >>

ChunkAt(place) == archetypes[place[1]].chunks[place[2]]

\* A place in the list, with the number of entities there now.
Entry(a, c) == [place |-> <<a, c>>, entityCount |-> Len(ChunkAt(<<a, c>>).ids)]

\* The chunks that Ecs::get takes of the archetype in slot a.
Found(a, q) ==
  IF archetypes[a] = Null \/ ~ QueryCheck(q, archetypes[a].types) THEN << >>
  ELSE LET arch  == archetypes[a]
           slots == Kept([c \in DOMAIN arch.chunks |-> c],
                         {c \in DOMAIN arch.chunks : Listed(arch, c)})
       IN  [k \in DOMAIN slots |-> Entry(a, slots[k])]

\* The list Ecs::get makes, in the order of archetypes and chunks.
Get(q) == FlattenSeq([a \in DOMAIN archetypes |-> Found(a, q)])

\* What the query means: the ids of the entities with such types.
Matching(q) ==
  {id \in DOMAIN entityDataIndexMap :
     /\ q.required \subseteq TypesOf(Store, id)
     /\ q.excluded \cap TypesOf(Store, id) = {}}

-----------------------------------------------------------------------------
\* View::initializeData
InitializeData ==
  /\ initialized' = TRUE
  /\ IF initialized THEN UNCHANGED <<queriedChunks, promised>>
     ELSE queriedChunks' = Get(query) /\ promised' = Matching(query)

\* A view with this query and no list yet.
ViewReset(q) ==
  /\ query' = q
  /\ initialized' = FALSE
  /\ queriedChunks' = << >>
  /\ iter' = NoIterator
  /\ visited' = << >>
  /\ promised' = {}

\* Ecs::view<Ts...>().with<...>().exclude<...>(): required are Ts, const or
\* not, and the types of with.  The view of the client's last loop is gone.
NewView(q) ==
  /\ ~ub
  /\ ViewReset(q)
  /\ UNCHANGED vars

\* The iteration has not begun yet.
Building == ~ub /\ visited = << >>

\* The test of a chunk by View::filterShared, which takes a chunk without this
\* type for one with another value.
HasValue(chunk, t, v) == t \in DOMAIN chunk.shared /\ chunk.shared[t] = v

\* View::filterShared: the list is made, and reduced to the chunks with this
\* shared value.
FilterShared(t, v) ==
  LET list == IF initialized THEN queriedChunks ELSE Get(query)
      ids  == IF initialized THEN promised ELSE Matching(query)
  IN  /\ Building
      /\ initialized' = TRUE
      /\ queriedChunks' = Kept(list, {q \in Range(list) : HasValue(ChunkAt(q.place), t, v)})
      /\ promised' = {id \in ids : t \in TypesOf(Store, id) /\ EntityOf(id)[t] = v}
      /\ UNCHANGED <<vars, query, iter, visited>>

\* What the iterator points at: the e-th entity of the k-th chunk listed, or 0
\* if that chunk has no such entity.
Read(list, k, e) ==
  LET ids == ChunkAt(list[k].place).ids IN IF e \in DOMAIN ids THEN ids[e] ELSE 0

\* View::begin, View::getCount, and the constructor of the iterator.
Begin ==
  /\ Building
  /\ InitializeData
  /\ queriedChunks' # << >>
  /\ iter' = [chunkIndex |-> 1, entityIndex |-> 1, onlyChunk |-> FALSE]
  /\ visited' = <<Read(queriedChunks', 1, 1)>>
  /\ UNCHANGED <<vars, query>>

\* View::beginForChunk, for one of the chunks listed (a task of a job, after
\* Scheduler::addTask has initialized the view).
BeginForChunk(k) ==
  /\ Building
  /\ InitializeData
  /\ k \in DOMAIN queriedChunks'
  /\ iter' = [chunkIndex |-> k, entityIndex |-> 1, onlyChunk |-> TRUE]
  /\ visited' = <<Read(queriedChunks', k, 1)>>
  /\ UNCHANGED <<vars, query>>

IsValid == iter.chunkIndex # 0

\* What a pointer points at, as a set: empty if it is null.
\* Chunk::getArray, Chunk::getSharedComponent and ComponentArray::getElement
GetArray(chunk, t) == {chunk.comps[u] : u \in {t} \cap DOMAIN chunk.comps}
GetSharedComponent(chunk, t) == {chunk.shared[u] : u \in {t} \cap DOMAIN chunk.shared}
GetElement(arrays, e) == {array[e] : array \in arrays}

\* Ecs::getComponents_impl
ComponentsAt(chunk, e, ts) == [t \in ts |-> GetElement(GetArray(chunk, t), e)]

\* Ecs::getComponents: pointers to nothing for an id that is not in the map.
GetComponents(id, ts) ==
  IF id \notin DOMAIN entityDataIndexMap THEN [t \in ts |-> {}]
  ELSE ComponentsAt(ChunkOf(Store, id), entityDataIndexMap[id].elem, ts)

CurrentPlace == queriedChunks[iter.chunkIndex].place

\* View::iterator::hasComponents, getSharedComponent and getComponent, which look
\* at the chunk as it is now.
HasComponents(ts) == ts \subseteq archetypes[CurrentPlace[1]].types
SharedComponentHere(t) == GetSharedComponent(ChunkAt(CurrentPlace), t)
ComponentHere(t) == GetElement(GetArray(ChunkAt(CurrentPlace), t), iter.entityIndex)

\* A ++ that compares the index with the count, not with the last index.
NextPositionPastEnd(list, it) ==
  IF list[it.chunkIndex].entityCount >= it.entityIndex
    THEN [it EXCEPT !.entityIndex = @ + 1]
  ELSE IF ~ it.onlyChunk /\ it.chunkIndex < Len(list)
    THEN [it EXCEPT !.chunkIndex = @ + 1, !.entityIndex = 1]
  ELSE [it EXCEPT !.chunkIndex = 0]

\* Where operator++ goes from a valid position.
NextPosition(list, it) ==
  IF list[it.chunkIndex].entityCount > it.entityIndex
    THEN [it EXCEPT !.entityIndex = @ + 1]
  ELSE IF ~ it.onlyChunk /\ it.chunkIndex < Len(list)
    THEN [it EXCEPT !.chunkIndex = @ + 1, !.entityIndex = 1]
  ELSE [it EXCEPT !.chunkIndex = 0]

\* View::iterator::operator++, and the client's look at the next entity.
Increment ==
  LET next == NextPosition(queriedChunks, iter)
  IN  /\ ~ub /\ IsValid
      /\ iter' = next
      /\ visited' = IF next.chunkIndex = 0 THEN visited
                    ELSE Append(visited, Read(queriedChunks, next.chunkIndex, next.entityIndex))
      /\ UNCHANGED <<vars, query, initialized, queriedChunks, promised>>

\* An entity leaves its place or is deleted.
Displaces ==
  \E id \in DOMAIN entityDataIndexMap :
    id \in DOMAIN entityDataIndexMap' => entityDataIndexMap'[id] # entityDataIndexMap[id]

\* An operation of the store, which knows of no view.  (addComponent and
\* deleteComponents do what two of these do.)
StoreOperation ==
  /\ \/ \E ts \in SUBSET ClientTypes \ {{}} :
          CreateEntity(ts) \/ \E values \in Initials(ts) : CreateEntityWithValues(values)
     \/ \E id \in DOMAIN entityDataIndexMap :
          \/ DeleteEntity(id)
          \/ \E ts \in SUBSET ClientTypes : ChangeTypes(id, ts)
          \/ \E t \in TypesOf(Store, id) : \E v \in ValuesOf(t) : SetComponent(id, t, v)
  /\ IF initialized /\ Displaces THEN ViewReset([required |-> {}, excluded |-> {}])
                                 ELSE UNCHANGED viewVars

ViewInit ==
  /\ Init
  /\ query = [required |-> {}, excluded |-> {}]
  /\ initialized = FALSE
  /\ queriedChunks = << >>
  /\ iter = NoIterator
  /\ visited = << >> /\ promised = {}

ViewNext ==
  \/ \E q \in Queries : NewView(q)
  \/ \E t \in SharedTypes(ClientTypes), v \in Value : FilterShared(t, v)
  \/ Begin
  \/ \E k \in DOMAIN queriedChunks : BeginForChunk(k)
  \/ Increment
  \/ StoreOperation

ViewSpec == ViewInit /\ [][ViewNext]_allVars

-----------------------------------------------------------------------------
\* The type invariant.  A valid iterator is within the list.
ViewTypeOK ==
  /\ query \in [required : SUBSET ClientTypes, excluded : SUBSET ClientTypes]
  /\ initialized \in BOOLEAN
  /\ promised \subseteq 1 .. nextEntityId - 1
  /\ Range(visited) \subseteq Nat
  /\ IsValid => /\ iter.chunkIndex \in DOMAIN queriedChunks
                /\ iter.entityIndex \in 1 .. queriedChunks[iter.chunkIndex].entityCount

\* View::getCount, once the view is initialized
GetCount == Total([k \in DOMAIN queriedChunks |-> queriedChunks[k].entityCount])

\* The ids of the entities counted in the k-th chunk of the list.
CountedIn(k) ==
  {ChunkAt(queriedChunks[k].place).ids[e] : e \in 1 .. queriedChunks[k].entityCount}

\* The iterator gives the components the store has of the entity it points at.
SeesEntity(id) ==
  /\ GetComponents(id, ClientTypes) = [t \in ClientTypes |-> ComponentHere(t)]
  /\ \A t \in ClientTypes :
       /\ HasComponents({t}) <=> t \in TypesOf(Store, id)
       /\ SharedComponentHere(t) = {EntityOf(id)[u] : u \in {t} \cap SharedTypes(TypesOf(Store, id))}

\* A loop over a view points at each entity that matched the query when the
\* view was initialized exactly once, and a loop over one chunk at those of
\* that chunk, whatever entities the body of the loop creates and whatever
\* components it sets, as long as no entity leaves its place: empty chunks,
\* chunks that fill up and new chunks and archetypes do not disturb it, nor what
\* the iterator sees of the entity it points at.
IterationExact ==
  initialized =>
    /\ IsInjective(visited)
    /\ Range(visited) \subseteq promised
    /\ IsValid => SeesEntity(Last(visited))
    /\ visited # << >> /\ ~IsValid =>
         IF iter.onlyChunk THEN \E k \in DOMAIN queriedChunks : Range(visited) = CountedIn(k)
                           ELSE Range(visited) = promised

\* View::getCount is the number of the entities that matched, and a task for
\* each chunk (Scheduler::addTask) leaves none of them out: no entity is in
\* two of the chunks.
CountExact ==
  initialized =>
    /\ GetCount = Cardinality(promised)
    /\ UNION {CountedIn(k) : k \in DOMAIN queriedChunks} = promised

=============================================================================
