------------------------------- MODULE Ecs -------------------------------
(***************************************************************************)
(* The entity store of an Ecs (ecs.h, ecs_impl.h): the archetypes, and the *)
(* map from the id of an entity to the place of its components.            *)
(*                                                                         *)
(* Every operation the clients call is one action.  An operation works on  *)
(* the store as a whole, so it is defined as an operator from a store, the *)
(* record [archetypes, map], to the store it leaves; operations of the     *)
(* code that call one another are operators that apply one another.       *)
(*                                                                         *)
(* A call with the id of no entity returns at once (it would be a          *)
(* stuttering step), with one exception, SetSharedOfGoneId.                 *)
(***************************************************************************)
EXTENDS Archetype

CONSTANTS
  ClientTypes,   \* the types the clients use
  MaxId,         \* bound: the ids are 1 .. MaxId
  MaxChunks      \* bound: the chunk slots of an archetype

ASSUME ClientAssumption ==
  /\ ClientTypes \subseteq Types \ {DeletedEntity}
  /\ MaxId \in Nat
  /\ MaxChunks \in Nat

VARIABLES
  archetypes,          \* archetypes_: slots, each an archetype or Null
  entityDataIndexMap,  \* entityDataIndexMap_: id -> [arch, chunk, elem]
  nextEntityId,
  ub                   \* an operation met undefined behaviour: the end

vars == <<archetypes, entityDataIndexMap, nextEntityId, ub>>

StoreOf(archs, map) == [archetypes |-> archs, map |-> map]

Store == StoreOf(archetypes, entityDataIndexMap)

-----------------------------------------------------------------------------
\* Ecs::createArchetype: the archetype with exactly these types, else a new
\* one in the first empty slot.

\* A search that stops at the first empty slot.
ArchetypeSlotEager(archs, ts) ==
  LET usable == {a \in DOMAIN archs : archs[a] = Null \/ archs[a].types = ts}
  IN  IF usable = {} THEN Len(archs) + 1 ELSE Min(usable)

ArchetypeSlot(archs, ts) ==
  LET same == {a \in DOMAIN archs : archs[a] # Null /\ archs[a].types = ts}
  IN  IF same = {} THEN FreeSlot(archs) ELSE Min(same)

WithArchetype(archs, ts) ==
  LET a == ArchetypeSlot(archs, ts)
  IN  IF Occupied(archs, a) THEN archs ELSE PutSlot(archs, a, NewArchetype(ts))

\* The archetype arch in slot a.
Stored(archs, a, arch) == [archs EXCEPT ![a] = arch]

\* Ecs::setEntityIndexMap: refused unless the entity is at that place.
IsAt(archs, id, ix) ==
  /\ id # 0
  /\ Occupied(archs, ix.arch)
  /\ Occupied(archs[ix.arch].chunks, ix.chunk)
  /\ ix.elem \in DOMAIN archs[ix.arch].chunks[ix.chunk].ids
  /\ archs[ix.arch].chunks[ix.chunk].ids[ix.elem] = id

\* map[id] = ix
Indexed(map, id, ix) ==
  [i \in DOMAIN map \cup {id} |-> IF i = id THEN ix ELSE map[i]]

\* map.erase(id)
Erased(map, id) == Restrict(map, DOMAIN map \ {id})

SetIndex(s, id, ix) ==
  IF IsAt(s.archetypes, id, ix) THEN StoreOf(s.archetypes, Indexed(s.map, id, ix))
                                ELSE s

\* The place of the last entity of the chunk an archetype operation chose.
LastPlace(a, chosen) ==
  [arch |-> a, chunk |-> chosen.slot, elem |-> Len(chosen.arch.chunks[chosen.slot].ids)]

TypesOf(s, id) == s.archetypes[s.map[id].arch].types

ChunkOf(s, id) == s.archetypes[s.map[id].arch].chunks[s.map[id].chunk]

-----------------------------------------------------------------------------
\* The archetype left in slot a; dropped, as deleteArchetype does, if it has
\* no chunk any more.
WithoutEmpty(archs, a, left) ==
  IF left.chunks = << >> THEN FreeSlotAt(archs, a) ELSE Stored(archs, a, left)

\* A deletion that does not index the entity that took the free place.
RemoveEntityUnindexed(s, id) ==
  LET ix   == s.map[id]
      left == ArchDelete(s.archetypes[ix.arch], ix.chunk, ix.elem)
  IN  StoreOf(WithoutEmpty(s.archetypes, ix.arch, left), Erased(s.map, id))

\* Ecs::deleteEntity(id, false), with deleteArchetype.
RemoveEntity(s, id) ==
  LET ix      == s.map[id]
      left    == ArchDelete(s.archetypes[ix.arch], ix.chunk, ix.elem)
      moved   == MovedId(ChunkOf(s, id), ix.elem)
      removed == StoreOf(WithoutEmpty(s.archetypes, ix.arch, left), Erased(s.map, id))
  IN  IF moved = 0 THEN removed ELSE SetIndex(removed, moved, ix)

\* Ecs::changeComponents.  Between the two steps the entity is in both places.
MoveEntity(s, id, a, archs) ==
  LET moved == ArchMoveIn(archs[a], ChunkOf(s, id), s.map[id].elem)
      both  == StoreOf(Stored(archs, a, moved.arch), s.map)
  IN  SetIndex(RemoveEntity(both, id), id, LastPlace(a, moved))

ChangeComponents(s, id, ts) ==
  LET a == ArchetypeSlot(s.archetypes, ts)
  IN  IF Vanishes(ts) THEN RemoveEntity(s, id)
      ELSE IF a = s.map[id].arch THEN s
      ELSE MoveEntity(s, id, a, WithArchetype(s.archetypes, ts))

\* The move dereferences a null pointer.
ChangeFaults(s, id, ts) ==
  LET a == ArchetypeSlot(s.archetypes, ts)
  IN  /\ ~ Vanishes(ts)
      /\ a # s.map[id].arch
      /\ MoveReadsNull(WithArchetype(s.archetypes, ts)[a], ChunkOf(s, id))

\* A deletion that forgets to mark the entity.
DeleteEntityUnmarked(s, id) ==
  LET kept == StateTypes(TypesOf(s, id))
  IN  IF kept = {} THEN RemoveEntity(s, id) ELSE ChangeComponents(s, id, kept)

\* Ecs::deleteEntity(id): State components outlive the entity.
DeleteEntityOf(s, id) ==
  LET kept == StateTypes(TypesOf(s, id))
  IN  IF kept = {} THEN RemoveEntity(s, id)
      ELSE ChangeComponents(s, id, kept \cup {DeletedEntity})

DeleteFaults(s, id) ==
  LET kept == StateTypes(TypesOf(s, id))
  IN  kept # {} /\ ChangeFaults(s, id, kept \cup {DeletedEntity})

\* A move that does not index the entity that took the free place.
SetSharedAtUnindexed(s, id, ix, t, v) ==
  LET arch == s.archetypes[ix.arch]
      set  == ArchSetShared(arch, ix.chunk, ix.elem, t, v)
  IN  IF arch.chunks[ix.chunk].shared[t] = v
        THEN StoreOf(s.archetypes, Indexed(s.map, id, ix))
        ELSE StoreOf(Stored(s.archetypes, ix.arch, set.arch),
                     Indexed(s.map, id, LastPlace(ix.arch, set)))

\* Ecs::setSharedComponent, for an entity at the place ix.
SetSharedAt(s, id, ix, t, v) ==
  LET arch   == s.archetypes[ix.arch]
      source == arch.chunks[ix.chunk]
      set    == ArchSetShared(arch, ix.chunk, ix.elem, t, v)
      moved  == MovedId(source, ix.elem)
      stored == StoreOf(Stored(s.archetypes, ix.arch, set.arch),
                        Indexed(s.map, id, LastPlace(ix.arch, set)))
  IN  IF source.shared[t] = v THEN StoreOf(s.archetypes, Indexed(s.map, id, ix))
      ELSE IF moved = 0 THEN stored ELSE SetIndex(stored, moved, ix)

\* Ecs::setComponent: a type without data, or one the entity does not have
\* (if it is not shared), is ignored.
SetComponentOf(s, id, t, v) ==
  LET ix   == s.map[id]
      arch == s.archetypes[ix.arch]
      set  == ChunkSet(arch.chunks[ix.chunk], ix.elem, t, v)
  IN  IF t \in SharedTypes(Types) THEN SetSharedAt(s, id, ix, t, v)
      ELSE IF t \notin ArrayTypes(TypesOf(s, id)) THEN s
      ELSE StoreOf(Stored(s.archetypes, ix.arch, WithChunk(arch, ix.chunk, set)), s.map)

-----------------------------------------------------------------------------
Init ==
  /\ archetypes = << >>
  /\ entityDataIndexMap = << >>
  /\ nextEntityId = 1
  /\ ub = FALSE

\* ArchSetShared never reuses an empty slot, so that an entity whose shared
\* value is set again and again makes the chunk vector grow without a limit.
SlotsWithinBound(s) ==
  \A a \in DOMAIN s.archetypes :
    s.archetypes[a] # Null => Len(s.archetypes[a].chunks) <= MaxChunks

\* An operation leaves the store s, unless it faults: then anything may
\* happen, and the model stops.
Becomes(s, faults) ==
  /\ ub' = faults
  /\ IF faults THEN UNCHANGED <<archetypes, entityDataIndexMap>>
               ELSE /\ SlotsWithinBound(s)
                    /\ archetypes' = s.archetypes
                    /\ entityDataIndexMap' = s.map

\* The entity nextEntityId was added to the archetype in slot a.
Created(archs, a, chosen) ==
  /\ Becomes(SetIndex(StoreOf(Stored(archs, a, chosen.arch), entityDataIndexMap),
                      nextEntityId, LastPlace(a, chosen)), FALSE)
  /\ nextEntityId' = nextEntityId + 1

\* Ecs::createEntity<Ts...>(), which is createEntity_impl
CreateEntity(ts) ==
  LET a     == ArchetypeSlot(archetypes, ts)
      archs == WithArchetype(archetypes, ts)
  IN  /\ ~ub
      /\ nextEntityId \in 1 .. MaxId
      /\ Created(archs, a, ArchCreate(archs[a], nextEntityId))

\* Ecs::createEntity(values...), and createEntity(prefab), which calls it
CreateEntityWithValues(values) ==
  LET a     == ArchetypeSlot(archetypes, DOMAIN values)
      archs == WithArchetype(archetypes, DOMAIN values)
  IN  /\ ~ub
      /\ nextEntityId \in 1 .. MaxId
      /\ Created(archs, a, ArchAllocate(archs[a], nextEntityId, values))

\* An operation on the entity id.
Operation(id, s, faults) ==
  /\ ~ub
  /\ id \in DOMAIN entityDataIndexMap
  /\ Becomes(s, faults)
  /\ UNCHANGED nextEntityId

\* Ecs::deleteEntity
DeleteEntity(id) == Operation(id, DeleteEntityOf(Store, id), DeleteFaults(Store, id))

\* Ecs::deleteComponents
DeleteComponents(id, ts) ==
  Operation(id, ChangeComponents(Store, id, TypesOf(Store, id) \ ts),
                ChangeFaults(Store, id, TypesOf(Store, id) \ ts))

\* Ecs::changeComponents, which is public
ChangeTypes(id, ts) ==
  Operation(id, ChangeComponents(Store, id, ts), ChangeFaults(Store, id, ts))

\* Ecs::addComponent: changeComponents, then setComponent
AddComponent(id, t, v) ==
  LET ts == TypesOf(Store, id) \cup {t}
  IN  Operation(id, SetComponentOf(ChangeComponents(Store, id, ts), id, t, v),
                    ChangeFaults(Store, id, ts))

\* Ecs::setComponent, and setSharedComponent if t is shared: that one reads
\* a null pointer if the entity has no such component.
SetComponent(id, t, v) ==
  Operation(id, SetComponentOf(Store, id, t, v),
                t \in SharedTypes(Types) \ TypesOf(Store, id))

\* The values a client can give: a type without data has only one.
ValuesOf(t) == IF t \in EmptyTypes THEN {Default} ELSE Value

Initials(ts) == {values \in [ts -> Value] : \A t \in ts : values[t] \in ValuesOf(t)}

Next ==
  \/ \E ts \in SUBSET ClientTypes \ {{}} :
       \/ CreateEntity(ts)
       \/ \E values \in Initials(ts) : CreateEntityWithValues(values)
  \/ \E id \in DOMAIN entityDataIndexMap :
       \/ DeleteEntity(id)
       \/ \E ts \in SUBSET ClientTypes : DeleteComponents(id, ts) \/ ChangeTypes(id, ts)
       \/ \E t \in ClientTypes : \E v \in ValuesOf(t) :
            AddComponent(id, t, v) \/ SetComponent(id, t, v)

Spec == Init /\ [][Next]_vars

-----------------------------------------------------------------------------
Places == [arch : Nat, chunk : Nat, elem : Nat]

\* The type invariant: every chunk has exactly the arrays and shared values
\* of the types of its archetype, and all its arrays are as long as its ids.
TypeOK ==
  /\ IsSequence(archetypes)
  /\ \A a \in DOMAIN archetypes : archetypes[a] # Null => IsArchetype(archetypes[a])
  /\ DOMAIN entityDataIndexMap \subseteq 1 .. MaxId
  /\ entityDataIndexMap \in [DOMAIN entityDataIndexMap -> Places]
  /\ nextEntityId \in 1 .. MaxId + 1
  /\ ub \in BOOLEAN

\* The places that hold an entity are exactly the places the map names, each
\* with the id it is the place of.
Exact(s) ==
  /\ \A id \in DOMAIN s.map : IsAt(s.archetypes, id, s.map[id])
  /\ \A a \in DOMAIN s.archetypes : s.archetypes[a] # Null =>
       \A c \in DOMAIN s.archetypes[a].chunks : s.archetypes[a].chunks[c] # Null =>
         \A e \in DOMAIN s.archetypes[a].chunks[c].ids :
           LET id == s.archetypes[a].chunks[c].ids[e]
           IN  /\ id \in DOMAIN s.map
               /\ s.map[id] = [arch |-> a, chunk |-> c, elem |-> e]

\* After every operation the map and the chunks agree: no entity is lost, in
\* two places, or indexed at the place of another, whatever deletion moved
\* entities and freed chunks and archetypes (what setEntityIndexMap checks of
\* the one entry it writes, for all entries).
IndexMapExact == Exact(Store)

\* No chunk holds more entities than its buffer has room for: allocateEntity,
\* createEntity and moveEntityFromOtherChunk write without a check of their
\* own and rely on the search that chose the chunk.
ChunksFit ==
  \A a \in DOMAIN archetypes : archetypes[a] # Null =>
    \A c \in DOMAIN archetypes[a].chunks : archetypes[a].chunks[c] # Null =>
      Len(archetypes[a].chunks[c].ids) <= Capacity[archetypes[a].types]

\* At most one archetype for each set of types, however archetypes come and
\* go: changeComponents tells "nothing to do" by comparing archetypes.
ArchetypesDistinct ==
  \A a, b \in DOMAIN archetypes :
    /\ archetypes[a] # Null
    /\ archetypes[b] # Null
    /\ archetypes[a].types = archetypes[b].types
    => a = b

\* Slots are reclaimed: neither table ends in an empty slot, and no archetype
\* stays behind without a chunk (deleteEntity drops an archetype when, and only
\* when, its chunk vector has shrunk to nothing).
SlotsReclaimed ==
  /\ Trimmed(archetypes)
  /\ \A a \in DOMAIN archetypes : archetypes[a] # Null =>
       archetypes[a].chunks # << >> /\ Trimmed(archetypes[a].chunks)

-----------------------------------------------------------------------------
\* What getComponent and getSharedComponent read, for each type the entity
\* has; a type without data counts as holding Default.
EntityOf(id) ==
  LET ts    == TypesOf(Store, id)
      chunk == ChunkOf(Store, id)
  IN  [t \in ts |-> IF t \in EmptyTypes THEN Default
                    ELSE IF t \in SharedTypes(ts) THEN chunk.shared[t]
                    ELSE chunk.comps[t][entityDataIndexMap[id].elem]]

Abstract == INSTANCE EntityStore
  WITH entities <- [id \in DOMAIN entityDataIndexMap |-> EntityOf(id)],
       issued   <- 1 .. nextEntityId - 1

\* The storage implements EntityStore: an operation on one entity has the
\* promised effect on it and none on any other, whatever moves, swaps and
\* chunk changes it takes.
ImplementsEntityStore == Abstract!Spec

\* Each operation by itself does what EntityStore promises of it, with the
\* arguments it was called with: that the store as a whole implements
\* EntityStore would also hold if one operation did the work of another.
OperationsAsPromised ==
  [][Store' # Store =>
       IF nextEntityId' # nextEntityId
         THEN \A ts \in SUBSET ClientTypes \ {{}} :
                /\ CreateEntity(ts) => Abstract!CreateEntity(nextEntityId, ts)
                /\ \A values \in Initials(ts) :
                     CreateEntityWithValues(values)
                       => Abstract!CreateEntityWithValues(nextEntityId, values)
         ELSE \A id \in DOMAIN entityDataIndexMap :
                /\ DeleteEntity(id) => Abstract!DeleteEntity(id)
                /\ \A ts \in SUBSET ClientTypes :
                     /\ DeleteComponents(id, ts)
                          => Abstract!ChangeTypes(id, TypesOf(Store, id) \ ts)
                     /\ ChangeTypes(id, ts) => Abstract!ChangeTypes(id, ts)
                /\ \A t \in ClientTypes : \A v \in ValuesOf(t) :
                     /\ AddComponent(id, t, v) => Abstract!AddComponent(id, t, v)
                     /\ SetComponent(id, t, v) => Abstract!SetComponent(id, t, v)
    ]_vars

\* Deleting an entity or some of its components never meets undefined
\* behaviour: the archetype it moves to has only shared types it had before,
\* so that every copy of a shared value has a source.
DeletionIsDefined ==
  [][ub' => \A id \in DOMAIN entityDataIndexMap :
              /\ ~ DeleteEntity(id)
              /\ \A ts \in SUBSET ClientTypes : ~ DeleteComponents(id, ts)]_vars

-----------------------------------------------------------------------------
\* Ecs::setSharedComponent with the id of an entity that is gone: operator[]
\* inserts a zeroed place, the first of the first chunk of the first
\* archetype, and the operation goes on with it.  (The id 0 comes from a
\* command with a temporary id nothing was created for.)
SetSharedOfGoneId(id, t, v) ==
  LET ix      == [arch |-> 1, chunk |-> 1, elem |-> 1]
      present == /\ Occupied(archetypes, 1)
                 /\ Occupied(archetypes[1].chunks, 1)
                 /\ t \in SharedTypes(archetypes[1].types)
                 /\ archetypes[1].chunks[1].ids # << >>
  IN  /\ ~ub
      /\ id \in 0 .. nextEntityId - 1 \ DOMAIN entityDataIndexMap
      /\ Becomes(SetSharedAt(Store, id, ix, t, v), ~ present)
      /\ UNCHANGED nextEntityId

NextAnyId ==
  \/ Next
  \/ \E id \in 1 .. MaxId, t \in SharedTypes(ClientTypes), v \in Value :
       SetSharedOfGoneId(id, t, v)

SpecAnyId == Init /\ [][NextAnyId]_vars

\* What the clients see of a store in which ids may lead to places of other
\* entities, or to none.
ReadableIds ==
  {id \in DOMAIN entityDataIndexMap :
     LET ix == entityDataIndexMap[id]
     IN  /\ Occupied(archetypes, ix.arch)
         /\ Occupied(archetypes[ix.arch].chunks, ix.chunk)
         /\ ix.elem \in DOMAIN archetypes[ix.arch].chunks[ix.chunk].ids}

AsSeen == INSTANCE EntityStore
  WITH entities <- [id \in ReadableIds |-> EntityOf(id)],
       issued   <- 1 .. nextEntityId - 1

\* The behaviours up to the first such call.
NextUntilGone ==
  /\ IndexMapExact
  /\ \/ Next
     \/ \E id \in 0 .. MaxId, t \in SharedTypes(ClientTypes), v \in Value :
          SetSharedOfGoneId(id, t, v)

SpecUntilGone == Init /\ [][NextUntilGone]_vars

\* What the deferred commands suppose of this call: it changes the value of one
\* entity, whose own id then leads to nothing or to an entity that was moved to
\* its place, the id that is gone leads to the entity, and no other id to
\* anything else than before.
GoneIdAsSupposed ==
  [][\A id \in 0 .. MaxId, t \in SharedTypes(ClientTypes), v \in Value :
       IndexMapExact /\ SetSharedOfGoneId(id, t, v) /\ ~ub'
         => AsSeen!SetSharedOfGoneId(id, t, v)]_vars

\* What the move to another chunk relies on: the target chunk was selected or
\* created with the shared components in mind, so adding a component to a
\* live entity never meets undefined behaviour.
AddComponentIsDefined ==
  [][\A id \in DOMAIN entityDataIndexMap, t \in ClientTypes, v \in Value :
       AddComponent(id, t, v) => ~ub']_vars

=============================================================================
