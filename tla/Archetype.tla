---------------------------- MODULE Archetype ----------------------------
(***************************************************************************)
(* An archetype (archetype.h, archetype_impl.h): the chunks that hold the  *)
(* entities with exactly one set of component types.  A chunk that becomes *)
(* empty is freed and its slot reused, so that the indices of the other    *)
(* chunks stay valid; only trailing empty slots are dropped.               *)
(*                                                                         *)
(* The record of an archetype is                                           *)
(*     types   containedTypes_                                             *)
(*     chunks  a sequence of slots, each a chunk or Null                   *)
(*     filled  currentlyFilledChunkIndex, 0 for the code's -1              *)
(***************************************************************************)
EXTENDS Chunk, SequencesExt

\* An empty std::unique_ptr.
Null == [null |-> TRUE]

Occupied(slots, i) == i \in DOMAIN slots /\ slots[i] # Null

EmptySlots(slots) == {i \in DOMAIN slots : slots[i] = Null}

\* The first empty slot, or the position after the last one.
FreeSlot(slots) ==
  IF EmptySlots(slots) = {} THEN Len(slots) + 1 ELSE Min(EmptySlots(slots))

\* x in slot i; emplace_back if i is the position after the last slot.
PutSlot(slots, i, x) ==
  IF i \in DOMAIN slots THEN [slots EXCEPT ![i] = x] ELSE Append(slots, x)

\* reset() of slot i, and pop_back() while the last slot is empty.
FreeSlotAt(slots, i) ==
  LET used == DOMAIN slots \ (EmptySlots(slots) \cup {i})
  IN  SubSeq([slots EXCEPT ![i] = Null], 1, Max({0} \cup used))

-----------------------------------------------------------------------------

NewArchetype(ts) == [types |-> ts, chunks |-> << >>, filled |-> 0]

\* An off-by-one in the comparison of size and capacity.
HasRoomOffByOne(arch, c) ==
  /\ Occupied(arch.chunks, c)
  /\ Len(arch.chunks[c].ids) <= Capacity[arch.types]

HasRoom(arch, c) ==
  /\ Occupied(arch.chunks, c)
  /\ Len(arch.chunks[c].ids) < Capacity[arch.types]

\* A search that ignores the shared values.
FittingAnyValue(arch, data) == {c \in DOMAIN arch.chunks : HasRoom(arch, c)}

\* The chunks with room whose shared values agree with data: on the shared
\* types of the archetype that data has a value of.
Fitting(arch, data) ==
  {c \in DOMAIN arch.chunks : HasRoom(arch, c) /\ SharedMatch(arch.chunks[c], data)}

\* The one a search from the first slot on finds; 0 if there is none.
FirstFitting(arch, data) ==
  IF Fitting(arch, data) = {} THEN 0 ELSE Min(Fitting(arch, data))

\* A chunk just made for the archetype, with the shared values of data.
ChunkWith(arch, data) ==
  LET new == NewChunk(arch.types) IN [new EXCEPT !.shared = WithShared(new, data)]

WithChunk(arch, c, chunk) == [arch EXCEPT !.chunks[c] = chunk]

\* The search for a chunk returns the archetype as it leaves it and the slot:
\* ready.  The operation then replaces the chunk in that slot.
Chosen(ready) == ready.arch.chunks[ready.slot]

Into(ready, chunk) ==
  [arch |-> WithChunk(ready.arch, ready.slot, chunk), slot |-> ready.slot]

\* Archetype::getOrCreateChunkForNewEntity(): the chunk filled last while it
\* has room, whatever its shared values.
ChunkForNewEntity(arch) ==
  LET slot == FreeSlot(arch.chunks)
  IN  IF HasRoom(arch, arch.filled) THEN [arch |-> arch, slot |-> arch.filled]
      ELSE [arch |-> [types  |-> arch.types,
                      chunks |-> PutSlot(arch.chunks, slot, NewChunk(arch.types)),
                      filled |-> slot],
            slot |-> slot]

\* Archetype::createEntity
ArchCreate(arch, id) ==
  LET ready == ChunkForNewEntity(arch) IN Into(ready, ChunkCreate(Chosen(ready), id))

\* Archetype::getOrCreateChunkForNewEntity(sharedComponentDatas), with
\* createChunk: a chunk with these shared values, or a new one.
ChunkWithShared(arch, data) ==
  LET c    == FirstFitting(arch, data)
      slot == FreeSlot(arch.chunks)
  IN  IF c # 0 THEN [arch |-> arch, slot |-> c]
      ELSE [arch |-> [arch EXCEPT !.chunks = PutSlot(@, slot, ChunkWith(arch, data))],
            slot |-> slot]

\* Ecs::createSharedComponentDataList
SharedComponentDataList(ts, values) == [t \in SharedTypes(ts) |-> values[t]]

\* Archetype::allocateEntity, with the writes of Ecs::createEntity(values).
ArchAllocate(arch, id, values) ==
  LET ready == ChunkWithShared(arch, SharedComponentDataList(arch.types, values))
  IN  Into(ready, ChunkAllocate(Chosen(ready), id, values))

\* Archetype::getOrCreateChunkForMovedEntity: a chunk that agrees with the
\* source chunk on the shared types both have.  If there is none, EVERY empty
\* slot gets a new chunk and the last of them is used.
ChunkForMovedEntity(arch, source) ==
  LET c     == FirstFitting(arch, source.shared)
      empty == EmptySlots(arch.chunks)
      slots == [i \in DOMAIN arch.chunks |->
                  IF i \in empty THEN NewChunk(arch.types) ELSE arch.chunks[i]]
      slot  == IF empty = {} THEN Len(slots) + 1 ELSE Max(empty)
  IN  IF c # 0 THEN [arch |-> arch, slot |-> c]
      ELSE [arch |-> [arch EXCEPT !.chunks =
                        PutSlot(slots, slot, ChunkWith(arch, source.shared))],
            slot |-> slot]

\* A copy loop over the shared arrays of the source instead.
MoveReadsNullOfTarget(arch, source) ==
  /\ FirstFitting(arch, source.shared) = 0
  /\ ~ (DOMAIN source.shared \subseteq SharedTypes(arch.types))

\* The copy of the shared values into a new chunk reads, for each of its
\* shared types, the array of the source chunk: a null pointer if the source
\* has no such type.
MoveReadsNull(arch, source) ==
  /\ FirstFitting(arch, source.shared) = 0
  /\ ~ (SharedTypes(arch.types) \subseteq DOMAIN source.shared)

\* Archetype::moveFromEntity: the entity is added here, not yet removed there.
ArchMoveIn(arch, source, i) ==
  LET ready == ChunkForMovedEntity(arch, source)
  IN  Into(ready, ChunkMoveIn(Chosen(ready), source, i))

\* Archetype::deleteEntity, with deleteChunk when the chunk becomes empty.
ArchDelete(arch, c, i) ==
  LET chunk == ChunkDelete(arch.chunks[c], i)
  IN  IF chunk.ids = << >> THEN [arch EXCEPT !.chunks = FreeSlotAt(@, c)]
                           ELSE WithChunk(arch, c, chunk)

\* Archetype::setSharedComponent, when the value changes: to a chunk with the
\* new value and the same other shared values, or to a new last slot.
ArchSetShared(arch, c, i, t, v) ==
  LET source == arch.chunks[c]
      wanted == [source.shared EXCEPT ![t] = v]
      found  == FirstFitting(arch, wanted)
      slot   == IF found # 0 THEN found ELSE Len(arch.chunks) + 1
      target == IF found # 0 THEN arch.chunks[found]
                ELSE ChunkWith(arch, wanted)
      moved  == [arch EXCEPT !.chunks = PutSlot(@, slot, ChunkMoveIn(target, source, i))]
  IN  [arch |-> ArchDelete(moved, c, i), slot |-> slot]

-----------------------------------------------------------------------------
\* A sequence, of whatever it holds.
IsSequence(s) == Len(s) \in Nat /\ s = [i \in 1 .. Len(s) |-> s[i]]

IsArchetype(arch) ==
  /\ arch \in [types : SUBSET Types, chunks : {arch.chunks}, filled : Nat]
  /\ IsSequence(arch.chunks)
  /\ \A c \in DOMAIN arch.chunks :
       arch.chunks[c] # Null => IsChunk(arch.chunks[c], arch.types)

\* The last slot is occupied, as long as there is one.
Trimmed(slots) == slots # << >> => slots[Len(slots)] # Null

=============================================================================
