----------------------------- MODULE SaveLoad -----------------------------
(***************************************************************************)
(* Saving and loading a store (Ecs::save, Ecs::load with the functions of  *)
(* Archetype, Chunk and typeIdList they call), and entities sent through a *)
(* stream one by one (savePrefab, createEntityFromPrefabStream).           *)
(*                                                                         *)
(* A stream names types by the index they have in the Ecs that writes it,  *)
(* and begins with the names of all of them.  Components of DontSave,      *)
(* State and Internal types are not to be saved; archetypes that differ in *)
(* nothing else are merged.  Values of a type that is not trivially        *)
(* copyable are neither written nor read.                                  *)
(*                                                                         *)
(* A stream is read by the next call: what the writing program does after  *)
(* it is of no interest to the reader.  The reader is a new Ecs, or the    *)
(* same one, which load clears; it has registered every type it meets.     *)
(***************************************************************************)
EXTENDS Ecs, Lists

CONSTANTS
  DontSaveEntity,  \* the internal tag of entities that are not saved
  Raw,             \* the types that are trivially copyable
  FourBytes,       \* the types as large as an int
  TypeIndex,       \* TypeDescriptor.index, in the Ecs that writes
  TypeLists        \* bound: the lists of types the clients give entities

\* The types that are saved: createTypeListWithOnlySavedComponents
SavedTypes(ts) == {t \in ts : Kind[t] \in {"Regular", "Shared"}}

ASSUME SaveLoadAssumption ==
  /\ DontSaveEntity \in EmptyTypes /\ Kind[DontSaveEntity] = "Internal"
  /\ \A t \in Types : Kind[t] = "Internal" => t \in EmptyTypes
  /\ Raw \subseteq Types /\ EmptyTypes \subseteq Raw /\ FourBytes \subseteq Raw
  /\ IsFiniteSet(Types)
  /\ TypeIndex \in [Types -> Nat] /\ IsInjective(TypeIndex)
  /\ Range(TypeIndex) = 0 .. Cardinality(Types) - 1
  /\ TypeLists \subseteq SUBSET ClientTypes \ {{}}

\* A chunk has room for as many entities or more if they have fewer types.
ASSUME CapacityGrows == \A ts \in SUBSET Types : Capacity[ts] <= Capacity[SavedTypes(ts)]

VARIABLE stream   \* what was written last and not read yet

allVars == <<vars, stream>>

None == [kind |-> "none"]

-----------------------------------------------------------------------------
\* The beginning of every stream: the name of the type with each index.
Names == [i \in Range(TypeIndex) |-> CHOOSE t \in Types : TypeIndex[t] = i]

\* Ecs::getTypeIdByName, of the name written for an index: the reader has
\* registered the type under this name, with an index of its own.
TypeNamed(names, i) == names[i]

\* The types of a list of indices, in the Ecs that reads.
Named(names, is) == {TypeNamed(names, i) : i \in is}

IndicesOf(ts) == {TypeIndex[t] : t \in ts}

\* The index that a type was written with.
IndexOf(names, t) == CHOOSE i \in DOMAIN names : names[i] = t

\* The indices is, in the order of the types.
InOrder(is) == Kept([n \in 1 .. Cardinality(Types) |-> n - 1], is)

\* Archetypes that save keeps: not those marked DontSaveEntity, nor those of
\* which no type is saved.
KeepsArchetype(arch) ==
  /\ arch # Null
  /\ DontSaveEntity \notin arch.types
  /\ SavedTypes(arch.types) # {}

\* ComponentArray::save and load, and saveElement and loadElement for one
\* element: nothing is written or read if T is not trivially copyable, and what
\* is there remains.
SaveArray(t, array) == IF t \in Raw THEN array ELSE << >>
LoadArray(t, array, written) == IF t \in Raw THEN written ELSE array
WriteElement(t, v) == IF t \in Raw THEN v ELSE << >>
ReadElement(t, v, written) == IF t \in Raw THEN written ELSE v

SameWhenSaved(arch, other) == SavedTypes(arch.types) = SavedTypes(other.types)

\* The chunks that hold an entity.
Inhabited(arch) == {chunk \in Range(arch.chunks) : chunk # Null /\ chunk.ids # << >>}

\* The chunks of the archetypes that are written as one with that in slot a,
\* in order.
ChunksWritten(archs, a) ==
  FlattenSeq([b \in DOMAIN archs |->
    IF b < a \/ ~KeepsArchetype(archs[b]) \/ ~SameWhenSaved(archs[a], archs[b]) THEN << >>
    ELSE Kept(archs[b].chunks, Inhabited(archs[b]))])

\* A save that does not skip an archetype that was merged with an earlier one.
ArchetypesWrittenAgain(archs) ==
  Kept([a \in DOMAIN archs |-> a],
       {a \in DOMAIN archs : KeepsArchetype(archs[a]) /\ ChunksWritten(archs, a) # << >>})

\* The archetypes that are written, each the first of those merged with it.
ArchetypesWritten(archs) ==
  Kept([a \in DOMAIN archs |-> a],
    {a \in DOMAIN archs :
       /\ KeepsArchetype(archs[a])
       /\ \A b \in 1 .. a - 1 : KeepsArchetype(archs[b]) => ~SameWhenSaved(archs[a], archs[b])
       /\ ChunksWritten(archs, a) # << >>})

\* A save of the arrays of the saved types only.
SaveChunkSaved(chunk) ==
  [ids    |-> chunk.ids,
   comps  |-> [i \in IndicesOf(SavedTypes(DOMAIN chunk.comps)) |->
                 SaveArray(Names[i], chunk.comps[Names[i]])],
   shared |-> [i \in IndicesOf(DOMAIN chunk.shared) |->
                 WriteElement(Names[i], chunk.shared[Names[i]])]]

\* Chunk::save, which leaves out State arrays only.
SaveChunk(chunk) ==
  [ids    |-> chunk.ids,
   comps  |-> [i \in IndicesOf({t \in DOMAIN chunk.comps : Kind[t] # "State"}) |->
                 SaveArray(Names[i], chunk.comps[Names[i]])],
   shared |-> [i \in IndicesOf(DOMAIN chunk.shared) |->
                 WriteElement(Names[i], chunk.shared[Names[i]])]]

SaveArchetype(archs, a) ==
  [types  |-> IndicesOf(SavedTypes(archs[a].types)),
   chunks |-> LET chunks == ChunksWritten(archs, a)
              IN  [n \in DOMAIN chunks |-> SaveChunk(chunks[n])]]

\* Chunks numbered within their own archetype, not within the merged one.
PlacesWrittenUnmerged(archs, written) ==
  {p \in (DOMAIN entityDataIndexMap) \X
       [arch : 1 .. Len(written), chunk : 1 .. MaxChunks, elem : 1 .. MaxId] :
     LET at == entityDataIndexMap[p[1]]
     IN  /\ KeepsArchetype(archs[at.arch])
         /\ SameWhenSaved(archs[at.arch], archs[written[p[2].arch]])
         /\ p[2].chunk = at.chunk /\ p[2].elem = at.elem}

\* The places of the entities of some chunks, in archetype k.
PlacesIn(k, chunks) ==
  UNION {{<<chunks[n].ids[e], [arch |-> k, chunk |-> n, elem |-> e]>> : e \in DOMAIN chunks[n].ids} :
           n \in DOMAIN chunks}

\* entityMapCopy: the places of the entities, as load will number them.
PlacesWritten(archs, written) ==
  UNION {PlacesIn(k, ChunksWritten(archs, written[k])) : k \in DOMAIN written}

\* What a save writes of the archetypes archs.
StoreStream(archs, next) ==
  LET written == ArchetypesWritten(archs)
  IN  [kind         |-> "store",
       names        |-> Names,
       archetypes   |-> [k \in DOMAIN written |-> SaveArchetype(archs, written[k])],
       places       |-> PlacesWritten(archs, written),
       nextEntityId |-> next]

\* Ecs::save
Save ==
  /\ ~ub /\ stream = None
  /\ stream' = StoreStream(archetypes, nextEntityId)
  /\ UNCHANGED vars

-----------------------------------------------------------------------------
\* Chunk::load into a new chunk, whose arrays nothing has been built in.
LoadChunk(ts, saved, names) ==
  [ids    |-> saved.ids,
   comps  |-> [t \in ArrayTypes(ts) |->
                 LoadArray(t, [e \in DOMAIN saved.ids |-> Uninit],
                           saved.comps[IndexOf(names, t)])],
   shared |-> [t \in SharedTypes(ts) |->
                 ReadElement(t, Default, saved.shared[IndexOf(names, t)])]]

\* createArchetype and Archetype::load.
LoadArchetype(archs, saved, names) ==
  LET ts == Named(names, saved.types)
      a  == ArchetypeSlot(archs, ts)
  IN  [WithArchetype(archs, ts) EXCEPT ![a].chunks =
         @ \o [n \in DOMAIN saved.chunks |-> LoadChunk(ts, saved.chunks[n], names)]]

\* The archetypes of a stream, one after the other.
LoadArchetypes(s) ==
  FoldLeft(LAMBDA archs, saved : LoadArchetype(archs, saved, s.names), << >>, s.archetypes)

\* setEntityIndexMap of the places read takes only those where the entity is.
LoadMap(archs, places) ==
  LET found == {p \in places : IsAt(archs, p[1], p[2])}
  IN  [id \in {p[1] : p \in found} |-> (CHOOSE p \in found : p[1] = id)[2]]

\* Chunk::load looks for an array that the archetype does not have.
LoadFaults(s) ==
  \E k \in DOMAIN s.archetypes : \E n \in DOMAIN s.archetypes[k].chunks :
    ~ (Named(s.names, DOMAIN s.archetypes[k].chunks[n].comps)
         \subseteq ArrayTypes(Named(s.names, s.archetypes[k].types)))

\* A load that goes on counting from 1.
LoadedNextIdAnew(s) == 1

\* The id the next entity gets after load.
LoadedNextId(s) == s.nextEntityId

\* Ecs::load
Load ==
  /\ ~ub /\ stream.kind = "store"
  /\ ub' = LoadFaults(stream)
  /\ IF ub' THEN UNCHANGED <<archetypes, entityDataIndexMap, nextEntityId>>
     ELSE /\ archetypes' = LoadArchetypes(stream)
          /\ entityDataIndexMap' = LoadMap(LoadArchetypes(stream), stream.places)
          /\ nextEntityId' = LoadedNextId(stream)
  /\ stream' = None

-----------------------------------------------------------------------------
\* ComponentArray::getElementData of a shared array: the bytes behind its only
\* element, if another one is asked for.
ElementData(chunk, t, e) == IF e = 1 THEN {chunk.shared[t]} ELSE Value

\* The shared values savePrefab(id) writes: each is looked for at the entity's
\* index.
SharedWritten(s, id) ==
  LET chunk == ChunkOf(s, id)
  IN  {shared \in [DOMAIN chunk.shared -> Value] :
         \A t \in DOMAIN shared : shared[t] \in ElementData(chunk, t, s.map[id].elem)}

PrefabStream(types, comps, shared) ==
  [kind   |-> "prefab", names |-> Names, types |-> IndicesOf(types),
   comps  |-> [i \in IndicesOf(DOMAIN comps) |-> comps[Names[i]]],
   shared |-> [i \in IndicesOf(DOMAIN shared) |-> shared[Names[i]]],
   faults |-> FALSE]

\* Chunk::saveElement, which writes the arrays of all types.
SaveElement(chunk, e) ==
  [t \in DOMAIN chunk.comps |-> WriteElement(t, chunk.comps[t][e])]

\* Archetype::savePrefab.  The size written of a shared value is that of an int,
\* whatever its type: the reader gets out of step if its type is not so large.
ElementStream(s, id, shared) ==
  [PrefabStream(SavedTypes(TypesOf(s, id)),
                SaveElement(ChunkOf(s, id), s.map[id].elem), shared)
     EXCEPT !.faults = ~ (DOMAIN shared \subseteq FourBytes)]

\* Ecs::savePrefab(stream, id)
SavePrefab(id) ==
  /\ ~ub /\ stream = None
  /\ \E shared \in SharedWritten(Store, id) : stream' = ElementStream(Store, id, shared)
  /\ UNCHANGED vars

-----------------------------------------------------------------------------
\* Prefab::setDefaultValue of some types, and the constructor with these.
SetDefaultValue(prefab, given) ==
  [t \in DOMAIN prefab |-> IF t \in DOMAIN given THEN given[t] ELSE prefab[t]]

Prefab(ts, given) == SetDefaultValue([t \in ts |-> Default], given)

\* Prefab::saveComponents
SaveComponents(prefab, kind) == [t \in {u \in DOMAIN prefab : Kind[u] = kind} |-> prefab[t]]

\* Ecs::savePrefab(stream, prefab): all types are listed, Regular and Shared
\* values are written, by their size in C++ (one byte for a type without data)
\* even where the reader reads nothing and gets out of step.
StreamOf(prefab) ==
  [PrefabStream(DOMAIN prefab, SaveComponents(prefab, "Regular"),
                               SaveComponents(prefab, "Shared"))
     EXCEPT !.faults = \/ ~ (SavedTypes(DOMAIN prefab) \subseteq Raw)
                       \/ \E t \in DOMAIN prefab \cap EmptyTypes : Kind[t] = "Shared"]

SavePrefabOf(prefab) ==
  /\ ~ub /\ stream = None
  /\ stream' = StreamOf(prefab)
  /\ UNCHANGED vars

\* Ecs::createEntity(prefab, values), the values instead of the prefab's own.
CreateEntityFromPrefab(prefab, given) == CreateEntityWithValues(SetDefaultValue(prefab, given))

\* A loadElement that reads into the first element of the chunk.
LoadElementFirst(chunk, e, comps, names) ==
  [chunk EXCEPT !.comps = [t \in DOMAIN chunk.comps |->
     IF \A i \in DOMAIN comps : names[i] # t THEN chunk.comps[t]
     ELSE [chunk.comps[t] EXCEPT ![1] = ReadElement(t, @, comps[IndexOf(names, t)])]]]

\* Chunk::loadElement: values that are not trivially copyable stay T{}.
LoadElement(chunk, e, comps, names) ==
  [chunk EXCEPT !.comps = [t \in DOMAIN chunk.comps |->
     IF \A i \in DOMAIN comps : names[i] # t THEN chunk.comps[t]
     ELSE [chunk.comps[t] EXCEPT ![e] = ReadElement(t, @, comps[IndexOf(names, t)])]]]

\* The place of the entity with a shared value from the stream.  The value of a
\* type without data is no other: nothing is compared.
SetSharedLoaded(s, id, t, v) ==
  LET ix    == s.map[id]
      chunk == ChunkOf(s, id)
      set   == ArchSetShared(s.archetypes[ix.arch], ix.chunk, ix.elem, t, v)
      moved == MovedId(chunk, ix.elem)
      new   == SetIndex(StoreOf(Stored(s.archetypes, ix.arch, set.arch), s.map),
                        id, LastPlace(ix.arch, set))
  IN  IF t \notin DOMAIN chunk.shared THEN s
      ELSE IF chunk.shared[t] = v THEN s
      ELSE IF moved = 0 THEN new ELSE SetIndex(new, moved, ix)

\* Archetype::createEntityFromStream, up to the shared values.
ArchCreateFromStream(arch, id, s) ==
  LET ready == ArchCreate(arch, id)
      chunk == Chosen(ready)
  IN  Into(ready, LoadElement(chunk, Len(chunk.ids), s.comps, s.names))

\* Archetype::createEntityFromStream
CreateFromStream(store, id, s) ==
  LET ts     == Named(s.names, s.types)
      a      == ArchetypeSlot(store.archetypes, ts)
      archs  == WithArchetype(store.archetypes, ts)
      made   == ArchCreateFromStream(archs[a], id, s)
      placed == SetIndex(StoreOf(Stored(archs, a, made.arch), store.map), id, LastPlace(a, made))
  IN  FoldLeft(LAMBDA st, i : SetSharedLoaded(st, id, s.names[i], s.shared[i]), placed,
               InOrder(DOMAIN s.shared))

\* The reader gets out of step, or looks for an array the entity does not have.
CreateFaults(s) ==
  \/ s.faults
  \/ ~ (Named(s.names, DOMAIN s.comps) \subseteq ArrayTypes(Named(s.names, s.types)))

\* Ecs::createEntityFromPrefabStream.  The stream of an entity without saved
\* types makes one without any.
CreateEntityFromPrefabStream ==
  /\ ~ub /\ stream.kind = "prefab"
  /\ nextEntityId \in 1 .. MaxId
  /\ IF CreateFaults(stream)
       THEN ub' = TRUE /\ UNCHANGED <<archetypes, entityDataIndexMap>>
       ELSE Becomes(CreateFromStream(Store, nextEntityId, stream), FALSE)
  /\ nextEntityId' = nextEntityId + 1
  /\ stream' = None

-----------------------------------------------------------------------------
\* The default values a client gives for some of these types.
Given(ts) == UNION {Initials(some) : some \in SUBSET ts}

StoreOperation ==
  /\ stream = None
  /\ \/ \E ts \in TypeLists :
          \/ CreateEntity(ts)
          \/ \E given \in Given(ts) : CreateEntityFromPrefab(Prefab(ts, << >>), given)
     \/ \E id \in DOMAIN entityDataIndexMap :
          \/ DeleteEntity(id)
          \/ \E ts \in TypeLists : ChangeTypes(id, ts)
          \/ \E t \in TypesOf(Store, id) : \E v \in ValuesOf(t) : SetComponent(id, t, v)
  /\ UNCHANGED stream

SaveLoadInit == Init /\ stream = None

SaveLoadNext ==
  \/ StoreOperation
  \/ Save
  \/ Load
  \/ \E id \in DOMAIN entityDataIndexMap : SavePrefab(id)
  \/ \E ts \in TypeLists : \E given \in Given(ts) : SavePrefabOf(Prefab(ts, given))
  \/ CreateEntityFromPrefabStream

SaveLoadSpec == SaveLoadInit /\ [][SaveLoadNext]_allVars

-----------------------------------------------------------------------------
\* The type invariant of the store, which the loaded one satisfies too, and of
\* the ids: none is given out twice, before or after a load.
SaveLoadTypeOK ==
  /\ TypeOK
  /\ \A id \in DOMAIN entityDataIndexMap : id < nextEntityId
  /\ stream.kind \in {"none", "store", "prefab"}

Entities == [id \in DOMAIN entityDataIndexMap |-> EntityOf(id)]

\* What is left of an entity by a stream: its saved types.
AsLoaded(e) ==
  [t \in SavedTypes(DOMAIN e) |->
     IF t \in Raw THEN e[t] ELSE IF Kind[t] = "Shared" THEN Default ELSE Uninit]

\* Loading what was saved gives the same entities under the same ids, without
\* the components that are not saved, and without the entities marked as not
\* saved or left with nothing to save; and the index agrees with the chunks,
\* although archetypes were merged and chunks and archetypes renumbered.
RoundTrip ==
  [][stream.kind = "store" /\ stream' = None /\ ~ub' =>
       /\ Entities' = [id \in {i \in DOMAIN Entities :
                                 /\ DontSaveEntity \notin DOMAIN Entities[i]
                                 /\ SavedTypes(DOMAIN Entities[i]) # {}} |-> AsLoaded(Entities[id])]
       /\ Exact(Store)']_allVars

\* The load of a saved store meets undefined behaviour exactly if one of the
\* entities saved has a DontSave component with data: its array is written,
\* but the archetype it is read into does not have one.
LoadFaultsByDontSaveOnly ==
  [][stream.kind = "store" /\ stream' = None =>
       (ub' <=> \E e \in Range(Entities) :
                  /\ DontSaveEntity \notin DOMAIN e /\ SavedTypes(DOMAIN e) # {}
                  /\ \E t \in ArrayTypes(DOMAIN e) : Kind[t] = "DontSave")]_allVars

\* An entity made from the stream of a prefab or of another entity has the
\* values written, built as T{} where none are, and no other entity changes.
PrefabCopy ==
  [][stream.kind = "prefab" /\ stream' = None /\ ~ub' =>
       /\ DOMAIN Entities' = DOMAIN Entities \union {nextEntityId}
       /\ \A id \in DOMAIN Entities : Entities'[id] = Entities[id]
       /\ \A i \in stream.types :
            LET t == stream.names[i]
            IN  Entities'[nextEntityId][t] =
                  IF i \in DOMAIN stream.shared THEN stream.shared[i]
                  ELSE IF i \in DOMAIN stream.comps /\ t \in Raw THEN stream.comps[i]
                  ELSE Default]_allVars
=============================================================================
