------------------------------ MODULE Chunk ------------------------------
(***************************************************************************)
(* A chunk (component_array.h: Chunk, ComponentArray): a fixed buffer with *)
(* the ids of its entities, one array per component type that has data,    *)
(* and one value per shared component type.  Entities occupy the first     *)
(* positions without a gap: a deletion fills the hole with the last one.   *)
(*                                                                         *)
(* The record of a chunk is                                                *)
(*     ids     the entity ids; its length is the chunk's size              *)
(*     comps   for each array type the sequence of its elements            *)
(*     shared  for each shared type its value                              *)
(* Positions, and all indices below, count from 1 where the code counts    *)
(* from 0.  Memory after the last entity is never read and not modelled.   *)
(***************************************************************************)
EXTENDS ComponentTypes, Sequences

CONSTANT Capacity   \* entityCapacity of a chunk, for each set of types

ASSUME CapacityAssumption == Capacity \in [SUBSET Types -> Nat \ {0}]

\* Chunk::Chunk: no entity, each shared value built as T{}.
NewChunk(ts) ==
  [ids    |-> << >>,
   comps  |-> [t \in ArrayTypes(ts) |-> << >>],
   shared |-> [t \in SharedTypes(ts) |-> Default]]

\* Chunk::createEntity: every component of the new entity is built as T{}.
ChunkCreate(chunk, id) ==
  [ids    |-> Append(chunk.ids, id),
   comps  |-> [t \in DOMAIN chunk.comps |-> Append(chunk.comps[t], Default)],
   shared |-> chunk.shared]

\* Chunk::allocateEntity, the id written by Ecs::createEntity, and
\* setInitialComponentValues: only Regular components receive their value.
ChunkAllocate(chunk, id, values) ==
  [ids    |-> Append(chunk.ids, id),
   comps  |-> [t \in DOMAIN chunk.comps |->
                 Append(chunk.comps[t], IF Kind[t] = "Regular" THEN values[t] ELSE Uninit)],
   shared |-> chunk.shared]

\* Removal of position i: the last element takes its place.
SwapDrop(seq, i) ==
  [j \in 1 .. Len(seq) - 1 |-> IF j = i THEN seq[Len(seq)] ELSE seq[j]]

\* A deletion that moves the id of the last entity but not its components.
ChunkDeleteIdOnly(chunk, i) ==
  [ids    |-> SwapDrop(chunk.ids, i),
   comps  |-> [t \in DOMAIN chunk.comps |-> SubSeq(chunk.comps[t], 1, Len(chunk.ids) - 1)],
   shared |-> chunk.shared]

\* Chunk::deleteEntity, with ComponentArray::deleteEntity on each array.
ChunkDelete(chunk, i) ==
  [ids    |-> SwapDrop(chunk.ids, i),
   comps  |-> [t \in DOMAIN chunk.comps |-> SwapDrop(chunk.comps[t], i)],
   shared |-> chunk.shared]

\* What Chunk::deleteEntity returns: the id moved to position i, or 0.
MovedId(chunk, i) == IF i = Len(chunk.ids) THEN 0 ELSE chunk.ids[Len(chunk.ids)]

\* A move that builds nothing for the components the source does not have.
ChunkMoveInWithoutNew(chunk, source, i) ==
  [ids    |-> Append(chunk.ids, source.ids[i]),
   comps  |-> [t \in DOMAIN chunk.comps |->
                 IF t \in DOMAIN source.comps
                   THEN Append(chunk.comps[t], source.comps[t][i]) ELSE chunk.comps[t]],
   shared |-> chunk.shared]

\* Chunk::moveEntityFromOtherChunk: a component the source does not have is
\* built as T{}; the shared values of the target stay what they are.
ChunkMoveIn(chunk, source, i) ==
  [ids    |-> Append(chunk.ids, source.ids[i]),
   comps  |-> [t \in DOMAIN chunk.comps |->
                 Append(chunk.comps[t], IF t \in DOMAIN source.comps
                                          THEN source.comps[t][i] ELSE Default)],
   shared |-> chunk.shared]

\* The element i of the array of t becomes v.
ChunkSet(chunk, i, t, v) ==
  [ids    |-> chunk.ids,
   comps  |-> [chunk.comps EXCEPT ![t] = [@ EXCEPT ![i] = v]],
   shared |-> chunk.shared]

\* The chunk's shared values are those of data, for each type both have.
SharedMatch(chunk, data) ==
  \A t \in DOMAIN chunk.shared \cap DOMAIN data : chunk.shared[t] = data[t]

\* The chunk's shared values, those data has a value of replaced.
WithShared(chunk, data) ==
  [t \in DOMAIN chunk.shared |-> IF t \in DOMAIN data THEN data[t] ELSE chunk.shared[t]]

-----------------------------------------------------------------------------
\* Exactly the arrays and shared values of the types ts, all arrays as long as
\* the list of ids.
IsChunk(chunk, ts) ==
  /\ chunk \in [ids    : Seq(Nat \ {0}),
                comps  : [ArrayTypes(ts) -> Seq(Value \cup {Uninit})],
                shared : [SharedTypes(ts) -> Value]]
  /\ \A t \in ArrayTypes(ts) : Len(chunk.comps[t]) = Len(chunk.ids)

=============================================================================
