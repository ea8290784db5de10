-------------------------- MODULE SaveLoadProofs --------------------------
(***************************************************************************)
(* Proofs about saving and loading, and about entities sent through a      *)
(* stream: a loaded store is as well formed as one that was built by       *)
(* operations and has the entities that were saved, a load faults exactly  *)
(* for DontSave components with data, and an entity made from a stream has *)
(* what was written.                                                       *)
(*                                                                         *)
(* The inductive invariant is that of the store (EcsProofs) and one clause *)
(* on the stream: what is in it was written in the present state, or is    *)
(* the stream of one entity or prefab.  The proofs follow the code: which  *)
(* chunks are written, each once; which archetypes a load makes of them;   *)
(* which places it finds; and what an entity made from a stream gets.      *)
(***************************************************************************)
EXTENDS SaveLoad, EcsProofs, ListProofs

-----------------------------------------------------------------------------
\* Types and their indices.

\* Every type is written with its own index, and found again by its name.
LEMMA NamesAre ==
  /\ DOMAIN Names = Range(TypeIndex)
  /\ \A t \in Types : /\ TypeIndex[t] \in DOMAIN Names
                      /\ Names[TypeIndex[t]] = t
                      /\ IndexOf(Names, t) = TypeIndex[t]
  /\ \A i \in DOMAIN Names : Names[i] \in Types /\ TypeIndex[Names[i]] = i
<1>1. DOMAIN Names = Range(TypeIndex) /\ DOMAIN TypeIndex = Types
  BY SaveLoadAssumption DEF Names
<1>2. \A t, u \in Types : TypeIndex[t] = TypeIndex[u] => t = u
  BY <1>1, SaveLoadAssumption DEF IsInjective
<1>3. ASSUME NEW i \in DOMAIN Names
      PROVE  Names[i] \in Types /\ TypeIndex[Names[i]] = i
  <2>1. \E t \in Types : TypeIndex[t] = i
    BY <1>1, <1>3 DEF Range
  <2> QED
    BY <1>1, <2>1 DEF Names
<1>4. ASSUME NEW t \in Types
      PROVE  /\ TypeIndex[t] \in DOMAIN Names
             /\ Names[TypeIndex[t]] = t
             /\ IndexOf(Names, t) = TypeIndex[t]
  <2>1. TypeIndex[t] \in DOMAIN Names
    BY <1>1 DEF Range
  <2>2. Names[TypeIndex[t]] = t
    BY <1>2, <1>3, <2>1
  <2>3. \A i \in DOMAIN Names : Names[i] = t <=> i = TypeIndex[t]
    BY <1>3, <2>1, <2>2
  <2> QED
    BY <2>1, <2>2, <2>3 DEF IndexOf
<1> QED
  BY <1>1, <1>3, <1>4

\* The types of a list of indices are those that were written.
LEMMA NamedIndices ==
  ASSUME NEW ts \in SUBSET Types
  PROVE  /\ Named(Names, IndicesOf(ts)) = ts
         /\ IndicesOf(ts) \subseteq DOMAIN Names
         /\ \A t \in Types : TypeIndex[t] \in IndicesOf(ts) <=> t \in ts
         /\ \A i \in IndicesOf(ts) : Names[i] \in ts /\ TypeIndex[Names[i]] = i
<1>1. \A i \in IndicesOf(ts) : Names[i] \in ts /\ TypeIndex[Names[i]] = i
  BY NamesAre DEF IndicesOf
<1>2. \A t \in Types : TypeIndex[t] \in IndicesOf(ts) <=> t \in ts
  BY <1>1, NamesAre DEF IndicesOf
<1>3. IndicesOf(ts) \subseteq DOMAIN Names
  BY NamesAre DEF IndicesOf
<1>4. Named(Names, IndicesOf(ts)) = ts
  <2>1. \A t \in ts : \E i \in IndicesOf(ts) : Names[i] = t
    BY NamesAre DEF IndicesOf
  <2> QED
    BY <1>1, <2>1 DEF Named, TypeNamed
<1> QED
  BY <1>1, <1>2, <1>3, <1>4

\* The types of a list that are saved.
LEMMA SavedAre ==
  ASSUME NEW us \in SUBSET Types, NEW ts, ts = SavedTypes(us)
  PROVE  /\ ts \in SUBSET us /\ ts \in SUBSET Types
         /\ SavedTypes(ts) = ts
         /\ ArrayTypes(ts) = {t \in ArrayTypes(us) : Kind[t] = "Regular"}
         /\ SharedTypes(ts) = SharedTypes(us)
         /\ Capacity[us] <= Capacity[ts]
BY CapacityGrows DEF SavedTypes, ArrayTypes, SharedTypes

\* The arrays and shared values of a chunk that was saved and loaded: what is
\* trivially copyable is there again.
LoadedAs(new, chunk, ts) ==
  /\ \A t \in ArrayTypes(ts) :
       new.comps[t] = IF t \in Raw THEN chunk.comps[t] ELSE [e \in DOMAIN chunk.ids |-> Uninit]
  /\ \A t \in SharedTypes(ts) :
       new.shared[t] = IF t \in Raw THEN chunk.shared[t] ELSE Default

\* A chunk that was saved and loaded.
LEMMA LoadedChunkIs ==
  ASSUME NEW us \in SUBSET Types, NEW ts, ts = SavedTypes(us),
         NEW chunk, IsChunk(chunk, us),
         NEW new, new = LoadChunk(ts, SaveChunk(chunk), Names)
  PROVE  /\ IsChunk(new, ts)
         /\ new.ids = chunk.ids
         /\ LoadedAs(new, chunk, ts)
<1>1. /\ ts \in SUBSET us /\ ts \in SUBSET Types
      /\ ArrayTypes(ts) = {t \in ArrayTypes(us) : Kind[t] = "Regular"}
      /\ SharedTypes(ts) = SharedTypes(us)
  BY SavedAre
<1>2. /\ chunk.ids \in Seq(Nat \ {0})
      /\ chunk.comps \in [ArrayTypes(us) -> Seq(Element)]
      /\ chunk.shared \in [SharedTypes(us) -> Value]
      /\ \A t \in ArrayTypes(us) : Len(chunk.comps[t]) = Len(chunk.ids)
  BY DEF IsChunk, Element
<1>3. ArrayTypes(us) \in SUBSET Types /\ SharedTypes(us) \in SUBSET Types
  BY DEF ArrayTypes, SharedTypes
<1> DEFINE kept == {t \in DOMAIN chunk.comps : Kind[t] # "State"}
           saved == SaveChunk(chunk)
<1>4. kept \in SUBSET Types /\ ArrayTypes(ts) \subseteq kept /\ DOMAIN chunk.shared = SharedTypes(us)
  BY <1>1, <1>2, <1>3
<1>5. /\ saved.ids = chunk.ids
      /\ saved.comps = [i \in IndicesOf(kept) |-> SaveArray(Names[i], chunk.comps[Names[i]])]
      /\ saved.shared = [i \in IndicesOf(SharedTypes(us)) |->
                           WriteElement(Names[i], chunk.shared[Names[i]])]
  BY <1>4 DEF SaveChunk
<1> HIDE DEF kept, saved
<1>6. ASSUME NEW t \in ArrayTypes(ts)
      PROVE  saved.comps[IndexOf(Names, t)] = SaveArray(t, chunk.comps[t])
  <2>1. t \in Types /\ t \in kept
    BY <1>1, <1>4
  <2>2. TypeIndex[t] \in IndicesOf(kept)
    BY <1>4, <2>1, NamedIndices
  <2> QED
    BY <1>5, <2>1, <2>2, NamesAre
<1>7. ASSUME NEW t \in SharedTypes(ts)
      PROVE  saved.shared[IndexOf(Names, t)] = WriteElement(t, chunk.shared[t])
  <2>1. t \in Types /\ t \in SharedTypes(us)
    BY <1>1, <1>3
  <2>2. TypeIndex[t] \in IndicesOf(SharedTypes(us))
    BY <1>3, <2>1, NamedIndices
  <2> QED
    BY <1>5, <2>1, <2>2, NamesAre
<1>8. /\ new.ids = saved.ids
      /\ new.comps = [t \in ArrayTypes(ts) |->
                        LoadArray(t, [e \in DOMAIN saved.ids |-> Uninit],
                                  saved.comps[IndexOf(Names, t)])]
      /\ new.shared = [t \in SharedTypes(ts) |->
                         ReadElement(t, Default, saved.shared[IndexOf(Names, t)])]
      /\ new = [ids |-> new.ids, comps |-> new.comps, shared |-> new.shared]
  BY DEF LoadChunk, saved
<1>9. new.ids = chunk.ids
  BY <1>5, <1>8
<1>10. \A t \in ArrayTypes(ts) :
         new.comps[t] = IF t \in Raw THEN chunk.comps[t] ELSE [e \in DOMAIN chunk.ids |-> Uninit]
  <2>1. PICK blank : blank = [e \in DOMAIN chunk.ids |-> Uninit]
    OBVIOUS
  <2>2. \A t \in ArrayTypes(ts) :
          new.comps[t] = LoadArray(t, blank, saved.comps[IndexOf(Names, t)])
    BY <1>5, <1>8, <2>1
  <2>3. \A t \in ArrayTypes(ts) : new.comps[t] = LoadArray(t, blank, SaveArray(t, chunk.comps[t]))
    BY <1>6, <2>2
  <2>4. \A t \in ArrayTypes(ts) : new.comps[t] = IF t \in Raw THEN chunk.comps[t] ELSE blank
    BY <2>3 DEF LoadArray, SaveArray
  <2> QED
    BY <2>1, <2>4
<1>11. \A t \in SharedTypes(ts) :
         new.shared[t] = IF t \in Raw THEN chunk.shared[t] ELSE Default
  BY <1>7, <1>8 DEF ReadElement, WriteElement
<1>12. /\ Len(chunk.ids) \in Nat
       /\ [e \in DOMAIN chunk.ids |-> Uninit] \in Seq(Element)
       /\ Len([e \in DOMAIN chunk.ids |-> Uninit]) = Len(chunk.ids)
  <2>1. Len(chunk.ids) \in Nat /\ DOMAIN chunk.ids = 1 .. Len(chunk.ids)
    BY <1>2, LenProperties
  <2>2. [e \in 1 .. Len(chunk.ids) |-> Uninit] \in Seq(Element)
        /\ Len([e \in 1 .. Len(chunk.ids) |-> Uninit]) = Len(chunk.ids)
    BY <2>1 DEF Element
  <2> QED
    BY <2>1, <2>2
<1>13. new.comps \in [ArrayTypes(ts) -> Seq(Element)]
  <2>1. \A t \in ArrayTypes(ts) : new.comps[t] \in Seq(Element)
    BY <1>1, <1>2, <1>10, <1>12
  <2> QED
    BY <1>8, <2>1
<1>14. \A t \in ArrayTypes(ts) : Len(new.comps[t]) = Len(new.ids)
  BY <1>1, <1>2, <1>9, <1>10, <1>12
<1>15. new.shared \in [SharedTypes(ts) -> Value]
  <2>1. \A t \in SharedTypes(ts) : new.shared[t] \in Value
    BY <1>1, <1>2, <1>11, TypesAssumption
  <2> QED
    BY <1>8, <2>1
<1>16. new \in [ids : Seq(Nat \ {0}), comps : [ArrayTypes(ts) -> Seq(Element)],
                shared : [SharedTypes(ts) -> Value]]
  BY <1>2, <1>8, <1>9, <1>13, <1>15
<1>17. IsChunk(new, ts)
  BY <1>14, <1>16 DEF IsChunk, Element
<1> QED
  BY <1>9, <1>10, <1>11, <1>17 DEF LoadedAs

-----------------------------------------------------------------------------
\* What is written.

\* There is a chunk with entities in slot c of archetype b.
Inhabits(archs, b, c) ==
  /\ Occupied(archs, b)
  /\ Occupied(archs[b].chunks, c)
  /\ archs[b].chunks[c].ids # << >>

\* Between two operations the map names the place of every entity in a chunk.
LEMMA IdAtPlace ==
  ASSUME NEW archs, TableOK(archs), NEW map, ExactCells(Cells(archs), map),
         NEW b, NEW c, Occupied(archs, b), Occupied(archs[b].chunks, c),
         NEW ids, ids = archs[b].chunks[c].ids, NEW e \in DOMAIN ids
  PROVE  /\ ids[e] \in Nat \ {0}
         /\ ids[e] \in DOMAIN map
         /\ map[ids[e]] = [arch |-> b, chunk |-> c, elem |-> e]
<1> DEFINE p == <<b, c>>
<1>1. PICK arch : arch = archs[b]
  OBVIOUS
<1>2. b \in Nat /\ ArchOK(arch)
  BY <1>1, TableFields
<1>3. Occupied(arch.chunks, c) /\ arch.chunks[c].ids = ids
  BY <1>1
<1>4. c \in Nat
  <2>1. IsSequence(arch.chunks) /\ c \in 1 .. Len(arch.chunks)
    BY <1>2, <1>3, ArchetypeFields
  <2> QED
    BY <2>1, SequenceType
<1>5. ChunkIds(arch, c) = ids /\ ids \in Seq(Nat \ {0})
  BY <1>2, <1>3, ChunkIdsType DEF ChunkIds
<1>6. p \in CellIndex /\ Cells(archs)[p] = ids
  BY <1>1, <1>2, <1>4, <1>5, CellsType DEF CellIndex, IdsAt
<1>7. ids[e] \in DOMAIN map /\ map[ids[e]] = PlaceIn(p, e)
  BY <1>6 DEF ExactCells
<1> QED
  BY <1>5, <1>7 DEF PlaceIn, p

\* No two slots hold the same chunk, if it has an entity.
LEMMA InhabitedOnce ==
  ASSUME NEW archs, TableOK(archs), NEW map, ExactCells(Cells(archs), map),
         NEW b, NEW c, Inhabits(archs, b, c), NEW d, NEW f, Inhabits(archs, d, f),
         archs[b].chunks[c] = archs[d].chunks[f]
  PROVE  b = d /\ c = f
<1>1. PICK ids : ids = archs[b].chunks[c].ids
  OBVIOUS
<1>2. ids = archs[d].chunks[f].ids
  BY <1>1
<1>3. 1 \in DOMAIN ids
  <2>1. ArchOK(archs[b]) /\ Occupied(archs[b].chunks, c)
    BY TableFields DEF Inhabits
  <2>2. ids = ChunkIds(archs[b], c)
    BY <1>1, <2>1 DEF ChunkIds
  <2>3. ids \in Seq(Nat \ {0}) /\ ids # << >>
    BY <1>1, <2>1, <2>2, ChunkIdsType DEF Inhabits
  <2> QED
    BY <2>3, EmptySeq, LenProperties
<1>4. map[ids[1]] = [arch |-> b, chunk |-> c, elem |-> 1]
  BY <1>1, <1>3, IdAtPlace DEF Inhabits
<1>5. map[ids[1]] = [arch |-> d, chunk |-> f, elem |-> 1]
  BY <1>2, <1>3, IdAtPlace DEF Inhabits
<1> QED
  BY <1>4, <1>5

\* What is in a slot of an archetype.
LEMMA SlotsAre ==
  ASSUME NEW archs, TableOK(archs), NEW b, Occupied(archs, b)
  PROVE  /\ Len(archs[b].chunks) \in Nat
         /\ DOMAIN archs[b].chunks = 1 .. Len(archs[b].chunks)
         /\ archs[b].chunks \in Seq(Range(archs[b].chunks))
<1>1. PICK slots : slots = archs[b].chunks
  OBVIOUS
<1>2. IsSequence(slots)
  BY <1>1, TableFields DEF ArchOK, IsArchetype
<1>3. Len(slots) \in Nat /\ DOMAIN slots = 1 .. Len(slots)
  BY <1>2, SequenceType
<1>4. slots = [i \in 1 .. Len(slots) |-> slots[i]]
  BY <1>2 DEF IsSequence
<1>5. \A i \in 1 .. Len(slots) : slots[i] \in Range(slots)
  BY <1>3 DEF Range
<1>6. slots \in Seq(Range(slots))
  <2>1. slots \in [1 .. Len(slots) -> Range(slots)]
    BY <1>4, <1>5
  <2> QED
    BY <1>3, <2>1
<1> QED
  BY <1>1, <1>3, <1>6

\* The chunks with entities are those that inhabit a slot.
LEMMA InhabitedIs ==
  ASSUME NEW archs, NEW b, Occupied(archs, b), NEW x
  PROVE  x \in Inhabited(archs[b]) <=> \E c : Inhabits(archs, b, c) /\ x = archs[b].chunks[c]
BY DEF Inhabited, Inhabits, Occupied, Range

\* Archetype b is written as one with that in slot a.
MergedWith(archs, a, b) ==
  /\ b \in DOMAIN archs
  /\ ~ (b < a)
  /\ KeepsArchetype(archs[b])
  /\ SameWhenSaved(archs[a], archs[b])

\* The chunks written for a are those with entities of the archetypes merged
\* with it, and none is written twice.
LEMMA ChunksWrittenAre ==
  ASSUME NEW archs, TableOK(archs), NEW map, ExactCells(Cells(archs), map),
         NEW a \in DOMAIN archs, NEW chunks, chunks = ChunksWritten(archs, a)
  PROVE  /\ Len(chunks) \in Nat
         /\ DOMAIN chunks = 1 .. Len(chunks)
         /\ chunks \in Seq(Range(chunks))
         /\ \A x : x \in Range(chunks) <=>
              \E b, c : MergedWith(archs, a, b) /\ Inhabits(archs, b, c) /\ x = archs[b].chunks[c]
         /\ IsInjective(chunks)
<1> DEFINE list(b) == Kept(archs[b].chunks, Inhabited(archs[b]))
           lists == [b \in DOMAIN archs |-> IF ~ MergedWith(archs, a, b) THEN << >> ELSE list(b)]
           D     == UNION {Range(archs[b].chunks) : b \in {d \in DOMAIN archs : Occupied(archs, d)}}
<1>1. chunks = FlattenSeq(lists)
  <2>1. \A b \in DOMAIN archs :
          MergedWith(archs, a, b) <=>
            ~ (b < a \/ ~ KeepsArchetype(archs[b]) \/ ~ SameWhenSaved(archs[a], archs[b]))
    BY DEF MergedWith
  <2>2. lists = [b \in DOMAIN archs |->
                   IF b < a \/ ~ KeepsArchetype(archs[b]) \/ ~ SameWhenSaved(archs[a], archs[b])
                     THEN << >> ELSE list(b)]
    BY <2>1
  <2> QED
    BY <2>2 DEF ChunksWritten
<1>2. Len(archs) \in Nat /\ DOMAIN archs = 1 .. Len(archs)
  BY SequenceType DEF TableOK
<1>3. \A b : MergedWith(archs, a, b) => b \in DOMAIN archs /\ Occupied(archs, b)
  BY DEF MergedWith, KeepsArchetype, Occupied
<1>4. ASSUME NEW b, Occupied(archs, b)
      PROVE  /\ list(b) \in Seq(D)
             /\ Range(list(b)) = Inhabited(archs[b])
             /\ IsInjective(list(b))
  <2>1. archs[b].chunks \in Seq(Range(archs[b].chunks))
    BY <1>4, SlotsAre
  <2>2. Range(archs[b].chunks) \subseteq D
    BY <1>4 DEF Occupied
  <2> HIDE DEF D
  <2>3. archs[b].chunks \in Seq(D)
    BY <2>1, <2>2
  <2>4. Inhabited(archs[b]) \subseteq Range(archs[b].chunks)
    BY DEF Inhabited
  <2>5. OnceIn(archs[b].chunks, Inhabited(archs[b]))
    <3>1. SUFFICES ASSUME NEW i \in DOMAIN archs[b].chunks, NEW j \in DOMAIN archs[b].chunks,
                          archs[b].chunks[i] \in Inhabited(archs[b]),
                          archs[b].chunks[i] = archs[b].chunks[j]
                   PROVE  i = j
      BY DEF OnceIn
    <3>2. Inhabits(archs, b, i) /\ Inhabits(archs, b, j)
      BY <1>4, <3>1 DEF Inhabits, Inhabited, Occupied
    <3> QED
      BY <3>1, <3>2, InhabitedOnce
  <2>6. PICK slots : slots = archs[b].chunks
    OBVIOUS
  <2>7. PICK S : S = Inhabited(archs[b])
    OBVIOUS
  <2>8. slots \in Seq(D) /\ S \subseteq Range(slots) /\ OnceIn(slots, S)
    BY <2>3, <2>4, <2>5, <2>6, <2>7
  <2>9. /\ Kept(slots, S) \in Seq(D)
        /\ Range(Kept(slots, S)) = Range(slots) \intersect S
        /\ IsInjective(Kept(slots, S))
    BY ONLY <2>8, KeptElements
  <2>10. list(b) = Kept(slots, S)
    BY <2>6, <2>7
  <2> HIDE DEF list
  <2> QED
    BY <2>7, <2>8, <2>9, <2>10
<1>5. ASSUME NEW b \in DOMAIN archs
      PROVE  /\ lists[b] \in Seq(D)
             /\ IsInjective(lists[b])
             /\ \A x : x \in Range(lists[b]) <=>
                  MergedWith(archs, a, b) /\ x \in Inhabited(archs[b])
  <2>1. << >> \in Seq(D) /\ DOMAIN << >> = {}
    BY EmptySeq
  <2>2. Range(<< >>) = {} /\ IsInjective(<< >>)
    BY <2>1 DEF Range, IsInjective
  <2>3. CASE MergedWith(archs, a, b)
    <3>1. lists[b] = list(b)
      BY <2>3
    <3> HIDE DEF list, lists, D
    <3> QED
      BY <1>3, <1>4, <2>3, <3>1
  <2>4. CASE ~ MergedWith(archs, a, b)
    <3>1. lists[b] = << >>
      BY <2>4
    <3> HIDE DEF list, lists, D
    <3> QED
      BY <2>1, <2>2, <2>4, <3>1
  <2> QED
    BY <2>3, <2>4
<1>6. lists \in Seq(Seq(D)) /\ DOMAIN lists = DOMAIN archs
  <2>1. DOMAIN lists = 1 .. Len(archs) /\ lists = [b \in 1 .. Len(archs) |-> lists[b]]
    BY <1>2
  <2>2. \A b \in 1 .. Len(archs) : lists[b] \in Seq(D)
    BY <1>2, <1>5
  <2> HIDE DEF lists, D
  <2>3. lists \in [1 .. Len(archs) -> Seq(D)]
    BY <2>1, <2>2
  <2> QED
    BY <1>2, <2>1, <2>3
<1> HIDE DEF list, lists, D
<1>7. NoneTwice(lists)
  <2>1. ASSUME NEW i \in DOMAIN lists, NEW j \in DOMAIN lists, i # j,
               NEW x, x \in Range(lists[i]), x \in Range(lists[j])
        PROVE  FALSE
    <3>1. /\ Occupied(archs, i) /\ x \in Inhabited(archs[i])
          /\ Occupied(archs, j) /\ x \in Inhabited(archs[j])
      BY <1>3, <1>5, <1>6, <2>1
    <3>2. PICK c : Inhabits(archs, i, c) /\ x = archs[i].chunks[c]
      BY <3>1, InhabitedIs
    <3>3. PICK d : Inhabits(archs, j, d) /\ x = archs[j].chunks[d]
      BY <3>1, InhabitedIs
    <3> QED
      BY <2>1, <3>2, <3>3, InhabitedOnce
  <2> QED
    BY <1>5, <1>6, <2>1 DEF NoneTwice
<1>8. /\ chunks \in Seq(D)
      /\ Range(chunks) = UNION {Range(lists[b]) : b \in DOMAIN lists}
      /\ IsInjective(chunks)
  BY <1>1, <1>6, <1>7, FlatElements
<1>9. ASSUME NEW x
      PROVE  x \in Range(chunks) <=>
               \E b, c : MergedWith(archs, a, b) /\ Inhabits(archs, b, c) /\ x = archs[b].chunks[c]
  <2>1. x \in Range(chunks) <=> \E b \in DOMAIN archs : x \in Range(lists[b])
    BY <1>6, <1>8
  <2>2. x \in Range(chunks) <=>
          \E b : MergedWith(archs, a, b) /\ x \in Inhabited(archs[b])
    BY <1>3, <1>5, <2>1
  <2>3. \A b : MergedWith(archs, a, b) =>
          (x \in Inhabited(archs[b]) <=>
             \E c : Inhabits(archs, b, c) /\ x = archs[b].chunks[c])
    BY <1>3, InhabitedIs
  <2> QED
    BY <2>2, <2>3
<1>10. Len(chunks) \in Nat /\ DOMAIN chunks = 1 .. Len(chunks) /\ chunks \in Seq(Range(chunks))
  <2>1. chunks \in [1 .. Len(chunks) -> D] /\ Len(chunks) \in Nat
    BY <1>8, LenProperties
  <2>2. \A i \in 1 .. Len(chunks) : chunks[i] \in Range(chunks)
    BY <2>1 DEF Range
  <2>3. chunks \in [1 .. Len(chunks) -> Range(chunks)]
    BY <2>1, <2>2
  <2> QED
    BY <2>1, <2>3
<1> QED
  BY <1>8, <1>9, <1>10

\* The archetype in slot a is written, for all that are merged with it.
IsWritten(archs, a) ==
  /\ a \in DOMAIN archs
  /\ KeepsArchetype(archs[a])
  /\ \A b \in 1 .. a - 1 : KeepsArchetype(archs[b]) => ~ SameWhenSaved(archs[a], archs[b])
  /\ ChunksWritten(archs, a) # << >>

\* The list of archetypes written has each of them once.
LEMMA WrittenAre ==
  ASSUME NEW archs, IsSequence(archs), NEW written, written = ArchetypesWritten(archs)
  PROVE  /\ Len(written) \in Nat
         /\ DOMAIN written = 1 .. Len(written)
         /\ \A k \in DOMAIN written : IsWritten(archs, written[k])
         /\ \A a : IsWritten(archs, a) => \E k \in DOMAIN written : written[k] = a
         /\ IsInjective(written)
<1> DEFINE list == [a \in DOMAIN archs |-> a]
           S    == {a \in DOMAIN archs : IsWritten(archs, a)}
<1>1. written = Kept(list, S)
  <2>1. S = {a \in DOMAIN archs :
               /\ KeepsArchetype(archs[a])
               /\ \A b \in 1 .. a - 1 :
                    KeepsArchetype(archs[b]) => ~ SameWhenSaved(archs[a], archs[b])
               /\ ChunksWritten(archs, a) # << >>}
    BY DEF IsWritten
  <2> HIDE DEF S
  <2> QED
    BY <2>1 DEF ArchetypesWritten
<1>2. Len(archs) \in Nat /\ DOMAIN archs = 1 .. Len(archs)
  BY SequenceType
<1>3. list \in Seq(Nat) /\ IsInjective(list) /\ Range(list) = DOMAIN archs
  BY <1>2 DEF IsInjective, Range
<1>4. S \subseteq DOMAIN archs /\ \A a : a \in S <=> IsWritten(archs, a)
  BY DEF IsWritten
<1> HIDE DEF list, S
<1>5. written \in Seq(Nat) /\ Range(written) = S /\ IsInjective(written)
  <2>1. /\ Kept(list, S) \in Seq(Nat)
        /\ Range(Kept(list, S)) = Range(list) \intersect S
        /\ IsInjective(Kept(list, S))
    BY <1>3, KeptElements
  <2>2. Range(list) \intersect S = S
    BY <1>3, <1>4
  <2> QED
    BY <1>1, <2>1, <2>2
<1>6. Len(written) \in Nat /\ DOMAIN written = 1 .. Len(written)
  BY <1>5, LenProperties
<1> QED
  BY <1>4, <1>5, <1>6 DEF Range

\* No two archetypes written have the same saved types.
LEMMA WrittenApart ==
  ASSUME NEW archs, IsSequence(archs), NEW written, written = ArchetypesWritten(archs),
         NEW j \in DOMAIN written, NEW k \in DOMAIN written,
         SameWhenSaved(archs[written[j]], archs[written[k]])
  PROVE  j = k
<1>1. PICK a : a = written[j]
  OBVIOUS
<1>2. PICK b : b = written[k]
  OBVIOUS
<1>3. IsWritten(archs, a) /\ IsWritten(archs, b) /\ SameWhenSaved(archs[a], archs[b])
  BY <1>1, <1>2, WrittenAre
<1>4. a \in Nat \ {0} /\ b \in Nat \ {0}
  <2>1. Len(archs) \in Nat /\ DOMAIN archs = 1 .. Len(archs)
    BY SequenceType
  <2> QED
    BY <1>3, <2>1 DEF IsWritten
<1>5. ~ (a < b) /\ ~ (b < a)
  BY <1>3, <1>4 DEF IsWritten, SameWhenSaved
<1>6. a = b
  BY <1>4, <1>5
<1> QED
  BY <1>1, <1>2, <1>6, WrittenAre DEF IsInjective

\* What is written at position n of the archetype at position k is a chunk with
\* entities, of an archetype that is kept.
LEMMA WrittenChunkIs ==
  ASSUME NEW archs, TableOK(archs), NEW map, ExactCells(Cells(archs), map),
         NEW written, written = ArchetypesWritten(archs), NEW k \in DOMAIN written,
         NEW chunks, chunks = ChunksWritten(archs, written[k]), NEW n \in DOMAIN chunks
  PROVE  \E b, c : /\ Inhabits(archs, b, c)
                   /\ KeepsArchetype(archs[b])
                   /\ SameWhenSaved(archs[written[k]], archs[b])
                   /\ chunks[n] = archs[b].chunks[c]
<1>1. written[k] \in DOMAIN archs
  BY WrittenAre DEF IsWritten, TableOK
<1>2. chunks[n] \in Range(chunks)
  BY DEF Range
<1>3. \E b, c : /\ MergedWith(archs, written[k], b)
                /\ Inhabits(archs, b, c)
                /\ chunks[n] = archs[b].chunks[c]
  BY <1>1, <1>2, ChunksWrittenAre
<1> QED
  BY <1>3 DEF MergedWith

\* A chunk is written once.
LEMMA ChunkWrittenOnce ==
  ASSUME NEW archs, TableOK(archs), NEW map, ExactCells(Cells(archs), map),
         NEW written, written = ArchetypesWritten(archs),
         NEW j \in DOMAIN written, NEW m \in DOMAIN ChunksWritten(archs, written[j]),
         NEW k \in DOMAIN written, NEW n \in DOMAIN ChunksWritten(archs, written[k]),
         ChunksWritten(archs, written[j])[m] = ChunksWritten(archs, written[k])[n]
  PROVE  j = k /\ m = n
<1>1. PICK b, c : /\ Inhabits(archs, b, c)
                  /\ SameWhenSaved(archs[written[j]], archs[b])
                  /\ ChunksWritten(archs, written[j])[m] = archs[b].chunks[c]
  BY WrittenChunkIs
<1>2. PICK d, e : /\ Inhabits(archs, d, e)
                  /\ SameWhenSaved(archs[written[k]], archs[d])
                  /\ ChunksWritten(archs, written[k])[n] = archs[d].chunks[e]
  BY WrittenChunkIs
<1>3. b = d
  BY <1>1, <1>2, InhabitedOnce
<1>4. SameWhenSaved(archs[written[j]], archs[written[k]])
  BY <1>1, <1>2, <1>3 DEF SameWhenSaved
<1>5. j = k
  BY <1>4, WrittenApart DEF TableOK
<1>6. PICK a : a = written[j]
  OBVIOUS
<1>7. PICK chunks : chunks = ChunksWritten(archs, a)
  OBVIOUS
<1>8. a \in DOMAIN archs
  BY <1>6, WrittenAre DEF IsWritten, TableOK
<1>9. IsInjective(chunks)
  BY <1>7, <1>8, ChunksWrittenAre
<1>10. m \in DOMAIN chunks /\ n \in DOMAIN chunks /\ chunks[m] = chunks[n]
  BY <1>5, <1>6, <1>7
<1> QED
  BY <1>5, <1>9, <1>10 DEF IsInjective

\* Every chunk with entities of an archetype that is kept is written, as one of
\* an archetype with the same saved types.
LEMMA ChunkIsWritten ==
  ASSUME NEW archs, TableOK(archs), NEW map, ExactCells(Cells(archs), map),
         NEW written, written = ArchetypesWritten(archs),
         NEW b, NEW c, Inhabits(archs, b, c), KeepsArchetype(archs[b])
  PROVE  \E k \in DOMAIN written :
           /\ SameWhenSaved(archs[written[k]], archs[b])
           /\ \E n \in DOMAIN ChunksWritten(archs, written[k]) :
                ChunksWritten(archs, written[k])[n] = archs[b].chunks[c]
<1> DEFINE T == {a \in DOMAIN archs : KeepsArchetype(archs[a]) /\ SameWhenSaved(archs[a], archs[b])}
<1>1. Len(archs) \in Nat /\ DOMAIN archs = 1 .. Len(archs) /\ IsSequence(archs)
  BY SequenceType DEF TableOK
<1>2. b \in T
  BY DEF Inhabits, Occupied, SameWhenSaved
<1>3. PICK a \in T : \A d \in T : a <= d
  <2>1. T \in SUBSET Nat /\ T # {}
    BY <1>1, <1>2
  <2> HIDE DEF T
  <2> QED
    BY <2>1, LeastNumber
<1>4. PICK chunks : chunks = ChunksWritten(archs, a)
  OBVIOUS
<1>5. a \in DOMAIN archs /\ KeepsArchetype(archs[a]) /\ SameWhenSaved(archs[a], archs[b])
  BY <1>3
<1>6. MergedWith(archs, a, b)
  BY <1>1, <1>2, <1>3 DEF MergedWith
<1>7. archs[b].chunks[c] \in Range(chunks)
  BY <1>4, <1>5, <1>6, ChunksWrittenAre
<1>8. PICK n \in DOMAIN chunks : chunks[n] = archs[b].chunks[c]
  BY <1>7 DEF Range
<1>9. chunks # << >>
  BY <1>8, EmptySeq
<1>10. \A d \in 1 .. a - 1 : KeepsArchetype(archs[d]) => ~ SameWhenSaved(archs[a], archs[d])
  <2>1. ASSUME NEW d \in 1 .. a - 1, KeepsArchetype(archs[d]), SameWhenSaved(archs[a], archs[d])
        PROVE  FALSE
    <3>1. d \in DOMAIN archs
      BY <1>1, <1>5
    <3>2. SameWhenSaved(archs[d], archs[b])
      BY <1>5, <2>1 DEF SameWhenSaved
    <3>3. d \in T
      BY <2>1, <3>1, <3>2
    <3>4. a <= d
      BY <1>3, <3>3
    <3> QED
      BY <1>1, <1>5, <2>1, <3>1, <3>4
  <2> QED
    BY <2>1
<1>11. IsWritten(archs, a)
  BY <1>4, <1>5, <1>9, <1>10 DEF IsWritten
<1>12. PICK k \in DOMAIN written : written[k] = a
  BY <1>1, <1>11, WrittenAre
<1> QED
  BY <1>4, <1>5, <1>8, <1>12

-----------------------------------------------------------------------------
\* Loading the archetypes.

\* The function that the fold of LoadArchetypes defines.
IsLoad(it, D, s) ==
  it = [x \in SUBSET D |->
          IF x = {} THEN << >> ELSE LoadArchetype(it[x \ {Max(x)}], s.archetypes[Max(x)], s.names)]

\* The archetypes loaded are a value of that function.
LEMMA LoadIter ==
  ASSUME NEW s
  PROVE  LoadArchetypes(s) = (CHOOSE it : IsLoad(it, DOMAIN s.archetypes, s))[DOMAIN s.archetypes]
BY DEF FoldLeft, MapThenFoldSet, IsLoad, LoadArchetypes

\* The function exists for every stream.
LEMMA LoadExists ==
  ASSUME NEW n \in Nat, NEW s
  PROVE  \E it : IsLoad(it, 1 .. n, s)
<1> DEFINE T == {k \in 0 .. n : \E it : IsLoad(it, 1 .. k, s)}
<1>1. 0 \in T
  <2> DEFINE it == [x \in SUBSET (1 .. 0) |-> << >>]
  <2>1. 1 .. 0 = {}
    OBVIOUS
  <2>2. IsLoad(it, 1 .. 0, s)
    BY <2>1 DEF IsLoad
  <2> QED
    BY <2>2
<1>2. ASSUME NEW k \in 0 .. n - 1, k \in T PROVE k + 1 \in T
  <2>1. PICK h : IsLoad(h, 1 .. k, s)
    BY <1>2
  <2> DEFINE it == [x \in SUBSET (1 .. k + 1) |->
                      IF k + 1 \in x THEN LoadArchetype(h[x \ {k + 1}], s.archetypes[k + 1], s.names)
                      ELSE h[x]]
  <2>2. ASSUME NEW x \in SUBSET (1 .. k + 1)
        PROVE  it[x] = IF x = {} THEN << >>
                       ELSE LoadArchetype(it[x \ {Max(x)}], s.archetypes[Max(x)], s.names)
    <3>1. CASE k + 1 \in x
      <4>1. Max(x) = k + 1
        <5>1. k \in Nat /\ x \subseteq 1 .. k + 1
          OBVIOUS
        <5> HIDE DEF it, T
        <5> QED BY <3>1, <5>1, MaxOfTop
      <4>2. x \ {k + 1} \in SUBSET (1 .. k + 1) /\ k + 1 \notin x \ {k + 1} /\ x # {}
        BY <3>1
      <4>3. it[x \ {k + 1}] = h[x \ {k + 1}]
        BY <4>2
      <4> QED
        BY <3>1, <4>1, <4>2, <4>3
    <3>2. CASE k + 1 \notin x
      <4>1. x \in SUBSET (1 .. k)
        BY <3>2
      <4>2. h[x] = IF x = {} THEN << >>
                   ELSE LoadArchetype(h[x \ {Max(x)}], s.archetypes[Max(x)], s.names)
        BY <2>1, <4>1 DEF IsLoad
      <4>3. \A r \in SUBSET (1 .. k + 1) : k + 1 \notin r => it[r] = h[r]
        OBVIOUS
      <4>4. x \ {Max(x)} \in SUBSET (1 .. k + 1) /\ k + 1 \notin x \ {Max(x)}
        BY <3>2
      <4>5. it[x] = h[x] /\ it[x \ {Max(x)}] = h[x \ {Max(x)}]
        <5> HIDE DEF it
        <5> QED BY <3>2, <4>3, <4>4
      <4> QED
        BY <4>2, <4>5
    <3> QED
      BY <3>1, <3>2
  <2>3. IsLoad(it, 1 .. k + 1, s)
    BY <2>2 DEF IsLoad
  <2> QED
    BY <2>3
<1>3. \A k \in 0 .. n : k \in T
  <2> HIDE DEF T
  <2> QED BY <1>1, <1>2, UpTo
<1> QED
  BY <1>3

\* The archetypes loaded from the first k that were written, for each k up to n.
LoadUpTo(L, n, s) ==
  /\ L[0] = << >>
  /\ \A k \in 0 .. n - 1 : L[k + 1] = LoadArchetype(L[k], s.archetypes[k + 1], s.names)

\* LoadArchetypes, archetype by archetype.
LEMMA LoadStepByStep ==
  ASSUME NEW n \in Nat, NEW s, DOMAIN s.archetypes = 1 .. n
  PROVE  \E L : LoadUpTo(L, n, s) /\ LoadArchetypes(s) = L[n]
<1> DEFINE it == CHOOSE it : IsLoad(it, 1 .. n, s)
           L  == [k \in 0 .. n |-> it[1 .. k]]
<1>1. IsLoad(it, 1 .. n, s)
  BY LoadExists
<1>2. LoadArchetypes(s) = it[1 .. n]
  BY LoadIter
<1> HIDE DEF it
<1>3. \A x \in SUBSET (1 .. n) :
        it[x] = IF x = {} THEN << >> ELSE LoadArchetype(it[x \ {Max(x)}], s.archetypes[Max(x)], s.names)
  BY <1>1 DEF IsLoad
<1>4. L[0] = << >>
  <2>1. 1 .. 0 = {} /\ 0 \in 0 .. n
    OBVIOUS
  <2> QED BY <1>3, <2>1
<1>5. ASSUME NEW k \in 0 .. n - 1
      PROVE  L[k + 1] = LoadArchetype(L[k], s.archetypes[k + 1], s.names)
  <2>1. k \in Nat /\ k \in 0 .. n /\ k + 1 \in 0 .. n /\ 1 .. k + 1 \in SUBSET (1 .. n)
    OBVIOUS
  <2>2. Max(1 .. k + 1) = k + 1 /\ (1 .. k + 1) \ {k + 1} = 1 .. k /\ 1 .. k + 1 # {}
    BY <2>1, MaxOfInterval
  <2>3. L[k + 1] = it[1 .. k + 1] /\ L[k] = it[1 .. k]
    BY <2>1
  <2> HIDE DEF L
  <2> QED BY <1>3, <2>1, <2>2, <2>3
<1>6. LoadUpTo(L, n, s)
  BY <1>4, <1>5 DEF LoadUpTo
<1>7. L[n] = it[1 .. n]
  OBVIOUS
<1> HIDE DEF L
<1> QED
  BY <1>2, <1>6, <1>7

\* The store with the shared values of a stream, from a list of indices.
SharedLoaded(st, id, list, s) ==
  FoldLeft(LAMBDA acc, i : SetSharedLoaded(acc, id, s.names[i], s.shared[i]), st, list)

\* The function that the fold of SharedLoaded defines.
IsSharedLoad(it, D, st, id, list, s) ==
  it = [x \in SUBSET D |->
          IF x = {} THEN st ELSE SetSharedLoaded(it[x \ {Max(x)}], id, s.names[list[Max(x)]], s.shared[list[Max(x)]])]

\* The store with all shared values is a value of that function.
LEMMA SharedLoadIter ==
  ASSUME NEW st, NEW id, NEW list, NEW s
  PROVE  SharedLoaded(st, id, list, s) = (CHOOSE it : IsSharedLoad(it, DOMAIN list, st, id, list, s))[DOMAIN list]
BY DEF FoldLeft, MapThenFoldSet, IsSharedLoad, SharedLoaded

\* The function exists for every list of indices.
LEMMA SharedLoadExists ==
  ASSUME NEW n \in Nat, NEW st, NEW id, NEW list, NEW s
  PROVE  \E it : IsSharedLoad(it, 1 .. n, st, id, list, s)
<1> DEFINE T == {k \in 0 .. n : \E it : IsSharedLoad(it, 1 .. k, st, id, list, s)}
<1>1. 0 \in T
  <2> DEFINE it == [x \in SUBSET (1 .. 0) |-> st]
  <2>1. 1 .. 0 = {}
    OBVIOUS
  <2>2. IsSharedLoad(it, 1 .. 0, st, id, list, s)
    BY <2>1 DEF IsSharedLoad
  <2> QED
    BY <2>2
<1>2. ASSUME NEW k \in 0 .. n - 1, k \in T PROVE k + 1 \in T
  <2>1. PICK h : IsSharedLoad(h, 1 .. k, st, id, list, s)
    BY <1>2
  <2> DEFINE it == [x \in SUBSET (1 .. k + 1) |->
                      IF k + 1 \in x THEN SetSharedLoaded(h[x \ {k + 1}], id, s.names[list[k + 1]], s.shared[list[k + 1]])
                      ELSE h[x]]
  <2>2. ASSUME NEW x \in SUBSET (1 .. k + 1)
        PROVE  it[x] = IF x = {} THEN st
                       ELSE SetSharedLoaded(it[x \ {Max(x)}], id, s.names[list[Max(x)]], s.shared[list[Max(x)]])
    <3>1. CASE k + 1 \in x
      <4>1. Max(x) = k + 1
        <5>1. k \in Nat /\ x \subseteq 1 .. k + 1
          OBVIOUS
        <5> HIDE DEF it, T
        <5> QED BY <3>1, <5>1, MaxOfTop
      <4>2. x \ {k + 1} \in SUBSET (1 .. k + 1) /\ k + 1 \notin x \ {k + 1} /\ x # {}
        BY <3>1
      <4>3. it[x \ {k + 1}] = h[x \ {k + 1}]
        BY <4>2
      <4> QED
        BY <3>1, <4>1, <4>2, <4>3
    <3>2. CASE k + 1 \notin x
      <4>1. x \in SUBSET (1 .. k)
        BY <3>2
      <4>2. h[x] = IF x = {} THEN st
                   ELSE SetSharedLoaded(h[x \ {Max(x)}], id, s.names[list[Max(x)]], s.shared[list[Max(x)]])
        BY <2>1, <4>1 DEF IsSharedLoad
      <4>3. \A r \in SUBSET (1 .. k + 1) : k + 1 \notin r => it[r] = h[r]
        OBVIOUS
      <4>4. x \ {Max(x)} \in SUBSET (1 .. k + 1) /\ k + 1 \notin x \ {Max(x)}
        BY <3>2
      <4>5. it[x] = h[x] /\ it[x \ {Max(x)}] = h[x \ {Max(x)}]
        <5> HIDE DEF it
        <5> QED BY <3>2, <4>3, <4>4
      <4> QED
        BY <4>2, <4>5
    <3> QED
      BY <3>1, <3>2
  <2>3. IsSharedLoad(it, 1 .. k + 1, st, id, list, s)
    BY <2>2 DEF IsSharedLoad
  <2> QED
    BY <2>3
<1>3. \A k \in 0 .. n : k \in T
  <2> HIDE DEF T
  <2> QED BY <1>1, <1>2, UpTo
<1> QED
  BY <1>3

\* The store with the first k shared values, for each k up to n.
SharedLoadUpTo(L, n, st, id, list, s) ==
  /\ L[0] = st
  /\ \A k \in 0 .. n - 1 : L[k + 1] = SetSharedLoaded(L[k], id, s.names[list[k + 1]], s.shared[list[k + 1]])

\* The shared values of a stream, one after the other.
LEMMA SharedLoadStepByStep ==
  ASSUME NEW n \in Nat, NEW st, NEW id, NEW list, NEW s, DOMAIN list = 1 .. n
  PROVE  \E L : SharedLoadUpTo(L, n, st, id, list, s) /\ SharedLoaded(st, id, list, s) = L[n]
<1> DEFINE it == CHOOSE it : IsSharedLoad(it, 1 .. n, st, id, list, s)
           L  == [k \in 0 .. n |-> it[1 .. k]]
<1>1. IsSharedLoad(it, 1 .. n, st, id, list, s)
  BY SharedLoadExists
<1>2. SharedLoaded(st, id, list, s) = it[1 .. n]
  BY SharedLoadIter
<1> HIDE DEF it
<1>3. \A x \in SUBSET (1 .. n) :
        it[x] = IF x = {} THEN st ELSE SetSharedLoaded(it[x \ {Max(x)}], id, s.names[list[Max(x)]], s.shared[list[Max(x)]])
  BY <1>1 DEF IsSharedLoad
<1>4. L[0] = st
  <2>1. 1 .. 0 = {} /\ 0 \in 0 .. n
    OBVIOUS
  <2> QED BY <1>3, <2>1
<1>5. ASSUME NEW k \in 0 .. n - 1
      PROVE  L[k + 1] = SetSharedLoaded(L[k], id, s.names[list[k + 1]], s.shared[list[k + 1]])
  <2>1. k \in Nat /\ k \in 0 .. n /\ k + 1 \in 0 .. n /\ 1 .. k + 1 \in SUBSET (1 .. n)
    OBVIOUS
  <2>2. Max(1 .. k + 1) = k + 1 /\ (1 .. k + 1) \ {k + 1} = 1 .. k /\ 1 .. k + 1 # {}
    BY <2>1, MaxOfInterval
  <2>3. L[k + 1] = it[1 .. k + 1] /\ L[k] = it[1 .. k]
    BY <2>1
  <2> HIDE DEF L
  <2>4. PICK x : x = 1 .. k + 1
    OBVIOUS
  <2>5. x \in SUBSET (1 .. n) /\ x # {} /\ Max(x) = k + 1 /\ x \ {k + 1} = 1 .. k
    BY <2>1, <2>2, <2>4
  <2>6. it[x] = SetSharedLoaded(it[x \ {Max(x)}], id, s.names[list[Max(x)]], s.shared[list[Max(x)]])
    BY <1>3, <2>5
  <2>7. it[x] = SetSharedLoaded(it[1 .. k], id, s.names[list[k + 1]], s.shared[list[k + 1]])
    BY ONLY <2>5, <2>6
  <2> QED
    BY <2>3, <2>4, <2>7
<1>6. SharedLoadUpTo(L, n, st, id, list, s)
  BY <1>4, <1>5 DEF SharedLoadUpTo
<1>7. L[n] = it[1 .. n]
  OBVIOUS
<1> HIDE DEF L
<1> QED
  BY <1>2, <1>6, <1>7

-----------------------------------------------------------------------------
\* The loaded store.

\* The chunks that are loaded of those written for slot a.
LoadedChunks(archs, a) ==
  LET chunks == ChunksWritten(archs, a)
  IN  [n \in DOMAIN chunks |-> LoadChunk(SavedTypes(archs[a].types), SaveChunk(chunks[n]), Names)]

\* The archetype made of them.
LoadedArch(archs, a) ==
  [types |-> SavedTypes(archs[a].types), chunks |-> LoadedChunks(archs, a), filled |-> 0]

\* All archetypes that are loaded of the store.
LoadedTable(archs) ==
  LET written == ArchetypesWritten(archs)
  IN  [k \in DOMAIN written |-> LoadedArch(archs, written[k])]

\* An archetype of types that none has yet is loaded into the next slot.
LEMMA LoadIntoNextSlot ==
  ASSUME NEW k \in Nat, NEW table, IsSequence(table), Len(table) = k,
         \A j \in 1 .. k : table[j] # Null,
         NEW ts, \A j \in 1 .. k : table[j].types # ts
  PROVE  /\ ArchetypeSlot(table, ts) = k + 1
         /\ WithArchetype(table, ts) =
              [j \in 1 .. k + 1 |-> IF j = k + 1 THEN NewArchetype(ts) ELSE table[j]]
<1>1. DOMAIN table = 1 .. k /\ Len(table) = k /\ table = [j \in 1 .. k |-> table[j]]
  BY SequenceType DEF IsSequence
<1>2. ArchetypeSlot(table, ts) = k + 1
  <2>1. {a \in DOMAIN table : table[a] # Null /\ table[a].types = ts} = {}
    BY <1>1
  <2>2. EmptySlots(table) = {}
    BY <1>1 DEF EmptySlots
  <2> QED
    BY <1>1, <2>1, <2>2 DEF ArchetypeSlot, FreeSlot
<1>3. k + 1 \notin DOMAIN table
  BY <1>1
<1>4. WithArchetype(table, ts) = Append(table, NewArchetype(ts))
  BY <1>2, <1>3 DEF WithArchetype, PutSlot, Occupied
<1>5. PICK with : with = Append(table, NewArchetype(ts))
  OBVIOUS
<1>6. with = [j \in 1 .. k + 1 |-> IF j = k + 1 THEN NewArchetype(ts) ELSE table[j]]
  BY <1>1, <1>5
<1> QED
  BY <1>2, <1>4, <1>5, <1>6

\* The lists of chunks that are loaded.
LEMMA LoadedChunksAre ==
  ASSUME NEW archs, TableOK(archs), NEW map, ExactCells(Cells(archs), map),
         NEW a \in DOMAIN archs, NEW chunks, chunks = ChunksWritten(archs, a),
         NEW loaded, loaded = LoadedChunks(archs, a)
  PROVE  /\ Len(loaded) = Len(chunks)
         /\ DOMAIN loaded = DOMAIN chunks
         /\ IsSequence(loaded)
         /\ loaded \in Seq(Range(loaded))
         /\ \A n \in DOMAIN chunks :
              loaded[n] = LoadChunk(SavedTypes(archs[a].types), SaveChunk(chunks[n]), Names)
<1>1. Len(chunks) \in Nat /\ DOMAIN chunks = 1 .. Len(chunks)
  BY ChunksWrittenAre
<1>2. loaded = [n \in 1 .. Len(chunks) |->
                  LoadChunk(SavedTypes(archs[a].types), SaveChunk(chunks[n]), Names)]
  BY <1>1 DEF LoadedChunks
<1>3. DOMAIN loaded = 1 .. Len(chunks) /\ loaded = [n \in 1 .. Len(chunks) |-> loaded[n]]
  BY <1>2
<1>4. loaded \in Seq(Range(loaded)) /\ Len(loaded) = Len(chunks)
  <2>1. \A n \in 1 .. Len(chunks) : loaded[n] \in Range(loaded)
    BY <1>3 DEF Range
  <2>2. loaded \in [1 .. Len(chunks) -> Range(loaded)]
    BY <1>3, <2>1
  <2> QED
    BY <1>1, <2>2
<1>5. IsSequence(loaded)
  BY <1>4, SeqIsSequence
<1> QED
  BY <1>1, <1>2, <1>3, <1>4, <1>5

\* The stream of a store lists what is written.
LEMMA StoreStreamIs ==
  ASSUME NEW archs, NEW next, NEW s, s = StoreStream(archs, next),
         NEW written, written = ArchetypesWritten(archs)
  PROVE  /\ s.kind = "store"
         /\ s.names = Names
         /\ DOMAIN s.archetypes = DOMAIN written
         /\ \A k \in DOMAIN written : s.archetypes[k] = SaveArchetype(archs, written[k])
         /\ s.places = PlacesWritten(archs, written)
         /\ s.nextEntityId = next
BY DEF StoreStream

\* The next archetype of a stream.
LEMMA LoadNext ==
  ASSUME NEW archs, TableOK(archs), NEW map, ExactCells(Cells(archs), map),
         NEW written, written = ArchetypesWritten(archs),
         NEW k \in Nat, k + 1 \in DOMAIN written,
         NEW table, table = [j \in 1 .. k |-> LoadedArch(archs, written[j])]
  PROVE  LoadArchetype(table, SaveArchetype(archs, written[k + 1]), Names)
           = [j \in 1 .. k + 1 |-> LoadedArch(archs, written[j])]
<1>1. PICK a : a = written[k + 1]
  OBVIOUS
<1>2. PICK ts : ts = SavedTypes(archs[a].types)
  OBVIOUS
<1>3. PICK saved : saved = SaveArchetype(archs, a)
  OBVIOUS
<1>4. PICK chunks : chunks = LoadedChunks(archs, a)
  OBVIOUS
<1>5. Len(written) \in Nat /\ DOMAIN written = 1 .. Len(written) /\ \A j \in 1 .. k : j \in DOMAIN written
  BY WrittenAre DEF TableOK
<1>6. IsWritten(archs, a)
  BY <1>1, WrittenAre DEF TableOK
<1>7. a \in DOMAIN archs /\ Occupied(archs, a)
  BY <1>6 DEF IsWritten, KeepsArchetype, Occupied
<1>8. ts \in SUBSET Types
  BY <1>2, <1>7, TableFields, SavedAre
<1>9. Named(Names, saved.types) = ts
  BY <1>2, <1>3, <1>8, NamedIndices DEF SaveArchetype
<1>10. chunks = [n \in DOMAIN saved.chunks |-> LoadChunk(ts, saved.chunks[n], Names)]
  <2>1. PICK cs : cs = ChunksWritten(archs, a)
    OBVIOUS
  <2>2. saved.chunks = [n \in DOMAIN cs |-> SaveChunk(cs[n])]
    BY <1>3, <2>1 DEF SaveArchetype
  <2>3. chunks = [n \in DOMAIN cs |-> LoadChunk(ts, SaveChunk(cs[n]), Names)]
    BY <1>2, <1>4, <2>1 DEF LoadedChunks
  <2> QED
    BY <2>2, <2>3
<1>11. chunks \in Seq(Range(chunks))
  BY <1>4, <1>7, LoadedChunksAre
<1>12. /\ \A j \in 1 .. k : table[j].types = SavedTypes(archs[written[j]].types)
       /\ \A j \in 1 .. k : table[j] # Null
  <2>1. \A j \in 1 .. k : table[j] = LoadedArch(archs, written[j])
    OBVIOUS
  <2>2. \A b : LoadedArch(archs, b).types = SavedTypes(archs[b].types)
    BY DEF LoadedArch
  <2>3. \A b : LoadedArch(archs, b) # Null
    <3>1. SUFFICES ASSUME NEW b, LoadedArch(archs, b) = Null PROVE FALSE
      OBVIOUS
    <3>2. DOMAIN LoadedArch(archs, b) = {"types", "chunks", "filled"} /\ DOMAIN Null = {"null"}
      BY DEF LoadedArch, Null
    <3> QED
      BY <3>1, <3>2
  <2> QED
    BY <2>1, <2>2, <2>3
<1>13. \A j \in 1 .. k : table[j].types # ts
  <2>1. ASSUME NEW j \in 1 .. k, table[j].types = ts PROVE FALSE
    <3>1. SameWhenSaved(archs[written[j]], archs[written[k + 1]])
      BY <1>1, <1>2, <1>12, <2>1 DEF SameWhenSaved
    <3>2. j = k + 1
      BY <1>5, <3>1, WrittenApart DEF TableOK
    <3> QED
      BY <3>2
  <2> QED
    BY <2>1
<1>14. PICK new : new = LoadArchetype(table, saved, Names)
  OBVIOUS
<1>15. PICK with : with = WithArchetype(table, ts)
  OBVIOUS
<1>16. /\ ArchetypeSlot(table, ts) = k + 1
       /\ with = [j \in 1 .. k + 1 |-> IF j = k + 1 THEN NewArchetype(ts) ELSE table[j]]
  <2>1. IsSequence(table) /\ Len(table) = k
    BY DEF IsSequence
  <2>2. /\ ArchetypeSlot(table, ts) = k + 1
        /\ WithArchetype(table, ts) =
             [j \in 1 .. k + 1 |-> IF j = k + 1 THEN NewArchetype(ts) ELSE table[j]]
    BY ONLY <1>12, <1>13, <2>1, k \in Nat, LoadIntoNextSlot
  <2> QED
    BY <1>15, <2>2
<1>17. new = [j \in 1 .. k + 1 |->
                IF j = k + 1 THEN [types |-> ts, chunks |-> chunks, filled |-> 0] ELSE table[j]]
  <2>1. new = [with EXCEPT ![k + 1] = [with[k + 1] EXCEPT !.chunks = with[k + 1].chunks \o chunks]]
    BY <1>9, <1>10, <1>14, <1>15, <1>16 DEF LoadArchetype
  <2>2. PICK old : old = with[k + 1]
    OBVIOUS
  <2>3. old = [types |-> ts, chunks |-> << >>, filled |-> 0]
    BY <1>16, <2>2 DEF NewArchetype
  <2>4. << >> \o chunks = chunks
    BY <1>11
  <2>5. [old EXCEPT !.chunks = old.chunks \o chunks] = [types |-> ts, chunks |-> chunks, filled |-> 0]
    BY ONLY <2>3, <2>4
  <2>6. PICK arch : arch = [types |-> ts, chunks |-> chunks, filled |-> 0]
    OBVIOUS
  <2>7. new = [with EXCEPT ![k + 1] = arch]
    BY <2>1, <2>2, <2>5, <2>6
  <2>8. new = [j \in 1 .. k + 1 |-> IF j = k + 1 THEN arch ELSE table[j]]
    BY ONLY <1>16, <2>7, k \in Nat
  <2> QED
    BY <2>6, <2>8
<1>18. [types |-> ts, chunks |-> chunks, filled |-> 0] = LoadedArch(archs, written[k + 1])
  BY <1>1, <1>2, <1>4 DEF LoadedArch
<1>19. \A j \in 1 .. k + 1 : j # k + 1 => j \in 1 .. k
  OBVIOUS
<1>20. \A j \in 1 .. k + 1 : new[j] = LoadedArch(archs, written[j])
  BY <1>17, <1>18, <1>19
<1>21. new = [j \in 1 .. k + 1 |-> new[j]]
  BY <1>17
<1> QED
  BY <1>1, <1>3, <1>14, <1>20, <1>21

\* The archetypes loaded from the stream of a store.
LEMMA LoadedIs ==
  ASSUME NEW archs, TableOK(archs), NEW map, ExactCells(Cells(archs), map), NEW next
  PROVE  LoadArchetypes(StoreStream(archs, next)) = LoadedTable(archs)
<1>1. PICK s : s = StoreStream(archs, next)
  OBVIOUS
<1>2. PICK written : written = ArchetypesWritten(archs)
  OBVIOUS
<1>3. PICK n \in Nat : n = Len(written)
  BY <1>2, WrittenAre DEF TableOK
<1>4. DOMAIN written = 1 .. n
  BY <1>2, <1>3, WrittenAre DEF TableOK
<1>5. /\ s.names = Names
      /\ DOMAIN s.archetypes = 1 .. n
      /\ \A k \in 1 .. n : s.archetypes[k] = SaveArchetype(archs, written[k])
  BY <1>1, <1>2, <1>4, StoreStreamIs
<1>6. PICK L : LoadUpTo(L, n, s) /\ LoadArchetypes(s) = L[n]
  BY <1>5, LoadStepByStep
<1> DEFINE T == {k \in 0 .. n : L[k] = [j \in 1 .. k |-> LoadedArch(archs, written[j])]}
<1>7. 0 \in T
  <2>1. L[0] = << >>
    BY <1>6 DEF LoadUpTo
  <2>2. << >> = [j \in 1 .. 0 |-> LoadedArch(archs, written[j])]
    OBVIOUS
  <2> QED
    BY <2>1, <2>2
<1>8. ASSUME NEW k \in 0 .. n - 1, k \in T PROVE k + 1 \in T
  <2>1. L[k] = [j \in 1 .. k |-> LoadedArch(archs, written[j])]
    BY <1>8
  <2>2. k \in Nat /\ k + 1 \in 1 .. n /\ k + 1 \in 0 .. n
    OBVIOUS
  <2>3. L[k + 1] = LoadArchetype(L[k], SaveArchetype(archs, written[k + 1]), Names)
    BY <1>5, <1>6, <2>2 DEF LoadUpTo
  <2>4. PICK table : table = L[k]
    OBVIOUS
  <2>5. LoadArchetype(table, SaveArchetype(archs, written[k + 1]), Names)
          = [j \in 1 .. k + 1 |-> LoadedArch(archs, written[j])]
    BY <1>2, <1>4, <2>1, <2>2, <2>4, LoadNext
  <2> QED
    BY <2>2, <2>3, <2>4, <2>5
<1>9. \A k \in 0 .. n : k \in T
  <2> HIDE DEF T
  <2> QED
    BY <1>7, <1>8, UpTo
<1>10. L[n] = [j \in 1 .. n |-> LoadedArch(archs, written[j])]
  BY <1>9
<1> QED
  BY <1>1, <1>2, <1>4, <1>6, <1>10 DEF LoadedTable

\* What is loaded of a chunk that was written for the archetype in slot a.
LEMMA LoadedChunkFields ==
  ASSUME NEW archs, TableOK(archs), NEW map, ExactCells(Cells(archs), map),
         NEW written, written = ArchetypesWritten(archs), NEW k \in DOMAIN written,
         NEW chunks, chunks = ChunksWritten(archs, written[k]), NEW n \in DOMAIN chunks,
         NEW new, new = LoadedChunks(archs, written[k])[n],
         NEW ts, ts = SavedTypes(archs[written[k]].types)
  PROVE  /\ IsChunk(new, ts)
         /\ new.ids = chunks[n].ids
         /\ Len(new.ids) <= Capacity[ts]
         /\ chunks[n].ids # << >>
         /\ ts \in SUBSET Types
<1>1. PICK a : a = written[k]
  OBVIOUS
<1>2. a \in DOMAIN archs
  BY <1>1, WrittenAre DEF IsWritten, TableOK
<1>3. PICK chunk : chunk = chunks[n]
  OBVIOUS
<1>4. PICK b, c : /\ Inhabits(archs, b, c)
                  /\ SameWhenSaved(archs[a], archs[b])
                  /\ chunk = archs[b].chunks[c]
  BY <1>1, <1>3, WrittenChunkIs
<1>5. PICK us : us = archs[b].types
  OBVIOUS
<1>6. ts = SavedTypes(us)
  BY <1>1, <1>4, <1>5 DEF SameWhenSaved
<1>7. /\ us \in SUBSET Types
      /\ IsChunk(chunk, us)
      /\ Len(chunk.ids) <= Capacity[us]
      /\ chunk.ids # << >>
  BY <1>4, <1>5, TableFields, ArchetypeFields DEF Inhabits
<1>8. new = LoadChunk(ts, SaveChunk(chunk), Names)
  <2>1. LoadedChunks(archs, a)[n] = LoadChunk(SavedTypes(archs[a].types), SaveChunk(chunks[n]), Names)
    BY <1>1, <1>2, LoadedChunksAre
  <2> QED
    BY <1>1, <1>3, <2>1
<1>9. IsChunk(new, ts) /\ new.ids = chunk.ids
  <2>1. us \in SUBSET Types /\ ts = SavedTypes(us) /\ IsChunk(chunk, us)
    BY <1>6, <1>7
  <2> QED
    BY ONLY <1>8, <2>1, LoadedChunkIs
<1>10. ts \in SUBSET Types /\ Capacity[us] <= Capacity[ts]
  BY <1>6, <1>7, SavedAre
<1>11. Len(chunk.ids) <= Capacity[ts]
  <2>1. Capacity[us] \in Nat /\ Capacity[ts] \in Nat
    BY <1>7, <1>10, DefaultAndRoom
  <2>2. Len(chunk.ids) \in Nat
    BY <1>7, ChunkFields
  <2> QED
    BY <1>7, <1>10, <2>1, <2>2
<1> QED
  BY <1>3, <1>7, <1>9, <1>10, <1>11

\* Every archetype that is loaded is well formed.
LEMMA LoadedArchOK ==
  ASSUME NEW archs, TableOK(archs), NEW map, ExactCells(Cells(archs), map),
         NEW written, written = ArchetypesWritten(archs), NEW k \in DOMAIN written,
         NEW chunks, chunks = ChunksWritten(archs, written[k]),
         NEW arch, arch = LoadedArch(archs, written[k])
  PROVE  /\ ArchOK(arch)
         /\ arch.types = SavedTypes(archs[written[k]].types)
         /\ arch.chunks = LoadedChunks(archs, written[k])
         /\ arch.chunks # << >>
         /\ \A n : Occupied(arch.chunks, n) <=> n \in DOMAIN chunks
         /\ \A n \in DOMAIN chunks : arch.chunks[n].ids = chunks[n].ids
<1>1. PICK a : a = written[k]
  OBVIOUS
<1>2. a \in DOMAIN archs /\ IsWritten(archs, a)
  BY <1>1, WrittenAre DEF IsWritten, TableOK
<1>3. PICK ts : ts = SavedTypes(archs[a].types)
  OBVIOUS
<1>4. PICK slots : slots = LoadedChunks(archs, a)
  OBVIOUS
<1>5. arch = [types |-> ts, chunks |-> slots, filled |-> 0]
  BY <1>1, <1>3, <1>4 DEF LoadedArch
<1>6. arch.types = ts /\ arch.chunks = slots
  BY <1>5
<1>7. IsSequence(slots) /\ DOMAIN slots = DOMAIN chunks /\ Len(slots) = Len(chunks)
  BY <1>1, <1>2, <1>4, LoadedChunksAre
<1>8. chunks # << >> /\ Len(chunks) \in Nat /\ DOMAIN chunks = 1 .. Len(chunks) /\ chunks \in Seq(Range(chunks))
  BY <1>1, <1>2, ChunksWrittenAre DEF IsWritten
<1>9. Len(chunks) > 0
  BY <1>8, EmptySeq
<1>10. \A n \in DOMAIN chunks : /\ IsChunk(slots[n], ts)
                               /\ slots[n].ids = chunks[n].ids
                               /\ Len(slots[n].ids) <= Capacity[ts]
  BY <1>1, <1>3, <1>4, LoadedChunkFields
<1>11. \A n \in DOMAIN chunks : slots[n] # Null
  BY <1>10, NotNull
<1>12. ts \in SUBSET Types
  BY <1>2, <1>3, TableFields, SavedAre DEF IsWritten, KeepsArchetype, Occupied
<1>13. IsArchetype(arch)
  <2>1. arch \in [types : SUBSET Types, chunks : {arch.chunks}, filled : Nat]
    BY <1>5, <1>12
  <2> QED
    BY <1>6, <1>7, <1>10, <2>1 DEF IsArchetype
<1>14. Trimmed(slots)
  BY <1>7, <1>8, <1>9, <1>11 DEF Trimmed
<1>15. slots # << >>
  BY <1>7, <1>9
<1>16. ArchOK(arch)
  BY <1>6, <1>7, <1>10, <1>13, <1>14 DEF ArchOK
<1>17. \A n : Occupied(slots, n) <=> n \in DOMAIN chunks
  BY <1>7, <1>11 DEF Occupied
<1> QED
  BY <1>1, <1>3, <1>4, <1>6, <1>10, <1>15, <1>16, <1>17

\* The loaded store is well formed.
LEMMA LoadedTableOK ==
  ASSUME NEW archs, TableOK(archs), NEW map, ExactCells(Cells(archs), map),
         NEW written, written = ArchetypesWritten(archs),
         NEW new, new = LoadedTable(archs)
  PROVE  /\ TableOK(new)
         /\ \A k : Occupied(new, k) <=> k \in DOMAIN written
         /\ \A k \in DOMAIN written : new[k] = LoadedArch(archs, written[k])
<1>1. Len(written) \in Nat /\ DOMAIN written = 1 .. Len(written)
  BY WrittenAre DEF TableOK
<1>2. new = [k \in 1 .. Len(written) |-> LoadedArch(archs, written[k])]
  BY <1>1 DEF LoadedTable
<1>3. DOMAIN new = DOMAIN written /\ \A k \in DOMAIN written : new[k] = LoadedArch(archs, written[k])
  BY <1>1, <1>2
<1>4. \A k \in DOMAIN written : /\ ArchOK(new[k])
                               /\ new[k].chunks # << >>
                               /\ new[k].types = SavedTypes(archs[written[k]].types)
  BY <1>3, LoadedArchOK
<1>5. \A k \in DOMAIN written : new[k] # Null
  BY <1>4, ArchNotNull
<1>6. \A k : Occupied(new, k) <=> k \in DOMAIN written
  BY <1>3, <1>5 DEF Occupied
<1>7. IsSequence(new) /\ Len(new) = Len(written)
  BY <1>1, <1>2 DEF IsSequence
<1>8. Trimmed(new)
  <2>1. ASSUME new # << >> PROVE new[Len(new)] # Null
    <3>1. Len(new) # 0
      <4>1. SUFFICES ASSUME Len(new) = 0 PROVE FALSE
        OBVIOUS
      <4>2. new = [i \in 1 .. 0 |-> new[i]]
        BY <1>7, <4>1 DEF IsSequence
      <4>3. new = << >>
        BY <4>2
      <4> QED
        BY <2>1, <4>3
    <3>2. Len(new) \in DOMAIN written
      BY <1>1, <1>7, <3>1
    <3> QED
      BY <1>5, <3>2
  <2> QED
    BY <2>1 DEF Trimmed
<1>9. ASSUME NEW j, NEW k, Occupied(new, j), Occupied(new, k), new[j].types = new[k].types
      PROVE  j = k
  <2>1. j \in DOMAIN written /\ k \in DOMAIN written
    BY <1>6, <1>9
  <2>2. SameWhenSaved(archs[written[j]], archs[written[k]])
    BY <1>4, <1>9, <2>1 DEF SameWhenSaved
  <2> QED
    BY <2>1, <2>2, WrittenApart DEF TableOK
<1> QED
  BY <1>3, <1>4, <1>6, <1>7, <1>8, <1>9 DEF TableOK

\* The places written are those of the entities of the chunks written.
LEMMA PlacesAre ==
  ASSUME NEW archs, NEW written, NEW p
  PROVE  p \in PlacesWritten(archs, written) <=>
           \E k \in DOMAIN written :
             \E n \in DOMAIN ChunksWritten(archs, written[k]) :
               \E e \in DOMAIN ChunksWritten(archs, written[k])[n].ids :
                 p = <<ChunksWritten(archs, written[k])[n].ids[e],
                       [arch |-> k, chunk |-> n, elem |-> e]>>
<1>1. \A k, chunks : p \in PlacesIn(k, chunks) <=>
        \E n \in DOMAIN chunks : \E e \in DOMAIN chunks[n].ids :
          p = <<chunks[n].ids[e], [arch |-> k, chunk |-> n, elem |-> e]>>
  BY DEF PlacesIn
<1>2. p \in PlacesWritten(archs, written) <=>
        \E k \in DOMAIN written : p \in PlacesIn(k, ChunksWritten(archs, written[k]))
  BY DEF PlacesWritten
<1> QED
  BY <1>1, <1>2

\* The entity at place ix of the loaded store is id, which was written there.
WrittenAt(archs, written, id, ix) ==
  /\ ix.arch \in DOMAIN written
  /\ ix.chunk \in DOMAIN ChunksWritten(archs, written[ix.arch])
  /\ ix.elem \in DOMAIN ChunksWritten(archs, written[ix.arch])[ix.chunk].ids
  /\ id = ChunksWritten(archs, written[ix.arch])[ix.chunk].ids[ix.elem]
  /\ ix = [arch |-> ix.arch, chunk |-> ix.chunk, elem |-> ix.elem]

\* What is written of places is exactly that.
LEMMA PlacesAreWritten ==
  ASSUME NEW archs, NEW written, NEW p
  PROVE  p \in PlacesWritten(archs, written) <=>
           p = <<p[1], p[2]>> /\ WrittenAt(archs, written, p[1], p[2])
<1>1. ASSUME p \in PlacesWritten(archs, written)
      PROVE  p = <<p[1], p[2]>> /\ WrittenAt(archs, written, p[1], p[2])
  <2>1. PICK k, n, e : /\ k \in DOMAIN written
                       /\ n \in DOMAIN ChunksWritten(archs, written[k])
                       /\ e \in DOMAIN ChunksWritten(archs, written[k])[n].ids
                       /\ p = <<ChunksWritten(archs, written[k])[n].ids[e],
                                [arch |-> k, chunk |-> n, elem |-> e]>>
    BY <1>1, PlacesAre
  <2>2. PICK chunks : chunks = ChunksWritten(archs, written[k])
    OBVIOUS
  <2>3. /\ p[1] = chunks[n].ids[e]
        /\ p[2] = [arch |-> k, chunk |-> n, elem |-> e]
        /\ p = <<p[1], p[2]>>
    BY <2>1, <2>2
  <2>4. p[2].arch = k /\ p[2].chunk = n /\ p[2].elem = e
    BY <2>3
  <2> QED
    BY <2>1, <2>2, <2>3, <2>4 DEF WrittenAt
<1>2. ASSUME p = <<p[1], p[2]>>, WrittenAt(archs, written, p[1], p[2])
      PROVE  p \in PlacesWritten(archs, written)
  <2>1. PICK k, n, e, id : k = p[2].arch /\ n = p[2].chunk /\ e = p[2].elem /\ id = p[1]
    OBVIOUS
  <2>2. /\ k \in DOMAIN written
        /\ n \in DOMAIN ChunksWritten(archs, written[k])
        /\ e \in DOMAIN ChunksWritten(archs, written[k])[n].ids
        /\ id = ChunksWritten(archs, written[k])[n].ids[e]
        /\ p[2] = [arch |-> k, chunk |-> n, elem |-> e]
    BY <1>2, <2>1 DEF WrittenAt
  <2>3. p = <<ChunksWritten(archs, written[k])[n].ids[e], [arch |-> k, chunk |-> n, elem |-> e]>>
    BY <1>2, <2>1, <2>2
  <2> QED
    BY <2>2, <2>3, PlacesAre
<1> QED
  BY <1>1, <1>2

\* Every entity written is in the map of the store that is saved, in a chunk of
\* an archetype that is kept, at the same position.
LEMMA WrittenAtIs ==
  ASSUME NEW archs, TableOK(archs), NEW map, ExactCells(Cells(archs), map),
         NEW written, written = ArchetypesWritten(archs),
         NEW id, NEW ix, WrittenAt(archs, written, id, ix)
  PROVE  /\ id \in DOMAIN map
         /\ id \in Nat \ {0}
         /\ map[id].elem = ix.elem
         /\ Inhabits(archs, map[id].arch, map[id].chunk)
         /\ KeepsArchetype(archs[map[id].arch])
         /\ SameWhenSaved(archs[written[ix.arch]], archs[map[id].arch])
         /\ ChunksWritten(archs, written[ix.arch])[ix.chunk]
              = archs[map[id].arch].chunks[map[id].chunk]
<1>1. PICK chunks : chunks = ChunksWritten(archs, written[ix.arch])
  OBVIOUS
<1>2. PICK k, n, e : k = ix.arch /\ n = ix.chunk /\ e = ix.elem
  OBVIOUS
<1>3. /\ k \in DOMAIN written /\ n \in DOMAIN chunks
      /\ e \in DOMAIN chunks[n].ids /\ id = chunks[n].ids[e]
  BY <1>1, <1>2 DEF WrittenAt
<1>4. PICK b, c : /\ Inhabits(archs, b, c)
                  /\ KeepsArchetype(archs[b])
                  /\ SameWhenSaved(archs[written[k]], archs[b])
                  /\ chunks[n] = archs[b].chunks[c]
  BY <1>1, <1>2, <1>3, WrittenChunkIs
<1>5. PICK ids : ids = archs[b].chunks[c].ids
  OBVIOUS
<1>6. e \in DOMAIN ids /\ id = ids[e]
  BY <1>3, <1>4, <1>5
<1>7. id \in Nat \ {0} /\ id \in DOMAIN map /\ map[id] = [arch |-> b, chunk |-> c, elem |-> e]
  BY <1>4, <1>5, <1>6, IdAtPlace DEF Inhabits
<1>8. map[id].arch = b /\ map[id].chunk = c /\ map[id].elem = e
  BY <1>7
<1> QED
  BY <1>1, <1>2, <1>4, <1>7, <1>8

\* An entity is written at one place.
LEMMA WrittenAtOnce ==
  ASSUME NEW archs, TableOK(archs), NEW map, ExactCells(Cells(archs), map),
         NEW written, written = ArchetypesWritten(archs),
         NEW id, NEW ix, WrittenAt(archs, written, id, ix),
         NEW iy, WrittenAt(archs, written, id, iy)
  PROVE  ix = iy
<1>1. PICK k, n, e : k = ix.arch /\ n = ix.chunk /\ e = ix.elem
  OBVIOUS
<1>2. PICK j, m, d : j = iy.arch /\ m = iy.chunk /\ d = iy.elem
  OBVIOUS
<1>3. e = d
  BY <1>1, <1>2, WrittenAtIs
<1>4. ChunksWritten(archs, written[k])[n] = ChunksWritten(archs, written[j])[m]
  BY <1>1, <1>2, WrittenAtIs
<1>5. /\ k \in DOMAIN written /\ n \in DOMAIN ChunksWritten(archs, written[k])
      /\ j \in DOMAIN written /\ m \in DOMAIN ChunksWritten(archs, written[j])
  BY <1>1, <1>2 DEF WrittenAt
<1>6. k = j /\ n = m
  BY <1>4, <1>5, ChunkWrittenOnce
<1>7. /\ ix = [arch |-> k, chunk |-> n, elem |-> e]
      /\ iy = [arch |-> j, chunk |-> m, elem |-> d]
  BY <1>1, <1>2 DEF WrittenAt
<1> QED
  BY <1>3, <1>6, <1>7

\* Where an entity is written, it is found in the loaded store, and nowhere else.
LEMMA FoundWhereWritten ==
  ASSUME NEW archs, TableOK(archs), NEW map, ExactCells(Cells(archs), map),
         NEW written, written = ArchetypesWritten(archs),
         NEW new, new = LoadedTable(archs), NEW id, NEW ix, WrittenAt(archs, written, id, ix)
  PROVE  IsAt(new, id, ix) /\ ix \in Places
<1>1. PICK k, n, e : k = ix.arch /\ n = ix.chunk /\ e = ix.elem
  OBVIOUS
<1>2. PICK chunks : chunks = ChunksWritten(archs, written[k])
  OBVIOUS
<1>3. /\ k \in DOMAIN written /\ n \in DOMAIN chunks
      /\ e \in DOMAIN chunks[n].ids /\ id = chunks[n].ids[e]
      /\ ix = [arch |-> k, chunk |-> n, elem |-> e]
  BY <1>1, <1>2 DEF WrittenAt
<1>4. Occupied(new, k) /\ new[k] = LoadedArch(archs, written[k])
  BY <1>3, LoadedTableOK
<1>5. PICK arch : arch = new[k]
  OBVIOUS
<1>6. ArchOK(arch) /\ Occupied(arch.chunks, n) /\ arch.chunks[n].ids = chunks[n].ids
  BY <1>2, <1>3, <1>4, <1>5, LoadedArchOK
<1>7. id \in Nat \ {0}
  BY WrittenAtIs
<1>8. IsAt(new, id, ix)
  BY <1>1, <1>3, <1>4, <1>5, <1>6, <1>7 DEF IsAt
<1>9. k \in Nat
  BY <1>3, WrittenAre DEF TableOK
<1>10. n \in Nat /\ e \in Nat
  <2>1. IsSequence(arch.chunks) /\ n \in 1 .. Len(arch.chunks)
    BY <1>6, ArchetypeFields
  <2>2. ChunkIds(arch, n) = chunks[n].ids
    BY <1>6 DEF ChunkIds
  <2>3. chunks[n].ids \in Seq(Nat \ {0})
    BY <1>6, <2>2, ChunkIdsType
  <2>4. DOMAIN chunks[n].ids = 1 .. Len(chunks[n].ids) /\ Len(chunks[n].ids) \in Nat
    BY <2>3, LenProperties
  <2> QED
    BY <1>3, <2>1, <2>4, SequenceType
<1> QED
  BY <1>3, <1>8, <1>9, <1>10 DEF Places

\* The map of the loaded store has exactly the entities written, each at the
\* place it was written at.
LEMMA LoadMapIs ==
  ASSUME NEW archs, TableOK(archs), NEW map, ExactCells(Cells(archs), map),
         NEW written, written = ArchetypesWritten(archs),
         NEW new, new = LoadedTable(archs),
         NEW loaded, loaded = LoadMap(new, PlacesWritten(archs, written))
  PROVE  /\ loaded \in [DOMAIN loaded -> Places]
         /\ \A id \in DOMAIN loaded : WrittenAt(archs, written, id, loaded[id])
         /\ \A id, ix : WrittenAt(archs, written, id, ix) => id \in DOMAIN loaded /\ loaded[id] = ix
<1> DEFINE places == PlacesWritten(archs, written)
           found  == {p \in places : IsAt(new, p[1], p[2])}
           at(id) == (CHOOSE p \in found : p[1] = id)[2]
<1>1. \A p \in found : p = <<p[1], p[2]>> /\ WrittenAt(archs, written, p[1], p[2])
  BY PlacesAreWritten
<1>2. ASSUME NEW id, NEW ix, WrittenAt(archs, written, id, ix) PROVE <<id, ix>> \in found
  <2>1. PICK p : p = <<id, ix>>
    OBVIOUS
  <2>2. p[1] = id /\ p[2] = ix /\ p = <<p[1], p[2]>>
    BY <2>1
  <2>3. p \in places
    BY <1>2, <2>2, PlacesAreWritten
  <2>4. IsAt(new, id, ix)
    BY <1>2, FoundWhereWritten
  <2> HIDE DEF places
  <2> QED
    BY <2>1, <2>2, <2>3, <2>4
<1>3. loaded = [id \in {p[1] : p \in found} |-> at(id)]
  BY DEF LoadMap
<1> HIDE DEF places, found
<1>4. ASSUME NEW id, NEW ix, WrittenAt(archs, written, id, ix)
      PROVE  id \in {p[1] : p \in found} /\ at(id) = ix
  <2>1. <<id, ix>> \in found /\ <<id, ix>>[1] = id
    BY <1>2, <1>4
  <2>2. PICK q : q = CHOOSE p \in found : p[1] = id
    OBVIOUS
  <2>3. q \in found /\ q[1] = id
    BY <2>1, <2>2
  <2>4. q[2] = ix
    BY <1>1, <1>4, <2>3, WrittenAtOnce
  <2> QED
    BY <2>1, <2>2, <2>4
<1>5. ASSUME NEW id \in {p[1] : p \in found} PROVE WrittenAt(archs, written, id, at(id))
  <2>1. PICK p \in found : p[1] = id
    BY <1>5
  <2>2. WrittenAt(archs, written, id, p[2])
    BY <1>1, <2>1
  <2> HIDE DEF at
  <2> QED
    BY <1>4, <2>2
<1> HIDE DEF at
<1>6. DOMAIN loaded = {p[1] : p \in found} /\ \A id \in DOMAIN loaded : loaded[id] = at(id)
  BY <1>3
<1>7. \A id \in DOMAIN loaded : WrittenAt(archs, written, id, loaded[id])
  BY <1>5, <1>6
<1>8. \A id, ix : WrittenAt(archs, written, id, ix) => id \in DOMAIN loaded /\ loaded[id] = ix
  BY <1>4, <1>6
<1>9. \A id \in DOMAIN loaded : loaded[id] \in Places
  BY <1>7, FoundWhereWritten
<1>10. loaded = [id \in DOMAIN loaded |-> loaded[id]]
  BY <1>3
<1> QED
  BY <1>7, <1>8, <1>9, <1>10

\* After a load, the map names the places of exactly the entities in the chunks.
LEMMA LoadedExact ==
  ASSUME NEW archs, TableOK(archs), NEW map, ExactCells(Cells(archs), map),
         NEW written, written = ArchetypesWritten(archs),
         NEW new, new = LoadedTable(archs),
         NEW loaded, loaded = LoadMap(new, PlacesWritten(archs, written))
  PROVE  /\ ExactCells(Cells(new), loaded)
         /\ \A id \in DOMAIN loaded : id \in DOMAIN map
<1>1. TableOK(new)
  BY LoadedTableOK
<1>2. PICK cells : cells = Cells(new)
  OBVIOUS
<1>3. cells \in [CellIndex -> Seq(Nat \ {0})]
  BY <1>1, <1>2, CellsType
<1>4. /\ loaded \in [DOMAIN loaded -> Places]
      /\ \A id \in DOMAIN loaded : WrittenAt(archs, written, id, loaded[id])
      /\ \A id, ix : WrittenAt(archs, written, id, ix) => id \in DOMAIN loaded /\ loaded[id] = ix
  BY LoadMapIs
<1>5. ASSUME NEW id \in DOMAIN loaded
      PROVE  /\ loaded[id].elem \in DOMAIN cells[Cell(loaded[id])]
             /\ cells[Cell(loaded[id])][loaded[id].elem] = id
  <2>1. IsAt(new, id, loaded[id]) /\ loaded[id] \in Places
    BY <1>4, FoundWhereWritten
  <2> QED
    BY <1>1, <1>2, <2>1, IsAtCells
<1>6. ASSUME NEW p \in CellIndex, NEW e \in DOMAIN cells[p]
      PROVE  /\ cells[p][e] \in DOMAIN loaded
             /\ loaded[cells[p][e]] = PlaceIn(p, e)
  <2>1. PICK k, n : p = <<k, n>> /\ k = p[1] /\ n = p[2] /\ k \in Nat /\ n \in Nat
    BY DEF CellIndex
  <2>2. cells[p] = IdsAt(new, k, n)
    BY <1>1, <1>2, <2>1, CellsType
  <2>3. cells[p] # << >>
    BY EmptySeq
  <2>4. Occupied(new, k) /\ cells[p] = ChunkIds(new[k], n)
    BY <2>2, <2>3 DEF IdsAt
  <2>5. Occupied(new[k].chunks, n) /\ cells[p] = new[k].chunks[n].ids
    BY <2>3, <2>4 DEF ChunkIds
  <2>6. k \in DOMAIN written /\ new[k] = LoadedArch(archs, written[k])
    BY <2>4, LoadedTableOK
  <2>7. PICK chunks : chunks = ChunksWritten(archs, written[k])
    OBVIOUS
  <2>8. n \in DOMAIN chunks /\ cells[p] = chunks[n].ids
    BY <2>5, <2>6, <2>7, LoadedArchOK
  <2>9. PICK ix : ix = [arch |-> k, chunk |-> n, elem |-> e]
    OBVIOUS
  <2>10. ix.arch = k /\ ix.chunk = n /\ ix.elem = e
    BY <2>9
  <2>11. WrittenAt(archs, written, cells[p][e], ix)
    BY <2>6, <2>7, <2>8, <2>9, <2>10 DEF WrittenAt
  <2>12. PlaceIn(p, e) = ix
    BY <2>1, <2>9 DEF PlaceIn
  <2> QED
    BY <1>4, <2>11, <2>12
<1>7. \A id \in DOMAIN loaded : id \in DOMAIN map
  BY <1>4, WrittenAtIs
<1> QED
  BY <1>2, <1>3, <1>4, <1>5, <1>6, <1>7 DEF ExactCells

-----------------------------------------------------------------------------
\* An entity made from a stream: its arrays.

\* The components that were written can be read, if T is trivially copyable.
Readable(comps) ==
  \A t \in Raw : TypeIndex[t] \in DOMAIN comps => comps[TypeIndex[t]] \in Element

\* The elements that the new entity has in its arrays.
LoadedElements(ts, comps) ==
  [t \in ArrayTypes(ts) |-> IF TypeIndex[t] \in DOMAIN comps /\ t \in Raw
                              THEN comps[TypeIndex[t]] ELSE Default]

\* They are elements.
LEMMA LoadedElementsType ==
  ASSUME NEW ts \in SUBSET Types, NEW comps, Readable(comps)
  PROVE  LoadedElements(ts, comps) \in [ArrayTypes(ts) -> Element]
BY DefaultAndRoom DEF LoadedElements, Readable, Element

\* The last element of a list replaced.
LEMMA LastReplaced ==
  ASSUME NEW S, NEW list \in Seq(S), NEW x \in S, NEW y \in S, NEW n, n = Len(list) + 1
  PROVE  [Append(list, x) EXCEPT ![n] = y] = Append(list, y)
<1>1. PICK k \in Nat : k = Len(list)
  BY LenProperties
<1>2. PICK p : p = Append(list, x)
  OBVIOUS
<1>3. PICK q : q = Append(list, y)
  OBVIOUS
<1>4. /\ p = [i \in 1 .. k + 1 |-> IF i = k + 1 THEN x ELSE list[i]]
      /\ q = [i \in 1 .. k + 1 |-> IF i = k + 1 THEN y ELSE list[i]]
  <2>1. /\ p \in Seq(S) /\ Len(p) = k + 1 /\ p[k + 1] = x
        /\ \A i \in 1 .. k : p[i] = list[i]
    BY <1>1, <1>2, AppendProperties
  <2>2. /\ q \in Seq(S) /\ Len(q) = k + 1 /\ q[k + 1] = y
        /\ \A i \in 1 .. k : q[i] = list[i]
    BY <1>1, <1>3, AppendProperties
  <2>3. p \in [1 .. k + 1 -> S] /\ q \in [1 .. k + 1 -> S]
    BY <2>1, <2>2, LenProperties
  <2>4. \A i \in 1 .. k + 1 : i = k + 1 \/ i \in 1 .. k
    OBVIOUS
  <2> QED
    BY ONLY <2>1, <2>2, <2>3, <2>4, k \in Nat
<1>5. [p EXCEPT ![k + 1] = y] = q
  BY ONLY <1>4, k \in Nat
<1> QED
  BY <1>1, <1>2, <1>3, <1>5

\* The chunk with one more entity, which has the elements f.
Grown(chunk, ts, id, f) ==
  [ids    |-> Append(chunk.ids, id),
   comps  |-> [t \in ArrayTypes(ts) |-> Append(chunk.comps[t], f[t])],
   shared |-> chunk.shared]

\* Chunk::loadElement, for the entity that Chunk::createEntity has added: a
\* chunk with one more entity.
LEMMA LoadIntoCreated ==
  ASSUME NEW ts \in SUBSET Types, NEW chunk, IsChunk(chunk, ts), NEW id \in Nat \ {0},
         NEW comps, Readable(comps), DOMAIN comps \subseteq DOMAIN Names,
         NEW made, made = ChunkCreate(chunk, id),
         NEW f, f = LoadedElements(ts, comps)
  PROVE  LoadElement(made, Len(made.ids), comps, Names) = Grown(chunk, ts, id, f)
<1>1. /\ chunk.ids \in Seq(Nat \ {0})
      /\ Len(chunk.ids) \in Nat
      /\ chunk.comps \in [ArrayTypes(ts) -> Seq(Element)]
      /\ \A t \in ArrayTypes(ts) : Len(chunk.comps[t]) = Len(chunk.ids)
  BY ChunkFields
<1>2. PICK n \in Nat : n = Len(chunk.ids)
  BY <1>1
<1>3. Len(made.ids) = n + 1
  BY <1>1, <1>2 DEF ChunkCreate
<1>4. /\ made = [ids |-> made.ids, comps |-> made.comps, shared |-> made.shared]
      /\ made.ids = Append(chunk.ids, id)
      /\ made.shared = chunk.shared
      /\ DOMAIN made.comps = ArrayTypes(ts)
      /\ \A t \in ArrayTypes(ts) : made.comps[t] = Append(chunk.comps[t], Default)
  BY <1>1 DEF ChunkCreate
<1> DEFINE loaded(t) == IF \A i \in DOMAIN comps : Names[i] # t THEN made.comps[t]
                        ELSE [made.comps[t] EXCEPT ![n + 1] =
                                ReadElement(t, made.comps[t][n + 1], comps[IndexOf(Names, t)])]
<1>5. PICK new : new = LoadElement(made, Len(made.ids), comps, Names)
  OBVIOUS
<1>6. new = [made EXCEPT !.comps = [t \in ArrayTypes(ts) |-> loaded(t)]]
  BY <1>3, <1>4, <1>5 DEF LoadElement
<1>7. ASSUME NEW t \in ArrayTypes(ts) PROVE loaded(t) = Append(chunk.comps[t], f[t])
  <2>1. t \in Types
    BY DEF ArrayTypes
  <2>2. (\A i \in DOMAIN comps : Names[i] # t) <=> TypeIndex[t] \notin DOMAIN comps
    BY <2>1, NamesAre
  <2>3. IndexOf(Names, t) = TypeIndex[t]
    BY <2>1, NamesAre
  <2>4. PICK old : old = chunk.comps[t]
    OBVIOUS
  <2>5. old \in Seq(Element) /\ Len(old) = n
    BY <1>1, <1>2, <2>4
  <2>6. f[t] = IF TypeIndex[t] \in DOMAIN comps /\ t \in Raw THEN comps[TypeIndex[t]] ELSE Default
    BY DEF LoadedElements
  <2>7. f[t] \in Element /\ Default \in Element
    BY LoadedElementsType, DefaultAndRoom DEF Element
  <2>8. PICK p : p = Append(old, Default)
    OBVIOUS
  <2>9. made.comps[t] = p
    BY <1>4, <2>4, <2>8
  <2>10. p[n + 1] = Default
    BY <2>5, <2>8
  <2>11. CASE TypeIndex[t] \notin DOMAIN comps
    BY <2>2, <2>4, <2>6, <2>8, <2>9, <2>11
  <2>12. CASE TypeIndex[t] \in DOMAIN comps
    <3>1. ReadElement(t, p[n + 1], comps[IndexOf(Names, t)]) = f[t]
      BY <2>3, <2>6, <2>10, <2>12 DEF ReadElement
    <3>2. loaded(t) = [p EXCEPT ![n + 1] = f[t]]
      BY <2>2, <2>9, <2>12, <3>1
    <3>3. PICK y : y = f[t]
      OBVIOUS
    <3>4. PICK m : m = n + 1
      OBVIOUS
    <3>5. /\ old \in Seq(Element) /\ Default \in Element /\ y \in Element
          /\ m = Len(old) + 1
      BY <2>5, <2>7, <3>3, <3>4
    <3>6. [Append(old, Default) EXCEPT ![m] = y] = Append(old, y)
      BY ONLY <3>5, LastReplaced
    <3> QED
      BY <2>4, <2>8, <3>2, <3>3, <3>4, <3>6
  <2> QED
    BY <2>11, <2>12
<1> HIDE DEF loaded
<1>8. [t \in ArrayTypes(ts) |-> loaded(t)] = [t \in ArrayTypes(ts) |-> Append(chunk.comps[t], f[t])]
  BY <1>7
<1> QED
  BY <1>4, <1>5, <1>6, <1>8 DEF Grown

\* The chunk that was chosen, put twice.
LEMMA IntoTwice ==
  ASSUME NEW arch, NEW ready, Ready(arch, ready.arch, ready.slot),
         NEW chunk
  PROVE  /\ Chosen(Into(ready, chunk)) = chunk
         /\ \A new : Into(Into(ready, chunk), new) = Into(ready, new)
<1>0. PICK once : once = Into(ready, chunk)
  OBVIOUS
<1>1. PICK old, slot : old = ready.arch /\ slot = ready.slot
  OBVIOUS
<1>2. ArchOK(old) /\ Occupied(old.chunks, slot)
  BY <1>1 DEF Ready, HasRoom
<1>3. /\ old = [types |-> old.types, chunks |-> old.chunks, filled |-> old.filled]
      /\ slot \in DOMAIN old.chunks
  BY <1>2, ArchetypeFields DEF Occupied
<1>4. once = [arch |-> WithChunk(old, slot, chunk), slot |-> slot]
  BY <1>0, <1>1 DEF Into
<1>5. \A x : WithChunk(old, slot, x) = [types |-> old.types, chunks |-> [old.chunks EXCEPT ![slot] = x],
                                       filled |-> old.filled]
  BY <1>3 DEF WithChunk
<1>6. once.slot = slot /\ once.arch.chunks = [old.chunks EXCEPT ![slot] = chunk]
  BY <1>4, <1>5
<1>7. Chosen(once) = chunk
  BY <1>3, <1>6 DEF Chosen
<1>8. ASSUME NEW new PROVE WithChunk(once.arch, slot, new) = WithChunk(old, slot, new)
  <2>1. PICK slots : slots = old.chunks
    OBVIOUS
  <2>2. [[slots EXCEPT ![slot] = chunk] EXCEPT ![slot] = new] = [slots EXCEPT ![slot] = new]
    OBVIOUS
  <2>3. once.arch = [types |-> old.types, chunks |-> [slots EXCEPT ![slot] = chunk],
                     filled |-> old.filled]
    BY <1>4, <1>5, <2>1
  <2>4. WithChunk(once.arch, slot, new) =
          [types |-> old.types, chunks |-> [[slots EXCEPT ![slot] = chunk] EXCEPT ![slot] = new],
           filled |-> old.filled]
    BY <2>3 DEF WithChunk
  <2> QED
    BY <1>5, <2>1, <2>2, <2>4
<1> QED
  BY <1>0, <1>1, <1>6, <1>7, <1>8 DEF Into

\* The rows of new are those of chunk and one more.
RowAdded(chunk, new, ts, id, f) ==
  /\ \A j, row : ChunkHas(chunk, ts, j, row) => ChunkHas(new, ts, j, row)
  /\ ChunkHas(new, ts, id, Row(ts, chunk.shared, f))

\* An element added to every array adds one row.
LEMMA GrownRow ==
  ASSUME NEW ts \in SUBSET Types, NEW chunk, IsChunk(chunk, ts),
         NEW id \in Nat \ {0}, NEW given \in [ArrayTypes(ts) -> Element],
         NEW new, new = Grown(chunk, ts, id, given)
  PROVE  RowAdded(chunk, new, ts, id, given)
<1> DEFINE f == given
<1>1. f \in [ArrayTypes(ts) -> Element]
  OBVIOUS
<1>2. new = [ids    |-> Append(chunk.ids, id),
             comps  |-> [t \in ArrayTypes(ts) |-> Append(chunk.comps[t], f[t])],
             shared |-> chunk.shared]
  BY DEF Grown
<1> HIDE DEF f
<1>3. /\ \A j, row : ChunkHas(chunk, ts, j, row) => ChunkHas(new, ts, j, row)
      /\ ChunkHas(new, ts, id, Row(ts, chunk.shared, f))
  BY <1>1, <1>2, GrownHas
<1> QED
  BY <1>3 DEF f, RowAdded

\* Archetype::createEntityFromStream, up to the shared values: an entity with
\* the components that were read, and all others as they were.
LEMMA ArchLoadHas ==
  ASSUME NEW arch, ArchOK(arch), NEW ts, ts = arch.types, NEW id \in Nat \ {0},
         NEW s, s.names = Names, Readable(s.comps), DOMAIN s.comps \subseteq DOMAIN Names,
         NEW made, made = ArchCreateFromStream(arch, id, s)
  PROVE  /\ made.slot \in Nat
         /\ Added(arch, made.arch, made.slot, id)
         /\ HasAll(arch, made.arch)
         /\ \E shared \in [SharedTypes(ts) -> Value] :
              ArchHas(made.arch, id, Row(ts, shared, LoadedElements(ts, s.comps)))
<1>1. PICK ready : ready = ChunkForNewEntity(arch)
  OBVIOUS
<1>2. Ready(arch, ready.arch, ready.slot) /\ ready.slot \in Nat
  BY <1>1, ChunkForNewEntityReady
<1>3. ArchKeeps(arch, ready.arch)
  BY <1>1, ForNewEntityKeeps
<1>4. PICK old : old = Chosen(ready)
  OBVIOUS
<1>5. IsChunk(old, ts) /\ ts \in SUBSET Types
  BY <1>2, <1>4, ChosenType
<1>6. PICK born : born = ChunkCreate(old, id)
  OBVIOUS
<1>7. PICK once : once = Into(ready, born)
  OBVIOUS
<1>8. once = ArchCreate(arch, id)
  BY <1>1, <1>4, <1>6, <1>7 DEF ArchCreate
<1>9. PICK f : f = LoadedElements(ts, s.comps)
  OBVIOUS
<1>10. PICK chunk : chunk = LoadElement(born, Len(born.ids), s.comps, Names)
  OBVIOUS
<1>11. made = Into(ready, chunk)
  <2>1. Chosen(once) = born /\ \A new : Into(once, new) = Into(ready, new)
    BY ONLY <1>2, <1>7, IntoTwice
  <2>2. made = Into(once, LoadElement(Chosen(once), Len(Chosen(once).ids), s.comps, Names))
    BY <1>8 DEF ArchCreateFromStream
  <2> QED
    BY <1>10, <2>1, <2>2
<1>12. chunk = Grown(old, ts, id, f)
  <2>1. PICK comps : comps = s.comps
    OBVIOUS
  <2>2. Readable(comps) /\ DOMAIN comps \subseteq DOMAIN Names /\ f = LoadedElements(ts, comps)
    BY <1>9, <2>1
  <2>3. chunk = LoadElement(born, Len(born.ids), comps, Names)
    BY <1>10, <2>1
  <2>4. LoadElement(born, Len(born.ids), comps, Names) = Grown(old, ts, id, f)
    BY ONLY <1>5, <1>6, <2>2, LoadIntoCreated, id \in Nat \ {0}
  <2> QED
    BY ONLY <2>3, <2>4
<1>13. f \in [ArrayTypes(ts) -> Element]
  BY <1>5, <1>9, LoadedElementsType
<1>14. IsChunk(chunk, ts) /\ IdAdded(old, chunk, id)
  BY <1>5, <1>12, <1>13, ChunkGrown DEF Grown
<1>15. made.slot \in Nat /\ Added(arch, made.arch, made.slot, id)
  <2>1. LET into == Into(ready, chunk)
        IN  into.slot \in Nat /\ Added(arch, into.arch, into.slot, id)
    BY <1>2, <1>4, <1>14, IntoAdded
  <2> QED
    BY <1>11, <2>1
<1>16. PICK row : row = Row(ts, old.shared, f)
  OBVIOUS
<1>17. /\ \A j, x : ChunkHas(old, ts, j, x) => ChunkHas(chunk, ts, j, x)
       /\ ChunkHas(chunk, ts, id, row)
  <2>1. RowAdded(old, chunk, ts, id, f)
    BY ONLY <1>5, <1>12, <1>13, GrownRow, id \in Nat \ {0}
  <2> QED
    BY <1>16, <2>1 DEF RowAdded
<1>18. PICK new : new = made.arch
  OBVIOUS
<1>19. \A j, x : /\ ChunkHas(chunk, ts, j, x) => ArchHas(new, j, x)
                 /\ ArchHas(arch, j, x) /\ (ChunkHas(old, ts, j, x) => ChunkHas(chunk, ts, j, x))
                    => ArchHas(new, j, x)
  BY <1>2, <1>3, <1>4, <1>11, <1>14, <1>18, IntoHas
<1>20. HasAll(arch, new) /\ ArchHas(new, id, row)
  BY <1>17, <1>19 DEF HasAll
<1>21. old.shared \in [SharedTypes(ts) -> Value]
  BY <1>5, ChunkFields
<1> QED
  BY <1>9, <1>15, <1>16, <1>18, <1>20, <1>21

-----------------------------------------------------------------------------
\* An entity made from a stream: its shared values.

\* The place that ArchSetShared has put the entity at is where the entity is.
LEMMA SharedPlaceIsAt ==
  ASSUME NEW s, StoreOK(s), NEW id \in DOMAIN s.map, NEW ix, ix = s.map[id],
         NEW t \in SharedTypes(TypesOf(s, id)), NEW v \in Value,
         NEW archs, archs = s.archetypes, PlacedChunk(archs, ix).shared[t] # v,
         NEW set, set = ArchSetShared(archs[ix.arch], ix.chunk, ix.elem, t, v),
         NEW new, new = Stored(archs, ix.arch, set.arch)
  PROVE  IsAt(new, id, LastPlace(ix.arch, set))
<1>1. /\ TableOK(archs) /\ ix \in Places /\ Holds(archs, id, ix) /\ id \in Nat \ {0}
      /\ TypesOf(s, id) = archs[ix.arch].types
  <2>1. PICK chunk : chunk = PlacedChunk(archs, ix)
    OBVIOUS
  <2>2. PICK us : us = TypesOf(s, id)
    OBVIOUS
  <2>3. /\ TableOK(archs) /\ ix \in Places /\ Holds(archs, id, ix) /\ id \in Nat \ {0}
        /\ us = archs[ix.arch].types
    BY ONLY StoreOK(s), id \in DOMAIN s.map, archs = s.archetypes, ix = s.map[id], <2>1, <2>2, PlaceOf
  <2> QED
    BY <2>2, <2>3
<1>2. SharedSet(archs, new, id, ix, set)
  BY <1>1, SharedSetType
<1>3. PICK p : p = Cell(ix)
  OBVIOUS
<1>4. PICK b, q : b = ix.arch /\ q = <<b, set.slot>>
  OBVIOUS
<1>5. PICK less : CellRemoved(Cells(archs), less, p, ix.elem) /\ CellAdded(less, Cells(new), q, id)
  BY <1>2, <1>3, <1>4 DEF SharedSet
<1>6. /\ TableOK(new) /\ set.slot \in Nat
      /\ Cells(new)[q] = SlotIds(set.arch, set.slot)
  BY <1>2, <1>4 DEF SharedSet
<1>7. b \in Nat
  BY <1>1, <1>4 DEF Places
<1>8. LastPlace(b, set) = PlaceIn(q, Len(Cells(new)[q])) /\ q \in CellIndex
  BY ONLY <1>4, <1>6, <1>7, LastPlaceIs
<1>9. less \in [CellIndex -> Seq(Nat \ {0})]
  BY <1>5 DEF CellRemoved
<1>10. PICK place : place = LastPlace(b, set)
  OBVIOUS
<1>11. IsAt(new, id, place)
  BY <1>1, <1>5, <1>6, <1>8, <1>9, <1>10, AddedIsAt
<1> QED
  BY <1>4, <1>10, <1>11

\* The store r is s with the value v of t, if the entity has that shared
\* component, else it is s.
SharedTaken(s, r, id, t, v) ==
  /\ StoreOK(r)
  /\ \A j : j \in DOMAIN r.map <=> j \in DOMAIN s.map
  /\ IF t \in SharedTypes(TypesOf(s, id))
       THEN EntitiesOf(r) = Replaced(EntitiesOf(s), id, RowWith(RowIn(s, id), t, v))
       ELSE r = s

\* An index map that already has the place.
LEMMA SetSharedLoadedIs ==
  ASSUME NEW s, StoreOK(s), NEW id \in DOMAIN s.map,
         NEW t \in SharedTypes(TypesOf(s, id)), NEW v \in Value,
         PlacedChunk(s.archetypes, s.map[id]).shared[t] # v
  PROVE  SetSharedLoaded(s, id, t, v) = SetSharedAt(s, id, s.map[id], t, v)
<1>1. PICK archs : archs = s.archetypes
  OBVIOUS
<1>2. PICK map : map = s.map
  OBVIOUS
<1>3. PICK ix : ix = map[id]
  OBVIOUS
<1>4. PICK chunk : chunk = PlacedChunk(archs, ix)
  OBVIOUS
<1>5. PICK set : set = ArchSetShared(archs[ix.arch], ix.chunk, ix.elem, t, v)
  OBVIOUS
<1>6. PICK new : new = Stored(archs, ix.arch, set.arch)
  OBVIOUS
<1>7. PICK place : place = LastPlace(ix.arch, set)
  OBVIOUS
<1>8. IsAt(new, id, place)
  BY <1>1, <1>2, <1>3, <1>4, <1>5, <1>6, <1>7, SharedPlaceIsAt
<1>9. t \in DOMAIN chunk.shared
  <2>1. PICK us : us = TypesOf(s, id)
    OBVIOUS
  <2>2. IsChunk(chunk, us) /\ us \in SUBSET Types
    BY <1>1, <1>2, <1>3, <1>4, <2>1, PlaceOf
  <2> QED
    BY <2>1, <2>2, ChunkFields
<1>10. PICK st : st = StoreOf(new, Indexed(map, id, place))
  OBVIOUS
<1>11. SetIndex(StoreOf(new, map), id, place) = st
  BY <1>8, <1>10, StoreParts DEF SetIndex
<1>12. chunk = ChunkOf(s, id) /\ chunk = archs[ix.arch].chunks[ix.chunk] /\ chunk.shared[t] # v
  BY <1>1, <1>2, <1>3, <1>4 DEF ChunkOf, PlacedChunk
<1>13. SetSharedLoaded(s, id, t, v) =
         IF MovedId(chunk, ix.elem) = 0 THEN st ELSE SetIndex(st, MovedId(chunk, ix.elem), ix)
  BY <1>1, <1>2, <1>3, <1>5, <1>6, <1>7, <1>9, <1>11, <1>12 DEF SetSharedLoaded
<1>14. SetSharedAt(s, id, ix, t, v) =
         IF MovedId(chunk, ix.elem) = 0 THEN st ELSE SetIndex(st, MovedId(chunk, ix.elem), ix)
  BY <1>1, <1>2, <1>3, <1>5, <1>6, <1>7, <1>10, <1>12 DEF SetSharedAt
<1> QED
  BY <1>2, <1>3, <1>13, <1>14

\* The store stays well formed, and the entity has the value.
LEMMA SetSharedLoadedOK ==
  ASSUME NEW s, StoreOK(s), NEW id \in DOMAIN s.map, NEW t, NEW v \in Value,
         NEW r, r = SetSharedLoaded(s, id, t, v)
  PROVE  SharedTaken(s, r, id, t, v)
<1>1. PICK archs : archs = s.archetypes
  OBVIOUS
<1>2. PICK ix : ix = s.map[id]
  OBVIOUS
<1>3. PICK chunk : chunk = PlacedChunk(archs, ix)
  OBVIOUS
<1>4. PICK us : us = TypesOf(s, id)
  OBVIOUS
<1>5. IsChunk(chunk, us) /\ us \in SUBSET Types
  BY <1>1, <1>2, <1>3, <1>4, PlaceOf
<1>6. DOMAIN chunk.shared = SharedTypes(us) /\ chunk = ChunkOf(s, id)
  BY <1>1, <1>2, <1>3, <1>5, ChunkFields DEF ChunkOf, PlacedChunk
<1>7. CASE t \notin SharedTypes(us)
  <2>1. r = s
    BY <1>6, <1>7 DEF SetSharedLoaded
  <2> QED
    BY <1>4, <1>7, <2>1 DEF SharedTaken
<1>8. CASE t \in SharedTypes(us) /\ chunk.shared[t] = v
  <2>1. r = s
    BY <1>6, <1>8 DEF SetSharedLoaded
  <2>2. PICK row : row = RowIn(s, id)
    OBVIOUS
  <2>3. RowWith(row, t, v) = row
    BY <1>1, <1>2, <1>3, <1>4, <1>8, <2>2, RowWithSame DEF RowIn
  <2>4. EntitiesOf(s)[id] = row
    BY <2>2, EntitiesFields
  <2>5. PICK es : es = EntitiesOf(s)
    OBVIOUS
  <2>6. es = [j \in DOMAIN es |-> es[j]]
    BY <2>5 DEF EntitiesOf
  <2>7. Replaced(es, id, row) = es
    BY <2>4, <2>5, <2>6 DEF Replaced
  <2> QED
    BY <1>4, <1>8, <2>1, <2>2, <2>3, <2>5, <2>7 DEF SharedTaken
<1>9. CASE t \in SharedTypes(us) /\ chunk.shared[t] # v
  <2>1. r = SetSharedAt(s, id, s.map[id], t, v)
    BY <1>1, <1>2, <1>3, <1>4, <1>9, SetSharedLoadedIs
  <2>2. StoreOK(r) /\ \A j : j \in DOMAIN r.map <=> j \in DOMAIN s.map
    BY <1>4, <1>9, <2>1, SetSharedAtOK
  <2>3. KeepsOthers(s, r, id) /\ Has(r.archetypes, id, RowWith(RowIn(s, id), t, v))
    BY <1>1, <1>4, <1>9, <2>1, SetSharedAtHas DEF KeepsOthers
  <2>4. EntitiesOf(r) = Replaced(EntitiesOf(s), id, RowWith(RowIn(s, id), t, v))
    BY <2>2, <2>3, EntitiesReplaced
  <2> QED
    BY <1>4, <1>9, <2>2, <2>4 DEF SharedTaken
<1> QED
  BY <1>7, <1>8, <1>9

\* The stream of an entity or a prefab with the types ts: its components can be
\* read, and it has a value for every shared component.
IsPrefabStream(s, ts) ==
  /\ ts \in SUBSET Types
  /\ s.kind = "prefab" /\ s.names = Names /\ s.types = IndicesOf(ts)
  /\ DOMAIN s.comps \subseteq DOMAIN Names /\ Readable(s.comps)
  /\ DOMAIN s.shared \subseteq DOMAIN Names
  /\ \A i \in DOMAIN s.shared : /\ Kind[Names[i]] = "Shared"
                                /\ s.shared[i] \in ValuesOf(Names[i])
  /\ \A t \in SharedTypes(ts) : TypeIndex[t] \in DOMAIN s.shared

\* The row of the entity made from it.
StreamRow(ts, s) ==
  Row(ts, [t \in SharedTypes(ts) |-> s.shared[TypeIndex[t]]], LoadedElements(ts, s.comps))

\* The indices in the order of the types are each of them once.
LEMMA InOrderIs ==
  ASSUME NEW is, is \subseteq DOMAIN Names
  PROVE  \E n \in Nat : /\ DOMAIN InOrder(is) = 1 .. n
                        /\ \A k \in 1 .. n : InOrder(is)[k] \in is
                        /\ \A i \in is : \E k \in 1 .. n : InOrder(is)[k] = i
<1>1. PICK m \in Nat : m = Cardinality(Types)
  BY SaveLoadAssumption, FS_CardinalityType
<1>2. PICK list : list = [n \in 1 .. m |-> n - 1]
  OBVIOUS
<1>3. list \in Seq(Nat) /\ Range(list) = 0 .. m - 1
  <2>1. list \in [1 .. m -> Nat]
    BY <1>2
  <2>2. list \in Seq(Nat)
    BY <2>1, SeqDef
  <2>3. \A i \in 0 .. m - 1 : i + 1 \in 1 .. m /\ list[i + 1] = i
    BY <1>2
  <2>4. \A n \in 1 .. m : list[n] \in 0 .. m - 1
    BY <1>2
  <2>5. DOMAIN list = 1 .. m
    BY <1>2
  <2> QED
    BY <2>2, <2>3, <2>4, <2>5 DEF Range
<1>4. PICK ordered : ordered = Kept(list, is)
  OBVIOUS
<1>5. ordered = InOrder(is)
  BY <1>1, <1>2, <1>4 DEF InOrder
<1>6. is \subseteq 0 .. m - 1
  BY <1>1, NamesAre, SaveLoadAssumption
<1>7. ordered \in Seq(Nat) /\ Range(ordered) = is
  <2>1. ordered \in Seq(Nat) /\ Range(ordered) = Range(list) \intersect is
    BY <1>3, <1>4, KeptElements
  <2> QED
    BY <1>3, <1>6, <2>1
<1>8. DOMAIN ordered = 1 .. Len(ordered) /\ Len(ordered) \in Nat
  BY <1>7, LenProperties
<1> QED
  BY <1>5, <1>7, <1>8 DEF Range

\* Another shared value, also in a row.
OtherShared(shared, t, v) == [shared EXCEPT ![t] = v]

\* The row of an entity of which one shared value is another.
LEMMA RowWithShared ==
  ASSUME NEW ts, NEW shared \in [SharedTypes(ts) -> Value], NEW f, NEW t \in SharedTypes(ts),
         NEW v, NEW row, row = Row(ts, shared, f), NEW new, new = OtherShared(shared, t, v)
  PROVE  RowWith(row, t, v) = Row(ts, new, f)
<1>1. t \in ts /\ t \notin EmptyTypes
  BY DEF SharedTypes
<1>3. /\ DOMAIN shared = SharedTypes(ts)
      /\ new[t] = v
      /\ \A u \in SharedTypes(ts) : u # t => new[u] = shared[u]
  BY DEF OtherShared
<1> QED
  BY <1>1, <1>3 DEF RowWith, Row

\* With the first k indices of list, the entity has the shared values of these.
SharedSoFar(st, cur, id, ts, f, list, k, s) ==
  /\ StoreOK(cur)
  /\ \A j : j \in DOMAIN cur.map <=> j \in DOMAIN st.map
  /\ \E shared \in [SharedTypes(ts) -> Value] :
       /\ EntitiesOf(cur) = Replaced(EntitiesOf(st), id, Row(ts, shared, f))
       /\ \A j \in 1 .. k : Names[list[j]] \in SharedTypes(ts)
                              => shared[Names[list[j]]] = s.shared[list[j]]

\* One more of them.
LEMMA SharedOneMore ==
  ASSUME NEW st, NEW id \in DOMAIN st.map, NEW ts \in SUBSET Types, NEW s, IsPrefabStream(s, ts),
         NEW f, NEW n \in Nat, NEW list, \A j \in 1 .. n : list[j] \in DOMAIN s.shared,
         NEW k \in 0 .. n - 1, NEW cur, SharedSoFar(st, cur, id, ts, f, list, k, s),
         NEW next, next = SetSharedLoaded(cur, id, s.names[list[k + 1]], s.shared[list[k + 1]])
  PROVE  SharedSoFar(st, next, id, ts, f, list, k + 1, s)
<1>1. PICK i : i = list[k + 1]
  OBVIOUS
<1>2. PICK t, v : t = Names[i] /\ v = s.shared[i]
  OBVIOUS
<1>3. k + 1 \in 1 .. n /\ 1 .. k \subseteq 1 .. n /\ 1 .. k + 1 = (1 .. k) \union {k + 1}
  OBVIOUS
<1>4. /\ i \in DOMAIN s.shared /\ i \in DOMAIN Names /\ v \in Value /\ s.names = Names
  BY <1>1, <1>2, <1>3, TypesAssumption DEF IsPrefabStream, ValuesOf
<1>5. PICK shared \in [SharedTypes(ts) -> Value] :
        /\ EntitiesOf(cur) = Replaced(EntitiesOf(st), id, Row(ts, shared, f))
        /\ \A j \in 1 .. k : Names[list[j]] \in SharedTypes(ts)
                              => shared[Names[list[j]]] = s.shared[list[j]]
  BY DEF SharedSoFar
<1>6. PICK es : es = EntitiesOf(st)
  OBVIOUS
<1>7. PICK row : row = Row(ts, shared, f)
  OBVIOUS
<1>8. StoreOK(cur) /\ id \in DOMAIN cur.map /\ \A j : j \in DOMAIN cur.map <=> j \in DOMAIN st.map
  BY DEF SharedSoFar
<1>9. SharedTaken(cur, next, id, t, v)
  BY <1>1, <1>2, <1>4, <1>8, SetSharedLoadedOK
<1>10. RowIn(cur, id) = row /\ TypesOf(cur, id) = ts
  <2>1. id \in DOMAIN es
    BY <1>6 DEF EntitiesOf
  <2>2. EntitiesOf(cur)[id] = row
    BY <1>5, <1>6, <1>7, <2>1 DEF Replaced
  <2>3. DOMAIN row = ts
    BY <1>7 DEF Row
  <2> QED
    BY <1>8, <2>2, <2>3, EntitiesFields
<1>11. StoreOK(next) /\ \A j : j \in DOMAIN next.map <=> j \in DOMAIN st.map
  BY <1>8, <1>9 DEF SharedTaken
<1>12. CASE t \in SharedTypes(ts)
  <2>1. PICK new : new = OtherShared(shared, t, v)
    OBVIOUS
  <2>2. new \in [SharedTypes(ts) -> Value]
    BY <1>4, <2>1 DEF OtherShared
  <2>3. EntitiesOf(next) = Replaced(EntitiesOf(cur), id, RowWith(row, t, v))
    BY <1>9, <1>10, <1>12 DEF SharedTaken
  <2>4. RowWith(row, t, v) = Row(ts, new, f)
    BY ONLY <1>7, <1>12, <2>1, RowWithShared, shared \in [SharedTypes(ts) -> Value]
  <2>5. EntitiesOf(next) = Replaced(es, id, Row(ts, new, f))
    <3>1. PICK other : other = Row(ts, new, f)
      OBVIOUS
    <3>2. Replaced(Replaced(es, id, row), id, other) = Replaced(es, id, other)
      BY DEF Replaced
    <3> QED
      BY <1>5, <1>6, <1>7, <2>3, <2>4, <3>1, <3>2
  <2>6. ASSUME NEW j \in 1 .. k + 1, Names[list[j]] \in SharedTypes(ts)
        PROVE  new[Names[list[j]]] = s.shared[list[j]]
    <3>1. PICK l : l = list[j]
      OBVIOUS
    <3>2. l \in DOMAIN Names
      BY <3>1, <1>3 DEF IsPrefabStream
    <3>3. CASE Names[l] = t
      <4>1. l = i
        BY <1>2, <1>4, <3>2, <3>3, NamesAre
      <4> QED
        BY <1>2, <1>5, <1>12, <2>1, <3>1, <3>3, <4>1 DEF OtherShared
    <3>4. CASE Names[l] # t
      <4>1. j \in 1 .. k
        BY <1>1, <1>2, <1>3, <3>1, <3>4
      <4>2. new[Names[l]] = shared[Names[l]]
        BY <1>5, <2>1, <2>6, <3>1, <3>4 DEF OtherShared
      <4> QED
        BY <1>5, <2>6, <3>1, <4>1, <4>2
    <3> QED
      BY <3>3, <3>4
  <2> QED
    BY <1>6, <1>11, <2>2, <2>5, <2>6 DEF SharedSoFar
<1>13. CASE t \notin SharedTypes(ts)
  <2>1. next = cur
    BY <1>9, <1>10, <1>13 DEF SharedTaken
  <2>2. \A j \in 1 .. k + 1 : Names[list[j]] \in SharedTypes(ts)
                                => shared[Names[list[j]]] = s.shared[list[j]]
    BY <1>1, <1>2, <1>3, <1>5, <1>13
  <2> QED
    BY <1>5, <1>11, <2>1, <2>2 DEF SharedSoFar
<1> QED
  BY <1>12, <1>13

\* All of them, one after the other.
LEMMA SharedAll ==
  ASSUME NEW st, StoreOK(st), NEW id \in DOMAIN st.map, NEW ts, NEW s, IsPrefabStream(s, ts),
         NEW f, f = LoadedElements(ts, s.comps),
         NEW found \in [SharedTypes(ts) -> Value], RowIn(st, id) = Row(ts, found, f),
         NEW list, list = InOrder(DOMAIN s.shared),
         NEW r, r = SharedLoaded(st, id, list, s)
  PROVE  /\ StoreOK(r)
         /\ \A j : j \in DOMAIN r.map <=> j \in DOMAIN st.map
         /\ EntitiesOf(r) = Replaced(EntitiesOf(st), id, StreamRow(ts, s))
<1>1. PICK n \in Nat : /\ DOMAIN list = 1 .. n
                       /\ \A k \in 1 .. n : list[k] \in DOMAIN s.shared
                       /\ \A i \in DOMAIN s.shared : \E k \in 1 .. n : list[k] = i
  <2>1. DOMAIN s.shared \subseteq DOMAIN Names
    BY DEF IsPrefabStream
  <2> QED
    BY <2>1, InOrderIs
<1>2. PICK L : SharedLoadUpTo(L, n, st, id, list, s) /\ r = L[n]
  BY <1>1, SharedLoadStepByStep
<1>3. ts \in SUBSET Types
  BY DEF IsPrefabStream
<1> DEFINE T == {k \in 0 .. n : SharedSoFar(st, L[k], id, ts, f, list, k, s)}
<1>4. 0 \in T
  <2>1. L[0] = st
    BY <1>2 DEF SharedLoadUpTo
  <2>2. PICK es : es = EntitiesOf(st)
    OBVIOUS
  <2>3. PICK row : row = Row(ts, found, f)
    OBVIOUS
  <2>4. es = [j \in DOMAIN es |-> es[j]] /\ es[id] = row
    BY <2>2, <2>3 DEF EntitiesOf
  <2>5. es = Replaced(es, id, row)
    BY <2>4 DEF Replaced
  <2>6. 1 .. 0 = {}
    OBVIOUS
  <2> QED
    BY <2>1, <2>2, <2>3, <2>5, <2>6 DEF SharedSoFar
<1>5. ASSUME NEW k \in 0 .. n - 1, k \in T PROVE k + 1 \in T
  <2>1. PICK cur, next : cur = L[k] /\ next = L[k + 1]
    OBVIOUS
  <2>2. next = SetSharedLoaded(cur, id, s.names[list[k + 1]], s.shared[list[k + 1]])
    BY <1>2, <2>1 DEF SharedLoadUpTo
  <2>3. SharedSoFar(st, cur, id, ts, f, list, k, s)
    BY <1>5, <2>1
  <2>4. SharedSoFar(st, next, id, ts, f, list, k + 1, s)
    BY <1>1, <1>3, <2>2, <2>3, SharedOneMore
  <2>5. k + 1 \in 0 .. n
    OBVIOUS
  <2> QED
    BY <2>1, <2>4, <2>5
<1> HIDE DEF T
<1>6. \A k \in 0 .. n : k \in T
  BY <1>4, <1>5, UpTo
<1>7. SharedSoFar(st, r, id, ts, f, list, n, s)
  BY <1>2, <1>6 DEF T
<1>8. PICK shared \in [SharedTypes(ts) -> Value] :
        /\ EntitiesOf(r) = Replaced(EntitiesOf(st), id, Row(ts, shared, f))
        /\ \A j \in 1 .. n : Names[list[j]] \in SharedTypes(ts)
                              => shared[Names[list[j]]] = s.shared[list[j]]
  BY <1>7 DEF SharedSoFar
<1>9. ASSUME NEW t \in SharedTypes(ts) PROVE shared[t] = s.shared[TypeIndex[t]]
  <2>1. t \in Types /\ TypeIndex[t] \in DOMAIN s.shared
    BY <1>3 DEF IsPrefabStream, SharedTypes
  <2>2. PICK k \in 1 .. n : list[k] = TypeIndex[t]
    BY <1>1, <2>1
  <2>3. Names[list[k]] = t
    BY <2>1, <2>2, NamesAre
  <2> QED
    BY <1>8, <2>2, <2>3
<1>10. shared = [t \in SharedTypes(ts) |-> s.shared[TypeIndex[t]]]
  BY <1>9
<1>11. Row(ts, shared, f) = StreamRow(ts, s)
  BY <1>10 DEF StreamRow
<1> QED
  BY <1>7, <1>8, <1>11 DEF SharedSoFar

\* Archetype::createEntityFromStream: a new entity with what the stream has.
LEMMA CreatedFromStream ==
  ASSUME NEW st, StoreOK(st), NEW id \in Nat \ {0}, id \notin DOMAIN st.map,
         NEW ts, NEW s, IsPrefabStream(s, ts), NEW r, r = CreateFromStream(st, id, s)
  PROVE  /\ StoreOK(r)
         /\ \A j : j \in DOMAIN r.map <=> j \in DOMAIN st.map \/ j = id
         /\ EntitiesOf(r) = Abstract!Put(EntitiesOf(st), id, StreamRow(ts, s))
<1>1. /\ ts \in SUBSET Types /\ s.names = Names /\ s.types = IndicesOf(ts)
      /\ DOMAIN s.comps \subseteq DOMAIN Names /\ Readable(s.comps)
  BY DEF IsPrefabStream
<1>2. Named(s.names, s.types) = ts
  BY <1>1, NamedIndices
<1>3. PICK a : a = ArchetypeSlot(st.archetypes, ts)
  OBVIOUS
<1>4. PICK with : with = WithArchetype(st.archetypes, ts)
  OBVIOUS
<1>5. PICK arch : arch = with[a]
  OBVIOUS
<1>6. PICK made : made = ArchCreateFromStream(arch, id, s)
  OBVIOUS
<1>7. PICK placed : placed = SetIndex(StoreOf(Stored(with, a, made.arch), st.map), id,
                                      LastPlace(a, made))
  OBVIOUS
<1>8. r = SharedLoaded(placed, id, InOrder(DOMAIN s.shared), s)
  BY <1>2, <1>3, <1>4, <1>5, <1>6, <1>7 DEF CreateFromStream, SharedLoaded
<1>9. ArchOK(arch) /\ arch.types = ts
  <2>1. PICK archs : archs = st.archetypes
    OBVIOUS
  <2>2. TableOK(archs)
    BY <2>1 DEF StoreOK
  <2> QED
    BY <1>1, <1>3, <1>4, <1>5, <2>1, <2>2, WithArchetypeType
<1>10. PICK f : f = LoadedElements(ts, s.comps)
  OBVIOUS
<1>11. /\ made.slot \in Nat
       /\ Added(arch, made.arch, made.slot, id)
       /\ HasAll(arch, made.arch)
       /\ \E shared \in [SharedTypes(ts) -> Value] : ArchHas(made.arch, id, Row(ts, shared, f))
  BY <1>1, <1>6, <1>9, <1>10, ArchLoadHas
<1>12. PICK found \in [SharedTypes(ts) -> Value] : ArchHas(made.arch, id, Row(ts, found, f))
  BY <1>11
<1>13. PICK row : row = Row(ts, found, f)
  OBVIOUS
<1>14. /\ StoreOK(placed)
       /\ \A j : j \in DOMAIN placed.map <=> j \in DOMAIN st.map \/ j = id
       /\ EntitiesOf(placed) = Abstract!Put(EntitiesOf(st), id, row)
  <2>1. /\ made.slot \in Nat /\ Added(with[a], made.arch, made.slot, id)
        /\ HasAll(with[a], made.arch) /\ ArchHas(made.arch, id, row)
    BY ONLY <1>5, <1>11, <1>12, <1>13
  <2>2. StoreOK(st) /\ id \in Nat \ {0} /\ id \notin DOMAIN st.map /\ ts \in SUBSET Types
    BY <1>1
  <2> QED
    BY ONLY <1>3, <1>4, <1>7, <2>1, <2>2, CreatedEffect
<1>15. id \in DOMAIN placed.map /\ RowIn(placed, id) = row
  <2>1. EntitiesOf(placed)[id] = row
    BY <1>14 DEF Abstract!Put
  <2> QED
    BY <1>14, <2>1, EntitiesFields
<1>16. PICK list : list = InOrder(DOMAIN s.shared)
  OBVIOUS
<1>17. /\ StoreOK(r)
       /\ \A j : j \in DOMAIN r.map <=> j \in DOMAIN placed.map
       /\ EntitiesOf(r) = Replaced(EntitiesOf(placed), id, StreamRow(ts, s))
  BY <1>8, <1>10, <1>13, <1>14, <1>15, <1>16, SharedAll
<1>18. PICK es : es = EntitiesOf(st)
  OBVIOUS
<1>19. PICK last : last = StreamRow(ts, s)
  OBVIOUS
<1>20. Replaced(Abstract!Put(es, id, row), id, last) = Abstract!Put(es, id, last)
  BY DEF Replaced, Abstract!Put
<1> QED
  BY <1>14, <1>17, <1>18, <1>19, <1>20

-----------------------------------------------------------------------------
\* The streams of entities and prefabs.

\* Values that can be written for an entity with the types ts.
Writable(ts, comps, shared) ==
  /\ DOMAIN comps \subseteq Types
  /\ \A t \in DOMAIN comps : t \in Raw => comps[t] \in Element
  /\ DOMAIN shared \subseteq Types
  /\ \A t \in DOMAIN shared : Kind[t] = "Shared" /\ shared[t] \in ValuesOf(t)
  /\ SharedTypes(ts) \subseteq DOMAIN shared

\* Their stream, whatever reading it does to the reader.
StreamWith(ts, comps, shared, faults) ==
  [PrefabStream(ts, comps, shared) EXCEPT !.faults = faults]

\* It is the stream of one entity of these types.
LEMMA PrefabStreamIs ==
  ASSUME NEW ts \in SUBSET Types, NEW comps, NEW shared, NEW faults, Writable(ts, comps, shared),
         NEW s, s = StreamWith(ts, comps, shared, faults)
  PROVE  /\ IsPrefabStream(s, ts)
         /\ s.faults = faults
         /\ DOMAIN s.comps = IndicesOf(DOMAIN comps)
         /\ DOMAIN s.shared = IndicesOf(DOMAIN shared)
<1>1. PICK given, values : given = DOMAIN comps /\ values = DOMAIN shared
  OBVIOUS
<1>2. PICK readable : readable = [i \in IndicesOf(given) |-> comps[Names[i]]]
  OBVIOUS
<1>3. PICK takes : takes = [i \in IndicesOf(values) |-> shared[Names[i]]]
  OBVIOUS
<1>4. s = [kind |-> "prefab", names |-> Names, types |-> IndicesOf(ts),
           comps |-> readable, shared |-> takes, faults |-> faults]
  BY <1>1, <1>2, <1>3 DEF PrefabStream, StreamWith
<1>5. /\ s.kind = "prefab" /\ s.names = Names /\ s.types = IndicesOf(ts)
      /\ s.comps = readable /\ s.shared = takes /\ s.faults = faults
  BY <1>4
<1>6. given \in SUBSET Types /\ values \in SUBSET Types
  BY <1>1 DEF Writable
<1>7. DOMAIN readable = IndicesOf(given) /\ DOMAIN readable \subseteq DOMAIN Names /\ Readable(readable)
  <2>1. \A t \in Types : TypeIndex[t] \in IndicesOf(given) => t \in given /\ Names[TypeIndex[t]] = t
    BY <1>6, NamesAre, NamedIndices
  <2>2. \A t \in given : t \in Raw => comps[t] \in Element
    BY <1>1 DEF Writable
  <2>3. Raw \subseteq Types
    BY SaveLoadAssumption
  <2> QED
    BY <1>2, <1>6, <2>1, <2>2, <2>3, NamedIndices DEF Readable
<1>8. DOMAIN takes = IndicesOf(values) /\ DOMAIN takes \subseteq DOMAIN Names
  BY <1>3, <1>6, NamedIndices
<1>9. \A i \in DOMAIN takes : Kind[Names[i]] = "Shared" /\ takes[i] \in ValuesOf(Names[i])
  <2>1. \A i \in IndicesOf(values) : Names[i] \in values
    BY <1>6, NamedIndices
  <2> QED
    BY <1>1, <1>3, <2>1 DEF Writable
<1>10. \A t \in SharedTypes(ts) : TypeIndex[t] \in DOMAIN takes
  <2>1. \A t \in SharedTypes(ts) : t \in Types /\ t \in values
    BY <1>1 DEF SharedTypes, Writable
  <2> QED
    BY <1>6, <1>8, <2>1, NamedIndices
<1> QED
  BY <1>1, <1>5, <1>7, <1>8, <1>9, <1>10 DEF IsPrefabStream

\* savePrefab of an entity.
LEMMA ElementStreamIs ==
  ASSUME NEW st, StoreOK(st), NEW id \in DOMAIN st.map, NEW us, us = TypesOf(st, id),
         NEW shared \in SharedWritten(st, id), NEW s, s = ElementStream(st, id, shared)
  PROVE  IsPrefabStream(s, SavedTypes(us))
<1>1. PICK ix, archs : ix = st.map[id] /\ archs = st.archetypes
  OBVIOUS
<1>2. PICK chunk : chunk = PlacedChunk(archs, ix)
  OBVIOUS
<1>3. us \in SUBSET Types /\ IsChunk(chunk, us) /\ ix.elem \in DOMAIN chunk.ids
  BY <1>1, <1>2, PlaceOf
<1>4. chunk = ChunkOf(st, id)
  BY <1>1, <1>2 DEF ChunkOf, PlacedChunk
<1>5. /\ chunk.comps \in [ArrayTypes(us) -> Seq(Element)]
      /\ chunk.shared \in [SharedTypes(us) -> Value]
      /\ DOMAIN chunk.ids = 1 .. Len(chunk.ids)
      /\ \A t \in ArrayTypes(us) : Len(chunk.comps[t]) = Len(chunk.ids)
  BY <1>3, ChunkFields
<1>6. PICK ts : ts = SavedTypes(us)
  OBVIOUS
<1>7. ts \in SUBSET Types /\ SharedTypes(ts) = SharedTypes(us)
  BY <1>3, <1>6, SavedAre
<1>8. PICK comps : comps = SaveElement(chunk, ix.elem)
  OBVIOUS
<1>9. /\ DOMAIN comps = ArrayTypes(us)
      /\ \A t \in DOMAIN comps : t \in Raw => comps[t] \in Element
  <2>1. DOMAIN comps = ArrayTypes(us)
    BY <1>5, <1>8 DEF SaveElement
  <2>2. ASSUME NEW t \in ArrayTypes(us), t \in Raw PROVE comps[t] \in Element
    <3>1. PICK array : array = chunk.comps[t]
      OBVIOUS
    <3>2. array \in Seq(Element) /\ ix.elem \in 1 .. Len(array)
      BY <1>3, <1>5, <3>1
    <3>3. comps[t] = array[ix.elem]
      BY <1>5, <1>8, <2>2, <3>1 DEF SaveElement, WriteElement
    <3> QED
      BY <3>2, <3>3, ElementOfSeq
  <2> QED
    BY <2>1, <2>2
<1>10. shared \in [SharedTypes(us) -> Value]
  <2>1. shared \in [DOMAIN chunk.shared -> Value]
    BY <1>4 DEF SharedWritten
  <2> QED
    BY <1>5, <2>1
<1>11. \A t \in SharedTypes(us) : Kind[t] = "Shared" /\ ValuesOf(t) = Value /\ t \in Types
  BY <1>3 DEF SharedTypes, ValuesOf
<1>12. PICK faults : faults = ~ (DOMAIN shared \subseteq FourBytes)
  OBVIOUS
<1>13. s = StreamWith(ts, comps, shared, faults)
  BY <1>1, <1>4, <1>6, <1>8, <1>12 DEF ElementStream, StreamWith
<1>14. DOMAIN comps \subseteq Types
  BY <1>3, <1>9 DEF ArrayTypes
<1>15. Writable(ts, comps, shared)
  BY <1>7, <1>9, <1>10, <1>11, <1>14 DEF Writable
<1> QED
  BY <1>6, <1>7, <1>13, <1>15, PrefabStreamIs

\* The default values of a prefab, some of them given by a client.
LEMMA GivenDefaults ==
  ASSUME NEW ts \in SUBSET Types, NEW given \in Given(ts),
         NEW prefab \in Initials(ts)
  PROVE  SetDefaultValue(prefab, given) \in Initials(ts)
<1>1. PICK some \in SUBSET ts : given \in Initials(some)
  BY DEF Given
<1>2. /\ given \in [some -> Value] /\ \A t \in some : given[t] \in ValuesOf(t)
      /\ prefab \in [ts -> Value] /\ \A t \in ts : prefab[t] \in ValuesOf(t)
  BY <1>1 DEF Initials
<1>3. PICK r : r = SetDefaultValue(prefab, given)
  OBVIOUS
<1>4. r = [t \in ts |-> IF t \in some THEN given[t] ELSE prefab[t]]
  BY <1>2, <1>3 DEF SetDefaultValue
<1> QED
  BY <1>2, <1>3, <1>4 DEF Initials

\* A prefab has a value for each of its types.
LEMMA PrefabIs ==
  ASSUME NEW ts \in SUBSET Types, NEW given \in Given(ts)
  PROVE  Prefab(ts, given) \in Initials(ts)
<1>1. [t \in ts |-> Default] \in Initials(ts)
  BY TypesAssumption DEF Initials, ValuesOf
<1> QED
  BY <1>1, GivenDefaults DEF Prefab

\* Nothing is given.
LEMMA NothingGiven ==
  ASSUME NEW ts
  PROVE  << >> \in Given(ts)
<1>1. << >> \in Initials({})
  BY DEF Initials
<1> QED
  BY <1>1 DEF Given

\* savePrefab of a prefab.
LEMMA StreamOfIs ==
  ASSUME NEW ts \in SUBSET Types, NEW prefab \in Initials(ts), NEW s, s = StreamOf(prefab)
  PROVE  IsPrefabStream(s, ts)
<1>1. /\ DOMAIN prefab = ts
      /\ \A t \in ts : prefab[t] \in Value /\ prefab[t] \in ValuesOf(t)
  BY DEF Initials
<1>2. PICK comps : comps = SaveComponents(prefab, "Regular")
  OBVIOUS
<1>3. PICK shared : shared = SaveComponents(prefab, "Shared")
  OBVIOUS
<1>4. /\ DOMAIN comps \subseteq ts
      /\ \A t \in DOMAIN comps : comps[t] = prefab[t]
      /\ DOMAIN shared = {t \in ts : Kind[t] = "Shared"}
      /\ \A t \in DOMAIN shared : shared[t] = prefab[t]
  BY <1>1, <1>2, <1>3 DEF SaveComponents
<1>5. PICK faults : faults = ( \/ ~ (SavedTypes(DOMAIN prefab) \subseteq Raw)
                              \/ \E t \in DOMAIN prefab \cap EmptyTypes : Kind[t] = "Shared")
  OBVIOUS
<1>6. s = StreamWith(ts, comps, shared, faults)
  BY <1>1, <1>2, <1>3, <1>5 DEF StreamOf, StreamWith
<1>7. /\ DOMAIN comps \subseteq Types
      /\ \A t \in DOMAIN comps : t \in Raw => comps[t] \in Element
  BY <1>1, <1>4 DEF Element
<1>8. /\ DOMAIN shared \subseteq Types
      /\ \A t \in DOMAIN shared : Kind[t] = "Shared" /\ shared[t] \in ValuesOf(t)
      /\ SharedTypes(ts) \subseteq DOMAIN shared
  BY <1>1, <1>4 DEF SharedTypes
<1>9. Writable(ts, comps, shared)
  BY <1>7, <1>8 DEF Writable
<1> QED
  BY <1>6, <1>9, PrefabStreamIs

-----------------------------------------------------------------------------
\* The inductive invariant.

\* A stream that is not read yet is what is written in the present state.
StreamOK ==
  \/ stream = None
  \/ stream = StoreStream(archetypes, nextEntityId)
  \/ \E ts : IsPrefabStream(stream, ts)

\* The inductive invariant of saving and loading.
SaveLoadInv == IInv /\ StreamOK

\* The kind of the stream tells them apart.
LEMMA StreamKinds ==
  ASSUME StreamOK
  PROVE  /\ stream.kind \in {"none", "store", "prefab"}
         /\ stream.kind = "store" => stream = StoreStream(archetypes, nextEntityId)
         /\ stream.kind = "prefab" => \E ts : IsPrefabStream(stream, ts)
<1>1. None.kind = "none"
  BY DEF None
<1>2. StoreStream(archetypes, nextEntityId).kind = "store"
  BY StoreStreamIs
<1>3. \A ts : IsPrefabStream(stream, ts) => stream.kind = "prefab"
  BY DEF IsPrefabStream
<1> QED
  BY <1>1, <1>2, <1>3 DEF StreamOK

\* Initially there is neither an entity nor a stream.
LEMMA SaveLoadInitOK ==
  ASSUME SaveLoadInit
  PROVE  SaveLoadInv
BY InitOK DEF SaveLoadInit, SaveLoadInv, StreamOK

\* Nothing happens.
LEMMA StoreSame ==
  ASSUME IInv, UNCHANGED vars
  PROVE  IInv'
BY DEF IInv, vars, Store

\* The operations of the store, as in EcsProofs.
LEMMA StoreOperationOK ==
  ASSUME IInv, StoreOperation
  PROVE  IInv'
<1>1. TypeLists \subseteq SUBSET ClientTypes \ {{}} /\ ClientTypes \subseteq Types
  BY SaveLoadAssumption, ClientAssumption
<1>2. ASSUME NEW ts \in TypeLists, CreateEntity(ts) PROVE IInv'
  BY <1>1, <1>2, CreateEntityOK
<1>3. ASSUME NEW ts \in TypeLists, NEW given \in Given(ts),
             CreateEntityFromPrefab(Prefab(ts, << >>), given)
      PROVE  IInv'
  <2>1. ts \in SUBSET ClientTypes /\ ts \in SUBSET Types
    BY <1>1
  <2>2. Prefab(ts, << >>) \in Initials(ts)
    BY <2>1, NothingGiven, PrefabIs
  <2>3. PICK values : values = SetDefaultValue(Prefab(ts, << >>), given)
    OBVIOUS
  <2>4. values \in Initials(ts)
    BY <2>1, <2>2, <2>3, GivenDefaults
  <2>5. CreateEntityWithValues(values)
    BY <1>3, <2>3 DEF CreateEntityFromPrefab
  <2> QED
    BY <2>1, <2>4, <2>5, CreateEntityWithValuesOK
<1>4. ASSUME NEW id \in DOMAIN entityDataIndexMap, DeleteEntity(id) PROVE IInv'
  BY <1>4, DeleteEntityOK
<1>5. ASSUME NEW id \in DOMAIN entityDataIndexMap, NEW ts \in TypeLists, ChangeTypes(id, ts)
      PROVE  IInv'
  BY <1>1, <1>5, ChangeTypesOK
<1>6. ASSUME NEW id \in DOMAIN entityDataIndexMap, NEW t \in TypesOf(Store, id),
             NEW v \in ValuesOf(t), SetComponent(id, t, v)
      PROVE  IInv'
  <2>1. t \in Types
    BY EntityFields
  <2> QED
    BY <1>6, <2>1, SetComponentStepOK
<1> QED
  BY <1>2, <1>3, <1>4, <1>5, <1>6 DEF StoreOperation

\* Ecs::load, if it does not meet undefined behaviour.
LEMMA LoadMakes ==
  ASSUME SaveLoadInv, Load, ~ ub', NEW archs, archs = archetypes,
         NEW written, written = ArchetypesWritten(archs),
         NEW new, new = LoadedTable(archs),
         NEW loaded, loaded = LoadMap(new, PlacesWritten(archs, written))
  PROVE  archetypes' = new /\ entityDataIndexMap' = loaded /\ nextEntityId' = nextEntityId
<1>1. PICK map, next : map = entityDataIndexMap /\ next = nextEntityId
  OBVIOUS
<1>2. TableOK(archs) /\ ExactCells(Cells(archs), map)
  BY <1>1, InvariantFields DEF SaveLoadInv
<1>3. PICK s : s = StoreStream(archs, next)
  OBVIOUS
<1>4. s.places = PlacesWritten(archs, written) /\ s.nextEntityId = next
  BY <1>3, StoreStreamIs
<1>5. LoadArchetypes(s) = new
  BY <1>2, <1>3, LoadedIs
<1>6. s = stream
  BY <1>1, <1>3, StreamKinds DEF Load, SaveLoadInv
<1> QED
  BY <1>1, <1>4, <1>5, <1>6 DEF Load, LoadedNextId

\* Ecs::load: the tables that were written are those of a well-formed store.
LEMMA LoadOK ==
  ASSUME SaveLoadInv, Load
  PROVE  IInv'
<1>1. ub' \in BOOLEAN
  BY DEF Load, LoadFaults
<1>2. CASE ub'
  <2>1. UNCHANGED <<archetypes, entityDataIndexMap, nextEntityId>>
    BY <1>2 DEF Load
  <2> QED
    BY <1>1, <2>1 DEF SaveLoadInv, IInv, Store
<1>3. CASE ~ ub'
  <2>1. PICK archs, map : archs = archetypes /\ map = entityDataIndexMap
    OBVIOUS
  <2>2. TableOK(archs) /\ ExactCells(Cells(archs), map)
    BY <2>1, InvariantFields DEF SaveLoadInv
  <2>3. PICK written : written = ArchetypesWritten(archs)
    OBVIOUS
  <2>4. PICK new : new = LoadedTable(archs)
    OBVIOUS
  <2>5. PICK loaded : loaded = LoadMap(new, PlacesWritten(archs, written))
    OBVIOUS
  <2>6. archetypes' = new /\ entityDataIndexMap' = loaded /\ nextEntityId' = nextEntityId
    BY <1>3, <2>1, <2>3, <2>4, <2>5, LoadMakes
  <2>7. TableOK(new) /\ ExactCells(Cells(new), loaded) /\ \A id \in DOMAIN loaded : id \in DOMAIN map
    BY <2>2, <2>3, <2>4, <2>5, LoadedTableOK, LoadedExact
  <2>8. StoreOK(Store)'
    <3>1. Store'.archetypes = new /\ Store'.map = loaded
      BY <2>6 DEF Store, StoreOf
    <3> QED
      BY <2>7, <3>1 DEF StoreOK
  <2> QED
    BY <1>1, <2>1, <2>6, <2>7, <2>8 DEF SaveLoadInv, IInv
<1> QED
  BY <1>1, <1>2, <1>3

\* Ecs::createEntityFromPrefabStream, which is one more entity.
LEMMA CreateFromStreamOK ==
  ASSUME SaveLoadInv, CreateEntityFromPrefabStream
  PROVE  IInv'
<1>1. PICK ts : IsPrefabStream(stream, ts)
  BY StreamKinds DEF CreateEntityFromPrefabStream, SaveLoadInv
<1>2. PICK st : st = Store
  OBVIOUS
<1>3. StoreOK(st) /\ st.archetypes = archetypes /\ st.map = entityDataIndexMap
  BY <1>2, StoreFields DEF SaveLoadInv, IInv
<1>4. PICK id : id = nextEntityId
  OBVIOUS
<1>5. id \in 1 .. MaxId /\ nextEntityId' = id + 1 /\ MaxId \in Nat
  BY <1>4, ClientAssumption DEF CreateEntityFromPrefabStream
<1>6. id \in Nat \ {0} /\ id \notin DOMAIN st.map
  BY <1>3, <1>4, <1>5 DEF SaveLoadInv, IInv
<1>7. PICK r : r = CreateFromStream(st, id, stream)
  OBVIOUS
<1>8. StoreOK(r) /\ \A j : j \in DOMAIN r.map <=> j \in DOMAIN st.map \/ j = id
  BY <1>1, <1>3, <1>6, <1>7, CreatedFromStream
<1>9. nextEntityId' \in 1 .. MaxId + 1
  BY <1>5
<1>10. CASE CreateFaults(stream)
  <2>1. ub' = TRUE /\ UNCHANGED <<archetypes, entityDataIndexMap>>
    BY <1>10 DEF CreateEntityFromPrefabStream
  <2>2. \A j \in DOMAIN entityDataIndexMap' : j \in 1 .. nextEntityId' - 1
    BY <1>4, <1>5, <2>1 DEF SaveLoadInv, IInv
  <2> QED
    BY <1>9, <2>1, <2>2 DEF SaveLoadInv, IInv, Store
<1>11. CASE ~ CreateFaults(stream)
  <2>1. ub' = FALSE /\ archetypes' = r.archetypes /\ entityDataIndexMap' = r.map
    BY <1>2, <1>4, <1>7, <1>11 DEF CreateEntityFromPrefabStream, Becomes
  <2>2. StoreOK(Store)'
    <3>1. Store'.archetypes = r.archetypes /\ Store'.map = r.map
      BY <2>1 DEF Store, StoreOf
    <3> QED
      BY <1>8, <3>1 DEF StoreOK
  <2>3. \A j \in DOMAIN entityDataIndexMap' : j \in 1 .. nextEntityId' - 1
    BY <1>3, <1>4, <1>5, <1>8, <2>1 DEF SaveLoadInv, IInv
  <2> QED
    BY <1>9, <2>1, <2>2, <2>3 DEF IInv
<1> QED
  BY <1>10, <1>11

\* Every step keeps the inductive invariant.
LEMMA SaveLoadStepOK ==
  ASSUME SaveLoadInv, [SaveLoadNext]_allVars
  PROVE  SaveLoadInv'
<1>1. CASE StoreOperation
  BY <1>1, StoreOperationOK DEF SaveLoadInv, StreamOK, StoreOperation
<1>2. CASE Save
  BY <1>2, StoreSame DEF SaveLoadInv, StreamOK, Save, vars
<1>3. CASE Load
  BY <1>3, LoadOK DEF SaveLoadInv, StreamOK, Load
<1>4. ASSUME NEW id \in DOMAIN entityDataIndexMap, SavePrefab(id)
      PROVE  SaveLoadInv'
  <2>1. PICK st : st = Store
    OBVIOUS
  <2>2. StoreOK(st) /\ id \in DOMAIN st.map
    BY <2>1, StoreFields DEF SaveLoadInv, IInv
  <2>3. PICK shared \in SharedWritten(st, id) : stream' = ElementStream(st, id, shared)
    BY <1>4, <2>1 DEF SavePrefab
  <2>4. PICK us : us = TypesOf(st, id)
    OBVIOUS
  <2>5. PICK s : s = ElementStream(st, id, shared)
    OBVIOUS
  <2>6. IsPrefabStream(s, SavedTypes(us))
    BY <2>2, <2>3, <2>4, <2>5, ElementStreamIs
  <2>7. StreamOK'
    BY <2>3, <2>5, <2>6 DEF StreamOK, IsPrefabStream
  <2> QED
    BY <1>4, <2>7, StoreSame DEF SaveLoadInv, SavePrefab
<1>5. ASSUME NEW ts \in TypeLists, NEW given \in Given(ts), SavePrefabOf(Prefab(ts, given))
      PROVE  SaveLoadInv'
  <2>1. ts \in SUBSET Types
    BY SaveLoadAssumption, ClientAssumption
  <2>2. PICK prefab : prefab = Prefab(ts, given)
    OBVIOUS
  <2>3. prefab \in Initials(ts)
    BY <2>1, <2>2, PrefabIs
  <2>4. PICK s : s = StreamOf(prefab)
    OBVIOUS
  <2>5. IsPrefabStream(s, ts)
    BY <2>1, <2>3, <2>4, StreamOfIs
  <2>6. stream' = s
    BY <1>5, <2>2, <2>4 DEF SavePrefabOf
  <2>7. StreamOK'
    BY <2>5, <2>6 DEF StreamOK, IsPrefabStream
  <2> QED
    BY <1>5, <2>7, StoreSame DEF SaveLoadInv, SavePrefabOf
<1>6. CASE CreateEntityFromPrefabStream
  BY <1>6, CreateFromStreamOK DEF SaveLoadInv, StreamOK, CreateEntityFromPrefabStream
<1>7. CASE UNCHANGED allVars
  BY <1>7, StoreSame DEF SaveLoadInv, StreamOK, allVars, vars
<1> QED
  BY <1>1, <1>2, <1>3, <1>4, <1>5, <1>6, <1>7 DEF SaveLoadNext

\* The inductive invariant holds in every state: a store that was loaded is as
\* well formed as one that was built, and what is in a stream was written in
\* the present state.
THEOREM SaveLoadInvariant == SaveLoadSpec => []SaveLoadInv
BY SaveLoadInitOK, SaveLoadStepOK, PTL DEF SaveLoadSpec

\* The type invariant, and no id at or above the one to be given out next, in
\* the store that is saved as well as in the one that is loaded.
THEOREM SaveLoadTypeCorrectness == SaveLoadSpec => []SaveLoadTypeOK
<1>1. SaveLoadInv => SaveLoadTypeOK
  <2> SUFFICES ASSUME SaveLoadInv PROVE SaveLoadTypeOK
    OBVIOUS
  <2>1. TypeOK
    BY TypeOKHolds DEF SaveLoadInv
  <2>2. \A id \in DOMAIN entityDataIndexMap : id < nextEntityId
    BY ClientAssumption DEF SaveLoadInv, IInv
  <2>3. stream.kind \in {"none", "store", "prefab"}
    BY StreamKinds DEF SaveLoadInv
  <2> QED
    BY <2>1, <2>2, <2>3 DEF SaveLoadTypeOK
<1> QED
  BY <1>1, SaveLoadInvariant, PTL

\* What the operations of a store rely on holds after a load as well: the index
\* agrees with the chunks, no chunk holds more entities than it has room for
\* (although the loaded archetype has fewer types), no two archetypes have the
\* same types, and no slot at the end of a table is empty.
THEOREM LoadedStoreWellFormed ==
  SaveLoadSpec => [](IndexMapExact /\ ChunksFit /\ ArchetypesDistinct /\ SlotsReclaimed)
<1>1. SaveLoadInv => IndexMapExact /\ ChunksFit /\ ArchetypesDistinct /\ SlotsReclaimed
  BY IndexMapExactHolds, ChunksFitHolds, ArchetypesDistinctHolds, SlotsReclaimedHolds DEF SaveLoadInv
<1> QED
  BY <1>1, SaveLoadInvariant, PTL

-----------------------------------------------------------------------------
\* What is read.

\* A stream is read by the operation that its kind asks for.
LEMMA ReadBy ==
  ASSUME [SaveLoadNext]_allVars, stream.kind # "none", stream' = None
  PROVE  /\ stream.kind = "store" => Load
         /\ stream.kind = "prefab" => CreateEntityFromPrefabStream
<1>1. None.kind = "none" /\ stream # None
  BY DEF None
<1>2. ~ StoreOperation /\ ~ Save /\ (\A id : ~ SavePrefab(id)) /\ (\A p : ~ SavePrefabOf(p))
  BY <1>1 DEF StoreOperation, Save, SavePrefab, SavePrefabOf
<1>3. ~ UNCHANGED allVars
  BY <1>1 DEF allVars
<1>4. Load \/ CreateEntityFromPrefabStream
  BY <1>2, <1>3 DEF SaveLoadNext
<1> QED
  BY <1>4 DEF Load, CreateEntityFromPrefabStream

\* What clients see is what the tables hold, before and after a step.
LEMMA EntitiesNow == Entities = EntitiesOf(Store)
BY SeenAreEntities DEF Entities, Seen

LEMMA EntitiesAfter == Entities' = EntitiesOf(Store)'
BY SeenAfter DEF Entities, Seen

\* What the entity has that was made from a stream which could be read.
LEMMA StreamRowIs ==
  ASSUME NEW s, NEW ts, IsPrefabStream(s, ts), ~ CreateFaults(s),
         NEW row, row = StreamRow(ts, s), NEW i \in s.types, NEW t, t = s.names[i]
  PROVE  row[t] = IF i \in DOMAIN s.shared THEN s.shared[i]
                  ELSE IF i \in DOMAIN s.comps /\ t \in Raw THEN s.comps[i] ELSE Default
<1>1. /\ ts \in SUBSET Types /\ s.names = Names /\ i \in IndicesOf(ts)
      /\ DOMAIN s.comps \subseteq DOMAIN Names
  BY DEF IsPrefabStream
<1>2. t \in ts /\ TypeIndex[t] = i /\ t = Names[i]
  BY <1>1, NamedIndices
<1>3. PICK f : f = LoadedElements(ts, s.comps)
  OBVIOUS
<1>4. row[t] = IF t \in EmptyTypes THEN Default
               ELSE IF t \in SharedTypes(ts) THEN s.shared[i] ELSE f[t]
  BY <1>2, <1>3 DEF StreamRow, Row
<1>5. CASE i \in DOMAIN s.shared
  <2>1. Kind[t] = "Shared" /\ s.shared[i] \in ValuesOf(t)
    BY <1>2, <1>5 DEF IsPrefabStream
  <2> QED
    BY <1>2, <1>4, <1>5, <2>1 DEF SharedTypes, ValuesOf
<1>6. CASE i \notin DOMAIN s.shared
  <2>1. t \notin SharedTypes(ts)
    BY <1>2, <1>6 DEF IsPrefabStream
  <2>2. t \notin EmptyTypes => f[t] = IF i \in DOMAIN s.comps /\ t \in Raw THEN s.comps[i] ELSE Default
    BY <1>2, <1>3, <2>1, RowTypes DEF LoadedElements
  <2>3. i \in DOMAIN s.comps => t \notin EmptyTypes
    <3>1. Named(s.names, DOMAIN s.comps) \subseteq ArrayTypes(Named(s.names, s.types))
      BY DEF CreateFaults
    <3> QED
      BY <1>1, <1>2, <3>1 DEF Named, TypeNamed, ArrayTypes
  <2> QED
    BY <1>4, <1>6, <2>1, <2>2, <2>3
<1> QED
  BY <1>5, <1>6

\* createEntityFromPrefabStream, without undefined behaviour.
LEMMA CreatedAsWritten ==
  ASSUME SaveLoadInv, CreateEntityFromPrefabStream, ~ ub'
  PROVE  /\ DOMAIN Entities' = DOMAIN Entities \union {nextEntityId}
         /\ \A id \in DOMAIN Entities : Entities'[id] = Entities[id]
         /\ \A i \in stream.types :
              LET t == stream.names[i]
              IN  Entities'[nextEntityId][t] =
                    IF i \in DOMAIN stream.shared THEN stream.shared[i]
                    ELSE IF i \in DOMAIN stream.comps /\ t \in Raw THEN stream.comps[i]
                    ELSE Default
<1>1. PICK ts : IsPrefabStream(stream, ts)
  BY StreamKinds DEF CreateEntityFromPrefabStream, SaveLoadInv
<1>2. PICK st, id, s : st = Store /\ id = nextEntityId /\ s = stream
  OBVIOUS
<1>3. StoreOK(st) /\ st.map = entityDataIndexMap
  BY <1>2, StoreFields DEF SaveLoadInv, IInv
<1>4. id \in Nat \ {0} /\ id \notin DOMAIN st.map
  BY <1>2, <1>3, ClientAssumption DEF SaveLoadInv, IInv, CreateEntityFromPrefabStream
<1>5. PICK r : r = CreateFromStream(st, id, s)
  OBVIOUS
<1>6. PICK row : row = StreamRow(ts, s)
  OBVIOUS
<1>7. EntitiesOf(r) = Abstract!Put(EntitiesOf(st), id, row)
  BY <1>1, <1>2, <1>3, <1>4, <1>5, <1>6, CreatedFromStream
<1>8. ~ CreateFaults(s) /\ archetypes' = r.archetypes /\ entityDataIndexMap' = r.map
  BY <1>2, <1>5 DEF CreateEntityFromPrefabStream, Becomes
<1>9. EntitiesOf(Store)' = EntitiesOf(r)
  <2>1. Store'.archetypes = r.archetypes /\ Store'.map = r.map
    BY <1>8 DEF Store, StoreOf
  <2> QED
    BY <2>1 DEF EntitiesOf, RowIn, TypesOf
<1>10. PICK es, new : es = Entities /\ new = Entities'
  OBVIOUS
<1>11. new = Abstract!Put(es, id, row) /\ DOMAIN es = DOMAIN st.map
  BY <1>2, <1>7, <1>9, <1>10, EntitiesNow, EntitiesAfter DEF EntitiesOf
<1>12. /\ DOMAIN new = DOMAIN es \union {id}
       /\ \A j \in DOMAIN es : new[j] = es[j]
       /\ new[id] = row
  BY <1>4, <1>11 DEF Abstract!Put
<1>13. ASSUME NEW i \in s.types
       PROVE  LET t == s.names[i]
              IN  row[t] = IF i \in DOMAIN s.shared THEN s.shared[i]
                           ELSE IF i \in DOMAIN s.comps /\ t \in Raw THEN s.comps[i] ELSE Default
  <2>1. PICK t : t = s.names[i]
    OBVIOUS
  <2> QED
    BY <1>1, <1>2, <1>6, <1>8, <2>1, StreamRowIs
<1> QED
  BY <1>2, <1>10, <1>12, <1>13

\* Creating an entity from the stream of a prefab or of another entity gives
\* it what the stream has, and changes no other entity.
THEOREM PrefabCopied == SaveLoadSpec => PrefabCopy
<1>1. SaveLoadInv /\ [SaveLoadNext]_allVars =>
        [stream.kind = "prefab" /\ stream' = None /\ ~ub' =>
           /\ DOMAIN Entities' = DOMAIN Entities \union {nextEntityId}
           /\ \A id \in DOMAIN Entities : Entities'[id] = Entities[id]
           /\ \A i \in stream.types :
                LET t == stream.names[i]
                IN  Entities'[nextEntityId][t] =
                      IF i \in DOMAIN stream.shared THEN stream.shared[i]
                      ELSE IF i \in DOMAIN stream.comps /\ t \in Raw THEN stream.comps[i]
                      ELSE Default]_allVars
  <2> SUFFICES ASSUME SaveLoadInv, [SaveLoadNext]_allVars, stream.kind = "prefab",
                      stream' = None, ~ub'
               PROVE  /\ DOMAIN Entities' = DOMAIN Entities \union {nextEntityId}
                      /\ \A id \in DOMAIN Entities : Entities'[id] = Entities[id]
                      /\ \A i \in stream.types :
                           LET t == stream.names[i]
                           IN  Entities'[nextEntityId][t] =
                                 IF i \in DOMAIN stream.shared THEN stream.shared[i]
                                 ELSE IF i \in DOMAIN stream.comps /\ t \in Raw THEN stream.comps[i]
                                 ELSE Default
    OBVIOUS
  <2>1. CreateEntityFromPrefabStream
    BY ReadBy
  <2> QED
    BY <2>1, CreatedAsWritten
<1> QED
  BY <1>1, SaveLoadInvariant, PTL DEF SaveLoadSpec, PrefabCopy

-----------------------------------------------------------------------------
\* The round trip.

\* The entities that are saved.
SavedEntity(e) == DontSaveEntity \notin DOMAIN e /\ SavedTypes(DOMAIN e) # {}

\* They are those in the archetypes that are kept.
LEMMA SavedIsKept ==
  ASSUME NEW st, StoreOK(st), NEW id \in DOMAIN st.map
  PROVE  SavedEntity(EntitiesOf(st)[id]) <=> KeepsArchetype(st.archetypes[st.map[id].arch])
<1>1. PICK archs, ix : archs = st.archetypes /\ ix = st.map[id]
  OBVIOUS
<1>2. PICK us, chunk : us = TypesOf(st, id) /\ chunk = PlacedChunk(archs, ix)
  OBVIOUS
<1>3. us = archs[ix.arch].types /\ archs[ix.arch] # Null
  BY <1>1, <1>2, PlaceOf DEF Occupied
<1>4. DOMAIN EntitiesOf(st)[id] = us
  BY <1>2, EntitiesFields
<1> QED
  BY <1>1, <1>3, <1>4 DEF SavedEntity, KeepsArchetype

\* Every entity in one of them is written at some place.
LEMMA KeptIsWritten ==
  ASSUME NEW st, StoreOK(st), NEW id \in DOMAIN st.map,
         NEW archs, archs = st.archetypes, NEW ix, ix = st.map[id], KeepsArchetype(archs[ix.arch]),
         NEW written, written = ArchetypesWritten(archs)
  PROVE  \E iy : WrittenAt(archs, written, id, iy)
<1>1. PICK us, chunk : us = TypesOf(st, id) /\ chunk = PlacedChunk(archs, ix)
  OBVIOUS
<1>2. /\ TableOK(archs)
      /\ Occupied(archs, ix.arch) /\ Occupied(archs[ix.arch].chunks, ix.chunk)
      /\ ix.elem \in DOMAIN chunk.ids /\ chunk.ids[ix.elem] = id
  BY <1>1, PlaceOf
<1>3. chunk = archs[ix.arch].chunks[ix.chunk]
  BY <1>1 DEF PlacedChunk
<1>4. PICK map : map = st.map
  OBVIOUS
<1>5. ExactCells(Cells(archs), map) /\ chunk.ids # << >>
  BY <1>2, <1>4, EmptySeq DEF StoreOK
<1>6. PICK b, c : b = ix.arch /\ c = ix.chunk /\ archs[b].chunks[c] = chunk
  BY <1>3
<1>7. Inhabits(archs, b, c) /\ KeepsArchetype(archs[b])
  BY <1>2, <1>3, <1>5, <1>6 DEF Inhabits
<1>8. \E k \in DOMAIN written :
        \E n \in DOMAIN ChunksWritten(archs, written[k]) :
          ChunksWritten(archs, written[k])[n] = archs[b].chunks[c]
  BY ONLY written = ArchetypesWritten(archs), <1>2, <1>5, <1>7, ChunkIsWritten
<1>9. PICK k, n : /\ k \in DOMAIN written
                  /\ n \in DOMAIN ChunksWritten(archs, written[k])
                  /\ ChunksWritten(archs, written[k])[n] = chunk
  BY ONLY <1>6, <1>8
<1>10. PICK iy : iy = [arch |-> k, chunk |-> n, elem |-> ix.elem]
  OBVIOUS
<1>11. iy.arch = k /\ iy.chunk = n /\ iy.elem = ix.elem
  BY <1>10
<1>12. WrittenAt(archs, written, id, iy)
  BY <1>2, <1>9, <1>10, <1>11 DEF WrittenAt
<1> QED
  BY <1>12

\* A row of a chunk that was saved and loaded is the row without the types
\* that are not saved.
LEMMA RowLoaded ==
  ASSUME NEW us \in SUBSET Types, NEW ts, ts = SavedTypes(us), NEW chunk, IsChunk(chunk, us),
         NEW new, LoadedAs(new, chunk, ts), NEW e \in DOMAIN chunk.ids
  PROVE  RowAt(new, ts, e) = AsLoaded(RowAt(chunk, us, e))
<1>1. /\ ts \in SUBSET us /\ ts \in SUBSET Types
      /\ ArrayTypes(ts) = {t \in ArrayTypes(us) : Kind[t] = "Regular"}
      /\ SharedTypes(ts) = SharedTypes(us)
  BY SavedAre
<1>2. PICK old, row : old = RowAt(chunk, us, e) /\ row = RowAt(new, ts, e)
  OBVIOUS
<1>3. DOMAIN old = us /\ DOMAIN row = ts
  BY <1>2 DEF RowAt, Row
<1>4. AsLoaded(old) = [t \in ts |-> IF t \in Raw THEN old[t]
                                    ELSE IF Kind[t] = "Shared" THEN Default ELSE Uninit]
  BY <1>3 DEF AsLoaded
<1>5. row = [t \in ts |-> row[t]]
  BY <1>2 DEF RowAt, Row
<1>6. ASSUME NEW t \in ts
      PROVE  row[t] = IF t \in Raw THEN old[t] ELSE IF Kind[t] = "Shared" THEN Default ELSE Uninit
  <2>1. t \in us
    BY <1>1
  <2>2. CASE t \in EmptyTypes
    <3>1. row[t] = Default /\ old[t] = Default /\ t \in Raw
      BY <1>2, <2>1, <2>2, SaveLoadAssumption DEF RowAt, Row
    <3> QED
      BY <3>1
  <2>3. CASE t \in SharedTypes(ts)
    <3>1. row[t] = new.shared[t] /\ old[t] = chunk.shared[t] /\ Kind[t] = "Shared"
      BY <1>1, <1>2, <2>1, <2>3 DEF RowAt, Row, SharedTypes
    <3> QED
      BY <2>3, <3>1 DEF LoadedAs
  <2>4. CASE t \notin EmptyTypes /\ t \notin SharedTypes(ts)
    <3>1. t \in ArrayTypes(ts) /\ t \in ArrayTypes(us) /\ t \notin SharedTypes(us)
      BY <1>1, <2>4, RowTypes
    <3>2. row[t] = new.comps[t][e] /\ old[t] = chunk.comps[t][e]
      BY <1>2, <2>1, <2>4, <3>1 DEF RowAt, Row
    <3>3. Kind[t] # "Shared"
      BY <3>1 DEF ArrayTypes
    <3> QED
      BY <3>1, <3>2, <3>3 DEF LoadedAs
  <2> QED
    BY <2>2, <2>3, <2>4
<1> QED
  BY <1>2, <1>4, <1>5, <1>6

\* An entity that was loaded.
LEMMA EntityLoaded ==
  ASSUME NEW st, StoreOK(st), NEW archs, archs = st.archetypes, NEW map, map = st.map,
         NEW written, written = ArchetypesWritten(archs),
         NEW new, new = LoadedTable(archs),
         NEW loaded, loaded = LoadMap(new, PlacesWritten(archs, written)),
         NEW r, r = StoreOf(new, loaded), NEW id \in DOMAIN loaded
  PROVE  /\ id \in DOMAIN map
         /\ KeepsArchetype(archs[map[id].arch])
         /\ RowIn(r, id) = AsLoaded(RowIn(st, id))
<1>1. TableOK(archs) /\ ExactCells(Cells(archs), map)
  BY DEF StoreOK
<1>2. PICK iy : iy = loaded[id]
  OBVIOUS
<1>3. WrittenAt(archs, written, id, iy)
  BY <1>1, <1>2, LoadMapIs
<1>4. PICK k, n : k = iy.arch /\ n = iy.chunk
  OBVIOUS
<1>5. k \in DOMAIN written /\ n \in DOMAIN ChunksWritten(archs, written[k])
  BY <1>3, <1>4 DEF WrittenAt
<1>6. PICK ix : ix = map[id]
  OBVIOUS
<1>7. /\ id \in DOMAIN map
      /\ ix.elem = iy.elem
      /\ KeepsArchetype(archs[ix.arch])
      /\ SameWhenSaved(archs[written[k]], archs[ix.arch])
      /\ ChunksWritten(archs, written[k])[n] = archs[ix.arch].chunks[ix.chunk]
  BY <1>1, <1>3, <1>4, <1>6, WrittenAtIs
<1>8. PICK us, chunk : us = TypesOf(st, id) /\ chunk = PlacedChunk(archs, ix)
  OBVIOUS
<1>9. /\ us = archs[ix.arch].types /\ us \in SUBSET Types
      /\ IsChunk(chunk, us) /\ ix.elem \in DOMAIN chunk.ids
  <2>1. id \in DOMAIN st.map /\ ix = st.map[id]
    BY <1>6, <1>7
  <2> QED
    BY ONLY StoreOK(st), archs = st.archetypes, <1>8, <2>1, PlaceOf
<1>10. PICK ts : ts = SavedTypes(us)
  OBVIOUS
<1>11. ts = SavedTypes(archs[written[k]].types)
  BY <1>7, <1>9, <1>10 DEF SameWhenSaved
<1>12. PICK arch : arch = LoadedArch(archs, written[k])
  OBVIOUS
<1>13. new[k] = arch
  BY <1>1, <1>5, <1>12, LoadedTableOK
<1>14. PICK chunks : chunks = ChunksWritten(archs, written[k])
  OBVIOUS
<1>15. arch.types = ts /\ arch.chunks = LoadedChunks(archs, written[k])
  BY <1>1, <1>5, <1>11, <1>12, <1>14, LoadedArchOK
<1>16. PICK born : born = arch.chunks[n]
  OBVIOUS
<1>17. born = LoadChunk(ts, SaveChunk(chunk), Names)
  <2>1. PICK a : a = written[k]
    OBVIOUS
  <2>2. LoadedChunks(archs, a)[n] = LoadChunk(SavedTypes(archs[a].types), SaveChunk(ChunksWritten(archs, a)[n]), Names)
    BY <1>5, <2>1 DEF LoadedChunks
  <2> QED
    BY <1>7, <1>8, <1>11, <1>15, <1>16, <2>1, <2>2 DEF PlacedChunk
<1>18. LoadedAs(born, chunk, ts)
  BY <1>9, <1>10, <1>17, LoadedChunkIs
<1>19. RowAt(born, ts, ix.elem) = AsLoaded(RowAt(chunk, us, ix.elem))
  <2>1. PICK e : e = ix.elem
    OBVIOUS
  <2> QED
    BY <1>9, <1>10, <1>18, <2>1, RowLoaded
<1>20. r.archetypes = new /\ r.map = loaded
  BY StoreParts
<1>21. RowIn(r, id) = RowAt(born, ts, ix.elem)
  BY <1>2, <1>4, <1>7, <1>13, <1>15, <1>16, <1>20 DEF RowIn, PlacedChunk, TypesOf
<1>22. RowIn(st, id) = RowAt(chunk, us, ix.elem)
  BY <1>6, <1>8 DEF RowIn
<1> QED
  BY <1>6, <1>7, <1>19, <1>21, <1>22

\* All entities that were loaded.
LEMMA EntitiesLoaded ==
  ASSUME NEW st, StoreOK(st), NEW archs, archs = st.archetypes,
         NEW written, written = ArchetypesWritten(archs),
         NEW new, new = LoadedTable(archs),
         NEW loaded, loaded = LoadMap(new, PlacesWritten(archs, written)),
         NEW r, r = StoreOf(new, loaded), NEW es, es = EntitiesOf(st)
  PROVE  EntitiesOf(r) = [id \in {i \in DOMAIN es : SavedEntity(es[i])} |-> AsLoaded(es[id])]
<1>1. PICK map : map = st.map
  OBVIOUS
<1>2. TableOK(archs) /\ ExactCells(Cells(archs), map)
  BY <1>1 DEF StoreOK
<1>3. r.archetypes = new /\ r.map = loaded
  BY StoreParts
<1>4. DOMAIN es = DOMAIN map /\ \A id \in DOMAIN map : es[id] = RowIn(st, id)
  BY <1>1 DEF EntitiesOf
<1>5. ASSUME NEW id \in DOMAIN loaded
      PROVE  /\ id \in DOMAIN es
             /\ SavedEntity(es[id])
             /\ RowIn(r, id) = AsLoaded(es[id])
  <2>1. /\ id \in DOMAIN map
        /\ KeepsArchetype(archs[map[id].arch])
        /\ RowIn(r, id) = AsLoaded(RowIn(st, id))
    BY <1>1, EntityLoaded
  <2>2. SavedEntity(EntitiesOf(st)[id])
    BY <1>1, <2>1, SavedIsKept
  <2> QED
    BY <1>4, <2>1, <2>2
<1>6. ASSUME NEW id \in DOMAIN es, SavedEntity(es[id]) PROVE id \in DOMAIN loaded
  <2>1. id \in DOMAIN st.map
    BY <1>1, <1>4
  <2>2. KeepsArchetype(archs[map[id].arch])
    BY <1>1, <1>6, <2>1, SavedIsKept
  <2>3. PICK ix : ix = map[id]
    OBVIOUS
  <2>4. PICK iy : WrittenAt(archs, written, id, iy)
    BY <1>1, <2>1, <2>2, <2>3, KeptIsWritten
  <2> QED
    BY <1>2, <2>4, LoadMapIs
<1>7. DOMAIN loaded = {i \in DOMAIN es : SavedEntity(es[i])}
  BY <1>5, <1>6
<1>8. EntitiesOf(r) = [id \in DOMAIN loaded |-> RowIn(r, id)]
  BY <1>3 DEF EntitiesOf
<1> QED
  BY <1>5, <1>7, <1>8

\* Ecs::load, without undefined behaviour.
LEMMA LoadedAsSaved ==
  ASSUME SaveLoadInv, Load, ~ ub', NEW es, es = Entities
  PROVE  Entities' = [id \in {i \in DOMAIN es : SavedEntity(es[i])} |-> AsLoaded(es[id])]
<1>1. PICK st : st = Store
  OBVIOUS
<1>2. StoreOK(st) /\ st.archetypes = archetypes
  BY <1>1, StoreFields DEF SaveLoadInv, IInv
<1>3. PICK archs, written, new, loaded, r :
        /\ archs = st.archetypes /\ written = ArchetypesWritten(archs)
        /\ new = LoadedTable(archs) /\ loaded = LoadMap(new, PlacesWritten(archs, written))
        /\ r = StoreOf(new, loaded)
  OBVIOUS
<1>4. archetypes' = new /\ entityDataIndexMap' = loaded
  BY <1>2, <1>3, LoadMakes
<1>5. EntitiesOf(Store)' = EntitiesOf(r)
  BY <1>3, <1>4 DEF Store
<1>6. es = EntitiesOf(st)
  BY <1>1, EntitiesNow
<1>7. EntitiesOf(r) = [id \in {i \in DOMAIN es : SavedEntity(es[i])} |-> AsLoaded(es[id])]
  BY <1>2, <1>3, <1>6, EntitiesLoaded
<1> QED
  BY <1>5, <1>7, EntitiesAfter

\* A store that was saved and loaded has the entities that are saved, under
\* their ids and with what is saved of their components, and its index agrees
\* with its chunks: none is lost, doubled or read at the place of another one
\* when archetypes are merged and chunks renumbered.
THEOREM RoundTripHolds == SaveLoadSpec => RoundTrip
<1>1. SaveLoadInv /\ IndexMapExact' /\ [SaveLoadNext]_allVars =>
        [stream.kind = "store" /\ stream' = None /\ ~ub' =>
           /\ Entities' = [id \in {i \in DOMAIN Entities :
                                     /\ DontSaveEntity \notin DOMAIN Entities[i]
                                     /\ SavedTypes(DOMAIN Entities[i]) # {}}
                             |-> AsLoaded(Entities[id])]
           /\ Exact(Store)']_allVars
  <2> SUFFICES ASSUME SaveLoadInv, IndexMapExact', [SaveLoadNext]_allVars, stream.kind = "store",
                      stream' = None, ~ub'
               PROVE  /\ Entities' = [id \in {i \in DOMAIN Entities :
                                                /\ DontSaveEntity \notin DOMAIN Entities[i]
                                                /\ SavedTypes(DOMAIN Entities[i]) # {}}
                                        |-> AsLoaded(Entities[id])]
                      /\ Exact(Store)'
    OBVIOUS
  <2>1. Load
    BY ReadBy
  <2>2. PICK es : es = Entities
    OBVIOUS
  <2>3. Entities' = [id \in {i \in DOMAIN es : SavedEntity(es[i])} |-> AsLoaded(es[id])]
    BY <2>1, <2>2, LoadedAsSaved
  <2>4. Exact(Store)'
    BY DEF IndexMapExact
  <2> QED
    BY <2>2, <2>3, <2>4 DEF SavedEntity
<1> QED
  BY <1>1, SaveLoadInvariant, LoadedStoreWellFormed, PTL DEF SaveLoadSpec, RoundTrip

-----------------------------------------------------------------------------
\* When a load meets undefined behaviour.

\* The arrays written of a chunk are not all in an archetype of types ts.
ReadFails(chunk, ts) == ~ (Named(Names, DOMAIN SaveChunk(chunk).comps) \subseteq ArrayTypes(ts))

\* It does so exactly for an array of DontSave components: State components are
\* not written, and Internal ones have no data.
LEMMA ReadFailsIs ==
  ASSUME NEW us \in SUBSET Types, NEW ts, ts = SavedTypes(us), NEW chunk, IsChunk(chunk, us)
  PROVE  ReadFails(chunk, ts) <=> \E t \in ArrayTypes(us) : Kind[t] = "DontSave"
<1>1. ArrayTypes(ts) = {t \in ArrayTypes(us) : Kind[t] = "Regular"}
  BY SavedAre
<1>2. PICK kept : kept = {t \in DOMAIN chunk.comps : Kind[t] # "State"}
  OBVIOUS
<1>3. DOMAIN chunk.comps = ArrayTypes(us) /\ ArrayTypes(us) \in SUBSET Types
  BY ChunkFields DEF ArrayTypes
<1>4. SaveChunk(chunk).comps = [i \in IndicesOf(kept) |-> SaveArray(Names[i], chunk.comps[Names[i]])]
  BY <1>2 DEF SaveChunk
<1>5. DOMAIN SaveChunk(chunk).comps = IndicesOf(kept)
  BY <1>4
<1>6. Named(Names, IndicesOf(kept)) = kept
  BY <1>2, <1>3, NamedIndices
<1>7. ReadFails(chunk, ts) <=> ~ (kept \subseteq ArrayTypes(ts))
  BY <1>5, <1>6 DEF ReadFails
<1>8. \A t \in ArrayTypes(us) : Kind[t] \in {"Regular", "DontSave", "State"}
  BY TypesAssumption, SaveLoadAssumption DEF ArrayTypes
<1> QED
  BY <1>1, <1>2, <1>3, <1>7, <1>8

\* The chunk at position n of the archetype at position k cannot be read.
ReadFailsAt(archs, written, k, n) ==
  /\ k \in DOMAIN written
  /\ n \in DOMAIN ChunksWritten(archs, written[k])
  /\ ReadFails(ChunksWritten(archs, written[k])[n], SavedTypes(archs[written[k]].types))

\* A store cannot be read if one of the chunks written cannot.
LEMMA LoadFaultsAre ==
  ASSUME NEW archs, TableOK(archs), NEW map, ExactCells(Cells(archs), map), NEW next,
         NEW s, s = StoreStream(archs, next), NEW written, written = ArchetypesWritten(archs)
  PROVE  LoadFaults(s) <=> \E k, n : ReadFailsAt(archs, written, k, n)
<1>1. s.names = Names /\ DOMAIN s.archetypes = DOMAIN written
  BY StoreStreamIs
<1>2. ASSUME NEW k \in DOMAIN written
      PROVE  /\ Named(s.names, s.archetypes[k].types) = SavedTypes(archs[written[k]].types)
             /\ DOMAIN s.archetypes[k].chunks = DOMAIN ChunksWritten(archs, written[k])
             /\ \A n \in DOMAIN ChunksWritten(archs, written[k]) :
                  s.archetypes[k].chunks[n] = SaveChunk(ChunksWritten(archs, written[k])[n])
  <2>1. PICK a : a = written[k]
    OBVIOUS
  <2>2. s.archetypes[k] = SaveArchetype(archs, a)
    BY <2>1, StoreStreamIs
  <2>3. PICK chunks : chunks = ChunksWritten(archs, a)
    OBVIOUS
  <2>4. PICK ts : ts = SavedTypes(archs[a].types)
    OBVIOUS
  <2>5. /\ s.archetypes[k].types = IndicesOf(ts)
        /\ s.archetypes[k].chunks = [n \in DOMAIN chunks |-> SaveChunk(chunks[n])]
    BY <2>2, <2>3, <2>4 DEF SaveArchetype
  <2>6. IsWritten(archs, a)
    BY <2>1, WrittenAre DEF TableOK
  <2>7. archs[a].types \in SUBSET Types
    BY <2>6, TableFields DEF IsWritten, KeepsArchetype, Occupied
  <2>8. ts \in SUBSET Types
    BY <2>4, <2>7, SavedAre
  <2>9. Named(Names, IndicesOf(ts)) = ts
    BY <2>8, NamedIndices
  <2> QED
    BY <1>1, <2>1, <2>3, <2>4, <2>5, <2>9
<1>3. ASSUME LoadFaults(s) PROVE \E k, n : ReadFailsAt(archs, written, k, n)
  <2>1. PICK k \in DOMAIN s.archetypes :
          \E n \in DOMAIN s.archetypes[k].chunks :
            ~ (Named(s.names, DOMAIN s.archetypes[k].chunks[n].comps)
                 \subseteq ArrayTypes(Named(s.names, s.archetypes[k].types)))
    BY <1>3 DEF LoadFaults
  <2>2. PICK n \in DOMAIN s.archetypes[k].chunks :
          ~ (Named(s.names, DOMAIN s.archetypes[k].chunks[n].comps)
               \subseteq ArrayTypes(Named(s.names, s.archetypes[k].types)))
    BY <2>1
  <2>3. k \in DOMAIN written
    BY <1>1
  <2>4. ReadFailsAt(archs, written, k, n)
    BY <1>1, <1>2, <2>2, <2>3 DEF ReadFailsAt, ReadFails
  <2> QED
    BY <2>4
<1>4. ASSUME NEW k, NEW n, ReadFailsAt(archs, written, k, n) PROVE LoadFaults(s)
  <2>1. k \in DOMAIN s.archetypes /\ n \in DOMAIN s.archetypes[k].chunks
    BY <1>1, <1>2, <1>4 DEF ReadFailsAt
  <2>2. ~ (Named(s.names, DOMAIN s.archetypes[k].chunks[n].comps)
             \subseteq ArrayTypes(Named(s.names, s.archetypes[k].types)))
    BY <1>1, <1>2, <1>4 DEF ReadFailsAt, ReadFails
  <2> QED
    BY <2>1, <2>2 DEF LoadFaults
<1> QED
  BY <1>3, <1>4

\* The entity has a component that makes its chunk unreadable.
Unreadable(e) == SavedEntity(e) /\ \E t \in ArrayTypes(DOMAIN e) : Kind[t] = "DontSave"

\* A chunk that cannot be read has an entity with a DontSave component.
LEMMA UnreadableEntity ==
  ASSUME NEW st, StoreOK(st), NEW archs, archs = st.archetypes,
         NEW written, written = ArchetypesWritten(archs),
         NEW k, NEW n, ReadFailsAt(archs, written, k, n), NEW es, es = EntitiesOf(st)
  PROVE  \E id \in DOMAIN es : Unreadable(es[id])
<1>1. PICK map : map = st.map
  OBVIOUS
<1>2. TableOK(archs) /\ ExactCells(Cells(archs), map)
  BY <1>1 DEF StoreOK
<1>3. PICK chunks : chunks = ChunksWritten(archs, written[k])
  OBVIOUS
<1>4. PICK b, c : /\ Inhabits(archs, b, c)
                  /\ KeepsArchetype(archs[b])
                  /\ SameWhenSaved(archs[written[k]], archs[b])
                  /\ chunks[n] = archs[b].chunks[c]
  BY <1>2, <1>3, WrittenChunkIs DEF ReadFailsAt
<1>5. PICK chunk, us, ids : /\ chunk = archs[b].chunks[c] /\ us = archs[b].types
                            /\ ids = archs[b].chunks[c].ids
  OBVIOUS
<1>6. PICK ts : ts = SavedTypes(us)
  OBVIOUS
<1>7. ReadFails(chunk, ts)
  BY <1>3, <1>4, <1>5, <1>6 DEF ReadFailsAt, SameWhenSaved
<1>8. us \in SUBSET Types /\ IsChunk(chunk, us) /\ chunk.ids # << >> /\ ids = chunk.ids
  BY <1>2, <1>4, <1>5, TableFields, ArchetypeFields DEF Inhabits
<1>9. \E t \in ArrayTypes(us) : Kind[t] = "DontSave"
  BY <1>6, <1>7, <1>8, ReadFailsIs
<1>10. 1 \in DOMAIN ids
  <2>1. chunk.ids \in Seq(Nat \ {0})
    BY <1>8, ChunkFields
  <2> QED
    BY <1>8, <2>1, EmptySeq, LenProperties
<1>11. PICK id : id = ids[1]
  OBVIOUS
<1>12. id \in DOMAIN map /\ map[id] = [arch |-> b, chunk |-> c, elem |-> 1]
  BY <1>2, <1>4, <1>5, <1>10, <1>11, IdAtPlace DEF Inhabits
<1>13. map[id].arch = b /\ id \in DOMAIN st.map
  BY <1>1, <1>12
<1>14. DOMAIN es[id] = us /\ id \in DOMAIN es
  BY <1>1, <1>5, <1>13, EntitiesFields DEF TypesOf
<1>15. SavedEntity(EntitiesOf(st)[id])
  BY <1>1, <1>4, <1>13, SavedIsKept
<1> QED
  BY <1>9, <1>14, <1>15 DEF Unreadable

\* The chunk of an entity with a DontSave component cannot be read.
LEMMA UnreadableChunk ==
  ASSUME NEW st, StoreOK(st), NEW archs, archs = st.archetypes,
         NEW written, written = ArchetypesWritten(archs),
         NEW es, es = EntitiesOf(st), NEW id \in DOMAIN es, Unreadable(es[id])
  PROVE  \E k, n : ReadFailsAt(archs, written, k, n)
<1>1. PICK map : map = st.map
  OBVIOUS
<1>2. TableOK(archs) /\ ExactCells(Cells(archs), map)
  BY <1>1 DEF StoreOK
<1>3. id \in DOMAIN map /\ id \in DOMAIN st.map
  <2>1. DOMAIN EntitiesOf(st) = DOMAIN st.map
    BY DEF EntitiesOf
  <2> QED
    BY <1>1, <2>1
<1>4. PICK ix : ix = map[id]
  OBVIOUS
<1>5. PICK us, chunk : us = TypesOf(st, id) /\ chunk = PlacedChunk(archs, ix)
  OBVIOUS
<1>6. /\ us = archs[ix.arch].types /\ us \in SUBSET Types
      /\ IsChunk(chunk, us)
  BY <1>1, <1>3, <1>4, <1>5, PlaceOf
<1>7. KeepsArchetype(archs[ix.arch])
  BY <1>1, <1>3, <1>4, SavedIsKept DEF Unreadable
<1>8. PICK iy : WrittenAt(archs, written, id, iy)
  BY <1>1, <1>3, <1>4, <1>7, KeptIsWritten
<1>9. PICK k, n : k = iy.arch /\ n = iy.chunk
  OBVIOUS
<1>10. k \in DOMAIN written /\ n \in DOMAIN ChunksWritten(archs, written[k])
  BY <1>8, <1>9 DEF WrittenAt
<1>11. /\ SameWhenSaved(archs[written[k]], archs[ix.arch])
       /\ ChunksWritten(archs, written[k])[n] = archs[ix.arch].chunks[ix.chunk]
  BY <1>2, <1>4, <1>8, <1>9, WrittenAtIs
<1>12. PICK ts : ts = SavedTypes(us)
  OBVIOUS
<1>13. \E t \in ArrayTypes(us) : Kind[t] = "DontSave"
  <2>1. DOMAIN es[id] = us
    BY <1>3, <1>5, EntitiesFields
  <2> QED
    BY <2>1 DEF Unreadable
<1>14. ReadFails(chunk, ts)
  BY <1>6, <1>12, <1>13, ReadFailsIs
<1>15. SavedTypes(archs[written[k]].types) = ts
  BY <1>6, <1>11, <1>12 DEF SameWhenSaved
<1>16. ReadFailsAt(archs, written, k, n)
  BY <1>5, <1>10, <1>11, <1>14, <1>15 DEF ReadFailsAt, PlacedChunk
<1> QED
  BY <1>16

\* Ecs::load meets undefined behaviour if there is such an entity.
LEMMA LoadFaultsIf ==
  ASSUME SaveLoadInv, Load, NEW es, es = Entities
  PROVE  ub' <=> \E id \in DOMAIN es : Unreadable(es[id])
<1>1. PICK st : st = Store
  OBVIOUS
<1>2. PICK archs, map, next, written, s :
        /\ archs = archetypes /\ map = entityDataIndexMap /\ next = nextEntityId
        /\ written = ArchetypesWritten(archs) /\ s = StoreStream(archs, next)
  OBVIOUS
<1>3. StoreOK(st) /\ archs = st.archetypes
  BY <1>1, <1>2, StoreFields DEF SaveLoadInv, IInv
<1>4. TableOK(archs) /\ ExactCells(Cells(archs), map)
  BY <1>2, InvariantFields DEF SaveLoadInv
<1>5. ub' = LoadFaults(s)
  BY <1>2, StreamKinds DEF Load, SaveLoadInv
<1>6. LoadFaults(s) <=> \E k, n : ReadFailsAt(archs, written, k, n)
  BY <1>2, <1>4, LoadFaultsAre
<1>7. es = EntitiesOf(st)
  BY <1>1, EntitiesNow
<1>8. (\E k, n : ReadFailsAt(archs, written, k, n)) => \E id \in DOMAIN es : Unreadable(es[id])
  BY <1>2, <1>3, <1>7, UnreadableEntity
<1>9. (\E id \in DOMAIN es : Unreadable(es[id])) => \E k, n : ReadFailsAt(archs, written, k, n)
  BY <1>2, <1>3, <1>7, UnreadableChunk
<1>10. LoadFaults(s) \in BOOLEAN
  BY DEF LoadFaults
<1> QED
  BY <1>5, <1>6, <1>8, <1>9, <1>10

\* A load meets undefined behaviour exactly if an entity that was saved has a
\* DontSave component with data, in whatever chunk and archetype it is.
THEOREM LoadFaultsKnown == SaveLoadSpec => LoadFaultsByDontSaveOnly
<1>1. SaveLoadInv /\ [SaveLoadNext]_allVars =>
        [stream.kind = "store" /\ stream' = None =>
           (ub' <=> \E e \in Range(Entities) :
                      /\ DontSaveEntity \notin DOMAIN e /\ SavedTypes(DOMAIN e) # {}
                      /\ \E t \in ArrayTypes(DOMAIN e) : Kind[t] = "DontSave")]_allVars
  <2> SUFFICES ASSUME SaveLoadInv, [SaveLoadNext]_allVars, stream.kind = "store", stream' = None
               PROVE  ub' <=> \E e \in Range(Entities) :
                                /\ DontSaveEntity \notin DOMAIN e /\ SavedTypes(DOMAIN e) # {}
                                /\ \E t \in ArrayTypes(DOMAIN e) : Kind[t] = "DontSave"
    OBVIOUS
  <2>1. Load
    BY ReadBy
  <2>2. PICK es : es = Entities
    OBVIOUS
  <2>3. ub' <=> \E id \in DOMAIN es : Unreadable(es[id])
    BY <2>1, <2>2, LoadFaultsIf
  <2>4. (\E id \in DOMAIN es : Unreadable(es[id])) <=> \E e \in Range(es) : Unreadable(e)
    BY DEF Range
  <2> QED
    BY <2>2, <2>3, <2>4 DEF Unreadable, SavedEntity
<1> QED
  BY <1>1, SaveLoadInvariant, PTL DEF SaveLoadSpec, LoadFaultsByDontSaveOnly
=============================================================================
