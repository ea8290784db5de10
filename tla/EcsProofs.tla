---------------------------- MODULE EcsProofs ----------------------------
(***************************************************************************)
(* Proofs about the entity store: for every set of types, capacity and     *)
(* bound, the map and the chunks agree after every operation, no chunk     *)
(* overflows, and slots are reclaimed.                                     *)
(*                                                                         *)
(* The first part is about one chunk, slots and one archetype: what the    *)
(* operations of Chunk do to the list of ids, which slot a search finds,   *)
(* what filling and freeing a slot leave, and that every operation of      *)
(* Archetype adds or removes one id at one place and nothing else.         *)
(*                                                                         *)
(* The second part is about the map from ids to places and the cells it    *)
(* points into.  A cell is the list of ids in one slot of one archetype;   *)
(* the lemmas of this part forget the rest of an archetype, so that an     *)
(* operation is only an id added to one cell, or removed from one.         *)
(*                                                                         *)
(* The third part proves that the store implements EntityStore: the        *)
(* components of an entity follow it through every move, swap and change   *)
(* of chunk, and an operation on one entity changes no other.  A chunk, an *)
(* archetype and a table are seen there as relations between ids and rows, *)
(* a row being what the components of one entity hold; each operation      *)
(* keeps the rows of all ids but its own.                                  *)
(***************************************************************************)
EXTENDS Ecs, SequenceTheorems, FiniteSetTheorems, WellFoundedInduction, TLAPS

\* A list of ids with one more at its end; an operator of its own, so that a
\* proof expands it only where the elements matter.
IdsWith(ids, id) == Append(ids, id)

\* The entities of new are those of chunk and, after them, id.
IdAdded(chunk, new, id) == new.ids = IdsWith(chunk.ids, id)

\* What an element of a component array can be.
Element == Value \cup {Uninit}

\* The parts of the assumptions that the chunks need.
LEMMA DefaultAndRoom ==
  /\ Default \in Value
  /\ \A ts \in SUBSET Types : Capacity[ts] \in Nat /\ Capacity[ts] > 0
BY TypesAssumption, CapacityAssumption

\* One more id makes a list one longer.
LEMMA IdsWithType ==
  ASSUME NEW ids \in Seq(Nat \ {0}), NEW id \in Nat \ {0}
  PROVE  /\ IdsWith(ids, id) \in Seq(Nat \ {0})
         /\ Len(IdsWith(ids, id)) = Len(ids) + 1
         /\ \A j \in 1 .. Len(ids) : IdsWith(ids, id)[j] = ids[j]
         /\ IdsWith(ids, id)[Len(ids) + 1] = id
BY AppendProperties DEF IdsWith

\* A removal from a sequence leaves a sequence one shorter.
LEMMA SwapDropType ==
  ASSUME NEW S, NEW s \in Seq(S), NEW i \in DOMAIN s
  PROVE  /\ SwapDrop(s, i) \in Seq(S)
         /\ Len(SwapDrop(s, i)) = Len(s) - 1
         /\ \A j \in 1 .. Len(s) - 1 :
              SwapDrop(s, i)[j] = IF j = i THEN s[Len(s)] ELSE s[j]
<1>1. Len(s) \in Nat /\ DOMAIN s = 1 .. Len(s)
  BY LenProperties
<1>2. Len(s) - 1 \in Nat
  BY <1>1
<1>3. \A j \in 1 .. Len(s) : s[j] \in S
  BY ElementOfSeq
<1>4. \A j \in 1 .. Len(s) - 1 : (IF j = i THEN s[Len(s)] ELSE s[j]) \in S
  BY <1>1, <1>2, <1>3
<1>5. SwapDrop(s, i) \in [1 .. Len(s) - 1 -> S]
  BY <1>4 DEF SwapDrop
<1>6. SwapDrop(s, i) \in Seq(S)
  BY <1>2, <1>5, SeqDef
<1>7. DOMAIN SwapDrop(s, i) = 1 .. Len(s) - 1
  BY DEF SwapDrop
<1>8. Len(SwapDrop(s, i)) = Len(s) - 1
  BY <1>2, <1>6, <1>7, LenProperties
<1>9. \A j \in 1 .. Len(s) - 1 :
        SwapDrop(s, i)[j] = IF j = i THEN s[Len(s)] ELSE s[j]
  BY DEF SwapDrop
<1> QED
  BY <1>6, <1>8, <1>9

\* The same, of a list of ids.
LEMMA IdsSwapDropType ==
  ASSUME NEW ids \in Seq(Nat \ {0}), NEW i \in DOMAIN ids
  PROVE  /\ SwapDrop(ids, i) \in Seq(Nat \ {0})
         /\ Len(SwapDrop(ids, i)) = Len(ids) - 1
         /\ \A j \in 1 .. Len(ids) - 1 :
              SwapDrop(ids, i)[j] = IF j = i THEN ids[Len(ids)] ELSE ids[j]
<1> DEFINE S == Nat \ {0}
<1>1. ids \in Seq(S)
  OBVIOUS
<1> HIDE DEF S
<1>2. i \in DOMAIN ids
  OBVIOUS
<1>3. /\ SwapDrop(ids, i) \in Seq(S)
      /\ Len(SwapDrop(ids, i)) = Len(ids) - 1
      /\ \A j \in 1 .. Len(ids) - 1 :
           SwapDrop(ids, i)[j] = IF j = i THEN ids[Len(ids)] ELSE ids[j]
  BY ONLY <1>1, <1>2, SwapDropType
<1> QED
  BY <1>3 DEF S

\* The fields of a chunk.
LEMMA ChunkFields ==
  ASSUME NEW ts \in SUBSET Types, NEW chunk, IsChunk(chunk, ts)
  PROVE  /\ chunk.ids \in Seq(Nat \ {0})
         /\ Len(chunk.ids) \in Nat
         /\ DOMAIN chunk.ids = 1 .. Len(chunk.ids)
         /\ chunk.comps \in [ArrayTypes(ts) -> Seq(Element)]
         /\ chunk.shared \in [SharedTypes(ts) -> Value]
         /\ \A t \in ArrayTypes(ts) : Len(chunk.comps[t]) = Len(chunk.ids)
BY LenProperties DEF IsChunk, Element

\* A chunk just built is well formed and empty.
LEMMA NewChunkType ==
  ASSUME NEW ts \in SUBSET Types
  PROVE  IsChunk(NewChunk(ts), ts) /\ NewChunk(ts).ids = << >>
BY DefaultAndRoom DEF NewChunk, IsChunk

\* An element is added to every array of a chunk.
LEMMA ChunkGrown ==
  ASSUME NEW ts \in SUBSET Types, NEW chunk, IsChunk(chunk, ts),
         NEW id \in Nat \ {0}, NEW f \in [ArrayTypes(ts) -> Element],
         NEW new, new = [ids    |-> Append(chunk.ids, id),
                         comps  |-> [t \in ArrayTypes(ts) |-> Append(chunk.comps[t], f[t])],
                         shared |-> chunk.shared]
  PROVE  IsChunk(new, ts) /\ IdAdded(chunk, new, id)
<1> DEFINE ids == Append(chunk.ids, id)
           comps == [t \in ArrayTypes(ts) |-> Append(chunk.comps[t], f[t])]
<1>1. /\ chunk.ids \in Seq(Nat \ {0})
      /\ chunk.comps \in [ArrayTypes(ts) -> Seq(Element)]
      /\ chunk.shared \in [SharedTypes(ts) -> Value]
      /\ \A t \in ArrayTypes(ts) : Len(chunk.comps[t]) = Len(chunk.ids)
  BY ChunkFields
<1>2. ids \in Seq(Nat \ {0}) /\ Len(ids) = Len(chunk.ids) + 1
  BY <1>1, AppendProperties
<1>3. \A t \in ArrayTypes(ts) : /\ Append(chunk.comps[t], f[t]) \in Seq(Element)
                                /\ Len(Append(chunk.comps[t], f[t])) = Len(chunk.ids) + 1
  BY <1>1, AppendProperties
<1>4. comps \in [ArrayTypes(ts) -> Seq(Element)]
  BY <1>3
<1>5. \A t \in ArrayTypes(ts) : Len(comps[t]) = Len(ids)
  BY <1>2, <1>3
<1>6. new = [ids |-> ids, comps |-> comps, shared |-> chunk.shared]
  OBVIOUS
<1> HIDE DEF ids, comps
<1>7. IsChunk(new, ts)
  BY <1>1, <1>2, <1>4, <1>5, <1>6 DEF IsChunk, Element
<1> QED
  BY <1>6, <1>7 DEF ids, IdAdded, IdsWith

\* Chunk::createEntity adds the id to a well-formed chunk.
LEMMA ChunkCreateType ==
  ASSUME NEW ts \in SUBSET Types, NEW chunk, IsChunk(chunk, ts), NEW id \in Nat \ {0}
  PROVE  /\ IsChunk(ChunkCreate(chunk, id), ts)
         /\ IdAdded(chunk, ChunkCreate(chunk, id), id)
<1> DEFINE f == [t \in ArrayTypes(ts) |-> Default]
           new == [ids    |-> Append(chunk.ids, id),
                   comps  |-> [t \in ArrayTypes(ts) |-> Append(chunk.comps[t], f[t])],
                   shared |-> chunk.shared]
<1>1. f \in [ArrayTypes(ts) -> Element]
  BY DefaultAndRoom DEF Element
<1>2. IsChunk(new, ts) /\ IdAdded(chunk, new, id)
  <2> HIDE DEF f
  <2> QED
    BY <1>1, ChunkGrown
<1>3. DOMAIN chunk.comps = ArrayTypes(ts)
  BY ChunkFields
<1>4. ChunkCreate(chunk, id) = new
  BY <1>3 DEF ChunkCreate
<1> QED
  BY <1>2, <1>4

\* Chunk::allocateEntity, likewise, whatever values the client gives.
LEMMA ChunkAllocateType ==
  ASSUME NEW ts \in SUBSET Types, NEW chunk, IsChunk(chunk, ts), NEW id \in Nat \ {0},
         NEW values \in [ts -> Value]
  PROVE  /\ IsChunk(ChunkAllocate(chunk, id, values), ts)
         /\ IdAdded(chunk, ChunkAllocate(chunk, id, values), id)
<1> DEFINE f == [t \in ArrayTypes(ts) |-> IF Kind[t] = "Regular" THEN values[t] ELSE Uninit]
           new == [ids    |-> Append(chunk.ids, id),
                   comps  |-> [t \in ArrayTypes(ts) |-> Append(chunk.comps[t], f[t])],
                   shared |-> chunk.shared]
<1>1. f \in [ArrayTypes(ts) -> Element]
  BY DEF Element, ArrayTypes
<1>2. IsChunk(new, ts) /\ IdAdded(chunk, new, id)
  <2> HIDE DEF f
  <2> QED
    BY <1>1, ChunkGrown
<1>3. DOMAIN chunk.comps = ArrayTypes(ts)
  BY ChunkFields
<1>4. ChunkAllocate(chunk, id, values) = new
  BY <1>3 DEF ChunkAllocate
<1> QED
  BY <1>2, <1>4

\* Chunk::moveEntityFromOtherChunk adds the id of the entity at position i
\* of the source, of whatever types that chunk is.
LEMMA ChunkMoveInType ==
  ASSUME NEW ts \in SUBSET Types, NEW chunk, IsChunk(chunk, ts),
         NEW us \in SUBSET Types, NEW source, IsChunk(source, us),
         NEW i \in DOMAIN source.ids, NEW id, id = source.ids[i]
  PROVE  /\ IsChunk(ChunkMoveIn(chunk, source, i), ts)
         /\ IdAdded(chunk, ChunkMoveIn(chunk, source, i), id)
<1> DEFINE f == [t \in ArrayTypes(ts) |->
                   IF t \in DOMAIN source.comps THEN source.comps[t][i] ELSE Default]
           new == [ids    |-> Append(chunk.ids, id),
                   comps  |-> [t \in ArrayTypes(ts) |-> Append(chunk.comps[t], f[t])],
                   shared |-> chunk.shared]
<1>1. /\ source.ids \in Seq(Nat \ {0})
      /\ DOMAIN source.ids = 1 .. Len(source.ids)
      /\ source.comps \in [ArrayTypes(us) -> Seq(Element)]
      /\ \A t \in ArrayTypes(us) : Len(source.comps[t]) = Len(source.ids)
  BY ChunkFields
<1>2. id \in Nat \ {0}
  BY <1>1, ElementOfSeq
<1>3. \A t \in ArrayTypes(us) : source.comps[t][i] \in Element
  BY <1>1, ElementOfSeq
<1>4. f \in [ArrayTypes(ts) -> Element]
  BY <1>1, <1>3, DefaultAndRoom DEF Element
<1>5. IsChunk(new, ts) /\ IdAdded(chunk, new, id)
  <2> HIDE DEF f
  <2> QED
    BY <1>2, <1>4, ChunkGrown
<1>6. DOMAIN chunk.comps = ArrayTypes(ts)
  BY ChunkFields
<1>7. ChunkMoveIn(chunk, source, i) = new
  BY <1>6 DEF ChunkMoveIn
<1> QED
  BY <1>5, <1>7

\* Chunk::deleteEntity removes the entity at position i.
LEMMA ChunkDeleteType ==
  ASSUME NEW ts \in SUBSET Types, NEW chunk, IsChunk(chunk, ts), NEW i \in DOMAIN chunk.ids
  PROVE  /\ IsChunk(ChunkDelete(chunk, i), ts)
         /\ ChunkDelete(chunk, i).ids = SwapDrop(chunk.ids, i)
<1> DEFINE ids == SwapDrop(chunk.ids, i)
           comps == [t \in ArrayTypes(ts) |-> SwapDrop(chunk.comps[t], i)]
<1>1. /\ chunk.ids \in Seq(Nat \ {0})
      /\ Len(chunk.ids) \in Nat
      /\ DOMAIN chunk.ids = 1 .. Len(chunk.ids)
      /\ chunk.comps \in [ArrayTypes(ts) -> Seq(Element)]
      /\ chunk.shared \in [SharedTypes(ts) -> Value]
      /\ \A t \in ArrayTypes(ts) : Len(chunk.comps[t]) = Len(chunk.ids)
  BY ChunkFields
<1>2. ids \in Seq(Nat \ {0}) /\ Len(ids) = Len(chunk.ids) - 1
  BY <1>1, SwapDropType
<1>4. ASSUME NEW t \in ArrayTypes(ts)
      PROVE  /\ SwapDrop(chunk.comps[t], i) \in Seq(Element)
             /\ Len(SwapDrop(chunk.comps[t], i)) = Len(chunk.ids) - 1
  <2> DEFINE array == chunk.comps[t]
  <2>1. array \in Seq(Element) /\ Len(array) = Len(chunk.ids)
    BY <1>1
  <2> HIDE DEF array
  <2>2. i \in DOMAIN array
    BY <1>1, <2>1, LenProperties
  <2>3. SwapDrop(array, i) \in Seq(Element) /\ Len(SwapDrop(array, i)) = Len(array) - 1
    BY <2>1, <2>2, SwapDropType
  <2> QED
    BY <2>1, <2>3 DEF array
<1>5. comps \in [ArrayTypes(ts) -> Seq(Element)]
  BY <1>4
<1>6. \A t \in ArrayTypes(ts) : Len(comps[t]) = Len(ids)
  BY <1>2, <1>4
<1>7. DOMAIN chunk.comps = ArrayTypes(ts)
  BY <1>1
<1>8. ChunkDelete(chunk, i) = [ids |-> ids, comps |-> comps, shared |-> chunk.shared]
  BY <1>7 DEF ChunkDelete
<1> HIDE DEF ids, comps
<1>9. IsChunk(ChunkDelete(chunk, i), ts)
  BY <1>1, <1>2, <1>5, <1>6, <1>8 DEF IsChunk, Element
<1> QED
  BY <1>8, <1>9 DEF ids
\* The value of one element replaced.
LEMMA ChunkSetType ==
  ASSUME NEW ts \in SUBSET Types, NEW chunk, IsChunk(chunk, ts),
         NEW i \in DOMAIN chunk.ids, NEW t \in ArrayTypes(ts), NEW v \in Value
  PROVE  /\ IsChunk(ChunkSet(chunk, i, t, v), ts)
         /\ ChunkSet(chunk, i, t, v).ids = chunk.ids
<1> DEFINE ids   == chunk.ids
           comps == chunk.comps
           array == comps[t]
           set   == [array EXCEPT ![i] = v]
           new   == [comps EXCEPT ![t] = set]
<1>1. /\ ids \in Seq(Nat \ {0})
      /\ Len(ids) \in Nat
      /\ DOMAIN ids = 1 .. Len(ids)
      /\ comps \in [ArrayTypes(ts) -> Seq(Element)]
      /\ chunk.shared \in [SharedTypes(ts) -> Value]
      /\ \A u \in ArrayTypes(ts) : Len(comps[u]) = Len(ids)
  BY ChunkFields
<1>2. ChunkSet(chunk, i, t, v) = [ids |-> ids, comps |-> new, shared |-> chunk.shared]
  BY DEF ChunkSet
<1> HIDE DEF comps
<1>3. array \in Seq(Element) /\ Len(array) = Len(ids)
  BY <1>1
<1> HIDE DEF array, ids
<1>4. set \in Seq(Element) /\ Len(set) = Len(ids)
  <2>1. v \in Element
    BY DEF Element
  <2>2. array \in [1 .. Len(array) -> Element] /\ Len(array) \in Nat
    BY <1>3, LenProperties
  <2>3. set \in [1 .. Len(array) -> Element]
    BY <2>1, <2>2
  <2>4. set \in Seq(Element)
    BY <2>2, <2>3, SeqDef
  <2>5. DOMAIN set = 1 .. Len(array)
    BY <2>3
  <2> QED
    BY <1>3, <2>2, <2>4, <2>5, LenProperties
<1> HIDE DEF set
<1>5. new \in [ArrayTypes(ts) -> Seq(Element)] /\ \A u \in ArrayTypes(ts) : Len(new[u]) = Len(ids)
  BY <1>1, <1>4
<1> HIDE DEF new
<1> QED
  BY <1>1, <1>2, <1>5 DEF IsChunk, Element, ids

-----------------------------------------------------------------------------
\* A non-empty set of naturals has a least element.
LEMMA MinOfNats ==
  ASSUME NEW S, S \subseteq Nat, S # {}
  PROVE  Min(S) \in S /\ \A y \in S : Min(S) =< y
<1>1. PICK x \in S : \A y \in S : ~(<<y, x>> \in OpToRel(<, Nat))
  BY NatLessThanWellFounded, WFMin
<1>2. ASSUME NEW y \in S PROVE  x =< y
  <2>1. ~(<<y, x>> \in {ss \in Nat \X Nat : ss[1] < ss[2]})
    BY <1>1 DEF OpToRel
  <2>. QED
    BY <2>1
<1> QED
  BY <1>2 DEF Min

\* A non-empty set of naturals below a bound has a greatest element.
LEMMA MaxOfNats ==
  ASSUME NEW S, NEW n \in Nat, S \subseteq 0 .. n, S # {}
  PROVE  Max(S) \in S /\ \A y \in S : Max(S) >= y
<1> DEFINE R == {n - x : x \in S}
<1>1. R \subseteq Nat
  OBVIOUS
<1>2. R # {}
  OBVIOUS
<1>3. PICK m \in R : \A y \in R : m =< y
  BY <1>1, <1>2, MinOfNats
<1>4. PICK x \in S : m = n - x
  BY <1>3
<1>5. \A y \in S : x >= y
  <2> TAKE y \in S
  <2>1. n - y \in R
    OBVIOUS
  <2>2. m =< n - y
    BY <1>3, <2>1
  <2> QED
    BY <1>4, <2>2
<1> QED
  BY <1>5, <1>4 DEF Max

-----------------------------------------------------------------------------
\* Slots.

\* The positions of a sequence.
LEMMA SequenceType ==
  ASSUME NEW s, IsSequence(s)
  PROVE  Len(s) \in Nat /\ DOMAIN s = 1 .. Len(s)
BY DEF IsSequence

\* A sequence over a set is a sequence in the sense of IsSequence.
LEMMA SeqIsSequence ==
  ASSUME NEW S, NEW s \in Seq(S)
  PROVE  IsSequence(s)
BY LenProperties DEF IsSequence

\* A chunk and an archetype are told apart from an empty slot.
LEMMA NotNull ==
  /\ \A chunk, ts : IsChunk(chunk, ts) => chunk # Null
  /\ \A arch : IsArchetype(arch) => arch # Null
<1>1. DOMAIN Null = {"null"}
  BY DEF Null
<1>2. ASSUME NEW chunk, NEW ts, IsChunk(chunk, ts) PROVE chunk # Null
  <2>1. DOMAIN chunk = {"ids", "comps", "shared"}
    BY <1>2 DEF IsChunk
  <2> QED
    BY <1>1, <2>1
<1>3. ASSUME NEW arch, IsArchetype(arch) PROVE arch # Null
  <2>1. DOMAIN arch = {"types", "chunks", "filled"}
    BY <1>3 DEF IsArchetype
  <2> QED
    BY <1>1, <2>1
<1> QED
  BY <1>2, <1>3

\* The free slot is one of the slots, or the next one, and not occupied.
LEMMA FreeSlotType ==
  ASSUME NEW s, IsSequence(s)
  PROVE  FreeSlot(s) \in 1 .. Len(s) + 1 /\ ~ Occupied(s, FreeSlot(s))
<1>1. Len(s) \in Nat /\ DOMAIN s = 1 .. Len(s)
  BY SequenceType
<1>2. CASE EmptySlots(s) = {}
  BY <1>1, <1>2 DEF FreeSlot, Occupied
<1>3. CASE EmptySlots(s) # {}
  <2>1. EmptySlots(s) \subseteq Nat
    BY <1>1 DEF EmptySlots
  <2>2. Min(EmptySlots(s)) \in EmptySlots(s)
    BY <1>3, <2>1, MinOfNats
  <2>3. FreeSlot(s) = Min(EmptySlots(s))
    BY <1>3 DEF FreeSlot
  <2> HIDE DEF EmptySlots
  <2> QED
    BY <1>1, <2>2, <2>3 DEF EmptySlots, Occupied
<1> QED
  BY <1>2, <1>3

\* A slot that is filled; the other slots keep what they hold.
LEMMA PutSlotType ==
  ASSUME NEW s, IsSequence(s), NEW i \in 1 .. Len(s) + 1, NEW x,
         NEW r, r = PutSlot(s, i, x)
  PROVE  /\ IsSequence(r)
         /\ \A j : j \in DOMAIN r <=> j \in DOMAIN s \/ j = i
         /\ r[i] = x
         /\ \A j \in DOMAIN s : j # i => r[j] = s[j]
         /\ x # Null /\ Trimmed(s) => Trimmed(r)
<1> DEFINE S == {s[j] : j \in DOMAIN s} \cup {x}
<1>1. /\ Len(s) \in Nat
      /\ DOMAIN s = 1 .. Len(s)
      /\ s = [j \in 1 .. Len(s) |-> s[j]]
  BY DEF IsSequence
<1>2. s \in Seq(S)
  <2>1. \A j \in 1 .. Len(s) : s[j] \in S
    BY <1>1
  <2>2. s \in [1 .. Len(s) -> S]
    BY <1>1, <2>1
  <2> QED
    BY <1>1, <2>2, SeqDef
<1>3. x \in S
  OBVIOUS
<1> HIDE DEF S
<1>4. CASE i \in DOMAIN s
  <2>1. r = [s EXCEPT ![i] = x]
    BY <1>4 DEF PutSlot
  <2>2. r \in Seq(S) /\ Len(r) = Len(s)
    BY <1>2, <1>3, <1>4, <2>1, ExceptSeq
  <2>3. IsSequence(r)
    BY <2>2, SeqIsSequence
  <2>4. DOMAIN r = DOMAIN s
    BY <2>1
  <2>5. x # Null /\ Trimmed(s) => Trimmed(r)
    BY <1>1, <1>4, <2>1, <2>2 DEF Trimmed
  <2> QED
    BY <1>4, <2>1, <2>3, <2>4, <2>5
<1>5. CASE i \notin DOMAIN s
  <2>0. i = Len(s) + 1
    BY <1>5, SequenceType
  <2>1. r = Append(s, x)
    BY <1>5, <2>0 DEF PutSlot
  <2>2. /\ r \in Seq(S) /\ Len(r) = Len(s) + 1
        /\ \A j \in 1 .. Len(s) : r[j] = s[j]
        /\ r[i] = x
    BY <2>0, <1>2, <1>3, <2>1, AppendProperties
  <2>3. IsSequence(r)
    BY <2>2, SeqIsSequence
  <2>4. DOMAIN r = DOMAIN s \cup {i}
    <3>1. DOMAIN r = 1 .. Len(s) + 1
      BY <2>2, LenProperties
    <3>2. Len(s) \in Nat /\ DOMAIN s = 1 .. Len(s)
      BY SequenceType
    <3>3. 1 .. Len(s) + 1 = (1 .. Len(s)) \cup {Len(s) + 1}
      BY <3>2
    <3> QED
      BY <2>0, <3>1, <3>2, <3>3
  <2>5. x # Null => Trimmed(r)
    BY <2>0, <2>2 DEF Trimmed
  <2>6. \A j \in DOMAIN s : r[j] = s[j]
    BY <2>2, SequenceType
  <2> QED
    BY <2>2, <2>3, <2>4, <2>5, <2>6
<1> QED
  BY <1>4, <1>5

\* A slot that is freed: it is dropped or empty, the others that were occupied
\* keep what they hold, and the last one that is left is occupied.
LEMMA FreeSlotAtType ==
  ASSUME NEW s, IsSequence(s), NEW i \in DOMAIN s,
         NEW r, r = FreeSlotAt(s, i)
  PROVE  /\ IsSequence(r)
         /\ Trimmed(r)
         /\ \A j \in Nat : Occupied(r, j) <=> Occupied(s, j) /\ j # i
         /\ \A j \in Nat : Occupied(r, j) => r[j] = s[j]
<1> DEFINE used == DOMAIN s \ (EmptySlots(s) \cup {i})
           cut  == Max({0} \cup used)
           t    == [s EXCEPT ![i] = Null]
           S    == {t[j] : j \in DOMAIN s}
<1>1. Len(s) \in Nat /\ DOMAIN s = 1 .. Len(s)
  BY SequenceType
<1>2. cut \in 0 .. Len(s) /\ (cut = 0 \/ cut \in used) /\ \A j \in used : j =< cut
  <2>1. {0} \cup used \subseteq 0 .. Len(s) /\ {0} \cup used # {}
    BY <1>1
  <2>2. cut \in {0} \cup used /\ \A j \in {0} \cup used : cut >= j
    <3> HIDE DEF used
    <3> QED
      BY <1>1, <2>1, MaxOfNats
  <2> HIDE DEF used, cut
  <2>3. \A j \in used : j =< cut
    BY <1>1, <2>1, <2>2
  <2> QED
    BY <2>1, <2>2, <2>3
<1>3. \A j \in Nat : j \in used <=> Occupied(s, j) /\ j # i
  BY DEF Occupied, EmptySlots
<1>4. r = SubSeq(t, 1, cut)
  BY DEF FreeSlotAt
<1>5. DOMAIN t = 1 .. Len(s) /\ t[i] = Null /\ \A j \in 1 .. Len(s) : j # i => t[j] = s[j]
  BY <1>1
<1>6. \A j \in 1 .. cut : t[j] \in S
  <2> HIDE DEF cut, used, t
  <2> QED
    BY <1>1, <1>2
<1> HIDE DEF used, cut, t, S
<1>7. r \in Seq(S) /\ Len(r) = cut /\ \A j \in 1 .. cut : r[j] = t[j]
  BY <1>2, <1>4, <1>6, SubSeqProperties
<1>8. DOMAIN r = 1 .. cut /\ IsSequence(r)
  BY <1>7, LenProperties, SeqIsSequence
<1>9. ASSUME NEW j \in Nat
      PROVE  /\ Occupied(r, j) <=> j \in used
             /\ Occupied(r, j) => r[j] = s[j]
  <2>1. CASE j \in used
    <3>1. Occupied(s, j) /\ j # i
      BY <1>3, <2>1
    <3>2. j \in 1 .. Len(s) /\ s[j] # Null
      BY <1>1, <3>1 DEF Occupied
    <3>3. j \in 1 .. cut
      BY <1>1, <1>2, <2>1, <3>2
    <3>4. r[j] = s[j]
      BY <1>5, <1>7, <3>1, <3>2, <3>3
    <3> QED
      BY <1>8, <2>1, <3>2, <3>3, <3>4 DEF Occupied
  <2>2. CASE j \notin used
    <3>1. ASSUME j \in 1 .. cut PROVE r[j] = Null
      <4>1. j \in 1 .. Len(s) /\ r[j] = t[j]
        BY <1>1, <1>2, <1>7, <3>1
      <4>2. j = i \/ s[j] = Null
        BY <1>1, <1>3, <2>2, <4>1 DEF Occupied
      <4> QED
        BY <1>5, <4>1, <4>2
    <3> QED
      BY <1>8, <2>2, <3>1 DEF Occupied
  <2> QED
    BY <2>1, <2>2
<1>10. Trimmed(r)
  <2>1. CASE cut = 0
    <3>1. r = << >>
      BY <1>7, <2>1, EmptySeq
    <3> QED
      BY <3>1 DEF Trimmed
  <2>2. CASE cut # 0
    <3>1. cut \in used /\ cut \in Nat
      BY <1>1, <1>2, <2>2
    <3>2. Occupied(r, cut)
      BY <1>9, <3>1
    <3> QED
      BY <1>7, <3>2 DEF Occupied, Trimmed
  <2> QED
    BY <2>1, <2>2
<1>11. \A j \in Nat : Occupied(r, j) <=> Occupied(s, j) /\ j # i
  BY <1>3, <1>9
<1> QED
  BY <1>8, <1>9, <1>10, <1>11

-----------------------------------------------------------------------------
\* Archetypes.

\* The ids in slot c, none if there is no chunk.
ChunkIds(arch, c) ==
  IF Occupied(arch.chunks, c) THEN arch.chunks[c].ids ELSE << >>

\* What holds of an archetype between two operations.
ArchOK(arch) ==
  /\ IsArchetype(arch)
  /\ Trimmed(arch.chunks)
  /\ \A c \in DOMAIN arch.chunks :
       arch.chunks[c] # Null => Len(arch.chunks[c].ids) <= Capacity[arch.types]

\* The slot of new, which holds what arch holds, has room for an entity.
Ready(arch, new, slot) ==
  /\ ArchOK(new)
  /\ new.types = arch.types
  /\ HasRoom(new, slot)
  /\ \A c \in Nat : ChunkIds(new, c) = ChunkIds(arch, c)

\* new holds what arch holds, and id at the end of the slot.
Added(arch, new, slot, id) ==
  /\ ArchOK(new)
  /\ new.types = arch.types
  /\ Occupied(new.chunks, slot)
  /\ ChunkIds(new, slot) = IdsWith(ChunkIds(arch, slot), id)
  /\ \A c \in Nat : c # slot => ChunkIds(new, c) = ChunkIds(arch, c)

\* new holds what arch holds, less the entity at position i of slot c.
Removed(arch, new, c, i) ==
  /\ ArchOK(new)
  /\ new.types = arch.types
  /\ ChunkIds(new, c) = SwapDrop(ChunkIds(arch, c), i)
  /\ \A d \in Nat : d # c => ChunkIds(new, d) = ChunkIds(arch, d)

\* The parts of an archetype.
LEMMA ArchetypeFields ==
  ASSUME NEW arch, ArchOK(arch)
  PROVE  /\ arch = [types |-> arch.types, chunks |-> arch.chunks, filled |-> arch.filled]
         /\ arch.types \in SUBSET Types
         /\ arch.filled \in Nat
         /\ IsSequence(arch.chunks)
         /\ Trimmed(arch.chunks)
         /\ \A c : Occupied(arch.chunks, c) =>
              /\ c \in 1 .. Len(arch.chunks)
              /\ IsChunk(arch.chunks[c], arch.types)
              /\ Len(arch.chunks[c].ids) <= Capacity[arch.types]
              /\ ChunkIds(arch, c) = arch.chunks[c].ids
<1>1. IsArchetype(arch)
  BY DEF ArchOK
<1>2. /\ arch \in [types : SUBSET Types, chunks : {arch.chunks}, filled : Nat]
      /\ IsSequence(arch.chunks)
  BY <1>1 DEF IsArchetype
<1>3. ASSUME NEW c, Occupied(arch.chunks, c)
      PROVE  /\ c \in 1 .. Len(arch.chunks)
             /\ IsChunk(arch.chunks[c], arch.types)
             /\ Len(arch.chunks[c].ids) <= Capacity[arch.types]
             /\ ChunkIds(arch, c) = arch.chunks[c].ids
  BY <1>1, <1>2, <1>3, SequenceType DEF ArchOK, IsArchetype, Occupied, ChunkIds
<1>4. arch = [types |-> arch.types, chunks |-> arch.chunks, filled |-> arch.filled]
  BY <1>2
<1> QED
  BY <1>2, <1>3, <1>4 DEF ArchOK

\* A chunk put into a slot of an archetype.
LEMMA ArchPut ==
  ASSUME NEW arch, ArchOK(arch), NEW slot \in 1 .. Len(arch.chunks) + 1,
         NEW chunk, IsChunk(chunk, arch.types), Len(chunk.ids) <= Capacity[arch.types],
         NEW filled \in Nat,
         NEW new, new = [types |-> arch.types, chunks |-> PutSlot(arch.chunks, slot, chunk),
                         filled |-> filled]
  PROVE  /\ ArchOK(new)
         /\ new.types = arch.types
         /\ Occupied(new.chunks, slot)
         /\ new.chunks[slot] = chunk
         /\ ChunkIds(new, slot) = chunk.ids
         /\ \A c \in Nat : c # slot => ChunkIds(new, c) = ChunkIds(arch, c)
<1> DEFINE chunks == PutSlot(arch.chunks, slot, chunk)
<1>1. /\ arch.types \in SUBSET Types
      /\ IsSequence(arch.chunks)
      /\ Trimmed(arch.chunks)
      /\ \A c : Occupied(arch.chunks, c) =>
           /\ IsChunk(arch.chunks[c], arch.types)
           /\ Len(arch.chunks[c].ids) <= Capacity[arch.types]
  BY ArchetypeFields
<1>2. chunk # Null
  BY NotNull
<1>3. /\ IsSequence(chunks)
      /\ \A j : j \in DOMAIN chunks <=> j \in DOMAIN arch.chunks \/ j = slot
      /\ chunks[slot] = chunk
      /\ \A j \in DOMAIN arch.chunks : j # slot => chunks[j] = arch.chunks[j]
      /\ Trimmed(chunks)
  <2> DEFINE old == arch.chunks
  <2>1. /\ chunks = PutSlot(old, slot, chunk)
        /\ IsSequence(old) /\ Trimmed(old)
        /\ slot \in 1 .. Len(old) + 1
    BY <1>1
  <2> HIDE DEF chunks, old
  <2>2. /\ IsSequence(chunks)
        /\ \A j : j \in DOMAIN chunks <=> j \in DOMAIN old \/ j = slot
        /\ chunks[slot] = chunk
        /\ \A j \in DOMAIN old : j # slot => chunks[j] = old[j]
        /\ chunk # Null /\ Trimmed(old) => Trimmed(chunks)
    BY <2>1, PutSlotType
  <2> QED
    BY <1>2, <2>1, <2>2 DEF old
<1>4. new = [types |-> arch.types, chunks |-> chunks, filled |-> filled]
  OBVIOUS
<1> HIDE DEF chunks
<1>5. new.types = arch.types /\ new.chunks = chunks /\ new.filled = filled
  BY <1>4
<1>6. \A c : c # slot => /\ Occupied(chunks, c) <=> Occupied(arch.chunks, c)
                         /\ Occupied(chunks, c) => chunks[c] = arch.chunks[c]
  BY <1>3 DEF Occupied
<1>7. \A c \in DOMAIN chunks : chunks[c] # Null =>
        /\ IsChunk(chunks[c], arch.types)
        /\ Len(chunks[c].ids) <= Capacity[arch.types]
  BY <1>1, <1>3, <1>6 DEF Occupied
<1>8. IsArchetype(new)
  BY <1>1, <1>3, <1>4, <1>5, <1>7 DEF IsArchetype
<1>9. ArchOK(new)
  BY <1>3, <1>5, <1>7, <1>8 DEF ArchOK
<1>10. Occupied(new.chunks, slot) /\ new.chunks[slot] = chunk
  BY <1>2, <1>3, <1>5 DEF Occupied
<1>11. \A c \in Nat : c # slot => ChunkIds(new, c) = ChunkIds(arch, c)
  BY <1>5, <1>6 DEF ChunkIds
<1>12. ChunkIds(new, slot) = chunk.ids
  BY <1>10 DEF ChunkIds
<1> QED
  BY <1>5, <1>9, <1>10, <1>11, <1>12

\* The chunk in an occupied slot replaced by another.
LEMMA ArchReplace ==
  ASSUME NEW arch, ArchOK(arch), NEW slot, Occupied(arch.chunks, slot),
         NEW chunk, IsChunk(chunk, arch.types), Len(chunk.ids) <= Capacity[arch.types],
         NEW new, new = WithChunk(arch, slot, chunk)
  PROVE  /\ ArchOK(new)
         /\ new.types = arch.types
         /\ Occupied(new.chunks, slot)
         /\ ChunkIds(new, slot) = chunk.ids
         /\ \A c \in Nat : c # slot => ChunkIds(new, c) = ChunkIds(arch, c)
<1>1. /\ arch = [types |-> arch.types, chunks |-> arch.chunks, filled |-> arch.filled]
      /\ arch.filled \in Nat
      /\ slot \in 1 .. Len(arch.chunks)
      /\ IsSequence(arch.chunks)
  BY ArchetypeFields
<1>2. slot \in DOMAIN arch.chunks
  BY DEF Occupied
<1>3. PutSlot(arch.chunks, slot, chunk) = [arch.chunks EXCEPT ![slot] = chunk]
  BY <1>2 DEF PutSlot
<1>4. new = [types |-> arch.types, chunks |-> PutSlot(arch.chunks, slot, chunk),
             filled |-> arch.filled]
  BY <1>1, <1>3 DEF WithChunk
<1>5. slot \in 1 .. Len(arch.chunks) + 1
  BY <1>1, SequenceType
<1> QED
  BY <1>1, <1>4, <1>5, ArchPut

\* A chunk with room that receives an entity.
LEMMA ReadyGrown ==
  ASSUME NEW arch, NEW ready, NEW slot \in Nat, Ready(arch, ready, slot), NEW id,
         NEW chunk, IsChunk(chunk, arch.types),
         IdAdded(ready.chunks[slot], chunk, id), id \in Nat \ {0},
         NEW new, new = WithChunk(ready, slot, chunk)
  PROVE  Added(arch, new, slot, id)
<1>1. /\ ArchOK(ready)
      /\ ready.types = arch.types
      /\ Occupied(ready.chunks, slot)
      /\ Len(ready.chunks[slot].ids) < Capacity[arch.types]
      /\ \A c \in Nat : ChunkIds(ready, c) = ChunkIds(arch, c)
  BY DEF Ready, HasRoom
<1>2. /\ IsChunk(ready.chunks[slot], arch.types)
      /\ ChunkIds(ready, slot) = ready.chunks[slot].ids
      /\ arch.types \in SUBSET Types
  BY <1>1, ArchetypeFields
<1>3. ready.chunks[slot].ids \in Seq(Nat \ {0}) /\ Len(ready.chunks[slot].ids) \in Nat
  BY <1>2, ChunkFields
<1>4. Len(chunk.ids) = Len(ready.chunks[slot].ids) + 1
  BY <1>3, IdsWithType, SMTT(30) DEF IdAdded
<1>5. IsChunk(chunk, ready.types) /\ Len(chunk.ids) <= Capacity[ready.types]
  BY <1>1, <1>2, <1>3, <1>4, DefaultAndRoom
<1>6. /\ ArchOK(new)
      /\ new.types = arch.types
      /\ Occupied(new.chunks, slot)
      /\ ChunkIds(new, slot) = chunk.ids
      /\ \A c \in Nat : c # slot => ChunkIds(new, c) = ChunkIds(ready, c)
  BY <1>1, <1>5, ArchReplace
<1> QED
  BY <1>1, <1>2, <1>6 DEF Added, IdAdded

-----------------------------------------------------------------------------
\* The searches for a chunk.

\* An archetype without a chunk has no ids.
LEMMA NewArchetypeOK ==
  ASSUME NEW ts \in SUBSET Types
  PROVE  /\ ArchOK(NewArchetype(ts))
         /\ NewArchetype(ts).types = ts
         /\ \A c \in Nat : ChunkIds(NewArchetype(ts), c) = << >>
<1>1. Len(<< >>) = 0
  BY EmptySeq
<1>2. IsSequence(<< >>)
  BY EmptySeq, SeqIsSequence
<1>3. DOMAIN << >> = {}
  BY <1>1, <1>2, SequenceType
<1> QED
  BY <1>2, <1>3 DEF NewArchetype, ArchOK, IsArchetype, Trimmed, ChunkIds, Occupied

\* A chunk that fits has room.
LEMMA FirstFittingHasRoom ==
  ASSUME NEW arch, ArchOK(arch), NEW data, FirstFitting(arch, data) # 0
  PROVE  /\ FirstFitting(arch, data) \in Nat
         /\ HasRoom(arch, FirstFitting(arch, data))
         /\ SharedMatch(arch.chunks[FirstFitting(arch, data)], data)
<1>1. Fitting(arch, data) # {} /\ FirstFitting(arch, data) = Min(Fitting(arch, data))
  BY DEF FirstFitting
<1>2. DOMAIN arch.chunks \subseteq Nat
  <2>1. IsSequence(arch.chunks)
    BY ArchetypeFields
  <2>2. DOMAIN arch.chunks = 1 .. Len(arch.chunks) /\ Len(arch.chunks) \in Nat
    BY <2>1, SequenceType
  <2> QED
    BY <2>2
<1>3. Fitting(arch, data) \subseteq Nat
  BY <1>2 DEF Fitting
<1>4. FirstFitting(arch, data) \in Fitting(arch, data)
  <2> HIDE DEF Fitting
  <2> QED
    BY <1>1, <1>3, MinOfNats
<1> QED
  BY <1>3, <1>4 DEF Fitting

\* The archetype as it is, if the slot has room.
LEMMA ReadyAsItIs ==
  ASSUME NEW arch, ArchOK(arch), NEW slot, HasRoom(arch, slot)
  PROVE  Ready(arch, arch, slot)
BY DEF Ready

\* An empty chunk in a slot that was not occupied.
LEMMA ReadyNewChunk ==
  ASSUME NEW arch, ArchOK(arch), NEW slot \in 1 .. Len(arch.chunks) + 1,
         ~ Occupied(arch.chunks, slot),
         NEW chunk, IsChunk(chunk, arch.types), chunk.ids = << >>,
         NEW filled \in Nat,
         NEW new, new = [types |-> arch.types, chunks |-> PutSlot(arch.chunks, slot, chunk),
                         filled |-> filled]
  PROVE  Ready(arch, new, slot)
<1>1. Len(chunk.ids) = 0
  BY EmptySeq
<1>2. Capacity[arch.types] \in Nat /\ Capacity[arch.types] > 0
  BY ArchetypeFields, DefaultAndRoom
<1>3. /\ ArchOK(new)
      /\ new.types = arch.types
      /\ Occupied(new.chunks, slot)
      /\ new.chunks[slot] = chunk
      /\ ChunkIds(new, slot) = chunk.ids
      /\ \A c \in Nat : c # slot => ChunkIds(new, c) = ChunkIds(arch, c)
  BY <1>1, <1>2, ArchPut
<1>4. ChunkIds(arch, slot) = << >>
  BY DEF ChunkIds
<1>5. HasRoom(new, slot)
  BY <1>1, <1>2, <1>3 DEF HasRoom
<1> QED
  BY <1>3, <1>4, <1>5 DEF Ready

\* A new chunk with given shared values.
LEMMA ChunkWithType ==
  ASSUME NEW arch, ArchOK(arch), NEW data, \A t \in DOMAIN data : data[t] \in Value
  PROVE  IsChunk(ChunkWith(arch, data), arch.types) /\ ChunkWith(arch, data).ids = << >>
<1>1. arch.types \in SUBSET Types
  BY ArchetypeFields
<1>2. IsChunk(NewChunk(arch.types), arch.types) /\ NewChunk(arch.types).ids = << >>
  BY <1>1, NewChunkType
<1>3. NewChunk(arch.types).shared \in [SharedTypes(arch.types) -> Value]
  BY <1>1, <1>2, ChunkFields
<1>4. WithShared(NewChunk(arch.types), data) \in [SharedTypes(arch.types) -> Value]
  BY <1>3 DEF WithShared
<1> QED
  BY <1>2, <1>4 DEF ChunkWith, IsChunk

\* Archetype::getOrCreateChunkForNewEntity()
LEMMA ChunkForNewEntityReady ==
  ASSUME NEW arch, ArchOK(arch)
  PROVE  LET ready == ChunkForNewEntity(arch)
         IN  Ready(arch, ready.arch, ready.slot) /\ ready.slot \in Nat
<1> DEFINE slot == FreeSlot(arch.chunks)
           new  == [types |-> arch.types, filled |-> slot,
                    chunks |-> PutSlot(arch.chunks, slot, NewChunk(arch.types))]
<1>1. /\ arch.types \in SUBSET Types
      /\ arch.filled \in Nat
      /\ IsSequence(arch.chunks)
  BY ArchetypeFields
<1>2. slot \in 1 .. Len(arch.chunks) + 1 /\ slot \in Nat /\ ~ Occupied(arch.chunks, slot)
  BY <1>1, FreeSlotType, SequenceType
<1>3. IsChunk(NewChunk(arch.types), arch.types) /\ NewChunk(arch.types).ids = << >>
  BY <1>1, NewChunkType
<1>4. CASE HasRoom(arch, arch.filled)
  BY <1>1, <1>4, ReadyAsItIs DEF ChunkForNewEntity
<1>5. CASE ~ HasRoom(arch, arch.filled)
  <2> HIDE DEF slot
  <2>1. Ready(arch, new, slot)
    BY <1>2, <1>3, ReadyNewChunk
  <2>2. ChunkForNewEntity(arch) = [arch |-> new, slot |-> slot]
    BY <1>5 DEF ChunkForNewEntity, slot
  <2> HIDE DEF new
  <2> QED
    BY <1>2, <2>1, <2>2
<1> QED
  BY <1>4, <1>5

\* Archetype::getOrCreateChunkForNewEntity(sharedComponentDatas)
LEMMA ChunkWithSharedReady ==
  ASSUME NEW arch, ArchOK(arch), NEW data, \A t \in DOMAIN data : data[t] \in Value
  PROVE  LET ready == ChunkWithShared(arch, data)
         IN  Ready(arch, ready.arch, ready.slot) /\ ready.slot \in Nat
<1> DEFINE slot  == FreeSlot(arch.chunks)
           c     == FirstFitting(arch, data)
           chunk == ChunkWith(arch, data)
           new   == [types |-> arch.types, chunks |-> PutSlot(arch.chunks, slot, chunk),
                     filled |-> arch.filled]
<1>1. /\ arch = [types |-> arch.types, chunks |-> arch.chunks, filled |-> arch.filled]
      /\ arch.filled \in Nat
      /\ IsSequence(arch.chunks)
  BY ArchetypeFields
<1>2. slot \in 1 .. Len(arch.chunks) + 1 /\ slot \in Nat /\ ~ Occupied(arch.chunks, slot)
  BY <1>1, FreeSlotType, SequenceType
<1>3. IsChunk(chunk, arch.types) /\ chunk.ids = << >>
  BY ChunkWithType
<1>4. CASE c # 0
  <2>1. c \in Nat /\ HasRoom(arch, c)
    BY <1>4, FirstFittingHasRoom
  <2>2. ChunkWithShared(arch, data) = [arch |-> arch, slot |-> c]
    BY <1>4 DEF ChunkWithShared
  <2> QED
    BY <2>1, <2>2, ReadyAsItIs
<1>5. CASE c = 0
  <2>1. [arch EXCEPT !.chunks = PutSlot(@, slot, chunk)] = new
    BY <1>1
  <2>2. ChunkWithShared(arch, data) = [arch |-> new, slot |-> slot]
    BY <1>5, <2>1 DEF ChunkWithShared
  <2> HIDE DEF slot, chunk
  <2>3. Ready(arch, new, slot)
    BY <1>1, <1>2, <1>3, ReadyNewChunk
  <2> HIDE DEF new
  <2> QED
    BY <1>2, <2>2, <2>3
<1> QED
  BY <1>4, <1>5

\* A new chunk in every empty slot changes nothing of what the archetype holds.
LEMMA AllSlotsFilled ==
  ASSUME NEW arch, ArchOK(arch),
         NEW slots, slots = [i \in DOMAIN arch.chunks |->
                               IF i \in EmptySlots(arch.chunks) THEN NewChunk(arch.types)
                                                                 ELSE arch.chunks[i]],
         NEW new, new = [types |-> arch.types, chunks |-> slots, filled |-> arch.filled]
  PROVE  /\ ArchOK(new)
         /\ Len(slots) = Len(arch.chunks)
         /\ \A i \in DOMAIN arch.chunks : i \in EmptySlots(arch.chunks) =>
              ChunkIds(new, i) = << >> /\ Occupied(slots, i)
         /\ \A c \in Nat : ChunkIds(new, c) = ChunkIds(arch, c)
<1>1. /\ arch.types \in SUBSET Types
      /\ arch.filled \in Nat
      /\ IsSequence(arch.chunks)
      /\ \A c : Occupied(arch.chunks, c) =>
           /\ IsChunk(arch.chunks[c], arch.types)
           /\ Len(arch.chunks[c].ids) <= Capacity[arch.types]
  BY ArchetypeFields
<1>2. Len(arch.chunks) \in Nat /\ DOMAIN arch.chunks = 1 .. Len(arch.chunks)
  BY <1>1, SequenceType
<1>3. IsChunk(NewChunk(arch.types), arch.types) /\ NewChunk(arch.types).ids = << >>
  BY <1>1, NewChunkType
<1>4. Len(<< >>) = 0 /\ Capacity[arch.types] \in Nat /\ Capacity[arch.types] > 0
  BY <1>1, EmptySeq, DefaultAndRoom
<1>5. DOMAIN slots = 1 .. Len(arch.chunks)
  BY <1>2
<1>6. IsSequence(slots) /\ Len(slots) = Len(arch.chunks)
  <2> DEFINE S == {slots[i] : i \in 1 .. Len(arch.chunks)}
  <2>1. \A i \in 1 .. Len(arch.chunks) : slots[i] \in S
    OBVIOUS
  <2>2. slots = [i \in 1 .. Len(arch.chunks) |-> slots[i]]
    BY <1>2
  <2> HIDE DEF S
  <2>3. slots \in [1 .. Len(arch.chunks) -> S]
    BY <2>1, <2>2
  <2>4. slots \in Seq(S)
    BY <1>2, <2>3, SeqDef
  <2>5. IsSequence(slots) /\ DOMAIN slots = 1 .. Len(slots) /\ Len(slots) \in Nat
    BY <2>4, LenProperties, SeqIsSequence
  <2>6. 1 .. Len(slots) = 1 .. Len(arch.chunks)
    BY <1>5, <2>5
  <2> QED
    BY <1>2, <2>5, <2>6
<1>7. ASSUME NEW i \in DOMAIN arch.chunks
      PROVE  /\ Occupied(slots, i)
             /\ IsChunk(slots[i], arch.types)
             /\ Len(slots[i].ids) <= Capacity[arch.types]
             /\ slots[i].ids = ChunkIds(arch, i)
             /\ i \in EmptySlots(arch.chunks) => slots[i].ids = << >>
  <2>1. i \in DOMAIN slots
    BY <1>2, <1>5
  <2>2. CASE i \in EmptySlots(arch.chunks)
    <3>1. slots[i] = NewChunk(arch.types)
      BY <2>2
    <3>2. ~ Occupied(arch.chunks, i)
      BY <2>2 DEF EmptySlots, Occupied
    <3> QED
      BY <1>3, <1>4, <2>1, <3>1, <3>2, NotNull DEF Occupied, ChunkIds
  <2>3. CASE i \notin EmptySlots(arch.chunks)
    <3>1. slots[i] = arch.chunks[i]
      BY <2>3
    <3>2. Occupied(arch.chunks, i)
      BY <2>3 DEF EmptySlots, Occupied
    <3> QED
      BY <1>1, <2>1, <2>3, <3>1, <3>2 DEF Occupied, ChunkIds
  <2> QED
    BY <2>2, <2>3
<1>8. new.types = arch.types /\ new.chunks = slots /\ new.filled = arch.filled
  OBVIOUS
<1>9. IsArchetype(new)
  BY <1>1, <1>2, <1>5, <1>6, <1>7, <1>8 DEF IsArchetype
<1>10. Trimmed(slots)
  <2>1. slots # << >> => Len(arch.chunks) \in 1 .. Len(arch.chunks)
    <3>1. Len(arch.chunks) = 0 => slots = << >>
      BY <1>5, <1>6, SequenceType, EmptySeq
    <3> QED
      BY <1>2, <3>1
  <2> QED
    BY <1>2, <1>6, <1>7, <2>1 DEF Trimmed, Occupied
<1>11. ArchOK(new)
  BY <1>2, <1>5, <1>7, <1>8, <1>9, <1>10 DEF ArchOK
<1>12. \A c \in Nat : ChunkIds(new, c) = ChunkIds(arch, c)
  BY <1>2, <1>5, <1>7, <1>8 DEF ChunkIds, Occupied
<1>13. \A i \in DOMAIN arch.chunks : i \in EmptySlots(arch.chunks) =>
        ChunkIds(new, i) = << >> /\ Occupied(slots, i)
  BY <1>7, <1>8 DEF ChunkIds
<1> QED
  BY <1>6, <1>11, <1>12, <1>13

\* Archetype::getOrCreateChunkForMovedEntity
LEMMA ChunkForMovedEntityReady ==
  ASSUME NEW arch, ArchOK(arch), NEW source,
         \A t \in DOMAIN source.shared : source.shared[t] \in Value
  PROVE  LET ready == ChunkForMovedEntity(arch, source)
         IN  Ready(arch, ready.arch, ready.slot) /\ ready.slot \in Nat
<1> DEFINE c     == FirstFitting(arch, source.shared)
           empty == EmptySlots(arch.chunks)
           slots == [i \in DOMAIN arch.chunks |->
                       IF i \in empty THEN NewChunk(arch.types) ELSE arch.chunks[i]]
           slot  == IF empty = {} THEN Len(slots) + 1 ELSE Max(empty)
           chunk == ChunkWith(arch, source.shared)
           mid   == [types |-> arch.types, chunks |-> slots, filled |-> arch.filled]
           new   == [types |-> arch.types, chunks |-> PutSlot(slots, slot, chunk),
                     filled |-> arch.filled]
<1>1. /\ arch = [types |-> arch.types, chunks |-> arch.chunks, filled |-> arch.filled]
      /\ arch.types \in SUBSET Types
      /\ arch.filled \in Nat
      /\ IsSequence(arch.chunks)
  BY ArchetypeFields
<1>2. Len(arch.chunks) \in Nat /\ DOMAIN arch.chunks = 1 .. Len(arch.chunks)
  BY <1>1, SequenceType
<1>3. IsChunk(chunk, arch.types) /\ chunk.ids = << >>
  BY ChunkWithType
<1>4. CASE c # 0
  <2>1. c \in Nat /\ HasRoom(arch, c)
    BY <1>4, FirstFittingHasRoom
  <2>2. ChunkForMovedEntity(arch, source) = [arch |-> arch, slot |-> c]
    BY <1>4 DEF ChunkForMovedEntity
  <2> QED
    BY <2>1, <2>2, ReadyAsItIs
<1>5. CASE c = 0
  <2>1. /\ ArchOK(mid)
        /\ Len(slots) = Len(arch.chunks)
        /\ \A i \in DOMAIN arch.chunks : i \in empty => ChunkIds(mid, i) = << >>
        /\ \A d \in Nat : ChunkIds(mid, d) = ChunkIds(arch, d)
    BY AllSlotsFilled
  <2>2. slot \in 1 .. Len(slots) + 1 /\ (slot \in empty \/ slot \notin DOMAIN slots)
    <3>1. CASE empty = {}
      <4>1. slot = Len(slots) + 1 /\ DOMAIN slots = 1 .. Len(slots)
        BY <1>2, <2>1, <3>1
      <4> HIDE DEF slots, slot
      <4> QED
        BY <1>2, <2>1, <4>1
    <3>2. CASE empty # {}
      <4>1. empty \subseteq 0 .. Len(arch.chunks) /\ empty \subseteq 1 .. Len(arch.chunks)
        BY <1>2 DEF EmptySlots
      <4>2. Max(empty) \in empty
        <5> HIDE DEF empty
        <5> QED
          BY <1>2, <3>2, <4>1, MaxOfNats
      <4>3. slot = Max(empty)
        BY <3>2
      <4>4. slot \in 1 .. Len(arch.chunks)
        BY <4>1, <4>2, <4>3
      <4>5. slot \in empty
        BY <4>2, <4>3
      <4> HIDE DEF empty, slots, slot
      <4> QED
        BY <1>2, <2>1, <4>4, <4>5
    <3> QED
      BY <3>1, <3>2
  <2>3. slot \in Nat
    BY <1>2, <2>1, <2>2
  <2>4. ChunkIds(mid, slot) = << >>
    <3>1. CASE slot \in empty
      <4>1. empty \subseteq DOMAIN arch.chunks
        BY DEF EmptySlots
      <4> HIDE DEF slot, empty, mid, slots
      <4> QED
        BY <2>1, <3>1, <4>1
    <3>2. CASE slot \notin DOMAIN slots
      BY <3>2 DEF ChunkIds, Occupied
    <3> QED
      BY <2>2, <3>1, <3>2
  <2>5. /\ ChunkForMovedEntity(arch, source) = [arch |-> new, slot |-> slot]
        /\ mid.types = arch.types /\ mid.chunks = slots
        /\ new = [types |-> mid.types, chunks |-> PutSlot(mid.chunks, slot, chunk),
                  filled |-> arch.filled]
    <3>1. [arch EXCEPT !.chunks = PutSlot(slots, slot, chunk)] = new
      BY <1>1
    <3> QED
      BY <1>5, <3>1 DEF ChunkForMovedEntity
  <2>6. Len(chunk.ids) = 0 /\ Capacity[arch.types] \in Nat /\ Capacity[arch.types] > 0
    BY <1>1, <1>3, EmptySeq, DefaultAndRoom
  <2> HIDE DEF c, empty, slots, slot, chunk, mid, new
  <2>7. /\ ArchOK(new)
        /\ new.types = arch.types
        /\ Occupied(new.chunks, slot)
        /\ new.chunks[slot] = chunk
        /\ ChunkIds(new, slot) = chunk.ids
        /\ \A d \in Nat : d # slot => ChunkIds(new, d) = ChunkIds(mid, d)
    <3>1. /\ slot \in 1 .. Len(mid.chunks) + 1
          /\ IsChunk(chunk, mid.types)
          /\ Len(chunk.ids) <= Capacity[mid.types]
      BY <1>3, <2>2, <2>5, <2>6
    <3> QED
      BY <1>1, <2>1, <2>5, <3>1, ArchPut
  <2>8. HasRoom(new, slot)
    BY <2>6, <2>7 DEF HasRoom
  <2>9. Ready(arch, new, slot)
    BY <1>3, <2>1, <2>3, <2>4, <2>7, <2>8 DEF Ready
  <2> QED
    BY <2>3, <2>5, <2>9
<1> QED
  BY <1>4, <1>5

-----------------------------------------------------------------------------
\* The operations of an archetype.

\* The chosen chunk of a ready archetype is well formed.
LEMMA ChosenType ==
  ASSUME NEW arch, NEW ready, Ready(arch, ready.arch, ready.slot)
  PROVE  /\ IsChunk(Chosen(ready), arch.types)
         /\ arch.types \in SUBSET Types
<1>1. ArchOK(ready.arch) /\ ready.arch.types = arch.types /\ Occupied(ready.arch.chunks, ready.slot)
  BY DEF Ready, HasRoom
<1> QED
  BY <1>1, ArchetypeFields DEF Chosen

\* An entity put into the chosen chunk.
LEMMA IntoAdded ==
  ASSUME NEW arch, NEW ready, Ready(arch, ready.arch, ready.slot), ready.slot \in Nat,
         NEW id \in Nat \ {0},
         NEW chunk, IsChunk(chunk, arch.types), IdAdded(Chosen(ready), chunk, id)
  PROVE  LET into == Into(ready, chunk)
         IN  into.slot \in Nat /\ Added(arch, into.arch, into.slot, id)
<1>1. /\ Into(ready, chunk).slot = ready.slot
      /\ Into(ready, chunk).arch = WithChunk(ready.arch, ready.slot, chunk)
  BY DEF Into
<1>2. IdAdded(ready.arch.chunks[ready.slot], chunk, id)
  BY DEF Chosen
<1> QED
  BY <1>1, <1>2, ReadyGrown

\* Archetype::createEntity
LEMMA ArchCreateAdded ==
  ASSUME NEW arch, ArchOK(arch), NEW id \in Nat \ {0}
  PROVE  LET made == ArchCreate(arch, id)
         IN  made.slot \in Nat /\ Added(arch, made.arch, made.slot, id)
<1> DEFINE ready == ChunkForNewEntity(arch)
           chunk == ChunkCreate(Chosen(ready), id)
<1>1. Ready(arch, ready.arch, ready.slot) /\ ready.slot \in Nat
  BY ChunkForNewEntityReady
<1>2. ArchCreate(arch, id) = Into(ready, chunk)
  BY DEF ArchCreate
<1> HIDE DEF ready
<1>3. IsChunk(Chosen(ready), arch.types) /\ arch.types \in SUBSET Types
  BY <1>1, ChosenType
<1>4. IsChunk(chunk, arch.types) /\ IdAdded(Chosen(ready), chunk, id)
  BY <1>3, ChunkCreateType
<1> HIDE DEF chunk
<1> QED
  BY <1>1, <1>2, <1>4, IntoAdded

\* Archetype::allocateEntity
LEMMA ArchAllocateAdded ==
  ASSUME NEW arch, ArchOK(arch), NEW id \in Nat \ {0},
         NEW values \in [arch.types -> Value]
  PROVE  LET made == ArchAllocate(arch, id, values)
         IN  made.slot \in Nat /\ Added(arch, made.arch, made.slot, id)
<1> DEFINE data  == [t \in SharedTypes(arch.types) |-> values[t]]
           ready == ChunkWithShared(arch, data)
           chunk == ChunkAllocate(Chosen(ready), id, values)
<1>1. \A t \in DOMAIN data : data[t] \in Value
  BY DEF SharedTypes
<1>2. ArchAllocate(arch, id, values) = Into(ready, chunk)
  BY DEF ArchAllocate, SharedComponentDataList
<1> HIDE DEF data
<1>3. Ready(arch, ready.arch, ready.slot) /\ ready.slot \in Nat
  BY <1>1, ChunkWithSharedReady
<1> HIDE DEF ready
<1>4. IsChunk(Chosen(ready), arch.types) /\ arch.types \in SUBSET Types
  BY <1>3, ChosenType
<1>5. IsChunk(chunk, arch.types) /\ IdAdded(Chosen(ready), chunk, id)
  BY <1>4, ChunkAllocateType
<1> HIDE DEF chunk
<1> QED
  BY <1>2, <1>3, <1>5, IntoAdded

\* Archetype::moveFromEntity
LEMMA ArchMoveInAdded ==
  ASSUME NEW arch, ArchOK(arch), NEW us \in SUBSET Types,
         NEW source, IsChunk(source, us), NEW i \in DOMAIN source.ids
  PROVE  LET made == ArchMoveIn(arch, source, i)
         IN  made.slot \in Nat /\ Added(arch, made.arch, made.slot, source.ids[i])
<1> DEFINE ready == ChunkForMovedEntity(arch, source)
           chunk == ChunkMoveIn(Chosen(ready), source, i)
           id    == source.ids[i]
<1>1. /\ source.shared \in [SharedTypes(us) -> Value]
      /\ source.ids \in Seq(Nat \ {0})
      /\ DOMAIN source.ids = 1 .. Len(source.ids)
  BY ChunkFields
<1>2. \A t \in DOMAIN source.shared : source.shared[t] \in Value
  BY <1>1
<1>3. Ready(arch, ready.arch, ready.slot) /\ ready.slot \in Nat
  BY <1>2, ChunkForMovedEntityReady
<1>4. ArchMoveIn(arch, source, i) = Into(ready, chunk)
  BY DEF ArchMoveIn
<1>5. id \in Nat \ {0}
  BY <1>1, ElementOfSeq
<1> HIDE DEF ready
<1>6. IsChunk(Chosen(ready), arch.types) /\ arch.types \in SUBSET Types
  BY <1>3, ChosenType
<1>7. IsChunk(chunk, arch.types) /\ IdAdded(Chosen(ready), chunk, id)
  <2>1. id = source.ids[i]
    OBVIOUS
  <2> HIDE DEF id
  <2> QED
    BY <1>6, <2>1, ChunkMoveInType
<1> HIDE DEF chunk, id
<1>8. LET into == Into(ready, chunk)
      IN  into.slot \in Nat /\ Added(arch, into.arch, into.slot, id)
  BY <1>3, <1>5, <1>7, IntoAdded
<1> QED
  BY <1>4, <1>8 DEF id

\* Archetype::deleteEntity
LEMMA ArchDeleteRemoved ==
  ASSUME NEW arch, ArchOK(arch), NEW c \in Nat, NEW i \in DOMAIN ChunkIds(arch, c)
  PROVE  Removed(arch, ArchDelete(arch, c, i), c, i)
<1> DEFINE old   == arch.chunks[c]
           chunk == ChunkDelete(old, i)
           freed == FreeSlotAt(arch.chunks, c)
           new   == ArchDelete(arch, c, i)
<1>1. DOMAIN << >> = {}
  BY EmptySeq, SeqIsSequence, SequenceType
<1>2. Occupied(arch.chunks, c)
  BY <1>1 DEF ChunkIds
<1>3. /\ arch = [types |-> arch.types, chunks |-> arch.chunks, filled |-> arch.filled]
      /\ arch.types \in SUBSET Types
      /\ arch.filled \in Nat
      /\ IsSequence(arch.chunks)
      /\ c \in DOMAIN arch.chunks
      /\ IsChunk(old, arch.types)
      /\ Len(old.ids) <= Capacity[arch.types]
      /\ ChunkIds(arch, c) = old.ids
  BY <1>2, ArchetypeFields DEF Occupied
<1>4. IsChunk(chunk, arch.types) /\ chunk.ids = SwapDrop(old.ids, i)
  <2>1. i \in DOMAIN old.ids
    BY <1>3
  <2> HIDE DEF old
  <2> QED
    BY <1>3, <2>1, ChunkDeleteType
<1>5. CASE chunk.ids = << >>
  <2>1. new = [types |-> arch.types, chunks |-> freed, filled |-> arch.filled]
    BY <1>3, <1>5 DEF ArchDelete
  <2>2. /\ IsSequence(freed)
        /\ Trimmed(freed)
        /\ \A j \in Nat : Occupied(freed, j) <=> Occupied(arch.chunks, j) /\ j # c
        /\ \A j \in Nat : Occupied(freed, j) => freed[j] = arch.chunks[j]
    BY <1>3, FreeSlotAtType
  <2> HIDE DEF freed, new, chunk
  <2>3. new.types = arch.types /\ new.chunks = freed /\ new.filled = arch.filled
    BY <2>1
  <2>4. ASSUME NEW d \in DOMAIN freed, freed[d] # Null
        PROVE  /\ IsChunk(freed[d], arch.types)
               /\ Len(freed[d].ids) <= Capacity[arch.types]
    <3>1. d \in Nat
      BY <2>2, SequenceType
    <3>2. Occupied(arch.chunks, d) /\ freed[d] = arch.chunks[d]
      BY <2>2, <2>4, <3>1 DEF Occupied
    <3> QED
      BY <3>2, ArchetypeFields
  <2>5. IsArchetype(new)
    BY <1>3, <2>1, <2>2, <2>3, <2>4 DEF IsArchetype
  <2>6. ArchOK(new)
    BY <2>2, <2>3, <2>4, <2>5 DEF ArchOK
  <2>7. \A d \in Nat : d # c => ChunkIds(new, d) = ChunkIds(arch, d)
    BY <2>2, <2>3 DEF ChunkIds
  <2>8. ChunkIds(new, c) = << >>
    BY <2>2, <2>3 DEF ChunkIds
  <2> QED
    BY <1>3, <1>4, <1>5, <2>3, <2>6, <2>7, <2>8 DEF Removed, new
<1>6. CASE chunk.ids # << >>
  <2>1. new = WithChunk(arch, c, chunk)
    BY <1>6 DEF ArchDelete
  <2>2. /\ Len(old.ids) \in Nat /\ old.ids \in Seq(Nat \ {0})
        /\ Capacity[arch.types] \in Nat
    BY <1>3, ChunkFields, DefaultAndRoom
  <2>3. Len(chunk.ids) = Len(old.ids) - 1
    BY <1>3, <1>4, <2>2, SwapDropType
  <2>4. Len(chunk.ids) <= Capacity[arch.types]
    BY <1>3, <2>2, <2>3
  <2> HIDE DEF chunk, new
  <2>5. /\ ArchOK(new)
        /\ new.types = arch.types
        /\ ChunkIds(new, c) = chunk.ids
        /\ \A d \in Nat : d # c => ChunkIds(new, d) = ChunkIds(arch, d)
    BY <1>2, <1>4, <2>1, <2>4, ArchReplace
  <2> QED
    BY <1>3, <1>4, <2>5 DEF Removed, new
<1> QED
  BY <1>5, <1>6

\* Archetype::setSharedComponent: the entity moves from slot c to another one.
LEMMA ArchSetSharedMoves ==
  ASSUME NEW arch, ArchOK(arch), NEW c \in Nat, NEW i \in DOMAIN ChunkIds(arch, c),
         NEW t \in SharedTypes(arch.types), NEW v \in Value,
         arch.chunks[c].shared[t] # v
  PROVE  LET set == ArchSetShared(arch, c, i, t, v)
             id  == ChunkIds(arch, c)[i]
         IN  /\ ArchOK(set.arch)
             /\ set.arch.types = arch.types
             /\ set.slot \in Nat
             /\ set.slot # c
             /\ ChunkIds(set.arch, set.slot) = IdsWith(ChunkIds(arch, set.slot), id)
             /\ ChunkIds(set.arch, c) = SwapDrop(ChunkIds(arch, c), i)
             /\ \A d \in Nat : d # c /\ d # set.slot => ChunkIds(set.arch, d) = ChunkIds(arch, d)
<1> DEFINE source == arch.chunks[c]
           wanted == [source.shared EXCEPT ![t] = v]
           found  == FirstFitting(arch, wanted)
           slot   == IF found # 0 THEN found ELSE Len(arch.chunks) + 1
           target == IF found # 0 THEN arch.chunks[found] ELSE ChunkWith(arch, wanted)
           chunk  == ChunkMoveIn(target, source, i)
           moved  == [types |-> arch.types, chunks |-> PutSlot(arch.chunks, slot, chunk),
                      filled |-> arch.filled]
           id     == source.ids[i]
           set    == ArchSetShared(arch, c, i, t, v)
<1>1. DOMAIN << >> = {}
  BY EmptySeq, SeqIsSequence, SequenceType
<1>2. Occupied(arch.chunks, c)
  BY <1>1 DEF ChunkIds
<1>3. /\ arch = [types |-> arch.types, chunks |-> arch.chunks, filled |-> arch.filled]
      /\ arch.types \in SUBSET Types
      /\ arch.filled \in Nat
      /\ IsSequence(arch.chunks)
      /\ c \in 1 .. Len(arch.chunks)
      /\ IsChunk(source, arch.types)
      /\ ChunkIds(arch, c) = source.ids
  BY <1>2, ArchetypeFields
<1>4. Len(arch.chunks) \in Nat /\ DOMAIN arch.chunks = 1 .. Len(arch.chunks)
  BY <1>3, SequenceType
<1>5. source.shared \in [SharedTypes(arch.types) -> Value] /\ i \in DOMAIN source.ids
  <2> HIDE DEF source
  <2> QED
    BY <1>3, ChunkFields
<1>6. wanted \in [SharedTypes(arch.types) -> Value] /\ wanted[t] = v
  BY <1>5
<1>7. /\ slot \in 1 .. Len(arch.chunks) + 1
      /\ slot # c
      /\ IsChunk(target, arch.types)
      /\ target.ids = ChunkIds(arch, slot)
      /\ Len(target.ids) < Capacity[arch.types]
  <2>1. CASE found # 0
    <3>1. /\ found \in Nat
          /\ HasRoom(arch, found)
          /\ SharedMatch(arch.chunks[found], wanted)
      <4> HIDE DEF wanted
      <4> QED
        BY <2>1, FirstFittingHasRoom
    <3>2. slot = found /\ target = arch.chunks[found]
      BY <2>1
    <3> HIDE DEF found, slot, target, wanted
    <3>3. /\ slot \in 1 .. Len(arch.chunks)
          /\ IsChunk(target, arch.types)
          /\ target.ids = ChunkIds(arch, slot)
      BY <3>1, <3>2, ArchetypeFields DEF HasRoom
    <3>4. slot # c
      <4>1. SUFFICES ASSUME slot = c PROVE FALSE
        OBVIOUS
      <4>2. SharedMatch(source, wanted)
        BY <3>1, <3>2, <4>1
      <4> HIDE DEF source
      <4>3. source.shared[t] = wanted[t]
        BY <1>5, <1>6, <4>2 DEF SharedMatch
      <4> QED
        BY <1>6, <4>3 DEF source
    <3> QED
      BY <1>4, <3>1, <3>2, <3>3, <3>4 DEF HasRoom
  <2>2. CASE found = 0
    <3>1. slot = Len(arch.chunks) + 1 /\ target = ChunkWith(arch, wanted)
      BY <2>2
    <3> HIDE DEF found, slot, target
    <3>2. IsChunk(target, arch.types) /\ target.ids = << >>
      <4>1. \A u \in DOMAIN wanted : wanted[u] \in Value
        BY <1>6
      <4> HIDE DEF wanted
      <4> QED
        BY <3>1, <4>1, ChunkWithType
    <3>3. ChunkIds(arch, slot) = << >>
      BY <1>4, <3>1 DEF ChunkIds, Occupied
    <3>4. Len(target.ids) = 0 /\ Capacity[arch.types] > 0
      BY <1>3, <3>2, EmptySeq, DefaultAndRoom
    <3> QED
      BY <1>3, <1>4, <3>1, <3>2, <3>3, <3>4
  <2> QED
    BY <2>1, <2>2
<1>8. set = [arch |-> ArchDelete(moved, c, i), slot |-> slot]
  <2>1. [arch EXCEPT !.chunks = PutSlot(@, slot, chunk)] = moved
    BY <1>3
  <2> QED
    BY <2>1 DEF ArchSetShared
<1>9. moved.types = arch.types /\ moved.chunks = PutSlot(arch.chunks, slot, chunk)
  OBVIOUS
<1> HIDE DEF source, wanted, found, slot, target, set
<1>10. IsChunk(chunk, arch.types) /\ IdAdded(target, chunk, id)
  <2>1. id = source.ids[i]
    OBVIOUS
  <2> HIDE DEF id
  <2> QED
    BY <1>3, <1>5, <1>7, <2>1, ChunkMoveInType
<1>11. Len(chunk.ids) <= Capacity[arch.types]
  <2>1. /\ target.ids \in Seq(Nat \ {0})
        /\ Len(target.ids) \in Nat
        /\ source.ids \in Seq(Nat \ {0})
        /\ DOMAIN source.ids = 1 .. Len(source.ids)
    BY <1>3, <1>7, ChunkFields
  <2>2. id \in Nat \ {0}
    BY <1>5, <2>1, ElementOfSeq
  <2> HIDE DEF chunk, id
  <2>3. Len(chunk.ids) = Len(target.ids) + 1
    <3> DEFINE ids == target.ids
    <3>1. chunk.ids = IdsWith(ids, id)
      BY <1>10 DEF IdAdded
    <3>2. ids \in Seq(Nat \ {0})
      BY <2>1
    <3> HIDE DEF ids
    <3>3. Len(IdsWith(ids, id)) = Len(ids) + 1
      BY <2>2, <3>2, IdsWithType
    <3> QED
      BY <3>1, <3>3 DEF ids
  <2>4. Capacity[arch.types] \in Nat
    BY <1>3, DefaultAndRoom
  <2> QED
    BY <1>7, <2>1, <2>3, <2>4
<1> HIDE DEF chunk
<1>12. /\ ArchOK(moved)
       /\ ChunkIds(moved, slot) = chunk.ids
       /\ \A d \in Nat : d # slot => ChunkIds(moved, d) = ChunkIds(arch, d)
  BY <1>3, <1>7, <1>10, <1>11, ArchPut
<1> HIDE DEF moved, id
<1>13. ChunkIds(moved, c) = ChunkIds(arch, c)
  BY <1>7, <1>12
<1>14. Removed(moved, ArchDelete(moved, c, i), c, i)
  BY <1>12, <1>13, ArchDeleteRemoved
<1>15. slot \in Nat
  BY <1>4, <1>7
<1>16. /\ ArchOK(set.arch)
       /\ set.arch.types = arch.types
       /\ set.slot = slot
       /\ ChunkIds(set.arch, c) = SwapDrop(ChunkIds(arch, c), i)
       /\ ChunkIds(set.arch, slot) = IdsWith(ChunkIds(arch, slot), id)
       /\ \A d \in Nat : d # c /\ d # slot => ChunkIds(set.arch, d) = ChunkIds(arch, d)
  BY <1>7, <1>8, <1>9, <1>10, <1>12, <1>13, <1>14, <1>15 DEF Removed, moved, IdAdded
<1>17. id = ChunkIds(arch, c)[i]
  BY <1>3 DEF id
<1> QED
  BY <1>7, <1>15, <1>16, <1>17 DEF set

-----------------------------------------------------------------------------
CellIndex == Nat \X Nat

\* The cell of a place, and the place of a position in a cell.
Cell(ix) == <<ix.arch, ix.chunk>>

PlaceIn(p, e) == [arch |-> p[1], chunk |-> p[2], elem |-> e]

\* The map and the cells agree: Exact, in terms of cells.
ExactCells(cells, map) ==
  /\ cells \in [CellIndex -> Seq(Nat \ {0})]
  /\ map \in [DOMAIN map -> Places]
  /\ \A id \in DOMAIN map :
       /\ map[id].elem \in DOMAIN cells[Cell(map[id])]
       /\ cells[Cell(map[id])][map[id].elem] = id
  /\ \A p \in CellIndex : \A e \in DOMAIN cells[p] :
       /\ cells[p][e] \in DOMAIN map
       /\ map[cells[p][e]] = PlaceIn(p, e)

\* The cell and the position of a place built by PlaceIn.
LEMMA PlaceParts ==
  /\ \A ix \in Places : /\ Cell(ix) \in CellIndex
                        /\ ix.elem \in Nat
                        /\ PlaceIn(Cell(ix), ix.elem) = ix
  /\ \A p \in CellIndex, e \in Nat : /\ PlaceIn(p, e) \in Places
                                     /\ Cell(PlaceIn(p, e)) = p
                                     /\ PlaceIn(p, e).elem = e
BY DEF Places, Cell, CellIndex, PlaceIn

\* What Indexed does to a map.
LEMMA IndexedType ==
  ASSUME NEW map, map \in [DOMAIN map -> Places], NEW id, NEW ix \in Places
  PROVE  /\ Indexed(map, id, ix) \in [DOMAIN Indexed(map, id, ix) -> Places]
         /\ \A i : i \in DOMAIN Indexed(map, id, ix) <=> i \in DOMAIN map \/ i = id
         /\ Indexed(map, id, ix)[id] = ix
         /\ \A i \in DOMAIN map : i # id => Indexed(map, id, ix)[i] = map[i]
BY DEF Indexed

\* What the removal of an id does to a map.
LEMMA ErasedType ==
  ASSUME NEW map, map \in [DOMAIN map -> Places], NEW id,
         NEW less, less = Erased(map, id)
  PROVE  /\ less \in [DOMAIN less -> Places]
         /\ \A i : i \in DOMAIN less <=> i \in DOMAIN map /\ i # id
         /\ \A i \in DOMAIN map : i # id => less[i] = map[i]
BY DEF Erased, Restrict

\* new has id at the end of cell p, and is cells otherwise.
CellAdded(cells, new, p, id) ==
  /\ new \in [CellIndex -> Seq(Nat \ {0})]
  /\ new[p] = IdsWith(cells[p], id)
  /\ \A q \in CellIndex : q # p => new[q] = cells[q]

\* new has lost position i of cell p, and is cells otherwise.
CellRemoved(cells, new, p, i) ==
  /\ new \in [CellIndex -> Seq(Nat \ {0})]
  /\ new[p] = SwapDrop(cells[p], i)
  /\ \A q \in CellIndex : q # p => new[q] = cells[q]

\* The map without id, the last id of its cell having taken its place.
MapWithout(cells, map, id) ==
  LET cell == cells[Cell(map[id])]
  IN  IF map[id].elem = Len(cell) THEN Erased(map, id)
      ELSE Indexed(Erased(map, id), cell[Len(cell)], map[id])

\* An id that is in no cell is added to one, and indexed there.
LEMMA AddedExact ==
  ASSUME NEW cells, NEW map, ExactCells(cells, map),
         NEW p \in CellIndex, NEW id \in Nat \ {0}, id \notin DOMAIN map,
         NEW new, CellAdded(cells, new, p, id)
  PROVE  ExactCells(new, Indexed(map, id, PlaceIn(p, Len(new[p]))))
<1> USE DEF CellAdded
<1> DEFINE len   == Len(cells[p])
           place == PlaceIn(p, Len(new[p]))
           left  == Indexed(map, id, place)
<1>1. /\ cells \in [CellIndex -> Seq(Nat \ {0})]
      /\ map \in [DOMAIN map -> Places]
      /\ \A i \in DOMAIN map : /\ map[i].elem \in DOMAIN cells[Cell(map[i])]
                               /\ cells[Cell(map[i])][map[i].elem] = i
      /\ \A q \in CellIndex : \A e \in DOMAIN cells[q] :
           cells[q][e] \in DOMAIN map /\ map[cells[q][e]] = PlaceIn(q, e)
  BY DEF ExactCells
<1>2. len \in Nat /\ DOMAIN cells[p] = 1 .. len
  BY <1>1, LenProperties
<1>3. /\ Len(new[p]) = len + 1 /\ DOMAIN new[p] = 1 .. len + 1
      /\ \A j \in 1 .. len : new[p][j] = cells[p][j]
      /\ new[p][len + 1] = id
  <2> DEFINE ids == cells[p]
  <2>1. ids \in Seq(Nat \ {0})
    BY <1>1
  <2> HIDE DEF ids
  <2>2. /\ IdsWith(ids, id) \in Seq(Nat \ {0})
        /\ Len(IdsWith(ids, id)) = Len(ids) + 1
        /\ \A j \in 1 .. Len(ids) : IdsWith(ids, id)[j] = ids[j]
        /\ IdsWith(ids, id)[Len(ids) + 1] = id
    BY <2>1, IdsWithType
  <2>3. DOMAIN IdsWith(ids, id) = 1 .. Len(ids) + 1
    BY <2>2, LenProperties
  <2> QED
    BY <2>2, <2>3 DEF ids
<1>4. place \in Places /\ Cell(place) = p /\ place.elem = len + 1
  BY <1>2, <1>3, PlaceParts
<1> HIDE DEF place
<1>m. map \in [DOMAIN map -> Places] /\ place \in Places
  BY <1>1, <1>4
<1>5. /\ left \in [DOMAIN left -> Places]
      /\ \A i : i \in DOMAIN left <=> i \in DOMAIN map \/ i = id
      /\ left[id] = place
      /\ \A i \in DOMAIN map : i # id => left[i] = map[i]
  BY <1>m, IndexedType
<1> HIDE DEF left
<1>6. ASSUME NEW i \in DOMAIN left
      PROVE  left[i].elem \in DOMAIN new[Cell(left[i])] /\ new[Cell(left[i])][left[i].elem] = i
  <2>1. CASE i = id
    BY <1>2, <1>3, <1>4, <1>5, <2>1
  <2>2. CASE i # id
    <3>1. i \in DOMAIN map /\ left[i] = map[i]
      BY <1>5, <2>2
    <3>2. Cell(map[i]) \in CellIndex
      BY <1>1, <3>1, PlaceParts
    <3>3. map[i].elem \in DOMAIN cells[Cell(map[i])] /\ cells[Cell(map[i])][map[i].elem] = i
      BY <1>1, <3>1
    <3>4. CASE Cell(map[i]) = p
      <4> DEFINE e == map[i].elem
      <4>1. e \in 1 .. len /\ cells[p][e] = i
        BY <1>2, <3>3, <3>4
      <4> HIDE DEF e, len
      <4>2. e \in DOMAIN new[p] /\ new[p][e] = i
        BY <1>2, <1>3, <4>1
      <4> QED
        BY <3>1, <3>4, <4>2 DEF e
    <3>5. CASE Cell(map[i]) # p
      BY <3>1, <3>2, <3>3, <3>5
    <3> QED
      BY <3>4, <3>5
  <2> QED
    BY <2>1, <2>2
<1>7. ASSUME NEW q \in CellIndex, NEW e \in DOMAIN new[q]
      PROVE  new[q][e] \in DOMAIN left /\ left[new[q][e]] = PlaceIn(q, e)
  <2>1. CASE q = p /\ e = len + 1
    BY <1>3, <1>5, <2>1 DEF place
  <2>2. CASE ~ (q = p /\ e = len + 1)
    <3>1. e \in DOMAIN cells[q] /\ new[q][e] = cells[q][e]
      <4>1. CASE q = p
        <5>1. e \in 1 .. len + 1 /\ e # len + 1
          BY <1>3, <2>2, <4>1
        <5>2. e \in 1 .. len
          BY ONLY <1>2, <5>1
        <5> QED
          BY <1>2, <1>3, <4>1, <5>2
      <4>2. CASE q # p
        BY <4>2
      <4> QED
        BY <4>1, <4>2
    <3>2. cells[q][e] \in DOMAIN map /\ map[cells[q][e]] = PlaceIn(q, e)
      BY <1>1, <3>1
    <3> QED
      BY <1>5, <3>1, <3>2
  <2> QED
    BY <2>1, <2>2
<1> QED
  BY <1>5, <1>6, <1>7 DEF ExactCells, left, place

\* An id is removed from its cell; the id that takes its position, if any, is
\* indexed there.
LEMMA RemovedExact ==
  ASSUME NEW cells, NEW map, ExactCells(cells, map), NEW id \in DOMAIN map,
         NEW new, CellRemoved(cells, new, Cell(map[id]), map[id].elem),
         NEW left, left = MapWithout(cells, map, id)
  PROVE  /\ ExactCells(new, left)
         /\ \A j : j \in DOMAIN left <=> j \in DOMAIN map /\ j # id
<1> SUFFICES ASSUME NEW p, p = Cell(map[id]), NEW i, i = map[id].elem,
                    NEW less, less = Erased(map, id)
             PROVE  /\ ExactCells(new, left)
                    /\ \A j : j \in DOMAIN left <=> j \in DOMAIN map /\ j # id
  OBVIOUS
<1>a. /\ new \in [CellIndex -> Seq(Nat \ {0})]
      /\ new[p] = SwapDrop(cells[p], i)
      /\ \A q \in CellIndex : q # p => new[q] = cells[q]
  BY DEF CellRemoved
<1>b. left = IF i = Len(cells[p]) THEN less
             ELSE Indexed(less, cells[p][Len(cells[p])], map[id])
  BY DEF MapWithout
<1> DEFINE ids  == cells[p]
           len  == Len(ids)
           last == ids[len]
<1>1. /\ cells \in [CellIndex -> Seq(Nat \ {0})]
      /\ map \in [DOMAIN map -> Places]
  BY DEF ExactCells
<1>2. \A j \in DOMAIN map : /\ map[j].elem \in DOMAIN cells[Cell(map[j])]
                            /\ cells[Cell(map[j])][map[j].elem] = j
  BY DEF ExactCells
<1>3. \A q \in CellIndex : \A e \in DOMAIN cells[q] :
        cells[q][e] \in DOMAIN map /\ map[cells[q][e]] = PlaceIn(q, e)
  BY DEF ExactCells
<1>4. map[id] \in Places /\ p \in CellIndex /\ PlaceIn(p, i) = map[id]
  BY <1>1, PlaceParts
<1>5. /\ ids \in Seq(Nat \ {0}) /\ len \in Nat /\ DOMAIN ids = 1 .. len
      /\ i \in 1 .. len /\ ids[i] = id
  BY <1>1, <1>2, <1>4, LenProperties
<1>6. /\ last \in DOMAIN map
      /\ map[last] = PlaceIn(p, len)
      /\ Cell(map[last]) = p
      /\ map[last].elem = len
  <2>1. len \in DOMAIN ids
    BY <1>5
  <2>2. last \in DOMAIN map /\ map[last] = PlaceIn(p, len)
    BY <1>3, <1>4, <2>1
  <2> QED
    BY <1>4, <1>5, <2>2, PlaceParts
<1>7. /\ new[p] \in Seq(Nat \ {0})
      /\ DOMAIN new[p] = 1 .. len - 1
      /\ \A j \in 1 .. len - 1 : new[p][j] = IF j = i THEN last ELSE ids[j]
  <2> DEFINE cell == new[p]
  <2>1. /\ cell = SwapDrop(ids, i) /\ i \in DOMAIN ids /\ ids \in Seq(Nat \ {0})
        /\ len = Len(ids) /\ last = ids[Len(ids)]
    BY <1>a, <1>5
  <2> HIDE DEF cell, ids, len, last
  <2>2. /\ cell \in Seq(Nat \ {0}) /\ Len(cell) = len - 1
        /\ \A j \in 1 .. len - 1 : cell[j] = IF j = i THEN last ELSE ids[j]
    BY ONLY <2>1, IdsSwapDropType
  <2>3. DOMAIN cell = 1 .. len - 1
    BY <2>2, LenProperties
  <2> QED
    BY <2>2, <2>3 DEF cell
<1>8. /\ less \in [DOMAIN less -> Places]
      /\ \A j : j \in DOMAIN less <=> j \in DOMAIN map /\ j # id
      /\ \A j \in DOMAIN map : j # id => less[j] = map[j]
  BY <1>1, ErasedType
<1>9. i # len => last # id
  BY <1>4, <1>5, <1>6, PlaceParts
<1> HIDE DEF len, last
<1>10. left = IF i = len THEN less ELSE Indexed(less, last, map[id])
  BY <1>b DEF len, last
<1>11. /\ left \in [DOMAIN left -> Places]
       /\ \A j : j \in DOMAIN left <=> j \in DOMAIN map /\ j # id
       /\ i # len => left[last] = map[id]
       /\ \A j \in DOMAIN map : j # id /\ (i = len \/ j # last) => left[j] = map[j]
  <2>1. CASE i = len
    BY <1>8, <1>10, <2>1
  <2>2. CASE i # len
    <3>1. left = Indexed(less, last, map[id])
      BY <1>10, <2>2
    <3> DEFINE ix == map[id]
    <3>2. less \in [DOMAIN less -> Places] /\ ix \in Places /\ left = Indexed(less, last, ix)
      BY <1>4, <1>8, <3>1
    <3> HIDE DEF ix
    <3>3. /\ left \in [DOMAIN left -> Places]
          /\ \A j : j \in DOMAIN left <=> j \in DOMAIN less \/ j = last
          /\ left[last] = ix
          /\ \A j \in DOMAIN less : j # last => left[j] = less[j]
      BY <3>2, IndexedType
    <3> QED
      BY <1>6, <1>8, <1>9, <2>2, <3>3 DEF ix
  <2> QED
    BY <2>1, <2>2
<1>12. ASSUME NEW j \in DOMAIN left
       PROVE  left[j].elem \in DOMAIN new[Cell(left[j])] /\ new[Cell(left[j])][left[j].elem] = j
  <2>1. j \in DOMAIN map /\ j # id
    BY <1>11
  <2>2. CASE i # len /\ j = last
    <3>1. left[j] = map[id] /\ Cell(left[j]) = p /\ left[j].elem = i
      BY <1>11, <2>2
    <3>2. i \in 1 .. len - 1
      BY <1>5, <2>2 DEF len
    <3> QED
      BY <1>7, <2>2, <3>1, <3>2
  <2>3. CASE i = len \/ j # last
    <3> DEFINE q == Cell(map[j])
               e == map[j].elem
    <3>1. left[j] = map[j]
      BY <1>11, <2>1, <2>3
    <3>2. q \in CellIndex /\ e \in DOMAIN cells[q] /\ cells[q][e] = j
      BY <1>1, <1>2, <2>1, PlaceParts
    <3> HIDE DEF q, e
    <3>3. e \in DOMAIN new[q] /\ new[q][e] = j
      <4>1. CASE q = p
        <5>1. e \in 1 .. len /\ ids[e] = j
          BY <1>5, <3>2, <4>1 DEF len
        <5>2. e # i
          BY <1>5, <2>1, <5>1
        <5>3. e # len
          BY <2>1, <2>3, <1>5, <5>1, <5>2 DEF last
        <5>4. len \in Nat
          BY <1>5 DEF len
        <5>5. e \in 1 .. len - 1
          BY <5>1, <5>3, <5>4
        <5> QED
          BY <1>7, <4>1, <5>1, <5>2, <5>5
      <4>2. CASE q # p
        BY <1>a, <3>2, <4>2
      <4> QED
        BY <4>1, <4>2
    <3> QED
      BY <3>1, <3>3 DEF q, e
  <2> QED
    BY <2>2, <2>3
<1>13. ASSUME NEW q \in CellIndex, NEW e \in DOMAIN new[q]
       PROVE  new[q][e] \in DOMAIN left /\ left[new[q][e]] = PlaceIn(q, e)
  <2>1. CASE q = p
    <3>1. e \in 1 .. len - 1 /\ new[p][e] = IF e = i THEN last ELSE ids[e]
      BY <1>7, <2>1
    <3>2. len \in Nat
      BY <1>5 DEF len
    <3>3. CASE e = i
      <4>1. i # len /\ new[q][e] = last
        BY <2>1, <3>1, <3>2, <3>3
      <4> QED
        BY <1>4, <1>6, <1>9, <1>11, <2>1, <3>3, <4>1 DEF last
    <3>4. CASE e # i
      <4> DEFINE j == ids[e]
      <4>1. new[q][e] = j /\ e \in DOMAIN ids
        BY <1>5, <2>1, <3>1, <3>2, <3>4 DEF len
      <4>2. j \in DOMAIN map /\ map[j] = PlaceIn(p, e) /\ map[j].elem = e
        BY <1>3, <1>4, <3>1, <3>2, <4>1, PlaceParts
      <4>3. j # id /\ j # last
        BY <1>6, <3>1, <3>2, <3>4, <4>2 DEF last, len
      <4> HIDE DEF j
      <4> QED
        BY <1>11, <2>1, <4>1, <4>2, <4>3
    <3> QED
      BY <3>3, <3>4
  <2>2. CASE q # p
    <3> DEFINE j == cells[q][e]
    <3>1. new[q][e] = j /\ e \in DOMAIN cells[q]
      BY <1>a, <2>2
    <3>2. j \in DOMAIN map /\ map[j] = PlaceIn(q, e)
      BY <1>3, <3>1
    <3>3. e \in Nat
      <4>1. cells[q] \in Seq(Nat \ {0})
        BY <1>1
      <4>2. DOMAIN cells[q] = 1 .. Len(cells[q])
        BY <4>1, LenProperties
      <4> QED
        BY <3>1, <4>2
    <3>4. Cell(map[j]) = q
      BY <3>2, <3>3, PlaceParts
    <3>5. j # id /\ j # last
      BY <1>6, <2>2, <3>4 DEF last
    <3> HIDE DEF j
    <3> QED
      BY <1>11, <3>1, <3>2, <3>5
  <2> QED
    BY <2>1, <2>2
<1>14. ExactCells(new, left)
  BY <1>a, <1>11, <1>12, <1>13 DEF ExactCells
<1> QED
  BY <1>11, <1>14

-----------------------------------------------------------------------------
\* The table of archetypes.

\* What holds of the archetypes between two operations.
TableOK(archs) ==
  /\ IsSequence(archs)
  /\ Trimmed(archs)
  /\ \A a : Occupied(archs, a) => ArchOK(archs[a]) /\ archs[a].chunks # << >>
  /\ \A a, b : /\ Occupied(archs, a)
               /\ Occupied(archs, b)
               /\ archs[a].types = archs[b].types
               => a = b

\* The ids in slot c of archetype a, none if there is no such slot.
IdsAt(archs, a, c) ==
  IF Occupied(archs, a) THEN ChunkIds(archs[a], c) ELSE << >>

Cells(archs) == [p \in CellIndex |-> IdsAt(archs, p[1], p[2])]

\* new has in slot b what archs has there.
SameSlot(archs, new, b) ==
  /\ Occupied(new, b) <=> Occupied(archs, b)
  /\ Occupied(archs, b) => new[b] = archs[b]

\* What an archetype in a well-formed table is.
LEMMA TableFields ==
  ASSUME NEW archs, TableOK(archs)
  PROVE  /\ IsSequence(archs)
         /\ Trimmed(archs)
         /\ \A a : Occupied(archs, a) =>
              /\ ArchOK(archs[a])
              /\ archs[a].chunks # << >>
              /\ archs[a].types \in SUBSET Types
              /\ a \in 1 .. Len(archs)
              /\ a \in Nat
         /\ \A a, b : /\ Occupied(archs, a)
                      /\ Occupied(archs, b)
                      /\ archs[a].types = archs[b].types
                      => a = b
<1>1. \A a : Occupied(archs, a) => /\ ArchOK(archs[a])
                                   /\ archs[a].chunks # << >>
                                   /\ archs[a].types \in SUBSET Types
  BY ArchetypeFields DEF TableOK
<1>2. \A a : Occupied(archs, a) => a \in 1 .. Len(archs) /\ a \in Nat
  <2>1. Len(archs) \in Nat /\ DOMAIN archs = 1 .. Len(archs)
    BY SequenceType DEF TableOK
  <2> QED
    BY <2>1 DEF Occupied
<1> QED
  BY <1>1, <1>2 DEF TableOK

\* An archetype is not an empty slot.
LEMMA ArchNotNull ==
  ASSUME NEW arch, ArchOK(arch)
  PROVE  arch # Null
BY NotNull DEF ArchOK

\* The ids of an archetype are lists of ids.
LEMMA ChunkIdsType ==
  ASSUME NEW arch, ArchOK(arch), NEW c
  PROVE  ChunkIds(arch, c) \in Seq(Nat \ {0})
<1>1. CASE Occupied(arch.chunks, c)
  <2>1. /\ arch.types \in SUBSET Types
        /\ IsChunk(arch.chunks[c], arch.types)
        /\ ChunkIds(arch, c) = arch.chunks[c].ids
    BY <1>1, ArchetypeFields
  <2> QED
    BY <2>1, ChunkFields
<1>2. CASE ~ Occupied(arch.chunks, c)
  BY <1>2, EmptySeq DEF ChunkIds
<1> QED
  BY <1>1, <1>2

\* The cells of a well-formed table hold sequences of ids.
LEMMA CellsType ==
  ASSUME NEW archs, TableOK(archs)
  PROVE  /\ Cells(archs) \in [CellIndex -> Seq(Nat \ {0})]
         /\ \A a, c \in Nat : Cells(archs)[<<a, c>>] = IdsAt(archs, a, c)
         /\ \A p \in CellIndex : Cells(archs)[p] = IdsAt(archs, p[1], p[2])
<1>1. \A a, c : IdsAt(archs, a, c) \in Seq(Nat \ {0})
  BY TableFields, ChunkIdsType, EmptySeq DEF IdsAt
<1>2. \A p \in CellIndex : Cells(archs)[p] = IdsAt(archs, p[1], p[2])
  BY DEF Cells
<1>3. \A a, c \in Nat : <<a, c>> \in CellIndex
  BY DEF CellIndex
<1>4. Cells(archs) \in [CellIndex -> Seq(Nat \ {0})]
  BY <1>1 DEF Cells
<1> QED
  BY <1>2, <1>3, <1>4

\* Where the search for an archetype ends.
LEMMA ArchetypeSlotType ==
  ASSUME NEW archs, TableOK(archs), NEW ts, NEW a, a = ArchetypeSlot(archs, ts)
  PROVE  /\ a \in 1 .. Len(archs) + 1
         /\ a \in Nat
         /\ Occupied(archs, a) => archs[a].types = ts
         /\ ~ Occupied(archs, a) => \A b : Occupied(archs, b) => archs[b].types # ts
<1> DEFINE same == {b \in DOMAIN archs : archs[b] # Null /\ archs[b].types = ts}
<1>1. Len(archs) \in Nat /\ DOMAIN archs = 1 .. Len(archs) /\ IsSequence(archs)
  BY TableFields, SequenceType
<1>2. CASE same = {}
  <2>1. a = FreeSlot(archs)
    BY <1>2 DEF ArchetypeSlot
  <2>2. a \in 1 .. Len(archs) + 1 /\ ~ Occupied(archs, a)
    BY <1>1, <2>1, FreeSlotType
  <2>3. \A b : Occupied(archs, b) => archs[b].types # ts
    BY <1>2 DEF Occupied
  <2> HIDE DEF same
  <2> QED
    BY <1>1, <2>2, <2>3
<1>3. CASE same # {}
  <2>1. a = Min(same)
    BY <1>3 DEF ArchetypeSlot
  <2>2. same \subseteq Nat
    BY <1>1
  <2>3. a \in same
    <3> HIDE DEF same
    <3> QED
      BY <1>3, <2>1, <2>2, MinOfNats
  <2>4. a \in 1 .. Len(archs) /\ archs[a] # Null /\ archs[a].types = ts
    BY <1>1, <2>3
  <2> HIDE DEF same
  <2> QED
    BY <1>1, <2>4 DEF Occupied
<1> QED
  BY <1>2, <1>3

\* An archetype put into a slot: its types are those of no other archetype.
LEMMA TableChanged ==
  ASSUME NEW archs, TableOK(archs), NEW a,
         NEW arch, ArchOK(arch), arch.chunks # << >>,
         \A b : Occupied(archs, b) /\ archs[b].types = arch.types => b = a,
         NEW new, IsSequence(new), Trimmed(new), Occupied(new, a), new[a] = arch,
         \A b : b # a => SameSlot(archs, new, b)
  PROVE  TableOK(new)
<1>1. \A b : Occupied(new, b) => ArchOK(new[b]) /\ new[b].chunks # << >>
  BY DEF TableOK, SameSlot
<1>2. ASSUME NEW b, NEW c, Occupied(new, b), Occupied(new, c), new[b].types = new[c].types
      PROVE  b = c
  <2>1. CASE b = a
    BY <1>2, <2>1 DEF SameSlot
  <2>2. CASE c = a
    BY <1>2, <2>2 DEF SameSlot
  <2>3. CASE b # a /\ c # a
    BY <1>2, <2>3 DEF TableOK, SameSlot
  <2> QED
    BY <2>1, <2>2, <2>3
<1> QED
  BY <1>1, <1>2 DEF TableOK

\* A table stays well formed when the only archetype with its types is put
\* into slot a; all other slots stay as they are.
LEMMA TablePut ==
  ASSUME NEW archs, TableOK(archs), NEW a \in 1 .. Len(archs) + 1,
         NEW arch, ArchOK(arch), arch.chunks # << >>,
         \A b : Occupied(archs, b) /\ archs[b].types = arch.types => b = a,
         NEW new, new = PutSlot(archs, a, arch)
  PROVE  /\ TableOK(new)
         /\ Occupied(new, a)
         /\ new[a] = arch
         /\ \A b : b # a => SameSlot(archs, new, b)
<1>1. arch # Null
  BY ArchNotNull
<1>2. /\ IsSequence(new)
      /\ Trimmed(new)
      /\ \A b : b \in DOMAIN new <=> b \in DOMAIN archs \/ b = a
      /\ new[a] = arch
      /\ \A b \in DOMAIN archs : b # a => new[b] = archs[b]
  <2>1. IsSequence(archs) /\ Trimmed(archs)
    BY TableFields
  <2> QED
    BY <1>1, <2>1, PutSlotType
<1>3. Occupied(new, a)
  BY <1>1, <1>2 DEF Occupied
<1>4. \A b : b # a => SameSlot(archs, new, b)
  BY <1>2 DEF Occupied, SameSlot
<1>5. TableOK(new)
  BY <1>2, <1>3, <1>4, TableChanged
<1> QED
  BY <1>2, <1>3, <1>4, <1>5

\* An archetype replaced by one with the same types.
LEMMA TableReplaced ==
  ASSUME NEW archs, TableOK(archs), NEW a, Occupied(archs, a),
         NEW arch, ArchOK(arch), arch.chunks # << >>, arch.types = archs[a].types,
         NEW new, new = Stored(archs, a, arch)
  PROVE  /\ TableOK(new)
         /\ Occupied(new, a)
         /\ new[a] = arch
         /\ \A b : b # a => SameSlot(archs, new, b)
<1>1. a \in DOMAIN archs /\ a \in 1 .. Len(archs)
  BY TableFields DEF Occupied
<1>2. new = PutSlot(archs, a, arch)
  BY <1>1 DEF PutSlot, Stored
<1>3. a \in 1 .. Len(archs) + 1
  <2>1. Len(archs) \in Nat
    BY TableFields, SequenceType
  <2> QED
    BY <1>1, <2>1
<1>4. \A b : Occupied(archs, b) /\ archs[b].types = arch.types => b = a
  BY TableFields
<1> QED
  BY <1>2, <1>3, <1>4, TablePut

\* An archetype dropped.
LEMMA TableFreed ==
  ASSUME NEW archs, TableOK(archs), NEW a, Occupied(archs, a),
         NEW new, new = FreeSlotAt(archs, a)
  PROVE  /\ TableOK(new)
         /\ ~ Occupied(new, a)
         /\ \A b : b # a => SameSlot(archs, new, b)
<1>1. IsSequence(archs) /\ a \in DOMAIN archs /\ a \in Nat
  BY TableFields DEF Occupied
<1>2. /\ IsSequence(new)
      /\ Trimmed(new)
      /\ \A b \in Nat : Occupied(new, b) <=> Occupied(archs, b) /\ b # a
      /\ \A b \in Nat : Occupied(new, b) => new[b] = archs[b]
  BY <1>1, FreeSlotAtType
<1>3. \A b : Occupied(new, b) \/ Occupied(archs, b) => b \in Nat
  <2>1. \A b \in DOMAIN new : b \in Nat
    BY <1>2, SequenceType
  <2>2. \A b \in DOMAIN archs : b \in Nat
    BY <1>1, SequenceType
  <2> QED
    BY <2>1, <2>2 DEF Occupied
<1>4. \A b : b # a => SameSlot(archs, new, b)
  BY <1>2, <1>3 DEF SameSlot
<1>5. ~ Occupied(new, a)
  BY <1>1, <1>2
<1>6. TableOK(new)
  <2>1. \A b : Occupied(new, b) => b # a /\ Occupied(archs, b) /\ new[b] = archs[b]
    BY <1>4, <1>5 DEF SameSlot
  <2>2. \A b : Occupied(new, b) => ArchOK(new[b]) /\ new[b].chunks # << >>
    BY <2>1 DEF TableOK
  <2>3. \A b, c : /\ Occupied(new, b)
                  /\ Occupied(new, c)
                  /\ new[b].types = new[c].types
                  => b = c
    BY <2>1 DEF TableOK
  <2> QED
    BY <1>2, <2>2, <2>3 DEF TableOK
<1> QED
  BY <1>4, <1>5, <1>6

\* The archetype for a set of types, found or made.
LEMMA WithArchetypeType ==
  ASSUME NEW archs, TableOK(archs), NEW ts \in SUBSET Types,
         NEW a, a = ArchetypeSlot(archs, ts), NEW with, with = WithArchetype(archs, ts)
  PROVE  /\ ArchOK(with[a])
         /\ with[a].types = ts
         /\ \A c \in Nat : ChunkIds(with[a], c) = IdsAt(archs, a, c)
<1>1. /\ a \in 1 .. Len(archs) + 1
      /\ Occupied(archs, a) => archs[a].types = ts
  BY ArchetypeSlotType
<1>2. CASE Occupied(archs, a)
  <2>1. with = archs
    BY <1>2 DEF WithArchetype
  <2> QED
    BY <1>1, <1>2, <2>1, TableFields DEF IdsAt
<1>3. CASE ~ Occupied(archs, a)
  <2>1. with = PutSlot(archs, a, NewArchetype(ts))
    BY <1>3 DEF WithArchetype
  <2>2. with[a] = NewArchetype(ts)
    <3>1. IsSequence(archs)
      BY TableFields
    <3> QED
      BY <1>1, <2>1, <3>1, PutSlotType
  <2> QED
    BY <1>3, <2>2, NewArchetypeOK DEF IdsAt
<1> QED
  BY <1>2, <1>3

\* That archetype replaced by one that holds something.
LEMMA WithArchetypePut ==
  ASSUME NEW archs, TableOK(archs), NEW ts \in SUBSET Types,
         NEW a, a = ArchetypeSlot(archs, ts), NEW with, with = WithArchetype(archs, ts),
         NEW arch, ArchOK(arch), arch.types = ts, arch.chunks # << >>,
         NEW new, new = Stored(with, a, arch)
  PROVE  /\ TableOK(new)
         /\ Occupied(new, a)
         /\ new[a] = arch
         /\ \A b : b # a => SameSlot(archs, new, b)
<1>1. /\ a \in 1 .. Len(archs) + 1
      /\ Occupied(archs, a) => archs[a].types = ts
      /\ ~ Occupied(archs, a) => \A b : Occupied(archs, b) => archs[b].types # ts
  BY ArchetypeSlotType
<1>2. CASE Occupied(archs, a)
  <2>1. new = PutSlot(archs, a, arch)
    BY <1>2 DEF WithArchetype, PutSlot, Occupied, Stored
  <2>2. \A b : Occupied(archs, b) /\ archs[b].types = arch.types => b = a
    BY <1>1, <1>2, TableFields
  <2>3. a \in 1 .. Len(archs) + 1
    BY <1>1
  <2> QED
    BY <2>1, <2>2, <2>3, TablePut
<1>3. CASE ~ Occupied(archs, a)
  <2> DEFINE empty == NewArchetype(ts)
  <2>1. IsSequence(archs) /\ Trimmed(archs) /\ empty # Null /\ arch # Null
    BY TableFields, NewArchetypeOK, ArchNotNull
  <2>2. with = PutSlot(archs, a, empty)
    BY <1>3 DEF WithArchetype
  <2> HIDE DEF empty
  <2>3. /\ IsSequence(with)
        /\ Trimmed(with)
        /\ \A b : b \in DOMAIN with <=> b \in DOMAIN archs \/ b = a
        /\ \A b \in DOMAIN archs : b # a => with[b] = archs[b]
    BY <1>1, <2>1, <2>2, PutSlotType
  <2>4. new = PutSlot(with, a, arch)
    BY <2>3 DEF PutSlot, Stored
  <2>5. a \in 1 .. Len(with) + 1
    BY <2>3, SequenceType
  <2>6. /\ IsSequence(new)
        /\ Trimmed(new)
        /\ \A b : b \in DOMAIN new <=> b \in DOMAIN with \/ b = a
        /\ new[a] = arch
        /\ \A b \in DOMAIN with : b # a => new[b] = with[b]
    <3>1. IsSequence(with) /\ Trimmed(with) /\ arch # Null
      BY <2>1, <2>3
    <3> QED
      BY <2>4, <2>5, <3>1, PutSlotType
  <2>7. Occupied(new, a)
    BY <2>1, <2>6 DEF Occupied
  <2>8. \A b : b # a => SameSlot(archs, new, b)
    BY <2>3, <2>6 DEF Occupied, SameSlot
  <2>9. \A b : Occupied(archs, b) /\ archs[b].types = arch.types => b = a
    BY <1>1, <1>3
  <2>10. TableOK(new)
    BY <2>6, <2>7, <2>8, <2>9, TableChanged
  <2> QED
    BY <2>6, <2>7, <2>8, <2>10
<1> QED
  BY <1>2, <1>3

-----------------------------------------------------------------------------
\* The operations of the store.

\* What every operation keeps of a store.
StoreOK(s) == TableOK(s.archetypes) /\ ExactCells(Cells(s.archetypes), s.map)

\* The store built from archs and map has these as its fields.
LEMMA StoreParts ==
  ASSUME NEW archs, NEW map
  PROVE  StoreOf(archs, map).archetypes = archs /\ StoreOf(archs, map).map = map
BY DEF StoreOf

\* The ids of a chunk, by themselves.
SlotIds(arch, c) == arch.chunks[c].ids

\* Only slot a may differ.
SameElse(archs, new, a) == \A b : b # a => SameSlot(archs, new, b)

-----------------------------------------------------------------------------
\* The check of setEntityIndexMap, in terms of cells.
LEMMA IsAtCells ==
  ASSUME NEW archs, TableOK(archs), NEW ix \in Places, NEW id
  PROVE  IsAt(archs, id, ix) <=> /\ id # 0
                                 /\ ix.elem \in DOMAIN Cells(archs)[Cell(ix)]
                                 /\ Cells(archs)[Cell(ix)][ix.elem] = id
<1>1. ix.arch \in Nat /\ ix.chunk \in Nat /\ Cell(ix) = <<ix.arch, ix.chunk>>
  BY DEF Places, Cell
<1>2. Cells(archs)[Cell(ix)] = IdsAt(archs, ix.arch, ix.chunk)
  BY <1>1, CellsType
<1>3. DOMAIN << >> = {}
  OBVIOUS
<1>4. CASE Occupied(archs, ix.arch) /\ Occupied(archs[ix.arch].chunks, ix.chunk)
  <2>1. Cells(archs)[Cell(ix)] = archs[ix.arch].chunks[ix.chunk].ids
    BY <1>2, <1>4 DEF IdsAt, ChunkIds
  <2> QED
    BY <1>4, <2>1 DEF IsAt
<1>5. CASE ~ (Occupied(archs, ix.arch) /\ Occupied(archs[ix.arch].chunks, ix.chunk))
  <2>1. Cells(archs)[Cell(ix)] = << >>
    BY <1>2, <1>5 DEF IdsAt, ChunkIds
  <2> QED
    BY <1>3, <1>5, <2>1 DEF IsAt
<1> QED
  BY <1>4, <1>5

\* A change of one archetype leaves the cells of the others alone.
LEMMA OtherCells ==
  ASSUME NEW archs, TableOK(archs), NEW new, TableOK(new), NEW a \in Nat,
         SameElse(archs, new, a)
  PROVE  \A p \in CellIndex : p[1] # a => Cells(new)[p] = Cells(archs)[p]
<1> SUFFICES ASSUME NEW p \in CellIndex, p[1] # a
             PROVE  IdsAt(new, p[1], p[2]) = IdsAt(archs, p[1], p[2])
  BY CellsType
<1> QED
  BY DEF SameElse, SameSlot, IdsAt

\* An id added to one slot of one archetype.
LEMMA AddedCells ==
  ASSUME NEW archs, TableOK(archs), NEW new, TableOK(new), NEW a \in Nat,
         SameElse(archs, new, a),
         NEW arch, \A c \in Nat : ChunkIds(arch, c) = IdsAt(archs, a, c),
         NEW slot \in Nat, NEW id, Occupied(new, a), Added(arch, new[a], slot, id)
  PROVE  /\ CellAdded(Cells(archs), Cells(new), <<a, slot>>, id)
         /\ Cells(new)[<<a, slot>>] = SlotIds(new[a], slot)
<1>1. \A c \in Nat : /\ Cells(new)[<<a, c>>] = ChunkIds(new[a], c)
                     /\ Cells(archs)[<<a, c>>] = ChunkIds(arch, c)
  BY CellsType DEF IdsAt
<1>2. ChunkIds(new[a], slot) = IdsWith(ChunkIds(arch, slot), id)
  BY DEF Added
<1>3. ChunkIds(new[a], slot) = SlotIds(new[a], slot)
  BY DEF Added, ChunkIds, SlotIds
<1>4. ASSUME NEW q \in CellIndex, q # <<a, slot>>
      PROVE  Cells(new)[q] = Cells(archs)[q]
  <2>1. CASE q[1] = a
    <3>1. q = <<a, q[2]>> /\ q[2] \in Nat /\ q[2] # slot
      BY <1>4, <2>1 DEF CellIndex
    <3>2. ChunkIds(new[a], q[2]) = ChunkIds(arch, q[2])
      BY <3>1 DEF Added
    <3> QED
      BY <1>1, <3>1, <3>2
  <2>2. CASE q[1] # a
    BY <2>2, OtherCells
  <2> QED
    BY <2>1, <2>2
<1>5. Cells(new) \in [CellIndex -> Seq(Nat \ {0})]
  BY CellsType
<1> QED
  BY <1>1, <1>2, <1>3, <1>4, <1>5 DEF CellAdded

\* An archetype left after a deletion, or dropped because nothing is left.
LEMMA WithoutEmptyOK ==
  ASSUME NEW archs, TableOK(archs), NEW a, Occupied(archs, a),
         NEW c \in Nat, NEW i, NEW left, Removed(archs[a], left, c, i),
         NEW new, new = WithoutEmpty(archs, a, left)
  PROVE  /\ TableOK(new)
         /\ SameElse(archs, new, a)
         /\ CellRemoved(Cells(archs), Cells(new), <<a, c>>, i)
<1>1. a \in Nat
  BY TableFields
<1>2. /\ ArchOK(left)
      /\ left.types = archs[a].types
      /\ ChunkIds(left, c) = SwapDrop(ChunkIds(archs[a], c), i)
      /\ \A d \in Nat : d # c => ChunkIds(left, d) = ChunkIds(archs[a], d)
  BY DEF Removed
<1>3. /\ TableOK(new)
      /\ SameElse(archs, new, a)
      /\ \A d \in Nat : IdsAt(new, a, d) = ChunkIds(left, d)
  <2>1. CASE left.chunks = << >>
    <3>1. new = FreeSlotAt(archs, a)
      BY <2>1 DEF WithoutEmpty
    <3>2. /\ TableOK(new)
          /\ ~ Occupied(new, a)
          /\ \A b : b # a => SameSlot(archs, new, b)
      BY <3>1, TableFreed
    <3>3. \A d \in Nat : ChunkIds(left, d) = << >>
      BY <2>1 DEF ChunkIds, Occupied
    <3> QED
      BY <3>2, <3>3 DEF IdsAt, SameElse
  <2>2. CASE left.chunks # << >>
    <3>1. new = Stored(archs, a, left)
      BY <2>2 DEF WithoutEmpty
    <3>2. /\ TableOK(new)
          /\ Occupied(new, a)
          /\ new[a] = left
          /\ \A b : b # a => SameSlot(archs, new, b)
      BY <1>2, <2>2, <3>1, TableReplaced
    <3> QED
      BY <3>2 DEF IdsAt, SameElse
  <2> QED
    BY <2>1, <2>2
<1>4. \A d \in Nat : /\ Cells(new)[<<a, d>>] = ChunkIds(left, d)
                     /\ Cells(archs)[<<a, d>>] = ChunkIds(archs[a], d)
  BY <1>1, <1>3, CellsType DEF IdsAt
<1>5. ASSUME NEW q \in CellIndex, q # <<a, c>>
      PROVE  Cells(new)[q] = Cells(archs)[q]
  <2>1. CASE q[1] = a
    <3>1. q = <<a, q[2]>> /\ q[2] \in Nat /\ q[2] # c
      BY <1>5, <2>1 DEF CellIndex
    <3> QED
      BY <1>2, <1>4, <3>1
  <2>2. CASE q[1] # a
    BY <1>1, <1>3, <2>2, OtherCells
  <2> QED
    BY <2>1, <2>2
<1>6. Cells(new) \in [CellIndex -> Seq(Nat \ {0})]
  BY <1>3, CellsType
<1> QED
  BY <1>2, <1>3, <1>4, <1>5, <1>6 DEF CellRemoved

-----------------------------------------------------------------------------
\* The entity a place points at.
LEMMA PlacePointsAt ==
  ASSUME NEW archs, TableOK(archs), NEW ix \in Places,
         ix.elem \in DOMAIN Cells(archs)[Cell(ix)]
  PROVE  /\ ix.arch \in Nat /\ ix.chunk \in Nat /\ ix.elem \in Nat
         /\ Cell(ix) = <<ix.arch, ix.chunk>>
         /\ Cell(ix) \in CellIndex
         /\ Occupied(archs, ix.arch)
         /\ ArchOK(archs[ix.arch])
         /\ Occupied(archs[ix.arch].chunks, ix.chunk)
         /\ archs[ix.arch].chunks[ix.chunk].ids = Cells(archs)[Cell(ix)]
         /\ ChunkIds(archs[ix.arch], ix.chunk) = Cells(archs)[Cell(ix)]
         /\ Cells(archs)[Cell(ix)] \in Seq(Nat \ {0})
<1>1. /\ ix.arch \in Nat /\ ix.chunk \in Nat /\ ix.elem \in Nat
      /\ Cell(ix) = <<ix.arch, ix.chunk>>
      /\ Cell(ix) \in CellIndex
  BY DEF Places, Cell, CellIndex
<1>2. /\ Cells(archs)[Cell(ix)] = IdsAt(archs, ix.arch, ix.chunk)
      /\ Cells(archs)[Cell(ix)] \in Seq(Nat \ {0})
  BY <1>1, CellsType
<1>3. DOMAIN << >> = {}
  OBVIOUS
<1>4. Occupied(archs, ix.arch) /\ Occupied(archs[ix.arch].chunks, ix.chunk)
  BY <1>2, <1>3 DEF IdsAt, ChunkIds
<1>5. ArchOK(archs[ix.arch])
  BY <1>4, TableFields
<1> QED
  BY <1>1, <1>2, <1>4, <1>5 DEF IdsAt, ChunkIds

\* setEntityIndexMap accepts the place the last entity of the cell was moved to.
LEMMA SwappedIsAt ==
  ASSUME NEW new, TableOK(new), NEW ix \in Places,
         NEW cell \in Seq(Nat \ {0}), ix.elem \in DOMAIN cell, ix.elem # Len(cell),
         Cells(new)[Cell(ix)] = SwapDrop(cell, ix.elem),
         NEW last, last = cell[Len(cell)]
  PROVE  last \in Nat \ {0} /\ IsAt(new, last, ix)
<1> DEFINE i == ix.elem
<1>1. Len(cell) \in Nat /\ DOMAIN cell = 1 .. Len(cell) /\ i \in 1 .. Len(cell)
  BY LenProperties
<1>2. last \in Nat \ {0}
  BY <1>1, ElementOfSeq
<1>3. i \in DOMAIN SwapDrop(cell, i) /\ SwapDrop(cell, i)[i] = last
  BY <1>1 DEF SwapDrop
<1>4. /\ last # 0
      /\ ix.elem \in DOMAIN Cells(new)[Cell(ix)]
      /\ Cells(new)[Cell(ix)][ix.elem] = last
  BY <1>2, <1>3
<1> QED
  BY <1>2, <1>4, IsAtCells

\* What the deletion of an entity does, where the map may be behind the
\* cells elsewhere: changeComponents deletes while the entity is in two cells.
LEMMA RemoveEntityShape ==
  ASSUME NEW s, NEW archs, archs = s.archetypes, TableOK(archs),
         NEW map, map = s.map, NEW id, NEW ix \in Places, ix = map[id],
         ix.elem \in DOMAIN Cells(archs)[Cell(ix)],
         NEW r, r = RemoveEntity(s, id)
  PROVE  /\ TableOK(r.archetypes)
         /\ SameElse(archs, r.archetypes, ix.arch)
         /\ CellRemoved(Cells(archs), Cells(r.archetypes), Cell(ix), ix.elem)
         /\ r.map = MapWithout(Cells(archs), map, id)
<1> DEFINE a       == ix.arch
           c       == ix.chunk
           i       == ix.elem
           cell    == Cells(archs)[Cell(ix)]
           left    == ArchDelete(archs[a], c, i)
           new     == WithoutEmpty(archs, a, left)
           removed == StoreOf(new, Erased(map, id))
           moved   == MovedId(ChunkOf(s, id), i)
<1>1. /\ c \in Nat /\ i \in Nat
      /\ Cell(ix) = <<a, c>>
      /\ Cell(ix) \in CellIndex
      /\ Occupied(archs, a)
      /\ ArchOK(archs[a])
      /\ archs[a].chunks[c].ids = cell
      /\ ChunkIds(archs[a], c) = cell
      /\ cell \in Seq(Nat \ {0})
  BY PlacePointsAt
<1>2. Removed(archs[a], left, c, i)
  BY <1>1, ArchDeleteRemoved
<1>3. r = IF moved = 0 THEN removed ELSE SetIndex(removed, moved, ix)
  BY DEF RemoveEntity
<1>4. moved = IF i = Len(cell) THEN 0 ELSE cell[Len(cell)]
  BY <1>1 DEF MovedId, ChunkOf
<1>5. removed.archetypes = new /\ removed.map = Erased(map, id)
  BY StoreParts
<1>6. i \in DOMAIN cell
  OBVIOUS
<1> HIDE DEF removed, moved, left, a, c, i, cell
<1>7. /\ TableOK(new)
      /\ SameElse(archs, new, a)
      /\ CellRemoved(Cells(archs), Cells(new), <<a, c>>, i)
  BY <1>1, <1>2, WithoutEmptyOK
<1> HIDE DEF new
<1>8. Len(cell) \in Nat /\ DOMAIN cell = 1 .. Len(cell) /\ i \in 1 .. Len(cell)
  BY <1>1, <1>6, LenProperties
<1>9. MapWithout(Cells(archs), map, id) =
        IF i = Len(cell) THEN Erased(map, id) ELSE Indexed(Erased(map, id), cell[Len(cell)], ix)
  BY DEF MapWithout, cell, i
<1>10. r.archetypes = new /\ r.map = MapWithout(Cells(archs), map, id)
  <2>1. CASE i = Len(cell)
    BY <1>3, <1>4, <1>5, <1>9, <2>1
  <2>2. CASE i # Len(cell)
    <3> DEFINE last == cell[Len(cell)]
    <3>1. moved = last
      BY <1>4, <2>2
    <3>2. Cells(new)[Cell(ix)] = SwapDrop(cell, i)
      BY <1>1, <1>7 DEF CellRemoved, cell
    <3>3. moved \in Nat \ {0} /\ IsAt(new, moved, ix)
      BY <1>1, <1>6, <1>7, <2>2, <3>1, <3>2, SwappedIsAt DEF i
    <3>4. r = StoreOf(new, Indexed(Erased(map, id), moved, ix))
      BY <1>3, <1>5, <3>3 DEF SetIndex
    <3> QED
      BY <1>9, <2>2, <3>1, <3>4, StoreParts
  <2> QED
    BY <2>1, <2>2
<1> QED
  BY <1>1, <1>7, <1>10 DEF a, i

\* The deletion of an entity that is in one cell only.
LEMMA RemoveEntityOK ==
  ASSUME NEW s, StoreOK(s), NEW id \in DOMAIN s.map, NEW r, r = RemoveEntity(s, id)
  PROVE  StoreOK(r) /\ \A j : j \in DOMAIN r.map <=> j \in DOMAIN s.map /\ j # id
<1> DEFINE archs == s.archetypes
           map   == s.map
           ix    == map[id]
<1>1. TableOK(archs) /\ ExactCells(Cells(archs), map)
  BY DEF StoreOK
<1>2. ix \in Places /\ ix.elem \in DOMAIN Cells(archs)[Cell(ix)]
  BY <1>1 DEF ExactCells
<1>3. id \in DOMAIN map
  OBVIOUS
<1>4. archs = s.archetypes /\ map = s.map /\ ix = map[id]
  OBVIOUS
<1> HIDE DEF archs, map, ix
<1>5. /\ TableOK(r.archetypes)
      /\ CellRemoved(Cells(archs), Cells(r.archetypes), Cell(ix), ix.elem)
      /\ r.map = MapWithout(Cells(archs), map, id)
  BY <1>1, <1>2, <1>4, RemoveEntityShape
<1>6. /\ ExactCells(Cells(r.archetypes), r.map)
      /\ \A j : j \in DOMAIN r.map <=> j \in DOMAIN map /\ j # id
  BY <1>1, <1>3, <1>4, <1>5, RemovedExact
<1> QED
  BY <1>4, <1>5, <1>6 DEF StoreOK

-----------------------------------------------------------------------------
\* new has, for the archetypes archs, the archetype chosen.arch in slot a,
\* where id is the last entity of chunk chosen.slot.
StoredIn(archs, new, a, ts, chosen, id) ==
  /\ TableOK(new)
  /\ SameElse(archs, new, a)
  /\ Occupied(new, a)
  /\ new[a] = chosen.arch
  /\ chosen.arch.types = ts
  /\ chosen.slot \in Nat
  /\ a \in Nat
  /\ CellAdded(Cells(archs), Cells(new), <<a, chosen.slot>>, id)
  /\ Cells(new)[<<a, chosen.slot>>] = SlotIds(chosen.arch, chosen.slot)

\* An entity stored in the archetype for its types.
LEMMA StoredAdded ==
  ASSUME NEW archs, TableOK(archs), NEW ts \in SUBSET Types,
         NEW a, a = ArchetypeSlot(archs, ts), NEW with, with = WithArchetype(archs, ts),
         NEW chosen, chosen.slot \in Nat, NEW id,
         Added(with[a], chosen.arch, chosen.slot, id),
         NEW new, new = Stored(with, a, chosen.arch)
  PROVE  StoredIn(archs, new, a, ts, chosen, id)
<1> DEFINE old  == with[a]
           arch == chosen.arch
           slot == chosen.slot
<1>0. slot \in Nat /\ Added(old, arch, slot, id) /\ new = Stored(with, a, arch)
  OBVIOUS
<1>1. /\ old.types = ts
      /\ \A c \in Nat : ChunkIds(old, c) = IdsAt(archs, a, c)
  BY WithArchetypeType
<1> HIDE DEF old, arch, slot
<1>2. ArchOK(arch) /\ arch.types = ts /\ Occupied(arch.chunks, slot)
  BY <1>0, <1>1 DEF Added
<1>3. arch.chunks # << >>
  <2>1. DOMAIN << >> = {}
    OBVIOUS
  <2> QED
    BY <1>2, <2>1 DEF Occupied
<1>4. /\ TableOK(new)
      /\ Occupied(new, a)
      /\ new[a] = arch
      /\ \A b : b # a => SameSlot(archs, new, b)
  BY <1>0, <1>2, <1>3, WithArchetypePut
<1>5. a \in Nat
  BY ArchetypeSlotType
<1>6. SameElse(archs, new, a)
  BY <1>4 DEF SameElse
<1>7. (\A c \in Nat : ChunkIds(old, c) = IdsAt(archs, a, c)) /\ Added(old, new[a], slot, id)
  BY <1>0, <1>1, <1>4
<1>8. /\ CellAdded(Cells(archs), Cells(new), <<a, slot>>, id)
      /\ Cells(new)[<<a, slot>>] = SlotIds(new[a], slot)
  BY <1>0, <1>4, <1>5, <1>6, <1>7, AddedCells
<1> QED
  BY <1>0, <1>2, <1>4, <1>5, <1>6, <1>8 DEF StoredIn, arch, slot

\* The place an archetype operation gives an entity is the end of a cell.
LEMMA LastPlaceIs ==
  ASSUME NEW new, NEW a \in Nat, NEW chosen, chosen.slot \in Nat,
         NEW p, p = <<a, chosen.slot>>,
         Cells(new)[p] = SlotIds(chosen.arch, chosen.slot)
  PROVE  /\ LastPlace(a, chosen) = PlaceIn(p, Len(Cells(new)[p]))
         /\ LastPlace(a, chosen).arch = a
         /\ p \in CellIndex
BY DEF LastPlace, PlaceIn, CellIndex, SlotIds

\* setEntityIndexMap accepts that place.
LEMMA AddedIsAt ==
  ASSUME NEW new, TableOK(new), NEW p \in CellIndex, NEW id \in Nat \ {0},
         NEW cells \in [CellIndex -> Seq(Nat \ {0})], CellAdded(cells, Cells(new), p, id),
         NEW place, place = PlaceIn(p, Len(Cells(new)[p]))
  PROVE  IsAt(new, id, place) /\ place \in Places
<1> DEFINE cell == cells[p]
           ids  == Cells(new)[p]
<1>1. cell \in Seq(Nat \ {0}) /\ ids = IdsWith(cell, id) /\ ids \in Seq(Nat \ {0})
  BY DEF CellAdded
<1> HIDE DEF cell, ids
<1>2. Len(ids) = Len(cell) + 1 /\ ids[Len(cell) + 1] = id
  BY <1>1, IdsWithType
<1>3. Len(cell) \in Nat /\ DOMAIN ids = 1 .. Len(ids) /\ Len(ids) \in Nat
  BY <1>1, LenProperties
<1>4. Len(ids) \in DOMAIN ids /\ ids[Len(ids)] = id
  BY <1>2, <1>3
<1>5. place \in Places /\ Cell(place) = p /\ place.elem = Len(ids)
  BY <1>3, PlaceParts DEF ids
<1>6. /\ id # 0
      /\ place.elem \in DOMAIN Cells(new)[Cell(place)]
      /\ Cells(new)[Cell(place)][place.elem] = id
  BY <1>4, <1>5 DEF ids
<1> QED
  BY <1>5, <1>6, IsAtCells

\* A new entity.
LEMMA CreatedOK ==
  ASSUME NEW s, StoreOK(s), NEW id \in Nat \ {0}, id \notin DOMAIN s.map,
         NEW ts \in SUBSET Types, NEW a, a = ArchetypeSlot(s.archetypes, ts),
         NEW with, with = WithArchetype(s.archetypes, ts),
         NEW chosen, chosen.slot \in Nat, Added(with[a], chosen.arch, chosen.slot, id),
         NEW r, r = SetIndex(StoreOf(Stored(with, a, chosen.arch), s.map), id,
                             LastPlace(a, chosen))
  PROVE  StoreOK(r) /\ \A j : j \in DOMAIN r.map <=> j \in DOMAIN s.map \/ j = id
<1> DEFINE archs == s.archetypes
           map   == s.map
           arch  == chosen.arch
           slot  == chosen.slot
           new   == Stored(with, a, arch)
           p     == <<a, slot>>
           place == LastPlace(a, chosen)
<1>1. /\ TableOK(archs) /\ ExactCells(Cells(archs), map)
      /\ a = ArchetypeSlot(archs, ts) /\ with = WithArchetype(archs, ts)
      /\ slot \in Nat /\ Added(with[a], arch, slot, id)
      /\ id \notin DOMAIN map
  BY DEF StoreOK
<1>2. r = SetIndex(StoreOf(new, map), id, place)
  OBVIOUS
<1> HIDE DEF archs, map, new
<1>3. /\ TableOK(new)
      /\ a \in Nat
      /\ CellAdded(Cells(archs), Cells(new), p, id)
      /\ Cells(new)[p] = SlotIds(arch, slot)
  <2>1. new = Stored(with, a, chosen.arch)
    BY DEF new
  <2>2. StoredIn(archs, new, a, ts, chosen, id)
    BY <1>1, <2>1, StoredAdded
  <2> QED
    BY <2>2 DEF StoredIn
<1>4. place = PlaceIn(p, Len(Cells(new)[p])) /\ p \in CellIndex
  BY <1>1, <1>3, LastPlaceIs
<1> HIDE DEF arch, slot, place, p
<1>5. map \in [DOMAIN map -> Places] /\ Cells(archs) \in [CellIndex -> Seq(Nat \ {0})]
  BY <1>1 DEF ExactCells
<1>6. IsAt(new, id, place) /\ place \in Places
  <2> DEFINE cells == Cells(archs)
  <2>1. cells \in [CellIndex -> Seq(Nat \ {0})] /\ CellAdded(cells, Cells(new), p, id)
    BY <1>3, <1>5
  <2> HIDE DEF cells
  <2> QED
    BY <1>3, <1>4, <2>1, AddedIsAt
<1>7. r.archetypes = new /\ r.map = Indexed(map, id, place)
  <2>1. r = StoreOf(new, Indexed(map, id, place))
    BY <1>2, <1>6, StoreParts DEF SetIndex
  <2> QED
    BY <2>1, StoreParts
<1>8. ExactCells(Cells(new), Indexed(map, id, place))
  BY <1>1, <1>3, <1>4, AddedExact
<1>9. \A j : j \in DOMAIN Indexed(map, id, place) <=> j \in DOMAIN map \/ j = id
  BY <1>5, <1>6, IndexedType
<1> QED
  BY <1>3, <1>7, <1>8, <1>9 DEF StoreOK, map

-----------------------------------------------------------------------------
\* An id added to one cell and removed from another, in either order.
LEMMA AddedThenRemoved ==
  ASSUME NEW cells \in [CellIndex -> Seq(Nat \ {0})], NEW both, NEW new,
         NEW p \in CellIndex, NEW q \in CellIndex, p # q, NEW id, NEW i,
         CellAdded(cells, both, q, id), CellRemoved(both, new, p, i)
  PROVE  \E less : CellRemoved(cells, less, p, i) /\ CellAdded(less, new, q, id)
<1> DEFINE left == new[p]
           less == [c \in CellIndex |-> IF c = p THEN left ELSE cells[c]]
<1>1. both[p] = cells[p] /\ left = SwapDrop(cells[p], i) /\ left \in Seq(Nat \ {0})
  BY DEF CellAdded, CellRemoved
<1>2. new[q] = both[q] /\ both[q] = IdsWith(cells[q], id)
  BY DEF CellAdded, CellRemoved
<1>3. ASSUME NEW c \in CellIndex, c # q PROVE new[c] = less[c]
  BY <1>3 DEF CellAdded, CellRemoved
<1> HIDE DEF left
<1>4. less \in [CellIndex -> Seq(Nat \ {0})] /\ less[p] = left /\ less[q] = cells[q]
  BY <1>1
<1>5. \A c \in CellIndex : c # p => less[c] = cells[c]
  OBVIOUS
<1> HIDE DEF less
<1>6. CellRemoved(cells, less, p, i)
  BY <1>1, <1>4, <1>5 DEF CellRemoved
<1>7. new \in [CellIndex -> Seq(Nat \ {0})]
  BY DEF CellRemoved
<1>8. CellAdded(less, new, q, id)
  BY <1>2, <1>3, <1>4, <1>7 DEF CellAdded
<1> QED
  BY <1>6, <1>8

\* The chunk of a place, and the entity there.
PlacedChunk(archs, ix) == archs[ix.arch].chunks[ix.chunk]

Holds(archs, id, ix) ==
  /\ ix.elem \in DOMAIN Cells(archs)[Cell(ix)]
  /\ id = Cells(archs)[Cell(ix)][ix.elem]

\* The first step of changeComponents: the entity is in both archetypes.
LEMMA MovedIn ==
  ASSUME NEW archs, TableOK(archs), NEW ts \in SUBSET Types,
         NEW a, a = ArchetypeSlot(archs, ts), NEW with, with = WithArchetype(archs, ts),
         NEW ix \in Places, NEW id, Holds(archs, id, ix),
         NEW moved, moved = ArchMoveIn(with[a], PlacedChunk(archs, ix), ix.elem),
         NEW stored, stored = Stored(with, a, moved.arch)
  PROVE  id \in Nat \ {0} /\ StoredIn(archs, stored, a, ts, moved, id)
<1> DEFINE e      == ix.elem
           us     == archs[ix.arch].types
           source == PlacedChunk(archs, ix)
           ids    == source.ids
           target == with[a]
<1>1. /\ Occupied(archs, ix.arch)
      /\ ArchOK(archs[ix.arch])
      /\ Occupied(archs[ix.arch].chunks, ix.chunk)
      /\ ids = Cells(archs)[Cell(ix)]
      /\ ids \in Seq(Nat \ {0})
  BY PlacePointsAt DEF Holds, PlacedChunk
<1>2. us \in SUBSET Types /\ IsChunk(source, us)
  BY <1>1, ArchetypeFields DEF PlacedChunk
<1>3. e \in DOMAIN ids /\ ids[e] = id
  BY <1>1 DEF Holds
<1>4. ArchOK(target)
  BY WithArchetypeType
<1>5. moved = ArchMoveIn(target, source, e)
  OBVIOUS
<1> HIDE DEF e, us, target, source
<1>6. id \in Nat \ {0}
  <2> HIDE DEF ids
  <2>1. e \in 1 .. Len(ids)
    BY <1>1, <1>3, LenProperties
  <2>2. ids[e] \in Nat \ {0}
    BY <1>1, <2>1, ElementOfSeq
  <2> QED
    BY <1>3, <2>2
<1>7. moved.slot \in Nat /\ Added(target, moved.arch, moved.slot, id)
  <2>1. LET made == ArchMoveIn(target, source, e)
        IN  made.slot \in Nat /\ Added(target, made.arch, made.slot, ids[e])
    BY <1>2, <1>3, <1>4, ArchMoveInAdded
  <2> QED
    BY <1>3, <1>5, <2>1
<1>8. Added(with[a], moved.arch, moved.slot, id)
  BY <1>7 DEF target
<1>9. StoredIn(archs, stored, a, ts, moved, id)
  BY <1>7, <1>8, StoredAdded
<1> QED
  BY <1>6, <1>9

\* changeComponents, to another archetype.
LEMMA MoveEntityOK ==
  ASSUME NEW s, StoreOK(s), NEW id \in DOMAIN s.map, NEW ts \in SUBSET Types,
         NEW archs, archs = s.archetypes, NEW map, map = s.map,
         NEW a, a = ArchetypeSlot(archs, ts), a # map[id].arch,
         NEW with, with = WithArchetype(archs, ts),
         NEW r, r = MoveEntity(s, id, a, with)
  PROVE  /\ StoreOK(r)
         /\ \A j : j \in DOMAIN r.map <=> j \in DOMAIN s.map
         /\ TypesOf(r, id) = ts
<1> DEFINE ix     == map[id]
           source == ChunkOf(s, id)
           moved  == ArchMoveIn(with[a], source, ix.elem)
           arch   == moved.arch
           slot   == moved.slot
           stored == Stored(with, a, arch)
           both   == StoreOf(stored, map)
           gone   == RemoveEntity(both, id)
           new    == gone.archetypes
           p      == Cell(ix)
           q      == <<a, slot>>
           place  == LastPlace(a, moved)
<1>1. /\ TableOK(archs) /\ ExactCells(Cells(archs), map)
      /\ a = ArchetypeSlot(archs, ts) /\ with = WithArchetype(archs, ts)
      /\ id \in DOMAIN map
      /\ a # ix.arch
  BY DEF StoreOK
<1>2. /\ map \in [DOMAIN map -> Places]
      /\ ix \in Places
      /\ ix.elem \in DOMAIN Cells(archs)[p]
      /\ Cells(archs)[p][ix.elem] = id
      /\ Cells(archs) \in [CellIndex -> Seq(Nat \ {0})]
  BY <1>1 DEF ExactCells
<1>3. r = SetIndex(gone, id, place)
  BY DEF MoveEntity
<1>4. source = archs[ix.arch].chunks[ix.chunk]
  BY DEF ChunkOf
<1>5. both.archetypes = stored /\ both.map = map /\ stored = Stored(with, a, arch)
  BY StoreParts
<1> HIDE DEF source, ix, both, p, stored
<1>6. /\ p = <<ix.arch, ix.chunk>>
      /\ p \in CellIndex
  BY <1>1, <1>2, PlacePointsAt DEF p
<1>7. /\ id \in Nat \ {0}
      /\ slot \in Nat
      /\ TableOK(stored)
      /\ SameElse(archs, stored, a)
      /\ Occupied(stored, a) /\ stored[a] = arch /\ arch.types = ts
      /\ a \in Nat
      /\ CellAdded(Cells(archs), Cells(stored), q, id)
      /\ Cells(stored)[q] = SlotIds(arch, slot)
  <2>1. /\ Holds(archs, id, ix)
        /\ stored = Stored(with, a, moved.arch)
    BY <1>2, <1>5 DEF p, Holds
  <2>3. moved = ArchMoveIn(with[a], PlacedChunk(archs, ix), ix.elem)
    BY <1>4 DEF PlacedChunk
  <2> HIDE DEF moved
  <2>2. id \in Nat \ {0} /\ StoredIn(archs, stored, a, ts, moved, id)
    BY <1>1, <1>2, <2>1, <2>3, MovedIn
  <2> QED
    BY <2>2 DEF StoredIn
<1>8. q \in CellIndex /\ p # q
  BY <1>1, <1>6, <1>7 DEF CellIndex
<1> HIDE DEF q, arch, slot, moved, gone, new
<1>9. Cells(stored)[p] = Cells(archs)[p]
  BY <1>6, <1>7, <1>8 DEF CellAdded
<1>10. /\ TableOK(new)
       /\ SameElse(stored, new, ix.arch)
       /\ CellRemoved(Cells(stored), Cells(new), p, ix.elem)
       /\ gone.map = MapWithout(Cells(stored), map, id)
  <2>1. /\ stored = both.archetypes /\ map = both.map /\ ix = map[id]
        /\ ix.elem \in DOMAIN Cells(stored)[Cell(ix)]
    BY <1>2, <1>5, <1>9 DEF ix, p
  <2>2. gone = RemoveEntity(both, id)
    BY DEF gone
  <2>3. /\ TableOK(gone.archetypes)
        /\ SameElse(stored, gone.archetypes, ix.arch)
        /\ CellRemoved(Cells(stored), Cells(gone.archetypes), Cell(ix), ix.elem)
        /\ gone.map = MapWithout(Cells(stored), map, id)
    <3> HIDE DEF gone
    <3>1. ix \in Places /\ TableOK(stored)
      BY <1>2, <1>7
    <3> QED
      BY <2>1, <2>2, <3>1, RemoveEntityShape
  <2> QED
    BY <2>3 DEF new, p
<1>11. gone.map = MapWithout(Cells(archs), map, id)
  BY <1>9, <1>10 DEF MapWithout, p, ix
<1>12. PICK less : /\ CellRemoved(Cells(archs), less, p, ix.elem)
                   /\ CellAdded(less, Cells(new), q, id)
  <2> DEFINE i == ix.elem
             before == Cells(archs)
             middle == Cells(stored)
             after  == Cells(new)
  <2>1. /\ before \in [CellIndex -> Seq(Nat \ {0})]
        /\ CellAdded(before, middle, q, id) /\ CellRemoved(middle, after, p, i)
    BY <1>2, <1>7, <1>10
  <2> HIDE DEF i, before, middle, after
  <2>2. \E less : CellRemoved(before, less, p, i) /\ CellAdded(less, after, q, id)
    BY <1>6, <1>8, <2>1, AddedThenRemoved
  <2> QED
    BY <2>2 DEF i, before, after
<1>13. /\ ExactCells(less, gone.map)
       /\ \A j : j \in DOMAIN gone.map <=> j \in DOMAIN map /\ j # id
  BY <1>1, <1>11, <1>12, RemovedExact DEF p, ix
<1>14. Cells(new)[q] = SlotIds(arch, slot)
  BY <1>7, <1>8, <1>10 DEF CellRemoved
<1>15. place = PlaceIn(q, Len(Cells(new)[q])) /\ place.arch = a
  BY <1>7, <1>14, LastPlaceIs DEF q, arch, slot
<1> HIDE DEF place
<1>16. IsAt(new, id, place) /\ place \in Places
  <2>1. less \in [CellIndex -> Seq(Nat \ {0})]
    BY <1>12 DEF CellRemoved
  <2> QED
    BY <1>7, <1>8, <1>10, <1>12, <1>15, <2>1, AddedIsAt
<1>17. r.archetypes = new /\ r.map = Indexed(gone.map, id, place)
  <2>1. r = StoreOf(new, Indexed(gone.map, id, place))
    BY <1>3, <1>16 DEF SetIndex, new
  <2> QED
    BY <2>1, StoreParts
<1>18. ExactCells(Cells(new), r.map)
  <2>1. id \notin DOMAIN gone.map
    BY <1>13
  <2> QED
    BY <1>7, <1>8, <1>12, <1>13, <1>15, <1>17, <2>1, AddedExact
<1>19. /\ \A j : j \in DOMAIN r.map <=> j \in DOMAIN gone.map \/ j = id
       /\ r.map[id] = place
  <2>1. gone.map \in [DOMAIN gone.map -> Places]
    BY <1>13 DEF ExactCells
  <2> QED
    BY <1>16, <1>17, <2>1, IndexedType
<1>20. TypesOf(r, id) = ts
  <2>1. new[a] = arch
    BY <1>1, <1>7, <1>10 DEF SameElse, SameSlot
  <2> QED
    BY <1>7, <1>15, <1>17, <1>19, <2>1 DEF TypesOf
<1>21. \A j : j \in DOMAIN r.map <=> j \in DOMAIN map
  BY <1>1, <1>13, <1>19
<1> QED
  BY <1>10, <1>17, <1>18, <1>20, <1>21 DEF StoreOK

-----------------------------------------------------------------------------
\* changeComponents, whatever it comes to.
LEMMA ChangeComponentsOK ==
  ASSUME NEW s, StoreOK(s), NEW id \in DOMAIN s.map, NEW ts \in SUBSET Types,
         NEW r, r = ChangeComponents(s, id, ts)
  PROVE  /\ StoreOK(r)
         /\ \A j : j \in DOMAIN r.map => j \in DOMAIN s.map
         /\ ~ Vanishes(ts) => id \in DOMAIN r.map /\ TypesOf(r, id) = ts
<1> DEFINE archs == s.archetypes
           map   == s.map
           a     == ArchetypeSlot(archs, ts)
           with  == WithArchetype(archs, ts)
<1>1. r = IF Vanishes(ts) THEN RemoveEntity(s, id)
          ELSE IF a = map[id].arch THEN s ELSE MoveEntity(s, id, a, with)
  BY DEF ChangeComponents
<1>2. TableOK(archs) /\ ExactCells(Cells(archs), map)
  BY DEF StoreOK
<1>3. CASE Vanishes(ts)
  BY <1>1, <1>3, RemoveEntityOK
<1>4. CASE ~ Vanishes(ts) /\ a = map[id].arch
  <2> DEFINE ix == map[id]
  <2>1. ix \in Places /\ ix.elem \in DOMAIN Cells(archs)[Cell(ix)]
    BY <1>2 DEF ExactCells
  <2>2. Occupied(archs, a)
    <3>1. Occupied(archs, ix.arch)
      <4> HIDE DEF ix, archs
      <4> QED
        BY <1>2, <2>1, PlacePointsAt
    <3> QED
      BY <1>4, <3>1
  <2>3. archs[a].types = ts
    <3> HIDE DEF archs, with
    <3> QED
      BY <1>2, <2>2, ArchetypeSlotType
  <2>4. TypesOf(s, id) = ts
    BY <1>4, <2>3 DEF TypesOf
  <2> QED
    BY <1>1, <1>4, <2>4
<1>5. CASE ~ Vanishes(ts) /\ a # map[id].arch
  <2>1. r = MoveEntity(s, id, a, with)
    BY <1>1, <1>5
  <2>2. /\ StoreOK(r)
        /\ \A j : j \in DOMAIN r.map <=> j \in DOMAIN map
        /\ TypesOf(r, id) = ts
    BY <1>5, <2>1, MoveEntityOK
  <2> QED
    BY <2>2
<1> QED
  BY <1>3, <1>4, <1>5

-----------------------------------------------------------------------------
\* The order in which a map is written does not matter.
LEMMA IndexedTwice ==
  ASSUME NEW map, map \in [DOMAIN map -> Places], NEW id \in DOMAIN map,
         NEW ix \in Places, NEW place \in Places
  PROVE  /\ Indexed(Erased(map, id), id, place) = Indexed(map, id, place)
         /\ \A last \in DOMAIN map : last # id =>
              Indexed(Indexed(Erased(map, id), last, ix), id, place) =
              Indexed(Indexed(map, id, place), last, ix)
         /\ Indexed(map, id, map[id]) = map
<1>1. Indexed(Erased(map, id), id, place) = Indexed(map, id, place)
  BY DEF Indexed, Erased, Restrict
<1>2. ASSUME NEW last \in DOMAIN map, last # id
      PROVE  Indexed(Indexed(Erased(map, id), last, ix), id, place) =
             Indexed(Indexed(map, id, place), last, ix)
  BY <1>2 DEF Indexed, Erased, Restrict
<1>3. Indexed(map, id, map[id]) = map
  BY DEF Indexed
<1> QED
  BY <1>1, <1>2, <1>3

\* An entity moved to another chunk of its archetype: what SetSharedAt stores.
SharedSet(archs, new, id, ix, set) ==
  /\ TableOK(new)
  /\ set.slot \in Nat
  /\ <<ix.arch, set.slot>> # Cell(ix)
  /\ \E less : /\ CellRemoved(Cells(archs), less, Cell(ix), ix.elem)
               /\ CellAdded(less, Cells(new), <<ix.arch, set.slot>>, id)
  /\ Cells(new)[<<ix.arch, set.slot>>] = SlotIds(set.arch, set.slot)

\* Archetype::setSharedComponent, in terms of cells.
LEMMA SharedSetType ==
  ASSUME NEW archs, TableOK(archs), NEW ix \in Places, NEW id, Holds(archs, id, ix),
         NEW t \in SharedTypes(archs[ix.arch].types), NEW v \in Value,
         PlacedChunk(archs, ix).shared[t] # v,
         NEW set, set = ArchSetShared(archs[ix.arch], ix.chunk, ix.elem, t, v),
         NEW new, new = Stored(archs, ix.arch, set.arch)
  PROVE  SharedSet(archs, new, id, ix, set)
<1> DEFINE a    == ix.arch
           c    == ix.chunk
           i    == ix.elem
           arch == archs[a]
           made == set.arch
           slot == set.slot
           cells == Cells(archs)
           p    == <<a, c>>
           q    == <<a, slot>>
           drop == SwapDrop(cells[p], i)
           less == [b \in CellIndex |-> IF b = p THEN drop ELSE cells[b]]
<1>1. /\ a \in Nat /\ c \in Nat
      /\ Cell(ix) = p
      /\ p \in CellIndex
      /\ Occupied(archs, a)
      /\ ArchOK(arch)
      /\ ChunkIds(arch, c) = cells[p]
      /\ cells[p] \in Seq(Nat \ {0})
      /\ i \in DOMAIN cells[p]
      /\ id = cells[p][i]
  BY PlacePointsAt DEF Holds
<1>2. /\ t \in SharedTypes(arch.types)
      /\ arch.chunks[c].shared[t] # v
      /\ set = ArchSetShared(arch, c, i, t, v)
      /\ new = Stored(archs, a, made)
  BY DEF PlacedChunk
<1> HIDE DEF a, c, i, arch, cells
<1>3. /\ ArchOK(made)
      /\ made.types = arch.types
      /\ slot \in Nat
      /\ slot # c
      /\ ChunkIds(made, slot) = IdsWith(ChunkIds(arch, slot), id)
      /\ ChunkIds(made, c) = SwapDrop(ChunkIds(arch, c), i)
      /\ \A d \in Nat : d # c /\ d # slot => ChunkIds(made, d) = ChunkIds(arch, d)
  BY <1>1, <1>2, ArchSetSharedMoves
<1> HIDE DEF made, slot
<1>4. ChunkIds(made, slot) # << >>
  <2>1. ChunkIds(arch, slot) \in Seq(Nat \ {0})
    BY <1>1, ChunkIdsType
  <2>2. id \in Nat \ {0}
    <3> DEFINE cell == cells[p]
    <3>1. cell \in Seq(Nat \ {0}) /\ i \in DOMAIN cell /\ id = cell[i]
      BY <1>1
    <3> HIDE DEF cell
    <3>2. i \in 1 .. Len(cell)
      BY <3>1, LenProperties
    <3> QED
      BY <3>1, <3>2, ElementOfSeq
  <2> DEFINE ids == ChunkIds(arch, slot)
  <2> HIDE DEF ids
  <2>3. Len(IdsWith(ids, id)) = Len(ids) + 1 /\ Len(ids) \in Nat
    BY <2>1, <2>2, IdsWithType, LenProperties DEF ids
  <2>4. Len(<< >>) = 0
    BY EmptySeq
  <2> QED
    BY <1>3, <2>3, <2>4 DEF ids
<1>5. Occupied(made.chunks, slot) /\ made.chunks # << >>
  <2>1. Occupied(made.chunks, slot)
    BY <1>4 DEF ChunkIds
  <2>2. DOMAIN << >> = {}
    OBVIOUS
  <2> QED
    BY <2>1, <2>2 DEF Occupied
<1>6. /\ TableOK(new)
      /\ Occupied(new, a)
      /\ new[a] = made
      /\ SameElse(archs, new, a)
  <2>1. made.types = archs[a].types
    BY <1>3 DEF arch
  <2>2. /\ TableOK(new)
        /\ Occupied(new, a)
        /\ new[a] = made
        /\ \A b : b # a => SameSlot(archs, new, b)
    BY <1>1, <1>2, <1>3, <1>5, <2>1, TableReplaced
  <2> QED
    BY <2>2 DEF SameElse
<1>7. \A d \in Nat : /\ Cells(new)[<<a, d>>] = ChunkIds(made, d)
                     /\ cells[<<a, d>>] = ChunkIds(arch, d)
  BY <1>1, <1>6, CellsType DEF IdsAt, arch, cells
<1>8. /\ q \in CellIndex /\ q # p
      /\ Cells(new)[q] = IdsWith(cells[q], id)
      /\ Cells(new)[p] = drop
  BY <1>1, <1>3, <1>7 DEF CellIndex
<1>9. ASSUME NEW b \in CellIndex, b # p, b # q
      PROVE  Cells(new)[b] = cells[b]
  <2>1. CASE b[1] = a
    <3>1. b = <<a, b[2]>> /\ b[2] \in Nat /\ b[2] # c /\ b[2] # slot
      BY <1>9, <2>1 DEF CellIndex
    <3> QED
      BY <1>3, <1>7, <3>1
  <2>2. CASE b[1] # a
    BY <1>1, <1>6, <2>2, OtherCells DEF cells
  <2> QED
    BY <2>1, <2>2
<1>10. Cells(new) \in [CellIndex -> Seq(Nat \ {0})] /\ cells \in [CellIndex -> Seq(Nat \ {0})]
  BY <1>6, CellsType DEF cells
<1>11. drop \in Seq(Nat \ {0})
  BY <1>1, <1>8, <1>10
<1> HIDE DEF p, q, drop
<1>12. /\ less \in [CellIndex -> Seq(Nat \ {0})]
       /\ less[p] = drop
       /\ \A b \in CellIndex : b # p => less[b] = cells[b]
  BY <1>1, <1>10, <1>11
<1> HIDE DEF less
<1>13. CellRemoved(cells, less, p, i)
  BY <1>12 DEF CellRemoved, drop
<1>14. CellAdded(less, Cells(new), q, id)
  <2>1. \A b \in CellIndex : b # q => Cells(new)[b] = less[b]
    BY <1>1, <1>8, <1>9, <1>12
  <2> QED
    BY <1>8, <1>10, <1>12, <2>1 DEF CellAdded
<1>15. Cells(new)[q] = SlotIds(made, slot)
  BY <1>3, <1>5, <1>7 DEF q, ChunkIds, SlotIds
<1>16. Cell(ix) = p /\ q = <<ix.arch, set.slot>> /\ cells = Cells(archs) /\ i = ix.elem
       /\ slot = set.slot /\ made = set.arch
  BY <1>1 DEF q, p, a, slot, cells, i, made
<1> QED
  BY <1>3, <1>6, <1>8, <1>13, <1>14, <1>15, <1>16, Zenon DEF SharedSet

\* setSharedComponent of an entity that has the component.
LEMMA SetSharedAtOK ==
  ASSUME NEW s, StoreOK(s), NEW id \in DOMAIN s.map,
         NEW t \in SharedTypes(TypesOf(s, id)), NEW v \in Value,
         NEW r, r = SetSharedAt(s, id, s.map[id], t, v)
  PROVE  StoreOK(r) /\ \A j : j \in DOMAIN r.map <=> j \in DOMAIN s.map
<1> DEFINE archs  == s.archetypes
           map    == s.map
           ix     == map[id]
           source == PlacedChunk(archs, ix)
           set    == ArchSetShared(archs[ix.arch], ix.chunk, ix.elem, t, v)
           new    == Stored(archs, ix.arch, set.arch)
           place  == LastPlace(ix.arch, set)
           stored == StoreOf(new, Indexed(map, id, place))
           moved  == MovedId(source, ix.elem)
           cells  == Cells(archs)
           p      == Cell(ix)
           i      == ix.elem
           cell   == cells[p]
           last   == cell[Len(cell)]
<1>1. /\ TableOK(archs) /\ ExactCells(cells, map)
      /\ id \in DOMAIN map
  BY DEF StoreOK
<1>2. /\ map \in [DOMAIN map -> Places]
      /\ ix \in Places
      /\ i \in DOMAIN cell
      /\ cell[i] = id
  BY <1>1 DEF ExactCells
<1>3. r = IF source.shared[t] = v THEN StoreOf(archs, Indexed(map, id, ix))
          ELSE IF moved = 0 THEN stored ELSE SetIndex(stored, moved, ix)
  BY DEF SetSharedAt, PlacedChunk
<1>4. t \in SharedTypes(archs[ix.arch].types)
  BY DEF TypesOf
<1>5. stored.archetypes = new /\ stored.map = Indexed(map, id, place)
  BY StoreParts
<1>6. Indexed(map, id, ix) = map
  BY <1>1, <1>2, IndexedTwice
<1>7. s.archetypes = archs /\ s.map = map
  OBVIOUS
<1>8. ix = map[id]
  OBVIOUS
<1> HIDE DEF archs, map, ix, stored, place, moved
<1>9. CASE source.shared[t] = v
  <2>1. r = StoreOf(archs, map)
    BY <1>3, <1>6, <1>9
  <2> QED
    BY <1>1, <1>7, <2>1, StoreParts DEF StoreOK
<1>10. CASE source.shared[t] # v
  <2>1. SharedSet(archs, new, id, ix, set)
    <3>1. Holds(archs, id, ix)
      BY <1>2 DEF Holds
    <3> HIDE DEF set, new
    <3>2. set = ArchSetShared(archs[ix.arch], ix.chunk, ix.elem, t, v)
      BY DEF set
    <3>3. new = Stored(archs, ix.arch, set.arch)
      BY DEF new
    <3> QED
      BY <1>1, <1>2, <1>4, <1>10, <3>1, <3>2, <3>3, SharedSetType
  <2> DEFINE q == <<ix.arch, set.slot>>
  <2> HIDE DEF set, new, source
  <2>2. PICK less : CellRemoved(cells, less, p, i) /\ CellAdded(less, Cells(new), q, id)
    BY <2>1 DEF SharedSet
  <2>3. /\ TableOK(new)
        /\ set.slot \in Nat
        /\ q # p
        /\ Cells(new)[q] = SlotIds(set.arch, set.slot)
    BY <2>1 DEF SharedSet
  <2>4. /\ ix.arch \in Nat
        /\ p \in CellIndex
        /\ source.ids = cell
        /\ cell \in Seq(Nat \ {0})
    BY <1>1, <1>2, PlacePointsAt DEF source, PlacedChunk
  <2>5. place = PlaceIn(q, Len(Cells(new)[q])) /\ q \in CellIndex
    BY <2>3, <2>4, LastPlaceIs DEF place
  <2> HIDE DEF q, p, i, cell, last
  <2>6. id \in Nat \ {0} /\ DOMAIN cell = 1 .. Len(cell) /\ Len(cell) \in Nat /\ i \in 1 .. Len(cell)
    <3>1. DOMAIN cell = 1 .. Len(cell) /\ Len(cell) \in Nat
      BY <2>4, LenProperties
    <3> QED
      BY <1>2, <2>4, <3>1, ElementOfSeq
  <2>7. place \in Places
    <3>1. less \in [CellIndex -> Seq(Nat \ {0})]
      BY <2>2 DEF CellRemoved
    <3> QED
      BY <2>2, <2>3, <2>5, <2>6, <3>1, AddedIsAt
  <2>8. /\ ExactCells(less, MapWithout(cells, map, id))
        /\ \A j : j \in DOMAIN MapWithout(cells, map, id) <=> j \in DOMAIN map /\ j # id
    <3>1. CellRemoved(cells, less, Cell(map[id]), map[id].elem)
      BY <1>8, <2>2 DEF p, i
    <3> QED
      BY <1>1, <3>1, RemovedExact
  <2> DEFINE left == MapWithout(cells, map, id)
  <2>9. ExactCells(Cells(new), Indexed(left, id, place))
    <3>1. id \notin DOMAIN left
      BY <2>8
    <3> QED
      BY <2>2, <2>5, <2>6, <2>8, <3>1, AddedExact
  <2>10. left = IF i = Len(cell) THEN Erased(map, id) ELSE Indexed(Erased(map, id), last, ix)
    BY <1>8 DEF MapWithout, cell, i, p, last
  <2>11. moved = IF i = Len(cell) THEN 0 ELSE last
    BY <2>4 DEF moved, MovedId, last, i
  <2>12. r.archetypes = new /\ r.map = Indexed(left, id, place)
    <3> HIDE DEF left
    <3>1. CASE i = Len(cell)
      <4>1. r = stored
        BY <1>3, <1>10, <2>11, <3>1
      <4>2. left = Erased(map, id)
        BY <2>10, <3>1
      <4>3. Indexed(Erased(map, id), id, place) = Indexed(map, id, place)
        BY <1>1, <1>2, <2>7, IndexedTwice
      <4> QED
        BY <1>5, <4>1, <4>2, <4>3
    <3>2. CASE i # Len(cell)
      <4>1. Cells(new)[p] = SwapDrop(cell, i)
        BY <2>2, <2>3, <2>4 DEF CellAdded, CellRemoved, cell
      <4>2. last \in Nat \ {0} /\ IsAt(new, last, ix)
        BY <1>2, <2>3, <2>4, <3>2, <4>1, SwappedIsAt DEF p, i, last
      <4>3. r = StoreOf(new, Indexed(Indexed(map, id, place), last, ix))
        BY <1>3, <1>5, <1>10, <2>11, <3>2, <4>2 DEF SetIndex
      <4>4. last \in DOMAIN map /\ last # id
        <5>1. Len(cell) \in DOMAIN cell
          BY <2>6
        <5>2. last \in DOMAIN map /\ map[last] = PlaceIn(p, Len(cell))
          BY <1>1, <2>4, <5>1 DEF ExactCells, last, cell
        <5>3. map[last].elem = Len(cell)
          BY <2>4, <2>6, <5>2, PlaceParts
        <5> QED
          BY <1>8, <3>2, <5>2, <5>3 DEF i
      <4>5. left = Indexed(Erased(map, id), last, ix)
        BY <2>10, <3>2
      <4>6. Indexed(Indexed(Erased(map, id), last, ix), id, place) =
            Indexed(Indexed(map, id, place), last, ix)
        BY <1>1, <1>2, <2>7, <4>4, IndexedTwice
      <4> QED
        BY <4>3, <4>5, <4>6, StoreParts
    <3> QED
      BY <3>1, <3>2
  <2>13. \A j : j \in DOMAIN r.map <=> j \in DOMAIN map
    <3>1. left \in [DOMAIN left -> Places]
      BY <2>8 DEF ExactCells
    <3> HIDE DEF left
    <3>2. \A j : j \in DOMAIN Indexed(left, id, place) <=> j \in DOMAIN left \/ j = id
      BY <2>7, <3>1, IndexedType
    <3> QED
      BY <1>1, <2>8, <2>12, <3>2 DEF left
  <2> QED
    BY <1>7, <2>3, <2>9, <2>12, <2>13 DEF StoreOK
<1> QED
  BY <1>9, <1>10

\* setComponent of an entity that has the component, if it is a shared one.
LEMMA SetComponentOK ==
  ASSUME NEW s, StoreOK(s), NEW id \in DOMAIN s.map, NEW t \in Types, NEW v \in Value,
         t \in SharedTypes(Types) => t \in TypesOf(s, id),
         NEW r, r = SetComponentOf(s, id, t, v)
  PROVE  StoreOK(r) /\ \A j : j \in DOMAIN r.map <=> j \in DOMAIN s.map
<1> DEFINE archs == s.archetypes
           map   == s.map
           ix    == map[id]
           a     == ix.arch
           c     == ix.chunk
           arch  == archs[a]
           chunk == arch.chunks[c]
           set   == ChunkSet(chunk, ix.elem, t, v)
           made  == WithChunk(arch, c, set)
           new   == Stored(archs, a, made)
<1>1. TableOK(archs) /\ ExactCells(Cells(archs), map)
  BY DEF StoreOK
<1>2. /\ map \in [DOMAIN map -> Places]
      /\ ix \in Places
      /\ ix.elem \in DOMAIN Cells(archs)[Cell(ix)]
  BY <1>1 DEF ExactCells
<1>3. CASE t \in SharedTypes(Types)
  <2>1. r = SetSharedAt(s, id, s.map[id], t, v)
    BY <1>3 DEF SetComponentOf
  <2>2. t \in SharedTypes(TypesOf(s, id))
    BY <1>3 DEF SharedTypes
  <2> QED
    BY <2>1, <2>2, SetSharedAtOK
<1>4. CASE t \notin SharedTypes(Types) /\ t \notin ArrayTypes(TypesOf(s, id))
  BY <1>4 DEF SetComponentOf
<1>5. CASE t \notin SharedTypes(Types) /\ t \in ArrayTypes(TypesOf(s, id))
  <2>1. r = StoreOf(new, map)
    BY <1>5 DEF SetComponentOf
  <2>2. t \in ArrayTypes(arch.types)
    BY <1>5 DEF TypesOf
  <2>3. s.map = map
    OBVIOUS
  <2> HIDE DEF map, archs, ix
  <2>4. /\ a \in Nat /\ c \in Nat
        /\ Occupied(archs, a)
        /\ ArchOK(arch)
        /\ Occupied(arch.chunks, c)
        /\ chunk.ids = Cells(archs)[Cell(ix)]
    BY <1>1, <1>2, PlacePointsAt
  <2> HIDE DEF arch
  <2>5. arch.types \in SUBSET Types /\ IsChunk(chunk, arch.types)
        /\ Len(chunk.ids) <= Capacity[arch.types]
        /\ ChunkIds(arch, c) = chunk.ids
    BY <2>4, ArchetypeFields
  <2>6. IsChunk(set, arch.types) /\ set.ids = chunk.ids
    <3> DEFINE i  == ix.elem
               ts == arch.types
    <3>1. i \in DOMAIN chunk.ids /\ t \in ArrayTypes(ts) /\ ts \in SUBSET Types /\ IsChunk(chunk, ts)
      BY <1>2, <2>2, <2>4, <2>5
    <3> HIDE DEF i, ts, chunk
    <3>2. IsChunk(ChunkSet(chunk, i, t, v), ts) /\ ChunkSet(chunk, i, t, v).ids = chunk.ids
      BY <3>1, ChunkSetType
    <3> QED
      BY <3>2 DEF i, ts
  <2> HIDE DEF chunk, set
  <2>7. /\ ArchOK(made)
        /\ made.types = arch.types
        /\ Occupied(made.chunks, c)
        /\ \A d \in Nat : ChunkIds(made, d) = ChunkIds(arch, d)
    <3> HIDE DEF c, made
    <3>0. made = WithChunk(arch, c, set)
      BY DEF made
    <3>1. /\ ArchOK(made)
          /\ made.types = arch.types
          /\ Occupied(made.chunks, c)
          /\ ChunkIds(made, c) = set.ids
          /\ \A d \in Nat : d # c => ChunkIds(made, d) = ChunkIds(arch, d)
      <4>1. Len(set.ids) <= Capacity[arch.types]
        BY <2>5, <2>6
      <4> QED
        BY <2>4, <2>6, <3>0, <4>1, ArchReplace
    <3> QED
      BY <2>5, <2>6, <3>1
  <2>8. made.chunks # << >>
    <3>1. DOMAIN << >> = {}
      OBVIOUS
    <3> HIDE DEF made
    <3> QED
      BY <2>7, <3>1 DEF Occupied
  <2> HIDE DEF made, a, c
  <2>9. /\ TableOK(new)
        /\ Occupied(new, a)
        /\ new[a] = made
        /\ SameElse(archs, new, a)
    <3>1. made.types = archs[a].types /\ new = Stored(archs, a, made)
      BY <2>7 DEF arch
    <3> HIDE DEF new
    <3>2. /\ TableOK(new)
          /\ Occupied(new, a)
          /\ new[a] = made
          /\ \A b : b # a => SameSlot(archs, new, b)
      BY <1>1, <2>4, <2>7, <2>8, <3>1, TableReplaced
    <3> QED
      BY <3>2 DEF SameElse
  <2> HIDE DEF new
  <2>10. Cells(new) = Cells(archs)
    <3>1. ASSUME NEW p \in CellIndex PROVE IdsAt(new, p[1], p[2]) = IdsAt(archs, p[1], p[2])
      <4>1. CASE p[1] = a
        <5>1. p[2] \in Nat
          BY DEF CellIndex
        <5>2. IdsAt(new, a, p[2]) = ChunkIds(made, p[2])
          BY <2>9 DEF IdsAt
        <5>3. IdsAt(archs, a, p[2]) = ChunkIds(arch, p[2])
          BY <2>4 DEF IdsAt, arch
        <5> QED
          BY <2>7, <4>1, <5>1, <5>2, <5>3
      <4>2. CASE p[1] # a
        BY <2>9, <4>2 DEF SameElse, SameSlot, IdsAt
      <4> QED
        BY <4>1, <4>2
    <3> QED
      BY <3>1 DEF Cells
  <2> QED
    BY <1>1, <2>1, <2>3, <2>9, <2>10, StoreParts DEF StoreOK
<1> QED
  BY <1>3, <1>4, <1>5

-----------------------------------------------------------------------------
\* The inductive invariant.  That new ids are fresh needs the ids in use to
\* be below nextEntityId; everything else is StoreOK.
IInv ==
  /\ StoreOK(Store)
  /\ \A id \in DOMAIN entityDataIndexMap : id \in 1 .. nextEntityId - 1
  /\ nextEntityId \in 1 .. MaxId + 1
  /\ ub \in BOOLEAN

\* The current store: its table and its map are the variables.
LEMMA StoreFields ==
  /\ Store.archetypes = archetypes
  /\ Store.map = entityDataIndexMap
BY StoreParts DEF Store

\* Initially there is no archetype and no entity.
LEMMA InitOK ==
  ASSUME Init
  PROVE  IInv
<1>1. archetypes = << >> /\ entityDataIndexMap = << >> /\ nextEntityId = 1 /\ ub = FALSE
  BY DEF Init
<1>2. DOMAIN << >> = {} /\ Len(<< >>) = 0
  BY EmptySeq
<1>3. TableOK(<< >>)
  <2>1. IsSequence(<< >>)
    BY <1>2 DEF IsSequence
  <2> QED
    BY <1>2, <2>1 DEF TableOK, Trimmed, Occupied
<1>4. \A a, c \in Nat : Cells(<< >>)[<<a, c>>] = << >>
  BY <1>2, <1>3, CellsType DEF IdsAt, Occupied
<1>5. ExactCells(Cells(<< >>), << >>)
  <2>1. Cells(<< >>) \in [CellIndex -> Seq(Nat \ {0})]
    BY <1>3, CellsType
  <2>2. << >> \in [DOMAIN << >> -> Places]
    BY <1>2
  <2>3. \A p \in CellIndex : Cells(<< >>)[p] = << >>
    BY <1>4 DEF CellIndex
  <2> QED
    BY <1>2, <2>1, <2>2, <2>3 DEF ExactCells
<1>6. StoreOK(Store)
  BY <1>1, <1>3, <1>5, StoreFields DEF StoreOK
<1>7. nextEntityId \in 1 .. MaxId + 1
  BY <1>1, ClientAssumption
<1> QED
  BY <1>1, <1>2, <1>6, <1>7 DEF IInv

\* An operation on an entity: it does not add an entity.
LEMMA OperationOK ==
  ASSUME IInv, NEW id, NEW r, NEW faults \in BOOLEAN, Operation(id, r, faults),
         ~ faults => StoreOK(r) /\ \A j : j \in DOMAIN r.map => j \in DOMAIN entityDataIndexMap
  PROVE  IInv'
<1>1. ub' = faults /\ nextEntityId' = nextEntityId
  BY DEF Operation, Becomes
<1>2. CASE faults
  <2>1. UNCHANGED <<archetypes, entityDataIndexMap>>
    BY <1>2 DEF Operation, Becomes
  <2>2. Store' = Store
    BY <2>1 DEF Store
  <2> QED
    BY <1>1, <2>1, <2>2 DEF IInv
<1>3. CASE ~ faults
  <2>1. archetypes' = r.archetypes /\ entityDataIndexMap' = r.map
    BY <1>3 DEF Operation, Becomes
  <2>2. Store'.archetypes = r.archetypes /\ Store'.map = r.map
    BY <2>1 DEF Store, StoreOf
  <2>3. StoreOK(Store)'
    BY <1>3, <2>2 DEF StoreOK
  <2> QED
    BY <1>1, <1>3, <2>1, <2>3 DEF IInv
<1> QED
  BY <1>2, <1>3

\* A creation: it adds the entity nextEntityId.
LEMMA CreationOK ==
  ASSUME IInv, NEW ts \in SUBSET Types, NEW a, a = ArchetypeSlot(archetypes, ts),
         NEW with, with = WithArchetype(archetypes, ts), nextEntityId \in 1 .. MaxId,
         NEW chosen, chosen.slot \in Nat, Added(with[a], chosen.arch, chosen.slot, nextEntityId),
         Created(with, a, chosen)
  PROVE  IInv'
<1> DEFINE id == nextEntityId
           r  == SetIndex(StoreOf(Stored(with, a, chosen.arch), entityDataIndexMap),
                          id, LastPlace(a, chosen))
<1>1. /\ archetypes' = r.archetypes /\ entityDataIndexMap' = r.map
      /\ ub' = FALSE
      /\ nextEntityId' = nextEntityId + 1
  BY DEF Created, Becomes
<1>2. id \in Nat \ {0} /\ id \notin DOMAIN entityDataIndexMap
  BY ClientAssumption DEF IInv
<1>3. StoreOK(r) /\ \A j : j \in DOMAIN r.map <=> j \in DOMAIN entityDataIndexMap \/ j = id
  <2> DEFINE s == Store
  <2>1. s.archetypes = archetypes /\ s.map = entityDataIndexMap /\ StoreOK(s)
    BY StoreFields DEF IInv
  <2> HIDE DEF s
  <2>2. r = SetIndex(StoreOf(Stored(with, a, chosen.arch), s.map), id, LastPlace(a, chosen))
    BY <2>1
  <2> HIDE DEF r, id
  <2>3. Added(with[a], chosen.arch, chosen.slot, id)
    BY DEF id
  <2>4. id \notin DOMAIN s.map /\ a = ArchetypeSlot(s.archetypes, ts)
        /\ with = WithArchetype(s.archetypes, ts)
    BY <1>2, <2>1
  <2>5. StoreOK(r) /\ \A j : j \in DOMAIN r.map <=> j \in DOMAIN s.map \/ j = id
    BY <1>2, <2>1, <2>2, <2>3, <2>4, CreatedOK
  <2> QED
    BY <2>1, <2>5
<1> HIDE DEF r
<1>4. Store'.archetypes = r.archetypes /\ Store'.map = r.map
  BY <1>1 DEF Store, StoreOf
<1>5. StoreOK(Store)'
  BY <1>3, <1>4 DEF StoreOK
<1>6. \A j \in DOMAIN entityDataIndexMap' : j \in 1 .. nextEntityId' - 1
  BY <1>1, <1>3 DEF IInv
<1>7. nextEntityId' \in 1 .. MaxId + 1
  BY <1>1, ClientAssumption
<1> QED
  BY <1>1, <1>5, <1>6, <1>7 DEF IInv

\* What an entity is, while the invariant holds.
LEMMA EntityFields ==
  ASSUME IInv, NEW id \in DOMAIN entityDataIndexMap
  PROVE  /\ StoreOK(Store)
         /\ id \in DOMAIN Store.map
         /\ TypesOf(Store, id) \in SUBSET Types
<1> DEFINE ix == entityDataIndexMap[id]
<1>1. /\ TableOK(archetypes)
      /\ ExactCells(Cells(archetypes), entityDataIndexMap)
      /\ StoreOK(Store)
  BY StoreFields DEF IInv, StoreOK
<1>2. ix \in Places /\ ix.elem \in DOMAIN Cells(archetypes)[Cell(ix)]
  BY <1>1 DEF ExactCells
<1>3. TypesOf(Store, id) = archetypes[ix.arch].types
  BY StoreFields DEF TypesOf
<1> HIDE DEF ix
<1>4. Occupied(archetypes, ix.arch)
  BY <1>1, <1>2, PlacePointsAt
<1>5. archetypes[ix.arch].types \in SUBSET Types
  BY <1>1, <1>4, TableFields
<1> QED
  BY <1>1, <1>3, <1>5, StoreFields

\* createEntity<Ts...>()
LEMMA CreateEntityOK ==
  ASSUME IInv, NEW ts \in SUBSET ClientTypes, CreateEntity(ts)
  PROVE  IInv'
<1> DEFINE a    == ArchetypeSlot(archetypes, ts)
           with == WithArchetype(archetypes, ts)
           made == ArchCreate(with[a], nextEntityId)
<1>1. nextEntityId \in 1 .. MaxId /\ Created(with, a, made)
  BY DEF CreateEntity
<1>2. TableOK(archetypes) /\ ts \in SUBSET Types
  BY StoreFields, ClientAssumption DEF IInv, StoreOK
<1>3. nextEntityId \in Nat \ {0}
  BY <1>1, ClientAssumption
<1>4. ArchOK(with[a])
  BY <1>2, WithArchetypeType
<1>5. made.slot \in Nat /\ Added(with[a], made.arch, made.slot, nextEntityId)
  <2> DEFINE arch == with[a]
  <2> HIDE DEF arch
  <2>1. LET m == ArchCreate(arch, nextEntityId)
        IN  m.slot \in Nat /\ Added(arch, m.arch, m.slot, nextEntityId)
    BY <1>3, <1>4, ArchCreateAdded DEF arch
  <2> QED
    BY <2>1 DEF arch
<1> HIDE DEF made
<1> QED
  BY <1>1, <1>2, <1>5, CreationOK

\* createEntity(values...)
LEMMA CreateEntityWithValuesOK ==
  ASSUME IInv, NEW ts \in SUBSET ClientTypes, NEW values \in Initials(ts),
         CreateEntityWithValues(values)
  PROVE  IInv'
<1> DEFINE a    == ArchetypeSlot(archetypes, ts)
           with == WithArchetype(archetypes, ts)
           made == ArchAllocate(with[a], nextEntityId, values)
<1>1. values \in [ts -> Value] /\ DOMAIN values = ts
  BY DEF Initials
<1>2. nextEntityId \in 1 .. MaxId /\ Created(with, a, made)
  BY <1>1 DEF CreateEntityWithValues
<1>3. TableOK(archetypes) /\ ts \in SUBSET Types
  BY StoreFields, ClientAssumption DEF IInv, StoreOK
<1>4. nextEntityId \in Nat \ {0}
  BY <1>2, ClientAssumption
<1>5. ArchOK(with[a]) /\ with[a].types = ts
  BY <1>3, WithArchetypeType
<1>6. made.slot \in Nat /\ Added(with[a], made.arch, made.slot, nextEntityId)
  <2> DEFINE arch == with[a]
  <2>1. values \in [arch.types -> Value]
    BY <1>1, <1>5
  <2> HIDE DEF arch
  <2>2. LET m == ArchAllocate(arch, nextEntityId, values)
        IN  m.slot \in Nat /\ Added(arch, m.arch, m.slot, nextEntityId)
    BY <1>4, <1>5, <2>1, ArchAllocateAdded DEF arch
  <2> QED
    BY <2>2 DEF arch
<1> HIDE DEF made
<1> QED
  BY <1>2, <1>3, <1>6, CreationOK

\* deleteEntity
LEMMA DeleteEntityOK ==
  ASSUME IInv, NEW id \in DOMAIN entityDataIndexMap, DeleteEntity(id)
  PROVE  IInv'
<1> DEFINE r      == DeleteEntityOf(Store, id)
           faults == DeleteFaults(Store, id)
           kept   == StateTypes(TypesOf(Store, id))
           ts     == kept \cup {DeletedEntity}
<1>1. Operation(id, r, faults)
  BY DEF DeleteEntity
<1>2. faults \in BOOLEAN
  BY DEF DeleteFaults
<1>3. StoreOK(Store) /\ id \in DOMAIN Store.map /\ TypesOf(Store, id) \in SUBSET Types
  BY EntityFields
<1>4. ts \in SUBSET Types
  BY <1>3, TypesAssumption DEF StateTypes
<1>5. r = IF kept = {} THEN RemoveEntity(Store, id) ELSE ChangeComponents(Store, id, ts)
  BY DEF DeleteEntityOf
<1> HIDE DEF ts, kept, r, faults
<1>6. StoreOK(r) /\ \A j : j \in DOMAIN r.map => j \in DOMAIN Store.map
  <2>1. CASE kept = {}
    BY <1>3, <1>5, <2>1, RemoveEntityOK
  <2>2. CASE kept # {}
    BY <1>3, <1>4, <1>5, <2>2, ChangeComponentsOK
  <2> QED
    BY <2>1, <2>2
<1> QED
  BY <1>1, <1>2, <1>6, OperationOK, StoreFields

\* changeComponents, and deleteComponents, which calls it
LEMMA ChangeOK ==
  ASSUME IInv, NEW id \in DOMAIN entityDataIndexMap, NEW ts \in SUBSET Types,
         Operation(id, ChangeComponents(Store, id, ts), ChangeFaults(Store, id, ts))
  PROVE  IInv'
<1> DEFINE r      == ChangeComponents(Store, id, ts)
           faults == ChangeFaults(Store, id, ts)
<1>1. Operation(id, r, faults)
  OBVIOUS
<1>2. faults \in BOOLEAN
  BY DEF ChangeFaults
<1>3. StoreOK(Store) /\ id \in DOMAIN Store.map
  BY EntityFields
<1>4. r = ChangeComponents(Store, id, ts)
  OBVIOUS
<1> HIDE DEF r, faults
<1>5. StoreOK(r) /\ \A j : j \in DOMAIN r.map => j \in DOMAIN Store.map
  BY <1>3, <1>4, ChangeComponentsOK
<1> QED
  BY <1>1, <1>2, <1>5, OperationOK, StoreFields

\* Ecs::deleteComponents preserves the inductive invariant.
LEMMA DeleteComponentsOK ==
  ASSUME IInv, NEW id \in DOMAIN entityDataIndexMap, NEW ts \in SUBSET ClientTypes,
         DeleteComponents(id, ts)
  PROVE  IInv'
<1> DEFINE left == TypesOf(Store, id) \ ts
<1>1. left \in SUBSET Types
  BY EntityFields
<1>2. Operation(id, ChangeComponents(Store, id, left), ChangeFaults(Store, id, left))
  BY DEF DeleteComponents
<1> HIDE DEF left
<1> QED
  BY <1>1, <1>2, ChangeOK

\* Ecs::changeComponents, called by a client, preserves the inductive invariant.
LEMMA ChangeTypesOK ==
  ASSUME IInv, NEW id \in DOMAIN entityDataIndexMap, NEW ts \in SUBSET ClientTypes,
         ChangeTypes(id, ts)
  PROVE  IInv'
<1>1. ts \in SUBSET Types
  BY ClientAssumption
<1> QED
  BY <1>1, ChangeOK DEF ChangeTypes

\* addComponent: the entity has the component when it is set.
LEMMA AddComponentOK ==
  ASSUME IInv, NEW id \in DOMAIN entityDataIndexMap, NEW t \in ClientTypes,
         NEW v \in ValuesOf(t), AddComponent(id, t, v)
  PROVE  IInv'
<1> DEFINE ts      == TypesOf(Store, id) \cup {t}
           changed == ChangeComponents(Store, id, ts)
           r       == SetComponentOf(changed, id, t, v)
           faults  == ChangeFaults(Store, id, ts)
<1>1. Operation(id, r, faults)
  BY DEF AddComponent
<1>2. faults \in BOOLEAN
  BY DEF ChangeFaults
<1>3. StoreOK(Store) /\ id \in DOMAIN Store.map /\ TypesOf(Store, id) \in SUBSET Types
  BY EntityFields
<1>4. t \in Types /\ t # DeletedEntity /\ v \in Value
  BY ClientAssumption, TypesAssumption DEF ValuesOf
<1>5. t \in ts /\ ts \in SUBSET Types /\ ~ Vanishes(ts)
  BY <1>3, <1>4 DEF Vanishes
<1> HIDE DEF ts, faults
<1>6. /\ StoreOK(changed)
      /\ \A j : j \in DOMAIN changed.map => j \in DOMAIN Store.map
      /\ id \in DOMAIN changed.map
      /\ TypesOf(changed, id) = ts
  <2>1. changed = ChangeComponents(Store, id, ts)
    OBVIOUS
  <2> HIDE DEF changed
  <2> QED
    BY <1>3, <1>5, <2>1, ChangeComponentsOK
<1> HIDE DEF changed
<1>7. StoreOK(r) /\ \A j : j \in DOMAIN r.map <=> j \in DOMAIN changed.map
  <2>1. r = SetComponentOf(changed, id, t, v) /\ t \in TypesOf(changed, id)
    BY <1>5, <1>6
  <2> HIDE DEF r
  <2> QED
    BY <1>4, <1>6, <2>1, SetComponentOK
<1> HIDE DEF r
<1> QED
  BY <1>1, <1>2, <1>6, <1>7, OperationOK, StoreFields

\* setComponent and setSharedComponent
LEMMA SetComponentStepOK ==
  ASSUME IInv, NEW id \in DOMAIN entityDataIndexMap, NEW t \in Types,
         NEW v \in ValuesOf(t), SetComponent(id, t, v)
  PROVE  IInv'
<1> DEFINE r      == SetComponentOf(Store, id, t, v)
           faults == t \in SharedTypes(Types) \ TypesOf(Store, id)
<1>1. Operation(id, r, faults)
  BY DEF SetComponent
<1>2. faults \in BOOLEAN
  OBVIOUS
<1>3. StoreOK(Store) /\ id \in DOMAIN Store.map
  BY EntityFields
<1>4. t \in Types /\ v \in Value
  BY TypesAssumption DEF ValuesOf
<1>5. ASSUME ~ faults
      PROVE  StoreOK(r) /\ \A j : j \in DOMAIN r.map <=> j \in DOMAIN Store.map
  <2>1. t \in SharedTypes(Types) => t \in TypesOf(Store, id)
    BY <1>5
  <2>2. r = SetComponentOf(Store, id, t, v)
    OBVIOUS
  <2> HIDE DEF r, faults
  <2> QED
    BY <1>3, <1>4, <2>1, <2>2, SetComponentOK
<1> HIDE DEF r, faults
<1> QED
  BY <1>1, <1>2, <1>5, OperationOK, StoreFields

\* Every step keeps the invariant: one case for each action.
LEMMA StepOK ==
  ASSUME IInv, [Next]_vars
  PROVE  IInv'
<1>1. ASSUME NEW ts \in SUBSET ClientTypes \ {{}}, CreateEntity(ts)
      PROVE  IInv'
  BY <1>1, CreateEntityOK
<1>2. ASSUME NEW ts \in SUBSET ClientTypes \ {{}}, NEW values \in Initials(ts),
             CreateEntityWithValues(values)
      PROVE  IInv'
  BY <1>2, CreateEntityWithValuesOK
<1>3. ASSUME NEW id \in DOMAIN entityDataIndexMap, DeleteEntity(id)
      PROVE  IInv'
  BY <1>3, DeleteEntityOK
<1>4. ASSUME NEW id \in DOMAIN entityDataIndexMap, NEW ts \in SUBSET ClientTypes,
             DeleteComponents(id, ts)
      PROVE  IInv'
  BY <1>4, DeleteComponentsOK
<1>5. ASSUME NEW id \in DOMAIN entityDataIndexMap, NEW ts \in SUBSET ClientTypes,
             ChangeTypes(id, ts)
      PROVE  IInv'
  BY <1>5, ChangeTypesOK
<1>6. ASSUME NEW id \in DOMAIN entityDataIndexMap, NEW t \in ClientTypes,
             NEW v \in ValuesOf(t), AddComponent(id, t, v)
      PROVE  IInv'
  BY <1>6, AddComponentOK
<1>7. ASSUME NEW id \in DOMAIN entityDataIndexMap, NEW t \in ClientTypes,
             NEW v \in ValuesOf(t), SetComponent(id, t, v)
      PROVE  IInv'
  BY <1>7, ClientAssumption, SetComponentStepOK
<1>8. CASE UNCHANGED vars
  <2>1. /\ archetypes' = archetypes /\ entityDataIndexMap' = entityDataIndexMap
        /\ nextEntityId' = nextEntityId /\ ub' = ub
    BY <1>8 DEF vars
  <2> QED
    BY <2>1 DEF IInv, Store
<1> QED
  BY <1>1, <1>2, <1>3, <1>4, <1>5, <1>6, <1>7, <1>8 DEF Next

\* The inductive invariant holds in every reachable state.
THEOREM Invariant == Spec => []IInv
<1>1. Init => IInv
  BY InitOK
<1>2. IInv /\ [Next]_vars => IInv'
  BY StepOK
<1> QED
  BY <1>1, <1>2, PTL DEF Spec

-----------------------------------------------------------------------------
\* What the invariant says of each archetype and each place.
LEMMA InvariantFields ==
  ASSUME IInv
  PROVE  /\ TableOK(archetypes)
         /\ ExactCells(Cells(archetypes), entityDataIndexMap)
BY StoreFields DEF IInv, StoreOK

\* The inductive invariant implies the type invariant.
LEMMA TypeOKHolds ==
  ASSUME IInv
  PROVE  TypeOK
<1>1. TableOK(archetypes) /\ ExactCells(Cells(archetypes), entityDataIndexMap)
  BY InvariantFields
<1>2. \A a \in DOMAIN archetypes : archetypes[a] # Null => IsArchetype(archetypes[a])
  BY <1>1, TableFields DEF Occupied, ArchOK
<1>3. DOMAIN entityDataIndexMap \subseteq 1 .. MaxId
  BY ClientAssumption DEF IInv
<1>4. entityDataIndexMap \in [DOMAIN entityDataIndexMap -> Places]
  BY <1>1 DEF ExactCells
<1>5. IsSequence(archetypes)
  BY <1>1, TableFields
<1> QED
  BY <1>2, <1>3, <1>4, <1>5 DEF IInv, TypeOK

\* The inductive invariant implies that map and chunks agree.
LEMMA IndexMapExactHolds ==
  ASSUME IInv
  PROVE  IndexMapExact
<1> DEFINE map   == entityDataIndexMap
           cells == Cells(archetypes)
<1>1. TableOK(archetypes) /\ ExactCells(cells, map)
  BY InvariantFields
<1>2. ASSUME NEW id \in DOMAIN map
      PROVE  IsAt(archetypes, id, map[id])
  <2>1. /\ map[id] \in Places
        /\ map[id].elem \in DOMAIN cells[Cell(map[id])]
        /\ cells[Cell(map[id])][map[id].elem] = id
    BY <1>1 DEF ExactCells
  <2>2. id # 0
    BY ClientAssumption DEF IInv
  <2> QED
    BY <1>1, <2>1, <2>2, IsAtCells
<1>3. ASSUME NEW a \in DOMAIN archetypes, archetypes[a] # Null,
             NEW c \in DOMAIN archetypes[a].chunks, archetypes[a].chunks[c] # Null,
             NEW e \in DOMAIN archetypes[a].chunks[c].ids
      PROVE  /\ archetypes[a].chunks[c].ids[e] \in DOMAIN map
             /\ map[archetypes[a].chunks[c].ids[e]] = [arch |-> a, chunk |-> c, elem |-> e]
  <2> DEFINE arch == archetypes[a]
             ids  == arch.chunks[c].ids
             p    == <<a, c>>
  <2>1. Occupied(archetypes, a) /\ Occupied(arch.chunks, c) /\ e \in DOMAIN ids
    BY <1>3 DEF Occupied
  <2>2. a \in Nat /\ ArchOK(arch)
    BY <1>1, <2>1, TableFields
  <2>3. c \in Nat
    <3> HIDE DEF arch
    <3>1. IsSequence(arch.chunks) /\ c \in 1 .. Len(arch.chunks)
      BY <2>1, <2>2, ArchetypeFields
    <3>2. Len(arch.chunks) \in Nat
      BY <3>1, SequenceType
    <3> QED
      BY <3>1, <3>2
  <2>4. p \in CellIndex /\ cells[p] = IdsAt(archetypes, a, c)
    BY <1>1, <2>2, <2>3, CellsType DEF CellIndex
  <2>5. cells[p] = ids
    BY <2>1, <2>4 DEF IdsAt, ChunkIds
  <2> HIDE DEF ids, cells, p
  <2>6. ids[e] \in DOMAIN map /\ map[ids[e]] = PlaceIn(p, e)
    BY <1>1, <2>1, <2>4, <2>5 DEF ExactCells
  <2>7. PlaceIn(p, e) = [arch |-> a, chunk |-> c, elem |-> e]
    BY DEF PlaceIn, p
  <2> QED
    BY <2>6, <2>7 DEF ids
<1> QED
  BY <1>2, <1>3, StoreFields DEF IndexMapExact, Exact

\* The inductive invariant implies that no chunk is over its capacity.
LEMMA ChunksFitHolds ==
  ASSUME IInv
  PROVE  ChunksFit
<1>1. \A a \in DOMAIN archetypes : archetypes[a] # Null => ArchOK(archetypes[a])
  BY InvariantFields, TableFields DEF Occupied
<1> QED
  BY <1>1 DEF ChunksFit, ArchOK

\* The inductive invariant implies that archetypes have different types.
LEMMA ArchetypesDistinctHolds ==
  ASSUME IInv
  PROVE  ArchetypesDistinct
BY InvariantFields, TableFields DEF ArchetypesDistinct, Occupied

\* The inductive invariant implies that free slots are reclaimed.
LEMMA SlotsReclaimedHolds ==
  ASSUME IInv
  PROVE  SlotsReclaimed
<1>1. Trimmed(archetypes)
  BY InvariantFields, TableFields
<1>2. \A a \in DOMAIN archetypes : archetypes[a] # Null =>
        archetypes[a].chunks # << >> /\ ArchOK(archetypes[a])
  BY InvariantFields, TableFields DEF Occupied
<1> QED
  BY <1>1, <1>2 DEF SlotsReclaimed, ArchOK

\* Every archetype and chunk is well formed in every reachable state, and the
\* map holds places: for every set of types, capacity and bound.
THEOREM TypeCorrectness == Spec => []TypeOK
BY Invariant, TypeOKHolds, PTL

\* entityDataIndexMap_ and the chunks agree after every operation of an
\* Ecs: what setEntityIndexMap checks of one entry holds of all.
THEOREM IndexExactness == Spec => []IndexMapExact
BY Invariant, IndexMapExactHolds, PTL

\* No chunk ever holds more entities than its buffer has room for.
THEOREM CapacityRespected == Spec => []ChunksFit
BY Invariant, ChunksFitHolds, PTL

\* No two archetypes have the same types, which createArchetype relies on and
\* has to maintain.
THEOREM ArchetypeUniqueness == Spec => []ArchetypesDistinct
BY Invariant, ArchetypesDistinctHolds, PTL

\* deleteChunk and deleteArchetype leave no trailing empty slot, and no
\* archetype without a chunk.
THEOREM SlotReclamation == Spec => []SlotsReclaimed
BY Invariant, SlotsReclaimedHolds, PTL

-----------------------------------------------------------------------------
\* A move to an archetype with no type but some of the entity's own and tags
\* finds a source for every shared value it copies.
LEMMA ChangeDoesNotFault ==
  ASSUME IInv, NEW id \in DOMAIN entityDataIndexMap, NEW ts \in SUBSET Types,
         ts \subseteq TypesOf(Store, id) \cup {DeletedEntity}
  PROVE  ~ ChangeFaults(Store, id, ts)
<1> DEFINE a    == ArchetypeSlot(archetypes, ts)
           with == WithArchetype(archetypes, ts)
           ix   == entityDataIndexMap[id]
           us   == archetypes[ix.arch].types
           source == archetypes[ix.arch].chunks[ix.chunk]
<1>1. TableOK(archetypes) /\ ExactCells(Cells(archetypes), entityDataIndexMap)
  BY InvariantFields
<1>2. TypesOf(Store, id) = us /\ ChunkOf(Store, id) = source
  BY StoreFields DEF TypesOf, ChunkOf
<1>3. ix \in Places /\ ix.elem \in DOMAIN Cells(archetypes)[Cell(ix)]
  BY <1>1 DEF ExactCells
<1>4. with[a].types = ts
  BY <1>1, WithArchetypeType
<1>5. us \in SUBSET Types /\ IsChunk(source, us)
  <2> DEFINE arch == archetypes[ix.arch]
  <2> HIDE DEF ix
  <2>1. ArchOK(arch) /\ Occupied(arch.chunks, ix.chunk)
    BY <1>1, <1>3, PlacePointsAt
  <2> HIDE DEF arch
  <2>2. arch.types \in SUBSET Types /\ IsChunk(arch.chunks[ix.chunk], arch.types)
    BY <2>1, ArchetypeFields
  <2> QED
    BY <2>2 DEF arch
<1>6. DOMAIN source.shared = SharedTypes(us)
  <2> HIDE DEF source, us
  <2> QED
    BY <1>5, ChunkFields
<1>7. SharedTypes(ts) \subseteq SharedTypes(us)
  BY <1>2, TypesAssumption DEF SharedTypes
<1>8. ~ MoveReadsNull(with[a], source)
  <2> HIDE DEF a, with, source, us
  <2> QED
    BY <1>4, <1>6, <1>7 DEF MoveReadsNull
<1> QED
  BY <1>2, <1>8, StoreFields DEF ChangeFaults

\* One step of DeletionIsDefined.
LEMMA DeletionStep ==
  ASSUME IInv, [Next]_vars
  PROVE  [ub' => \A id \in DOMAIN entityDataIndexMap :
                   /\ ~ DeleteEntity(id)
                   /\ \A ts \in SUBSET ClientTypes : ~ DeleteComponents(id, ts)]_vars
<1>1. ASSUME NEW id \in DOMAIN entityDataIndexMap, DeleteEntity(id)
      PROVE  ~ ub'
  <2> DEFINE types == TypesOf(Store, id)
             ts    == StateTypes(types) \cup {DeletedEntity}
  <2>1. types \in SUBSET Types
    BY EntityFields
  <2>2. ts \in SUBSET Types /\ ts \subseteq types \cup {DeletedEntity}
    BY <2>1, TypesAssumption DEF StateTypes
  <2>3. ub' = DeleteFaults(Store, id)
    BY <1>1 DEF DeleteEntity, Operation, Becomes
  <2>4. DeleteFaults(Store, id) = (StateTypes(types) # {} /\ ChangeFaults(Store, id, ts))
    BY DEF DeleteFaults
  <2> HIDE DEF ts
  <2>5. ~ ChangeFaults(Store, id, ts)
    BY <2>2, ChangeDoesNotFault
  <2> QED
    BY <2>3, <2>4, <2>5
<1>2. ASSUME NEW id \in DOMAIN entityDataIndexMap, NEW ts \in SUBSET ClientTypes,
             DeleteComponents(id, ts)
      PROVE  ~ ub'
  <2> DEFINE left == TypesOf(Store, id) \ ts
  <2>1. left \in SUBSET Types /\ left \subseteq TypesOf(Store, id) \cup {DeletedEntity}
    BY EntityFields
  <2>2. ub' = ChangeFaults(Store, id, left)
    BY <1>2 DEF DeleteComponents, Operation, Becomes
  <2> HIDE DEF left
  <2>3. ~ ChangeFaults(Store, id, left)
    BY <2>1, ChangeDoesNotFault
  <2> QED
    BY <2>2, <2>3
<1> QED
  BY <1>1, <1>2

\* deleteEntity and deleteComponents never read through a null pointer,
\* however shared components are spread over types and archetypes.
THEOREM DeletionDefined == Spec => DeletionIsDefined
<1>1. IInv /\ [Next]_vars =>
        [ub' => \A id \in DOMAIN entityDataIndexMap :
                  /\ ~ DeleteEntity(id)
                  /\ \A ts \in SUBSET ClientTypes : ~ DeleteComponents(id, ts)]_vars
  BY DeletionStep
<1> QED
  BY <1>1, Invariant, PTL DEF Spec, DeletionIsDefined

-----------------------------------------------------------------------------
\* Rows.

\* A row: comps has the components that are stored for each entity, shared
\* those that a chunk has once.
Row(ts, shared, comps) ==
  [t \in ts |-> IF t \in EmptyTypes THEN Default
                ELSE IF t \in SharedTypes(ts) THEN shared[t] ELSE comps[t]]

\* The row at position e of a chunk with the types ts.
RowAt(chunk, ts, e) ==
  Row(ts, chunk.shared, [t \in ArrayTypes(ts) |-> chunk.comps[t][e]])

\* A row with the element v of type t.
RowWith(row, t, v) == [row EXCEPT ![t] = v]

\* The entity id is in the chunk, archetype or table with that row.
ChunkHas(chunk, ts, id, row) ==
  \E e \in DOMAIN chunk.ids : chunk.ids[e] = id /\ RowAt(chunk, ts, e) = row

ArchHas(arch, id, row) ==
  \E c : Occupied(arch.chunks, c) /\ ChunkHas(arch.chunks[c], arch.types, id, row)

Has(archs, id, row) == \E a : Occupied(archs, a) /\ ArchHas(archs[a], id, row)

-----------------------------------------------------------------------------
\* Chunks.

\* The types that a chunk keeps one array of are the others.
LEMMA RowTypes ==
  ASSUME NEW ts
  PROVE  \A t \in ts : t \notin EmptyTypes /\ t \notin SharedTypes(ts) => t \in ArrayTypes(ts)
BY DEF ArrayTypes, SharedTypes

\* Two rows are the same if their elements are.
LEMMA SameRow ==
  ASSUME NEW ts, NEW shared, NEW f, NEW g, \A t \in ArrayTypes(ts) : f[t] = g[t]
  PROVE  Row(ts, shared, f) = Row(ts, shared, g)
BY RowTypes DEF Row

\* An entity with the elements of f is added to a chunk.
LEMMA GrownHas ==
  ASSUME NEW ts \in SUBSET Types, NEW chunk, IsChunk(chunk, ts),
         NEW id \in Nat \ {0}, NEW f \in [ArrayTypes(ts) -> Element],
         NEW new, new = [ids    |-> Append(chunk.ids, id),
                         comps  |-> [t \in ArrayTypes(ts) |-> Append(chunk.comps[t], f[t])],
                         shared |-> chunk.shared]
  PROVE  /\ \A j, row : ChunkHas(chunk, ts, j, row) => ChunkHas(new, ts, j, row)
         /\ ChunkHas(new, ts, id, Row(ts, chunk.shared, f))
<1> DEFINE len == Len(chunk.ids)
<1>1. /\ chunk.ids \in Seq(Nat \ {0})
      /\ len \in Nat
      /\ DOMAIN chunk.ids = 1 .. len
      /\ chunk.comps \in [ArrayTypes(ts) -> Seq(Element)]
      /\ \A t \in ArrayTypes(ts) : Len(chunk.comps[t]) = len
  BY ChunkFields
<1>2. /\ DOMAIN new.ids = 1 .. len + 1
      /\ \A e \in 1 .. len : new.ids[e] = chunk.ids[e]
      /\ new.ids[len + 1] = id
  <2> DEFINE ids == chunk.ids
  <2>1. ids \in Seq(Nat \ {0}) /\ len = Len(ids)
    BY <1>1
  <2> HIDE DEF ids
  <2>2. /\ Append(ids, id) \in Seq(Nat \ {0})
        /\ Len(Append(ids, id)) = len + 1
        /\ \A j \in 1 .. len : Append(ids, id)[j] = ids[j]
        /\ Append(ids, id)[len + 1] = id
    BY <2>1, IdsWithType DEF IdsWith
  <2>3. new.ids = Append(ids, id)
    BY DEF ids
  <2> QED
    BY <2>2, <2>3, LenProperties DEF ids
<1>3. ASSUME NEW t \in ArrayTypes(ts)
      PROVE  /\ \A e \in 1 .. len : new.comps[t][e] = chunk.comps[t][e]
             /\ new.comps[t][len + 1] = f[t]
  <2> DEFINE array == chunk.comps[t]
             x == f[t]
  <2>1. array \in Seq(Element) /\ len = Len(array) /\ x \in Element
    BY <1>1
  <2>2. new.comps[t] = Append(array, x)
    OBVIOUS
  <2> HIDE DEF array, x, len
  <2>3. /\ \A e \in 1 .. len : Append(array, x)[e] = array[e]
        /\ Append(array, x)[len + 1] = x
    BY <2>1, AppendProperties
  <2> QED
    BY <2>2, <2>3 DEF array, x
<1>4. new.shared = chunk.shared
  OBVIOUS
<1>5. ASSUME NEW e \in 1 .. len
      PROVE  RowAt(new, ts, e) = RowAt(chunk, ts, e)
  BY <1>3, <1>4, SameRow DEF RowAt
<1>6. RowAt(new, ts, len + 1) = Row(ts, chunk.shared, f)
  BY <1>3, <1>4, SameRow DEF RowAt
<1>7. len + 1 \in DOMAIN new.ids
  BY <1>1, <1>2
<1>8. ASSUME NEW j, NEW row, ChunkHas(chunk, ts, j, row)
      PROVE  ChunkHas(new, ts, j, row)
  <2>1. PICK e \in 1 .. len : chunk.ids[e] = j /\ RowAt(chunk, ts, e) = row
    BY <1>1, <1>8 DEF ChunkHas
  <2>2. e \in DOMAIN new.ids
    BY <1>1, <1>2
  <2> QED
    BY <1>2, <1>5, <2>1, <2>2 DEF ChunkHas
<1>9. ChunkHas(new, ts, id, Row(ts, chunk.shared, f))
  BY <1>2, <1>6, <1>7 DEF ChunkHas
<1> QED
  BY <1>8, <1>9

\* Chunk::createEntity: the components of the new entity are built as T{}.
LEMMA ChunkCreateHas ==
  ASSUME NEW ts \in SUBSET Types, NEW chunk, IsChunk(chunk, ts), NEW id \in Nat \ {0},
         NEW new, new = ChunkCreate(chunk, id)
  PROVE  /\ \A j, row : ChunkHas(chunk, ts, j, row) => ChunkHas(new, ts, j, row)
         /\ ChunkHas(new, ts, id, Row(ts, chunk.shared, [t \in ArrayTypes(ts) |-> Default]))
<1> DEFINE f == [t \in ArrayTypes(ts) |-> Default]
<1>1. f \in [ArrayTypes(ts) -> Element]
  BY DefaultAndRoom DEF Element
<1>2. DOMAIN chunk.comps = ArrayTypes(ts)
  BY ChunkFields
<1>3. new = [ids    |-> Append(chunk.ids, id),
             comps  |-> [t \in ArrayTypes(ts) |-> Append(chunk.comps[t], f[t])],
             shared |-> chunk.shared]
  BY <1>2 DEF ChunkCreate
<1> HIDE DEF f
<1>4. /\ \A j, row : ChunkHas(chunk, ts, j, row) => ChunkHas(new, ts, j, row)
      /\ ChunkHas(new, ts, id, Row(ts, chunk.shared, f))
  BY <1>1, <1>3, GrownHas
<1> QED
  BY <1>4 DEF f

\* What the array components of an entity of createEntity(values...) hold.
GivenElements(ts, values) ==
  [t \in ArrayTypes(ts) |-> IF Kind[t] = "Regular" THEN values[t] ELSE Uninit]

\* Chunk::allocateEntity and the values of createEntity add one row.
LEMMA ChunkAllocateHas ==
  ASSUME NEW ts \in SUBSET Types, NEW chunk, IsChunk(chunk, ts), NEW id \in Nat \ {0},
         NEW values \in [ts -> Value], NEW new, new = ChunkAllocate(chunk, id, values)
  PROVE  /\ \A j, row : ChunkHas(chunk, ts, j, row) => ChunkHas(new, ts, j, row)
         /\ ChunkHas(new, ts, id, Row(ts, chunk.shared, GivenElements(ts, values)))
<1> DEFINE f == GivenElements(ts, values)
<1>1. f \in [ArrayTypes(ts) -> Element]
  BY DEF Element, ArrayTypes, GivenElements
<1>2. DOMAIN chunk.comps = ArrayTypes(ts)
  BY ChunkFields
<1>3. new = [ids    |-> Append(chunk.ids, id),
             comps  |-> [t \in ArrayTypes(ts) |-> Append(chunk.comps[t], f[t])],
             shared |-> chunk.shared]
  BY <1>2 DEF ChunkAllocate, GivenElements
<1> HIDE DEF f
<1>4. /\ \A j, row : ChunkHas(chunk, ts, j, row) => ChunkHas(new, ts, j, row)
      /\ ChunkHas(new, ts, id, Row(ts, chunk.shared, f))
  BY <1>1, <1>3, GrownHas
<1> QED
  BY <1>4 DEF f

\* What they hold of an entity that came from position i of another chunk.
MovedElements(ts, source, i) ==
  [t \in ArrayTypes(ts) |->
     IF t \in DOMAIN source.comps THEN source.comps[t][i] ELSE Default]

\* A move into a chunk adds the row of the moved entity, with new components
\* where the source had none.
LEMMA ChunkMoveInHas ==
  ASSUME NEW ts \in SUBSET Types, NEW chunk, IsChunk(chunk, ts),
         NEW us \in SUBSET Types, NEW source, IsChunk(source, us),
         NEW i \in DOMAIN source.ids, NEW new, new = ChunkMoveIn(chunk, source, i)
  PROVE  /\ \A j, row : ChunkHas(chunk, ts, j, row) => ChunkHas(new, ts, j, row)
         /\ ChunkHas(new, ts, source.ids[i], Row(ts, chunk.shared, MovedElements(ts, source, i)))
<1> DEFINE f  == MovedElements(ts, source, i)
           id == source.ids[i]
<1>1. /\ source.ids \in Seq(Nat \ {0})
      /\ DOMAIN source.ids = 1 .. Len(source.ids)
      /\ source.comps \in [ArrayTypes(us) -> Seq(Element)]
      /\ \A t \in ArrayTypes(us) : Len(source.comps[t]) = Len(source.ids)
  BY ChunkFields
<1>2. id \in Nat \ {0}
  BY <1>1, ElementOfSeq
<1>3. \A t \in ArrayTypes(us) : source.comps[t][i] \in Element
  BY <1>1, ElementOfSeq
<1>4. f \in [ArrayTypes(ts) -> Element]
  BY <1>1, <1>3, DefaultAndRoom DEF Element, MovedElements
<1>5. DOMAIN chunk.comps = ArrayTypes(ts)
  BY ChunkFields
<1>6. new = [ids    |-> Append(chunk.ids, id),
             comps  |-> [t \in ArrayTypes(ts) |-> Append(chunk.comps[t], f[t])],
             shared |-> chunk.shared]
  BY <1>5 DEF ChunkMoveIn, MovedElements
<1> HIDE DEF f, id
<1>7. /\ \A j, row : ChunkHas(chunk, ts, j, row) => ChunkHas(new, ts, j, row)
      /\ ChunkHas(new, ts, id, Row(ts, chunk.shared, f))
  BY <1>2, <1>4, <1>6, GrownHas
<1> QED
  BY <1>7 DEF f, id

\* Chunk::deleteEntity: the other entities keep their rows, the last one in its
\* new position.
LEMMA ChunkDeleteHas ==
  ASSUME NEW ts \in SUBSET Types, NEW chunk, IsChunk(chunk, ts), NEW i \in DOMAIN chunk.ids,
         NEW new, new = ChunkDelete(chunk, i),
         NEW j, j # chunk.ids[i], NEW row, ChunkHas(chunk, ts, j, row)
  PROVE  ChunkHas(new, ts, j, row)
<1> DEFINE len == Len(chunk.ids)
<1>1. /\ chunk.ids \in Seq(Nat \ {0})
      /\ len \in Nat
      /\ DOMAIN chunk.ids = 1 .. len
      /\ chunk.comps \in [ArrayTypes(ts) -> Seq(Element)]
      /\ \A t \in ArrayTypes(ts) : Len(chunk.comps[t]) = len
  BY ChunkFields
<1>2. PICK e \in 1 .. len : chunk.ids[e] = j /\ RowAt(chunk, ts, e) = row
  BY <1>1 DEF ChunkHas
<1>3. e # i
  BY <1>2
<1> DEFINE d == IF e = len THEN i ELSE e
<1>4. d \in 1 .. len - 1
  BY <1>1, <1>3
<1>5. /\ new.ids = SwapDrop(chunk.ids, i)
      /\ new.comps = [t \in ArrayTypes(ts) |-> SwapDrop(chunk.comps[t], i)]
      /\ new.shared = chunk.shared
  BY <1>1 DEF ChunkDelete
<1>6. ASSUME NEW seq, Len(seq) = len
      PROVE  DOMAIN SwapDrop(seq, i) = 1 .. len - 1 /\ SwapDrop(seq, i)[d] = seq[e]
  BY <1>1, <1>3, <1>4, <1>6 DEF SwapDrop
<1> HIDE DEF d
<1>7. d \in DOMAIN new.ids /\ new.ids[d] = j
  BY <1>2, <1>4, <1>5, <1>6
<1>8. \A t \in ArrayTypes(ts) : new.comps[t][d] = chunk.comps[t][e]
  BY <1>1, <1>5, <1>6
<1>9. RowAt(new, ts, d) = RowAt(chunk, ts, e)
  BY <1>5, <1>8, SameRow DEF RowAt
<1> QED
  BY <1>2, <1>7, <1>9 DEF ChunkHas

\* The element of type t of the entity at position i is replaced.
LEMMA ChunkSetHas ==
  ASSUME NEW ts \in SUBSET Types, NEW chunk, IsChunk(chunk, ts), NEW i \in DOMAIN chunk.ids,
         NEW t \in ArrayTypes(ts), NEW v, NEW new, new = ChunkSet(chunk, i, t, v)
  PROVE  /\ \A j, row : j # chunk.ids[i] /\ ChunkHas(chunk, ts, j, row)
                          => ChunkHas(new, ts, j, row)
         /\ ChunkHas(new, ts, chunk.ids[i], RowWith(RowAt(chunk, ts, i), t, v))
<1>1. /\ DOMAIN chunk.ids = 1 .. Len(chunk.ids)
      /\ chunk.comps \in [ArrayTypes(ts) -> Seq(Element)]
      /\ \A u \in ArrayTypes(ts) : Len(chunk.comps[u]) = Len(chunk.ids)
  BY ChunkFields
<1>2. /\ new.ids = chunk.ids
      /\ new.comps = [chunk.comps EXCEPT ![t] = [@ EXCEPT ![i] = v]]
      /\ new.shared = chunk.shared
  BY DEF ChunkSet
<1>3. i \in DOMAIN chunk.comps[t]
  BY <1>1, LenProperties
<1>4. ASSUME NEW e \in DOMAIN chunk.ids, NEW u \in ArrayTypes(ts)
      PROVE  new.comps[u][e] = IF u = t /\ e = i THEN v ELSE chunk.comps[u][e]
  <2>1. DOMAIN chunk.comps[t] = DOMAIN chunk.ids
    BY <1>1, LenProperties
  <2> QED
    BY <1>1, <1>2, <1>3, <2>1
<1>5. ASSUME NEW j, NEW row, j # chunk.ids[i], ChunkHas(chunk, ts, j, row)
      PROVE  ChunkHas(new, ts, j, row)
  <2>1. PICK e \in DOMAIN chunk.ids : chunk.ids[e] = j /\ RowAt(chunk, ts, e) = row
    BY <1>5 DEF ChunkHas
  <2>2. e # i
    BY <1>5, <2>1
  <2>3. RowAt(new, ts, e) = RowAt(chunk, ts, e)
    BY <1>2, <1>4, <2>2, SameRow DEF RowAt
  <2> QED
    BY <1>2, <2>1, <2>3 DEF ChunkHas
<1>6. RowAt(new, ts, i) = RowWith(RowAt(chunk, ts, i), t, v)
  <2>1. t \in ts /\ t \notin EmptyTypes /\ t \notin SharedTypes(ts)
    BY DEF ArrayTypes, SharedTypes
  <2>2. \A u \in ArrayTypes(ts) : new.comps[u][i] = IF u = t THEN v ELSE chunk.comps[u][i]
    BY <1>4
  <2>3. ASSUME NEW u \in ts
        PROVE  RowAt(new, ts, i)[u] = IF u = t THEN v ELSE RowAt(chunk, ts, i)[u]
    <3>1. u \notin EmptyTypes /\ u \notin SharedTypes(ts) => u \in ArrayTypes(ts)
      BY RowTypes
    <3> QED
      BY <1>2, <2>1, <2>2, <3>1 DEF RowAt, Row
  <2>4. DOMAIN RowAt(new, ts, i) = ts /\ DOMAIN RowAt(chunk, ts, i) = ts
    BY DEF RowAt, Row
  <2>5. RowAt(new, ts, i) = [u \in ts |-> RowAt(new, ts, i)[u]]
    BY DEF RowAt, Row
  <2> QED
    BY <2>3, <2>4, <2>5 DEF RowWith
<1> QED
  BY <1>2, <1>5, <1>6 DEF ChunkHas

-----------------------------------------------------------------------------
\* Archetypes.

\* new has every chunk of arch, in the same slot.
ArchKeeps(arch, new) ==
  /\ new.types = arch.types
  /\ \A c : Occupied(arch.chunks, c) =>
       Occupied(new.chunks, c) /\ new.chunks[c] = arch.chunks[c]

\* A chunk put into a free slot leaves the other chunks.
LEMMA PutKeeps ==
  ASSUME NEW arch, IsSequence(arch.chunks), NEW slot \in 1 .. Len(arch.chunks) + 1,
         ~ Occupied(arch.chunks, slot), NEW chunk, chunk # Null,
         NEW new, new.types = arch.types, new.chunks = PutSlot(arch.chunks, slot, chunk)
  PROVE  /\ ArchKeeps(arch, new)
         /\ Occupied(new.chunks, slot)
         /\ new.chunks[slot] = chunk
<1> DEFINE s == arch.chunks
           r == new.chunks
<1>1. /\ \A j : j \in DOMAIN r <=> j \in DOMAIN s \/ j = slot
      /\ r[slot] = chunk
      /\ \A j \in DOMAIN s : j # slot => r[j] = s[j]
  <2>1. IsSequence(s) /\ slot \in 1 .. Len(s) + 1 /\ r = PutSlot(s, slot, chunk)
    OBVIOUS
  <2> HIDE DEF s, r
  <2>2. \A i \in 1 .. Len(s) + 1 : r = PutSlot(s, i, chunk) =>
          /\ \A j : j \in DOMAIN r <=> j \in DOMAIN s \/ j = i
          /\ r[i] = chunk
          /\ \A j \in DOMAIN s : j # i => r[j] = s[j]
    BY <2>1, PutSlotType
  <2> QED
    BY <2>1, <2>2
<1> QED
  BY <1>1 DEF ArchKeeps, Occupied

\* A chunk of an archetype replaced.
LEMMA WithChunkKeeps ==
  ASSUME NEW arch, ArchOK(arch), NEW slot, Occupied(arch.chunks, slot),
         NEW chunk, chunk # Null, NEW new, new = WithChunk(arch, slot, chunk)
  PROVE  /\ new.types = arch.types
         /\ Occupied(new.chunks, slot)
         /\ new.chunks[slot] = chunk
         /\ \A c : c # slot /\ Occupied(arch.chunks, c) =>
              Occupied(new.chunks, c) /\ new.chunks[c] = arch.chunks[c]
<1>1. arch = [types |-> arch.types, chunks |-> arch.chunks, filled |-> arch.filled]
  BY ArchetypeFields
<1>2. new.types = arch.types /\ new.chunks = [arch.chunks EXCEPT ![slot] = chunk]
  BY <1>1 DEF WithChunk
<1>3. slot \in DOMAIN arch.chunks
  BY DEF Occupied
<1> DEFINE s == arch.chunks
<1>4. /\ DOMAIN [s EXCEPT ![slot] = chunk] = DOMAIN s
      /\ [s EXCEPT ![slot] = chunk][slot] = chunk
      /\ \A c \in DOMAIN s : c # slot => [s EXCEPT ![slot] = chunk][c] = s[c]
  BY <1>3
<1> QED
  BY <1>2, <1>3, <1>4 DEF Occupied

\* An entity put into the chosen chunk: the others keep their rows.
LEMMA IntoHas ==
  ASSUME NEW arch, NEW ready, Ready(arch, ready.arch, ready.slot), ArchKeeps(arch, ready.arch),
         NEW chunk, IsChunk(chunk, arch.types),
         NEW new, new = Into(ready, chunk).arch,
         NEW j, NEW row
  PROVE  /\ ChunkHas(chunk, arch.types, j, row) => ArchHas(new, j, row)
         /\ /\ ArchHas(arch, j, row)
            /\ ChunkHas(Chosen(ready), arch.types, j, row) => ChunkHas(chunk, arch.types, j, row)
            => ArchHas(new, j, row)
<1>1. chunk # Null
  BY NotNull
<1>2. new = WithChunk(ready.arch, ready.slot, chunk)
  BY DEF Into
<1>3. /\ ArchOK(ready.arch)
      /\ ready.arch.types = arch.types
      /\ Occupied(ready.arch.chunks, ready.slot)
  BY DEF Ready, HasRoom
<1>4. /\ new.types = arch.types
      /\ Occupied(new.chunks, ready.slot)
      /\ new.chunks[ready.slot] = chunk
      /\ \A c : c # ready.slot /\ Occupied(ready.arch.chunks, c) =>
           Occupied(new.chunks, c) /\ new.chunks[c] = ready.arch.chunks[c]
  <2> DEFINE old == ready.arch
             slot == ready.slot
  <2>1. ArchOK(old) /\ Occupied(old.chunks, slot) /\ new = WithChunk(old, slot, chunk)
    BY <1>2, <1>3
  <2> HIDE DEF old, slot
  <2>2. /\ new.types = old.types
        /\ Occupied(new.chunks, slot)
        /\ new.chunks[slot] = chunk
        /\ \A c : c # slot /\ Occupied(old.chunks, c) =>
             Occupied(new.chunks, c) /\ new.chunks[c] = old.chunks[c]
    BY <1>1, <2>1, WithChunkKeeps
  <2> QED
    BY <1>3, <2>2 DEF old, slot
<1>5. ASSUME ChunkHas(chunk, arch.types, j, row)
      PROVE  ArchHas(new, j, row)
  BY <1>4, <1>5 DEF ArchHas
<1>6. ASSUME ArchHas(arch, j, row),
             ChunkHas(Chosen(ready), arch.types, j, row) => ChunkHas(chunk, arch.types, j, row)
      PROVE  ArchHas(new, j, row)
  <2>1. PICK c : Occupied(arch.chunks, c) /\ ChunkHas(arch.chunks[c], arch.types, j, row)
    BY <1>6 DEF ArchHas
  <2>2. Occupied(ready.arch.chunks, c) /\ ready.arch.chunks[c] = arch.chunks[c]
    BY <2>1 DEF ArchKeeps
  <2>3. CASE c = ready.slot
    <3>1. ChunkHas(Chosen(ready), arch.types, j, row)
      BY <2>1, <2>2, <2>3 DEF Chosen
    <3> QED
      BY <1>5, <1>6, <3>1
  <2>4. CASE c # ready.slot
    BY <1>4, <2>1, <2>2, <2>4 DEF ArchHas
  <2> QED
    BY <2>3, <2>4
<1> QED
  BY <1>5, <1>6

\* A search keeps all chunks: for a new entity, ...
LEMMA ForNewEntityKeeps ==
  ASSUME NEW arch, ArchOK(arch), NEW ready, ready = ChunkForNewEntity(arch)
  PROVE  ArchKeeps(arch, ready.arch)
<1> DEFINE slot  == FreeSlot(arch.chunks)
           chunk == NewChunk(arch.types)
           new   == [types |-> arch.types, chunks |-> PutSlot(arch.chunks, slot, chunk),
                     filled |-> slot]
<1>1. CASE HasRoom(arch, arch.filled)
  BY <1>1 DEF ChunkForNewEntity, ArchKeeps
<1>2. CASE ~ HasRoom(arch, arch.filled)
  <2>1. ready.arch = new
    BY <1>2 DEF ChunkForNewEntity
  <2>2. IsSequence(arch.chunks) /\ arch.types \in SUBSET Types
    BY ArchetypeFields
  <2>3. slot \in 1 .. Len(arch.chunks) + 1 /\ ~ Occupied(arch.chunks, slot)
    BY <2>2, FreeSlotType
  <2>4. chunk # Null
    BY <2>2, NewChunkType, NotNull
  <2>5. new.types = arch.types /\ new.chunks = PutSlot(arch.chunks, slot, chunk)
    OBVIOUS
  <2> HIDE DEF slot, chunk, new
  <2> QED
    BY <2>1, <2>2, <2>3, <2>4, <2>5, PutKeeps
<1> QED
  BY <1>1, <1>2

\* A new chunk has the shared values it was made with.
LEMMA ChunkWithMatch ==
  ASSUME NEW arch, NEW data
  PROVE  SharedMatch(ChunkWith(arch, data), data)
<1> DEFINE chunk == NewChunk(arch.types)
           shared == [t \in DOMAIN chunk.shared |-> IF t \in DOMAIN data THEN data[t]
                                                    ELSE chunk.shared[t]]
<1>1. chunk = [ids |-> chunk.ids, comps |-> chunk.comps, shared |-> chunk.shared]
  BY DEF NewChunk
<1>2. ChunkWith(arch, data) = [chunk EXCEPT !.shared = shared]
  BY DEF ChunkWith, WithShared
<1>3. ChunkWith(arch, data).shared = shared
  <2> HIDE DEF chunk, shared
  <2> QED
    BY <1>1, <1>2
<1> HIDE DEF chunk
<1> QED
  BY <1>3 DEF SharedMatch

\* ... for one with certain shared values, which the chosen chunk has, ...
LEMMA WithSharedKeeps ==
  ASSUME NEW arch, ArchOK(arch), NEW data, \A t \in DOMAIN data : data[t] \in Value,
         NEW ready, ready = ChunkWithShared(arch, data)
  PROVE  ArchKeeps(arch, ready.arch) /\ SharedMatch(Chosen(ready), data)
<1> DEFINE c     == FirstFitting(arch, data)
           slot  == FreeSlot(arch.chunks)
           chunk == ChunkWith(arch, data)
           new   == [arch EXCEPT !.chunks = PutSlot(@, slot, chunk)]
<1>1. CASE c # 0
  <2>1. ready.arch = arch /\ ready.slot = c
    BY <1>1 DEF ChunkWithShared
  <2>2. SharedMatch(arch.chunks[c], data)
    BY <1>1, FirstFittingHasRoom
  <2> HIDE DEF c
  <2> QED
    BY <2>1, <2>2 DEF ArchKeeps, Chosen
<1>2. CASE c = 0
  <2>1. ready.arch = new /\ ready.slot = slot
    BY <1>2 DEF ChunkWithShared
  <2>2. /\ IsSequence(arch.chunks)
        /\ arch = [types |-> arch.types, chunks |-> arch.chunks, filled |-> arch.filled]
    BY ArchetypeFields
  <2>3. slot \in 1 .. Len(arch.chunks) + 1 /\ ~ Occupied(arch.chunks, slot)
    BY <2>2, FreeSlotType
  <2>4. chunk # Null /\ SharedMatch(chunk, data)
    BY ChunkWithType, ChunkWithMatch, NotNull
  <2> HIDE DEF slot, chunk
  <2>5. new.types = arch.types /\ new.chunks = PutSlot(arch.chunks, slot, chunk)
    BY <2>2
  <2> HIDE DEF new
  <2>6. ArchKeeps(arch, new) /\ new.chunks[slot] = chunk
    BY <2>2, <2>3, <2>4, <2>5, PutKeeps
  <2> QED
    BY <2>1, <2>4, <2>6 DEF Chosen
<1> QED
  BY <1>1, <1>2

\* ... and for one that comes from another chunk.
LEMMA ForMovedEntityKeeps ==
  ASSUME NEW arch, ArchOK(arch), NEW source,
         \A t \in DOMAIN source.shared : source.shared[t] \in Value,
         NEW ready, ready = ChunkForMovedEntity(arch, source)
  PROVE  ArchKeeps(arch, ready.arch) /\ SharedMatch(Chosen(ready), source.shared)
<1> DEFINE c     == FirstFitting(arch, source.shared)
           empty == EmptySlots(arch.chunks)
           slots == [i \in DOMAIN arch.chunks |->
                       IF i \in empty THEN NewChunk(arch.types) ELSE arch.chunks[i]]
           slot  == IF empty = {} THEN Len(slots) + 1 ELSE Max(empty)
           chunk == ChunkWith(arch, source.shared)
           new   == [arch EXCEPT !.chunks = PutSlot(slots, slot, chunk)]
           mid   == [types |-> arch.types, chunks |-> slots, filled |-> arch.filled]
<1>1. CASE c # 0
  <2>1. ready.arch = arch /\ ready.slot = c
    BY <1>1 DEF ChunkForMovedEntity
  <2>2. SharedMatch(arch.chunks[c], source.shared)
    BY <1>1, FirstFittingHasRoom
  <2> HIDE DEF c
  <2> QED
    BY <2>1, <2>2 DEF ArchKeeps, Chosen
<1>2. CASE c = 0
  <2>1. ready.arch = new /\ ready.slot = slot
    BY <1>2 DEF ChunkForMovedEntity
  <2>2. /\ IsSequence(arch.chunks)
        /\ arch = [types |-> arch.types, chunks |-> arch.chunks, filled |-> arch.filled]
    BY ArchetypeFields
  <2>3. Len(arch.chunks) \in Nat /\ DOMAIN arch.chunks = 1 .. Len(arch.chunks)
    BY <2>2, SequenceType
  <2>4. chunk # Null /\ SharedMatch(chunk, source.shared)
    BY ChunkWithType, ChunkWithMatch, NotNull
  <2>5. ArchOK(mid) /\ Len(slots) = Len(arch.chunks)
    BY AllSlotsFilled
  <2>6. IsSequence(slots)
    BY <2>5, ArchetypeFields
  <2>7. slot \in 1 .. Len(slots) + 1 /\ (slot \in empty \/ slot = Len(slots) + 1)
    <3>1. CASE empty = {}
      BY <2>3, <2>5, <3>1
    <3>2. CASE empty # {}
      <4>1. empty \subseteq 1 .. Len(arch.chunks)
        BY <2>3 DEF EmptySlots
      <4>2. empty \subseteq 0 .. Len(arch.chunks)
        BY <2>3, <4>1
      <4>3. Max(empty) \in empty
        BY <2>3, <3>2, <4>2, MaxOfNats
      <4>4. slot = Max(empty)
        BY <3>2
      <4>5. slot \in empty
        BY <4>3, <4>4
      <4>6. Len(slots) \in Nat /\ slot \in 1 .. Len(slots)
        BY <2>3, <2>5, <4>1, <4>5
      <4> HIDE DEF empty, slot, slots
      <4> QED
        BY <4>5, <4>6
    <3> QED
      BY <3>1, <3>2
  <2>8. \A d : Occupied(arch.chunks, d) => d # slot /\ d \in DOMAIN slots /\ slots[d] = arch.chunks[d]
    <3> HIDE DEF slot
    <3>1. ASSUME NEW d, Occupied(arch.chunks, d)
          PROVE  d \in 1 .. Len(arch.chunks) /\ d \notin empty
      BY <2>3, <3>1 DEF Occupied, EmptySlots
    <3> HIDE DEF empty
    <3> QED
      BY <2>3, <2>5, <2>7, <3>1
  <2> HIDE DEF slot, chunk, slots, empty, c
  <2>9. new.types = arch.types /\ new.chunks = PutSlot(slots, slot, chunk)
    BY <2>2
  <2> HIDE DEF new
  <2>10. /\ \A j : j \in DOMAIN new.chunks <=> j \in DOMAIN slots \/ j = slot
         /\ new.chunks[slot] = chunk
         /\ \A j \in DOMAIN slots : j # slot => new.chunks[j] = slots[j]
    <3> DEFINE r == new.chunks
    <3>1. r = PutSlot(slots, slot, chunk)
      BY <2>9
    <3> HIDE DEF r
    <3>2. /\ \A j : j \in DOMAIN r <=> j \in DOMAIN slots \/ j = slot
          /\ r[slot] = chunk
          /\ \A j \in DOMAIN slots : j # slot => r[j] = slots[j]
      BY <2>6, <2>7, <3>1, PutSlotType
    <3> QED
      BY <3>2 DEF r
  <2>11. ArchKeeps(arch, new)
    BY <2>8, <2>9, <2>10 DEF ArchKeeps, Occupied
  <2> QED
    BY <2>1, <2>4, <2>10, <2>11 DEF Chosen
<1> QED
  BY <1>1, <1>2

\* The shared values of a chunk of an archetype with the types ts, that are
\* those of data where data has one.
SharedLike(ts, data) ==
  {shared \in [SharedTypes(ts) -> Value] :
     \A t \in SharedTypes(ts) \cap DOMAIN data : shared[t] = data[t]}

\* The shared values of a chunk that matches data.
LEMMA MatchIsLike ==
  ASSUME NEW ts \in SUBSET Types, NEW chunk, IsChunk(chunk, ts), NEW data,
         SharedMatch(chunk, data)
  PROVE  chunk.shared \in SharedLike(ts, data)
<1>1. chunk.shared \in [SharedTypes(ts) -> Value]
  BY ChunkFields
<1> QED
  BY <1>1 DEF SharedLike, SharedMatch

\* The entities of arch, with their rows, are in new.
HasAll(arch, new) == \A j, row : ArchHas(arch, j, row) => ArchHas(new, j, row)

\* Archetype::createEntity
LEMMA ArchCreateHas ==
  ASSUME NEW arch, ArchOK(arch), NEW id \in Nat \ {0},
         NEW new, new = ArchCreate(arch, id).arch
  PROVE  /\ HasAll(arch, new)
         /\ \E shared \in [SharedTypes(arch.types) -> Value] :
              ArchHas(new, id, Row(arch.types, shared, [t \in ArrayTypes(arch.types) |-> Default]))
<1> DEFINE ready == ChunkForNewEntity(arch)
           old   == Chosen(ready)
           chunk == ChunkCreate(old, id)
           ts    == arch.types
           row   == Row(ts, old.shared, [t \in ArrayTypes(ts) |-> Default])
<1>1. Ready(arch, ready.arch, ready.slot)
  BY ChunkForNewEntityReady
<1>2. ArchKeeps(arch, ready.arch)
  <2> DEFINE r == ready
  <2>1. r = ChunkForNewEntity(arch)
    OBVIOUS
  <2> HIDE DEF r
  <2> QED
    BY <2>1, ForNewEntityKeeps
<1>3. new = Into(ready, chunk).arch
  BY DEF ArchCreate
<1> HIDE DEF ready
<1>4. IsChunk(old, ts) /\ ts \in SUBSET Types
  BY <1>1, ChosenType
<1> HIDE DEF old, ts
<1>5. IsChunk(chunk, ts)
  BY <1>4, ChunkCreateType
<1>6. chunk = ChunkCreate(old, id) /\ row = Row(ts, old.shared, [t \in ArrayTypes(ts) |-> Default])
  OBVIOUS
<1> HIDE DEF chunk, row
<1>7. /\ \A j, x : ChunkHas(old, ts, j, x) => ChunkHas(chunk, ts, j, x)
      /\ ChunkHas(chunk, ts, id, row)
  BY <1>4, <1>6, ChunkCreateHas
<1>8. \A j, x : /\ ChunkHas(chunk, ts, j, x) => ArchHas(new, j, x)
                /\ ArchHas(arch, j, x) /\ (ChunkHas(old, ts, j, x) => ChunkHas(chunk, ts, j, x))
                   => ArchHas(new, j, x)
  BY <1>1, <1>2, <1>3, <1>5, IntoHas DEF old, ts
<1>9. HasAll(arch, new) /\ ArchHas(new, id, row)
  BY <1>7, <1>8 DEF HasAll
<1>10. old.shared \in [SharedTypes(ts) -> Value]
  BY <1>4, ChunkFields
<1> QED
  BY <1>6, <1>9, <1>10 DEF ts

\* Archetype::allocateEntity
LEMMA ArchAllocateHas ==
  ASSUME NEW arch, ArchOK(arch), NEW id \in Nat \ {0}, NEW ts, ts = arch.types,
         NEW values \in [ts -> Value], NEW new, new = ArchAllocate(arch, id, values).arch
  PROVE  /\ HasAll(arch, new)
         /\ \E shared \in SharedLike(ts, values) :
              ArchHas(new, id, Row(ts, shared, GivenElements(ts, values)))
<1> DEFINE data  == SharedComponentDataList(ts, values)
           ready == ChunkWithShared(arch, data)
           old   == Chosen(ready)
           chunk == ChunkAllocate(old, id, values)
           row   == Row(ts, old.shared, GivenElements(ts, values))
<1>1. DOMAIN data = SharedTypes(ts) /\ \A t \in SharedTypes(ts) : data[t] = values[t] /\ t \in ts
  BY DEF SharedComponentDataList, SharedTypes
<1>2. new = Into(ready, chunk).arch
  BY DEF ArchAllocate
<1>3. \A t \in DOMAIN data : data[t] \in Value
  BY <1>1
<1> HIDE DEF data
<1>4. Ready(arch, ready.arch, ready.slot)
  BY <1>3, ChunkWithSharedReady
<1>5. ArchKeeps(arch, ready.arch) /\ SharedMatch(old, data)
  <2> DEFINE r == ready
  <2>1. r = ChunkWithShared(arch, data)
    OBVIOUS
  <2> HIDE DEF r
  <2>2. ArchKeeps(arch, r.arch) /\ SharedMatch(Chosen(r), data)
    BY <1>3, <2>1, WithSharedKeeps
  <2> QED
    BY <2>2 DEF r
<1> HIDE DEF ready
<1>6. IsChunk(old, ts) /\ ts \in SUBSET Types
  BY <1>4, ChosenType
<1>7. ArchKeeps(arch, ready.arch) /\ old = Chosen(ready)
  BY <1>5
<1> HIDE DEF old
<1>8. IsChunk(chunk, ts)
  BY <1>6, ChunkAllocateType
<1>9. chunk = ChunkAllocate(old, id, values) /\ row = Row(ts, old.shared, GivenElements(ts, values))
  OBVIOUS
<1> HIDE DEF chunk, row
<1>10. /\ \A j, x : ChunkHas(old, ts, j, x) => ChunkHas(chunk, ts, j, x)
       /\ ChunkHas(chunk, ts, id, row)
  BY <1>6, <1>9, ChunkAllocateHas
<1>11. \A j, x : /\ ChunkHas(chunk, ts, j, x) => ArchHas(new, j, x)
                 /\ ArchHas(arch, j, x) /\ (ChunkHas(old, ts, j, x) => ChunkHas(chunk, ts, j, x))
                    => ArchHas(new, j, x)
  BY <1>2, <1>4, <1>7, <1>8, IntoHas
<1>12. HasAll(arch, new) /\ ArchHas(new, id, row)
  BY <1>10, <1>11 DEF HasAll
<1>13. old.shared \in SharedLike(ts, data)
  BY <1>5, <1>6, MatchIsLike
<1>14. old.shared \in SharedLike(ts, values)
  BY <1>1, <1>13 DEF SharedLike
<1> QED
  BY <1>9, <1>12, <1>14

\* Archetype::moveFromEntity
LEMMA ArchMoveInHas ==
  ASSUME NEW arch, ArchOK(arch), NEW ts, ts = arch.types, NEW us \in SUBSET Types,
         NEW source, IsChunk(source, us), NEW i \in DOMAIN source.ids,
         NEW new, new = ArchMoveIn(arch, source, i).arch
  PROVE  /\ HasAll(arch, new)
         /\ \E shared \in SharedLike(ts, source.shared) :
              ArchHas(new, source.ids[i], Row(ts, shared, MovedElements(ts, source, i)))
<1> DEFINE ready == ChunkForMovedEntity(arch, source)
           old   == Chosen(ready)
           chunk == ChunkMoveIn(old, source, i)
           id    == source.ids[i]
           row   == Row(ts, old.shared, MovedElements(ts, source, i))
<1>1. source.shared \in [SharedTypes(us) -> Value]
  BY ChunkFields
<1>2. \A t \in DOMAIN source.shared : source.shared[t] \in Value
  BY <1>1
<1>3. Ready(arch, ready.arch, ready.slot)
  BY <1>2, ChunkForMovedEntityReady
<1>4. new = Into(ready, chunk).arch
  BY DEF ArchMoveIn
<1>5. ArchKeeps(arch, ready.arch) /\ SharedMatch(old, source.shared)
  <2> DEFINE r == ready
  <2>1. r = ChunkForMovedEntity(arch, source)
    OBVIOUS
  <2> HIDE DEF r
  <2>2. ArchKeeps(arch, r.arch) /\ SharedMatch(Chosen(r), source.shared)
    BY <1>2, <2>1, ForMovedEntityKeeps
  <2> QED
    BY <2>2 DEF r
<1> HIDE DEF ready
<1>6. IsChunk(old, ts) /\ ts \in SUBSET Types
  BY <1>3, ChosenType
<1>7. ArchKeeps(arch, ready.arch) /\ old = Chosen(ready)
  BY <1>5
<1> HIDE DEF old
<1>8. chunk = ChunkMoveIn(old, source, i)
      /\ id = source.ids[i]
      /\ row = Row(ts, old.shared, MovedElements(ts, source, i))
  OBVIOUS
<1> HIDE DEF chunk, row, id
<1>9. IsChunk(chunk, ts)
  BY <1>6, <1>8, ChunkMoveInType
<1>10. /\ \A j, x : ChunkHas(old, ts, j, x) => ChunkHas(chunk, ts, j, x)
       /\ ChunkHas(chunk, ts, id, row)
  BY <1>6, <1>8, ChunkMoveInHas
<1>11. \A j, x : /\ ChunkHas(chunk, ts, j, x) => ArchHas(new, j, x)
                 /\ ArchHas(arch, j, x) /\ (ChunkHas(old, ts, j, x) => ChunkHas(chunk, ts, j, x))
                    => ArchHas(new, j, x)
  BY <1>3, <1>4, <1>7, <1>9, IntoHas
<1>12. HasAll(arch, new) /\ ArchHas(new, id, row)
  BY <1>10, <1>11 DEF HasAll
<1>13. old.shared \in SharedLike(ts, source.shared)
  BY <1>5, <1>6, MatchIsLike
<1> QED
  BY <1>8, <1>12, <1>13

\* Archetype::deleteEntity: the other chunks stay, and the other entities of
\* the chunk keep their rows.
LEMMA ArchDeleteHas ==
  ASSUME NEW arch, IsSequence(arch.chunks), NEW ts \in SUBSET Types, ts = arch.types,
         arch = [types |-> arch.types, chunks |-> arch.chunks, filled |-> arch.filled],
         NEW c, Occupied(arch.chunks, c), NEW chunk, chunk = arch.chunks[c],
         IsChunk(chunk, ts), NEW i \in DOMAIN chunk.ids,
         NEW new, new = ArchDelete(arch, c, i)
  PROVE  /\ new.types = ts
         /\ \A d : d # c /\ Occupied(arch.chunks, d) =>
              Occupied(new.chunks, d) /\ new.chunks[d] = arch.chunks[d]
         /\ \A j, row : j # chunk.ids[i] /\ ChunkHas(chunk, ts, j, row) => ArchHas(new, j, row)
<1> DEFINE less == ChunkDelete(chunk, i)
           s    == arch.chunks
<1>1. /\ Len(s) \in Nat /\ DOMAIN s = 1 .. Len(s) /\ c \in DOMAIN s
      /\ \A d : Occupied(s, d) => d \in Nat
  BY SequenceType DEF Occupied
<1>2. \A j, row : j # chunk.ids[i] /\ ChunkHas(chunk, ts, j, row) => ChunkHas(less, ts, j, row)
  BY ChunkDeleteHas
<1>3. CASE less.ids = << >>
  <2> DEFINE freed == FreeSlotAt(s, c)
  <2>1. new = [arch EXCEPT !.chunks = FreeSlotAt(@, c)]
    BY <1>3 DEF ArchDelete
  <2>2. new.types = ts /\ new.chunks = freed
    BY <2>1
  <2>3. /\ \A d \in Nat : Occupied(freed, d) <=> Occupied(s, d) /\ d # c
        /\ \A d \in Nat : Occupied(freed, d) => freed[d] = s[d]
    <3> DEFINE r == freed
    <3>1. IsSequence(s) /\ c \in DOMAIN s /\ r = FreeSlotAt(s, c)
      BY <1>1
    <3> HIDE DEF r, s
    <3>2. /\ \A d \in Nat : Occupied(r, d) <=> Occupied(s, d) /\ d # c
          /\ \A d \in Nat : Occupied(r, d) => r[d] = s[d]
      BY <3>1, FreeSlotAtType
    <3> QED
      BY <3>2 DEF r
  <2>4. \A j, row : ~ ChunkHas(less, ts, j, row)
    BY <1>3, EmptySeq, SeqIsSequence, SequenceType DEF ChunkHas
  <2> HIDE DEF freed, less
  <2> QED
    BY <1>1, <1>2, <2>2, <2>3, <2>4
<1>4. CASE less.ids # << >>
  <2>1. new = WithChunk(arch, c, less)
    BY <1>4 DEF ArchDelete
  <2>2. new.types = ts /\ new.chunks = [s EXCEPT ![c] = less]
    BY <2>1 DEF WithChunk
  <2>3. less # Null
    BY ChunkDeleteType, NotNull
  <2> HIDE DEF less
  <2>4. /\ DOMAIN new.chunks = DOMAIN s
        /\ new.chunks[c] = less
        /\ \A d \in DOMAIN s : d # c => new.chunks[d] = s[d]
    BY <1>1, <2>2
  <2>5. Occupied(new.chunks, c)
    BY <1>1, <2>3, <2>4 DEF Occupied
  <2>6. \A d : d # c /\ Occupied(s, d) => Occupied(new.chunks, d) /\ new.chunks[d] = s[d]
    BY <2>4 DEF Occupied
  <2>7. \A j, row : ChunkHas(less, ts, j, row) => ArchHas(new, j, row)
    BY <2>2, <2>4, <2>5 DEF ArchHas
  <2> QED
    BY <1>2, <2>2, <2>6, <2>7
<1> QED
  BY <1>3, <1>4

\* The row of an entity that moves to a chunk of the same types with the shared
\* value v of type t.
LEMMA MovedSharedRow ==
  ASSUME NEW ts \in SUBSET Types, NEW source, IsChunk(source, ts), NEW i,
         NEW t \in SharedTypes(ts), NEW v,
         NEW wanted, wanted = [source.shared EXCEPT ![t] = v],
         NEW shared \in SharedLike(ts, wanted)
  PROVE  Row(ts, shared, MovedElements(ts, source, i)) = RowWith(RowAt(source, ts, i), t, v)
<1>1. source.comps \in [ArrayTypes(ts) -> Seq(Element)] /\ source.shared \in [SharedTypes(ts) -> Value]
  BY ChunkFields
<1>2. wanted \in [SharedTypes(ts) -> Value \cup {v}]
  BY <1>1
<1>3. \A u \in SharedTypes(ts) : shared[u] = IF u = t THEN v ELSE source.shared[u]
  BY <1>1, <1>2 DEF SharedLike
<1>4. t \in ts /\ t \notin EmptyTypes
  BY DEF SharedTypes
<1>5. \A u \in ArrayTypes(ts) : MovedElements(ts, source, i)[u] = source.comps[u][i]
  BY <1>1 DEF MovedElements
<1>6. Row(ts, shared, MovedElements(ts, source, i)) =
        Row(ts, shared, [u \in ArrayTypes(ts) |-> source.comps[u][i]])
  BY <1>5, SameRow
<1> DEFINE comps == [u \in ArrayTypes(ts) |-> source.comps[u][i]]
<1> HIDE DEF comps
<1>7. Row(ts, shared, comps) = RowWith(Row(ts, source.shared, comps), t, v)
  BY <1>3, <1>4 DEF Row, RowWith
<1>8. RowAt(source, ts, i) = Row(ts, source.shared, comps)
  BY DEF RowAt, comps
<1>9. Row(ts, shared, MovedElements(ts, source, i)) = Row(ts, shared, comps)
  BY <1>6 DEF comps
<1> QED
  BY <1>7, <1>8, <1>9

\* Archetype::setSharedComponent: the entity has the new value, the others keep
\* their rows.
LEMMA ArchSetSharedHas ==
  ASSUME NEW arch, ArchOK(arch), NEW ts, ts = arch.types, NEW c, Occupied(arch.chunks, c),
         NEW source, source = arch.chunks[c], NEW i \in DOMAIN source.ids,
         NEW t \in SharedTypes(ts), NEW v \in Value, source.shared[t] # v,
         NEW id, id = source.ids[i],
         NEW new, new = ArchSetShared(arch, c, i, t, v).arch
  PROVE  /\ \A j, row : j # id /\ ArchHas(arch, j, row) => ArchHas(new, j, row)
         /\ ArchHas(new, id, RowWith(RowAt(source, ts, i), t, v))
<1> DEFINE wanted == [source.shared EXCEPT ![t] = v]
           found  == FirstFitting(arch, wanted)
           slot   == IF found # 0 THEN found ELSE Len(arch.chunks) + 1
           target == IF found # 0 THEN arch.chunks[found] ELSE ChunkWith(arch, wanted)
           chunk  == ChunkMoveIn(target, source, i)
           moved  == [types |-> arch.types, chunks |-> PutSlot(arch.chunks, slot, chunk),
                      filled |-> arch.filled]
<1>1. /\ arch = [types |-> arch.types, chunks |-> arch.chunks, filled |-> arch.filled]
      /\ ts \in SUBSET Types
      /\ IsSequence(arch.chunks)
      /\ IsChunk(source, ts)
  BY ArchetypeFields
<1>2. Len(arch.chunks) \in Nat /\ DOMAIN arch.chunks = 1 .. Len(arch.chunks)
  BY <1>1, SequenceType
<1>3. source.shared \in [SharedTypes(ts) -> Value]
  BY <1>1, ChunkFields
<1>4. wanted \in [SharedTypes(ts) -> Value] /\ wanted[t] = v
  BY <1>3
<1>5. new = ArchDelete(moved, c, i)
  <2>1. [arch EXCEPT !.chunks = PutSlot(@, slot, chunk)] = moved
    BY <1>1
  <2> QED
    BY <2>1 DEF ArchSetShared
<1>6. /\ slot \in 1 .. Len(arch.chunks) + 1
      /\ IsChunk(target, ts)
      /\ SharedMatch(target, wanted)
      /\ Occupied(arch.chunks, slot) => target = arch.chunks[slot]
  <2>1. CASE found # 0
    <3>1. /\ found \in Nat
          /\ HasRoom(arch, found)
          /\ SharedMatch(arch.chunks[found], wanted)
      <4> HIDE DEF wanted
      <4> QED
        BY <2>1, FirstFittingHasRoom
    <3>2. slot = found /\ target = arch.chunks[found]
      BY <2>1
    <3> HIDE DEF found, slot, target, wanted
    <3>3. slot \in 1 .. Len(arch.chunks) /\ IsChunk(target, ts)
      BY <3>1, <3>2, ArchetypeFields DEF HasRoom
    <3> QED
      BY <1>2, <3>1, <3>2, <3>3
  <2>2. CASE found = 0
    <3>1. slot = Len(arch.chunks) + 1 /\ target = ChunkWith(arch, wanted)
      BY <2>2
    <3> HIDE DEF found, slot, target
    <3>2. IsChunk(target, ts) /\ SharedMatch(target, wanted)
      <4>1. \A u \in DOMAIN wanted : wanted[u] \in Value
        BY <1>4
      <4> HIDE DEF wanted
      <4> QED
        BY <3>1, <4>1, ChunkWithType, ChunkWithMatch
    <3> QED
      BY <1>2, <3>1, <3>2 DEF Occupied
  <2> QED
    BY <2>1, <2>2
<1>7. slot # c
  <2> SUFFICES ASSUME slot = c PROVE FALSE
    OBVIOUS
  <2>1. SharedMatch(source, wanted)
    BY <1>6
  <2> HIDE DEF wanted, slot
  <2>2. source.shared[t] = wanted[t]
    BY <1>3, <1>4, <2>1 DEF SharedMatch
  <2> QED
    BY <1>4, <2>2
<1>8. moved.types = ts /\ moved.chunks = PutSlot(arch.chunks, slot, chunk)
  OBVIOUS
<1>9. chunk = ChunkMoveIn(target, source, i)
  OBVIOUS
<1>10. target.shared \in SharedLike(ts, wanted)
  <2> HIDE DEF wanted, target
  <2> QED
    BY <1>1, <1>6, MatchIsLike
<1> DEFINE row == Row(ts, target.shared, MovedElements(ts, source, i))
<1>11. row = RowWith(RowAt(source, ts, i), t, v)
  <2> DEFINE shared == target.shared
  <2>1. wanted = [source.shared EXCEPT ![t] = v] /\ shared \in SharedLike(ts, wanted)
    BY <1>10
  <2> HIDE DEF shared, wanted
  <2>2. Row(ts, shared, MovedElements(ts, source, i)) = RowWith(RowAt(source, ts, i), t, v)
    BY <1>1, <2>1, MovedSharedRow
  <2> QED
    BY <2>2 DEF shared
<1> HIDE DEF wanted, found, slot, target
<1>12. /\ IsChunk(chunk, ts)
       /\ \A j, x : ChunkHas(target, ts, j, x) => ChunkHas(chunk, ts, j, x)
       /\ ChunkHas(chunk, ts, id, row)
  BY <1>1, <1>6, <1>9, ChunkMoveInType, ChunkMoveInHas
<1>13. chunk # Null
  BY <1>12, NotNull
<1> HIDE DEF chunk, row
<1> DEFINE s == arch.chunks
           r == moved.chunks
<1>14. /\ IsSequence(r)
       /\ \A j : j \in DOMAIN r <=> j \in DOMAIN s \/ j = slot
       /\ r[slot] = chunk
       /\ \A j \in DOMAIN s : j # slot => r[j] = s[j]
  <2>1. IsSequence(s) /\ r = PutSlot(s, slot, chunk) /\ slot \in 1 .. Len(s) + 1
    BY <1>1, <1>6, <1>8
  <2> HIDE DEF s, r
  <2> QED
    BY <2>1, PutSlotType
<1>15. /\ Occupied(r, slot) /\ r[slot] = chunk
       /\ \A d : d # slot /\ Occupied(s, d) => Occupied(r, d) /\ r[d] = s[d]
  BY <1>13, <1>14 DEF Occupied
<1>16. moved = [types |-> moved.types, chunks |-> moved.chunks, filled |-> moved.filled]
  OBVIOUS
<1> HIDE DEF moved
<1>17. /\ new.types = ts
       /\ \A d : d # c /\ Occupied(r, d) => Occupied(new.chunks, d) /\ new.chunks[d] = r[d]
       /\ \A j, x : j # id /\ ChunkHas(source, ts, j, x) => ArchHas(new, j, x)
  <2>1. Occupied(r, c) /\ r[c] = source
    BY <1>7, <1>15
  <2> QED
    BY <1>1, <1>5, <1>8, <1>14, <1>16, <2>1, ArchDeleteHas
<1>18. Occupied(new.chunks, slot) /\ new.chunks[slot] = chunk
  BY <1>7, <1>15, <1>17
<1>19. ASSUME NEW j, NEW x, j # id, ArchHas(arch, j, x)
       PROVE  ArchHas(new, j, x)
  <2>1. PICK d : Occupied(s, d) /\ ChunkHas(s[d], ts, j, x)
    BY <1>19 DEF ArchHas
  <2>2. CASE d = c
    BY <1>17, <1>19, <2>1, <2>2
  <2>3. CASE d = slot
    <3>1. ChunkHas(chunk, ts, j, x)
      BY <1>6, <1>12, <2>1, <2>3
    <3> QED
      BY <1>17, <1>18, <3>1 DEF ArchHas
  <2>4. CASE d # c /\ d # slot
    BY <1>15, <1>17, <2>1, <2>4 DEF ArchHas
  <2> QED
    BY <2>2, <2>3, <2>4
<1>20. ArchHas(new, id, row)
  BY <1>12, <1>17, <1>18 DEF ArchHas
<1> QED
  BY <1>11, <1>19, <1>20

-----------------------------------------------------------------------------
\* Tables.

\* An archetype that is in the table has its rows in the table.
LEMMA TableHas ==
  ASSUME NEW archs, NEW a, Occupied(archs, a), NEW j, NEW row, ArchHas(archs[a], j, row)
  PROVE  Has(archs, j, row)
BY DEF Has

\* A row stays in the table if only its archetype changed and kept it.
LEMMA TableKeeps ==
  ASSUME NEW archs, NEW new, NEW a, SameElse(archs, new, a), NEW j, NEW row,
         Occupied(archs, a) /\ ArchHas(archs[a], j, row) => Has(new, j, row),
         Has(archs, j, row)
  PROVE  Has(new, j, row)
<1>1. PICK b : Occupied(archs, b) /\ ArchHas(archs[b], j, row)
  BY DEF Has
<1>2. CASE b = a
  BY <1>1, <1>2
<1>3. CASE b # a
  <2>1. Occupied(new, b) /\ new[b] = archs[b]
    BY <1>1, <1>3 DEF SameElse, SameSlot
  <2> QED
    BY <1>1, <2>1, TableHas
<1> QED
  BY <1>2, <1>3

\* The map is written without a change of the table.
LEMMA SetIndexTable ==
  ASSUME NEW s, NEW archs, archs = s.archetypes, NEW id, NEW ix
  PROVE  SetIndex(s, id, ix).archetypes = archs
BY StoreParts DEF SetIndex

\* An archetype that grew is stored: every row is kept.
LEMMA StoredInHas ==
  ASSUME NEW archs, TableOK(archs), NEW ts \in SUBSET Types,
         NEW a, a = ArchetypeSlot(archs, ts), NEW with, with = WithArchetype(archs, ts),
         NEW chosen, NEW id, NEW new, StoredIn(archs, new, a, ts, chosen, id),
         HasAll(with[a], chosen.arch)
  PROVE  /\ \A j, row : Has(archs, j, row) => Has(new, j, row)
         /\ \A j, row : ArchHas(chosen.arch, j, row) => ArchHas(new[a], j, row)
         /\ \A j, row : ArchHas(chosen.arch, j, row) => Has(new, j, row)
<1>1. SameElse(archs, new, a) /\ Occupied(new, a) /\ new[a] = chosen.arch
  BY DEF StoredIn
<1>2. ASSUME NEW j, NEW row, Occupied(archs, a), ArchHas(archs[a], j, row)
      PROVE  Has(new, j, row)
  <2>1. with[a] = archs[a]
    BY <1>2 DEF WithArchetype
  <2>2. ArchHas(new[a], j, row)
    BY <1>1, <1>2, <2>1 DEF HasAll
  <2> QED
    BY <1>1, <2>2, TableHas
<1>3. ASSUME NEW j, NEW row, Has(archs, j, row)
      PROVE  Has(new, j, row)
  BY <1>1, <1>2, <1>3, TableKeeps
<1>4. ASSUME NEW j, NEW row, ArchHas(chosen.arch, j, row)
      PROVE  ArchHas(new[a], j, row) /\ Has(new, j, row)
  BY <1>1, <1>4, TableHas
<1> QED
  BY <1>3, <1>4

\* An archetype with a row is not dropped.
LEMMA WithoutEmptyHas ==
  ASSUME NEW archs, IsSequence(archs), NEW a, Occupied(archs, a), NEW left, left # Null,
         NEW new, new = WithoutEmpty(archs, a, left),
         NEW j, NEW row, ArchHas(left, j, row)
  PROVE  Has(new, j, row)
<1>1. left.chunks # << >>
  <2>1. DOMAIN << >> = {}
    OBVIOUS
  <2> QED
    BY <2>1 DEF ArchHas, Occupied
<1>2. new = [archs EXCEPT ![a] = left]
  BY <1>1 DEF WithoutEmpty, Stored
<1>3. Occupied(new, a) /\ new[a] = left
  BY <1>2 DEF Occupied
<1> QED
  BY <1>3, TableHas

\* The deletion of an entity keeps every row but that of the place, and those
\* in other archetypes.
LEMMA RemoveEntityHas ==
  ASSUME NEW s, NEW archs, archs = s.archetypes, TableOK(archs),
         NEW map, map = s.map, NEW id, NEW ix \in Places, ix = map[id],
         NEW gone, Holds(archs, gone, ix),
         NEW r, r = RemoveEntity(s, id)
  PROVE  /\ \A j, row : j # gone /\ Has(archs, j, row) => Has(r.archetypes, j, row)
         /\ \A a, j, row : a # ix.arch /\ Occupied(archs, a) /\ ArchHas(archs[a], j, row)
                             => Has(r.archetypes, j, row)
<1> DEFINE a     == ix.arch
           c     == ix.chunk
           i     == ix.elem
           arch  == archs[a]
           chunk == arch.chunks[c]
           left  == ArchDelete(arch, c, i)
           new   == r.archetypes
<1>1. i \in DOMAIN Cells(archs)[Cell(ix)] /\ gone = Cells(archs)[Cell(ix)][i]
  BY DEF Holds
<1>2. /\ c \in Nat
      /\ Occupied(archs, a)
      /\ ArchOK(arch)
      /\ Occupied(arch.chunks, c)
      /\ chunk.ids = Cells(archs)[Cell(ix)]
      /\ ChunkIds(arch, c) = chunk.ids
  <2>1. TableOK(archs) /\ ix \in Places /\ ix.elem \in DOMAIN Cells(archs)[Cell(ix)]
    BY <1>1
  <2> QED
    BY ONLY <2>1, PlacePointsAt
<1>3. new = WithoutEmpty(archs, a, left)
  <2> DEFINE out     == WithoutEmpty(archs, a, left)
             removed == StoreOf(out, Erased(map, id))
             moved   == MovedId(ChunkOf(s, id), i)
  <2>1. r = IF moved = 0 THEN removed ELSE SetIndex(removed, moved, ix)
    BY DEF RemoveEntity
  <2> HIDE DEF out, moved
  <2>2. removed.archetypes = out
    BY StoreParts
  <2> HIDE DEF removed
  <2>3. new = out
    BY <2>1, <2>2, SetIndexTable
  <2> QED
    BY <2>3 DEF out
<1>4. SameElse(archs, new, a)
  BY <1>1, RemoveEntityShape
<1>5. /\ arch = [types |-> arch.types, chunks |-> arch.chunks, filled |-> arch.filled]
      /\ arch.types \in SUBSET Types
      /\ IsSequence(arch.chunks)
      /\ IsChunk(chunk, arch.types)
  BY <1>2, ArchetypeFields
<1>6. i \in DOMAIN chunk.ids /\ chunk.ids[i] = gone
  BY <1>1, <1>2
<1>7. left # Null
  <2>1. i \in DOMAIN ChunkIds(arch, c)
    BY <1>2, <1>6
  <2> HIDE DEF arch, i, c
  <2>2. Removed(arch, left, c, i)
    BY <1>2, <2>1, ArchDeleteRemoved
  <2>3. ArchOK(left)
    BY <2>2 DEF Removed
  <2> QED
    BY <2>3, ArchNotNull
<1>8. IsSequence(archs)
  BY TableFields
<1> HIDE DEF a, c, i, arch, chunk, new
<1>9. ASSUME NEW j, NEW row, j # gone, ArchHas(arch, j, row)
      PROVE  ArchHas(left, j, row)
  <2> DEFINE ts == arch.types
  <2>1. ts \in SUBSET Types /\ ts = arch.types /\ chunk = arch.chunks[c] /\ IsChunk(chunk, ts)
    BY <1>5 DEF chunk
  <2> HIDE DEF ts
  <2>2. left = ArchDelete(arch, c, i)
    OBVIOUS
  <2> HIDE DEF left
  <2>3. /\ left.types = ts
        /\ \A d : d # c /\ Occupied(arch.chunks, d) =>
             Occupied(left.chunks, d) /\ left.chunks[d] = arch.chunks[d]
        /\ \A k, rw : k # chunk.ids[i] /\ ChunkHas(chunk, ts, k, rw) => ArchHas(left, k, rw)
    BY <1>2, <1>5, <1>6, <2>1, <2>2, ArchDeleteHas
  <2>4. PICK d : Occupied(arch.chunks, d) /\ ChunkHas(arch.chunks[d], ts, j, row)
    BY <1>9, <2>1 DEF ArchHas
  <2>5. CASE d = c
    BY <1>6, <1>9, <2>1, <2>3, <2>4, <2>5
  <2>6. CASE d # c
    BY <2>3, <2>4, <2>6 DEF ArchHas
  <2> QED
    BY <2>5, <2>6
<1> HIDE DEF left
<1>10. ASSUME NEW j, NEW row, j # gone, Has(archs, j, row)
       PROVE  Has(new, j, row)
  <2>1. ASSUME ArchHas(archs[a], j, row)
        PROVE  Has(new, j, row)
    <3>1. ArchHas(left, j, row)
      BY <1>9, <1>10, <2>1 DEF arch
    <3> QED
      BY <1>2, <1>3, <1>7, <1>8, <3>1, WithoutEmptyHas
  <2> QED
    BY <1>4, <1>10, <2>1, TableKeeps
<1>11. ASSUME NEW b, NEW j, NEW row, b # a, Occupied(archs, b), ArchHas(archs[b], j, row)
       PROVE  Has(new, j, row)
  <2>1. Occupied(new, b) /\ new[b] = archs[b]
    BY <1>4, <1>11 DEF SameElse, SameSlot
  <2> QED
    BY <1>11, <2>1, TableHas
<1> QED
  BY <1>10, <1>11 DEF new, a

\* Every entity but id has the row it had.
KeepsOthers(s, r, id) ==
  \A j, row : j # id /\ Has(s.archetypes, j, row) => Has(r.archetypes, j, row)

\* changeComponents, to another archetype: the entity keeps what its types
\* hold, and no other entity changes.
LEMMA MoveEntityHas ==
  ASSUME NEW s, StoreOK(s), NEW id \in DOMAIN s.map, NEW ts \in SUBSET Types,
         NEW archs, archs = s.archetypes, NEW map, map = s.map,
         NEW ix, ix = map[id],
         NEW a, a = ArchetypeSlot(archs, ts), a # ix.arch,
         NEW with, with = WithArchetype(archs, ts),
         NEW source, source = PlacedChunk(archs, ix),
         NEW r, r = MoveEntity(s, id, a, with)
  PROVE  /\ KeepsOthers(s, r, id)
         /\ \E shared \in SharedLike(ts, source.shared) :
              Has(r.archetypes, id, Row(ts, shared, MovedElements(ts, source, ix.elem)))
<1> DEFINE i      == ix.elem
           us     == archs[ix.arch].types
           target == with[a]
           moved  == ArchMoveIn(target, source, i)
           stored == Stored(with, a, moved.arch)
           both   == StoreOf(stored, map)
           gone   == RemoveEntity(both, id)
           place  == LastPlace(a, moved)
           p      == Cell(ix)
<1>1. TableOK(archs) /\ ExactCells(Cells(archs), map) /\ id \in DOMAIN map
  BY DEF StoreOK
<1>2. /\ ix \in Places
      /\ i \in DOMAIN Cells(archs)[p]
      /\ Cells(archs)[p][i] = id
      /\ Cells(archs) \in [CellIndex -> Seq(Nat \ {0})]
  BY <1>1 DEF ExactCells
<1>3. r = SetIndex(gone, id, place)
  <2>1. source = ChunkOf(s, id)
    BY DEF ChunkOf, PlacedChunk
  <2> QED
    BY <2>1 DEF MoveEntity
<1>4. both.archetypes = stored /\ both.map = map
  BY StoreParts
<1>5. Holds(archs, id, ix)
  BY <1>2 DEF Holds
<1>6. /\ Occupied(archs, ix.arch)
      /\ ArchOK(archs[ix.arch])
      /\ Occupied(archs[ix.arch].chunks, ix.chunk)
      /\ source.ids = Cells(archs)[p]
      /\ p = <<ix.arch, ix.chunk>>
      /\ p \in CellIndex
  BY <1>1, <1>2, PlacePointsAt DEF PlacedChunk
<1>7. us \in SUBSET Types /\ IsChunk(source, us)
  BY <1>6, ArchetypeFields DEF PlacedChunk
<1>8. i \in DOMAIN source.ids /\ source.ids[i] = id
  BY <1>2, <1>6
<1>9. ArchOK(target) /\ target.types = ts
  BY <1>1, WithArchetypeType
<1> HIDE DEF i, us, target
<1>10. moved = ArchMoveIn(with[a], PlacedChunk(archs, ix), ix.elem)
  BY DEF target, i
<1>11. /\ HasAll(target, moved.arch)
       /\ \E shared \in SharedLike(ts, source.shared) :
            ArchHas(moved.arch, id, Row(ts, shared, MovedElements(ts, source, i)))
  <2> DEFINE new == ArchMoveIn(target, source, i).arch
  <2>1. new = ArchMoveIn(target, source, i).arch
    OBVIOUS
  <2>2. ts = target.types
    BY <1>9
  <2> HIDE DEF new
  <2>3. /\ HasAll(target, new)
        /\ \E shared \in SharedLike(ts, source.shared) :
             ArchHas(new, source.ids[i], Row(ts, shared, MovedElements(ts, source, i)))
    BY <1>7, <1>8, <1>9, <2>1, <2>2, ArchMoveInHas
  <2> QED
    BY <1>8, <2>3 DEF new
<1>12. stored = Stored(with, a, moved.arch)
  OBVIOUS
<1>13. gone = RemoveEntity(both, id)
  OBVIOUS
<1> HIDE DEF moved, stored, both, gone, place
<1>14. StoredIn(archs, stored, a, ts, moved, id)
  BY <1>1, <1>2, <1>5, <1>10, <1>12, MovedIn
<1>15. /\ \A j, row : Has(archs, j, row) => Has(stored, j, row)
       /\ \A j, row : ArchHas(moved.arch, j, row) => ArchHas(stored[a], j, row)
  <2>1. HasAll(with[a], moved.arch)
    BY <1>11 DEF target
  <2>2. TableOK(archs) /\ ts \in SUBSET Types /\ a = ArchetypeSlot(archs, ts)
        /\ with = WithArchetype(archs, ts)
    BY <1>1
  <2> QED
    BY ONLY <1>14, <2>1, <2>2, StoredInHas
<1>16. Holds(stored, id, ix)
  <2>1. /\ CellAdded(Cells(archs), Cells(stored), <<a, moved.slot>>, id)
        /\ a \in Nat
        /\ moved.slot \in Nat
    BY <1>14 DEF StoredIn
  <2>2. p # <<a, moved.slot>> /\ p \in CellIndex
    BY <1>6
  <2>3. Cells(stored)[p] = Cells(archs)[p]
    BY ONLY <2>1, <2>2 DEF CellAdded
  <2>4. Cells(stored)[Cell(ix)] = Cells(archs)[Cell(ix)]
    BY <2>3 DEF p
  <2> QED
    BY ONLY <1>5, <2>4 DEF Holds
<1>17. TableOK(stored) /\ Occupied(stored, a)
  BY <1>14 DEF StoredIn
<1>18. /\ \A j, row : j # id /\ Has(stored, j, row) => Has(gone.archetypes, j, row)
       /\ \A b, j, row : b # ix.arch /\ Occupied(stored, b) /\ ArchHas(stored[b], j, row)
                           => Has(gone.archetypes, j, row)
  <2>1. stored = both.archetypes /\ map = both.map /\ TableOK(stored)
    BY <1>4, <1>17
  <2>2. ix \in Places /\ ix = map[id] /\ gone = RemoveEntity(both, id) /\ Holds(stored, id, ix)
    BY <1>2, <1>13, <1>16
  <2>3. \A j, row : j # id /\ Has(stored, j, row) => Has(gone.archetypes, j, row)
    BY ONLY <2>1, <2>2, RemoveEntityHas, SMTT(30)
  <2>4. \A b, j, row : b # ix.arch /\ Occupied(stored, b) /\ ArchHas(stored[b], j, row)
                           => Has(gone.archetypes, j, row)
    BY ONLY <2>1, <2>2, RemoveEntityHas
  <2> QED
    BY <2>3, <2>4
<1>19. r.archetypes = gone.archetypes
  BY <1>3, SetIndexTable
<1>20. PICK shared \in SharedLike(ts, source.shared) :
         ArchHas(moved.arch, id, Row(ts, shared, MovedElements(ts, source, i)))
  BY <1>11
<1>21. Has(r.archetypes, id, Row(ts, shared, MovedElements(ts, source, i)))
  BY <1>15, <1>17, <1>18, <1>19, <1>20
<1>22. KeepsOthers(s, r, id)
  <2>1. ASSUME NEW j, NEW row, j # id, Has(s.archetypes, j, row)
        PROVE  Has(r.archetypes, j, row)
    <3>1. Has(stored, j, row)
      BY <1>15, <2>1
    <3> QED
      BY <1>18, <1>19, <2>1, <3>1
  <2> QED
    BY <2>1 DEF KeepsOthers
<1> QED
  BY <1>21, <1>22 DEF i

-----------------------------------------------------------------------------
\* Stores.

\* The row at the place that the map names.
RowIn(s, id) == RowAt(PlacedChunk(s.archetypes, s.map[id]), TypesOf(s, id), s.map[id].elem)

\* The place of an entity in a well-formed store.
LEMMA PlaceOf ==
  ASSUME NEW s, StoreOK(s), NEW id \in DOMAIN s.map,
         NEW archs, archs = s.archetypes, NEW ix, ix = s.map[id],
         NEW chunk, chunk = PlacedChunk(archs, ix), NEW ts, ts = TypesOf(s, id)
  PROVE  /\ TableOK(archs)
         /\ ix \in Places
         /\ Holds(archs, id, ix)
         /\ Occupied(archs, ix.arch)
         /\ ArchOK(archs[ix.arch])
         /\ ts = archs[ix.arch].types
         /\ ts \in SUBSET Types
         /\ Occupied(archs[ix.arch].chunks, ix.chunk)
         /\ IsChunk(chunk, ts)
         /\ ix.elem \in DOMAIN chunk.ids
         /\ chunk.ids[ix.elem] = id
         /\ id \in Nat \ {0}
<1>1. TableOK(archs) /\ ExactCells(Cells(archs), s.map)
  BY DEF StoreOK
<1>2. /\ ix \in Places
      /\ ix.elem \in DOMAIN Cells(archs)[Cell(ix)]
      /\ Cells(archs)[Cell(ix)][ix.elem] = id
  BY <1>1 DEF ExactCells
<1>3. /\ Occupied(archs, ix.arch)
      /\ ArchOK(archs[ix.arch])
      /\ Occupied(archs[ix.arch].chunks, ix.chunk)
      /\ chunk.ids = Cells(archs)[Cell(ix)]
      /\ Cells(archs)[Cell(ix)] \in Seq(Nat \ {0})
  BY <1>1, <1>2, PlacePointsAt DEF PlacedChunk
<1>4. ts = archs[ix.arch].types
  BY DEF TypesOf
<1>5. ts \in SUBSET Types /\ IsChunk(chunk, ts)
  BY <1>3, <1>4, ArchetypeFields DEF PlacedChunk
<1>6. id \in Nat \ {0}
  <2> DEFINE ids == chunk.ids
             i   == ix.elem
  <2>1. ids \in Seq(Nat \ {0}) /\ i \in DOMAIN ids /\ ids[i] = id
    BY <1>2, <1>3
  <2> HIDE DEF ids, i
  <2>2. i \in 1 .. Len(ids)
    BY <2>1, LenProperties
  <2> QED
    BY <2>1, <2>2, ElementOfSeq
<1> QED
  BY <1>1, <1>2, <1>3, <1>4, <1>5, <1>6 DEF Holds

\* An entity of the map has its row in the table.
LEMMA RowInHas ==
  ASSUME NEW s, StoreOK(s), NEW id \in DOMAIN s.map
  PROVE  Has(s.archetypes, id, RowIn(s, id))
<1> DEFINE archs == s.archetypes
           ix    == s.map[id]
           ts    == TypesOf(s, id)
           chunk == PlacedChunk(archs, ix)
<1>1. /\ Occupied(archs, ix.arch)
      /\ ts = archs[ix.arch].types
      /\ Occupied(archs[ix.arch].chunks, ix.chunk)
      /\ ix.elem \in DOMAIN chunk.ids
      /\ chunk.ids[ix.elem] = id
  <2> HIDE DEF archs, ix, ts, chunk
  <2>1. archs = s.archetypes /\ ix = s.map[id] /\ chunk = PlacedChunk(archs, ix) /\ ts = TypesOf(s, id)
    BY DEF archs, ix, ts, chunk
  <2> QED
    BY <2>1, PlaceOf
<1>2. RowIn(s, id) = RowAt(chunk, ts, ix.elem)
  BY DEF RowIn
<1> HIDE DEF archs, ix, ts
<1>3. ChunkHas(chunk, ts, id, RowIn(s, id))
  BY <1>1, <1>2 DEF ChunkHas
<1>4. ArchHas(archs[ix.arch], id, RowIn(s, id))
  BY <1>1, <1>3 DEF ArchHas, PlacedChunk
<1> QED
  BY <1>1, <1>4, TableHas DEF archs

\* A row of the table is the row of an entity of the map.
LEMMA HasIsRow ==
  ASSUME NEW s, StoreOK(s), NEW id, NEW row, Has(s.archetypes, id, row)
  PROVE  id \in DOMAIN s.map /\ RowIn(s, id) = row
<1> DEFINE archs == s.archetypes
           cells == Cells(archs)
           map   == s.map
<1>1. TableOK(archs) /\ ExactCells(cells, map)
  BY DEF StoreOK
<1>2. PICK a : Occupied(archs, a) /\ ArchHas(archs[a], id, row)
  BY DEF Has
<1>3. PICK c : /\ Occupied(archs[a].chunks, c)
               /\ ChunkHas(archs[a].chunks[c], archs[a].types, id, row)
  BY <1>2 DEF ArchHas
<1> DEFINE chunk == archs[a].chunks[c]
<1>4. PICK e \in DOMAIN chunk.ids : chunk.ids[e] = id /\ RowAt(chunk, archs[a].types, e) = row
  BY <1>3 DEF ChunkHas
<1>5. s.archetypes = archs /\ s.map = map
  OBVIOUS
<1> HIDE DEF archs, map
<1>6. ArchOK(archs[a]) /\ a \in Nat
  BY <1>1, <1>2, TableFields
<1>7. ChunkIds(archs[a], c) = chunk.ids /\ c \in Nat
  <2>1. c \in 1 .. Len(archs[a].chunks) /\ IsSequence(archs[a].chunks)
    BY <1>3, <1>6, ArchetypeFields
  <2> QED
    BY <1>3, <2>1, SequenceType DEF ChunkIds
<1>8. cells[<<a, c>>] = chunk.ids /\ <<a, c>> \in CellIndex
  BY <1>1, <1>2, <1>6, <1>7, CellsType DEF IdsAt, CellIndex
<1>9. id \in DOMAIN map /\ map[id] = PlaceIn(<<a, c>>, e)
  <2> DEFINE p == <<a, c>>
  <2>1. p \in CellIndex /\ e \in DOMAIN cells[p] /\ cells[p][e] = id
    BY <1>4, <1>8
  <2> HIDE DEF p, cells
  <2> QED
    BY <1>1, <2>1 DEF ExactCells, p
<1>10. map[id].arch = a /\ map[id].chunk = c /\ map[id].elem = e
  BY <1>9 DEF PlaceIn
<1>11. RowIn(s, id) = RowAt(chunk, archs[a].types, e)
  BY <1>5, <1>10 DEF RowIn, PlacedChunk, TypesOf
<1> QED
  BY <1>4, <1>5, <1>9, <1>11

\* Writing the value a type already has changes nothing.
LEMMA RowWithSame ==
  ASSUME NEW ts, NEW chunk, NEW e, NEW t \in SharedTypes(ts), NEW v, chunk.shared[t] = v
  PROVE  RowWith(RowAt(chunk, ts, e), t, v) = RowAt(chunk, ts, e)
BY DEF RowWith, RowAt, Row, SharedTypes

\* An archetype of the table is replaced.
LEMMA StoredHas ==
  ASSUME NEW archs, NEW a, Occupied(archs, a), NEW arch, arch # Null,
         NEW new, new = Stored(archs, a, arch)
  PROVE  /\ \A j, row : ArchHas(arch, j, row) => Has(new, j, row)
         /\ \A j, row : Has(archs, j, row) /\ (ArchHas(archs[a], j, row) => ArchHas(arch, j, row))
                          => Has(new, j, row)
<1>1. Occupied(new, a) /\ new[a] = arch
  BY DEF Stored, Occupied
<1>2. SameElse(archs, new, a)
  BY DEF Stored, Occupied, SameElse, SameSlot
<1>3. ASSUME NEW j, NEW row, ArchHas(arch, j, row)
      PROVE  Has(new, j, row)
  BY <1>1, <1>3, TableHas
<1>4. ASSUME NEW j, NEW row, Has(archs, j, row), ArchHas(archs[a], j, row) => ArchHas(arch, j, row)
      PROVE  Has(new, j, row)
  BY <1>2, <1>3, <1>4, TableKeeps
<1> QED
  BY <1>3, <1>4

\* setSharedComponent: the entity has the new value, whichever chunk it is in
\* then; no other entity changes.
LEMMA SetSharedAtHas ==
  ASSUME NEW s, StoreOK(s), NEW id \in DOMAIN s.map,
         NEW archs, archs = s.archetypes,
         NEW t \in SharedTypes(TypesOf(s, id)), NEW v \in Value,
         NEW r, r = SetSharedAt(s, id, s.map[id], t, v)
  PROVE  /\ \A j, row : j # id /\ Has(archs, j, row) => Has(r.archetypes, j, row)
         /\ Has(r.archetypes, id, RowWith(RowIn(s, id), t, v))
<1> DEFINE ix     == s.map[id]
           a      == ix.arch
           c      == ix.chunk
           i      == ix.elem
           arch   == archs[a]
           ts     == TypesOf(s, id)
           source == PlacedChunk(archs, ix)
           set    == ArchSetShared(arch, c, i, t, v)
           made   == set.arch
           new    == Stored(archs, a, made)
           place  == LastPlace(a, set)
           stored == StoreOf(new, Indexed(s.map, id, place))
           same   == StoreOf(archs, Indexed(s.map, id, ix))
           moved  == MovedId(source, i)
<1>1. r = IF source.shared[t] = v THEN same
          ELSE IF moved = 0 THEN stored ELSE SetIndex(stored, moved, ix)
  BY DEF SetSharedAt, PlacedChunk
<1>2. /\ TableOK(archs)
      /\ Holds(archs, id, ix)
      /\ ix \in Places
      /\ Occupied(archs, a)
      /\ ArchOK(arch)
      /\ ts = arch.types
      /\ ts \in SUBSET Types
      /\ Occupied(arch.chunks, c)
      /\ i \in DOMAIN source.ids
      /\ source.ids[i] = id
  <2> HIDE DEF ix, ts, source
  <2>1. ix = s.map[id] /\ source = PlacedChunk(archs, ix) /\ ts = TypesOf(s, id)
    BY DEF ix, source, ts
  <2> QED
    BY <2>1, PlaceOf
<1>3. RowIn(s, id) = RowAt(source, ts, i)
  BY DEF RowIn
<1>4. source = arch.chunks[c]
  BY DEF PlacedChunk
<1>5. t \in SharedTypes(ts)
  OBVIOUS
<1>6. stored.archetypes = new /\ same.archetypes = archs
  BY StoreParts
<1> HIDE DEF ix, ts, source, stored, same, moved
<1>7. CASE source.shared[t] = v
  <2>1. r.archetypes = archs
    BY <1>1, <1>6, <1>7
  <2>2. RowWith(RowIn(s, id), t, v) = RowIn(s, id)
    BY <1>3, <1>5, <1>7, RowWithSame
  <2>3. Has(archs, id, RowIn(s, id))
    BY RowInHas
  <2> QED
    BY <2>1, <2>2, <2>3
<1>8. CASE source.shared[t] # v
  <2>1. r.archetypes = new
    <3> HIDE DEF new
    <3> QED
      BY <1>1, <1>6, <1>8, SetIndexTable
  <2>2. made # Null
    <3>1. i \in DOMAIN ChunkIds(arch, c) /\ c \in Nat /\ arch.chunks[c].shared[t] # v
      BY <1>2, <1>4, <1>8 DEF ChunkIds, Places
    <3>2. ArchOK(made)
      <4>1. t \in SharedTypes(arch.types)
        BY <1>2, <1>5
      <4> HIDE DEF arch, c, i
      <4>2. LET x == ArchSetShared(arch, c, i, t, v)
                k == ChunkIds(arch, c)[i]
            IN  ArchOK(x.arch)
        BY <1>2, <3>1, <4>1, ArchSetSharedMoves
      <4> QED
        BY <4>2
    <3> QED
      BY <3>2, ArchNotNull
  <2> HIDE DEF arch, c, i
  <2>3. /\ \A j, row : j # id /\ ArchHas(arch, j, row) => ArchHas(made, j, row)
        /\ ArchHas(made, id, RowWith(RowAt(source, ts, i), t, v))
    <3>1. made = ArchSetShared(arch, c, i, t, v).arch
      OBVIOUS
    <3>2. id = source.ids[i]
      BY <1>2
    <3> HIDE DEF made
    <3>3. \A j, row : j # id /\ ArchHas(arch, j, row) => ArchHas(made, j, row)
      BY <1>2, <1>4, <1>5, <1>8, <3>1, <3>2, ArchSetSharedHas
    <3>4. ArchHas(made, id, RowWith(RowAt(source, ts, i), t, v))
      BY <1>2, <1>4, <1>5, <1>8, <3>1, <3>2, ArchSetSharedHas
    <3> QED
      BY <3>3, <3>4
  <2> HIDE DEF set, new
  <2>4. /\ \A j, row : ArchHas(made, j, row) => Has(new, j, row)
        /\ \A j, row : Has(archs, j, row) /\ (ArchHas(archs[a], j, row) => ArchHas(made, j, row))
                         => Has(new, j, row)
    <3>1. new = Stored(archs, a, made)
      BY DEF new
    <3> HIDE DEF a, made
    <3> QED
      BY <1>2, <2>2, <3>1, StoredHas
  <2>5. arch = archs[a]
    BY DEF arch
  <2> QED
    BY <1>3, <2>1, <2>3, <2>4, <2>5
<1> QED
  BY <1>7, <1>8

\* Writing a type that is not stored for the entity changes nothing.
LEMMA RowWithNothing ==
  ASSUME NEW ts \in SUBSET Types, NEW chunk, NEW e, NEW t \in Types, NEW v \in ValuesOf(t),
         t \notin SharedTypes(Types), t \notin ArrayTypes(ts)
  PROVE  RowWith(RowAt(chunk, ts, e), t, v) = RowAt(chunk, ts, e)
<1> DEFINE row == RowAt(chunk, ts, e)
<1>1. row = [u \in ts |-> row[u]]
  BY DEF RowAt, Row
<1>2. ASSUME t \in ts PROVE row[t] = v
  <2>1. t \in EmptyTypes
    BY <1>2 DEF SharedTypes, ArrayTypes
  <2>2. v = Default
    BY <2>1 DEF ValuesOf
  <2> QED
    BY <1>2, <2>1, <2>2 DEF RowAt, Row
<1> HIDE DEF row
<1>3. RowWith(row, t, v) = row
  BY <1>1, <1>2 DEF RowWith
<1> QED
  BY <1>3 DEF row

\* setComponent of an entity that has the component, if it is a shared one.
LEMMA SetComponentHas ==
  ASSUME NEW s, StoreOK(s), NEW id \in DOMAIN s.map,
         NEW archs, archs = s.archetypes, NEW t \in Types, NEW v \in ValuesOf(t),
         t \in SharedTypes(Types) => t \in TypesOf(s, id),
         NEW r, r = SetComponentOf(s, id, t, v)
  PROVE  /\ \A j, row : j # id /\ Has(archs, j, row) => Has(r.archetypes, j, row)
         /\ Has(r.archetypes, id, RowWith(RowIn(s, id), t, v))
<1> DEFINE ix    == s.map[id]
           a     == ix.arch
           c     == ix.chunk
           i     == ix.elem
           arch  == archs[a]
           ts    == TypesOf(s, id)
           chunk == PlacedChunk(archs, ix)
           set   == ChunkSet(chunk, i, t, v)
           made  == WithChunk(arch, c, set)
           new   == Stored(archs, a, made)
<1>0. v \in Value
  BY DefaultAndRoom DEF ValuesOf
<1>1. /\ ix \in Places
      /\ Occupied(archs, a)
      /\ ArchOK(arch)
      /\ ts = arch.types
      /\ ts \in SUBSET Types
      /\ Occupied(arch.chunks, c)
      /\ IsChunk(chunk, ts)
      /\ i \in DOMAIN chunk.ids
      /\ chunk.ids[i] = id
  <2> HIDE DEF ix, ts, chunk
  <2>1. ix = s.map[id] /\ chunk = PlacedChunk(archs, ix) /\ ts = TypesOf(s, id)
    BY DEF ix, chunk, ts
  <2> QED
    BY <2>1, PlaceOf
<1>2. RowIn(s, id) = RowAt(chunk, ts, i)
  BY DEF RowIn
<1>3. chunk = arch.chunks[c]
  BY DEF PlacedChunk
<1>4. CASE t \in SharedTypes(Types)
  <2>1. r = SetSharedAt(s, id, s.map[id], t, v)
    BY <1>4 DEF SetComponentOf
  <2>2. t \in SharedTypes(TypesOf(s, id))
    BY <1>4 DEF SharedTypes
  <2> QED
    BY <1>0, <2>1, <2>2, SetSharedAtHas
<1>5. CASE t \notin SharedTypes(Types) /\ t \notin ArrayTypes(ts)
  <2>1. r = s
    BY <1>5 DEF SetComponentOf
  <2> HIDE DEF ts, chunk, i
  <2>2. RowWith(RowIn(s, id), t, v) = RowIn(s, id)
    <3>1. ts \in SUBSET Types /\ t \notin SharedTypes(Types) /\ t \notin ArrayTypes(ts)
      BY <1>1, <1>5
    <3>2. RowWith(RowAt(chunk, ts, i), t, v) = RowAt(chunk, ts, i)
      BY <3>1, RowWithNothing
    <3> QED
      BY <1>2, <3>2
  <2>3. Has(archs, id, RowIn(s, id))
    BY RowInHas
  <2> QED
    BY <2>1, <2>2, <2>3
<1>6. CASE t \notin SharedTypes(Types) /\ t \in ArrayTypes(ts)
  <2>1. r.archetypes = new
    <3>1. r = StoreOf(new, s.map)
      BY <1>6 DEF SetComponentOf, PlacedChunk
    <3> HIDE DEF new
    <3> QED
      BY <3>1, StoreParts
  <2> HIDE DEF ts, chunk, i, arch
  <2>2. /\ \A j, row : j # id /\ ChunkHas(chunk, ts, j, row) => ChunkHas(set, ts, j, row)
        /\ ChunkHas(set, ts, id, RowWith(RowAt(chunk, ts, i), t, v))
    <3>1. t \in ArrayTypes(ts)
      BY <1>6
    <3>2. set = ChunkSet(chunk, i, t, v)
      OBVIOUS
    <3> HIDE DEF set
    <3>3. /\ \A j, row : j # chunk.ids[i] /\ ChunkHas(chunk, ts, j, row) => ChunkHas(set, ts, j, row)
          /\ ChunkHas(set, ts, chunk.ids[i], RowWith(RowAt(chunk, ts, i), t, v))
      BY <1>1, <3>1, <3>2, ChunkSetHas
    <3> QED
      BY <1>1, <3>3
  <2>3. set # Null
    <3>1. IsChunk(set, ts)
      <4>1. t \in ArrayTypes(ts)
        BY <1>6
      <4> QED
        BY <1>0, <1>1, <4>1, ChunkSetType
    <3> HIDE DEF set
    <3> QED
      BY <3>1, NotNull
  <2> HIDE DEF set
  <2>4. /\ made.types = arch.types
        /\ Occupied(made.chunks, c)
        /\ made.chunks[c] = set
        /\ \A d : d # c /\ Occupied(arch.chunks, d) =>
             Occupied(made.chunks, d) /\ made.chunks[d] = arch.chunks[d]
    <3>1. made = WithChunk(arch, c, set)
      OBVIOUS
    <3> HIDE DEF made, c
    <3> QED
      BY <1>1, <2>3, <3>1, WithChunkKeeps
  <2>5. made # Null
    <3>1. DOMAIN made # DOMAIN Null
      <4>1. DOMAIN made = DOMAIN arch
        BY DEF WithChunk
      <4>2. arch = [types |-> arch.types, chunks |-> arch.chunks, filled |-> arch.filled]
        BY <1>1, ArchetypeFields
      <4>3. "types" \in DOMAIN arch
        BY <4>2
      <4>4. "types" \notin DOMAIN Null
        BY DEF Null
      <4> QED
        BY <4>1, <4>3, <4>4
    <3> QED
      BY <3>1
  <2> HIDE DEF made
  <2>6. ASSUME NEW j, NEW row, j # id, ArchHas(arch, j, row)
        PROVE  ArchHas(made, j, row)
    <3>1. PICK d : Occupied(arch.chunks, d) /\ ChunkHas(arch.chunks[d], ts, j, row)
      BY <1>1, <2>6 DEF ArchHas
    <3>2. CASE d = c
      BY <1>1, <1>3, <2>2, <2>4, <2>6, <3>1, <3>2 DEF ArchHas
    <3>3. CASE d # c
      BY <1>1, <2>4, <3>1, <3>3 DEF ArchHas
    <3> QED
      BY <3>2, <3>3
  <2>7. ArchHas(made, id, RowWith(RowAt(chunk, ts, i), t, v))
    BY <1>1, <2>2, <2>4 DEF ArchHas
  <2>8. /\ \A j, row : ArchHas(made, j, row) => Has(new, j, row)
        /\ \A j, row : Has(archs, j, row) /\ (ArchHas(archs[a], j, row) => ArchHas(made, j, row))
                         => Has(new, j, row)
    <3>1. new = Stored(archs, a, made)
      OBVIOUS
    <3> HIDE DEF new, a
    <3> QED
      BY <1>1, <2>5, <3>1, StoredHas
  <2>9. arch = archs[a]
    BY DEF arch
  <2> HIDE DEF new, a
  <2> QED
    BY <1>2, <2>1, <2>6, <2>7, <2>8, <2>9
<1> QED
  BY <1>4, <1>5, <1>6

-----------------------------------------------------------------------------
\* What EntityStore promises of rows.

\* A row that EntityStore allows for the types ts.
LEMMA FitsWith ==
  ASSUME NEW ts, NEW given, NEW row, row = [t \in ts |-> row[t]],
         \A t \in ts : IF t \in DOMAIN given THEN row[t] = given[t]
                       ELSE IF t \in SharedTypes(ts) THEN row[t] \in Value
                       ELSE row[t] = Default
  PROVE  row \in Abstract!With(ts, given)
<1> DEFINE found == [t \in SharedTypes(ts) \ DOMAIN given |-> row[t]]
           e     == [t \in ts |-> IF t \in DOMAIN given THEN given[t]
                                  ELSE IF t \in SharedTypes(ts) THEN found[t] ELSE Default]
<1>1. SharedTypes(ts) \subseteq ts
  BY DEF SharedTypes
<1>2. found \in [SharedTypes(ts) \ DOMAIN given -> Value]
  BY <1>1
<1>3. \A t \in ts : e[t] = row[t]
  OBVIOUS
<1>4. row = e
  BY <1>3
<1> HIDE DEF found
<1>5. Abstract!SharedTypes(ts) = SharedTypes(ts)
  BY DEF Abstract!SharedTypes, SharedTypes
<1> QED
  BY <1>2, <1>4, <1>5 DEF Abstract!With

\* What EntityStore allows for the types ts keeps the values given.
LEMMA WithKeeps ==
  ASSUME NEW ts, NEW given, NEW row \in Abstract!With(ts, given)
  PROVE  /\ row = [t \in ts |-> row[t]]
         /\ \A t \in ts : t \in DOMAIN given => row[t] = given[t]
<1>1. PICK found \in [Abstract!SharedTypes(ts) \ DOMAIN given -> Value] :
        row = [t \in ts |-> IF t \in DOMAIN given THEN given[t]
                            ELSE IF t \in Abstract!SharedTypes(ts) THEN found[t] ELSE Default]
  BY DEF Abstract!With
<1> QED
  BY <1>1

\* An entity that was moved keeps what its types hold.
LEMMA MovedFits ==
  ASSUME NEW ts \in SUBSET Types, NEW us \in SUBSET Types,
         NEW source, IsChunk(source, us), NEW i \in DOMAIN source.ids,
         NEW shared \in SharedLike(ts, source.shared)
  PROVE  Row(ts, shared, MovedElements(ts, source, i)) \in Abstract!With(ts, RowAt(source, us, i))
<1> DEFINE given == RowAt(source, us, i)
           row   == Row(ts, shared, MovedElements(ts, source, i))
<1>1. DOMAIN source.comps = ArrayTypes(us) /\ DOMAIN source.shared = SharedTypes(us)
  BY ChunkFields
<1>2. /\ shared \in [SharedTypes(ts) -> Value]
      /\ \A t \in SharedTypes(ts) \cap SharedTypes(us) : shared[t] = source.shared[t]
  BY <1>1 DEF SharedLike
<1>3. DOMAIN given = us
  BY DEF RowAt, Row
<1>4. row = [t \in ts |-> row[t]]
  BY DEF Row
<1>5. ASSUME NEW t \in ts
      PROVE  IF t \in us THEN row[t] = given[t]
             ELSE IF t \in SharedTypes(ts) THEN row[t] \in Value ELSE row[t] = Default
  <2>1. CASE t \in EmptyTypes
    <3>1. row[t] = Default /\ t \notin SharedTypes(ts)
      BY <2>1 DEF Row, SharedTypes
    <3>2. t \in us => given[t] = Default
      BY <2>1 DEF RowAt, Row
    <3> QED
      BY <3>1, <3>2
  <2>2. CASE t \in SharedTypes(ts)
    <3>1. row[t] = shared[t] /\ row[t] \in Value
      BY <1>2, <2>2 DEF Row, SharedTypes
    <3>2. t \in us => t \in SharedTypes(us) /\ t \notin EmptyTypes
      BY <2>2 DEF SharedTypes
    <3>3. t \in us => given[t] = source.shared[t]
      BY <3>2 DEF RowAt, Row
    <3> QED
      BY <1>2, <2>2, <3>1, <3>2, <3>3
  <2>3. CASE t \notin EmptyTypes /\ t \notin SharedTypes(ts)
    <3>1. t \in ArrayTypes(ts) /\ (t \in us <=> t \in ArrayTypes(us))
          /\ (t \in us => t \notin SharedTypes(us))
      BY <2>3 DEF ArrayTypes, SharedTypes
    <3>2. row[t] = IF t \in ArrayTypes(us) THEN source.comps[t][i] ELSE Default
      BY <1>1, <2>3, <3>1 DEF Row, MovedElements
    <3>3. t \in us => given[t] = source.comps[t][i]
      BY <2>3, <3>1 DEF RowAt, Row
    <3> QED
      BY <2>3, <3>1, <3>2, <3>3
  <2> QED
    BY <2>1, <2>2, <2>3
<1> HIDE DEF given, row
<1>6. row \in Abstract!With(ts, given)
  BY <1>3, <1>4, <1>5, FitsWith
<1> QED
  BY <1>6 DEF given, row

\* An entity that createEntity built.
LEMMA CreatedFits ==
  ASSUME NEW ts, NEW shared \in [SharedTypes(ts) -> Value]
  PROVE  Row(ts, shared, [t \in ArrayTypes(ts) |-> Default]) \in Abstract!With(ts, << >>)
<1> DEFINE row == Row(ts, shared, [t \in ArrayTypes(ts) |-> Default])
<1>1. row = [t \in ts |-> row[t]]
  BY DEF Row
<1>2. ASSUME NEW t \in ts
      PROVE  IF t \in SharedTypes(ts) THEN row[t] \in Value ELSE row[t] = Default
  BY RowTypes DEF Row, SharedTypes
<1>3. DOMAIN << >> = {}
  OBVIOUS
<1> HIDE DEF row
<1>4. row \in Abstract!With(ts, << >>)
  BY <1>1, <1>2, <1>3, FitsWith
<1> QED
  BY <1>4 DEF row

\* What createEntity(values) stores.
GivenRow(values) ==
  [t \in DOMAIN values |-> IF t \in EmptyTypes THEN Default
                           ELSE IF Kind[t] \in {"Regular", "Shared"} THEN values[t] ELSE Uninit]

\* The row of an entity created with these values is the one it was given.
LEMMA GivenRowIs ==
  ASSUME NEW ts, NEW values \in [ts -> Value], NEW shared \in SharedLike(ts, values)
  PROVE  Row(ts, shared, GivenElements(ts, values)) = GivenRow(values)
<1> DEFINE row == Row(ts, shared, GivenElements(ts, values))
<1>1. DOMAIN values = ts
  OBVIOUS
<1>2. ASSUME NEW t \in ts PROVE row[t] = GivenRow(values)[t]
  <2>1. CASE t \in EmptyTypes
    BY <1>1, <2>1 DEF Row, GivenRow
  <2>2. CASE t \in SharedTypes(ts)
    <3>1. shared[t] = values[t]
      BY <1>1, <2>2 DEF SharedLike
    <3>2. t \notin EmptyTypes /\ Kind[t] = "Shared"
      BY <2>2 DEF SharedTypes
    <3> QED
      BY <1>1, <2>2, <3>1, <3>2 DEF Row, GivenRow
  <2>3. CASE t \notin EmptyTypes /\ t \notin SharedTypes(ts)
    <3>1. t \in ArrayTypes(ts) /\ Kind[t] # "Shared"
      BY <2>3 DEF ArrayTypes, SharedTypes
    <3> QED
      BY <1>1, <2>3, <3>1 DEF Row, GivenElements, GivenRow
  <2> QED
    BY <2>1, <2>2, <2>3
<1> QED
  BY <1>1, <1>2 DEF Row, GivenRow

\* addComponent: the new component has the value that was given, the others
\* what they held before.
LEMMA AddedFits ==
  ASSUME NEW us, NEW given, DOMAIN given = us, NEW t, NEW v,
         NEW row \in Abstract!With(us \cup {t}, given)
  PROVE  RowWith(row, t, v) \in Abstract!With(us \cup {t}, Abstract!Put(given, t, v))
<1> DEFINE ts  == us \cup {t}
           put == Abstract!Put(given, t, v)
           new == RowWith(row, t, v)
<1>1. row = [u \in ts |-> row[u]] /\ \A u \in ts : u \in us => row[u] = given[u]
  BY WithKeeps
<1>2. DOMAIN put = ts /\ \A u \in ts : put[u] = IF u = t THEN v ELSE given[u]
  BY DEF Abstract!Put
<1>3. new = [u \in ts |-> IF u = t THEN v ELSE row[u]]
  BY <1>1 DEF RowWith
<1>4. new = [u \in ts |-> new[u]]
  BY <1>3
<1>5. \A u \in ts : new[u] = put[u]
  BY <1>1, <1>2, <1>3
<1> HIDE DEF ts, put, new
<1>6. new \in Abstract!With(ts, put)
  BY <1>2, <1>4, <1>5, FitsWith
<1> QED
  BY <1>6 DEF ts, put, new

-----------------------------------------------------------------------------
\* Operations on a store, as changes of its entities.

EntitiesOf(s) == [id \in DOMAIN s.map |-> RowIn(s, id)]

\* The entities es with the entity id replaced, or removed.
Replaced(es, id, row) == [es EXCEPT ![id] = row]

Dropped(es, id) == Restrict(es, DOMAIN es \ {id})

\* An entity whose row stayed in the table is what it was.
LEMMA EntityKept ==
  ASSUME NEW s, StoreOK(s), NEW r, StoreOK(r), NEW id, KeepsOthers(s, r, id),
         NEW j \in DOMAIN s.map, j # id
  PROVE  j \in DOMAIN r.map /\ RowIn(r, j) = RowIn(s, j)
<1>1. Has(s.archetypes, j, RowIn(s, j))
  BY RowInHas
<1>2. Has(r.archetypes, j, RowIn(s, j))
  BY <1>1 DEF KeepsOthers
<1> QED
  BY <1>2, HasIsRow

\* Only the components of one entity changed.
LEMMA EntitiesReplaced ==
  ASSUME NEW s, StoreOK(s), NEW r, StoreOK(r), NEW id, KeepsOthers(s, r, id),
         \A j : j \in DOMAIN r.map => j \in DOMAIN s.map,
         NEW row, Has(r.archetypes, id, row)
  PROVE  EntitiesOf(r) = Replaced(EntitiesOf(s), id, row)
<1>1. id \in DOMAIN r.map /\ RowIn(r, id) = row
  BY HasIsRow
<1>2. \A j \in DOMAIN s.map : j # id => j \in DOMAIN r.map /\ RowIn(r, j) = RowIn(s, j)
  BY EntityKept
<1>3. DOMAIN r.map = DOMAIN s.map
  BY <1>1, <1>2
<1> QED
  BY <1>1, <1>2, <1>3 DEF EntitiesOf, Replaced

\* One entity is gone.
LEMMA EntitiesDropped ==
  ASSUME NEW s, StoreOK(s), NEW r, StoreOK(r), NEW id, KeepsOthers(s, r, id),
         \A j : j \in DOMAIN r.map <=> j \in DOMAIN s.map /\ j # id
  PROVE  EntitiesOf(r) = Dropped(EntitiesOf(s), id)
<1>1. \A j \in DOMAIN s.map : j # id => j \in DOMAIN r.map /\ RowIn(r, j) = RowIn(s, j)
  BY EntityKept
<1>2. DOMAIN r.map = DOMAIN s.map \ {id}
  OBVIOUS
<1>3. DOMAIN EntitiesOf(s) = DOMAIN s.map
  BY DEF EntitiesOf
<1> QED
  BY <1>1, <1>2, <1>3 DEF EntitiesOf, Dropped, Restrict

\* One entity is new.
LEMMA EntitiesPut ==
  ASSUME NEW s, StoreOK(s), NEW r, StoreOK(r), NEW id, KeepsOthers(s, r, id),
         \A j : j \in DOMAIN r.map <=> j \in DOMAIN s.map \/ j = id,
         NEW row, Has(r.archetypes, id, row)
  PROVE  EntitiesOf(r) = Abstract!Put(EntitiesOf(s), id, row)
<1>1. RowIn(r, id) = row
  BY HasIsRow
<1>2. \A j \in DOMAIN s.map : j # id => RowIn(r, j) = RowIn(s, j)
  BY EntityKept
<1>3. DOMAIN r.map = DOMAIN s.map \cup {id}
  OBVIOUS
<1>4. DOMAIN EntitiesOf(s) = DOMAIN s.map
  BY DEF EntitiesOf
<1> QED
  BY <1>1, <1>2, <1>3, <1>4 DEF EntitiesOf, Abstract!Put

\* deleteEntity(id, false)
LEMMA RemoveEntityEffect ==
  ASSUME NEW s, StoreOK(s), NEW id \in DOMAIN s.map, NEW r, r = RemoveEntity(s, id)
  PROVE  EntitiesOf(r) = Dropped(EntitiesOf(s), id)
<1>1. StoreOK(r) /\ \A j : j \in DOMAIN r.map <=> j \in DOMAIN s.map /\ j # id
  BY RemoveEntityOK
<1>2. KeepsOthers(s, r, id)
  <2> DEFINE archs == s.archetypes
             map   == s.map
             ix    == map[id]
  <2>1. archs = s.archetypes /\ map = s.map /\ ix = map[id]
    OBVIOUS
  <2> HIDE DEF archs, map, ix
  <2>2. TableOK(archs) /\ ix \in Places /\ Holds(archs, id, ix)
    <3>1. ix = s.map[id]
      BY <2>1
    <3> QED
      BY <2>1, <3>1, PlaceOf
  <2>3. \A j, row : j # id /\ Has(archs, j, row) => Has(r.archetypes, j, row)
    BY <2>1, <2>2, RemoveEntityHas
  <2> QED
    BY <2>1, <2>3 DEF KeepsOthers
<1> QED
  BY <1>1, <1>2, EntitiesDropped

\* changeComponents, if the entity survives: how its row changes.
LEMMA ChangeComponentsRow ==
  ASSUME NEW s, StoreOK(s), NEW id \in DOMAIN s.map, NEW ts \in SUBSET Types, ~ Vanishes(ts),
         NEW r, r = ChangeComponents(s, id, ts)
  PROVE  /\ KeepsOthers(s, r, id)
         /\ \E row \in Abstract!With(ts, RowIn(s, id)) : Has(r.archetypes, id, row)
<1> DEFINE archs  == s.archetypes
           map    == s.map
           ix     == map[id]
           us     == TypesOf(s, id)
           source == PlacedChunk(archs, ix)
           a      == ArchetypeSlot(archs, ts)
           with   == WithArchetype(archs, ts)
<1>1. r = IF a = ix.arch THEN s ELSE MoveEntity(s, id, a, with)
  BY DEF ChangeComponents
<1>2. archs = s.archetypes /\ map = s.map /\ ix = map[id] /\ us = TypesOf(s, id)
      /\ source = PlacedChunk(archs, ix) /\ a = ArchetypeSlot(archs, ts)
      /\ with = WithArchetype(archs, ts) /\ ix = s.map[id]
  OBVIOUS
<1>3. RowIn(s, id) = RowAt(source, us, ix.elem)
  BY DEF RowIn
<1> HIDE DEF archs, map, ix, us, source, a, with
<1>4. /\ TableOK(archs)
      /\ Occupied(archs, ix.arch)
      /\ us = archs[ix.arch].types
      /\ us \in SUBSET Types
      /\ IsChunk(source, us)
      /\ ix.elem \in DOMAIN source.ids
  BY <1>2, PlaceOf
<1>5. CASE a = ix.arch
  <2>1. r = s
    BY <1>1, <1>5
  <2>2. us = ts
    <3>1. TableOK(archs) /\ a = ArchetypeSlot(archs, ts) /\ Occupied(archs, a)
      BY <1>2, <1>4, <1>5
    <3>2. archs[a].types = ts
      BY ONLY <3>1, ArchetypeSlotType
    <3> QED
      BY <1>4, <1>5, <3>2
  <2> DEFINE row == RowIn(s, id)
  <2>3. row = [t \in ts |-> row[t]] /\ DOMAIN row = ts
    BY <1>3, <2>2 DEF RowAt, Row
  <2>4. Has(archs, id, row)
    BY <1>2, RowInHas
  <2> HIDE DEF row
  <2>5. row \in Abstract!With(ts, row)
    BY <2>3, FitsWith
  <2> QED
    BY <1>2, <2>1, <2>4, <2>5 DEF KeepsOthers, row
<1>6. CASE a # ix.arch
  <2>1. r = MoveEntity(s, id, a, with)
    BY <1>1, <1>6
  <2>2. /\ KeepsOthers(s, r, id)
        /\ \E shared \in SharedLike(ts, source.shared) :
             Has(r.archetypes, id, Row(ts, shared, MovedElements(ts, source, ix.elem)))
    <3>1. /\ StoreOK(s) /\ id \in DOMAIN s.map /\ ts \in SUBSET Types /\ map = s.map
          /\ a # ix.arch
      BY <1>2, <1>6
    <3>2. KeepsOthers(s, r, id)
      BY ONLY <1>2, <2>1, <3>1, MoveEntityHas
    <3>3. \E shared \in SharedLike(ts, source.shared) :
            Has(r.archetypes, id, Row(ts, shared, MovedElements(ts, source, ix.elem)))
      BY ONLY <1>2, <2>1, <3>1, MoveEntityHas
    <3> QED
      BY <3>2, <3>3
  <2>3. PICK shared \in SharedLike(ts, source.shared) :
          Has(r.archetypes, id, Row(ts, shared, MovedElements(ts, source, ix.elem)))
    BY <2>2
  <2>4. Row(ts, shared, MovedElements(ts, source, ix.elem)) \in Abstract!With(ts, RowIn(s, id))
    <3> DEFINE i == ix.elem
    <3>1. i \in DOMAIN source.ids
      BY <1>4
    <3> HIDE DEF i
    <3>2. Row(ts, shared, MovedElements(ts, source, i)) \in Abstract!With(ts, RowAt(source, us, i))
      BY <1>4, <3>1, MovedFits
    <3> QED
      BY <1>3, <3>2 DEF i
  <2> QED
    BY <2>2, <2>3, <2>4
<1> QED
  BY <1>5, <1>6

\* The types of an entity are the domain of its row.
LEMMA EntitiesFields ==
  ASSUME NEW s, NEW id \in DOMAIN s.map
  PROVE  /\ id \in DOMAIN EntitiesOf(s)
         /\ EntitiesOf(s)[id] = RowIn(s, id)
         /\ DOMAIN EntitiesOf(s)[id] = TypesOf(s, id)
BY DEF EntitiesOf, RowIn, RowAt, Row

\* changeComponents: its effect on the entities.
ChangedTypes(es, new, id, ts) ==
  IF Vanishes(ts) THEN new = Dropped(es, id)
  ELSE \E row \in Abstract!With(ts, es[id]) : new = Replaced(es, id, row)

\* changeComponents drops the entity, or gives it the types ts and keeps what
\* it held of those it had; no other entity changes.
LEMMA ChangeComponentsEffect ==
  ASSUME NEW s, StoreOK(s), NEW id \in DOMAIN s.map, NEW ts \in SUBSET Types,
         NEW r, r = ChangeComponents(s, id, ts)
  PROVE  ChangedTypes(EntitiesOf(s), EntitiesOf(r), id, ts)
<1>1. CASE Vanishes(ts)
  <2>1. r = RemoveEntity(s, id)
    BY <1>1 DEF ChangeComponents
  <2>2. EntitiesOf(r) = Dropped(EntitiesOf(s), id)
    BY <2>1, RemoveEntityEffect
  <2> QED
    BY <1>1, <2>2 DEF ChangedTypes
<1>2. CASE ~ Vanishes(ts)
  <2>1. StoreOK(r) /\ \A j : j \in DOMAIN r.map => j \in DOMAIN s.map
    BY ChangeComponentsOK
  <2>2. /\ KeepsOthers(s, r, id)
        /\ \E row \in Abstract!With(ts, RowIn(s, id)) : Has(r.archetypes, id, row)
    BY <1>2, ChangeComponentsRow
  <2>3. PICK row \in Abstract!With(ts, RowIn(s, id)) : Has(r.archetypes, id, row)
    BY <2>2
  <2>4. EntitiesOf(r) = Replaced(EntitiesOf(s), id, row)
    BY <2>1, <2>2, <2>3, EntitiesReplaced
  <2>5. EntitiesOf(s)[id] = RowIn(s, id)
    BY EntitiesFields
  <2> QED
    BY <1>2, <2>3, <2>4, <2>5 DEF ChangedTypes
<1> QED
  BY <1>1, <1>2

\* deleteEntity(id)
DeletedFrom(es, new, id) ==
  LET kept == StateTypes(DOMAIN es[id])
  IN  IF kept = {} THEN new = Dropped(es, id)
      ELSE ChangedTypes(es, new, id, kept \cup {DeletedEntity})

\* deleteEntity drops the entity, or leaves it with its state components.
LEMMA DeleteEntityEffect ==
  ASSUME NEW s, StoreOK(s), NEW id \in DOMAIN s.map, NEW r, r = DeleteEntityOf(s, id)
  PROVE  DeletedFrom(EntitiesOf(s), EntitiesOf(r), id)
<1> DEFINE kept == StateTypes(TypesOf(s, id))
<1>1. kept = StateTypes(DOMAIN EntitiesOf(s)[id])
  BY EntitiesFields
<1>2. CASE kept = {}
  <2>1. r = RemoveEntity(s, id)
    BY <1>2 DEF DeleteEntityOf
  <2>2. EntitiesOf(r) = Dropped(EntitiesOf(s), id)
    BY <2>1, RemoveEntityEffect
  <2> QED
    BY <1>1, <1>2, <2>2 DEF DeletedFrom
<1>3. CASE kept # {}
  <2> DEFINE ts == kept \cup {DeletedEntity}
  <2>1. r = ChangeComponents(s, id, ts)
    BY <1>3 DEF DeleteEntityOf
  <2>2. ts \in SUBSET Types
    <3>1. TypesOf(s, id) \in SUBSET Types
      BY PlaceOf
    <3> QED
      BY <3>1, TypesAssumption DEF StateTypes
  <2> HIDE DEF ts
  <2>3. ChangedTypes(EntitiesOf(s), EntitiesOf(r), id, ts)
    BY <2>1, <2>2, ChangeComponentsEffect
  <2> QED
    BY <1>1, <1>3, <2>3 DEF DeletedFrom, ts
<1> QED
  BY <1>2, <1>3

\* setComponent and setSharedComponent
LEMMA SetComponentEffect ==
  ASSUME NEW s, StoreOK(s), NEW id \in DOMAIN s.map, NEW t \in Types, NEW v \in ValuesOf(t),
         t \in SharedTypes(Types) => t \in TypesOf(s, id),
         NEW r, r = SetComponentOf(s, id, t, v)
  PROVE  EntitiesOf(r) = Replaced(EntitiesOf(s), id, RowWith(EntitiesOf(s)[id], t, v))
<1>1. v \in Value
  BY DefaultAndRoom DEF ValuesOf
<1>2. StoreOK(r) /\ \A j : j \in DOMAIN r.map => j \in DOMAIN s.map
  BY <1>1, SetComponentOK
<1> DEFINE archs == s.archetypes
           row   == RowWith(RowIn(s, id), t, v)
<1>3. /\ \A j, rw : j # id /\ Has(archs, j, rw) => Has(r.archetypes, j, rw)
      /\ Has(r.archetypes, id, row)
  BY SetComponentHas
<1>4. KeepsOthers(s, r, id)
  BY <1>3 DEF KeepsOthers
<1> HIDE DEF row
<1>5. EntitiesOf(r) = Replaced(EntitiesOf(s), id, row)
  BY <1>2, <1>3, <1>4, EntitiesReplaced
<1>6. EntitiesOf(s)[id] = RowIn(s, id)
  BY EntitiesFields
<1> QED
  BY <1>5, <1>6 DEF row

\* addComponent: two operations, one effect.
LEMMA AddComponentEffect ==
  ASSUME NEW s, StoreOK(s), NEW id \in DOMAIN s.map, NEW t \in Types \ {DeletedEntity},
         NEW v \in ValuesOf(t), NEW us, us = TypesOf(s, id),
         NEW m, m = ChangeComponents(s, id, us \cup {t}),
         NEW r, r = SetComponentOf(m, id, t, v)
  PROVE  \E row \in Abstract!With(us \cup {t}, Abstract!Put(EntitiesOf(s)[id], t, v)) :
           EntitiesOf(r) = Replaced(EntitiesOf(s), id, row)
<1> DEFINE ts == us \cup {t}
<1>1. us \in SUBSET Types
  BY PlaceOf
<1>2. ts \in SUBSET Types /\ ~ Vanishes(ts) /\ t \in ts
  BY <1>1 DEF Vanishes
<1>3. m = ChangeComponents(s, id, ts)
  OBVIOUS
<1>4. v \in Value
  BY DefaultAndRoom DEF ValuesOf
<1> HIDE DEF ts
<1>5. /\ StoreOK(m)
      /\ \A j : j \in DOMAIN m.map => j \in DOMAIN s.map
      /\ id \in DOMAIN m.map
      /\ TypesOf(m, id) = ts
  <2>1. StoreOK(s) /\ id \in DOMAIN s.map
    OBVIOUS
  <2>2. /\ StoreOK(m)
        /\ \A j : j \in DOMAIN m.map => j \in DOMAIN s.map
        /\ ~ Vanishes(ts) => id \in DOMAIN m.map /\ TypesOf(m, id) = ts
    BY ONLY <1>2, <1>3, <2>1, ChangeComponentsOK
  <2> QED
    BY <1>2, <2>2
<1>6. /\ KeepsOthers(s, m, id)
      /\ \E row \in Abstract!With(ts, RowIn(s, id)) : Has(m.archetypes, id, row)
  BY <1>2, <1>3, ChangeComponentsRow
<1>7. PICK row \in Abstract!With(ts, RowIn(s, id)) : Has(m.archetypes, id, row)
  BY <1>6
<1>8. RowIn(m, id) = row
  BY <1>5, <1>7, HasIsRow
<1>9. StoreOK(r) /\ \A j : j \in DOMAIN r.map <=> j \in DOMAIN m.map
  <2>1. /\ t \in Types /\ r = SetComponentOf(m, id, t, v)
        /\ t \in SharedTypes(Types) => t \in TypesOf(m, id)
    BY <1>2, <1>5
  <2> QED
    BY ONLY <1>4, <1>5, <2>1, SetComponentOK
<1> DEFINE new == RowWith(row, t, v)
<1>10. KeepsOthers(m, r, id) /\ Has(r.archetypes, id, new)
  <2> DEFINE archs == m.archetypes
  <2>1. archs = m.archetypes /\ (t \in SharedTypes(Types) => t \in TypesOf(m, id))
    BY <1>2, <1>5
  <2> HIDE DEF archs
  <2>2. /\ StoreOK(m) /\ id \in DOMAIN m.map /\ t \in Types /\ v \in ValuesOf(t)
        /\ r = SetComponentOf(m, id, t, v)
    BY <1>5
  <2>3. \A j, rw : j # id /\ Has(archs, j, rw) => Has(r.archetypes, j, rw)
    BY ONLY <2>1, <2>2, SetComponentHas
  <2>4. Has(r.archetypes, id, RowWith(RowIn(m, id), t, v))
    BY ONLY <2>1, <2>2, SetComponentHas
  <2> QED
    BY <1>8, <2>1, <2>3, <2>4 DEF KeepsOthers
<1>11. KeepsOthers(s, r, id)
  BY <1>6, <1>10 DEF KeepsOthers
<1> HIDE DEF new
<1>12. EntitiesOf(r) = Replaced(EntitiesOf(s), id, new)
  <2>1. /\ StoreOK(s) /\ StoreOK(r) /\ KeepsOthers(s, r, id)
        /\ \A j : j \in DOMAIN r.map => j \in DOMAIN s.map
        /\ Has(r.archetypes, id, new)
    BY <1>5, <1>9, <1>10, <1>11
  <2> QED
    BY ONLY <2>1, EntitiesReplaced
<1>13. new \in Abstract!With(ts, Abstract!Put(EntitiesOf(s)[id], t, v))
  <2> DEFINE given == RowIn(s, id)
  <2>1. DOMAIN given = us /\ EntitiesOf(s)[id] = given
    BY EntitiesFields
  <2>2. row \in Abstract!With(us \cup {t}, given)
    BY <1>7 DEF ts
  <2> HIDE DEF given
  <2>3. RowWith(row, t, v) \in Abstract!With(us \cup {t}, Abstract!Put(given, t, v))
    BY <2>1, <2>2, AddedFits
  <2> QED
    BY <2>1, <2>3 DEF ts, new
<1> QED
  BY <1>12, <1>13 DEF ts

-----------------------------------------------------------------------------
\* Steps of the store, as steps of EntityStore.

\* The entities that clients see, which are the rows of the store.
Seen == [id \in DOMAIN entityDataIndexMap |-> EntityOf(id)]

\* Clients read the rows of the store.
LEMMA SeenAreEntities == Seen = EntitiesOf(Store)
<1>1. Store.map = entityDataIndexMap /\ Store.archetypes = archetypes
  BY StoreFields
<1>2. ASSUME NEW id \in DOMAIN entityDataIndexMap
      PROVE  EntityOf(id) = RowIn(Store, id)
  <2> DEFINE ts    == TypesOf(Store, id)
             chunk == ChunkOf(Store, id)
             e     == entityDataIndexMap[id].elem
  <2>1. RowIn(Store, id) = Row(ts, chunk.shared, [t \in ArrayTypes(ts) |-> chunk.comps[t][e]])
    BY <1>1 DEF RowIn, RowAt, PlacedChunk, ChunkOf
  <2>2. EntityOf(id) = [t \in ts |-> IF t \in EmptyTypes THEN Default
                                     ELSE IF t \in SharedTypes(ts) THEN chunk.shared[t]
                                     ELSE chunk.comps[t][e]]
    BY DEF EntityOf
  <2> HIDE DEF ts, chunk, e
  <2> QED
    BY <2>1, <2>2, RowTypes DEF Row
<1> QED
  BY <1>1, <1>2 DEF EntitiesOf, Seen

\* The same after a step.
LEMMA SeenAfter == Seen' = EntitiesOf(Store)'
<1>1. (Seen = EntitiesOf(Store))'
  BY SeenAreEntities, PTL
<1> QED
  BY <1>1

\* An entity is removed.
LEMMA RemoveStep ==
  ASSUME NEW id, EntitiesOf(Store)' = Dropped(EntitiesOf(Store), id), nextEntityId' = nextEntityId
  PROVE  Abstract!Remove(id)
<1>1. Seen' = Restrict(Seen, DOMAIN Seen \ {id})
  BY SeenAreEntities, SeenAfter DEF Dropped
<1> QED
  BY <1>1 DEF Abstract!Remove, Seen, Restrict, Abstract!Restrict

\* The components of an entity change to one of the options.
LEMMA ChangeStep ==
  ASSUME NEW id, NEW row, NEW options, row \in options,
         EntitiesOf(Store)' = Replaced(EntitiesOf(Store), id, row), nextEntityId' = nextEntityId
  PROVE  Abstract!Change(id, options)
<1>1. Seen' = [Seen EXCEPT ![id] = row]
  BY SeenAreEntities, SeenAfter DEF Replaced
<1> QED
  BY <1>1 DEF Abstract!Change, Seen

\* The types of an entity change.
LEMMA ChangeTypesStep ==
  ASSUME NEW id, NEW ts, ChangedTypes(EntitiesOf(Store), EntitiesOf(Store)', id, ts),
         nextEntityId' = nextEntityId
  PROVE  Abstract!ChangeTypes(id, ts)
<1>1. Abstract!Vanishes(ts) <=> Vanishes(ts)
  BY DEF Abstract!Vanishes, Vanishes
<1>2. CASE Vanishes(ts)
  <2>1. Abstract!Remove(id)
    BY <1>2, RemoveStep DEF ChangedTypes
  <2> QED
    BY <1>1, <1>2, <2>1 DEF Abstract!ChangeTypes
<1>3. CASE ~ Vanishes(ts)
  <2>1. PICK given : given = Seen[id]
    OBVIOUS
  <2>2. PICK row \in Abstract!With(ts, given) :
          EntitiesOf(Store)' = Replaced(EntitiesOf(Store), id, row)
    BY <1>3, <2>1, SeenAreEntities DEF ChangedTypes
  <2>3. Abstract!Change(id, Abstract!With(ts, given))
    BY <2>2, ChangeStep
  <2> QED
    BY <1>1, <1>3, <2>1, <2>3 DEF Abstract!ChangeTypes, Seen
<1> QED
  BY <1>2, <1>3

\* An entity is deleted.
LEMMA DeleteStep ==
  ASSUME NEW id, DeletedFrom(EntitiesOf(Store), EntitiesOf(Store)', id),
         nextEntityId' = nextEntityId
  PROVE  Abstract!DeleteEntity(id)
<1>1. PICK kept : kept = StateTypes(DOMAIN Seen[id])
  OBVIOUS
<1>2. kept = Abstract!StateTypes(DOMAIN Seen[id])
  BY <1>1 DEF StateTypes, Abstract!StateTypes
<1>3. CASE kept = {}
  <2>1. Abstract!Remove(id)
    BY <1>1, <1>3, RemoveStep, SeenAreEntities DEF DeletedFrom
  <2> QED
    BY <1>2, <1>3, <2>1 DEF Abstract!DeleteEntity, Seen
<1>4. CASE kept # {}
  <2> DEFINE ts == kept \cup {DeletedEntity}
  <2>1. ChangedTypes(EntitiesOf(Store), EntitiesOf(Store)', id, ts)
    BY <1>1, <1>4, SeenAreEntities DEF DeletedFrom
  <2> HIDE DEF ts
  <2>2. Abstract!ChangeTypes(id, ts)
    BY <2>1, ChangeTypesStep
  <2> QED
    BY <1>2, <1>4, <2>2 DEF Abstract!DeleteEntity, Seen, ts
<1> QED
  BY <1>3, <1>4

\* An entity is created.
LEMMA CreateStep ==
  ASSUME NEW id, id = nextEntityId, id \in Nat \ {0}, nextEntityId' = nextEntityId + 1,
         NEW row, NEW options, row \in options,
         EntitiesOf(Store)' = Abstract!Put(EntitiesOf(Store), id, row)
  PROVE  Abstract!Create(id, options)
<1>1. Seen' = Abstract!Put(Seen, id, row)
  BY SeenAreEntities, SeenAfter
<1>2. /\ id \notin 1 .. nextEntityId - 1
      /\ 1 .. nextEntityId' - 1 = (1 .. nextEntityId - 1) \cup {id}
  OBVIOUS
<1> QED
  BY <1>1, <1>2 DEF Abstract!Create, Seen

-----------------------------------------------------------------------------
\* Each action, as the one that EntityStore promises.

\* The entities after an operation that changed the store.
LEMMA OperationResult ==
  ASSUME NEW id, NEW r, NEW faults \in BOOLEAN, Operation(id, r, faults), Store' # Store
  PROVE  /\ ~ faults
         /\ EntitiesOf(Store)' = EntitiesOf(r)
         /\ nextEntityId' = nextEntityId
<1>1. nextEntityId' = nextEntityId
  BY DEF Operation
<1>2. CASE faults
  <2>1. UNCHANGED <<archetypes, entityDataIndexMap>>
    BY <1>2 DEF Operation, Becomes
  <2>2. Store' = Store
    BY <2>1 DEF Store
  <2> QED
    BY <2>2
<1>3. CASE ~ faults
  <2>1. archetypes' = r.archetypes /\ entityDataIndexMap' = r.map
    BY <1>3 DEF Operation, Becomes
  <2>2. Store'.archetypes = r.archetypes /\ Store'.map = r.map
    BY <2>1 DEF Store, StoreOf
  <2>3. EntitiesOf(Store)' = EntitiesOf(r)
    BY <2>2 DEF EntitiesOf, RowIn, TypesOf
  <2> QED
    BY <1>1, <1>3, <2>3
<1> QED
  BY <1>2, <1>3

\* deleteEntity
LEMMA DeleteEntityPromised ==
  ASSUME IInv, NEW id \in DOMAIN entityDataIndexMap, DeleteEntity(id), Store' # Store
  PROVE  Abstract!DeleteEntity(id)
<1> DEFINE r      == DeleteEntityOf(Store, id)
           faults == DeleteFaults(Store, id)
<1>1. Operation(id, r, faults)
  BY DEF DeleteEntity
<1>2. faults \in BOOLEAN
  BY DEF DeleteFaults
<1>3. StoreOK(Store) /\ id \in DOMAIN Store.map
  BY EntityFields
<1>4. r = DeleteEntityOf(Store, id)
  OBVIOUS
<1> HIDE DEF r, faults
<1>5. DeletedFrom(EntitiesOf(Store), EntitiesOf(r), id)
  BY <1>3, <1>4, DeleteEntityEffect
<1>6. EntitiesOf(Store)' = EntitiesOf(r) /\ nextEntityId' = nextEntityId
  BY <1>1, <1>2, OperationResult
<1>7. DeletedFrom(EntitiesOf(Store), EntitiesOf(Store)', id)
  BY <1>5, <1>6
<1> QED
  BY <1>6, <1>7, DeleteStep

\* changeComponents, and deleteComponents
LEMMA ChangePromised ==
  ASSUME IInv, NEW id \in DOMAIN entityDataIndexMap, NEW ts \in SUBSET Types, Store' # Store,
         Operation(id, ChangeComponents(Store, id, ts), ChangeFaults(Store, id, ts))
  PROVE  Abstract!ChangeTypes(id, ts)
<1> DEFINE r      == ChangeComponents(Store, id, ts)
           faults == ChangeFaults(Store, id, ts)
<1>1. Operation(id, r, faults)
  OBVIOUS
<1>2. faults \in BOOLEAN
  BY DEF ChangeFaults
<1>3. StoreOK(Store) /\ id \in DOMAIN Store.map
  BY EntityFields
<1>4. r = ChangeComponents(Store, id, ts)
  OBVIOUS
<1> HIDE DEF r, faults
<1>5. ChangedTypes(EntitiesOf(Store), EntitiesOf(r), id, ts)
  BY <1>3, <1>4, ChangeComponentsEffect
<1>6. EntitiesOf(Store)' = EntitiesOf(r) /\ nextEntityId' = nextEntityId
  BY <1>1, <1>2, OperationResult
<1>7. ChangedTypes(EntitiesOf(Store), EntitiesOf(Store)', id, ts)
  BY <1>5, <1>6
<1> QED
  BY <1>6, <1>7, ChangeTypesStep

\* deleteComponents takes the types away, as promised.
LEMMA DeleteComponentsPromised ==
  ASSUME IInv, NEW id \in DOMAIN entityDataIndexMap, NEW ts \in SUBSET ClientTypes,
         DeleteComponents(id, ts), Store' # Store
  PROVE  Abstract!ChangeTypes(id, TypesOf(Store, id) \ ts)
<1>1. PICK left : left = TypesOf(Store, id) \ ts
  OBVIOUS
<1>2. left \in SUBSET Types
  BY <1>1, EntityFields
<1>3. Operation(id, ChangeComponents(Store, id, left), ChangeFaults(Store, id, left))
  BY <1>1 DEF DeleteComponents
<1>4. Abstract!ChangeTypes(id, left)
  BY <1>2, <1>3, ChangePromised
<1> QED
  BY <1>1, <1>4

\* changeComponents with any types changes the entity as promised.
LEMMA ChangeTypesPromised ==
  ASSUME IInv, NEW id \in DOMAIN entityDataIndexMap, NEW ts \in SUBSET ClientTypes,
         ChangeTypes(id, ts), Store' # Store
  PROVE  Abstract!ChangeTypes(id, ts)
<1>1. ts \in SUBSET Types
  BY ClientAssumption
<1> QED
  BY <1>1, ChangePromised DEF ChangeTypes

\* setComponent: nothing happens to an entity without the component.
LEMMA SetComponentPromised ==
  ASSUME IInv, NEW id \in DOMAIN entityDataIndexMap, NEW t \in ClientTypes,
         NEW v \in ValuesOf(t), SetComponent(id, t, v), Store' # Store
  PROVE  Abstract!SetComponent(id, t, v)
<1> DEFINE r      == SetComponentOf(Store, id, t, v)
           faults == t \in SharedTypes(Types) \ TypesOf(Store, id)
<1>1. Operation(id, r, faults)
  BY DEF SetComponent
<1>2. faults \in BOOLEAN
  OBVIOUS
<1>3. StoreOK(Store) /\ id \in DOMAIN Store.map
  BY EntityFields
<1>4. r = SetComponentOf(Store, id, t, v)
  OBVIOUS
<1>5. t \in Types
  BY ClientAssumption
<1> HIDE DEF r
<1>6. ~ faults /\ EntitiesOf(Store)' = EntitiesOf(r) /\ nextEntityId' = nextEntityId
  <2> HIDE DEF faults
  <2> QED
    BY <1>1, <1>2, OperationResult
<1>7. t \in SharedTypes(Types) => t \in TypesOf(Store, id)
  BY <1>6
<1>8. EntitiesOf(r) = Replaced(EntitiesOf(Store), id, RowWith(EntitiesOf(Store)[id], t, v))
  BY <1>3, <1>4, <1>5, <1>7, SetComponentEffect
<1>9. t \in TypesOf(Store, id)
  <2>1. ASSUME t \notin TypesOf(Store, id) PROVE FALSE
    <3>1. r = Store
      BY <1>4, <1>7, <2>1 DEF SetComponentOf, ArrayTypes
    <3>2. Store' = Store
      <4>1. archetypes' = r.archetypes /\ entityDataIndexMap' = r.map
        <5>1. ~ faults
          BY <1>6
        <5> HIDE DEF faults
        <5> QED
          BY <1>1, <5>1 DEF Operation, Becomes
      <4> QED
        BY <3>1, <4>1, StoreFields DEF Store
    <3> QED
      BY <3>2
  <2> QED
    BY <2>1
<1>10. PICK row : row = RowWith(Seen[id], t, v)
  OBVIOUS
<1>11. Seen' = [Seen EXCEPT ![id] = row]
  BY <1>6, <1>8, <1>10, SeenAreEntities, SeenAfter DEF Replaced
<1>12. t \in DOMAIN Seen[id]
  BY <1>3, <1>9, SeenAreEntities, EntitiesFields
<1> QED
  BY <1>6, <1>10, <1>11, <1>12 DEF Abstract!SetComponent, Abstract!Change, Seen, RowWith

\* addComponent
LEMMA AddComponentPromised ==
  ASSUME IInv, NEW id \in DOMAIN entityDataIndexMap, NEW t \in ClientTypes,
         NEW v \in ValuesOf(t), AddComponent(id, t, v), Store' # Store
  PROVE  Abstract!AddComponent(id, t, v)
<1>1. PICK us : us = TypesOf(Store, id)
  OBVIOUS
<1> DEFINE m      == ChangeComponents(Store, id, us \cup {t})
           r      == SetComponentOf(m, id, t, v)
           faults == ChangeFaults(Store, id, us \cup {t})
<1>2. Operation(id, r, faults)
  BY <1>1 DEF AddComponent
<1>3. faults \in BOOLEAN
  BY DEF ChangeFaults
<1>4. StoreOK(Store) /\ id \in DOMAIN Store.map
  BY EntityFields
<1>5. t \in Types \ {DeletedEntity}
  BY ClientAssumption
<1>6. m = ChangeComponents(Store, id, us \cup {t}) /\ r = SetComponentOf(m, id, t, v)
  OBVIOUS
<1> HIDE DEF m, r, faults
<1>7. EntitiesOf(Store)' = EntitiesOf(r) /\ nextEntityId' = nextEntityId
  BY <1>2, <1>3, OperationResult
<1>8. \E row \in Abstract!With(us \cup {t}, Abstract!Put(EntitiesOf(Store)[id], t, v)) :
        EntitiesOf(r) = Replaced(EntitiesOf(Store), id, row)
  <2>1. PICK s : s = Store
    OBVIOUS
  <2>2. /\ StoreOK(s) /\ id \in DOMAIN s.map /\ us = TypesOf(s, id)
        /\ m = ChangeComponents(s, id, us \cup {t})
        /\ t \in Types \ {DeletedEntity} /\ v \in ValuesOf(t)
    BY <1>1, <1>4, <1>5, <1>6, <2>1
  <2>3. \E row \in Abstract!With(us \cup {t}, Abstract!Put(EntitiesOf(s)[id], t, v)) :
          EntitiesOf(r) = Replaced(EntitiesOf(s), id, row)
    BY ONLY <1>6, <2>2, AddComponentEffect, SMTT(40)
  <2>4. PICK es : es = EntitiesOf(s)
    OBVIOUS
  <2>5. es = EntitiesOf(Store)
    BY <2>1, <2>4
  <2>6. \E row \in Abstract!With(us \cup {t}, Abstract!Put(es[id], t, v)) :
          EntitiesOf(r) = Replaced(es, id, row)
    BY ONLY <2>3, <2>4
  <2> QED
    BY ONLY <2>5, <2>6
<1>9. PICK options : options = Abstract!With(us \cup {t}, Abstract!Put(Seen[id], t, v))
  OBVIOUS
<1>10. PICK row \in options : EntitiesOf(r) = Replaced(EntitiesOf(Store), id, row)
  BY <1>8, <1>9, SeenAreEntities
<1>11. EntitiesOf(Store)' = Replaced(EntitiesOf(Store), id, row)
  BY <1>7, <1>10
<1>12. Abstract!Change(id, options)
  BY <1>7, <1>10, <1>11, ChangeStep
<1>13. us = DOMAIN Seen[id]
  BY <1>1, <1>4, SeenAreEntities, EntitiesFields
<1> QED
  BY <1>9, <1>12, <1>13 DEF Abstract!AddComponent, Seen

\* A store with a new entity, which is in the archetype that was chosen.
LEMMA CreatedEffect ==
  ASSUME NEW s, StoreOK(s), NEW id \in Nat \ {0}, id \notin DOMAIN s.map,
         NEW ts \in SUBSET Types, NEW a, a = ArchetypeSlot(s.archetypes, ts),
         NEW with, with = WithArchetype(s.archetypes, ts),
         NEW chosen, chosen.slot \in Nat, Added(with[a], chosen.arch, chosen.slot, id),
         HasAll(with[a], chosen.arch), NEW row, ArchHas(chosen.arch, id, row),
         NEW r, r = SetIndex(StoreOf(Stored(with, a, chosen.arch), s.map), id,
                             LastPlace(a, chosen))
  PROVE  /\ StoreOK(r)
         /\ \A j : j \in DOMAIN r.map <=> j \in DOMAIN s.map \/ j = id
         /\ EntitiesOf(r) = Abstract!Put(EntitiesOf(s), id, row)
<1>1. StoreOK(r) /\ \A j : j \in DOMAIN r.map <=> j \in DOMAIN s.map \/ j = id
  <2>1. /\ StoreOK(s) /\ id \in Nat \ {0} /\ id \notin DOMAIN s.map /\ ts \in SUBSET Types
        /\ a = ArchetypeSlot(s.archetypes, ts) /\ with = WithArchetype(s.archetypes, ts)
        /\ chosen.slot \in Nat /\ Added(with[a], chosen.arch, chosen.slot, id)
        /\ r = SetIndex(StoreOf(Stored(with, a, chosen.arch), s.map), id, LastPlace(a, chosen))
    OBVIOUS
  <2> QED
    BY ONLY <2>1, CreatedOK
<1>2. /\ KeepsOthers(s, r, id)
      /\ Has(r.archetypes, id, row)
  <2>1. PICK archs : archs = s.archetypes
    OBVIOUS
  <2>2. PICK new : new = Stored(with, a, chosen.arch)
    OBVIOUS
  <2>3. /\ TableOK(archs) /\ ts \in SUBSET Types
        /\ a = ArchetypeSlot(archs, ts) /\ with = WithArchetype(archs, ts)
        /\ chosen.slot \in Nat /\ Added(with[a], chosen.arch, chosen.slot, id)
    BY <2>1 DEF StoreOK
  <2>4. StoredIn(archs, new, a, ts, chosen, id)
    BY ONLY <2>2, <2>3, StoredAdded
  <2>5. /\ \A j, rw : Has(archs, j, rw) => Has(new, j, rw)
        /\ \A j, rw : ArchHas(chosen.arch, j, rw) => Has(new, j, rw)
    BY <2>3, <2>4, StoredInHas
  <2>6. r.archetypes = new
    <3>1. PICK st : st = StoreOf(new, s.map)
      OBVIOUS
    <3>2. st.archetypes = new /\ r = SetIndex(st, id, LastPlace(a, chosen))
      BY <2>2, <3>1, StoreParts
    <3> QED
      BY <3>2, SetIndexTable
  <2> QED
    BY <2>1, <2>5, <2>6 DEF KeepsOthers
<1>3. EntitiesOf(r) = Abstract!Put(EntitiesOf(s), id, row)
  BY <1>1, <1>2, EntitiesPut
<1> QED
  BY <1>1, <1>3

\* A creation: the entity nextEntityId is in the archetype that was chosen.
LEMMA CreationStep ==
  ASSUME IInv, NEW ts \in SUBSET Types, NEW a, a = ArchetypeSlot(archetypes, ts),
         NEW with, with = WithArchetype(archetypes, ts), nextEntityId \in 1 .. MaxId,
         NEW id, id = nextEntityId, NEW chosen, chosen.slot \in Nat,
         Added(with[a], chosen.arch, chosen.slot, id), HasAll(with[a], chosen.arch),
         NEW row, ArchHas(chosen.arch, id, row), Created(with, a, chosen),
         NEW options, row \in options
  PROVE  Abstract!Create(id, options)
<1>1. PICK s : s = Store
  OBVIOUS
<1>2. s.archetypes = archetypes /\ s.map = entityDataIndexMap /\ StoreOK(s)
  BY <1>1, StoreFields DEF IInv
<1> DEFINE r == SetIndex(StoreOf(Stored(with, a, chosen.arch), s.map), id,
                         LastPlace(a, chosen))
<1>3. archetypes' = r.archetypes /\ entityDataIndexMap' = r.map /\ nextEntityId' = nextEntityId + 1
  BY <1>2 DEF Created, Becomes
<1>4. id \in Nat \ {0} /\ id \notin DOMAIN s.map
  BY <1>2, ClientAssumption DEF IInv
<1>5. /\ a = ArchetypeSlot(s.archetypes, ts) /\ with = WithArchetype(s.archetypes, ts)
      /\ ts \in SUBSET Types /\ chosen.slot \in Nat
      /\ Added(with[a], chosen.arch, chosen.slot, id) /\ HasAll(with[a], chosen.arch)
      /\ ArchHas(chosen.arch, id, row)
  BY <1>2
<1>6. r = SetIndex(StoreOf(Stored(with, a, chosen.arch), s.map), id, LastPlace(a, chosen))
  OBVIOUS
<1> HIDE DEF r
<1>9. EntitiesOf(r) = Abstract!Put(EntitiesOf(s), id, row)
  BY ONLY <1>2, <1>4, <1>5, <1>6, CreatedEffect
<1>10. EntitiesOf(Store)' = EntitiesOf(r)
  <2>1. Store'.archetypes = r.archetypes /\ Store'.map = r.map
    BY <1>3 DEF Store, StoreOf
  <2> QED
    BY <2>1 DEF EntitiesOf, RowIn, TypesOf
<1>11. EntitiesOf(Store)' = Abstract!Put(EntitiesOf(Store), id, row)
  BY <1>1, <1>9, <1>10
<1> QED
  BY <1>3, <1>4, <1>11, CreateStep

\* createEntity<Ts...>()
LEMMA CreateEntityPromised ==
  ASSUME IInv, NEW ts \in SUBSET ClientTypes, CreateEntity(ts)
  PROVE  Abstract!CreateEntity(nextEntityId, ts)
<1>1. PICK id : id = nextEntityId
  OBVIOUS
<1>2. PICK a : a = ArchetypeSlot(archetypes, ts)
  OBVIOUS
<1>3. PICK with : with = WithArchetype(archetypes, ts)
  OBVIOUS
<1>4. PICK arch : arch = with[a]
  OBVIOUS
<1> DEFINE made == ArchCreate(arch, id)
<1>5. nextEntityId \in 1 .. MaxId /\ Created(with, a, made)
  BY <1>1, <1>2, <1>3, <1>4 DEF CreateEntity
<1>6. TableOK(archetypes) /\ ts \in SUBSET Types
  BY StoreFields, ClientAssumption DEF IInv, StoreOK
<1>7. id \in Nat \ {0}
  BY <1>1, <1>5, ClientAssumption
<1>8. ArchOK(arch) /\ arch.types = ts
  BY <1>2, <1>3, <1>4, <1>6, WithArchetypeType
<1>9. made.slot \in Nat /\ Added(arch, made.arch, made.slot, id)
  <2>1. LET m == ArchCreate(arch, id)
        IN  m.slot \in Nat /\ Added(arch, m.arch, m.slot, id)
    BY <1>7, <1>8, ArchCreateAdded
  <2> QED
    BY <2>1
<1>10. /\ HasAll(arch, made.arch)
       /\ \E shared \in [SharedTypes(ts) -> Value] :
            ArchHas(made.arch, id, Row(ts, shared, [t \in ArrayTypes(ts) |-> Default]))
  <2> DEFINE new == made.arch
  <2>1. new = ArchCreate(arch, id).arch
    OBVIOUS
  <2> HIDE DEF new
  <2>2. /\ HasAll(arch, new)
        /\ \E shared \in [SharedTypes(arch.types) -> Value] :
             ArchHas(new, id, Row(arch.types, shared, [t \in ArrayTypes(arch.types) |-> Default]))
    BY <1>7, <1>8, <2>1, ArchCreateHas
  <2> QED
    BY <1>8, <2>2 DEF new
<1>11. PICK shared \in [SharedTypes(ts) -> Value] :
         ArchHas(made.arch, id, Row(ts, shared, [t \in ArrayTypes(ts) |-> Default]))
  BY <1>10
<1>12. PICK options : options = Abstract!With(ts, << >>)
  OBVIOUS
<1>13. PICK row : row = Row(ts, shared, [t \in ArrayTypes(ts) |-> Default])
  OBVIOUS
<1>14. row \in options
  BY <1>12, <1>13, CreatedFits
<1> HIDE DEF made
<1>15. Abstract!Create(id, options)
  <2>1. ArchHas(made.arch, id, row)
    BY <1>11, <1>13
  <2> QED
    BY <1>1, <1>2, <1>3, <1>4, <1>5, <1>6, <1>9, <1>10, <1>14, <2>1, CreationStep
<1> QED
  BY <1>1, <1>12, <1>15 DEF Abstract!CreateEntity

\* createEntity(values...)
LEMMA CreateEntityWithValuesPromised ==
  ASSUME IInv, NEW ts \in SUBSET ClientTypes, NEW values \in Initials(ts),
         CreateEntityWithValues(values)
  PROVE  Abstract!CreateEntityWithValues(nextEntityId, values)
<1>1. PICK id : id = nextEntityId
  OBVIOUS
<1>2. PICK a : a = ArchetypeSlot(archetypes, ts)
  OBVIOUS
<1>3. PICK with : with = WithArchetype(archetypes, ts)
  OBVIOUS
<1>4. PICK arch : arch = with[a]
  OBVIOUS
<1> DEFINE made == ArchAllocate(arch, id, values)
<1>5. values \in [ts -> Value] /\ DOMAIN values = ts
  BY DEF Initials
<1>6. nextEntityId \in 1 .. MaxId /\ Created(with, a, made)
  BY <1>1, <1>2, <1>3, <1>4, <1>5 DEF CreateEntityWithValues
<1>7. TableOK(archetypes) /\ ts \in SUBSET Types
  BY StoreFields, ClientAssumption DEF IInv, StoreOK
<1>8. id \in Nat \ {0}
  BY <1>1, <1>6, ClientAssumption
<1>9. ArchOK(arch) /\ arch.types = ts
  BY <1>2, <1>3, <1>4, <1>7, WithArchetypeType
<1>10. made.slot \in Nat /\ Added(arch, made.arch, made.slot, id)
  <2>1. values \in [arch.types -> Value]
    BY <1>5, <1>9
  <2>2. LET m == ArchAllocate(arch, id, values)
        IN  m.slot \in Nat /\ Added(arch, m.arch, m.slot, id)
    BY <1>8, <1>9, <2>1, ArchAllocateAdded
  <2> QED
    BY <2>2
<1>11. /\ HasAll(arch, made.arch)
       /\ \E shared \in SharedLike(ts, values) :
            ArchHas(made.arch, id, Row(ts, shared, GivenElements(ts, values)))
  <2> DEFINE new == made.arch
  <2>1. new = ArchAllocate(arch, id, values).arch /\ ts = arch.types
    BY <1>9
  <2> HIDE DEF new
  <2>2. /\ HasAll(arch, new)
        /\ \E shared \in SharedLike(ts, values) :
             ArchHas(new, id, Row(ts, shared, GivenElements(ts, values)))
    BY <1>5, <1>8, <1>9, <2>1, ArchAllocateHas
  <2> QED
    BY <2>2 DEF new
<1>12. ArchHas(made.arch, id, GivenRow(values))
  <2>1. PICK shared \in SharedLike(ts, values) :
          ArchHas(made.arch, id, Row(ts, shared, GivenElements(ts, values)))
    BY <1>11
  <2>2. Row(ts, shared, GivenElements(ts, values)) = GivenRow(values)
    BY <1>5, GivenRowIs
  <2> QED
    BY <2>1, <2>2
<1> HIDE DEF made
<1>13. PICK row : row = GivenRow(values)
  OBVIOUS
<1>14. PICK options : options = {row}
  OBVIOUS
<1>15. Abstract!Create(id, options)
  <2>1. ArchHas(made.arch, id, row) /\ row \in options
    BY <1>12, <1>13, <1>14
  <2> QED
    BY <1>1, <1>2, <1>3, <1>4, <1>6, <1>7, <1>10, <1>11, <2>1, CreationStep
<1> QED
  BY <1>1, <1>13, <1>14, <1>15 DEF Abstract!CreateEntityWithValues, GivenRow

-----------------------------------------------------------------------------
\* The types that clients use are those EntityStore knows.
LEMMA SameValues ==
  /\ \A t : Abstract!ValuesOf(t) = ValuesOf(t)
  /\ \A ts \in SUBSET ClientTypes : Initials(ts) \subseteq [ts -> Value]
BY DEF Abstract!ValuesOf, ValuesOf, Initials

\* Initially there is no entity and no id was given out.
LEMMA InitImplements ==
  ASSUME Init
  PROVE  Abstract!Init
<1>1. entityDataIndexMap = << >> /\ nextEntityId = 1
  BY DEF Init
<1>2. Seen = << >>
  BY <1>1 DEF Seen
<1> QED
  BY <1>1, <1>2 DEF Abstract!Init, Seen

\* An operation that leaves the store as it is.
LEMMA SameStoreStutters ==
  ASSUME Store' = Store, nextEntityId' = nextEntityId
  PROVE  UNCHANGED Abstract!vars
<1>1. EntitiesOf(Store)' = EntitiesOf(Store)
  BY DEF EntitiesOf, RowIn, TypesOf
<1>2. Seen' = Seen
  BY <1>1, SeenAreEntities, SeenAfter
<1> QED
  BY <1>2 DEF Abstract!vars, Seen

\* An operation on an entity gives out no id.
LEMMA OperationKeepsIds ==
  ASSUME NEW id,
         \/ DeleteEntity(id)
         \/ \E ts \in SUBSET ClientTypes : DeleteComponents(id, ts) \/ ChangeTypes(id, ts)
         \/ \E t \in ClientTypes : \E v \in ValuesOf(t) :
              AddComponent(id, t, v) \/ SetComponent(id, t, v)
  PROVE  nextEntityId' = nextEntityId
BY DEF DeleteEntity, DeleteComponents, ChangeTypes, AddComponent, SetComponent, Operation

\* An operation on an entity is the operation of EntityStore, or nothing.
LEMMA OperationImplements ==
  ASSUME IInv, NEW id \in DOMAIN entityDataIndexMap, Store' # Store,
         \/ DeleteEntity(id)
         \/ \E ts \in SUBSET ClientTypes : DeleteComponents(id, ts) \/ ChangeTypes(id, ts)
         \/ \E t \in ClientTypes : \E v \in ValuesOf(t) :
              AddComponent(id, t, v) \/ SetComponent(id, t, v)
  PROVE  Abstract!Next
<1>1. id \in DOMAIN Seen /\ DOMAIN Seen[id] = TypesOf(Store, id)
  BY EntityFields, SeenAreEntities, EntitiesFields
<1>2. ASSUME NEW ts \in SUBSET (ClientTypes \cup DOMAIN Seen[id]), Abstract!ChangeTypes(id, ts)
      PROVE  Abstract!Next
  BY <1>1, <1>2 DEF Abstract!Next, Seen
<1>3. CASE DeleteEntity(id)
  <2>1. Abstract!DeleteEntity(id)
    BY <1>3, DeleteEntityPromised
  <2> QED
    BY <1>1, <2>1 DEF Abstract!Next, Seen
<1>4. ASSUME NEW ts \in SUBSET ClientTypes, DeleteComponents(id, ts)
      PROVE  Abstract!Next
  <2>1. PICK left : left = TypesOf(Store, id) \ ts
    OBVIOUS
  <2>2. Abstract!ChangeTypes(id, left)
    BY <1>4, <2>1, DeleteComponentsPromised
  <2>3. left \in SUBSET (ClientTypes \cup DOMAIN Seen[id])
    BY <1>1, <2>1
  <2> QED
    BY <1>2, <2>2, <2>3
<1>5. ASSUME NEW ts \in SUBSET ClientTypes, ChangeTypes(id, ts)
      PROVE  Abstract!Next
  <2>1. Abstract!ChangeTypes(id, ts)
    BY <1>5, ChangeTypesPromised
  <2> QED
    BY <1>2, <2>1
<1>6. ASSUME NEW t \in ClientTypes, NEW v \in ValuesOf(t), AddComponent(id, t, v)
      PROVE  Abstract!Next
  <2>1. Abstract!AddComponent(id, t, v)
    BY <1>6, AddComponentPromised
  <2> QED
    BY <1>1, <2>1, SameValues DEF Abstract!Next, Seen
<1>7. ASSUME NEW t \in ClientTypes, NEW v \in ValuesOf(t), SetComponent(id, t, v)
      PROVE  Abstract!Next
  <2>1. Abstract!SetComponent(id, t, v)
    BY <1>7, SetComponentPromised
  <2> QED
    BY <1>1, <2>1, SameValues DEF Abstract!Next, Seen
<1> QED
  BY <1>3, <1>4, <1>5, <1>6, <1>7

\* Every step is a step of EntityStore, or none.
LEMMA StepImplements ==
  ASSUME IInv, [Next]_vars
  PROVE  [Abstract!Next]_(Abstract!vars)
<1>1. ASSUME NEW ts \in SUBSET ClientTypes \ {{}}, CreateEntity(ts)
      PROVE  Abstract!Next
  <2>1. PICK id : id = nextEntityId
    OBVIOUS
  <2>2. Abstract!CreateEntity(id, ts)
    BY <1>1, <2>1, CreateEntityPromised
  <2>3. id \in 1 .. MaxId
    BY <1>1, <2>1 DEF CreateEntity
  <2> QED
    BY <2>2, <2>3 DEF Abstract!Next
<1>2. ASSUME NEW ts \in SUBSET ClientTypes \ {{}}, NEW values \in Initials(ts),
             CreateEntityWithValues(values)
      PROVE  Abstract!Next
  <2>1. PICK id : id = nextEntityId
    OBVIOUS
  <2>2. Abstract!CreateEntityWithValues(id, values)
    BY <1>2, <2>1, CreateEntityWithValuesPromised
  <2>3. id \in 1 .. MaxId /\ values \in [ts -> Value]
    BY <1>2, <2>1, SameValues DEF CreateEntityWithValues
  <2> QED
    BY <2>2, <2>3 DEF Abstract!Next
<1>3. ASSUME NEW id \in DOMAIN entityDataIndexMap,
             \/ DeleteEntity(id)
             \/ \E ts \in SUBSET ClientTypes : DeleteComponents(id, ts) \/ ChangeTypes(id, ts)
             \/ \E t \in ClientTypes : \E v \in ValuesOf(t) :
                  AddComponent(id, t, v) \/ SetComponent(id, t, v)
      PROVE  [Abstract!Next]_(Abstract!vars)
  <2>1. CASE Store' # Store
    BY <1>3, <2>1, OperationImplements
  <2>2. CASE Store' = Store
    BY <1>3, <2>2, OperationKeepsIds, SameStoreStutters
  <2> QED
    BY <2>1, <2>2
<1>4. CASE UNCHANGED vars
  <2>1. Store' = Store /\ nextEntityId' = nextEntityId
    BY <1>4 DEF vars, Store
  <2> QED
    BY <2>1, SameStoreStutters
<1>5. CASE Next
  BY <1>1, <1>2, <1>3, <1>5 DEF Next
<1> QED
  BY <1>4, <1>5

\* The store implements EntityStore (the abstract specification of what an
\* Ecs promises): whatever archetypes, chunks and indices an operation goes
\* through, clients see the one entity change, and no other.
THEOREM StoreImplements == Spec => ImplementsEntityStore
<1>1. Init => Abstract!Init
  BY InitImplements
<1>2. IInv /\ [Next]_vars => [Abstract!Next]_(Abstract!vars)
  BY StepImplements
<1> QED
  BY <1>1, <1>2, Invariant, PTL DEF Spec, ImplementsEntityStore, Abstract!Spec

\* What OperationsAsPromised says of a step.
LEMMA StepAsPromised ==
  ASSUME IInv, [Next]_vars
  PROVE  [Store' # Store =>
            IF nextEntityId' # nextEntityId
              THEN \A ts \in SUBSET ClientTypes \ {{}} :
                     /\ CreateEntity(ts) => Abstract!CreateEntity(nextEntityId, ts)
                     /\ \A values \in Initials(ts) :
                          CreateEntityWithValues(values)
                            => Abstract!CreateEntityWithValues(nextEntityId, values)
              ELSE \A id \in DOMAIN entityDataIndexMap :
                     /\ DeleteEntity(id) => Abstract!DeleteEntity(id)
                     /\ \A ts \in SUBSET ClientTypes :
                          /\ DeleteComponents(id, ts)
                               => Abstract!ChangeTypes(id, TypesOf(Store, id) \ ts)
                          /\ ChangeTypes(id, ts) => Abstract!ChangeTypes(id, ts)
                     /\ \A t \in ClientTypes : \A v \in ValuesOf(t) :
                          /\ AddComponent(id, t, v) => Abstract!AddComponent(id, t, v)
                          /\ SetComponent(id, t, v) => Abstract!SetComponent(id, t, v)
         ]_vars
<1>1. ASSUME NEW ts \in SUBSET ClientTypes
      PROVE  /\ CreateEntity(ts) => Abstract!CreateEntity(nextEntityId, ts)
             /\ \A values \in Initials(ts) :
                  CreateEntityWithValues(values)
                    => Abstract!CreateEntityWithValues(nextEntityId, values)
  BY CreateEntityPromised, CreateEntityWithValuesPromised
<1>2. ASSUME NEW id \in DOMAIN entityDataIndexMap, Store' # Store
      PROVE  /\ DeleteEntity(id) => Abstract!DeleteEntity(id)
             /\ \A ts \in SUBSET ClientTypes :
                  /\ DeleteComponents(id, ts)
                       => Abstract!ChangeTypes(id, TypesOf(Store, id) \ ts)
                  /\ ChangeTypes(id, ts) => Abstract!ChangeTypes(id, ts)
             /\ \A t \in ClientTypes : \A v \in ValuesOf(t) :
                  /\ AddComponent(id, t, v) => Abstract!AddComponent(id, t, v)
                  /\ SetComponent(id, t, v) => Abstract!SetComponent(id, t, v)
  <2>1. DeleteEntity(id) => Abstract!DeleteEntity(id)
    BY <1>2, DeleteEntityPromised
  <2>2. ASSUME NEW ts \in SUBSET ClientTypes
        PROVE  /\ DeleteComponents(id, ts)
                    => Abstract!ChangeTypes(id, TypesOf(Store, id) \ ts)
               /\ ChangeTypes(id, ts) => Abstract!ChangeTypes(id, ts)
    BY <1>2, DeleteComponentsPromised, ChangeTypesPromised
  <2>3. ASSUME NEW t \in ClientTypes, NEW v \in ValuesOf(t)
        PROVE  /\ AddComponent(id, t, v) => Abstract!AddComponent(id, t, v)
               /\ SetComponent(id, t, v) => Abstract!SetComponent(id, t, v)
    BY <1>2, AddComponentPromised, SetComponentPromised
  <2> QED
    BY <2>1, <2>2, <2>3
<1> QED
  BY <1>1, <1>2

\* Each operation of an Ecs by itself has the effect EntityStore promises of
\* it, with the arguments it was called with.
THEOREM OperationsPromised == Spec => OperationsAsPromised
BY StepAsPromised, Invariant, PTL DEF Spec, OperationsAsPromised
=============================================================================
