----------------------------- MODULE ViewProofs -----------------------------
(***************************************************************************)
(* Proofs about views, for every set of types, capacity and bound: a loop  *)
(* over a view points at each entity that matched its query once, whatever *)
(* the store does as long as no entity leaves its place.                   *)
(*                                                                         *)
(* A view and the store meet only in the cells: the list of a view names   *)
(* cells and how many of the ids of each it takes.  That the map from ids  *)
(* to places is exact says that no id is in two positions, and that an id  *)
(* that keeps its place is found there by the iterator.                    *)
(***************************************************************************)
EXTENDS View, EcsProofs, ListProofs

\* The elements of the list of a view.
Entries == [place : CellIndex, entityCount : Nat \ {0}]

\* A list that takes from each of its cells, which differ, no more ids than
\* there are.
ListFits(list, cells) ==
  /\ list \in Seq(Entries)
  /\ \A k \in DOMAIN list : list[k].entityCount <= Len(cells[list[k].place])
  /\ \A j, k \in DOMAIN list : list[j].place = list[k].place => j = k

\* The positions the list takes, and the id at one of them.
Taken(list, k, e) == k \in DOMAIN list /\ e \in 1 .. list[k].entityCount

IdAt(list, cells, k, e) == cells[list[k].place][e]

\* The ids taken from the k-th cell, and all ids taken.
PartIds(list, cells, k) == {IdAt(list, cells, k, e) : e \in 1 .. list[k].entityCount}

AllIds(list, cells) == UNION {PartIds(list, cells, k) : k \in DOMAIN list}

\* The ids at the positions an iterator has passed.
Passed(list, it, k, e) ==
  /\ Taken(list, k, e)
  /\ \/ k = it.chunkIndex /\ e <= it.entityIndex
     \/ it.onlyChunk = FALSE /\ k < it.chunkIndex

PassedIds(list, cells, it) ==
  {id \in AllIds(list, cells) :
     \E k \in DOMAIN list : \E e \in 1 .. list[k].entityCount :
       Passed(list, it, k, e) /\ id = IdAt(list, cells, k, e)}

-----------------------------------------------------------------------------
\* A list of entries, element by element.
LEMMA ListFields ==
  ASSUME NEW list, NEW cells \in [CellIndex -> Seq(Nat \ {0})], ListFits(list, cells)
  PROVE  /\ Len(list) \in Nat /\ DOMAIN list = 1 .. Len(list)
         /\ \A k \in DOMAIN list :
              /\ list[k].place \in CellIndex /\ list[k].entityCount \in Nat \ {0}
              /\ list[k].entityCount <= Len(cells[list[k].place])
         /\ \A k, e : Taken(list, k, e) =>
              e \in DOMAIN cells[list[k].place] /\ IdAt(list, cells, k, e) \in Nat \ {0}
<1>1. list \in Seq(Entries)
  BY DEF ListFits
<1>2. Len(list) \in Nat /\ DOMAIN list = 1 .. Len(list) /\ \A k \in DOMAIN list : list[k] \in Entries
  BY <1>1, LenProperties, ElementOfSeq
<1>3. \A k \in DOMAIN list :
        /\ list[k].place \in CellIndex /\ list[k].entityCount \in Nat \ {0}
        /\ list[k].entityCount <= Len(cells[list[k].place])
  BY <1>2 DEF ListFits, Entries
<1>4. ASSUME NEW k, NEW e, Taken(list, k, e)
      PROVE  e \in DOMAIN cells[list[k].place] /\ IdAt(list, cells, k, e) \in Nat \ {0}
  <2>1. PICK cell : cell = cells[list[k].place]
    OBVIOUS
  <2>2. cell \in Seq(Nat \ {0})
    BY <1>3, <1>4, <2>1 DEF Taken
  <2>3. e \in 1 .. Len(cell)
    <3>1. Len(cell) \in Nat
      BY <2>2, LenProperties
    <3>2. list[k].entityCount \in Nat /\ list[k].entityCount <= Len(cell) /\ e \in 1 .. list[k].entityCount
      BY <1>3, <1>4, <2>1 DEF Taken
    <3> QED
      BY <3>1, <3>2
  <2>4. cell[e] \in Nat \ {0} /\ e \in DOMAIN cell
    BY <2>2, <2>3, LenProperties, ElementOfSeq
  <2> QED
    BY <2>1, <2>4 DEF IdAt
<1> QED
  BY <1>2, <1>3, <1>4

\* The map has the id at a position of the list, with that place, ...
LEMMA TakenIsMapped ==
  ASSUME NEW list, NEW cells \in [CellIndex -> Seq(Nat \ {0})], ListFits(list, cells),
         NEW map, ExactCells(cells, map), NEW k, NEW e, Taken(list, k, e)
  PROVE  /\ IdAt(list, cells, k, e) \in DOMAIN map
         /\ map[IdAt(list, cells, k, e)] = PlaceIn(list[k].place, e)
<1>1. list[k].place \in CellIndex /\ e \in DOMAIN cells[list[k].place]
  BY ListFields DEF Taken
<1> QED
  BY <1>1 DEF ExactCells, IdAt

\* ... so that no id is at two positions.
LEMMA TakenOnce ==
  ASSUME NEW list, NEW cells \in [CellIndex -> Seq(Nat \ {0})], ListFits(list, cells),
         NEW map, ExactCells(cells, map),
         NEW j, NEW d, Taken(list, j, d), NEW k, NEW e, Taken(list, k, e),
         IdAt(list, cells, j, d) = IdAt(list, cells, k, e)
  PROVE  j = k /\ d = e
<1>1. PlaceIn(list[j].place, d) = PlaceIn(list[k].place, e)
  BY TakenIsMapped
<1>2. list[j].place \in CellIndex /\ list[k].place \in CellIndex /\ d \in Nat /\ e \in Nat
  <2>1. list[j].place \in CellIndex /\ list[k].place \in CellIndex
    BY ListFields DEF Taken
  <2>2. d \in Nat /\ e \in Nat
    BY DEF Taken
  <2> QED
    BY <2>1, <2>2
<1>3. list[j].place = list[k].place /\ d = e
  <2>1. \A p \in CellIndex, i \in Nat : Cell(PlaceIn(p, i)) = p /\ PlaceIn(p, i).elem = i
    BY PlaceParts
  <2>2. Cell(PlaceIn(list[j].place, d)) = list[j].place /\ PlaceIn(list[j].place, d).elem = d
    BY <1>2, <2>1
  <2>3. Cell(PlaceIn(list[k].place, e)) = list[k].place /\ PlaceIn(list[k].place, e).elem = e
    BY <1>2, <2>1
  <2> QED
    BY <1>1, <2>2, <2>3
<1> QED
  BY <1>3 DEF ListFits, Taken


\* If no id has left its place, the list takes the same ids as before.
LEMMA ListStays ==
  ASSUME NEW list, NEW cells \in [CellIndex -> Seq(Nat \ {0})], ListFits(list, cells),
         NEW map, ExactCells(cells, map),
         NEW new, NEW after, ExactCells(new, after),
         \A id \in DOMAIN map : id \in DOMAIN after /\ after[id] = map[id]
  PROVE  /\ new \in [CellIndex -> Seq(Nat \ {0})]
         /\ ListFits(list, new)
         /\ \A k, e : Taken(list, k, e) => IdAt(list, new, k, e) = IdAt(list, cells, k, e)
<1>1. new \in [CellIndex -> Seq(Nat \ {0})]
  BY DEF ExactCells
<1>2. ASSUME NEW k, NEW e, Taken(list, k, e)
      PROVE  /\ e \in DOMAIN new[list[k].place]
             /\ IdAt(list, new, k, e) = IdAt(list, cells, k, e)
  <2>1. PICK id : id = IdAt(list, cells, k, e)
    OBVIOUS
  <2>2. PICK p : p = list[k].place
    OBVIOUS
  <2>3. id \in DOMAIN map /\ map[id] = PlaceIn(p, e)
    BY <1>2, <2>1, <2>2, TakenIsMapped
  <2>4. id \in DOMAIN after /\ after[id] = PlaceIn(p, e)
    BY <2>3
  <2>5. p \in CellIndex /\ e \in Nat
    BY <1>2, <2>2, ListFields DEF Taken
  <2>6. Cell(PlaceIn(p, e)) = p /\ PlaceIn(p, e).elem = e
    BY <2>5, PlaceParts
  <2>7. after[id].elem \in DOMAIN new[Cell(after[id])] /\ new[Cell(after[id])][after[id].elem] = id
    BY <2>4 DEF ExactCells
  <2>8. e \in DOMAIN new[p] /\ new[p][e] = id
    BY <2>4, <2>6, <2>7
  <2> QED
    BY <2>1, <2>2, <2>8 DEF IdAt
<1>3. ASSUME NEW k \in DOMAIN list
      PROVE  list[k].entityCount <= Len(new[list[k].place])
  <2>1. PICK n : n = list[k].entityCount
    OBVIOUS
  <2>2. PICK cell : cell = new[list[k].place]
    OBVIOUS
  <2>3. n \in Nat \ {0} /\ list[k].place \in CellIndex
    BY <1>3, <2>1, ListFields
  <2>4. Taken(list, k, n)
    BY <1>3, <2>1, <2>3 DEF Taken
  <2>5. n \in DOMAIN cell
    BY <1>2, <2>2, <2>4
  <2>6. cell \in Seq(Nat \ {0})
    BY <1>1, <2>2, <2>3
  <2>7. Len(cell) \in Nat /\ DOMAIN cell = 1 .. Len(cell)
    BY <2>6, LenProperties
  <2> QED
    BY <2>1, <2>2, <2>3, <2>5, <2>7
<1> QED
  BY <1>1, <1>2, <1>3 DEF ListFits

\* The ids taken are those at the positions taken.
LEMMA AllIdsAre ==
  ASSUME NEW list, NEW cells
  PROVE  \A id : id \in AllIds(list, cells)
                   <=> \E k, e : Taken(list, k, e) /\ id = IdAt(list, cells, k, e)
BY DEF AllIds, PartIds, Taken

\* The ids the iterator has passed, likewise.
LEMMA PassedIdsAre ==
  ASSUME NEW list, NEW cells, NEW it
  PROVE  \A id : id \in PassedIds(list, cells, it)
                   <=> \E k, e : Passed(list, it, k, e) /\ id = IdAt(list, cells, k, e)
<1>1. ASSUME NEW id, NEW k, NEW e, Passed(list, it, k, e), id = IdAt(list, cells, k, e)
      PROVE  id \in PassedIds(list, cells, it)
  <2>1. Taken(list, k, e) /\ k \in DOMAIN list /\ e \in 1 .. list[k].entityCount
    BY <1>1 DEF Passed, Taken
  <2>2. id \in AllIds(list, cells)
    BY <1>1, <2>1, AllIdsAre
  <2> QED
    BY <1>1, <2>1, <2>2 DEF PassedIds
<1>2. ASSUME NEW id \in PassedIds(list, cells, it)
      PROVE  \E k, e : Passed(list, it, k, e) /\ id = IdAt(list, cells, k, e)
  BY <1>2 DEF PassedIds
<1> QED
  BY <1>1, <1>2

\* And so, if no id has left its place, the ids are the same sets.
LEMMA IdsStay ==
  ASSUME NEW list, NEW cells, NEW new,
         \A k, e : Taken(list, k, e) => IdAt(list, new, k, e) = IdAt(list, cells, k, e)
  PROVE  /\ \A k \in DOMAIN list : PartIds(list, new, k) = PartIds(list, cells, k)
         /\ AllIds(list, new) = AllIds(list, cells)
         /\ \A it : PassedIds(list, new, it) = PassedIds(list, cells, it)
<1>1. ASSUME NEW k \in DOMAIN list
      PROVE  PartIds(list, new, k) = PartIds(list, cells, k)
  BY <1>1 DEF PartIds, Taken
<1>2. AllIds(list, new) = AllIds(list, cells)
  BY <1>1 DEF AllIds
<1>3. ASSUME NEW it
      PROVE  PassedIds(list, new, it) = PassedIds(list, cells, it)
  <2>1. \A k, e : Passed(list, it, k, e) => IdAt(list, new, k, e) = IdAt(list, cells, k, e)
    BY DEF Passed
  <2>2. \A id : id \in PassedIds(list, new, it) <=> id \in PassedIds(list, cells, it)
    BY <2>1, PassedIdsAre
  <2> QED
    BY <2>2
<1> QED
  BY <1>1, <1>2, <1>3

-----------------------------------------------------------------------------
\* The iterator, in a list and cells, and what it has visited.
IteratorTypeOK(it, seen) ==
  /\ it \in [chunkIndex : Nat, entityIndex : Nat, onlyChunk : BOOLEAN]
  /\ seen \in Seq(Nat \ {0})
  /\ IsInjective(seen)

\* It has visited the positions before it and the one it is at, ...
AtPosition(list, cells, it, seen) ==
  /\ Taken(list, it.chunkIndex, it.entityIndex)
  /\ seen # << >>
  /\ seen[Len(seen)] = IdAt(list, cells, it.chunkIndex, it.entityIndex)
  /\ Range(seen) = PassedIds(list, cells, it)

\* ... and at the end all of the list, or of one chunk of it.
AtEnd(list, cells, it, seen) ==
  IF it.onlyChunk THEN \E k \in DOMAIN list : Range(seen) = PartIds(list, cells, k)
                  ELSE Range(seen) = AllIds(list, cells)

IteratorFits(list, cells, it, seen) ==
  /\ IteratorTypeOK(it, seen)
  /\ it.chunkIndex # 0 => AtPosition(list, cells, it, seen)
  /\ it.chunkIndex = 0 /\ seen # << >> => AtEnd(list, cells, it, seen)

\* Nothing of this changes if no id leaves its place.
LEMMA IteratorStays ==
  ASSUME NEW list, NEW cells, NEW new, NEW it, NEW seen, IteratorFits(list, cells, it, seen),
         \A k, e : Taken(list, k, e) => IdAt(list, new, k, e) = IdAt(list, cells, k, e)
  PROVE  IteratorFits(list, new, it, seen)
<1>1. /\ \A k \in DOMAIN list : PartIds(list, new, k) = PartIds(list, cells, k)
      /\ AllIds(list, new) = AllIds(list, cells)
      /\ PassedIds(list, new, it) = PassedIds(list, cells, it)
  BY IdsStay
<1>2. it.chunkIndex # 0 => AtPosition(list, new, it, seen)
  BY <1>1 DEF IteratorFits, AtPosition
<1>3. ASSUME it.chunkIndex = 0, seen # << >>
      PROVE  AtEnd(list, new, it, seen)
  <2>1. AtEnd(list, cells, it, seen)
    BY <1>3 DEF IteratorFits
  <2> QED
    BY <1>1, <2>1 DEF AtEnd
<1> QED
  BY <1>2, <1>3 DEF IteratorFits


\* What a list of numbers visited becomes with one more at its end.
LEMMA VisitedWith ==
  ASSUME NEW seen \in Seq(Nat \ {0}), IsInjective(seen), NEW id \in Nat \ {0}, id \notin Range(seen),
         NEW new, new = Append(seen, id)
  PROVE  /\ new \in Seq(Nat \ {0}) /\ IsInjective(new)
         /\ new # << >> /\ new[Len(new)] = id
         /\ Range(new) = Range(seen) \cup {id}
<1>1. Len(seen) \in Nat /\ DOMAIN seen = 1 .. Len(seen)
  BY LenProperties
<1>2. /\ new \in Seq(Nat \ {0}) /\ Len(new) = Len(seen) + 1
      /\ \A i \in 1 .. Len(seen) : new[i] = seen[i]
      /\ new[Len(seen) + 1] = id
  BY <1>1, AppendProperties
<1>3. DOMAIN new = 1 .. Len(seen) + 1
  BY <1>2, LenProperties
<1>4. \A i \in 1 .. Len(seen) : seen[i] # id
  BY <1>1 DEF Range
<1>5. IsInjective(new)
  <2> SUFFICES ASSUME NEW i \in 1 .. Len(seen) + 1, NEW j \in 1 .. Len(seen) + 1, new[i] = new[j]
               PROVE  i = j
    BY <1>3 DEF IsInjective
  <2>1. \A h, k \in 1 .. Len(seen) : seen[h] = seen[k] => h = k
    BY <1>1 DEF IsInjective
  <2>2. i \in 1 .. Len(seen) \/ i = Len(seen) + 1
    BY <1>1
  <2>3. j \in 1 .. Len(seen) \/ j = Len(seen) + 1
    BY <1>1
  <2> QED
    BY <1>2, <1>4, <2>1, <2>2, <2>3
<1>6. Range(new) = Range(seen) \cup {id}
  <2>1. Range(new) = {new[i] : i \in 1 .. Len(seen) + 1}
    BY <1>3 DEF Range
  <2>2. Range(seen) = {seen[i] : i \in 1 .. Len(seen)}
    BY <1>1 DEF Range
  <2>3. 1 .. Len(seen) + 1 = 1 .. Len(seen) \cup {Len(seen) + 1}
    BY <1>1
  <2> QED
    BY <1>2, <2>1, <2>2, <2>3
<1> QED
  BY <1>1, <1>2, <1>3, <1>5, <1>6

\* The iterator at its first position.
LEMMA IteratorBegins ==
  ASSUME NEW list, NEW cells \in [CellIndex -> Seq(Nat \ {0})], ListFits(list, cells),
         NEW k \in DOMAIN list, NEW only \in BOOLEAN, only = FALSE => k = 1,
         NEW it, it = [chunkIndex |-> k, entityIndex |-> 1, onlyChunk |-> only],
         NEW seen, seen = <<IdAt(list, cells, k, 1)>>
  PROVE  IteratorFits(list, cells, it, seen)
<1>1. k \in Nat \ {0} /\ Taken(list, k, 1)
  <2>1. Len(list) \in Nat /\ DOMAIN list = 1 .. Len(list) /\ list[k].entityCount \in Nat \ {0}
    BY ListFields
  <2> QED
    BY <2>1 DEF Taken
<1>2. it.chunkIndex = k /\ it.entityIndex = 1 /\ it.onlyChunk = only
  OBVIOUS
<1>3. PICK id \in Nat \ {0} : id = IdAt(list, cells, k, 1)
  BY <1>1, ListFields
<1>4. seen = <<id>> /\ seen \in Seq(Nat \ {0}) /\ Len(seen) = 1 /\ seen[1] = id /\ Range(seen) = {id}
  BY <1>3 DEF Range
<1>5. IteratorTypeOK(it, seen)
  <2>1. IsInjective(seen)
    BY <1>4 DEF IsInjective
  <2> QED
    BY <1>1, <1>4, <2>1 DEF IteratorTypeOK
<1>6. \A j, e : Passed(list, it, j, e) <=> j = k /\ e = 1
  <2>1. ASSUME NEW j, NEW e, Passed(list, it, j, e)
        PROVE  j = k /\ e = 1
    <3>1. e \in Nat /\ 1 <= e /\ j \in Nat /\ 1 <= j
      <4>1. Len(list) \in Nat /\ DOMAIN list = 1 .. Len(list) /\ j \in DOMAIN list
        BY <2>1, ListFields DEF Passed, Taken
      <4>2. e \in Nat /\ 1 <= e
        BY <2>1 DEF Passed, Taken
      <4> QED
        BY <4>1, <4>2
    <3>2. (j = k /\ e <= 1) \/ (only = FALSE /\ j < k)
      BY <1>2, <2>1 DEF Passed
    <3> QED
      BY <3>1, <3>2
  <2>2. Passed(list, it, k, 1)
    BY <1>1, <1>2 DEF Passed
  <2> QED
    BY <2>1, <2>2
<1>7. PassedIds(list, cells, it) = {id}
  <2>1. \A i : i \in PassedIds(list, cells, it) <=> i = id
    BY <1>3, <1>6, PassedIdsAre
  <2> QED
    BY <2>1
<1>8. AtPosition(list, cells, it, seen)
  <2>1. Taken(list, it.chunkIndex, it.entityIndex)
    BY <1>1, <1>2
  <2>2. seen[Len(seen)] = IdAt(list, cells, it.chunkIndex, it.entityIndex)
    BY <1>2, <1>3, <1>4
  <2>3. seen # << >>
    BY <1>4
  <2>4. Range(seen) = PassedIds(list, cells, it)
    BY <1>4, <1>7
  <2> QED
    BY <2>1, <2>2, <2>3, <2>4 DEF AtPosition
<1> QED
  BY <1>1, <1>2, <1>5, <1>8 DEF IteratorFits

\* The iterator at one position more.
LEMMA IteratorGoesOn ==
  ASSUME NEW list, NEW cells \in [CellIndex -> Seq(Nat \ {0})], ListFits(list, cells),
         NEW map, ExactCells(cells, map),
         NEW it, NEW seen, IteratorTypeOK(it, seen), AtPosition(list, cells, it, seen),
         NEW next \in [chunkIndex : Nat, entityIndex : Nat, onlyChunk : BOOLEAN],
         NEW k, k = next.chunkIndex, NEW e, e = next.entityIndex,
         Taken(list, k, e), ~ Passed(list, it, k, e),
         \A j, d : Passed(list, next, j, d) <=> Passed(list, it, j, d) \/ (j = k /\ d = e),
         NEW new, new = Append(seen, IdAt(list, cells, k, e))
  PROVE  IteratorFits(list, cells, next, new)
<1>1. PICK id \in Nat \ {0} : id = IdAt(list, cells, k, e)
  BY ListFields
<1>2. Range(seen) = PassedIds(list, cells, it) /\ seen \in Seq(Nat \ {0}) /\ IsInjective(seen)
  BY DEF AtPosition, IteratorTypeOK
<1>3. id \notin Range(seen)
  <2>1. ASSUME NEW j, NEW d, Passed(list, it, j, d), id = IdAt(list, cells, j, d)
        PROVE  FALSE
    <3>1. Taken(list, j, d)
      BY <2>1 DEF Passed
    <3>2. /\ cells \in [CellIndex -> Seq(Nat \ {0})] /\ ListFits(list, cells)
          /\ ExactCells(cells, map) /\ Taken(list, j, d) /\ Taken(list, k, e)
          /\ IdAt(list, cells, j, d) = IdAt(list, cells, k, e)
      BY <1>1, <2>1, <3>1
    <3>3. j = k /\ d = e
      BY ONLY <3>2, TakenOnce
    <3> QED
      BY <2>1, <3>3
  <2> QED
    BY <1>2, <2>1, PassedIdsAre
<1>4. /\ new \in Seq(Nat \ {0}) /\ IsInjective(new)
      /\ new # << >> /\ new[Len(new)] = id
      /\ Range(new) = Range(seen) \cup {id}
  <2>1. new = Append(seen, id)
    BY <1>1
  <2> QED
    BY ONLY <1>1, <1>2, <1>3, <2>1, VisitedWith
<1>5. PassedIds(list, cells, next) = Range(seen) \cup {id}
  <2>1. \A i : i \in PassedIds(list, cells, next) <=> i \in PassedIds(list, cells, it) \/ i = id
    BY <1>1, PassedIdsAre
  <2> QED
    BY <1>2, <2>1
<1>6. AtPosition(list, cells, next, new)
  BY <1>1, <1>4, <1>5 DEF AtPosition
<1>7. k # 0
  BY ListFields DEF Taken
<1> QED
  BY <1>4, <1>6, <1>7 DEF IteratorFits, IteratorTypeOK


\* Where an iterator goes from a chunk with n entities.
GoesTo(list, it, n, next) ==
  /\ n > it.entityIndex =>
       next.chunkIndex = it.chunkIndex /\ next.entityIndex = it.entityIndex + 1
  /\ ~ (n > it.entityIndex) /\ it.onlyChunk = FALSE /\ it.chunkIndex < Len(list) =>
       next.chunkIndex = it.chunkIndex + 1 /\ next.entityIndex = 1
  /\ ~ (n > it.entityIndex) /\ ~ (it.onlyChunk = FALSE /\ it.chunkIndex < Len(list)) =>
       next.chunkIndex = 0

\* What NextPosition finds, case by case: the next entity of the chunk, ...
LEMMA NextPositionIs ==
  ASSUME NEW list, NEW it \in [chunkIndex : Nat, entityIndex : Nat, onlyChunk : BOOLEAN],
         NEW n, n = list[it.chunkIndex].entityCount,
         NEW next, next = NextPosition(list, it)
  PROVE  /\ next \in [chunkIndex : Nat, entityIndex : Nat, onlyChunk : BOOLEAN]
         /\ next.onlyChunk = it.onlyChunk
         /\ GoesTo(list, it, n, next)
<1>1. /\ it.chunkIndex \in Nat /\ it.entityIndex \in Nat
      /\ it = [chunkIndex |-> it.chunkIndex, entityIndex |-> it.entityIndex, onlyChunk |-> it.onlyChunk]
  OBVIOUS
<1>2. it.onlyChunk \in BOOLEAN
  OBVIOUS
<1>3. CASE n > it.entityIndex
  <2>1. next = [it EXCEPT !.entityIndex = @ + 1]
    BY <1>3 DEF NextPosition
  <2> QED
    BY <1>1, <1>2, <1>3, <2>1 DEF GoesTo
<1>4. CASE ~ (n > it.entityIndex) /\ it.onlyChunk = FALSE /\ it.chunkIndex < Len(list)
  <2>1. next = [it EXCEPT !.chunkIndex = @ + 1, !.entityIndex = 1]
    BY <1>4 DEF NextPosition
  <2>2. next = [chunkIndex |-> it.chunkIndex + 1, entityIndex |-> 1, onlyChunk |-> it.onlyChunk]
    BY <1>1, <2>1
  <2>3. it.chunkIndex + 1 \in Nat
    BY <1>1
  <2>4. next \in [chunkIndex : Nat, entityIndex : Nat, onlyChunk : BOOLEAN]
    BY <1>2, <2>2, <2>3
  <2>5. /\ next.chunkIndex = it.chunkIndex + 1 /\ next.entityIndex = 1
        /\ next.onlyChunk = it.onlyChunk
    BY <2>2
  <2> QED
    BY ONLY <1>4, <2>4, <2>5 DEF GoesTo
<1>5. CASE ~ (n > it.entityIndex) /\ ~ (it.onlyChunk = FALSE /\ it.chunkIndex < Len(list))
  <2>1. ~ (~ it.onlyChunk /\ it.chunkIndex < Len(list))
    BY <1>2, <1>5
  <2>2. next = [it EXCEPT !.chunkIndex = 0]
    BY <1>5, <2>1 DEF NextPosition
  <2> QED
    BY <1>1, <1>2, <1>5, <2>2 DEF GoesTo
<1> QED
  BY <1>3, <1>4, <1>5

\* ... so that the iterator passes one position after the other and ends when it
\* has passed all of them.
LEMMA IteratorMoves ==
  ASSUME NEW list, NEW cells \in [CellIndex -> Seq(Nat \ {0})], ListFits(list, cells),
         NEW map, ExactCells(cells, map),
         NEW it, NEW seen, IteratorFits(list, cells, it, seen), it.chunkIndex # 0,
         NEW next, next = NextPosition(list, it),
         NEW new, next.chunkIndex # 0 =>
           new = Append(seen, IdAt(list, cells, next.chunkIndex, next.entityIndex)),
         next.chunkIndex = 0 => new = seen
  PROVE  /\ IteratorFits(list, cells, next, new)
         /\ next.chunkIndex # 0 => Taken(list, next.chunkIndex, next.entityIndex)
<1>1. /\ IteratorTypeOK(it, seen) /\ AtPosition(list, cells, it, seen)
      /\ it \in [chunkIndex : Nat, entityIndex : Nat, onlyChunk : BOOLEAN]
  BY DEF IteratorFits, IteratorTypeOK
<1>2. PICK c \in Nat, i \in Nat : c = it.chunkIndex /\ i = it.entityIndex
  BY <1>1
<1>3. PICK n : n = list[c].entityCount
  OBVIOUS
<1>4. PICK d \in Nat, j \in Nat : d = next.chunkIndex /\ j = next.entityIndex
  <2>1. next \in [chunkIndex : Nat, entityIndex : Nat, onlyChunk : BOOLEAN]
    BY <1>1, NextPositionIs
  <2> QED
    BY <2>1
<1>5. /\ n > i => d = c /\ j = i + 1
      /\ ~ (n > i) /\ it.onlyChunk = FALSE /\ c < Len(list) => d = c + 1 /\ j = 1
      /\ ~ (n > i) /\ ~ (it.onlyChunk = FALSE /\ c < Len(list)) => d = 0
  <2>1. n = list[it.chunkIndex].entityCount
    BY <1>2, <1>3
  <2>2. GoesTo(list, it, n, next)
    BY <1>1, <2>1, NextPositionIs
  <2>3. n > i => d = c /\ j = i + 1
    BY <1>2, <1>4, <2>2 DEF GoesTo
  <2>4. ~ (n > i) /\ it.onlyChunk = FALSE /\ c < Len(list) => d = c + 1 /\ j = 1
    BY <1>2, <1>4, <2>2 DEF GoesTo
  <2>5. ~ (n > i) /\ ~ (it.onlyChunk = FALSE /\ c < Len(list)) => d = 0
    BY <1>2, <1>4, <2>2 DEF GoesTo
  <2> QED
    BY <2>3, <2>4, <2>5
<1>14. /\ next \in [chunkIndex : Nat, entityIndex : Nat, onlyChunk : BOOLEAN]
       /\ next.onlyChunk = it.onlyChunk
  BY <1>1, NextPositionIs
<1>6. /\ Len(list) \in Nat /\ DOMAIN list = 1 .. Len(list)
      /\ \A k \in DOMAIN list : list[k].entityCount \in Nat \ {0}
  BY ListFields
<1>7. Taken(list, c, i) /\ c \in 1 .. Len(list) /\ n \in Nat /\ i \in 1 .. n
  <2>1. Taken(list, c, i)
    BY <1>1, <1>2 DEF AtPosition
  <2> QED
    BY <1>3, <1>6, <2>1 DEF Taken
<1>8. /\ \A k, e : Passed(list, it, k, e) <=>
           Taken(list, k, e) /\ ((k = c /\ e <= i) \/ (it.onlyChunk = FALSE /\ k < c))
      /\ \A k, e : Passed(list, next, k, e) <=>
           Taken(list, k, e) /\ ((k = d /\ e <= j) \/ (it.onlyChunk = FALSE /\ k < d))
  BY <1>2, <1>4, <1>14 DEF Passed
<1>9. ASSUME NEW k, NEW e, Taken(list, k, e)
      PROVE  k \in 1 .. Len(list) /\ e \in Nat \ {0} /\ (k = c => e <= n)
  BY <1>3, <1>6, <1>9 DEF Taken
<1>10. ASSUME d # 0, Taken(list, d, j), ~ Passed(list, it, d, j),
              \A k, e : Passed(list, next, k, e) <=> Passed(list, it, k, e) \/ (k = d /\ e = j)
       PROVE  IteratorFits(list, cells, next, new)
  <2>1. new = Append(seen, IdAt(list, cells, d, j))
    BY <1>4, <1>10
  <2> QED
    BY <1>1, <1>4, <1>14, <1>10, <2>1, IteratorGoesOn
<1>11. CASE n > i
  <2>1. d = c /\ j = i + 1 /\ d # 0 /\ Taken(list, d, j)
    BY <1>3, <1>5, <1>7, <1>11 DEF Taken
  <2>2. ~ Passed(list, it, d, j)
    BY <1>7, <1>8, <2>1
  <2>3. ASSUME NEW k, NEW e
        PROVE  Passed(list, next, k, e) <=> Passed(list, it, k, e) \/ (k = d /\ e = j)
    BY <1>7, <1>8, <1>9, <2>1
  <2> QED
    BY <1>4, <1>10, <2>1, <2>2, <2>3
<1>12. CASE ~ (n > i) /\ it.onlyChunk = FALSE /\ c < Len(list)
  <2>1. d = c + 1 /\ j = 1 /\ d # 0 /\ n = i
    BY <1>5, <1>7, <1>12
  <2>2. Taken(list, d, j)
    BY <1>6, <1>7, <1>12, <2>1 DEF Taken
  <2>3. ~ Passed(list, it, d, j)
    BY <1>7, <1>8, <2>1
  <2>4. ASSUME NEW k, NEW e
        PROVE  Passed(list, next, k, e) <=> Passed(list, it, k, e) \/ (k = d /\ e = j)
    <3>1. Taken(list, k, e) =>
            (((k = d /\ e <= j) \/ k < d) <=> (((k = c /\ e <= i) \/ k < c) \/ (k = d /\ e = j)))
      BY <1>7, <1>9, <2>1
    <3> QED
      BY <1>8, <1>12, <2>2, <3>1
  <2> QED
    BY <1>4, <1>10, <2>1, <2>2, <2>3, <2>4
<1>13. CASE ~ (n > i) /\ ~ (it.onlyChunk = FALSE /\ c < Len(list))
  <2>1. d = 0 /\ n = i /\ new = seen
    BY <1>4, <1>5, <1>7, <1>13
  <2>2. seen # << >> /\ Range(seen) = PassedIds(list, cells, it)
    BY <1>1 DEF AtPosition
  <2>3. ASSUME it.onlyChunk
        PROVE  Range(seen) = PartIds(list, cells, c)
    <3>1. \A k, e : Passed(list, it, k, e) <=> k = c /\ e \in 1 .. n
      <4>1. it.onlyChunk # FALSE
        BY <2>3
      <4>2. \A e : Taken(list, c, e) <=> e \in 1 .. n
        BY <1>3, <1>6, <1>7 DEF Taken
      <4>3. \A k, e : Passed(list, it, k, e) <=> Taken(list, k, e) /\ k = c /\ e <= n
        BY <1>8, <2>1, <4>1
      <4>4. \A e : e \in 1 .. n => e <= n
        BY <1>7
      <4> QED
        BY <4>2, <4>3, <4>4
    <3>2. \A id : id \in PassedIds(list, cells, it) <=> \E e \in 1 .. n : id = IdAt(list, cells, c, e)
      <4>1. \A id : id \in PassedIds(list, cells, it)
                      <=> \E k, e : Passed(list, it, k, e) /\ id = IdAt(list, cells, k, e)
        BY PassedIdsAre
      <4>2. ASSUME NEW id, NEW k, NEW e, Passed(list, it, k, e), id = IdAt(list, cells, k, e)
            PROVE  \E f \in 1 .. n : id = IdAt(list, cells, c, f)
        BY <3>1, <4>2
      <4>3. ASSUME NEW id, NEW e \in 1 .. n, id = IdAt(list, cells, c, e)
            PROVE  \E k, f : Passed(list, it, k, f) /\ id = IdAt(list, cells, k, f)
        BY <3>1, <4>3
      <4> QED
        BY <4>1, <4>2, <4>3
    <3>3. \A id : id \in PartIds(list, cells, c) <=> \E e \in 1 .. n : id = IdAt(list, cells, c, e)
      BY <1>3 DEF PartIds
    <3> QED
      BY <2>2, <3>2, <3>3
  <2>4. ASSUME ~ it.onlyChunk
        PROVE  Range(seen) = AllIds(list, cells)
    <3>1. it.onlyChunk = FALSE
      BY <1>1, <2>4
    <3>2. c = Len(list)
      <4>1. ~ (c < Len(list))
        BY <1>13, <3>1
      <4>2. Len(list) \in Nat /\ c \in Nat /\ c <= Len(list)
        BY <1>6, <1>7
      <4> QED
        BY ONLY <4>1, <4>2
    <3>3. \A k, e : Passed(list, it, k, e) <=> Taken(list, k, e)
      BY <1>7, <1>8, <1>9, <2>1, <3>1, <3>2
    <3>4. \A id : id \in PassedIds(list, cells, it) <=> id \in AllIds(list, cells)
      BY <3>3, PassedIdsAre, AllIdsAre
    <3> QED
      BY <2>2, <3>4
  <2>5. AtEnd(list, cells, next, new)
    <3>1. (next.onlyChunk <=> it.onlyChunk) /\ c \in DOMAIN list
      BY <1>14, <1>6, <1>7
    <3> QED
      BY <2>1, <2>3, <2>4, <3>1 DEF AtEnd
  <2>6. IteratorTypeOK(next, new)
    BY <1>1, <1>14, <2>1 DEF IteratorTypeOK
  <2> QED
    BY <1>4, <2>1, <2>5, <2>6 DEF IteratorFits
<1> QED
  BY <1>11, <1>12, <1>13


-----------------------------------------------------------------------------
\* The chunks a view takes when it is initialized.
ListedAt(q, a, c) ==
  /\ Occupied(archetypes, a)
  /\ QueryCheck(q, archetypes[a].types)
  /\ Listed(archetypes[a], c)

\* A chunk that is listed is a cell that is not empty.
LEMMA ListedCell ==
  ASSUME IInv, NEW a, NEW c, Occupied(archetypes, a), Listed(archetypes[a], c),
         NEW cells, cells = Cells(archetypes)
  PROVE  /\ a \in Nat /\ c \in Nat /\ <<a, c>> \in CellIndex
         /\ ChunkAt(<<a, c>>).ids = cells[<<a, c>>]
         /\ Entry(a, c).place = <<a, c>>
         /\ Entry(a, c).entityCount = Len(cells[<<a, c>>])
         /\ Entry(a, c) \in Entries
<1>1. TableOK(archetypes)
  BY InvariantFields
<1>2. a \in Nat /\ ArchOK(archetypes[a])
  BY <1>1, TableFields
<1>3. /\ Occupied(archetypes[a].chunks, c) /\ archetypes[a].chunks[c].ids # << >>
      /\ c \in Nat
      /\ ChunkIds(archetypes[a], c) = archetypes[a].chunks[c].ids
  <2>1. Occupied(archetypes[a].chunks, c) /\ archetypes[a].chunks[c].ids # << >>
    BY DEF Listed
  <2>2. c \in 1 .. Len(archetypes[a].chunks) /\ ChunkIds(archetypes[a], c) = archetypes[a].chunks[c].ids
    BY <1>2, <2>1, ArchetypeFields
  <2> QED
    BY <2>1, <2>2
<1>4. <<a, c>> \in CellIndex
  BY <1>2, <1>3 DEF CellIndex
<1>5. ChunkAt(<<a, c>>) = archetypes[a].chunks[c]
  BY DEF ChunkAt
<1>6. cells[<<a, c>>] = archetypes[a].chunks[c].ids /\ cells[<<a, c>>] \in Seq(Nat \ {0})
  <2>1. cells[<<a, c>>] = IdsAt(archetypes, a, c) /\ cells \in [CellIndex -> Seq(Nat \ {0})]
    BY <1>1, <1>2, <1>3, CellsType
  <2>2. IdsAt(archetypes, a, c) = archetypes[a].chunks[c].ids
    BY <1>3 DEF IdsAt
  <2> QED
    BY <1>4, <2>1, <2>2
<1>7. Len(cells[<<a, c>>]) \in Nat \ {0}
  <2>1. PICK ids : ids = cells[<<a, c>>]
    OBVIOUS
  <2>2. ids \in Seq(Nat \ {0}) /\ ids # << >>
    BY <1>3, <1>6, <2>1
  <2>3. Len(ids) \in Nat /\ Len(ids) # 0
    BY <2>2, EmptySeq, LenProperties
  <2> QED
    BY <2>1, <2>3
<1>8. Entry(a, c).place = <<a, c>> /\ Entry(a, c).entityCount = Len(cells[<<a, c>>])
  BY <1>5, <1>6 DEF Entry
<1>9. Entry(a, c) \in Entries
  <2>1. Entry(a, c) = [place |-> <<a, c>>, entityCount |-> Len(cells[<<a, c>>])]
    BY <1>5, <1>6 DEF Entry
  <2> QED
    BY <1>4, <1>7, <2>1 DEF Entries
<1> QED
  BY <1>2, <1>3, <1>4, <1>5, <1>6, <1>8, <1>9

\* What Ecs::get takes of one archetype.
LEMMA FoundIs ==
  ASSUME IInv, NEW q, NEW a \in DOMAIN archetypes
  PROVE  /\ Found(a, q) \in Seq(Entries)
         /\ IsInjective(Found(a, q))
         /\ \A x : x \in Range(Found(a, q)) <=> \E c : ListedAt(q, a, c) /\ x = Entry(a, c)
<1>1. CASE archetypes[a] = Null \/ ~ QueryCheck(q, archetypes[a].types)
  <2>1. Found(a, q) = << >>
    BY <1>1 DEF Found
  <2>2. << >> \in Seq(Entries) /\ IsInjective(<< >>) /\ Range(<< >>) = {}
    BY DEF IsInjective, Range
  <2>3. \A c : ~ ListedAt(q, a, c)
    BY <1>1 DEF ListedAt, Occupied
  <2> QED
    BY <2>1, <2>2, <2>3
<1>2. CASE ~ (archetypes[a] = Null \/ ~ QueryCheck(q, archetypes[a].types))
  <2>1. PICK chunks : chunks = archetypes[a].chunks
    OBVIOUS
  <2>2. PICK S : S = {c \in DOMAIN chunks : Listed(archetypes[a], c)}
    OBVIOUS
  <2>3. PICK numbers : numbers = [c \in DOMAIN chunks |-> c]
    OBVIOUS
  <2>4. PICK slots : slots = Kept(numbers, S)
    OBVIOUS
  <2>5. Found(a, q) = [k \in DOMAIN slots |-> Entry(a, slots[k])]
    BY <1>2, <2>1, <2>2, <2>3, <2>4 DEF Found
  <2>6. Occupied(archetypes, a)
    BY <1>2 DEF Occupied
  <2>7. Len(chunks) \in Nat /\ DOMAIN chunks = 1 .. Len(chunks)
    <3>1. TableOK(archetypes)
      BY InvariantFields
    <3>2. ArchOK(archetypes[a])
      BY <2>6, <3>1, TableFields
    <3>3. IsSequence(chunks)
      BY <2>1, <3>2, ArchetypeFields
    <3> QED
      BY <3>3, SequenceType
  <2>8. numbers \in Seq(Nat) /\ IsInjective(numbers) /\ Range(numbers) = DOMAIN chunks
    <3>1. numbers \in [1 .. Len(chunks) -> Nat]
      BY <2>3, <2>7
    <3>2. numbers \in Seq(Nat)
      BY <2>7, <3>1, SeqDef
    <3> QED
      BY <2>3, <3>2 DEF IsInjective, Range
  <2>9. slots \in Seq(Nat) /\ IsInjective(slots) /\ Range(slots) = S
    <3>1. Range(slots) = Range(numbers) \intersect S
      BY <2>4, <2>8, KeptElements
    <3>2. slots \in Seq(Nat) /\ IsInjective(slots)
      BY <2>4, <2>8, KeptElements
    <3> QED
      BY <2>2, <2>8, <3>1, <3>2
  <2>10. Len(slots) \in Nat /\ DOMAIN slots = 1 .. Len(slots)
    BY <2>9, LenProperties
  <2>11. ASSUME NEW k \in DOMAIN slots
         PROVE  /\ slots[k] \in S /\ ListedAt(q, a, slots[k])
                /\ Entry(a, slots[k]) \in Entries
                /\ Entry(a, slots[k]).place = <<a, slots[k]>>
    <3>1. slots[k] \in S
      BY <2>9, <2>11 DEF Range
    <3>2. Listed(archetypes[a], slots[k]) /\ ListedAt(q, a, slots[k])
      BY <1>2, <2>2, <2>6, <3>1 DEF ListedAt
    <3> QED
      BY <2>6, <3>1, <3>2, ListedCell
  <2>12. Found(a, q) \in Seq(Entries)
    <3>1. Found(a, q) \in [1 .. Len(slots) -> Entries]
      BY <2>5, <2>10, <2>11
    <3> QED
      BY <2>10, <3>1, SeqDef
  <2>13. IsInjective(Found(a, q))
    <3>1. ASSUME NEW j \in DOMAIN slots, NEW k \in DOMAIN slots, Entry(a, slots[j]) = Entry(a, slots[k])
          PROVE  j = k
      <4>1. <<a, slots[j]>> = <<a, slots[k]>>
        BY <2>11, <3>1
      <4>2. slots[j] = slots[k]
        BY <4>1
      <4> QED
        BY <2>9, <4>2 DEF IsInjective
    <3> QED
      BY <2>5, <3>1 DEF IsInjective
  <2>14. ASSUME NEW x, x \in Range(Found(a, q))
         PROVE  \E c : ListedAt(q, a, c) /\ x = Entry(a, c)
    <3>1. PICK k \in DOMAIN slots : x = Entry(a, slots[k])
      BY <2>5, <2>14 DEF Range
    <3> QED
      BY <2>11, <3>1
  <2>15. ASSUME NEW x, NEW c, ListedAt(q, a, c), x = Entry(a, c)
         PROVE  x \in Range(Found(a, q))
    <3>1. c \in S
      BY <2>1, <2>2, <2>15 DEF ListedAt, Listed, Occupied
    <3>2. PICK k \in DOMAIN slots : slots[k] = c
      BY <2>9, <3>1 DEF Range
    <3> QED
      BY <2>5, <2>15, <3>2 DEF Range
  <2> QED
    BY <2>12, <2>13, <2>14, <2>15
<1> QED
  BY <1>1, <1>2

\* What it takes of all of them.
LEMMA GetIs ==
  ASSUME IInv, NEW q
  PROVE  /\ Get(q) \in Seq(Entries)
         /\ IsInjective(Get(q))
         /\ \A x : x \in Range(Get(q)) <=> \E a, c : ListedAt(q, a, c) /\ x = Entry(a, c)
<1>1. PICK lists : lists = [a \in DOMAIN archetypes |-> Found(a, q)]
  OBVIOUS
<1>2. Get(q) = FlattenSeq(lists)
  BY <1>1 DEF Get
<1>3. Len(archetypes) \in Nat /\ DOMAIN archetypes = 1 .. Len(archetypes)
  <2>1. IsSequence(archetypes)
    BY InvariantFields, TableFields
  <2> QED
    BY <2>1, SequenceType
<1>4. \A a \in DOMAIN archetypes : lists[a] = Found(a, q)
  BY <1>1
<1>5. lists \in Seq(Seq(Entries)) /\ DOMAIN lists = DOMAIN archetypes
  <2>1. \A a \in DOMAIN archetypes : Found(a, q) \in Seq(Entries)
    BY FoundIs
  <2>2. lists \in [1 .. Len(archetypes) -> Seq(Entries)]
    BY <1>1, <1>3, <2>1
  <2> QED
    BY <1>1, <1>3, <2>2, SeqDef
<1>6. \A a \in DOMAIN lists : \A x : x \in Range(lists[a]) <=> \E c : ListedAt(q, a, c) /\ x = Entry(a, c)
  <2> SUFFICES ASSUME NEW a \in DOMAIN lists
               PROVE  \A x : x \in Range(lists[a]) <=> \E c : ListedAt(q, a, c) /\ x = Entry(a, c)
    OBVIOUS
  <2>1. lists[a] = Found(a, q) /\ a \in DOMAIN archetypes
    BY <1>4, <1>5
  <2>2. \A x : x \in Range(Found(a, q)) <=> \E c : ListedAt(q, a, c) /\ x = Entry(a, c)
    BY <2>1, FoundIs
  <2> QED
    BY <2>1, <2>2
<1>7. NoneTwice(lists)
  <2>1. \A a \in DOMAIN lists : IsInjective(lists[a])
    BY <1>4, <1>5, FoundIs
  <2>2. ASSUME NEW a \in DOMAIN lists, NEW b \in DOMAIN lists, NEW x,
               x \in Range(lists[a]), x \in Range(lists[b])
        PROVE  a = b
    <3>1. PICK c : ListedAt(q, a, c) /\ x = Entry(a, c)
      BY <1>6, <2>2
    <3>2. PICK d : ListedAt(q, b, d) /\ x = Entry(b, d)
      BY <1>6, <2>2
    <3>3. x.place = <<a, c>>
      BY <3>1, ListedCell DEF ListedAt
    <3>4. x.place = <<b, d>>
      BY <3>2, ListedCell DEF ListedAt
    <3> QED
      BY <3>3, <3>4
  <2> QED
    BY <2>1, <2>2 DEF NoneTwice
<1>8. /\ Get(q) \in Seq(Entries)
      /\ Range(Get(q)) = UNION {Range(lists[a]) : a \in DOMAIN lists}
      /\ IsInjective(Get(q))
  BY <1>2, <1>5, <1>7, FlatElements
<1>9. \A x : x \in Range(Get(q)) <=> \E a \in DOMAIN lists : x \in Range(lists[a])
  BY <1>8
<1>10. \A a, c : ListedAt(q, a, c) => a \in DOMAIN lists
  BY <1>5 DEF ListedAt, Occupied
<1> QED
  BY <1>6, <1>8, <1>9, <1>10


\* The list Ecs::get makes fits the cells, ...
LEMMA GetFits ==
  ASSUME IInv, NEW q, NEW cells, cells = Cells(archetypes), NEW list, list = Get(q)
  PROVE  ListFits(list, cells)
<1>1. /\ list \in Seq(Entries) /\ IsInjective(list)
      /\ \A x : x \in Range(list) <=> \E a, c : ListedAt(q, a, c) /\ x = Entry(a, c)
  BY GetIs
<1>2. ASSUME NEW k \in DOMAIN list
      PROVE  \E a, c : list[k] = Entry(a, c) /\ list[k].place = <<a, c>>
                       /\ list[k].entityCount = Len(cells[list[k].place])
  <2>1. list[k] \in Range(list)
    BY DEF Range
  <2>2. PICK a, c : ListedAt(q, a, c) /\ list[k] = Entry(a, c)
    BY <1>1, <2>1
  <2>3. /\ Entry(a, c).place = <<a, c>>
        /\ Entry(a, c).entityCount = Len(cells[<<a, c>>])
    BY <2>2, ListedCell DEF ListedAt
  <2> QED
    BY <2>2, <2>3
<1>3. ASSUME NEW k \in DOMAIN list
      PROVE  list[k].entityCount <= Len(cells[list[k].place])
  <2>1. list[k] \in Entries
    BY <1>1, LenProperties, ElementOfSeq
  <2>2. list[k].entityCount \in Nat
    BY <2>1 DEF Entries
  <2>3. list[k].entityCount = Len(cells[list[k].place])
    BY <1>2
  <2> QED
    BY <2>2, <2>3
<1>4. ASSUME NEW j \in DOMAIN list, NEW k \in DOMAIN list, list[j].place = list[k].place
      PROVE  j = k
  <2>1. PICK a, c : list[j] = Entry(a, c) /\ list[j].place = <<a, c>>
    BY <1>2
  <2>2. PICK b, d : list[k] = Entry(b, d) /\ list[k].place = <<b, d>>
    BY <1>2
  <2>3. a = b /\ c = d
    BY <1>4, <2>1, <2>2
  <2>4. list[j] = list[k]
    BY <2>1, <2>2, <2>3
  <2> QED
    BY <1>1, <2>4 DEF IsInjective
<1> QED
  BY <1>1, <1>3, <1>4 DEF ListFits

\* An entity of the store, and the cell it is in.
LEMMA EntityPlace ==
  ASSUME IInv, NEW cells, cells = Cells(archetypes),
         NEW id \in DOMAIN entityDataIndexMap, NEW ix, ix = entityDataIndexMap[id]
  PROVE  /\ ix \in Places /\ Cell(ix) = <<ix.arch, ix.chunk>> /\ Cell(ix) \in CellIndex
         /\ ix.elem \in DOMAIN cells[Cell(ix)] /\ cells[Cell(ix)][ix.elem] = id
         /\ Occupied(archetypes, ix.arch) /\ ArchOK(archetypes[ix.arch])
         /\ Occupied(archetypes[ix.arch].chunks, ix.chunk)
         /\ archetypes[ix.arch].chunks[ix.chunk].ids = cells[Cell(ix)]
         /\ TypesOf(Store, id) = archetypes[ix.arch].types
         /\ ChunkOf(Store, id) = archetypes[ix.arch].chunks[ix.chunk]
<1>1. TableOK(archetypes) /\ ExactCells(cells, entityDataIndexMap)
  BY InvariantFields
<1>2. ix \in Places /\ ix.elem \in DOMAIN cells[Cell(ix)] /\ cells[Cell(ix)][ix.elem] = id
  BY <1>1 DEF ExactCells
<1>3. TypesOf(Store, id) = archetypes[ix.arch].types
  BY StoreFields DEF TypesOf
<1>4. ChunkOf(Store, id) = archetypes[ix.arch].chunks[ix.chunk]
  BY StoreFields DEF ChunkOf
<1> QED
  BY <1>1, <1>2, <1>3, <1>4, PlacePointsAt

\* ... and takes the ids of exactly the entities that match the query.
LEMMA GetIds ==
  ASSUME IInv, NEW q, NEW cells, cells = Cells(archetypes), NEW list, list = Get(q)
  PROVE  AllIds(list, cells) = Matching(q)
<1>1. ListFits(list, cells) /\ ExactCells(cells, entityDataIndexMap) /\ cells \in [CellIndex -> Seq(Nat \ {0})]
  BY GetFits, InvariantFields DEF ExactCells
<1>2. \A x : x \in Range(list) <=> \E a, c : ListedAt(q, a, c) /\ x = Entry(a, c)
  BY GetIs
<1>3. ASSUME NEW id, NEW k, NEW e, Taken(list, k, e), id = IdAt(list, cells, k, e)
      PROVE  id \in Matching(q)
  <2>1. list[k] \in Range(list)
    BY <1>3 DEF Range, Taken
  <2>2. PICK a, c : ListedAt(q, a, c) /\ list[k] = Entry(a, c)
    BY <1>2, <2>1
  <2>3. list[k].place = <<a, c>>
    BY <2>2, ListedCell DEF ListedAt
  <2>4. id \in DOMAIN entityDataIndexMap /\ entityDataIndexMap[id] = PlaceIn(<<a, c>>, e)
    BY <1>1, <1>3, <2>3, TakenIsMapped
  <2>5. entityDataIndexMap[id].arch = a
    BY <2>4 DEF PlaceIn
  <2>6. TypesOf(Store, id) = archetypes[a].types
    BY <2>4, <2>5, EntityPlace
  <2>7. QueryCheck(q, archetypes[a].types)
    BY <2>2 DEF ListedAt
  <2> QED
    BY <2>4, <2>6, <2>7 DEF Matching, QueryCheck
<1>4. ASSUME NEW id \in Matching(q)
      PROVE  \E k, e : Taken(list, k, e) /\ id = IdAt(list, cells, k, e)
  <2>1. /\ id \in DOMAIN entityDataIndexMap
        /\ QueryCheck(q, TypesOf(Store, id))
    BY <1>4 DEF Matching, QueryCheck
  <2>2. PICK ix : ix = entityDataIndexMap[id]
    OBVIOUS
  <2>3. PICK a, c, e : a = ix.arch /\ c = ix.chunk /\ e = ix.elem
    OBVIOUS
  <2>4. /\ ix \in Places /\ Cell(ix) = <<a, c>> /\ Cell(ix) \in CellIndex
        /\ e \in DOMAIN cells[<<a, c>>] /\ cells[<<a, c>>][e] = id
        /\ Occupied(archetypes, a) /\ Occupied(archetypes[a].chunks, c)
        /\ archetypes[a].chunks[c].ids = cells[<<a, c>>]
        /\ TypesOf(Store, id) = archetypes[a].types
    BY <2>1, <2>2, <2>3, EntityPlace
  <2>5. archetypes[a].chunks[c].ids # << >>
    BY <2>4
  <2>6. Listed(archetypes[a], c)
    BY <2>4, <2>5 DEF Listed
  <2>7. ListedAt(q, a, c)
    BY <2>1, <2>4, <2>6 DEF ListedAt
  <2>8. PICK k \in DOMAIN list : list[k] = Entry(a, c)
    <3>1. Entry(a, c) \in Range(list)
      BY <1>2, <2>7
    <3> QED
      BY <3>1 DEF Range
  <2>9. list[k].place = <<a, c>> /\ list[k].entityCount = Len(cells[<<a, c>>])
    BY <2>4, <2>6, <2>8, ListedCell
  <2>10. e \in 1 .. list[k].entityCount
    <3>1. cells[<<a, c>>] \in Seq(Nat \ {0})
      BY <1>1, <2>4
    <3>2. DOMAIN cells[<<a, c>>] = 1 .. Len(cells[<<a, c>>])
      BY <3>1, LenProperties
    <3> QED
      BY <2>4, <2>9, <3>2
  <2>11. Taken(list, k, e)
    BY <2>8, <2>10 DEF Taken
  <2>12. IdAt(list, cells, k, e) = id
    BY <2>4, <2>9 DEF IdAt
  <2> QED
    BY <2>11, <2>12
<1>5. \A id : id \in AllIds(list, cells) <=> id \in Matching(q)
  BY <1>3, <1>4, AllIdsAre
<1> QED
  BY <1>5

\* A shared value of an entity is the one of its chunk.
LEMMA SharedValueIs ==
  ASSUME IInv, NEW id \in DOMAIN entityDataIndexMap, NEW t \in SharedTypes(ClientTypes), NEW v,
         NEW chunk, chunk = ChunkOf(Store, id)
  PROVE  HasValue(chunk, t, v) <=> t \in TypesOf(Store, id) /\ EntityOf(id)[t] = v
<1>1. PICK ix : ix = entityDataIndexMap[id]
  OBVIOUS
<1>2. PICK ts : ts = TypesOf(Store, id)
  OBVIOUS
<1>3. PICK arch : arch = archetypes[ix.arch]
  OBVIOUS
<1>4. ArchOK(arch) /\ Occupied(arch.chunks, ix.chunk) /\ ts = arch.types /\ chunk = arch.chunks[ix.chunk]
  BY <1>1, <1>2, <1>3, EntityPlace
<1>5. ts \in SUBSET Types /\ IsChunk(chunk, ts)
  BY <1>4, ArchetypeFields
<1>6. chunk.shared \in [SharedTypes(ts) -> Value]
  BY <1>5, ChunkFields
<1>7. t \notin EmptyTypes /\ (t \in SharedTypes(ts) <=> t \in ts)
  BY DEF SharedTypes
<1>8. ASSUME t \in ts
      PROVE  EntityOf(id)[t] = chunk.shared[t]
  BY <1>2, <1>7, <1>8 DEF EntityOf
<1> QED
  BY <1>2, <1>6, <1>7, <1>8 DEF HasValue


\* A list that is filtered fits the cells as before, and takes the ids of what
\* is left of it.
LEMMA FilterFits ==
  ASSUME NEW cells \in [CellIndex -> Seq(Nat \ {0})], NEW list, ListFits(list, cells),
         NEW S, NEW new, new = Kept(list, S)
  PROVE  /\ ListFits(new, cells)
         /\ \A id : id \in AllIds(new, cells)
              <=> \E k, e : Taken(list, k, e) /\ list[k] \in S /\ id = IdAt(list, cells, k, e)
<1>1. list \in Seq(Entries) /\ IsInjective(list)
  BY DEF ListFits, IsInjective
<1>2. new \in Seq(Entries) /\ IsInjective(new) /\ Range(new) = Range(list) \intersect S
  BY <1>1, KeptElements
<1>3. ASSUME NEW i \in DOMAIN new
      PROVE  \E k \in DOMAIN list : new[i] = list[k] /\ list[k] \in S
  <2>1. new[i] \in Range(list) \intersect S
    BY <1>2 DEF Range
  <2> QED
    BY <2>1 DEF Range
<1>4. ASSUME NEW k \in DOMAIN list, list[k] \in S
      PROVE  \E i \in DOMAIN new : new[i] = list[k]
  <2>1. list[k] \in Range(new)
    BY <1>2, <1>4 DEF Range
  <2> QED
    BY <2>1 DEF Range
<1>5. ListFits(new, cells)
  <2>1. ASSUME NEW i \in DOMAIN new
        PROVE  new[i].entityCount <= Len(cells[new[i].place])
    BY <1>3 DEF ListFits
  <2>2. ASSUME NEW i \in DOMAIN new, NEW j \in DOMAIN new, new[i].place = new[j].place
        PROVE  i = j
    <3>1. PICK k \in DOMAIN list : new[i] = list[k]
      BY <1>3
    <3>2. PICK l \in DOMAIN list : new[j] = list[l]
      BY <1>3
    <3>3. k = l
      BY <2>2, <3>1, <3>2 DEF ListFits
    <3> QED
      BY <1>2, <3>1, <3>2, <3>3 DEF IsInjective
  <2> QED
    BY <1>2, <2>1, <2>2 DEF ListFits
<1>6. ASSUME NEW id, NEW i, NEW e, Taken(new, i, e), id = IdAt(new, cells, i, e)
      PROVE  \E k, d : Taken(list, k, d) /\ list[k] \in S /\ id = IdAt(list, cells, k, d)
  <2>1. PICK k \in DOMAIN list : new[i] = list[k] /\ list[k] \in S
    BY <1>3, <1>6 DEF Taken
  <2>2. Taken(list, k, e) /\ id = IdAt(list, cells, k, e)
    BY <1>6, <2>1 DEF Taken, IdAt
  <2> QED
    BY <2>1, <2>2
<1>7. ASSUME NEW id, NEW k, NEW e, Taken(list, k, e), list[k] \in S, id = IdAt(list, cells, k, e)
      PROVE  \E i, d : Taken(new, i, d) /\ id = IdAt(new, cells, i, d)
  <2>1. PICK i \in DOMAIN new : new[i] = list[k]
    BY <1>4, <1>7 DEF Taken
  <2>2. Taken(new, i, e) /\ id = IdAt(new, cells, i, e)
    BY <1>7, <2>1 DEF Taken, IdAt
  <2> QED
    BY <2>2
<1> QED
  BY <1>5, <1>6, <1>7, AllIdsAre

\* What filterShared takes of a list, and of the ids the list takes.
Selected(list, t, v) == {q \in Range(list) : HasValue(ChunkAt(q.place), t, v)}

ValueIs(id, t, v) == t \in TypesOf(Store, id) /\ EntityOf(id)[t] = v

\* filterShared leaves the ids of the entities with the shared value.
LEMMA FilterIds ==
  ASSUME IInv, NEW cells, cells = Cells(archetypes), NEW list, ListFits(list, cells),
         NEW t \in SharedTypes(ClientTypes), NEW v,
         NEW S, S = Selected(list, t, v),
         NEW new, new = Kept(list, S)
  PROVE  /\ ListFits(new, cells)
         /\ \A id : id \in AllIds(new, cells)
              <=> id \in AllIds(list, cells) /\ ValueIs(id, t, v)
<1>1. S = {q \in Range(list) : HasValue(ChunkAt(q.place), t, v)}
  BY DEF Selected
<1>2. ExactCells(cells, entityDataIndexMap) /\ cells \in [CellIndex -> Seq(Nat \ {0})]
  BY InvariantFields DEF ExactCells
<1>3. ListFits(new, cells)
  BY <1>1, <1>2, FilterFits
<1>4. \A id : id \in AllIds(new, cells)
        <=> \E k, e : Taken(list, k, e) /\ list[k] \in S /\ id = IdAt(list, cells, k, e)
  BY <1>1, <1>2, FilterFits
<1>5. ASSUME NEW k, NEW e, Taken(list, k, e), NEW id, id = IdAt(list, cells, k, e)
      PROVE  list[k] \in S <=> ValueIs(id, t, v)
  <2>1. PICK p : p = list[k].place
    OBVIOUS
  <2>2. id \in DOMAIN entityDataIndexMap /\ entityDataIndexMap[id] = PlaceIn(p, e)
    BY <1>2, <1>5, <2>1, TakenIsMapped
  <2>3. ChunkOf(Store, id) = ChunkAt(p)
    <3>1. ChunkOf(Store, id) = archetypes[PlaceIn(p, e).arch].chunks[PlaceIn(p, e).chunk]
      BY <2>2, EntityPlace
    <3>2. PlaceIn(p, e).arch = p[1] /\ PlaceIn(p, e).chunk = p[2]
      BY DEF PlaceIn
    <3> QED
      BY <3>1, <3>2 DEF ChunkAt
  <2>4. list[k] \in S <=> HasValue(ChunkAt(p), t, v)
    <3>1. list[k] \in Range(list)
      BY <1>5 DEF Range, Taken
    <3> QED
      BY <1>1, <2>1, <3>1
  <2>5. HasValue(ChunkOf(Store, id), t, v) <=> ValueIs(id, t, v)
    BY <2>2, SharedValueIs DEF ValueIs
  <2> QED
    BY <2>3, <2>4, <2>5
<1>6. \A id : id \in AllIds(new, cells)
        <=> id \in AllIds(list, cells) /\ ValueIs(id, t, v)
  BY <1>4, <1>5, AllIdsAre
<1> QED
  BY <1>3, <1>6

\* The counts add up to the number of the ids.
LEMMA CountFits ==
  ASSUME NEW cells, NEW map, ExactCells(cells, map), NEW list, ListFits(list, cells)
  PROVE  Total([k \in DOMAIN list |-> list[k].entityCount]) = Cardinality(AllIds(list, cells))
<1>1. cells \in [CellIndex -> Seq(Nat \ {0})]
  BY DEF ExactCells
<1>2. PICK n \in Nat : n = Len(list) /\ DOMAIN list = 1 .. n
  BY <1>1, ListFields
<1>3. PICK parts : parts = [k \in 1 .. n |-> PartIds(list, cells, k)]
  OBVIOUS
<1>4. ASSUME NEW k \in 1 .. n
      PROVE  IsFiniteSet(parts[k]) /\ Cardinality(parts[k]) = list[k].entityCount
  <2>1. PICK m \in Nat : m = list[k].entityCount
    BY <1>1, <1>2, ListFields
  <2>2. PICK f : f = [e \in 1 .. m |-> IdAt(list, cells, k, e)]
    OBVIOUS
  <2>3. parts[k] = {IdAt(list, cells, k, e) : e \in 1 .. m}
    BY <1>3, <2>1 DEF PartIds
  <2>4. f \in [1 .. m -> parts[k]] /\ \A x \in parts[k] : \E e \in 1 .. m : f[e] = x
    BY <2>2, <2>3
  <2>5. ASSUME NEW d \in 1 .. m, NEW e \in 1 .. m, f[d] = f[e]
        PROVE  d = e
    <3>1. Taken(list, k, d) /\ Taken(list, k, e)
      BY <1>2, <2>1, <2>5 DEF Taken
    <3>2. IdAt(list, cells, k, d) = IdAt(list, cells, k, e)
      BY <2>2, <2>5
    <3> QED
      BY <1>1, <3>1, <3>2, TakenOnce
  <2>6. IsFiniteSet(parts[k]) /\ Cardinality(parts[k]) = m
    BY <2>4, <2>5, CountOfNumbered
  <2> QED
    BY <2>1, <2>6
<1>5. ASSUME NEW j \in 1 .. n, NEW k \in 1 .. n, j # k
      PROVE  parts[j] \intersect parts[k] = {}
  <2>1. ASSUME NEW x, x \in parts[j], x \in parts[k]
        PROVE  FALSE
    <3>1. PICK d \in 1 .. list[j].entityCount : x = IdAt(list, cells, j, d)
      BY <1>3, <2>1 DEF PartIds
    <3>2. PICK e \in 1 .. list[k].entityCount : x = IdAt(list, cells, k, e)
      BY <1>3, <2>1 DEF PartIds
    <3>3. Taken(list, j, d) /\ Taken(list, k, e)
      BY <1>2, <3>1, <3>2 DEF Taken
    <3>4. j = k
      BY <1>1, <3>1, <3>2, <3>3, TakenOnce
    <3> QED
      BY <1>5, <3>4
  <2> QED
    BY <2>1
<1>6. PICK numbers : numbers = [k \in 1 .. n |-> Cardinality(parts[k])]
  OBVIOUS
<1>7. Cardinality(UNION {parts[k] : k \in 1 .. n}) = Total(numbers)
  BY <1>4, <1>5, <1>6, TotalOfParts
<1>8. [k \in DOMAIN list |-> list[k].entityCount] = numbers
  BY <1>2, <1>4, <1>6
<1>9. UNION {parts[k] : k \in 1 .. n} = AllIds(list, cells)
  BY <1>2, <1>3 DEF AllIds
<1> QED
  BY <1>7, <1>8, <1>9


-----------------------------------------------------------------------------
\* The list and the iterator of a view with no chunks.
LEMMA EmptyView ==
  ASSUME NEW cells
  PROVE  /\ ListFits(<< >>, cells)
         /\ AllIds(<< >>, cells) = {}
         /\ IteratorFits(<< >>, cells, NoIterator, << >>)
<1>1. << >> \in Seq(Entries) /\ << >> \in Seq(Nat \ {0}) /\ DOMAIN << >> = {}
  OBVIOUS
<1>2. ListFits(<< >>, cells)
  BY <1>1 DEF ListFits
<1>3. AllIds(<< >>, cells) = {}
  BY <1>1 DEF AllIds
<1>4. IsInjective(<< >>)
  BY <1>1 DEF IsInjective
<1>5. /\ NoIterator.chunkIndex = 0
      /\ NoIterator \in [chunkIndex : Nat, entityIndex : Nat, onlyChunk : BOOLEAN]
  BY DEF NoIterator
<1>6. IteratorFits(<< >>, cells, NoIterator, << >>)
  BY <1>1, <1>4, <1>5 DEF IteratorFits, IteratorTypeOK
<1> QED
  BY <1>2, <1>3, <1>6

QueryShape == [required : SUBSET ClientTypes, excluded : SUBSET ClientTypes]

\* The view: its list takes the ids it promised, and its iterator is somewhere
\* in the list, or at its end.
ListInv ==
  /\ ListFits(queriedChunks, Cells(archetypes))
  /\ AllIds(queriedChunks, Cells(archetypes)) = promised
  /\ IteratorFits(queriedChunks, Cells(archetypes), iter, visited)

\* The invariant that every step of a view or of the store preserves.
ViewIInv ==
  /\ IInv
  /\ query \in QueryShape
  /\ initialized \in BOOLEAN
  /\ ListInv
  /\ ~ initialized => queriedChunks = << >> /\ visited = << >>

\* The view that a client begins with, or that is new.
LEMMA ResetOK ==
  ASSUME IInv', NEW q \in QueryShape, ViewReset(q)
  PROVE  ViewIInv'
<1>1. /\ query' = q /\ initialized' = FALSE /\ queriedChunks' = << >>
      /\ iter' = NoIterator /\ visited' = << >> /\ promised' = {}
  BY DEF ViewReset
<1>2. PICK cells : cells = Cells(archetypes)'
  OBVIOUS
<1>3. /\ ListFits(<< >>, cells)
      /\ AllIds(<< >>, cells) = {}
      /\ IteratorFits(<< >>, cells, NoIterator, << >>)
  BY EmptyView
<1>4. ListInv'
  BY <1>1, <1>2, <1>3 DEF ListInv
<1> QED
  BY <1>1, <1>4 DEF ViewIInv

LEMMA ViewInitOK ==
  ASSUME ViewInit
  PROVE  ViewIInv
<1>1. IInv
  BY InitOK DEF ViewInit
<1>2. /\ query = [required |-> {}, excluded |-> {}] /\ initialized = FALSE
      /\ queriedChunks = << >> /\ iter = NoIterator /\ visited = << >> /\ promised = {}
  BY DEF ViewInit
<1>3. PICK cells : cells = Cells(archetypes)
  OBVIOUS
<1>4. /\ ListFits(<< >>, cells)
      /\ AllIds(<< >>, cells) = {}
      /\ IteratorFits(<< >>, cells, NoIterator, << >>)
  BY EmptyView
<1>5. ListInv
  BY <1>2, <1>3, <1>4 DEF ListInv
<1> QED
  BY <1>1, <1>2, <1>5 DEF ViewIInv, QueryShape

\* An operation of the store: the store keeps its own invariant, ...
LEMMA StoreOperationOK ==
  ASSUME IInv, StoreOperation
  PROVE  IInv'
<1>1. ASSUME NEW ts \in SUBSET ClientTypes \ {{}}, CreateEntity(ts)
      PROVE  IInv'
  BY <1>1, CreateEntityOK
<1>2. ASSUME NEW ts \in SUBSET ClientTypes \ {{}}, NEW values \in Initials(ts),
             CreateEntityWithValues(values)
      PROVE  IInv'
  BY <1>2, CreateEntityWithValuesOK
<1>3. ASSUME NEW id \in DOMAIN entityDataIndexMap, DeleteEntity(id)
      PROVE  IInv'
  BY <1>3, DeleteEntityOK
<1>4. ASSUME NEW id \in DOMAIN entityDataIndexMap, NEW ts \in SUBSET ClientTypes,
             ChangeTypes(id, ts)
      PROVE  IInv'
  BY <1>4, ChangeTypesOK
<1>5. ASSUME NEW id \in DOMAIN entityDataIndexMap, NEW t \in TypesOf(Store, id),
             NEW v \in ValuesOf(t), SetComponent(id, t, v)
      PROVE  IInv'
  <2>1. TypesOf(Store, id) \in SUBSET Types
    BY EntityFields
  <2>2. t \in Types
    BY <2>1
  <2> QED
    BY <1>5, <2>2, SetComponentStepOK
<1> QED
  BY <1>1, <1>2, <1>3, <1>4, <1>5 DEF StoreOperation

\* ... so that the map is exact after it as before, ...
LEMMA ExactNext == IInv' => ExactCells(Cells(archetypes), entityDataIndexMap)'
<1>1. IInv => ExactCells(Cells(archetypes), entityDataIndexMap)
  BY InvariantFields
<1> QED
  BY <1>1, PTL

\* ... and the view, if no entity left its place, keeps its list and its position.
LEMMA ViewStoreOK ==
  ASSUME ViewIInv, StoreOperation
  PROVE  ViewIInv'
<1>1. IInv /\ IInv'
  BY StoreOperationOK DEF ViewIInv
<1>2. CASE initialized /\ Displaces
  <2>1. ViewReset([required |-> {}, excluded |-> {}])
    BY <1>2 DEF StoreOperation
  <2>2. [required |-> {}, excluded |-> {}] \in QueryShape
    BY DEF QueryShape
  <2> QED
    BY <1>1, <2>1, <2>2, ResetOK
<1>3. CASE ~ (initialized /\ Displaces)
  <2>1. /\ query' = query /\ initialized' = initialized /\ queriedChunks' = queriedChunks
        /\ iter' = iter /\ visited' = visited /\ promised' = promised
    BY <1>3 DEF StoreOperation, viewVars
  <2>2. ExactCells(Cells(archetypes), entityDataIndexMap)
    BY <1>1, InvariantFields
  <2>3. ExactCells(Cells(archetypes), entityDataIndexMap)'
    BY <1>1, ExactNext
  <2>4. PICK cells : cells = Cells(archetypes)
    OBVIOUS
  <2>5. PICK new : new = Cells(archetypes)'
    OBVIOUS
  <2>6. PICK map : map = entityDataIndexMap
    OBVIOUS
  <2>7. PICK after : after = entityDataIndexMap'
    OBVIOUS
  <2>8. ExactCells(cells, map) /\ ExactCells(new, after)
    BY <2>2, <2>3, <2>4, <2>5, <2>6, <2>7
  <2>9. cells \in [CellIndex -> Seq(Nat \ {0})]
    BY <2>8 DEF ExactCells
  <2>10. PICK list, it, seen, ids :
           list = queriedChunks /\ it = iter /\ seen = visited /\ ids = promised
    OBVIOUS
  <2>11. ListFits(list, cells) /\ AllIds(list, cells) = ids /\ IteratorFits(list, cells, it, seen)
    BY <2>4, <2>10 DEF ViewIInv, ListInv
  <2>12. ListFits(list, new) /\ AllIds(list, new) = ids /\ IteratorFits(list, new, it, seen)
    <3>1. CASE initialized
      <4>1. ~ Displaces
        BY <1>3, <3>1
      <4>2. \A id \in DOMAIN map : id \in DOMAIN after /\ after[id] = map[id]
        BY <2>6, <2>7, <4>1 DEF Displaces
      <4>3. /\ ListFits(list, new)
            /\ \A k, e : Taken(list, k, e) => IdAt(list, new, k, e) = IdAt(list, cells, k, e)
        BY ONLY <2>8, <2>9, <2>11, <4>2, ListStays
      <4>4. AllIds(list, new) = ids
        BY <2>11, <4>3, IdsStay
      <4>5. IteratorFits(list, new, it, seen)
        BY <2>11, <4>3, IteratorStays
      <4> QED
        BY <4>3, <4>4, <4>5
    <3>2. CASE ~ initialized
      <4>1. list = << >> /\ seen = << >>
        BY <2>10, <3>2 DEF ViewIInv
      <4>2. ids = {}
        BY <2>11, <4>1, EmptyView
      <4>3. ListFits(list, new) /\ AllIds(list, new) = ids
        BY <4>1, <4>2, EmptyView
      <4>4. it.chunkIndex = 0 /\ IteratorTypeOK(it, seen)
        BY <2>11, <4>1 DEF IteratorFits, AtPosition
      <4> QED
        BY <4>1, <4>3, <4>4 DEF IteratorFits
    <3> QED
      BY <3>1, <3>2
  <2>13. ListInv'
    BY <2>1, <2>5, <2>10, <2>12 DEF ListInv
  <2> QED
    BY <1>1, <2>1, <2>13 DEF ViewIInv
<1> QED
  BY <1>2, <1>3


\* While the list is there or is made now, it fits and takes the ids promised.
LEMMA InitializeOK ==
  ASSUME ViewIInv, InitializeData
  PROVE  /\ initialized' = TRUE
         /\ ListFits(queriedChunks', Cells(archetypes))
         /\ AllIds(queriedChunks', Cells(archetypes)) = promised'
<1>1. CASE initialized
  BY <1>1 DEF InitializeData, ViewIInv, ListInv
<1>2. CASE ~ initialized
  <2>1. queriedChunks' = Get(query) /\ promised' = Matching(query) /\ initialized' = TRUE
    BY <1>2 DEF InitializeData
  <2>2. IInv
    BY DEF ViewIInv
  <2> QED
    BY <2>1, <2>2, GetFits, GetIds
<1> QED
  BY <1>1, <1>2

\* A chunk that the list takes ids from is the cell at its place, ...
LEMMA ListedIds ==
  ASSUME IInv, NEW cells, cells = Cells(archetypes), NEW list, ListFits(list, cells),
         NEW k, NEW e, Taken(list, k, e)
  PROVE  /\ ChunkAt(list[k].place).ids[e] = IdAt(list, cells, k, e)
         /\ e \in DOMAIN ChunkAt(list[k].place).ids
<1>1. TableOK(archetypes) /\ cells \in [CellIndex -> Seq(Nat \ {0})]
  BY InvariantFields, CellsType
<1>2. PICK p \in CellIndex : p = list[k].place
  BY <1>1, ListFields DEF Taken
<1>3. e \in DOMAIN cells[p] /\ e \in Nat
  <2>1. e \in DOMAIN cells[p]
    BY <1>1, <1>2, ListFields
  <2>2. e \in Nat
    BY DEF Taken
  <2> QED
    BY <2>1, <2>2
<1>4. PICK ix : ix = PlaceIn(p, e)
  OBVIOUS
<1>5. ix \in Places /\ Cell(ix) = p /\ ix.elem = e
  BY <1>2, <1>3, <1>4, PlaceParts
<1>6. archetypes[ix.arch].chunks[ix.chunk].ids = cells[p]
  BY <1>1, <1>3, <1>5, PlacePointsAt
<1>7. ix.arch = p[1] /\ ix.chunk = p[2]
  BY <1>4 DEF PlaceIn
<1>8. ChunkAt(list[k].place).ids = cells[p]
  BY <1>2, <1>6, <1>7 DEF ChunkAt
<1> QED
  BY <1>2, <1>3, <1>8 DEF IdAt

\* ... so that the iterator reads there the id the list takes.
LEMMA ReadIs ==
  ASSUME IInv, NEW cells, cells = Cells(archetypes), NEW list, ListFits(list, cells),
         NEW k, NEW e, Taken(list, k, e)
  PROVE  Read(list, k, e) = IdAt(list, cells, k, e)
BY ListedIds DEF Read

\* Views that begin.
LEMMA NewViewOK ==
  ASSUME ViewIInv, NEW q \in Queries, NewView(q)
  PROVE  ViewIInv'
<1>1. q \in QueryShape
  BY QueriesAssumption DEF QueryShape
<1>2. ViewReset(q)
  BY DEF NewView
<1>3. IInv'
  <2>1. [Next]_vars
    BY DEF NewView
  <2> QED
    BY <2>1, StepOK DEF ViewIInv
<1> QED
  BY <1>1, <1>2, <1>3, ResetOK

\* The iterator begins, at the first chunk or at the one of a task.
LEMMA BeginningOK ==
  ASSUME ViewIInv, InitializeData, UNCHANGED <<vars, query>>,
         NEW k \in DOMAIN queriedChunks', NEW only \in BOOLEAN, only = FALSE => k = 1,
         iter' = [chunkIndex |-> k, entityIndex |-> 1, onlyChunk |-> only],
         visited' = <<Read(queriedChunks', k, 1)>>
  PROVE  ViewIInv'
<1>1. IInv /\ IInv' /\ query \in QueryShape
  <2>1. [Next]_vars
    OBVIOUS
  <2> QED
    BY <2>1, StepOK DEF ViewIInv
<1>2. archetypes' = archetypes /\ query' = query
  BY DEF vars
<1>3. PICK cells : cells = Cells(archetypes)
  OBVIOUS
<1>4. cells \in [CellIndex -> Seq(Nat \ {0})]
  BY <1>1, <1>3, InvariantFields, CellsType
<1>5. PICK list, it, seen, ids :
        list = queriedChunks' /\ it = iter' /\ seen = visited' /\ ids = promised'
  OBVIOUS
<1>6. initialized' = TRUE /\ ListFits(list, cells) /\ AllIds(list, cells) = ids
  BY <1>3, <1>5, InitializeOK
<1>7. k \in DOMAIN list /\ Taken(list, k, 1)
  <2>1. k \in DOMAIN list /\ list[k].entityCount \in Nat \ {0}
    BY <1>4, <1>5, <1>6, ListFields
  <2> QED
    BY <2>1 DEF Taken
<1>8. seen = <<IdAt(list, cells, k, 1)>>
  <2>1. Read(list, k, 1) = IdAt(list, cells, k, 1)
    BY <1>1, <1>3, <1>6, <1>7, ReadIs
  <2>2. seen = <<Read(list, k, 1)>>
    BY <1>5 DEF Read, ChunkAt
  <2> QED
    BY <2>1, <2>2
<1>9. IteratorFits(list, cells, it, seen)
  <2>1. it = [chunkIndex |-> k, entityIndex |-> 1, onlyChunk |-> only]
    BY <1>5
  <2> QED
    BY <1>4, <1>6, <1>7, <1>8, <2>1, IteratorBegins
<1>10. ListInv'
  BY <1>2, <1>3, <1>5, <1>6, <1>9 DEF ListInv
<1> QED
  BY <1>1, <1>2, <1>6, <1>10 DEF ViewIInv

LEMMA BeginOK ==
  ASSUME ViewIInv, Begin
  PROVE  ViewIInv'
<1>1. /\ InitializeData /\ UNCHANGED <<vars, query>> /\ queriedChunks' # << >>
      /\ iter' = [chunkIndex |-> 1, entityIndex |-> 1, onlyChunk |-> FALSE]
      /\ visited' = <<Read(queriedChunks', 1, 1)>>
  BY DEF Begin
<1>2. 1 \in DOMAIN queriedChunks'
  <2>1. PICK list : list = queriedChunks'
    OBVIOUS
  <2>2. list \in Seq(Entries)
    BY <1>1, <2>1, InitializeOK DEF ListFits
  <2>3. Len(list) \in Nat /\ Len(list) # 0 /\ DOMAIN list = 1 .. Len(list)
    BY <1>1, <2>1, <2>2, EmptySeq, LenProperties
  <2> QED
    BY <2>1, <2>3
<1> QED
  BY <1>1, <1>2, BeginningOK

LEMMA BeginForChunkOK ==
  ASSUME ViewIInv, NEW k, BeginForChunk(k)
  PROVE  ViewIInv'
<1>1. /\ InitializeData /\ UNCHANGED <<vars, query>> /\ k \in DOMAIN queriedChunks'
      /\ iter' = [chunkIndex |-> k, entityIndex |-> 1, onlyChunk |-> TRUE]
      /\ visited' = <<Read(queriedChunks', k, 1)>>
  BY DEF BeginForChunk
<1> QED
  BY <1>1, BeginningOK


\* filterShared, before the iteration.
LEMMA FilterSharedOK ==
  ASSUME ViewIInv, NEW t \in SharedTypes(ClientTypes), NEW v, FilterShared(t, v)
  PROVE  ViewIInv'
<1>1. IInv /\ IInv' /\ query \in QueryShape
  <2>1. [Next]_vars
    BY DEF FilterShared
  <2> QED
    BY <2>1, StepOK DEF ViewIInv
<1>2. /\ archetypes' = archetypes /\ query' = query /\ iter' = iter /\ visited' = visited
      /\ visited = << >> /\ initialized' = TRUE
  BY DEF FilterShared, Building, vars
<1>3. PICK cells : cells = Cells(archetypes)
  OBVIOUS
<1>4. PICK list : list = IF initialized THEN queriedChunks ELSE Get(query)
  OBVIOUS
<1>5. PICK ids : ids = IF initialized THEN promised ELSE Matching(query)
  OBVIOUS
<1>6. ListFits(list, cells) /\ AllIds(list, cells) = ids
  <2>1. CASE initialized
    BY <1>3, <1>4, <1>5, <2>1 DEF ViewIInv, ListInv
  <2>2. CASE ~ initialized
    BY <1>1, <1>3, <1>4, <1>5, <2>2, GetFits, GetIds
  <2> QED
    BY <2>1, <2>2
<1>7. PICK S : S = Selected(list, t, v)
  OBVIOUS
<1>8. PICK new : new = Kept(list, S)
  OBVIOUS
<1>9. PICK left : left = {id \in ids : t \in TypesOf(Store, id) /\ EntityOf(id)[t] = v}
  OBVIOUS
<1>10. queriedChunks' = new /\ promised' = left
  BY <1>4, <1>5, <1>7, <1>8, <1>9 DEF FilterShared, Selected
<1>11. ListFits(new, cells) /\ AllIds(new, cells) = left
  <2>1. /\ IInv /\ cells = Cells(archetypes) /\ ListFits(list, cells)
        /\ t \in SharedTypes(ClientTypes)
    BY <1>1, <1>3, <1>6
  <2>2. /\ ListFits(new, cells)
        /\ \A id : id \in AllIds(new, cells)
             <=> id \in AllIds(list, cells) /\ ValueIs(id, t, v)
    BY ONLY <1>7, <1>8, <2>1, FilterIds
  <2>3. \A id : id \in AllIds(new, cells) <=> id \in left
    BY <1>6, <1>9, <2>2 DEF ValueIs
  <2> QED
    BY <2>2, <2>3
<1>12. PICK it : it = iter
  OBVIOUS
<1>13. it.chunkIndex = 0 /\ IteratorTypeOK(it, << >>)
  BY <1>2, <1>12 DEF ViewIInv, ListInv, IteratorFits, AtPosition
<1>14. IteratorFits(new, cells, it, << >>)
  BY <1>13 DEF IteratorFits
<1>15. ListInv'
  BY <1>2, <1>3, <1>10, <1>11, <1>12, <1>14 DEF ListInv
<1> QED
  BY <1>1, <1>2, <1>15 DEF ViewIInv

\* operator++
LEMMA IncrementOK ==
  ASSUME ViewIInv, Increment
  PROVE  ViewIInv'
<1>1. IInv /\ IInv' /\ query \in QueryShape
  <2>1. [Next]_vars
    BY DEF Increment
  <2> QED
    BY <2>1, StepOK DEF ViewIInv
<1>2. /\ archetypes' = archetypes /\ query' = query /\ initialized' = initialized
      /\ queriedChunks' = queriedChunks /\ promised' = promised
      /\ iter.chunkIndex # 0
  BY DEF Increment, IsValid, vars
<1>3. PICK cells : cells = Cells(archetypes)
  OBVIOUS
<1>4. PICK list, it, seen : list = queriedChunks /\ it = iter /\ seen = visited
  OBVIOUS
<1>5. PICK next : next = NextPosition(list, it)
  OBVIOUS
<1>6. PICK new : new = IF next.chunkIndex = 0 THEN seen
                       ELSE Append(seen, IdAt(list, cells, next.chunkIndex, next.entityIndex))
  OBVIOUS
<1>7. ListFits(list, cells) /\ IteratorFits(list, cells, it, seen)
  BY <1>3, <1>4 DEF ViewIInv, ListInv
<1>8. ExactCells(cells, entityDataIndexMap) /\ cells \in [CellIndex -> Seq(Nat \ {0})]
  BY <1>1, <1>3, InvariantFields DEF ExactCells
<1>9. PICK map : map = entityDataIndexMap
  OBVIOUS
<1>10. /\ next.chunkIndex # 0 =>
            new = Append(seen, IdAt(list, cells, next.chunkIndex, next.entityIndex))
       /\ next.chunkIndex = 0 => new = seen
       /\ it.chunkIndex # 0 /\ ExactCells(cells, map)
  BY <1>2, <1>4, <1>6, <1>8, <1>9
<1>11. /\ IteratorFits(list, cells, next, new)
       /\ next.chunkIndex # 0 => Taken(list, next.chunkIndex, next.entityIndex)
  BY ONLY <1>5, <1>7, <1>8, <1>10, IteratorMoves
<1>12. iter' = next
  BY <1>4, <1>5 DEF Increment
<1>13. visited' = new
  <2>1. CASE next.chunkIndex = 0
    BY <1>4, <1>5, <1>6, <2>1 DEF Increment
  <2>2. CASE next.chunkIndex # 0
    <3>1. Read(list, next.chunkIndex, next.entityIndex) =
            IdAt(list, cells, next.chunkIndex, next.entityIndex)
      BY <1>1, <1>3, <1>7, <1>11, <2>2, ReadIs
    <3>2. visited' = Append(seen, Read(list, next.chunkIndex, next.entityIndex))
      BY <1>4, <1>5, <2>2 DEF Increment
    <3> QED
      BY <1>6, <2>2, <3>1, <3>2
  <2> QED
    BY <2>1, <2>2
<1>14. ListInv'
  <2>1. AllIds(list, cells) = promised
    BY <1>3, <1>4 DEF ViewIInv, ListInv
  <2> QED
    BY <1>2, <1>3, <1>4, <1>7, <1>11, <1>12, <1>13, <2>1 DEF ListInv
<1>15. ~ initialized' => queriedChunks' = << >> /\ visited' = << >>
  <2>1. ASSUME ~ initialized
        PROVE  FALSE
    <3>1. list = << >>
      BY <1>4, <2>1 DEF ViewIInv
    <3>2. it.chunkIndex \in DOMAIN list
      BY <1>2, <1>4, <1>7 DEF IteratorFits, AtPosition, Taken
    <3> QED
      BY <3>1, <3>2
  <2> QED
    BY <1>2, <2>1
<1> QED
  BY <1>1, <1>2, <1>14, <1>15 DEF ViewIInv

\* Every step of the view or the store preserves the invariant.
LEMMA ViewStepOK ==
  ASSUME ViewIInv, [ViewNext]_allVars
  PROVE  ViewIInv'
<1>1. ASSUME NEW q \in Queries, NewView(q)
      PROVE  ViewIInv'
  BY <1>1, NewViewOK
<1>2. ASSUME NEW t \in SharedTypes(ClientTypes), NEW v \in Value, FilterShared(t, v)
      PROVE  ViewIInv'
  BY <1>2, FilterSharedOK
<1>3. CASE Begin
  BY <1>3, BeginOK
<1>4. ASSUME NEW k \in DOMAIN queriedChunks, BeginForChunk(k)
      PROVE  ViewIInv'
  BY <1>4, BeginForChunkOK
<1>5. CASE Increment
  BY <1>5, IncrementOK
<1>6. CASE StoreOperation
  BY <1>6, ViewStoreOK
<1>7. CASE UNCHANGED allVars
  <2>1. IInv'
    <3>1. [Next]_vars
      BY <1>7 DEF allVars
    <3> QED
      BY <3>1, StepOK DEF ViewIInv
  <2>2. /\ archetypes' = archetypes /\ query' = query /\ initialized' = initialized
        /\ queriedChunks' = queriedChunks /\ iter' = iter /\ visited' = visited
        /\ promised' = promised
    BY <1>7 DEF allVars, vars, viewVars
  <2> QED
    BY <2>1, <2>2 DEF ViewIInv, ListInv
<1> QED
  BY <1>1, <1>2, <1>3, <1>4, <1>5, <1>6, <1>7 DEF ViewNext

-----------------------------------------------------------------------------
\* The invariant holds in every state that a client with views and the store reach.
THEOREM ViewInvariant == ViewSpec => []ViewIInv
<1>1. ViewInit => ViewIInv
  BY ViewInitOK
<1>2. ViewIInv /\ [ViewNext]_allVars => ViewIInv'
  BY ViewStepOK
<1> QED
  BY <1>1, <1>2, PTL DEF ViewSpec

\* The ids counted in a chunk of the list are those the list takes of its cell.
LEMMA CountedIs ==
  ASSUME IInv, ListFits(queriedChunks, Cells(archetypes)), NEW k \in DOMAIN queriedChunks
  PROVE  CountedIn(k) = PartIds(queriedChunks, Cells(archetypes), k)
<1>1. ASSUME NEW e \in 1 .. queriedChunks[k].entityCount
      PROVE  ChunkAt(queriedChunks[k].place).ids[e] = IdAt(queriedChunks, Cells(archetypes), k, e)
  <2>1. Taken(queriedChunks, k, e)
    BY <1>1 DEF Taken
  <2> QED
    BY <2>1, ListedIds
<1> QED
  BY <1>1 DEF CountedIn, PartIds

\* The iterator sees the entity it points at.
LEMMA SeesIt ==
  ASSUME ViewIInv, IsValid
  PROVE  visited # << >> /\ SeesEntity(Last(visited))
<1>1. PICK cells : cells = Cells(archetypes)
  OBVIOUS
<1>2. PICK list, k, e : list = queriedChunks /\ k = iter.chunkIndex /\ e = iter.entityIndex
  OBVIOUS
<1>3. /\ IInv /\ ListFits(list, cells) /\ ExactCells(cells, entityDataIndexMap)
      /\ cells \in [CellIndex -> Seq(Nat \ {0})]
  BY <1>1, <1>2, InvariantFields, CellsType DEF ViewIInv, ListInv
<1>4. /\ Taken(list, k, e) /\ visited # << >>
      /\ Last(visited) = IdAt(list, cells, k, e)
  BY <1>1, <1>2 DEF ViewIInv, ListInv, IteratorFits, AtPosition, IsValid, Last
<1>5. PICK id : id = Last(visited)
  OBVIOUS
<1>6. PICK p : p = list[k].place
  OBVIOUS
<1>7. id \in DOMAIN entityDataIndexMap /\ entityDataIndexMap[id] = PlaceIn(p, e)
  BY <1>3, <1>4, <1>5, <1>6, TakenIsMapped
<1>8. PICK chunk : chunk = ChunkAt(p)
  OBVIOUS
<1>9. /\ PlaceIn(p, e).arch = p[1] /\ PlaceIn(p, e).chunk = p[2] /\ PlaceIn(p, e).elem = e
      /\ CurrentPlace = p
  BY <1>2, <1>6 DEF PlaceIn, CurrentPlace
<1>10. PICK ts : ts = archetypes[p[1]].types
  OBVIOUS
<1>11. TypesOf(Store, id) = ts /\ ChunkOf(Store, id) = chunk
  BY <1>3, <1>7, <1>8, <1>9, <1>10, EntityPlace DEF ChunkAt
<1>12. IsChunk(chunk, ts) /\ ts \in SUBSET Types
  <2>1. /\ ArchOK(archetypes[p[1]]) /\ Occupied(archetypes[p[1]].chunks, p[2])
        /\ chunk = archetypes[p[1]].chunks[p[2]]
    BY <1>3, <1>7, <1>8, <1>9, EntityPlace DEF ChunkAt
  <2> QED
    BY <1>10, <2>1, ArchetypeFields
<1>13. chunk.shared \in [SharedTypes(ts) -> Value]
  BY <1>12, ChunkFields
<1>14. GetComponents(id, ClientTypes) = [t \in ClientTypes |-> ComponentHere(t)]
  BY <1>2, <1>7, <1>8, <1>9, <1>11 DEF GetComponents, ComponentsAt, ComponentHere
<1>15. ASSUME NEW t \in ClientTypes
       PROVE  /\ HasComponents({t}) <=> t \in ts
              /\ SharedComponentHere(t) = {EntityOf(id)[u] : u \in {t} \cap SharedTypes(ts)}
  <2>1. HasComponents({t}) <=> t \in ts
    BY <1>9, <1>10 DEF HasComponents
  <2>2. \A u \in SharedTypes(ts) : EntityOf(id)[u] = chunk.shared[u]
    <3>1. \A u \in SharedTypes(ts) : u \in ts /\ u \notin EmptyTypes
      BY DEF SharedTypes
    <3> QED
      BY <1>11, <3>1 DEF EntityOf
  <2>3. SharedComponentHere(t) = {chunk.shared[u] : u \in {t} \cap SharedTypes(ts)}
    BY <1>8, <1>9, <1>13 DEF SharedComponentHere, GetSharedComponent
  <2> QED
    BY <2>1, <2>2, <2>3
<1> QED
  BY <1>4, <1>5, <1>11, <1>14, <1>15 DEF SeesEntity

\* The parts of the type invariant.
LEMMA ViewTypeHolds ==
  ASSUME ViewIInv
  PROVE  ViewTypeOK
<1>1. PICK cells : cells = Cells(archetypes)
  OBVIOUS
<1>2. /\ IInv /\ ListFits(queriedChunks, cells) /\ AllIds(queriedChunks, cells) = promised
      /\ ExactCells(cells, entityDataIndexMap)
      /\ cells \in [CellIndex -> Seq(Nat \ {0})]
  BY <1>1, InvariantFields, CellsType DEF ViewIInv, ListInv
<1>3. promised \subseteq 1 .. nextEntityId - 1
  <2>1. ASSUME NEW id \in promised
        PROVE  id \in 1 .. nextEntityId - 1
    <3>1. PICK k, e : Taken(queriedChunks, k, e) /\ id = IdAt(queriedChunks, cells, k, e)
      BY <1>2, <2>1, AllIdsAre
    <3>2. id \in DOMAIN entityDataIndexMap
      BY <1>2, <3>1, TakenIsMapped
    <3> QED
      BY <1>2, <3>2 DEF IInv
  <2> QED
    BY <2>1
<1>4. Range(visited) \subseteq Nat
  <2>1. visited \in Seq(Nat \ {0})
    BY DEF ViewIInv, ListInv, IteratorFits, IteratorTypeOK
  <2> QED
    BY <2>1, LenProperties, ElementOfSeq DEF Range
<1>5. IsValid => /\ iter.chunkIndex \in DOMAIN queriedChunks
                 /\ iter.entityIndex \in 1 .. queriedChunks[iter.chunkIndex].entityCount
  BY DEF ViewIInv, ListInv, IteratorFits, AtPosition, Taken, IsValid
<1> QED
  BY <1>3, <1>4, <1>5 DEF ViewTypeOK, ViewIInv, QueryShape

\* A loop has visited nothing twice and nothing that was not promised, and at
\* its end everything.
LEMMA IterationHolds ==
  ASSUME ViewIInv
  PROVE  IterationExact
<1>1. PICK cells : cells = Cells(archetypes)
  OBVIOUS
<1>2. /\ IInv /\ ListFits(queriedChunks, cells) /\ AllIds(queriedChunks, cells) = promised
      /\ IteratorFits(queriedChunks, cells, iter, visited)
  BY <1>1 DEF ViewIInv, ListInv
<1>3. IsInjective(visited)
  BY <1>2 DEF IteratorFits, IteratorTypeOK
<1>4. \A k \in DOMAIN queriedChunks : CountedIn(k) = PartIds(queriedChunks, cells, k)
  BY <1>1, <1>2, CountedIs
<1>5. ASSUME visited # << >>, ~ IsValid
      PROVE  IF iter.onlyChunk THEN \E k \in DOMAIN queriedChunks : Range(visited) = CountedIn(k)
                               ELSE Range(visited) = promised
  <2>1. AtEnd(queriedChunks, cells, iter, visited)
    BY <1>2, <1>5 DEF IteratorFits, IsValid
  <2> QED
    BY <1>2, <1>4, <2>1 DEF AtEnd
<1>6. Range(visited) \subseteq promised
  <2>1. CASE IsValid
    <3>1. Range(visited) = PassedIds(queriedChunks, cells, iter)
      BY <1>2, <2>1 DEF IteratorFits, AtPosition, IsValid
    <3> QED
      BY <1>2, <3>1 DEF PassedIds
  <2>2. CASE visited = << >>
    BY <2>2 DEF Range
  <2>3. CASE visited # << >> /\ ~ IsValid
    <3>1. AtEnd(queriedChunks, cells, iter, visited)
      BY <1>2, <2>3 DEF IteratorFits, IsValid
    <3>2. \A k \in DOMAIN queriedChunks : PartIds(queriedChunks, cells, k) \subseteq promised
      BY <1>2 DEF AllIds
    <3> QED
      BY <1>2, <3>1, <3>2 DEF AtEnd
  <2> QED
    BY <2>1, <2>2, <2>3
<1>7. IsValid => SeesEntity(Last(visited))
  BY SeesIt
<1> QED
  BY <1>3, <1>5, <1>6, <1>7 DEF IterationExact

\* The counts, and what the chunks of the list hold together.
LEMMA CountHolds ==
  ASSUME ViewIInv
  PROVE  CountExact
<1>1. PICK cells : cells = Cells(archetypes)
  OBVIOUS
<1>2. /\ IInv /\ ListFits(queriedChunks, cells) /\ AllIds(queriedChunks, cells) = promised
      /\ ExactCells(cells, entityDataIndexMap)
  BY <1>1, InvariantFields DEF ViewIInv, ListInv
<1>3. GetCount = Cardinality(promised)
  BY <1>2, CountFits DEF GetCount
<1>4. \A k \in DOMAIN queriedChunks : CountedIn(k) = PartIds(queriedChunks, cells, k)
  BY <1>1, <1>2, CountedIs
<1>5. UNION {CountedIn(k) : k \in DOMAIN queriedChunks} = promised
  BY <1>2, <1>4 DEF AllIds
<1> QED
  BY <1>3, <1>5 DEF CountExact

\* For every set of types, kinds, capacity and bound: a view is of its types,
\* and its iterator never points outside its list.
THEOREM ViewTypeCorrectness == ViewSpec => []ViewTypeOK
<1>1. ViewIInv => ViewTypeOK
  BY ViewTypeHolds
<1> QED
  BY <1>1, ViewInvariant, PTL

\* A loop over a view points at each entity that matched its query exactly once,
\* and sees its components, whatever entities are created and components set
\* meanwhile, as long as no entity leaves its place.
THEOREM IterationIsExact == ViewSpec => []IterationExact
<1>1. ViewIInv => IterationExact
  BY IterationHolds
<1> QED
  BY <1>1, ViewInvariant, PTL

\* getCount is the number of the entities that matched, and the tasks of a job
\* together get each of them, none twice.
THEOREM CountIsExact == ViewSpec => []CountExact
<1>1. ViewIInv => CountExact
  BY CountHolds
<1> QED
  BY <1>1, ViewInvariant, PTL

=============================================================================
