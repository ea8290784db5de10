--------------------------- MODULE ChunkLayout ---------------------------
(***************************************************************************)
(* Where a chunk puts its arrays in its buffer, and how many entities it   *)
(* takes (the constructor of Chunk).  The capacity is fixed first, from    *)
(* the sizes and a reserve for the padding; the arrays are then placed one *)
(* after the other, each at the alignment of its type, without a check     *)
(* that they fit.  Chunk and Archetype take the capacity as a constant.     *)
(*                                                                         *)
(* A type is [size, alignment, shared]; a type without data has size 0.    *)
(***************************************************************************)
EXTENDS Integers, Sequences, SequencesExt, Lists

CONSTANTS
  BufferCapacity,  \* Chunk::bufferCapacity: 2^14 in the code
  IdSize,          \* sizeof(entityId)
  MaxAlign,        \* alignof(std::max_align_t)
  Shapes,          \* bound: the types that are tried
  MaxTypes         \* bound: how many of them a chunk has

ASSUME LayoutAssumption ==
  /\ {BufferCapacity, IdSize, MaxAlign} \subseteq Nat \ {0} /\ MaxTypes \in Nat
  /\ \A t \in Shapes : /\ t.size \in Nat /\ t.alignment \in 1 .. MaxAlign
                       /\ t.size % t.alignment = 0
                       /\ t.shared \in BOOLEAN

\* The size of the shared types together, or of the others.
TotalSize(types, shared) ==
  Total([k \in DOMAIN types |-> IF types[k].shared = shared THEN types[k].size ELSE 0])

EntitySize(types) == IdSize + TotalSize(types, FALSE)

\* A reserve for the shared values, but none for the padding.
WorstCaseCapacityUnpadded(types) == BufferCapacity - TotalSize(types, TRUE)

\* The bytes left when every array needs as much padding as one ever can.
WorstCaseCapacity(types) ==
  BufferCapacity - MaxAlign * Len(types) - TotalSize(types, TRUE)

\* entityCapacity: an int division, which rounds towards zero.
EntityCapacity(types) ==
  LET worst == WorstCaseCapacity(types)
  IN  IF worst >= 0 THEN worst \div EntitySize(types) ELSE - ((- worst) \div EntitySize(types))

Aligned(offset, alignment) ==
  offset + ((alignment - (offset % alignment)) % alignment)

\* The array of one more type, if it has data, behind those there are.
Place(capacity, arrays, t) ==
  LET first == Aligned(Last(arrays)[2], t.alignment)
  IN  IF t.size = 0 THEN arrays
      ELSE Append(arrays, <<first, first + t.size * (IF t.shared THEN 1 ELSE capacity), t.alignment>>)

\* The arrays of a chunk, that of the entity ids first: <<first byte, first byte
\* behind it, alignment>>.
Placed(types) ==
  LET capacity == EntityCapacity(types)
  IN  FoldLeft(LAMBDA arrays, t : Place(capacity, arrays, t), << <<0, IdSize * capacity, 1>> >>, types)

\* The arrays are aligned, counted from the start of the buffer (which itself is
\* aligned for ids), do not overlap and lie within the buffer.
Fits(types) ==
  LET arrays == Placed(types)
  IN  \A i \in DOMAIN arrays :
        /\ arrays[i][1] % arrays[i][3] = 0
        /\ arrays[i][2] <= BufferCapacity
        /\ i > 1 => arrays[i - 1][2] <= arrays[i][1]

\* Whether n types fit, whatever they are.
FitAny ==
  [n \in 0 .. MaxTypes |->
     \A types \in [1 .. n -> Shapes] : EntityCapacity(types) >= 1 => Fits(types)]
=============================================================================
