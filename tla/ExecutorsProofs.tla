-------------------------- MODULE ExecutorsProofs --------------------------
(***************************************************************************)
(* Proofs about what runs tasks, for any number of threads, fibers, tasks  *)
(* and counters, and any size of the first array of a queue: the lock-free *)
(* queue of a thread implements a double-ended queue; the thread pool runs *)
(* each task once and does not sleep through work; the mutex of fibers     *)
(* excludes, and a counter that fibers wait for outlives their calls.      *)
(***************************************************************************)
EXTENDS Executors, FiniteSetTheorems, SequenceTheorems, TLAPS

\* The arrays there can be, and the calls of the owner and of a thief.
Items == 0 .. MaxPushes

Arrays == UNION {[0 .. n - 1 -> Items] : n \in Nat \ {0}}

OwnerCalls ==
  {Idle} \union [at : {"push", "put", "publish"}, item : Items, t : Nat]
    \union [at : {"pop", "restore"}] \union [at : {"last"}, t : Nat]

ThiefCalls ==
  {Idle} \union [at : {"steal", "array"}, t : Nat]
    \union [at : {"get"}, t : Nat, array : Nat] \union [at : {"take"}, t : Nat, item : Items]

ArraysFit ==
  /\ arrays \in Seq(Arrays) /\ arrays # << >>
  /\ Size(arrays[1]) = StartingSize
  /\ \A k \in 2 .. Len(arrays) : Size(arrays[k]) = 2 * Size(arrays[k - 1])

QueueCallsFit ==
  /\ op = [p \in Thieves \union {QueueOwner} |-> op[p]]
  /\ op[QueueOwner] \in OwnerCalls
  /\ \A p \in Thieves : op[p] \in ThiefCalls

TakenFit == pops \in Seq(Items) /\ steals \in Seq(Items)

\* The number of the items that are in the queue.
Waiting == End - top

\* m_top goes on with items only: no index comes near IndexRange.
IndicesFit ==
  /\ top \in Nat /\ bottom \in Nat
  /\ 1 <= top /\ top <= End /\ Waiting <= Size(Newest)
  /\ top - 1 <= Len(pops) + Len(steals)
  /\ Waiting + Len(pops) + Len(steals) <= MaxPushes

\* What the owner has seen of m_top may be old; but then there is more room
\* than it believes.
OwnerKnows ==
  LET doing == op[QueueOwner]
  IN  /\ doing.at \in {"push", "put", "publish"} =>
           doing.item = Waiting + Len(pops) + Len(steals) + 1 /\ doing.item <= MaxPushes
      /\ doing.at = "push" =>
           1 <= doing.t /\ doing.t <= top /\ bottom - doing.t <= Size(Newest)
      /\ doing.at \in {"put", "publish"} => Waiting < Size(Newest)
      /\ doing.at = "publish" => Item(Newest, bottom) = doing.item
      /\ doing.at = "last" => doing.t = bottom /\ bottom <= top
      /\ doing.at = "restore" => top = bottom + 1

\* A thief that saw m_top as it still is will find the item there, whatever
\* array it reads it from.
ThiefKnows(doing) ==
  /\ doing.at # "idle" => 1 <= doing.t /\ doing.t <= top
  /\ doing.at \in {"array", "get", "take"} /\ doing.t = top => top < End
  /\ doing.at = "get" =>
       /\ doing.array \in DOMAIN arrays
       /\ doing.t = top => Item(arrays[doing.array], top) = Item(Newest, top)
  /\ doing.at = "take" /\ doing.t = top => doing.item = Item(Newest, top)

ThievesKnow == \A p \in Thieves : ThiefKnows(op[p])

\* The invariant of the queue that every step preserves.
QueueIInv ==
  ArraysFit /\ QueueCallsFit /\ TakenFit /\ IndicesFit /\ OwnerKnows /\ ThievesKnow

-----------------------------------------------------------------------------
LEMMA InRange ==
  ASSUME NEW n \in Nat \ {0}, NEW i \in 0 .. n - 1
  PROVE  i % n = i
OBVIOUS

LEMMA Remainder ==
  ASSUME NEW n \in Nat \ {0}, NEW i \in Int
  PROVE  i % n \in 0 .. n - 1
OBVIOUS

LEMMA OneOfN ==
  ASSUME NEW n \in Nat \ {0}, NEW i \in Nat, NEW j \in Nat, i <= j, j < i + n, i % n = j % n
  PROVE  i = j
<1>1. i = n * (i \div n) + (i % n) /\ j = n * (j \div n) + (j % n) /\ (i \div n) \in Int /\ j \div n \in Int
  OBVIOUS
<1> DEFINE p == i \div n
           q == j \div n
<1>2. p \in Int /\ q \in Int /\ i = n * p + (i % n) /\ j = n * q + (j % n) /\ i % n \in Int
  BY <1>1
<1> HIDE DEF p, q
<1>3. n * q - n * p = j - i
  BY <1>2
<1>4. n * q - n * p = n * (q - p)
  BY <1>2
<1>5. PICK d \in Int : d = q - p
  BY <1>2
<1>6. n * d < n /\ n * d >= 0
  BY <1>3, <1>4, <1>5
<1>7. d >= 1 => n * d >= n
  OBVIOUS
<1>8. d <= -1 => n * d < 0
  OBVIOUS
<1>9. d = 0
  BY <1>6, <1>7, <1>8
<1> QED BY <1>9, <1>3, <1>4, <1>5

-----------------------------------------------------------------------------
\* The constants, and the indices: none of those in use wraps around.
LEMMA QueueConstants ==
  /\ QueueOwner \notin Thieves
  /\ StartingSize \in Nat \ {0} /\ MaxPushes \in Nat /\ IndexRange \in Nat
  /\ IndexRange > MaxPushes + 1
BY QueueAssumption

LEMMA NextIndex ==
  ASSUME NEW i \in Nat, i <= MaxPushes
  PROVE  Up(i) = i + 1
BY QueueConstants, InRange DEF Up

LEMMA PreviousIndex ==
  ASSUME NEW i \in Nat, 1 <= i, i <= MaxPushes + 1
  PROVE  Down(i) = i - 1
BY QueueConstants, InRange DEF Down

\* An array has a size, and an item at each index.
LEMMA ArrayShape ==
  ASSUME NEW a \in Arrays
  PROVE  Size(a) \in Nat \ {0} /\ a \in [0 .. Size(a) - 1 -> Items]
<1>1. PICK n \in Nat \ {0} : a \in [0 .. n - 1 -> Items]
  BY DEF Arrays
<1>2. Cardinality(0 .. n - 1) = n
  <2>1. 0 \in Int /\ n - 1 \in Int /\ ~(0 > n - 1) /\ (n - 1) - 0 + 1 = n
    OBVIOUS
  <2> QED BY <2>1, FS_Interval
<1>3. DOMAIN a = 0 .. n - 1
  BY <1>1
<1> QED BY <1>1, <1>2, <1>3 DEF Size

LEMMA SizeIs ==
  ASSUME NEW n \in Nat \ {0}, NEW a, DOMAIN a = 0 .. n - 1
  PROVE  Size(a) = n
<1>1. 0 \in Int /\ n - 1 \in Int /\ ~(0 > n - 1) /\ (n - 1) - 0 + 1 = n
  OBVIOUS
<1> QED BY <1>1, FS_Interval DEF Size

LEMMA ItemIn ==
  ASSUME NEW a \in Arrays, NEW i \in Nat
  PROVE  Item(a, i) \in Items
<1>1. PICK n \in Nat \ {0} : n = Size(a) /\ a \in [0 .. n - 1 -> Items]
  BY ArrayShape
<1>2. i % n \in 0 .. n - 1
  BY Remainder
<1> QED BY <1>1, <1>2 DEF Item

\* CircularArray::Put writes at one index, and leaves those less than the size away.
LEMMA WithItemIs ==
  ASSUME NEW a \in Arrays, NEW i \in Nat, NEW x \in Items
  PROVE  /\ WithItem(a, i, x) \in Arrays /\ Size(WithItem(a, i, x)) = Size(a)
         /\ Item(WithItem(a, i, x), i) = x
         /\ \A j \in Nat : j < i /\ i - j < Size(a) => Item(WithItem(a, i, x), j) = Item(a, j)
<1> DEFINE n == Size(a)
           w == WithItem(a, i, x)
<1>1. n \in Nat \ {0} /\ a \in [0 .. n - 1 -> Items]
  BY ArrayShape
<1> HIDE DEF n
<1>2. i % n \in 0 .. n - 1
  BY <1>1, Remainder
<1>3. w \in [0 .. n - 1 -> Items] /\ w[i % n] = x /\ \A k \in 0 .. n - 1 : k # i % n => w[k] = a[k]
  BY <1>1, <1>2 DEF WithItem, n
<1> HIDE DEF w
<1>4. w \in Arrays /\ Size(w) = n
  <2>1. DOMAIN w = 0 .. n - 1
    BY <1>3
  <2> QED BY <1>1, <1>3, <2>1, SizeIs DEF Arrays
<1>5. ASSUME NEW j \in Nat, j < i, i - j < n
      PROVE  Item(w, j) = Item(a, j)
  <2>1. j % n \in 0 .. n - 1
    BY <1>1, Remainder
  <2>2. j % n # i % n
    <3>1. j <= i /\ i < j + n
      BY <1>5, <1>1
    <3> SUFFICES ASSUME j % n = i % n PROVE FALSE
      OBVIOUS
    <3>2. j = i
      BY <3>1, <1>1, OneOfN
    <3> QED BY <3>2, <1>5
  <2> QED BY <2>1, <2>2, <1>3, <1>4 DEF Item, n
<1> QED BY <1>3, <1>4, <1>5 DEF Item, n, w

\* CircularArray::Grow keeps the items between the indices it is given.
LEMMA GrownIs ==
  ASSUME NEW a \in Arrays, NEW t \in Nat, NEW b \in Nat, t <= b, b - t <= Size(a), b < IndexRange
  PROVE  /\ Grown(a, t, b) \in Arrays /\ Size(Grown(a, t, b)) = 2 * Size(a)
         /\ \A j \in t .. b - 1 : Item(Grown(a, t, b), j) = Item(a, j)
<1> DEFINE n == Size(a)
           size == 2 * n
           moved == {(t + k) % IndexRange : k \in 0 .. ((b - t) % IndexRange) - 1}
           At(i) == {j \in moved : j % size = i}
           G == [i \in 0 .. size - 1 |-> IF At(i) = {} THEN NoItem ELSE Item(a, CHOOSE j \in At(i) : TRUE)]
<1>1. n \in Nat \ {0} /\ b - t <= n
  BY ArrayShape
<1>2. Grown(a, t, b) = G
  BY DEF Grown
<1> HIDE DEF n
<1>3. size \in Nat \ {0} /\ n <= size
  BY <1>1
<1>4. moved = t .. b - 1
  <2>1. (b - t) % IndexRange = b - t
    <3>1. b - t \in 0 .. IndexRange - 1 /\ IndexRange \in Nat \ {0}
      BY QueueConstants
    <3> QED BY <3>1, InRange
  <2>2. \A k \in 0 .. (b - t) - 1 : (t + k) % IndexRange = t + k
    <3>1. ASSUME NEW k \in 0 .. (b - t) - 1 PROVE t + k \in 0 .. IndexRange - 1 /\ IndexRange \in Nat \ {0}
      BY QueueConstants
    <3> QED BY <3>1, InRange
  <2>3. \A j \in t .. b - 1 : j - t \in 0 .. (b - t) - 1 /\ j = t + (j - t)
    OBVIOUS
  <2>4. \A k \in 0 .. (b - t) - 1 : t + k \in t .. b - 1
    OBVIOUS
  <2>5. moved = {(t + k) % IndexRange : k \in 0 .. (b - t) - 1}
    BY <2>1
  <2>6. \A x \in moved : x \in t .. b - 1
    BY <2>5, <2>2, <2>4
  <2>7. \A j \in t .. b - 1 : j \in moved
    <3> SUFFICES ASSUME NEW j \in t .. b - 1 PROVE j \in moved
      OBVIOUS
    <3>1. j - t \in 0 .. (b - t) - 1 /\ j = (t + (j - t)) % IndexRange
      BY <2>2, <2>3
    <3> QED BY <3>1, <2>5
  <2> HIDE DEF moved
  <2> QED BY <2>6, <2>7
<1> HIDE DEF moved, size
<1>5. \A i \in 0 .. size - 1 : At(i) # {} => (CHOOSE j \in At(i) : TRUE) \in Nat
  BY <1>4
<1>6. G \in [0 .. size - 1 -> Items]
  <2>1. NoItem \in Items
    BY QueueConstants DEF NoItem, Items
  <2> QED BY <2>1, <1>5, ItemIn
<1>7. \A j \in t .. b - 1 : At(j % size) = {j}
  <2> SUFFICES ASSUME NEW j \in t .. b - 1, NEW k \in t .. b - 1, k % size = j % size
               PROVE  k = j
    BY <1>4
  <2>1. j < k + size /\ k < j + size /\ j \in Nat /\ k \in Nat
    BY <1>3, <1>1
  <2>2. CASE j <= k
    BY <2>1, <2>2, <1>3, OneOfN
  <2>3. CASE k <= j
    BY <2>1, <2>3, <1>3, OneOfN
  <2> QED BY <2>1, <2>2, <2>3
<1>8. \A j \in t .. b - 1 : j % size \in 0 .. size - 1
  BY <1>3, Remainder
<1>9. \A j \in t .. b - 1 : G[j % size] = Item(a, j)
  BY <1>7, <1>8
<1>10. DOMAIN G = 0 .. size - 1
  OBVIOUS
<1> HIDE DEF G
<1>11. G \in Arrays /\ Size(G) = size
  BY <1>3, <1>6, <1>10, SizeIs DEF Arrays
<1> QED BY <1>2, <1>9, <1>11 DEF Item, size, n

-----------------------------------------------------------------------------
\* One thread goes on with its call; the others are where they were.
LEMMA OneMoves ==
  ASSUME QueueCallsFit, NEW p \in Thieves \union {QueueOwner}, NEW c, Continues(p, c)
  PROVE  /\ op'[p] = c
         /\ \A q \in Thieves \union {QueueOwner} : q # p => op'[q] = op[q]
         /\ op' = [q \in Thieves \union {QueueOwner} |-> op'[q]]
<1>1. DOMAIN op = Thieves \union {QueueOwner}
  BY DEF QueueCallsFit
<1>2. op' = [op EXCEPT ![p] = c]
  BY DEF Continues
<1> QED BY <1>1, <1>2

\* The newest array is one of the arrays.
LEMMA NewestIs ==
  ASSUME ArraysFit
  PROVE  /\ Len(arrays) \in Nat \ {0} /\ DOMAIN arrays = 1 .. Len(arrays)
         /\ Newest \in Arrays /\ Size(Newest) \in Nat \ {0}
         /\ \A k \in DOMAIN arrays : arrays[k] \in Arrays
<1>1. arrays \in Seq(Arrays) /\ arrays # << >>
  BY DEF ArraysFit
<1>2. Len(arrays) \in Nat \ {0} /\ DOMAIN arrays = 1 .. Len(arrays)
      /\ \A k \in DOMAIN arrays : arrays[k] \in Arrays
  BY <1>1
<1>3. Newest \in Arrays
  BY <1>2 DEF Newest
<1>4. Size(Newest) \in Nat \ {0}
  BY <1>3, ArrayShape
<1> QED BY <1>2, <1>3, <1>4

\* No index in use is beyond the last that does not wrap around.
LEMMA Indices ==
  ASSUME QueueIInv
  PROVE  /\ top \in Nat /\ bottom \in Nat /\ End \in Nat /\ Waiting \in Nat
         /\ 1 <= top /\ top <= End /\ End <= MaxPushes + 1 /\ Waiting = End - top
         /\ Len(pops) \in Nat /\ Len(steals) \in Nat
         /\ pops \in Seq(Items) /\ steals \in Seq(Items)
         /\ Waiting <= Size(Newest) /\ Size(Newest) \in Nat \ {0}
         /\ top - 1 <= Len(pops) + Len(steals)
         /\ Waiting + Len(pops) + Len(steals) <= MaxPushes
<1>1. pops \in Seq(Items) /\ steals \in Seq(Items) /\ Len(pops) \in Nat /\ Len(steals) \in Nat
  BY DEF QueueIInv, TakenFit
<1>2. IndicesFit /\ ArraysFit
  BY DEF QueueIInv
<1>3. top \in Nat /\ bottom \in Nat /\ 1 <= top /\ top <= End
  BY <1>2 DEF IndicesFit
<1>4. End \in Nat
  BY <1>3 DEF End
<1>5. Size(Newest) \in Nat \ {0}
  BY <1>2, NewestIs
<1>6. Waiting = End - top
  BY DEF Waiting
<1>7. /\ top - 1 <= Len(pops) + Len(steals) /\ Waiting <= Size(Newest)
      /\ Waiting + Len(pops) + Len(steals) <= MaxPushes
  BY <1>2 DEF IndicesFit
<1>8. Waiting \in Nat /\ End <= MaxPushes + 1
  BY <1>1, <1>3, <1>4, <1>6, <1>7, QueueConstants
<1> QED BY <1>1, <1>3, <1>4, <1>5, <1>6, <1>7, <1>8

\* The contents are a sequence of as many items as wait, and the invariant says
\* the number of the next item.
LEMMA ContentsIs ==
  ASSUME QueueIInv
  PROVE  /\ Contents \in Seq(Items) /\ Len(Contents) = Waiting
         /\ \A k \in 1 .. Waiting : Contents[k] = Item(Newest, top + k - 1)
         /\ NextItem = Waiting + Len(pops) + Len(steals) + 1
<1>1. Waiting \in Nat /\ top \in Nat /\ Waiting = End - top /\ 1 <= top /\ Newest \in Arrays
  BY Indices, NewestIs DEF QueueIInv
<1>2. \A k \in 1 .. Waiting : top + k - 1 \in Nat
  BY <1>1
<1>3. \A k \in 1 .. Waiting : Item(Newest, top + k - 1) \in Items
  BY <1>1, <1>2, ItemIn
<1>4. Contents = [k \in 1 .. Waiting |-> Item(Newest, top + k - 1)]
  BY <1>1 DEF Contents
<1>5. Contents \in Seq(Items) /\ Len(Contents) = Waiting
  BY <1>1, <1>3, <1>4
<1> QED BY <1>4, <1>5 DEF NextItem

\* What a thief knows stays true while m_top stays where it is and the item
\* there stays in the arrays, and it is void when m_top goes on.
LEMMA ThievesKeep ==
  ASSUME QueueIInv, \A p \in Thieves : op'[p] = op[p],
         DOMAIN arrays \subseteq DOMAIN arrays', top' \in Nat,
         \/ /\ top' = top
            /\ top < End => /\ top < End'
                            /\ \A k \in DOMAIN arrays : Item(arrays'[k], top) = Item(arrays[k], top)
                            /\ Item(Newest', top) = Item(Newest, top)
         \/ top' > top
  PROVE  ThievesKnow'
<1> SUFFICES ASSUME NEW p \in Thieves PROVE ThiefKnows(op[p])'
  BY DEF ThievesKnow
<1>1. ThiefKnows(op[p]) /\ op'[p] = op[p] /\ op[p] \in ThiefCalls
  BY DEF QueueIInv, ThievesKnow, QueueCallsFit
<1>2. top \in Nat
  BY Indices
<1>3. op[p].at # "idle" => op[p].t \in Nat
  BY <1>1 DEF ThiefCalls, Idle
<1>4. op[p].at = "idle" \/ (op[p].t \in Nat /\ 1 <= op[p].t /\ op[p].t <= top)
  BY <1>1, <1>3 DEF ThiefKnows
<1>5. CASE op[p].at = "idle"
  BY <1>1, <1>5 DEF ThiefKnows
<1>6. CASE op[p].at # "idle" /\ top' > top
  <2>1. op[p].t \in Nat /\ 1 <= op[p].t /\ op[p].t <= top' /\ op[p].t # top'
    BY <1>2, <1>4, <1>6
  <2>2. op[p].at = "get" => op[p].array \in DOMAIN arrays'
    BY <1>1 DEF ThiefKnows
  <2> QED BY <1>1, <2>1, <2>2 DEF ThiefKnows
<1>7. CASE op[p].at # "idle" /\ ~(top' > top)
  <2>1. top' = top /\ (top < End => /\ top < End'
                            /\ \A k \in DOMAIN arrays : Item(arrays'[k], top) = Item(arrays[k], top)
                            /\ Item(Newest', top) = Item(Newest, top))
    BY <1>7
  <2>2. op[p].at = "get" => op[p].array \in DOMAIN arrays /\ op[p].array \in DOMAIN arrays'
    BY <1>1 DEF ThiefKnows
  <2>3. op[p].at \in {"array", "get", "take"} /\ op[p].t = top => top < End /\ top < End'
    BY <1>1, <2>1 DEF ThiefKnows
  <2>4. op[p].at = "get" /\ op[p].t = top =>
          Item(arrays'[op[p].array], top) = Item(Newest', top)
    BY <1>1, <2>1, <2>2, <2>3 DEF ThiefKnows
  <2>5. op[p].at = "take" /\ op[p].t = top => op[p].item = Item(Newest', top)
    BY <1>1, <2>1, <2>3 DEF ThiefKnows
  <2>6. 1 <= op[p].t /\ op[p].t <= top'
    BY <1>4, <1>7, <2>1
  <2> HIDE DEF Item, End
  <2> QED BY <1>1, <1>7, <2>1, <2>2, <2>3, <2>4, <2>5, <2>6 DEF ThiefKnows
<1> QED BY <1>5, <1>6, <1>7

\* A thief that only looks changes nothing but what it knows.
LEMMA ThiefLooks ==
  ASSUME QueueIInv, NEW p \in Thieves, NEW c \in ThiefCalls, Continues(p, c), ThiefKnows(c),
         UNCHANGED <<top, bottom, arrays, pops, steals>>
  PROVE  QueueIInv' /\ Contents' = Contents
<1>1. /\ op'[p] = c /\ op'[QueueOwner] = op[QueueOwner]
      /\ \A q \in Thieves : q # p => op'[q] = op[q]
      /\ op' = [q \in Thieves \union {QueueOwner} |-> op'[q]]
  BY OneMoves, QueueConstants DEF QueueIInv
<1>2. QueueCallsFit'
  BY <1>1 DEF QueueIInv, QueueCallsFit
<1>3. End' = End /\ Newest' = Newest /\ Contents' = Contents /\ Waiting' = Waiting
  BY <1>1 DEF End, Newest, Contents, Waiting
<1>4. ArraysFit' /\ TakenFit' /\ IndicesFit' /\ OwnerKnows'
  BY <1>1, <1>3 DEF QueueIInv, ArraysFit, TakenFit, IndicesFit, OwnerKnows
<1>5. ASSUME NEW q \in Thieves PROVE ThiefKnows(op[q])'
  <2>1. ThiefKnows(op'[q])
    BY <1>1 DEF QueueIInv, ThievesKnow
  <2> QED BY <2>1, <1>3 DEF ThiefKnows
<1>6. ThievesKnow'
  BY <1>5 DEF ThievesKnow
<1> QED BY <1>2, <1>3, <1>4, <1>6 DEF QueueIInv

-----------------------------------------------------------------------------
\* The same after a step.
ContentsFit ==
  /\ Contents \in Seq(Items) /\ Len(Contents) = Waiting
  /\ \A k \in 1 .. Waiting : Contents[k] = Item(Newest, top + k - 1)

LEMMA ContentsAfter == QueueIInv' => ContentsFit'
<1>1. QueueIInv => ContentsFit
  BY ContentsIs DEF ContentsFit
<1> QED BY <1>1, PTL

\* Two sequences of one length and with the same elements, and one without its
\* first, its last, or with one more.
LEMMA SameElements ==
  ASSUME NEW S, NEW s \in Seq(S), NEW r \in Seq(S), Len(r) = Len(s),
         \A k \in 1 .. Len(s) : r[k] = s[k]
  PROVE  r = s
OBVIOUS

LEMMA TailElements ==
  ASSUME NEW S, NEW s \in Seq(S), NEW r \in Seq(S), Len(s) = Len(r) + 1,
         \A k \in 1 .. Len(r) : r[k] = s[k + 1]
  PROVE  s # << >> /\ r = Tail(s)
<1>1. s # << >> /\ Tail(s) \in Seq(S) /\ Len(Tail(s)) = Len(r)
  OBVIOUS
<1>2. \A k \in 1 .. Len(r) : Tail(s)[k] = s[k + 1]
  OBVIOUS
<1> QED BY <1>1, <1>2, SameElements

LEMMA FrontElements ==
  ASSUME NEW S, NEW s \in Seq(S), NEW r \in Seq(S), Len(s) = Len(r) + 1,
         \A k \in 1 .. Len(r) : r[k] = s[k]
  PROVE  s # << >> /\ r = Front(s) /\ Last(s) = s[Len(s)]
<1>1. Front(s) \in Seq(S) /\ Len(Front(s)) = Len(r)
  BY DEF Front
<1>2. \A k \in 1 .. Len(r) : Front(s)[k] = s[k]
  BY DEF Front
<1>3. s # << >>
  OBVIOUS
<1> QED BY <1>1, <1>2, <1>3, SameElements DEF Last

LEMMA MoreElements ==
  ASSUME NEW S, NEW s \in Seq(S), NEW r \in Seq(S), Len(r) = Len(s) + 1,
         \A k \in 1 .. Len(s) : r[k] = s[k]
  PROVE  r = Append(s, r[Len(r)])
<1>1. r[Len(r)] \in S
  OBVIOUS
<1>2. Append(s, r[Len(r)]) \in Seq(S) /\ Len(Append(s, r[Len(r)])) = Len(r)
  BY <1>1
<1>3. \A k \in 1 .. Len(r) : Append(s, r[Len(r)])[k] = r[k]
  BY <1>1
<1> QED BY <1>2, <1>3, SameElements

-----------------------------------------------------------------------------
\* A step of the thread leaves the queue as it was, or does what Deque does.
Refines == UNCHANGED <<Contents, pops, steals>> \/ Abstract!Next

\* The calls of a thief, field by field.
LEMMA ThiefFields ==
  ASSUME QueueIInv, NEW p \in Thieves
  PROVE  /\ op[p].at \in {"idle", "steal", "array", "get", "take"}
         /\ op[p].at # "idle" => op[p].t \in Nat /\ 1 <= op[p].t /\ op[p].t <= top
         /\ op[p].at \in {"steal", "array"} => op[p] = [at |-> op[p].at, t |-> op[p].t]
         /\ op[p].at = "get" => op[p].array \in DOMAIN arrays
         /\ op[p].at = "take" => op[p].item \in Items
<1>1. op[p] \in ThiefCalls /\ ThiefKnows(op[p])
  BY DEF QueueIInv, QueueCallsFit, ThievesKnow
<1> QED BY <1>1 DEF ThiefCalls, Idle, ThiefKnows

LEMMA BeginStealOK ==
  ASSUME QueueIInv, NEW p \in Thieves, BeginSteal(p)
  PROVE  QueueIInv' /\ Refines
<1> DEFINE c == [at |-> "steal", t |-> top]
<1>1. top \in Nat /\ 1 <= top
  BY Indices
<1>2. c \in ThiefCalls /\ ThiefKnows(c)
  BY <1>1 DEF ThiefCalls, ThiefKnows
<1>3. Continues(p, c) /\ UNCHANGED <<top, bottom, arrays, pops, steals>>
  BY DEF BeginSteal, NoneTaken
<1> HIDE DEF c
<1> QED BY <1>2, <1>3, ThiefLooks DEF Refines

LEMMA LoadBottomOK ==
  ASSUME QueueIInv, NEW p \in Thieves, LoadBottom(p)
  PROVE  QueueIInv' /\ Refines
<1>1. /\ op[p].at = "steal" /\ op[p] = [at |-> "steal", t |-> op[p].t] /\ op[p].t \in Nat
      /\ 1 <= op[p].t /\ op[p].t <= top /\ top \in Nat /\ bottom \in Nat
  BY ThiefFields, Indices DEF LoadBottom
<1>2. UNCHANGED <<top, bottom, arrays, pops, steals>>
  BY DEF LoadBottom, NoneTaken
<1>3. CASE op[p].t < bottom
  <2> DEFINE c == [at |-> "array", t |-> op[p].t]
  <2>1. Continues(p, c)
    <3>1. [op[p] EXCEPT !.at = "array"] = c
      BY <1>1
    <3> QED BY <3>1, <1>3 DEF LoadBottom
  <2>2. c \in ThiefCalls
    BY <1>1 DEF ThiefCalls
  <2>3. c.t = top => top < End
    BY <1>1, <1>3 DEF End
  <2>4. ThiefKnows(c)
    BY <1>1, <2>3 DEF ThiefKnows
  <2> HIDE DEF c
  <2> QED BY <1>2, <2>1, <2>2, <2>4, ThiefLooks DEF Refines
<1>4. CASE ~(op[p].t < bottom)
  <2>1. Continues(p, Idle)
    BY <1>4 DEF LoadBottom, Returns
  <2>2. Idle \in ThiefCalls /\ ThiefKnows(Idle)
    BY DEF ThiefCalls, ThiefKnows, Idle
  <2> QED BY <1>2, <2>1, <2>2, ThiefLooks DEF Refines
<1> QED BY <1>3, <1>4

LEMMA LoadArrayOK ==
  ASSUME QueueIInv, NEW p \in Thieves, LoadArray(p)
  PROVE  QueueIInv' /\ Refines
<1> DEFINE c == [at |-> "get", t |-> op[p].t, array |-> Len(arrays)]
<1>1. op[p].at = "array" /\ op[p].t \in Nat /\ 1 <= op[p].t /\ op[p].t <= top
  BY ThiefFields DEF LoadArray
<1>2. ThiefKnows(op[p])
  BY DEF QueueIInv, ThievesKnow
<1>3. Len(arrays) \in Nat /\ Len(arrays) \in DOMAIN arrays
  BY NewestIs DEF QueueIInv
<1>4. c \in ThiefCalls
  BY <1>1, <1>3 DEF ThiefCalls
<1>5. ThiefKnows(c)
  BY <1>1, <1>2, <1>3 DEF ThiefKnows, Newest
<1>6. Continues(p, c) /\ UNCHANGED <<top, bottom, arrays, pops, steals>>
  BY DEF LoadArray, NoneTaken
<1> HIDE DEF c
<1> QED BY <1>4, <1>5, <1>6, ThiefLooks DEF Refines

LEMMA GetItemOK ==
  ASSUME QueueIInv, NEW p \in Thieves, GetItem(p)
  PROVE  QueueIInv' /\ Refines
<1> DEFINE x == Item(arrays[op[p].array], op[p].t)
           c == [at |-> "take", t |-> op[p].t, item |-> x]
<1>1. /\ op[p].at = "get" /\ op[p].t \in Nat /\ 1 <= op[p].t /\ op[p].t <= top
      /\ op[p].array \in DOMAIN arrays
  BY ThiefFields DEF GetItem
<1>2. ThiefKnows(op[p])
  BY DEF QueueIInv, ThievesKnow
<1>3. x \in Items
  BY <1>1, NewestIs, ItemIn DEF QueueIInv
<1>4. op[p].t = top => top < End /\ x = Item(Newest, top)
  BY <1>1, <1>2 DEF ThiefKnows
<1>5. Continues(p, c) /\ UNCHANGED <<top, bottom, arrays, pops, steals>>
  BY DEF GetItem, NoneTaken
<1> HIDE DEF x
<1>6. c \in ThiefCalls
  BY <1>1, <1>3 DEF ThiefCalls
<1>7. ThiefKnows(c)
  BY <1>1, <1>4 DEF ThiefKnows
<1> HIDE DEF c
<1> QED BY <1>5, <1>6, <1>7, ThiefLooks DEF Refines

\* A thief whose compare-and-exchange succeeds takes the oldest item, and one
\* whose fails nothing.
LEMMA TakeItemOK ==
  ASSUME QueueIInv, NEW p \in Thieves, TakeItem(p)
  PROVE  QueueIInv' /\ Refines
<1>1. /\ op[p].at = "take" /\ op[p].t \in Nat /\ 1 <= op[p].t /\ op[p].t <= top
      /\ op[p].item \in Items
  BY ThiefFields DEF TakeItem
<1>2. Continues(p, Idle) /\ UNCHANGED <<bottom, arrays, pops>>
  BY DEF TakeItem, Returns
<1>3. Idle \in ThiefCalls /\ Idle.at = "idle"
  BY DEF ThiefCalls, Idle
<1>4. CASE op[p].t # top
  <2>1. UNCHANGED <<top, steals>>
    BY <1>4 DEF TakeItem, Wins
  <2>2. ThiefKnows(Idle)
    BY <1>3 DEF ThiefKnows
  <2> QED BY <1>2, <1>3, <2>1, <2>2, ThiefLooks DEF Refines
<1>5. CASE op[p].t = top
  <2>1. top < End /\ op[p].item = Item(Newest, top)
    BY <1>1, <1>5 DEF QueueIInv, ThievesKnow, ThiefKnows
  <2>2. /\ top \in Nat /\ bottom \in Nat /\ End \in Nat /\ Waiting \in Nat /\ 1 <= top
        /\ End <= MaxPushes + 1 /\ Waiting = End - top
        /\ Len(pops) \in Nat /\ Len(steals) \in Nat /\ steals \in Seq(Items)
        /\ Waiting <= Size(Newest) /\ Size(Newest) \in Nat \ {0}
        /\ top - 1 <= Len(pops) + Len(steals) /\ Waiting + Len(pops) + Len(steals) <= MaxPushes
    BY Indices
  <2>3. top' = top + 1 /\ steals' = Append(steals, op[p].item)
    <3>1. top <= MaxPushes
      BY <2>1, <2>2, QueueConstants
    <3>2. Up(top) = top + 1
      BY <2>2, <3>1, NextIndex
    <3> QED BY <1>5, <3>2 DEF TakeItem, Wins
  <2>4. /\ op'[p] = Idle /\ op'[QueueOwner] = op[QueueOwner]
        /\ \A q \in Thieves : q # p => op'[q] = op[q]
        /\ op' = [q \in Thieves \union {QueueOwner} |-> op'[q]]
    BY <1>2, OneMoves, QueueConstants DEF QueueIInv
  <2>5. QueueCallsFit' /\ ArraysFit' /\ TakenFit'
    BY <1>1, <1>2, <1>3, <2>3, <2>4, SMTT(30) DEF QueueIInv, QueueCallsFit, ArraysFit, TakenFit
  <2>6. End' = End /\ Newest' = Newest
    BY <1>2, <2>4 DEF End, Newest
  <2>7. /\ Waiting' = Waiting - 1 /\ Len(pops') = Len(pops) /\ Len(steals') = Len(steals) + 1
        /\ Waiting' + Len(pops') + Len(steals') = Waiting + Len(pops) + Len(steals)
    <3>1. Waiting' = End' - top'
      BY DEF Waiting
    <3>2. Len(steals') = Len(steals) + 1
      BY <1>1, <2>2, <2>3
    <3> QED BY <1>2, <2>2, <2>3, <2>6, <3>1, <3>2
  <2>8. IndicesFit'
    <3>1. top' \in Nat /\ bottom' \in Nat /\ 1 <= top' /\ top' <= End' /\ Waiting' <= Size(Newest')
      BY <1>2, <2>1, <2>2, <2>3, <2>6, <2>7
    <3>2. /\ top' - 1 <= Len(pops') + Len(steals')
          /\ Waiting' + Len(pops') + Len(steals') <= MaxPushes
      BY <1>2, <2>2, <2>3, <2>7
    <3> QED BY <3>1, <3>2 DEF IndicesFit
  <2>9. OwnerKnows'
    <3> DEFINE doing == op[QueueOwner]
    <3>1. doing \in OwnerCalls /\ OwnerKnows
      BY DEF QueueIInv, QueueCallsFit
    <3>2. doing.at \in {"push", "put", "publish"} => doing.item \in Nat /\ doing.t \in Nat
      BY <3>1, QueueConstants DEF OwnerCalls, Idle, Items
    <3>3. doing.at # "restore"
      <4> SUFFICES ASSUME doing.at = "restore" PROVE FALSE
        OBVIOUS
      <4>1. top = bottom + 1 /\ End = bottom + 1
        BY <3>1 DEF OwnerKnows, End
      <4> QED BY <4>1, <2>1, <2>2
    <3>4. doing.at \in {"push", "put", "publish"} =>
             doing.item = Waiting' + Len(pops') + Len(steals') + 1 /\ doing.item <= MaxPushes
      BY <3>1, <2>7 DEF OwnerKnows
    <3>5. doing.at = "push" =>
             1 <= doing.t /\ doing.t <= top' /\ bottom' - doing.t <= Size(Newest')
      BY <3>1, <3>2, <1>2, <2>2, <2>3, <2>6, SMTT(30) DEF OwnerKnows
    <3>6. doing.at \in {"put", "publish"} => Waiting' < Size(Newest')
      BY <3>1, <2>2, <2>6, <2>7 DEF OwnerKnows
    <3>7. doing.at = "publish" => Item(Newest', bottom') = doing.item
      BY <3>1, <1>2, <2>6 DEF OwnerKnows
    <3>8. doing.at = "last" => doing.t = bottom' /\ bottom' <= top'
      BY <3>1, <1>2, <2>2, <2>3 DEF OwnerKnows
    <3> HIDE DEF doing
    <3>9. op'[QueueOwner] = doing
      BY <2>4 DEF doing
    <3> QED BY <3>3, <3>4, <3>5, <3>6, <3>7, <3>8, <3>9 DEF OwnerKnows
  <2>10. ThievesKnow'
    <3> SUFFICES ASSUME NEW q \in Thieves PROVE ThiefKnows(op[q])'
      BY DEF ThievesKnow
    <3>1. CASE q = p
      BY <3>1, <1>3, <2>4 DEF ThiefKnows
    <3>2. CASE q # p
      <4>1. op'[q] = op[q] /\ ThiefKnows(op[q])
        BY <3>2, <2>4 DEF QueueIInv, ThievesKnow
      <4>2. op[q].at # "idle" => op[q].t \in Nat /\ 1 <= op[q].t /\ op[q].t <= top
        BY ThiefFields
      <4>3. op[q].at # "idle" => 1 <= op[q].t /\ op[q].t <= top' /\ op[q].t # top'
        <5> SUFFICES ASSUME op[q].at # "idle"
                     PROVE  1 <= op[q].t /\ op[q].t <= top' /\ op[q].t # top'
          OBVIOUS
        <5>1. PICK m \in Nat, n \in Nat : m = op[q].t /\ n = top
          BY <4>2, <2>2
        <5>2. 1 <= m /\ m <= n /\ top' = n + 1
          BY <4>2, <2>3, <5>1
        <5>3. m <= n + 1 /\ m # n + 1
          BY <5>2
        <5> QED BY <5>1, <5>2, <5>3
      <4>4. op[q].at = "get" => op[q].array \in DOMAIN arrays'
        BY <4>1, <1>2 DEF ThiefKnows
      <4> QED BY <4>1, <4>3, <4>4 DEF ThiefKnows
    <3> QED BY <3>1, <3>2
  <2>11. QueueIInv'
    BY <2>5, <2>8, <2>9, <2>10 DEF QueueIInv
  <2>12. Abstract!Steal
    <3>1. ContentsFit /\ ContentsFit'
      BY <2>11, ContentsIs, ContentsAfter DEF ContentsFit
    <3>2. Len(Contents) = Len(Contents') + 1
      BY <3>1, <2>2, <2>7 DEF ContentsFit
    <3>3. \A k \in 1 .. Len(Contents') : Contents'[k] = Contents[k + 1]
      <4> SUFFICES ASSUME NEW k \in 1 .. Waiting' PROVE Contents'[k] = Contents[k + 1]
        BY <3>1 DEF ContentsFit
      <4>1. k + 1 \in 1 .. Waiting /\ top' + k - 1 = top + (k + 1) - 1
        BY <2>2, <2>3, <2>7
      <4> QED BY <3>1, <4>1, <2>6 DEF ContentsFit
    <3>4. Contents # << >> /\ Contents' = Tail(Contents)
      <4>1. PICK s \in Seq(Items), r \in Seq(Items) : s = Contents /\ r = Contents'
        BY <3>1 DEF ContentsFit
      <4>2. Len(s) = Len(r) + 1 /\ \A k \in 1 .. Len(r) : r[k] = s[k + 1]
        BY <3>2, <3>3, <4>1
      <4>3. s # << >> /\ r = Tail(s)
        BY <4>2, TailElements
      <4> QED BY <4>1, <4>3
    <3>5. Head(Contents) = op[p].item
      <4>1. 1 \in 1 .. Waiting /\ top + 1 - 1 = top
        BY <2>1, <2>2
      <4>2. Contents[1] = Item(Newest, top)
        BY <3>1, <4>1 DEF ContentsFit
      <4>3. Contents \in Seq(Items)
        BY <3>1 DEF ContentsFit
      <4> QED BY <2>1, <4>2, <4>3
    <3> QED BY <3>4, <3>5, <1>2, <2>3 DEF Abstract!Steal
  <2> QED BY <2>11, <2>12 DEF Refines, Abstract!Next
<1> QED BY <1>4, <1>5

-----------------------------------------------------------------------------
\* The calls of the owner, field by field.
LEMMA OwnerFields ==
  ASSUME QueueIInv
  PROVE  LET doing == op[QueueOwner]
         IN  /\ doing.at \in {"idle", "push", "put", "publish", "pop", "last", "restore"}
             /\ doing.at \in {"push", "put", "publish"} =>
                  /\ doing = [at |-> doing.at, item |-> doing.item, t |-> doing.t]
                  /\ doing.item \in Items /\ doing.t \in Nat
                  /\ doing.item = Waiting + Len(pops) + Len(steals) + 1 /\ doing.item <= MaxPushes
             /\ doing.at \in {"idle", "push", "put", "publish"} => End = bottom
             /\ doing.at \in {"pop", "last", "restore"} => End = bottom + 1
             /\ doing.at = "push" => 1 <= doing.t /\ doing.t <= top /\ bottom - doing.t <= Size(Newest)
             /\ doing.at \in {"put", "publish"} => Waiting < Size(Newest)
             /\ doing.at = "publish" => Item(Newest, bottom) = doing.item
             /\ doing.at = "last" => doing.t = bottom /\ bottom <= top
             /\ doing.at = "restore" => top = bottom + 1
<1>1. op[QueueOwner] \in OwnerCalls /\ OwnerKnows
  BY DEF QueueIInv, QueueCallsFit
<1>2. LET doing == op[QueueOwner]
      IN  /\ doing.at \in {"idle", "push", "put", "publish", "pop", "last", "restore"}
          /\ doing.at \in {"push", "put", "publish"} =>
               /\ doing = [at |-> doing.at, item |-> doing.item, t |-> doing.t]
               /\ doing.item \in Items /\ doing.t \in Nat
  BY <1>1 DEF OwnerCalls, Idle
<1>3. LET doing == op[QueueOwner]
      IN  /\ doing.at \in {"idle", "push", "put", "publish"} => End = bottom
          /\ doing.at \in {"pop", "last", "restore"} => End = bottom + 1
  BY <1>2 DEF End
<1> QED BY <1>1, <1>2, <1>3 DEF OwnerKnows

\* A step of the owner: what is left to show when the thieves keep what they
\* know.
LEMMA OwnerMoves ==
  ASSUME QueueIInv, NEW c \in OwnerCalls, Continues(QueueOwner, c)
  PROVE  /\ op'[QueueOwner] = c /\ \A p \in Thieves : op'[p] = op[p]
         /\ QueueCallsFit'
<1>1. /\ op'[QueueOwner] = c /\ \A p \in Thieves : op'[p] = op[p]
      /\ op' = [q \in Thieves \union {QueueOwner} |-> op'[q]]
  BY OneMoves, QueueConstants DEF QueueIInv
<1> QED BY <1>1 DEF QueueIInv, QueueCallsFit

\* A step of the owner that changes neither items nor indices.
LEMMA OwnerLooks ==
  ASSUME QueueIInv, NEW c \in OwnerCalls, Continues(QueueOwner, c), End' = End,
         OwnerKnows', bottom' \in Nat, UNCHANGED <<top, arrays, pops, steals>>
  PROVE  QueueIInv' /\ Refines
<1>1. /\ op'[QueueOwner] = c /\ \A p \in Thieves : op'[p] = op[p]
      /\ QueueCallsFit'
  BY OwnerMoves
<1>2. Newest' = Newest /\ Waiting' = Waiting /\ Contents' = Contents
  BY DEF Newest, Waiting, Contents
<1>3. ArraysFit' /\ TakenFit' /\ IndicesFit'
  BY <1>2 DEF QueueIInv, ArraysFit, TakenFit, IndicesFit
<1>4. ASSUME NEW q \in Thieves PROVE ThiefKnows(op[q])'
  <2>1. ThiefKnows(op'[q])
    BY <1>1 DEF QueueIInv, ThievesKnow
  <2> QED BY <2>1, <1>2 DEF ThiefKnows
<1>5. ThievesKnow'
  BY <1>4 DEF ThievesKnow
<1> QED BY <1>1, <1>2, <1>3, <1>5 DEF QueueIInv, Refines

LEMMA BeginPushOK ==
  ASSUME QueueIInv, NextItem <= MaxPushes, BeginPush(NextItem)
  PROVE  QueueIInv' /\ Refines
<1> DEFINE c == [at |-> "push", item |-> NextItem, t |-> top]
<1>1. /\ top \in Nat /\ bottom \in Nat /\ Waiting \in Nat /\ 1 <= top /\ Waiting = End - top
      /\ Len(pops) \in Nat /\ Len(steals) \in Nat /\ Waiting <= Size(Newest)
  BY Indices
<1>2. NextItem = Waiting + Len(pops) + Len(steals) + 1
  BY ContentsIs
<1>3. NextItem \in Items
  BY <1>1, <1>2, QueueConstants DEF Items
<1>4. c \in OwnerCalls
  BY <1>1, <1>3 DEF OwnerCalls
<1>5. Continues(QueueOwner, c) /\ UNCHANGED <<top, bottom, arrays, pops, steals>>
      /\ op[QueueOwner] = Idle
  BY DEF BeginPush, NoneTaken
<1>6. op'[QueueOwner] = c /\ \A p \in Thieves : op'[p] = op[p]
  BY <1>4, <1>5, OwnerMoves
<1>7. End = bottom /\ End' = bottom
  BY <1>5, <1>6 DEF End, Idle
<1>8. Newest' = Newest /\ Waiting' = Waiting
  BY <1>5, <1>7 DEF Newest, Waiting
<1>9. OwnerKnows'
  BY <1>1, <1>2, <1>5, <1>6, <1>7, <1>8 DEF OwnerKnows
<1>10. bottom' \in Nat /\ End' = End
  BY <1>1, <1>5, <1>7
<1> HIDE DEF c
<1> QED BY <1>4, <1>5, <1>9, <1>10, OwnerLooks

\* Grow copies what is in the queue, and perhaps what has been stolen since
\* Push read m_top.
LEMMA GrowOK ==
  ASSUME QueueIInv, Grow
  PROVE  QueueIInv' /\ Refines
<1> DEFINE doing == op[QueueOwner]
           c == [at |-> "put", item |-> doing.item, t |-> doing.t]
           G == Grown(Newest, doing.t, bottom)
<1>1. /\ top \in Nat /\ bottom \in Nat /\ End \in Nat /\ Waiting \in Nat /\ Waiting = End - top
      /\ 1 <= top /\ top <= End /\ End <= MaxPushes + 1
      /\ Waiting <= Size(Newest) /\ Size(Newest) \in Nat \ {0}
  BY Indices
<1>2. doing.at = "push"
  BY DEF Grow
<1>3. /\ doing = [at |-> doing.at, item |-> doing.item, t |-> doing.t]
      /\ doing.item \in Items /\ doing.t \in Nat /\ End = bottom
      /\ doing.item = Waiting + Len(pops) + Len(steals) + 1 /\ doing.item <= MaxPushes
      /\ 1 <= doing.t /\ doing.t <= top /\ bottom - doing.t <= Size(Newest)
  BY <1>2, OwnerFields
<1>4. /\ Len(arrays) \in Nat \ {0} /\ DOMAIN arrays = 1 .. Len(arrays) /\ Newest \in Arrays
      /\ arrays \in Seq(Arrays)
  BY NewestIs DEF QueueIInv, ArraysFit
<1>5. [doing EXCEPT !.at = "put"] = c
  BY <1>3
<1>6. /\ arrays' = Append(arrays, G) /\ Continues(QueueOwner, c)
      /\ UNCHANGED <<top, bottom, pops, steals>>
  BY <1>5 DEF Grow, NoneTaken
<1>7. /\ G \in Arrays /\ Size(G) = 2 * Size(Newest)
      /\ \A j \in doing.t .. bottom - 1 : Item(G, j) = Item(Newest, j)
  <2>1. PICK a \in Arrays, t \in Nat, b \in Nat : a = Newest /\ t = doing.t /\ b = bottom
    BY <1>1, <1>3, <1>4
  <2>2. t <= b /\ b - t <= Size(a) /\ b < IndexRange
    <3>1. PICK n \in Nat : n = top
      BY <1>1
    <3>2. t <= n /\ n <= b /\ b <= MaxPushes + 1
      BY <1>1, <1>3, <2>1, <3>1
    <3> QED BY <1>3, <2>1, <3>2, QueueConstants
  <2>3. /\ Grown(a, t, b) \in Arrays /\ Size(Grown(a, t, b)) = 2 * Size(a)
        /\ \A j \in t .. b - 1 : Item(Grown(a, t, b), j) = Item(a, j)
    BY <2>2, GrownIs
  <2> QED BY <2>1, <2>3
<1> HIDE DEF G
<1>8. /\ arrays' \in Seq(Arrays) /\ Len(arrays') = Len(arrays) + 1 /\ arrays'[Len(arrays) + 1] = G
      /\ \A k \in 1 .. Len(arrays) : arrays'[k] = arrays[k]
      /\ DOMAIN arrays' = 1 .. Len(arrays) + 1
  BY <1>4, <1>6, <1>7
<1>9. Newest' = G /\ arrays[Len(arrays)] = Newest
  BY <1>8 DEF Newest
<1>10. ArraysFit'
  <2>1. Size(arrays'[1]) = StartingSize
    BY <1>4, <1>8 DEF QueueIInv, ArraysFit
  <2>2. ASSUME NEW k \in 2 .. Len(arrays) + 1 PROVE Size(arrays'[k]) = 2 * Size(arrays'[k - 1])
    <3>1. CASE k = Len(arrays) + 1
      <4>1. arrays'[k] = G /\ arrays'[k - 1] = Newest
        BY <3>1, <1>4, <1>8, <1>9
      <4> QED BY <4>1, <1>7
    <3>2. CASE k # Len(arrays) + 1
      <4>1. k \in 2 .. Len(arrays) /\ k \in 1 .. Len(arrays) /\ k - 1 \in 1 .. Len(arrays)
        BY <3>2, <1>4
      <4> QED BY <4>1, <1>8 DEF QueueIInv, ArraysFit
    <3> QED BY <3>1, <3>2
  <2> QED BY <1>4, <1>8, <2>1, <2>2 DEF ArraysFit
<1>11. c \in OwnerCalls
  BY <1>3 DEF OwnerCalls
<1>12. op'[QueueOwner] = c /\ (\A p \in Thieves : op'[p] = op[p]) /\ QueueCallsFit'
  BY <1>6, <1>11, OwnerMoves
<1>13. End' = End /\ Waiting' = Waiting
  <2>1. End' = bottom
    BY <1>6, <1>12 DEF End
  <2> QED BY <2>1, <1>3, <1>6 DEF Waiting
<1>14. TakenFit' /\ IndicesFit'
  <2>1. Waiting' <= Size(Newest') /\ Waiting' < Size(Newest')
    BY <1>1, <1>7, <1>9, <1>13
  <2> QED BY <2>1, <1>6, <1>13 DEF QueueIInv, TakenFit, IndicesFit
<1>15. OwnerKnows'
  <2>1. Waiting' < Size(Newest')
    BY <1>1, <1>7, <1>9, <1>13
  <2>2. c.item = Waiting' + Len(pops') + Len(steals') + 1 /\ c.item <= MaxPushes
    BY <1>3, <1>6, <1>13
  <2>3. c.at = "put"
    OBVIOUS
  <2> HIDE DEF c
  <2> QED BY <1>12, <2>1, <2>2, <2>3 DEF OwnerKnows
<1>16. \A j \in top .. bottom - 1 : Item(G, j) = Item(Newest, j)
  <2> SUFFICES ASSUME NEW j \in top .. bottom - 1 PROVE j \in doing.t .. bottom - 1
    BY <1>7
  <2> QED BY <1>1, <1>3
<1>17. ThievesKnow'
  <2>1. DOMAIN arrays \subseteq DOMAIN arrays'
    BY <1>4, <1>8
  <2>2. top < End => /\ \A k \in DOMAIN arrays : Item(arrays'[k], top) = Item(arrays[k], top)
                     /\ Item(Newest', top) = Item(Newest, top)
    BY <1>1, <1>3, <1>4, <1>8, <1>9, <1>16
  <2> QED BY <2>1, <2>2, <1>1, <1>6, <1>12, <1>13, ThievesKeep
<1>18. QueueIInv'
  BY <1>10, <1>12, <1>14, <1>15, <1>17 DEF QueueIInv
<1>19. Contents' = Contents
  <2>1. \A k \in 1 .. Waiting : top + k - 1 \in top .. bottom - 1
    BY <1>1, <1>3
  <2>2. ContentsFit /\ ContentsFit'
    BY <1>18, ContentsIs, ContentsAfter DEF ContentsFit
  <2>3. \A k \in 1 .. Waiting : Contents'[k] = Contents[k]
    BY <2>1, <2>2, <1>6, <1>9, <1>13, <1>16 DEF ContentsFit
  <2>4. PICK s \in Seq(Items), r \in Seq(Items) : s = Contents /\ r = Contents'
    BY <2>2 DEF ContentsFit
  <2>5. Len(r) = Len(s) /\ \A k \in 1 .. Len(s) : r[k] = s[k]
    BY <2>2, <2>3, <2>4, <1>13 DEF ContentsFit
  <2>6. r = s
    BY <2>5, SameElements
  <2> QED BY <2>4, <2>6
<1> QED BY <1>6, <1>18, <1>19 DEF Refines

\* Put writes behind the last item, where nobody looks.
LEMMA PutOK ==
  ASSUME QueueIInv, Put
  PROVE  QueueIInv' /\ Refines
<1> DEFINE doing == op[QueueOwner]
           c == [at |-> "publish", item |-> doing.item, t |-> doing.t]
           W == WithItem(Newest, bottom, doing.item)
<1>1. /\ top \in Nat /\ bottom \in Nat /\ End \in Nat /\ Waiting \in Nat /\ Waiting = End - top
      /\ 1 <= top /\ top <= End /\ Waiting <= Size(Newest) /\ Size(Newest) \in Nat \ {0}
      /\ End <= MaxPushes + 1
  BY Indices
<1>2. doing.at = "put" \/ (doing.at = "push" /\ ~Full(doing.t))
  BY DEF Put
<1>3. /\ doing = [at |-> doing.at, item |-> doing.item, t |-> doing.t]
      /\ doing.item \in Items /\ doing.t \in Nat /\ End = bottom
      /\ doing.item = Waiting + Len(pops) + Len(steals) + 1 /\ doing.item <= MaxPushes
  BY <1>2, OwnerFields
<1>4. Waiting < Size(Newest)
  <2>1. CASE doing.at = "put"
    BY <2>1, OwnerFields
  <2>2. CASE doing.at = "push"
    <3>1. 1 <= doing.t /\ doing.t <= top /\ bottom - doing.t <= Size(Newest)
      BY <2>2, OwnerFields
    <3>2. PICK t \in Nat, n \in Nat : t = doing.t /\ n = top
      BY <1>1, <1>3
    <3>3. t <= n /\ n <= bottom /\ bottom <= MaxPushes + 1 /\ 1 <= t
      BY <3>1, <3>2, <1>1, <1>3
    <3>4. (bottom - t) % IndexRange = bottom - t
      <4>1. bottom - t \in 0 .. IndexRange - 1 /\ IndexRange \in Nat \ {0}
        BY <3>3, <1>1, QueueConstants
      <4> QED BY <4>1, InRange
    <3>5. ~((bottom - t) % IndexRange > Size(Newest) - 1)
      BY <2>2, <1>2, <3>2 DEF Full
    <3> QED BY <1>1, <1>3, <3>2, <3>3, <3>4, <3>5
  <2> QED BY <1>2, <2>1, <2>2
<1>5. /\ Len(arrays) \in Nat \ {0} /\ DOMAIN arrays = 1 .. Len(arrays) /\ Newest \in Arrays
      /\ arrays \in Seq(Arrays)
  BY NewestIs DEF QueueIInv, ArraysFit
<1>6. [doing EXCEPT !.at = "publish"] = c
  BY <1>3
<1>7. /\ arrays' = [arrays EXCEPT ![Len(arrays)] = W] /\ Continues(QueueOwner, c)
      /\ UNCHANGED <<top, bottom, pops, steals>>
  BY <1>6 DEF Put, NoneTaken, Newest
<1>8. /\ W \in Arrays /\ Size(W) = Size(Newest) /\ Item(W, bottom) = doing.item
      /\ \A j \in Nat : j < bottom /\ bottom - j < Size(Newest) => Item(W, j) = Item(Newest, j)
  <2>1. PICK a \in Arrays, x \in Items : a = Newest /\ x = doing.item
    BY <1>3, <1>5
  <2>2. /\ WithItem(a, bottom, x) \in Arrays /\ Size(WithItem(a, bottom, x)) = Size(a)
        /\ Item(WithItem(a, bottom, x), bottom) = x
        /\ \A j \in Nat : j < bottom /\ bottom - j < Size(a) => Item(WithItem(a, bottom, x), j) = Item(a, j)
    BY <1>1, WithItemIs
  <2> QED BY <2>1, <2>2
<1> HIDE DEF W
<1>9. /\ arrays' \in Seq(Arrays) /\ Len(arrays') = Len(arrays) /\ arrays'[Len(arrays)] = W
      /\ \A k \in 1 .. Len(arrays) : k # Len(arrays) => arrays'[k] = arrays[k]
      /\ DOMAIN arrays' = 1 .. Len(arrays)
  <2>1. Len(arrays) \in 1 .. Len(arrays)
    BY <1>5
  <2> QED BY <2>1, <1>5, <1>7, <1>8, ExceptSeq
<1>10. Newest' = W /\ arrays[Len(arrays)] = Newest
  BY <1>9 DEF Newest
<1>11. \A k \in 1 .. Len(arrays) : Size(arrays'[k]) = Size(arrays[k])
  BY <1>8, <1>9, <1>10
<1>12. ArraysFit'
  <2>1. Size(arrays'[1]) = StartingSize
    BY <1>5, <1>11 DEF QueueIInv, ArraysFit
  <2>2. ASSUME NEW k \in 2 .. Len(arrays) PROVE Size(arrays'[k]) = 2 * Size(arrays'[k - 1])
    <3>1. k \in 1 .. Len(arrays) /\ k - 1 \in 1 .. Len(arrays)
      BY <1>5
    <3> QED BY <3>1, <1>11 DEF QueueIInv, ArraysFit
  <2>3. arrays' # << >>
    BY <1>5, <1>9
  <2> QED BY <1>9, <2>1, <2>2, <2>3 DEF ArraysFit
<1>13. c \in OwnerCalls
  BY <1>3 DEF OwnerCalls
<1>14. op'[QueueOwner] = c /\ (\A p \in Thieves : op'[p] = op[p]) /\ QueueCallsFit'
  BY <1>7, <1>13, OwnerMoves
<1>15. End' = End /\ Waiting' = Waiting
  <2>1. End' = bottom
    BY <1>7, <1>14 DEF End
  <2> QED BY <2>1, <1>3, <1>7 DEF Waiting
<1>16. TakenFit' /\ IndicesFit'
  <2>1. Waiting' <= Size(Newest')
    BY <1>1, <1>8, <1>10, <1>15
  <2> QED BY <2>1, <1>7, <1>15 DEF QueueIInv, TakenFit, IndicesFit
<1>17. OwnerKnows'
  <2>1. Waiting' < Size(Newest')
    BY <1>4, <1>8, <1>10, <1>15
  <2>2. c.item = Waiting' + Len(pops') + Len(steals') + 1 /\ c.item <= MaxPushes
    BY <1>3, <1>7, <1>15
  <2>3. c.at = "publish" /\ Item(Newest', bottom') = c.item
    BY <1>7, <1>8, <1>10
  <2> HIDE DEF c
  <2> QED BY <1>14, <2>1, <2>2, <2>3 DEF OwnerKnows
<1>18. \A j \in top .. bottom - 1 : Item(W, j) = Item(Newest, j)
  <2> SUFFICES ASSUME NEW j \in top .. bottom - 1
               PROVE  j \in Nat /\ j < bottom /\ bottom - j < Size(Newest)
    BY <1>8
  <2> QED BY <1>1, <1>3, <1>4
<1>19. ThievesKnow'
  <2>1. DOMAIN arrays \subseteq DOMAIN arrays'
    BY <1>5, <1>9
  <2>2. top < End => top \in top .. bottom - 1
    BY <1>1, <1>3
  <2>3. top < End => /\ \A k \in DOMAIN arrays : Item(arrays'[k], top) = Item(arrays[k], top)
                     /\ Item(Newest', top) = Item(Newest, top)
    BY <2>2, <1>5, <1>9, <1>10, <1>18
  <2> QED BY <2>1, <2>3, <1>1, <1>7, <1>14, <1>15, ThievesKeep
<1>20. QueueIInv'
  BY <1>12, <1>14, <1>16, <1>17, <1>19 DEF QueueIInv
<1>21. Contents' = Contents
  <2>1. \A k \in 1 .. Waiting : top + k - 1 \in top .. bottom - 1
    BY <1>1, <1>3
  <2>2. ContentsFit /\ ContentsFit'
    BY <1>20, ContentsIs, ContentsAfter DEF ContentsFit
  <2>3. \A k \in 1 .. Waiting : Contents'[k] = Contents[k]
    BY <2>1, <2>2, <1>7, <1>10, <1>15, <1>18 DEF ContentsFit
  <2>4. PICK s \in Seq(Items), r \in Seq(Items) : s = Contents /\ r = Contents'
    BY <2>2 DEF ContentsFit
  <2>5. Len(r) = Len(s) /\ \A k \in 1 .. Len(s) : r[k] = s[k]
    BY <2>2, <2>3, <2>4, <1>15 DEF ContentsFit
  <2>6. r = s
    BY <2>5, SameElements
  <2> QED BY <2>4, <2>6
<1> QED BY <1>7, <1>20, <1>21 DEF Refines

\* Publish makes the item visible: it is the step at which it is in the queue.
LEMMA PublishOK ==
  ASSUME QueueIInv, Publish
  PROVE  QueueIInv' /\ Refines
<1> DEFINE doing == op[QueueOwner]
<1>1. /\ top \in Nat /\ bottom \in Nat /\ End \in Nat /\ Waiting \in Nat /\ Waiting = End - top
      /\ 1 <= top /\ top <= End /\ Waiting <= Size(Newest) /\ Size(Newest) \in Nat \ {0}
      /\ End <= MaxPushes + 1 /\ Len(pops) \in Nat /\ Len(steals) \in Nat
      /\ top - 1 <= Len(pops) + Len(steals)
  BY Indices
<1>2. doing.at = "publish" /\ Continues(QueueOwner, Idle) /\ UNCHANGED <<top, arrays, pops, steals>>
  BY DEF Publish, Returns, NoneTaken
<1>3. /\ doing.item \in Items /\ End = bottom
      /\ doing.item = Waiting + Len(pops) + Len(steals) + 1 /\ doing.item <= MaxPushes
      /\ Waiting < Size(Newest) /\ Item(Newest, bottom) = doing.item
  BY <1>2, OwnerFields
<1>4. PICK x \in Items : x = doing.item
  BY <1>3
<1>5. Waiting + Len(pops) + Len(steals) + 1 <= MaxPushes
  BY <1>3
<1>6. bottom' = bottom + 1
  <2>1. bottom <= MaxPushes
    BY <1>1, <1>3, <1>5, QueueConstants
  <2>2. Up(bottom) = bottom + 1
    BY <2>1, <1>1, NextIndex
  <2> QED BY <2>2 DEF Publish
<1>7. Idle \in OwnerCalls /\ Idle.at = "idle"
  BY DEF OwnerCalls, Idle
<1>8. op'[QueueOwner] = Idle /\ (\A p \in Thieves : op'[p] = op[p]) /\ QueueCallsFit'
  BY <1>2, <1>7, OwnerMoves
<1>9. End' = End + 1 /\ Waiting' = Waiting + 1 /\ Newest' = Newest
  <2>1. End' = bottom + 1
    BY <1>6, <1>7, <1>8 DEF End
  <2> QED BY <1>1, <2>1, <1>2, <1>3 DEF Waiting, Newest
<1>10. ArraysFit' /\ TakenFit'
  BY <1>2 DEF QueueIInv, ArraysFit, TakenFit
<1>11. IndicesFit'
  <2>1. top' <= End' /\ Waiting' <= Size(Newest')
    BY <1>1, <1>2, <1>3, <1>9
  <2>2. Waiting' + Len(pops') + Len(steals') <= MaxPushes
    BY <1>1, <1>2, <1>5, <1>9, QueueConstants
  <2> QED BY <2>1, <2>2, <1>1, <1>2, <1>6 DEF IndicesFit
<1>12. OwnerKnows'
  BY <1>7, <1>8 DEF OwnerKnows
<1>13. ThievesKnow'
  <2>1. top < End => top < End'
    BY <1>1, <1>9
  <2> QED BY <2>1, <1>1, <1>2, <1>8, <1>9, ThievesKeep
<1>14. QueueIInv'
  BY <1>8, <1>10, <1>11, <1>12, <1>13 DEF QueueIInv
<1>15. Abstract!Push
  <2>1. ContentsFit /\ ContentsFit' /\ NextItem = Waiting + Len(pops) + Len(steals) + 1
    BY <1>14, ContentsIs, ContentsAfter DEF ContentsFit
  <2>2. PICK s \in Seq(Items), r \in Seq(Items) : s = Contents /\ r = Contents'
    BY <2>1 DEF ContentsFit
  <2>3. Len(s) = Waiting /\ Len(r) = Len(s) + 1
    BY <2>1, <2>2, <1>1, <1>9 DEF ContentsFit
  <2>4. \A k \in 1 .. Len(s) : r[k] = s[k]
    <3> SUFFICES ASSUME NEW k \in 1 .. Waiting PROVE Contents'[k] = Contents[k]
      BY <2>2, <2>3
    <3>1. k \in 1 .. Waiting'
      BY <1>1, <1>9
    <3> QED BY <3>1, <2>1, <1>2, <1>9 DEF ContentsFit
  <2>5. r[Len(r)] = x
    <3>1. Len(r) \in 1 .. Waiting' /\ top + Len(r) - 1 = bottom
      BY <2>3, <1>1, <1>3, <1>9
    <3>2. Contents'[Len(r)] = Item(Newest', top' + Len(r) - 1)
      BY <2>1, <3>1 DEF ContentsFit
    <3> QED BY <3>1, <3>2, <2>2, <1>2, <1>3, <1>4, <1>9
  <2>6. r = Append(s, x)
    BY <2>3, <2>4, <2>5, MoreElements
  <2>7. Len(Contents) + Len(steals) + Len(pops) + 1 = x /\ x <= MaxPushes
    BY <2>2, <2>3, <1>1, <1>3, <1>4
  <2> QED BY <2>2, <2>6, <2>7, <1>2 DEF Abstract!Push, Abstract!Fresh
<1> QED BY <1>14, <1>15 DEF Refines, Abstract!Next

-----------------------------------------------------------------------------
LEMMA BeginPopOK ==
  ASSUME QueueIInv, BeginPop
  PROVE  QueueIInv' /\ Refines
<1> DEFINE c == [at |-> "pop"]
<1>1. /\ top \in Nat /\ bottom \in Nat /\ 1 <= top /\ top <= End /\ End <= MaxPushes + 1
  BY Indices
<1>2. Continues(QueueOwner, c) /\ UNCHANGED <<top, arrays, pops, steals>>
      /\ op[QueueOwner] = Idle
  BY DEF BeginPop, NoneTaken
<1>3. End = bottom
  BY <1>2 DEF End, Idle
<1>4. bottom' = bottom - 1 /\ bottom' \in Nat
  <2>1. Down(bottom) = bottom - 1
    BY <1>1, <1>3, PreviousIndex
  <2> QED BY <2>1, <1>1, <1>3 DEF BeginPop
<1>5. c \in OwnerCalls
  BY DEF OwnerCalls
<1>6. op'[QueueOwner] = c
  BY <1>2, <1>5, OwnerMoves
<1>7. End' = End
  <2>1. End' = bottom' + 1
    BY <1>6 DEF End
  <2> QED BY <2>1, <1>1, <1>3, <1>4
<1>8. OwnerKnows'
  BY <1>6 DEF OwnerKnows
<1> QED BY <1>2, <1>4, <1>5, <1>7, <1>8, OwnerLooks

LEMMA PopFindsLastOK ==
  ASSUME QueueIInv, PopFindsLast
  PROVE  QueueIInv' /\ Refines
<1> DEFINE c == [at |-> "last", t |-> top]
<1>1. top \in Nat /\ bottom \in Nat
  BY Indices
<1>2. Continues(QueueOwner, c) /\ UNCHANGED <<top, bottom, arrays, pops, steals>>
      /\ op[QueueOwner].at = "pop" /\ top = bottom
  BY DEF PopFindsLast, NoneTaken
<1>3. c \in OwnerCalls
  BY <1>1 DEF OwnerCalls
<1>4. op'[QueueOwner] = c
  BY <1>2, <1>3, OwnerMoves
<1>5. End' = End
  BY <1>2, <1>4 DEF End
<1>6. OwnerKnows'
  BY <1>1, <1>2, <1>4 DEF OwnerKnows
<1> HIDE DEF c
<1> QED BY <1>1, <1>2, <1>3, <1>5, <1>6, OwnerLooks

LEMMA PopFindsNoneOK ==
  ASSUME QueueIInv, PopFindsNone
  PROVE  QueueIInv' /\ Refines
<1> DEFINE c == [at |-> "restore"]
<1>1. top \in Nat /\ bottom \in Nat /\ top <= End
  BY Indices
<1>2. Continues(QueueOwner, c) /\ UNCHANGED <<top, bottom, arrays, pops, steals>>
      /\ op[QueueOwner].at = "pop" /\ top > bottom
  BY DEF PopFindsNone, NoneTaken
<1>3. c \in OwnerCalls
  BY DEF OwnerCalls
<1>4. op'[QueueOwner] = c
  BY <1>2, <1>3, OwnerMoves
<1>5. End' = End /\ End = bottom + 1
  BY <1>2, <1>4 DEF End
<1>6. OwnerKnows'
  <2>1. top' = bottom' + 1
    BY <1>1, <1>2, <1>5
  <2> QED BY <2>1, <1>4 DEF OwnerKnows
<1> HIDE DEF c
<1> QED BY <1>1, <1>2, <1>3, <1>5, <1>6, OwnerLooks

LEMMA RestoreOK ==
  ASSUME QueueIInv, Restore
  PROVE  QueueIInv' /\ Refines
<1>1. top \in Nat /\ bottom \in Nat /\ top <= End /\ End <= MaxPushes + 1
  BY Indices
<1>2. Continues(QueueOwner, Idle) /\ UNCHANGED <<top, arrays, pops, steals>>
      /\ op[QueueOwner].at = "restore"
  BY DEF Restore, Returns, NoneTaken
<1>3. End = bottom + 1
  BY <1>2 DEF End
<1>4. bottom' = bottom + 1
  <2>1. bottom <= MaxPushes
    BY <1>1, <1>3, QueueConstants
  <2>2. Up(bottom) = bottom + 1
    BY <1>1, <2>1, NextIndex
  <2> QED BY <2>2 DEF Restore
<1>5. Idle \in OwnerCalls /\ Idle.at = "idle"
  BY DEF OwnerCalls, Idle
<1>6. op'[QueueOwner] = Idle
  BY <1>2, <1>5, OwnerMoves
<1>7. End' = End
  BY <1>3, <1>4, <1>5, <1>6 DEF End
<1>8. OwnerKnows'
  BY <1>5, <1>6 DEF OwnerKnows
<1>9. bottom' \in Nat
  BY <1>1, <1>4
<1> QED BY <1>2, <1>5, <1>7, <1>8, <1>9, OwnerLooks

-----------------------------------------------------------------------------
\* The newest item leaves the queue when there is one less.
LEMMA PopsNewest ==
  ASSUME QueueIInv, QueueIInv', Waiting = Waiting' + 1, steals' = steals,
         pops' = Append(pops, Item(Newest, End - 1)),
         \A k \in 1 .. Waiting' : Item(Newest', top' + k - 1) = Item(Newest, top + k - 1)
  PROVE  Abstract!Pop
<1>1. ContentsFit /\ ContentsFit'
  BY ContentsIs, ContentsAfter DEF ContentsFit
<1>2. /\ top \in Nat /\ End \in Nat /\ Waiting \in Nat /\ Waiting = End - top
  BY Indices
<1>3. PICK s \in Seq(Items), r \in Seq(Items) : s = Contents /\ r = Contents'
  BY <1>1 DEF ContentsFit
<1>4. Len(s) = Waiting /\ Len(r) = Waiting' /\ Len(s) = Len(r) + 1
  BY <1>1, <1>3 DEF ContentsFit
<1>5. \A k \in 1 .. Len(r) : r[k] = s[k]
  <2> SUFFICES ASSUME NEW k \in 1 .. Len(r) PROVE r[k] = s[k]
    OBVIOUS
  <2>1. k \in 1 .. Waiting' /\ k \in 1 .. Waiting
    BY <1>4
  <2>2. r[k] = Item(Newest', top' + k - 1) /\ s[k] = Item(Newest, top + k - 1)
    BY <2>1, <1>1, <1>3 DEF ContentsFit
  <2> QED BY <2>1, <2>2
<1>6. s # << >> /\ r = Front(s) /\ Last(s) = s[Len(s)]
  BY <1>4, <1>5, FrontElements
<1>7. s[Len(s)] = Item(Newest, End - 1)
  <2>1. Len(s) \in 1 .. Waiting /\ top + Len(s) - 1 = End - 1
    BY <1>2, <1>4
  <2> QED BY <2>1, <1>1, <1>3 DEF ContentsFit
<1>8. Contents # << >> /\ Contents' = Front(Contents) /\ pops' = Append(pops, Last(Contents))
  BY <1>3, <1>6, <1>7
<1> QED BY <1>8 DEF Abstract!Pop, Abstract!Last, Abstract!Front, Last, Front

\* More than one item is left: m_bottom alone decides.
LEMMA PopOneOK ==
  ASSUME QueueIInv, PopOne
  PROVE  QueueIInv' /\ Refines
<1>1. /\ top \in Nat /\ bottom \in Nat /\ End \in Nat /\ Waiting \in Nat /\ Waiting = End - top
      /\ 1 <= top /\ top <= End /\ Waiting <= Size(Newest) /\ Size(Newest) \in Nat \ {0}
      /\ Len(pops) \in Nat /\ Len(steals) \in Nat /\ pops \in Seq(Items)
      /\ top - 1 <= Len(pops) + Len(steals) /\ Waiting + Len(pops) + Len(steals) <= MaxPushes
  BY Indices
<1>2. /\ op[QueueOwner].at = "pop" /\ top < bottom /\ Continues(QueueOwner, Idle)
      /\ UNCHANGED <<top, bottom, arrays, steals>>
      /\ pops' = Append(pops, Item(Newest, bottom))
  BY DEF PopOne, Returns
<1>3. End = bottom + 1
  BY <1>2 DEF End
<1>4. Item(Newest, bottom) \in Items
  BY <1>1, NewestIs, ItemIn DEF QueueIInv
<1>5. Idle \in OwnerCalls /\ Idle.at = "idle"
  BY DEF OwnerCalls, Idle
<1>6. op'[QueueOwner] = Idle /\ (\A p \in Thieves : op'[p] = op[p]) /\ QueueCallsFit'
  BY <1>2, <1>5, OwnerMoves
<1>7. End' = bottom /\ Newest' = Newest
  BY <1>2, <1>5, <1>6 DEF End, Newest
<1>8. /\ Waiting' = Waiting - 1 /\ Waiting = Waiting' + 1
      /\ Len(pops') = Len(pops) + 1 /\ Len(steals') = Len(steals)
  <2>1. Waiting' = End' - top'
    BY DEF Waiting
  <2>2. Len(pops') = Len(pops) + 1
    BY <1>1, <1>2, <1>4
  <2> QED BY <2>1, <2>2, <1>1, <1>2, <1>3, <1>7
<1>9. ArraysFit' /\ TakenFit'
  BY <1>2, <1>4 DEF QueueIInv, ArraysFit, TakenFit
<1>10. IndicesFit'
  <2>1. top' <= End' /\ Waiting' <= Size(Newest')
    BY <1>1, <1>2, <1>7, <1>8
  <2>2. /\ top' - 1 <= Len(pops') + Len(steals')
        /\ Waiting' + Len(pops') + Len(steals') <= MaxPushes
    BY <1>1, <1>2, <1>8, QueueConstants
  <2> QED BY <2>1, <2>2, <1>1, <1>2 DEF IndicesFit
<1>11. OwnerKnows'
  BY <1>5, <1>6 DEF OwnerKnows
<1>12. ThievesKnow'
  BY <1>1, <1>2, <1>6, <1>7, ThievesKeep
<1>13. QueueIInv'
  BY <1>6, <1>9, <1>10, <1>11, <1>12 DEF QueueIInv
<1>14. End - 1 = bottom
  BY <1>1, <1>3
<1>15. Abstract!Pop
  BY <1>2, <1>7, <1>8, <1>13, <1>14, PopsNewest
<1> QED BY <1>13, <1>15 DEF Refines, Abstract!Next

\* For the last item the owner competes, and m_top decides.
LEMMA PopLastOK ==
  ASSUME QueueIInv, PopLast
  PROVE  QueueIInv' /\ Refines
<1> DEFINE c == [at |-> "restore"]
<1>1. /\ top \in Nat /\ bottom \in Nat /\ End \in Nat /\ Waiting \in Nat /\ Waiting = End - top
      /\ 1 <= top /\ top <= End /\ End <= MaxPushes + 1
      /\ Waiting <= Size(Newest) /\ Size(Newest) \in Nat \ {0}
      /\ Len(pops) \in Nat /\ Len(steals) \in Nat /\ pops \in Seq(Items)
      /\ top - 1 <= Len(pops) + Len(steals) /\ Waiting + Len(pops) + Len(steals) <= MaxPushes
  BY Indices
<1>2. /\ op[QueueOwner].at = "last" /\ Continues(QueueOwner, c)
      /\ UNCHANGED <<bottom, arrays, steals>>
  BY DEF PopLast
<1>3. End = bottom + 1 /\ op[QueueOwner].t = bottom /\ bottom <= top
  BY <1>2, OwnerFields
<1>4. c \in OwnerCalls
  BY DEF OwnerCalls
<1>5. op'[QueueOwner] = c /\ (\A p \in Thieves : op'[p] = op[p]) /\ QueueCallsFit'
  BY <1>2, <1>4, OwnerMoves
<1>6. End' = End /\ Newest' = Newest
  BY <1>2, <1>3, <1>5 DEF End, Newest
<1>7. CASE top # bottom
  <2>1. UNCHANGED <<top, pops>>
    BY <1>3, <1>7 DEF PopLast, Wins
  <2>2. top' = bottom' + 1
    <3>1. top = bottom + 1
      BY <1>1, <1>3, <1>7
    <3> QED BY <3>1, <1>2, <2>1
  <2>3. OwnerKnows'
    BY <1>5, <2>2 DEF OwnerKnows
  <2>4. bottom' \in Nat /\ UNCHANGED <<top, arrays, pops, steals>>
    BY <1>1, <1>2, <2>1
  <2> QED BY <1>2, <1>4, <1>6, <2>3, <2>4, OwnerLooks
<1>8. CASE top = bottom
  <2>1. Up(bottom) = bottom + 1
    <3>1. MaxPushes \in Nat
      BY QueueConstants
    <3>2. bottom \in Nat /\ bottom <= MaxPushes
      BY <3>1, <1>1, <1>3
    <3> QED BY <3>2, NextIndex
  <2>2. top' = bottom + 1 /\ pops' = Append(pops, Item(Newest, bottom))
    BY <1>3, <1>8, <2>1 DEF PopLast, Wins
  <2>3. Item(Newest, bottom) \in Items
    BY <1>1, NewestIs, ItemIn DEF QueueIInv
  <2>4. /\ Waiting' = 0 /\ Waiting = Waiting' + 1
        /\ Len(pops') = Len(pops) + 1 /\ Len(steals') = Len(steals)
    <3>1. Waiting' = End' - top'
      BY DEF Waiting
    <3>2. Len(pops') = Len(pops) + 1
      BY <1>1, <2>2, <2>3
    <3> QED BY <3>1, <3>2, <1>1, <1>2, <1>3, <1>6, <1>8, <2>2
  <2>5. ArraysFit' /\ TakenFit'
    BY <1>2, <2>2, <2>3 DEF QueueIInv, ArraysFit, TakenFit
  <2>6. IndicesFit'
    <3>1. top' \in Nat /\ bottom' \in Nat /\ 1 <= top' /\ top' <= End' /\ Waiting' <= Size(Newest')
      BY <1>1, <1>2, <1>3, <1>6, <2>2, <2>4
    <3>2. /\ top' - 1 <= Len(pops') + Len(steals')
          /\ Waiting' + Len(pops') + Len(steals') <= MaxPushes
      BY <1>1, <1>2, <1>8, <2>2, <2>4, QueueConstants
    <3> QED BY <3>1, <3>2 DEF IndicesFit
  <2>7. OwnerKnows'
    BY <1>2, <1>5, <2>2 DEF OwnerKnows
  <2>8. ThievesKnow'
    <3>1. top' \in Nat /\ top' > top /\ arrays' = arrays
      BY <1>1, <1>2, <1>8, <2>2
    <3> QED BY <3>1, <1>5, ThievesKeep
  <2>9. QueueIInv'
    BY <1>5, <2>5, <2>6, <2>7, <2>8 DEF QueueIInv
  <2>10. End - 1 = bottom /\ \A k \in 1 .. Waiting' : FALSE
    BY <1>1, <1>3, <2>4
  <2>11. Abstract!Pop
    BY <1>2, <2>2, <2>4, <2>9, <2>10, PopsNewest
  <2> QED BY <2>9, <2>11 DEF Refines, Abstract!Next
<1> QED BY <1>7, <1>8

-----------------------------------------------------------------------------
LEMMA QueueInitOK == QueueInit => QueueIInv /\ Abstract!Init
<1> SUFFICES ASSUME QueueInit PROVE QueueIInv /\ Abstract!Init
  OBVIOUS
<1> DEFINE a == [i \in 0 .. StartingSize - 1 |-> NoItem]
<1>1. /\ top = 1 /\ bottom = 1 /\ arrays = <<a>> /\ pops = << >> /\ steals = << >>
      /\ op = [p \in Thieves \union {QueueOwner} |-> Idle]
  BY DEF QueueInit, Start
<1>2. a \in [0 .. StartingSize - 1 -> Items]
  BY QueueConstants DEF NoItem, Items
<1>3. a \in Arrays /\ Size(a) = StartingSize
  <2>1. DOMAIN a = 0 .. StartingSize - 1
    OBVIOUS
  <2> HIDE DEF a
  <2> QED BY <2>1, <1>2, QueueConstants, SizeIs DEF Arrays
<1> HIDE DEF a
<1>4. op[QueueOwner] = Idle /\ \A p \in Thieves : op[p] = Idle
  BY <1>1
<1>5. Idle.at = "idle"
  BY DEF Idle
<1>6. End = 1 /\ Waiting = 0 /\ Newest = a
  <2>1. End = 1
    BY <1>1, <1>4, <1>5 DEF End
  <2> QED BY <2>1, <1>1 DEF Waiting, Newest
<1>7. ArraysFit
  BY <1>1, <1>3 DEF ArraysFit
<1>8. QueueCallsFit /\ TakenFit
  BY <1>1, <1>4 DEF QueueCallsFit, TakenFit, OwnerCalls, ThiefCalls
<1>9. IndicesFit
  <2>1. Len(pops) = 0 /\ Len(steals) = 0
    BY <1>1
  <2> QED BY <2>1, <1>1, <1>3, <1>6, QueueConstants DEF IndicesFit
<1>10. OwnerKnows /\ ThievesKnow
  BY <1>4, <1>5 DEF OwnerKnows, ThievesKnow, ThiefKnows
<1>11. QueueIInv
  BY <1>7, <1>8, <1>9, <1>10 DEF QueueIInv
<1>12. Contents = << >>
  <2>1. Contents \in Seq(Items) /\ Len(Contents) = 0
    BY <1>6, <1>11, ContentsIs
  <2> QED BY <2>1
<1> QED BY <1>1, <1>11, <1>12 DEF Abstract!Init

\* One lemma for each action of QueueNext.
LEMMA QueueStepOK ==
  ASSUME QueueIInv, [QueueNext]_queueVars
  PROVE  QueueIInv' /\ Refines
<1>1. CASE UNCHANGED queueVars
  <2>1. UNCHANGED <<top, bottom, arrays, op, pops, steals>>
    BY <1>1 DEF queueVars
  <2>2. End' = End /\ Newest' = Newest /\ Waiting' = Waiting /\ Contents' = Contents
    BY <2>1 DEF End, Newest, Waiting, Contents
  <2>3. ThievesKnow'
    BY <2>1, <2>2 DEF QueueIInv, ThievesKnow, ThiefKnows
  <2>4. OwnerKnows'
    BY <2>1, <2>2 DEF QueueIInv, OwnerKnows
  <2> QED BY <2>1, <2>2, <2>3, <2>4
          DEF QueueIInv, ArraysFit, QueueCallsFit, TakenFit, IndicesFit, Refines
<1>2. CASE QueueNext
  <2>1. CASE NextItem <= MaxPushes /\ BeginPush(NextItem)
    BY <2>1, BeginPushOK
  <2>2. CASE Grow \/ Put \/ Publish
    BY <2>2, GrowOK, PutOK, PublishOK
  <2>3. CASE BeginPop \/ PopOne \/ PopFindsLast \/ PopFindsNone \/ PopLast \/ Restore
    BY <2>3, BeginPopOK, PopOneOK, PopFindsLastOK, PopFindsNoneOK, PopLastOK, RestoreOK
  <2>4. ASSUME NEW p \in Thieves,
               BeginSteal(p) \/ LoadBottom(p) \/ LoadArray(p) \/ GetItem(p) \/ TakeItem(p)
        PROVE  QueueIInv' /\ Refines
    BY <2>4, BeginStealOK, LoadBottomOK, LoadArrayOK, GetItemOK, TakeItemOK
  <2> QED BY <1>2, <2>1, <2>2, <2>3, <2>4 DEF QueueNext
<1> QED BY <1>1, <1>2

\* What the invariant says of types.
LEMMA QueueTypes == QueueIInv => QueueTypeOK
<1> SUFFICES ASSUME QueueIInv PROVE QueueTypeOK
  OBVIOUS
<1>1. /\ top \in Nat /\ bottom \in Nat /\ 1 <= top /\ top <= End /\ End <= MaxPushes + 1
      /\ End \in Nat /\ Waiting = End - top /\ Waiting <= Size(Newest)
  BY Indices
<1>2. End = bottom \/ End = bottom + 1
  BY DEF End
<1>3. bottom \in 0 .. MaxPushes + 1 /\ top \in Start .. End /\ End - top <= Size(Newest)
  BY <1>1, <1>2, QueueConstants DEF Start
<1>4. \A k \in DOMAIN arrays : arrays[k] \in [0 .. Size(arrays[k]) - 1 -> 0 .. MaxPushes]
  BY NewestIs, ArrayShape DEF QueueIInv, Items
<1>5. ASSUME NEW p \in DOMAIN op
      PROVE  op[p].at \in
        IF p = QueueOwner THEN {"idle", "push", "put", "publish", "pop", "last", "restore"}
        ELSE {"idle", "steal", "array", "get", "take"}
  <2>1. p \in Thieves \union {QueueOwner}
    BY DEF QueueIInv, QueueCallsFit
  <2> QED BY <2>1, OwnerFields, ThiefFields
<1> QED BY <1>3, <1>4, <1>5 DEF QueueTypeOK, QueueIInv, ArraysFit

\* The invariant of the queue holds in every behaviour.
LEMMA QueueInvariant == QueueSpec => []QueueIInv
<1>1. QueueInit => QueueIInv
  BY QueueInitOK
<1>2. QueueIInv /\ [QueueNext]_queueVars => QueueIInv'
  BY QueueStepOK
<1> QED
  BY <1>1, <1>2, PTL DEF QueueSpec

\* The state of the queue has its type: the indices stay in their range and
\* never cross, and the queue fits the newest of its arrays.
THEOREM QueueTypeCorrectness == QueueSpec => []QueueTypeOK
<1> QED
  BY QueueInvariant, QueueTypes, PTL

\* WaitFreeQueue, with its arrays that are replaced while thieves read them and
\* its race for the last item, is a double-ended queue: every item pushed is
\* popped or stolen once, from the end it should be.
THEOREM QueueImplementsDeque == QueueSpec => ImplementsDeque
<1>1. QueueInit => Abstract!Init
  BY QueueInitOK
<1>2. QueueIInv /\ [QueueNext]_queueVars => [Abstract!Next]_(Abstract!vars)
  BY QueueStepOK DEF Refines, Abstract!vars
<1> QED
  BY <1>1, <1>2, QueueInvariant, PTL DEF QueueSpec, ImplementsDeque, Abstract!Spec

-----------------------------------------------------------------------------
\* A task is in the queue only while there is a worker that has not ended, so
\* that the destructor, which joins all of them, finds an empty queue; and
\* nothing is done any more in a pool that is gone.
ExitedWhenDrained ==
  /\ \A w \in Workers : state[w] = "exited" => stop /\ tasks = << >>
  /\ owner = "gone" => \A w \in Workers : state[w] = "exited"

\* The invariant of the pool that every step preserves.
PoolIInv == TypeOK /\ EachTaskOnce /\ NoLostWakeup /\ ExitedWhenDrained

-----------------------------------------------------------------------------
\* What is in a queue after a task is added.
LEMMA RangeOfAppend ==
  ASSUME NEW s \in Seq(Tasks), NEW t \in Tasks
  PROVE  RangeOf(Append(s, t)) = RangeOf(s) \union {t}
<1>1. \A k \in DOMAIN Append(s, t) :
        \/ k \in DOMAIN s /\ Append(s, t)[k] = s[k]
        \/ k = Len(s) + 1 /\ Append(s, t)[k] = t
  OBVIOUS
<1>2. \A k \in DOMAIN s : k \in DOMAIN Append(s, t) /\ Append(s, t)[k] = s[k]
  OBVIOUS
<1>3. Len(s) + 1 \in DOMAIN Append(s, t) /\ Append(s, t)[Len(s) + 1] = t
  OBVIOUS
<1> QED
  BY <1>1, <1>2, <1>3, Zenon DEF RangeOf

\* The workers in a state are finitely many.
LEMMA WorkersFinite ==
  ASSUME NEW st
  PROVE  /\ IsFiniteSet(InState(st))
         /\ Cardinality(InState(st)) \in Nat
<1>1. IsFiniteSet(InState(st))
  BY PoolAssumption, FS_Subset DEF InState
<1> QED
  BY <1>1, FS_CardinalityType

LEMMA NotifyingFinite ==
  ASSUME notifying \subseteq Callers
  PROVE  /\ IsFiniteSet(notifying)
         /\ Cardinality(notifying) \in Nat
<1>1. IsFiniteSet(Callers)
  BY PoolAssumption, FS_Union DEF Callers
<1>2. IsFiniteSet(notifying)
  BY <1>1, FS_Subset
<1> QED
  BY <1>2, FS_CardinalityType

\* A worker that goes from one state to another is counted there.
LEMMA WorkerMoves ==
  ASSUME NEW w \in Workers, NEW from, NEW to,
         state \in [Workers -> {"ready", "waiting", "running", "exited"}],
         state[w] = from, from # to, state' = [state EXCEPT ![w] = to]
  PROVE  /\ InState(to)' = InState(to) \union {w} /\ w \notin InState(to)
         /\ InState(from)' = InState(from) \ {w} /\ w \in InState(from)
         /\ \A other : other # to /\ other # from => InState(other)' = InState(other)
BY DEF InState

-----------------------------------------------------------------------------
LEMMA PoolInitOK ==
  ASSUME Init
  PROVE  PoolIInv
<1>1. TypeOK
  <2>1. tasks \in Seq(Tasks) /\ accepted \in Seq(Tasks) /\ started \in Seq(Tasks)
    BY DEF Init
  <2>2. /\ state \in [Workers -> {"ready", "waiting", "running", "exited"}]
        /\ task \in [Workers -> Tasks \union {None}]
        /\ \A w \in Workers : task[w] # None <=> state[w] = "running"
    BY DEF Init
  <2>3. stop \in BOOLEAN /\ (stop <=> owner # "using")
    BY DEF Init
  <2> QED
    BY <2>1, <2>2, <2>3 DEF Init, TypeOK
<1>2. EachTaskOnce
  BY DEF Init, EachTaskOnce, RangeOf, InState
<1>3. NoLostWakeup
  BY DEF Init, NoLostWakeup, InState
<1>4. ExitedWhenDrained
  BY DEF Init, ExitedWhenDrained
<1> QED
  BY <1>1, <1>2, <1>3, <1>4 DEF PoolIInv

LEMMA EnqueueOK ==
  ASSUME PoolIInv, NEW c \in Callers, NEW t \in Tasks, Enqueue(c, t)
  PROVE  PoolIInv'
<1>1. TypeOK /\ EachTaskOnce /\ NoLostWakeup /\ ExitedWhenDrained
  BY DEF PoolIInv
<1>2. TypeOK'
  <2>1. tasks' \in Seq(Tasks) /\ accepted' \in Seq(Tasks) /\ started' \in Seq(Tasks)
    BY <1>1 DEF Enqueue, TypeOK
  <2>2. notifying' \subseteq Callers /\ \A w \in notifying' \cap Workers : state[w] = "running"
    BY <1>1, PoolAssumption DEF Enqueue, TypeOK, CanCall, Callers
  <2> QED
    BY <1>1, <2>1, <2>2 DEF Enqueue, TypeOK
<1>3. EachTaskOnce'
  <2>1. accepted' = started' \o tasks'
    BY <1>1 DEF Enqueue, TypeOK, EachTaskOnce
  <2>2. t \notin RangeOf(accepted) /\ t \notin refused
    BY DEF Enqueue, Fresh
  <2>3. RangeOf(accepted') = RangeOf(accepted) \union {t}
    BY <1>1, RangeOfAppend DEF Enqueue, TypeOK
  <2>4. \A j, k \in DOMAIN accepted' : accepted'[j] = accepted'[k] => j = k
    <3>1. accepted' = Append(accepted, t)
      BY DEF Enqueue
    <3>2. \A j \in DOMAIN accepted : accepted[j] # t
      BY <2>2 DEF RangeOf
    <3>3. \A j, k \in DOMAIN accepted : accepted[j] = accepted[k] => j = k
      BY <1>1 DEF EachTaskOnce
    <3> QED
      BY <1>1, <3>1, <3>2, <3>3 DEF TypeOK
  <2>5. InState("running")' = InState("running")
    BY DEF Enqueue, InState
  <2>6. RangeOf(accepted') \cap refused' = {}
    BY <1>1, <2>2, <2>3 DEF Enqueue, EachTaskOnce
  <2>7. started' = started /\ done' = done /\ task' = task
    BY DEF Enqueue
  <2>8. /\ \A w \in Workers : task[w] # None => task[w] \in RangeOf(started) \ done
        /\ \A v, w \in Workers : v # w /\ task[v] # None => task[v] # task[w]
        /\ RangeOf(started) = done \union {task[w] : w \in InState("running")}
    BY <1>1 DEF EachTaskOnce
  <2> QED
    BY <2>1, <2>4, <2>5, <2>6, <2>7, <2>8 DEF EachTaskOnce
<1>4. NoLostWakeup'
  <2>1. Len(tasks') = Len(tasks) + 1 /\ Len(tasks) \in Nat
    BY <1>1 DEF Enqueue, TypeOK
  <2>2. Cardinality(notifying') = Cardinality(notifying) + 1 /\ Cardinality(notifying) \in Nat
    BY <1>1, NotifyingFinite, FS_AddElement DEF Enqueue, CanCall, TypeOK
  <2>3. InState("waiting")' = InState("waiting") /\ InState("ready")' = InState("ready")
    BY DEF Enqueue, InState
  <2>4. Cardinality(InState("ready")) \in Nat
    BY WorkersFinite
  <2> QED
    BY <1>1, <2>1, <2>2, <2>3, <2>4 DEF Enqueue, NoLostWakeup
<1>5. ExitedWhenDrained'
  BY <1>1 DEF Enqueue, ExitedWhenDrained
<1> QED
  BY <1>2, <1>3, <1>4, <1>5 DEF PoolIInv

LEMMA RefuseOK ==
  ASSUME PoolIInv, NEW c \in Callers, NEW t \in Tasks, Refuse(c, t)
  PROVE  PoolIInv'
<1>1. TypeOK /\ EachTaskOnce /\ NoLostWakeup /\ ExitedWhenDrained
  BY DEF PoolIInv
<1>2. TypeOK'
  BY <1>1 DEF Refuse, TypeOK
<1>3. EachTaskOnce'
  BY <1>1 DEF Refuse, Fresh, EachTaskOnce, InState
<1>4. NoLostWakeup' /\ ExitedWhenDrained'
  BY <1>1 DEF Refuse, NoLostWakeup, ExitedWhenDrained, InState
<1> QED
  BY <1>2, <1>3, <1>4 DEF PoolIInv

\* A worker that is woken, by whomever, has one more ready for the tasks.
LEMMA WokenIsReady ==
  ASSUME TypeOK, NEW w \in InState("waiting"), state' = [state EXCEPT ![w] = "ready"]
  PROVE  /\ state' \in [Workers -> {"ready", "waiting", "running", "exited"}]
         /\ Cardinality(InState("ready")') = Cardinality(InState("ready")) + 1
         /\ InState("running")' = InState("running")
         /\ \A v \in Workers : state'[v] \in {"running", "exited"} => state'[v] = state[v]
         /\ \A v \in Workers : state[v] \in {"running", "exited"} => state'[v] = state[v]
<1>1. w \in Workers /\ state[w] = "waiting" /\ state \in [Workers -> {"ready", "waiting", "running", "exited"}]
  BY DEF TypeOK, InState
<1>2. InState("ready")' = InState("ready") \union {w} /\ w \notin InState("ready")
  BY <1>1 DEF InState
<1>3. InState("running")' = InState("running")
  BY <1>1 DEF InState
<1>4. Cardinality(InState("ready")') = Cardinality(InState("ready")) + 1
  BY <1>2, WorkersFinite, FS_AddElement
<1> QED
  BY <1>1, <1>3, <1>4

LEMMA NotifyOneOK ==
  ASSUME PoolIInv, NEW c \in Callers, NotifyOne(c)
  PROVE  PoolIInv'
<1>1. TypeOK /\ EachTaskOnce /\ NoLostWakeup /\ ExitedWhenDrained
  BY DEF PoolIInv
<1>2. Cardinality(notifying') = Cardinality(notifying) - 1 /\ Cardinality(notifying) \in Nat
  BY <1>1, NotifyingFinite, FS_RemoveElement DEF NotifyOne, TypeOK
<1>3. CASE InState("waiting") = {}
  <2>1. state' = state
    BY <1>3 DEF NotifyOne, WakeOne
  <2>2. TypeOK'
    BY <1>1, <2>1 DEF NotifyOne, history, TypeOK
  <2>3. EachTaskOnce' /\ ExitedWhenDrained'
    BY <1>1, <2>1 DEF NotifyOne, history, EachTaskOnce, ExitedWhenDrained, InState
  <2>4. NoLostWakeup'
    BY <1>3, <2>1 DEF NoLostWakeup, InState
  <2> QED
    BY <2>2, <2>3, <2>4 DEF PoolIInv
<1>4. CASE InState("waiting") # {}
  <2>1. PICK w \in InState("waiting") : state' = [state EXCEPT ![w] = "ready"]
    BY <1>4 DEF NotifyOne, WakeOne
  <2>2. /\ state' \in [Workers -> {"ready", "waiting", "running", "exited"}]
        /\ Cardinality(InState("ready")') = Cardinality(InState("ready")) + 1
        /\ InState("running")' = InState("running")
        /\ \A v \in Workers : state'[v] \in {"running", "exited"} => state'[v] = state[v]
        /\ \A v \in Workers : state[v] \in {"running", "exited"} => state'[v] = state[v]
    BY <1>1, <2>1, WokenIsReady
  <2>3. TypeOK'
    <3>1. notifying' \subseteq Callers /\ \A v \in notifying' \cap Workers : state'[v] = "running"
      BY <1>1, <2>2 DEF NotifyOne, TypeOK
    <3>2. \A v \in Workers : task'[v] # None <=> state'[v] = "running"
      BY <1>1, <2>2 DEF NotifyOne, TypeOK
    <3> QED
      BY <1>1, <2>2, <3>1, <3>2 DEF NotifyOne, history, TypeOK
  <2>4. EachTaskOnce'
    BY <1>1, <2>2 DEF NotifyOne, history, EachTaskOnce
  <2>5. ExitedWhenDrained'
    BY <1>1, <2>2 DEF NotifyOne, history, ExitedWhenDrained
  <2>6. NoLostWakeup'
    <3>1. Len(tasks') = Len(tasks) /\ Len(tasks) \in Nat /\ stop' = stop /\ owner' = owner
      BY <1>1 DEF NotifyOne, TypeOK
    <3>2. Cardinality(InState("ready")) \in Nat
      BY WorkersFinite
    <3> QED
      BY <1>1, <1>2, <1>4, <2>2, <3>1, <3>2 DEF NoLostWakeup
  <2> QED
    BY <2>3, <2>4, <2>5, <2>6 DEF PoolIInv
<1> QED
  BY <1>3, <1>4

LEMMA SpuriousWakeOK ==
  ASSUME PoolIInv, NEW w \in Workers, SpuriousWake(w)
  PROVE  PoolIInv'
<1>1. TypeOK /\ EachTaskOnce /\ NoLostWakeup /\ ExitedWhenDrained
  BY DEF PoolIInv
<1>2. w \in InState("waiting") /\ state' = [state EXCEPT ![w] = "ready"]
  BY DEF SpuriousWake, InState
<1>3. /\ state' \in [Workers -> {"ready", "waiting", "running", "exited"}]
      /\ Cardinality(InState("ready")') = Cardinality(InState("ready")) + 1
      /\ InState("running")' = InState("running")
      /\ \A v \in Workers : state'[v] \in {"running", "exited"} => state'[v] = state[v]
      /\ \A v \in Workers : state[v] \in {"running", "exited"} => state'[v] = state[v]
  BY <1>1, <1>2, WokenIsReady
<1>4. TypeOK'
  <2>1. \A v \in notifying' \cap Workers : state'[v] = "running"
    BY <1>1, <1>3 DEF SpuriousWake, TypeOK
  <2>2. \A v \in Workers : task'[v] # None <=> state'[v] = "running"
    BY <1>1, <1>3 DEF SpuriousWake, TypeOK
  <2> QED
    BY <1>1, <1>3, <2>1, <2>2 DEF SpuriousWake, history, TypeOK
<1>5. EachTaskOnce'
  BY <1>1, <1>3 DEF SpuriousWake, history, EachTaskOnce
<1>6. ExitedWhenDrained'
  BY <1>1, <1>3 DEF SpuriousWake, history, ExitedWhenDrained
<1>7. NoLostWakeup'
  <2>1. Len(tasks') = Len(tasks) /\ Len(tasks) \in Nat /\ stop' = stop /\ owner' = owner
    BY <1>1 DEF SpuriousWake, TypeOK
  <2>2. Cardinality(notifying') = Cardinality(notifying) /\ Cardinality(notifying) \in Nat
    BY <1>1, NotifyingFinite DEF SpuriousWake, TypeOK
  <2>3. Cardinality(InState("ready")) \in Nat /\ InState("waiting") # {}
    BY <1>2, WorkersFinite
  <2> QED
    BY <1>1, <1>3, <2>1, <2>2, <2>3 DEF NoLostWakeup
<1> QED
  BY <1>4, <1>5, <1>6, <1>7 DEF PoolIInv

\* A worker goes to sleep only when there is no task, nor will it miss the stop.
LEMMA WaitOK ==
  ASSUME PoolIInv, NEW w \in Workers, Wait(w)
  PROVE  PoolIInv'
<1>1. TypeOK /\ EachTaskOnce /\ NoLostWakeup /\ ExitedWhenDrained
  BY DEF PoolIInv
<1>2. TypeOK'
  <2>1. \A v \in notifying' \cap Workers : state'[v] = "running"
    BY <1>1 DEF Wait, TypeOK
  <2>2. \A v \in Workers : task'[v] # None <=> state'[v] = "running"
    BY <1>1 DEF Wait, TypeOK
  <2> QED
    BY <1>1, <2>1, <2>2 DEF Wait, history, TypeOK
<1>3. InState("running")' = InState("running")
  BY <1>1 DEF Wait, TypeOK, InState
<1>4. EachTaskOnce'
  BY <1>1, <1>3 DEF Wait, history, EachTaskOnce
<1>5. NoLostWakeup'
  <2>1. Len(tasks') = 0 /\ ~stop' /\ notifying' \subseteq Callers
    BY <1>1 DEF Wait, MayProceed, TypeOK
  <2>2. Cardinality(notifying') \in Nat /\ Cardinality(InState("ready")') \in Nat
    <3>1. IsFiniteSet(notifying')
      BY <1>1, NotifyingFinite DEF Wait, TypeOK
    <3>2. IsFiniteSet(InState("ready")')
      BY PoolAssumption, FS_Subset DEF InState
    <3> QED
      BY <3>1, <3>2, FS_CardinalityType
  <2> QED
    BY <2>1, <2>2 DEF NoLostWakeup
<1>6. ExitedWhenDrained'
  BY <1>1 DEF Wait, history, TypeOK, ExitedWhenDrained
<1> QED
  BY <1>2, <1>4, <1>5, <1>6 DEF PoolIInv

\* A task taken is one that nobody has taken before.
LEMMA TakeOK ==
  ASSUME PoolIInv, NEW w \in Workers, Take(w)
  PROVE  PoolIInv'
<1>1. TypeOK /\ EachTaskOnce /\ NoLostWakeup /\ ExitedWhenDrained
  BY DEF PoolIInv
<1>2. /\ tasks # << >> /\ tasks \in Seq(Tasks) /\ started \in Seq(Tasks)
      /\ Head(tasks) \in Tasks /\ Tail(tasks) \in Seq(Tasks) /\ Len(Tail(tasks)) = Len(tasks) - 1
      /\ Len(tasks) \in Nat
  BY <1>1 DEF Take, MayProceed, MayReturn, TypeOK
<1>3. /\ state[w] = "ready" /\ state' = [state EXCEPT ![w] = "running"]
      /\ state \in [Workers -> {"ready", "waiting", "running", "exited"}]
      /\ task \in [Workers -> Tasks \union {None}] /\ task' = [task EXCEPT ![w] = Head(tasks)]
  BY <1>1 DEF Take, TypeOK
<1>4. task[w] = None /\ w \notin notifying
  BY <1>1, <1>3, PoolAssumption DEF TypeOK
<1>5. Head(tasks) \notin RangeOf(started)
  <2>1. \A k \in DOMAIN started : k \in DOMAIN accepted /\ accepted[k] = started[k]
    BY <1>1, <1>2 DEF EachTaskOnce
  <2>2. /\ Len(started) + 1 \in DOMAIN accepted
        /\ accepted[Len(started) + 1] = Head(tasks)
        /\ Len(started) + 1 \notin DOMAIN started
    BY <1>1, <1>2 DEF EachTaskOnce
  <2>3. \A k \in DOMAIN started : started[k] # Head(tasks)
    BY <1>1, <2>1, <2>2 DEF EachTaskOnce
  <2> QED
    BY <2>3 DEF RangeOf
<1>6. TypeOK'
  <2>1. tasks' \in Seq(Tasks) /\ started' \in Seq(Tasks)
    BY <1>2 DEF Take
  <2>2. \A v \in Workers : task'[v] # None <=> state'[v] = "running"
    BY <1>1, <1>2, <1>3, PoolAssumption DEF TypeOK
  <2>3. /\ state' \in [Workers -> {"ready", "waiting", "running", "exited"}]
        /\ task' \in [Workers -> Tasks \union {None}]
    BY <1>2, <1>3
  <2>4. \A v \in notifying' \cap Workers : state'[v] = "running"
    BY <1>1, <1>3 DEF Take, TypeOK
  <2> QED
    BY <1>1, <2>1, <2>2, <2>3, <2>4 DEF Take, TypeOK
<1>7. EachTaskOnce'
  <2>1. accepted' = started' \o tasks' /\ accepted' = accepted /\ refused' = refused /\ done' = done
    BY <1>1, <1>2 DEF Take, EachTaskOnce
  <2>2. RangeOf(started') = RangeOf(started) \union {Head(tasks)}
    BY <1>2, RangeOfAppend DEF Take
  <2>3. /\ \A v \in Workers : task[v] # None => task[v] \in RangeOf(started) \ done
        /\ \A u, v \in Workers : u # v /\ task[u] # None => task[u] # task[v]
        /\ RangeOf(started) = done \union {task[v] : v \in InState("running")}
    BY <1>1 DEF EachTaskOnce
  <2>4. task'[w] = Head(tasks) /\ \A v \in Workers \ {w} : task'[v] = task[v]
    BY <1>3
  <2>5. Head(tasks) \notin done /\ Head(tasks) # None
    BY <1>2, <1>5, <2>3, PoolAssumption
  <2>6. \A v \in Workers : task'[v] # None => task'[v] \in RangeOf(started') \ done'
    BY <2>1, <2>2, <2>3, <2>4, <2>5
  <2>7. \A v \in Workers : v # w => task[v] # Head(tasks)
    BY <1>5, <2>3, <2>5
  <2>8. \A u, v \in Workers : u # v /\ task'[u] # None => task'[u] # task'[v]
    BY <2>3, <2>4, <2>5, <2>7
  <2>9. InState("running")' = InState("running") \union {w} /\ w \notin InState("running")
    BY <1>3 DEF InState
  <2>10. {task'[v] : v \in InState("running")'} = {task[v] : v \in InState("running")} \union {Head(tasks)}
    BY <2>4, <2>9 DEF InState
  <2>11. RangeOf(started') = done' \union {task'[v] : v \in InState("running")'}
    BY <2>1, <2>2, <2>3, <2>10
  <2> QED
    BY <1>1, <2>1, <2>6, <2>8, <2>11 DEF EachTaskOnce
<1>8. NoLostWakeup'
  <2>1. /\ InState("ready")' = InState("ready") \ {w} /\ w \in InState("ready")
        /\ InState("waiting")' = InState("waiting")
    BY <1>3 DEF InState
  <2>2. Cardinality(InState("ready")') = Cardinality(InState("ready")) - 1
    BY <2>1, WorkersFinite, FS_RemoveElement
  <2>3. Cardinality(InState("ready")) \in Nat /\ Cardinality(notifying) \in Nat
    BY <1>1, WorkersFinite, NotifyingFinite DEF TypeOK
  <2>4. Len(tasks') = Len(tasks) - 1 /\ notifying' = notifying /\ stop' = stop /\ owner' = owner
    BY <1>2 DEF Take
  <2> QED
    BY <1>1, <1>2, <2>1, <2>2, <2>3, <2>4 DEF NoLostWakeup
<1>9. ExitedWhenDrained'
  BY <1>1, <1>2, <1>3 DEF Take, ExitedWhenDrained
<1> QED
  BY <1>6, <1>7, <1>8, <1>9 DEF PoolIInv

LEMMA ReturnOK ==
  ASSUME PoolIInv, NEW w \in Workers, Return(w)
  PROVE  PoolIInv'
<1>1. TypeOK /\ EachTaskOnce /\ NoLostWakeup /\ ExitedWhenDrained
  BY DEF PoolIInv
<1>2. TypeOK'
  <2>1. \A v \in notifying' \cap Workers : state'[v] = "running"
    BY <1>1 DEF Return, TypeOK
  <2>2. \A v \in Workers : task'[v] # None <=> state'[v] = "running"
    BY <1>1 DEF Return, TypeOK
  <2> QED
    BY <1>1, <2>1, <2>2 DEF Return, history, TypeOK
<1>3. InState("running")' = InState("running") /\ InState("waiting")' = InState("waiting")
  BY <1>1 DEF Return, TypeOK, InState
<1>4. EachTaskOnce'
  BY <1>1, <1>3 DEF Return, history, EachTaskOnce
<1>5. NoLostWakeup'
  <2>1. Len(tasks') = 0 /\ stop' = stop /\ owner' = owner
    BY DEF Return, MayReturn
  <2>2. Cardinality(notifying') \in Nat /\ Cardinality(InState("ready")') \in Nat
    <3>1. IsFiniteSet(notifying')
      BY <1>1, NotifyingFinite DEF Return, TypeOK
    <3>2. IsFiniteSet(InState("ready")')
      BY PoolAssumption, FS_Subset DEF InState
    <3> QED
      BY <3>1, <3>2, FS_CardinalityType
  <2> QED
    BY <1>1, <1>3, <2>1, <2>2 DEF NoLostWakeup
<1>6. ExitedWhenDrained'
  BY <1>1 DEF Return, MayReturn, history, TypeOK, ExitedWhenDrained
<1> QED
  BY <1>2, <1>4, <1>5, <1>6 DEF PoolIInv

LEMMA FinishOK ==
  ASSUME PoolIInv, NEW w \in Workers, Finish(w)
  PROVE  PoolIInv'
<1>1. TypeOK /\ EachTaskOnce /\ NoLostWakeup /\ ExitedWhenDrained
  BY DEF PoolIInv
<1>2. /\ state[w] = "running" /\ state' = [state EXCEPT ![w] = "ready"]
      /\ state \in [Workers -> {"ready", "waiting", "running", "exited"}]
      /\ task \in [Workers -> Tasks \union {None}] /\ task' = [task EXCEPT ![w] = None]
      /\ task[w] # None /\ w \notin notifying
  BY <1>1 DEF Finish, TypeOK
<1>3. task'[w] = None /\ \A v \in Workers \ {w} : task'[v] = task[v] /\ state'[v] = state[v]
  BY <1>2
<1>4. TypeOK'
  <2>1. \A v \in Workers : task'[v] # None <=> state'[v] = "running"
    BY <1>1, <1>2, <1>3 DEF TypeOK
  <2>2. /\ state' \in [Workers -> {"ready", "waiting", "running", "exited"}]
        /\ task' \in [Workers -> Tasks \union {None}]
    BY <1>2
  <2>3. \A v \in notifying' \cap Workers : state'[v] = "running"
    BY <1>1, <1>2, <1>3 DEF Finish, TypeOK
  <2>4. done' \subseteq Tasks
    BY <1>1, <1>2 DEF Finish, TypeOK
  <2> QED
    BY <1>1, <2>1, <2>2, <2>3, <2>4 DEF Finish, TypeOK
<1>5. EachTaskOnce'
  <2>1. /\ accepted' = accepted /\ started' = started /\ tasks' = tasks /\ refused' = refused
        /\ done' = done \union {task[w]}
    BY DEF Finish
  <2>2. /\ \A v \in Workers : task[v] # None => task[v] \in RangeOf(started) \ done
        /\ \A u, v \in Workers : u # v /\ task[u] # None => task[u] # task[v]
        /\ RangeOf(started) = done \union {task[v] : v \in InState("running")}
    BY <1>1 DEF EachTaskOnce
  <2>3. \A v \in Workers : task'[v] # None => task'[v] \in RangeOf(started') \ done'
    BY <1>2, <1>3, <2>1, <2>2
  <2>4. \A u, v \in Workers : u # v /\ task'[u] # None => task'[u] # task'[v]
    BY <1>3, <2>2
  <2>5. InState("running")' = InState("running") \ {w} /\ w \in InState("running")
    BY <1>2 DEF InState
  <2>6. {task[v] : v \in InState("running")} = {task'[v] : v \in InState("running")'} \union {task[w]}
    BY <1>3, <2>5 DEF InState
  <2>7. RangeOf(started') = done' \union {task'[v] : v \in InState("running")'}
    BY <2>1, <2>2, <2>6
  <2> QED
    BY <1>1, <2>1, <2>3, <2>4, <2>7 DEF EachTaskOnce
<1>6. NoLostWakeup'
  <2>1. /\ InState("ready")' = InState("ready") \union {w} /\ w \notin InState("ready")
        /\ InState("waiting")' = InState("waiting")
    BY <1>2 DEF InState
  <2>2. Cardinality(InState("ready")') = Cardinality(InState("ready")) + 1
    BY <2>1, WorkersFinite, FS_AddElement
  <2>3. Cardinality(InState("ready")) \in Nat /\ Cardinality(notifying) \in Nat /\ Len(tasks) \in Nat
    BY <1>1, WorkersFinite, NotifyingFinite DEF TypeOK
  <2>4. tasks' = tasks /\ notifying' = notifying /\ stop' = stop /\ owner' = owner
    BY DEF Finish
  <2> QED
    BY <1>1, <2>1, <2>2, <2>3, <2>4 DEF NoLostWakeup
<1>7. ExitedWhenDrained'
  BY <1>1, <1>2 DEF Finish, ExitedWhenDrained
<1> QED
  BY <1>4, <1>5, <1>6, <1>7 DEF PoolIInv

\* The steps of the destructor.
LEMMA DestructorOK ==
  ASSUME PoolIInv, Stop \/ NotifyAll \/ Join
  PROVE  PoolIInv'
<1>1. TypeOK /\ EachTaskOnce /\ NoLostWakeup /\ ExitedWhenDrained
  BY DEF PoolIInv
<1>2. CASE Stop
  <2>1. TypeOK'
    BY <1>1, <1>2 DEF Stop, history, TypeOK
  <2>2. EachTaskOnce'
    BY <1>1, <1>2 DEF Stop, history, EachTaskOnce, InState
  <2>3. NoLostWakeup'
    BY <1>1, <1>2 DEF Stop, history, NoLostWakeup, InState
  <2>4. ExitedWhenDrained'
    BY <1>1, <1>2 DEF Stop, history, ExitedWhenDrained
  <2> QED
    BY <2>1, <2>2, <2>3, <2>4 DEF PoolIInv
<1>3. CASE NotifyAll
  <2>1. /\ state' \in [Workers -> {"ready", "waiting", "running", "exited"}]
        /\ \A w \in Workers : state'[w] # "waiting"
        /\ \A w \in Workers : state'[w] = "running" <=> state[w] = "running"
        /\ \A w \in Workers : state'[w] = "exited" <=> state[w] = "exited"
    BY <1>1, <1>3 DEF NotifyAll, TypeOK
  <2>2. InState("waiting")' = {} /\ InState("running")' = InState("running")
    BY <2>1 DEF InState
  <2>3. TypeOK'
    <3>1. \A w \in Workers : task'[w] # None <=> state'[w] = "running"
      BY <1>1, <1>3, <2>1 DEF NotifyAll, TypeOK
    <3>2. \A w \in notifying' \cap Workers : state'[w] = "running"
      BY <1>1, <1>3, <2>1 DEF NotifyAll, TypeOK
    <3>3. (stop' <=> owner' # "using") /\ owner' = "joining"
      BY <1>1, <1>3 DEF NotifyAll, TypeOK
    <3> QED
      BY <1>1, <1>3, <2>1, <3>1, <3>2, <3>3 DEF NotifyAll, history, TypeOK
  <2>4. EachTaskOnce'
    BY <1>1, <1>3, <2>2 DEF NotifyAll, history, EachTaskOnce
  <2>5. NoLostWakeup'
    BY <2>2 DEF NoLostWakeup
  <2>6. ExitedWhenDrained'
    BY <1>1, <1>3, <2>1 DEF NotifyAll, history, ExitedWhenDrained
  <2> QED
    BY <2>3, <2>4, <2>5, <2>6 DEF PoolIInv
<1>4. CASE Join
  <2>1. TypeOK'
    BY <1>1, <1>4 DEF Join, history, TypeOK
  <2>2. EachTaskOnce'
    BY <1>1, <1>4 DEF Join, history, EachTaskOnce, InState
  <2>3. NoLostWakeup'
    BY <1>1, <1>4 DEF Join, history, NoLostWakeup, InState
  <2>4. ExitedWhenDrained'
    BY <1>1, <1>4 DEF Join, history, ExitedWhenDrained
  <2> QED
    BY <2>1, <2>2, <2>3, <2>4 DEF PoolIInv
<1> QED
  BY <1>2, <1>3, <1>4

LEMMA PoolStepOK == PoolIInv /\ [Next]_vars => PoolIInv'
<1> SUFFICES ASSUME PoolIInv, [Next]_vars
             PROVE  PoolIInv'
  OBVIOUS
<1>1. CASE \E c \in Callers, t \in Tasks : Enqueue(c, t) \/ Refuse(c, t)
  BY <1>1, EnqueueOK, RefuseOK
<1>2. CASE \E c \in Callers : NotifyOne(c)
  BY <1>2, NotifyOneOK
<1>3. CASE \E w \in Workers : WorkerStep(w) \/ SpuriousWake(w)
  BY <1>3, WaitOK, TakeOK, ReturnOK, FinishOK, SpuriousWakeOK DEF WorkerStep
<1>4. CASE Stop \/ DestructorStep
  BY <1>4, DestructorOK DEF DestructorStep
<1>5. CASE UNCHANGED vars
  BY <1>5 DEF vars, PoolIInv, TypeOK, EachTaskOnce, NoLostWakeup, ExitedWhenDrained, InState
<1> QED
  BY <1>1, <1>2, <1>3, <1>4, <1>5 DEF Next

\* The drained queue is what a pool with at least one worker ends with.
LEMMA PoolDrains ==
  ASSUME PoolIInv, Workers # {}
  PROVE  DrainedAtEnd
<1> SUFFICES ASSUME owner = "gone"
             PROVE  tasks = << >> /\ RangeOf(accepted) = done
  BY DEF DrainedAtEnd
<1>1. TypeOK /\ EachTaskOnce /\ ExitedWhenDrained
  BY DEF PoolIInv
<1>2. (\A w \in Workers : state[w] = "exited") /\ tasks = << >>
  BY <1>1 DEF ExitedWhenDrained
<1>3. accepted = started
  BY <1>1, <1>2 DEF TypeOK, EachTaskOnce
<1>4. InState("running") = {}
  BY <1>2 DEF InState
<1> QED
  BY <1>1, <1>2, <1>3, <1>4 DEF EachTaskOnce

-----------------------------------------------------------------------------
\* The fibers.  What the value of a counter may be, and the forms of a call:
\* before and after the access to the value, the wait for a value, the result.
Values == 0 .. ValueRange - 1
Entered(c, o) == [at |-> "entered", counter |-> c, o |-> o]
Accessed(at, c, new, result) == [at |-> at, counter |-> c, new |-> new, result |-> result]
Sleeper(at, c) == [at |-> at, counter |-> c, target |-> 0]
Lost(c) == [at |-> "lost", counter |-> c]
Done(result) == [at |-> "returned", result |-> result]

Sleeps(r, c) == r = Sleeper("listed", c) \/ r = Sleeper("asleep", c) \/ r = Lost(c) \/ r = Done(TRUE)

\* The calls a fiber can be in at a stage: those of a task, ...
LockCall(r) ==
  \/ r = NoCall \/ r = Entered("mutex", CompareExchange(0, 1))
  \/ r = Accessed("checking", "mutex", 1, TRUE) \/ r = Accessed("leaving", "mutex", 1, TRUE)
  \/ \E v \in Values : r = Accessed("leaving", "mutex", v, FALSE)
  \/ r = Done(TRUE) \/ r = Done(FALSE)

UnlockCall(r) ==
  \/ r = Entered("mutex", CompareExchange(1, 0))
  \/ r = Accessed("checking", "mutex", 0, TRUE) \/ r = Accessed("leaving", "mutex", 0, TRUE)
  \/ r = Done(TRUE)

EndCallForm(r) ==
  \/ r = Entered("tasks", FetchSub(1))
  \/ \E v, w \in Values : r = Accessed("checking", "tasks", v, w) \/ r = Accessed("leaving", "tasks", v, w)
  \/ \E w \in Values : r = Done(w)

TaskFits(st, r) ==
  \/ st \in {"new", "ready", "holding", "ended"} /\ r = NoCall
  \/ st = "locking" /\ LockCall(r)
  \/ st = "waiting" /\ Sleeps(r, "mutex")
  \/ st = "unlocking" /\ UnlockCall(r)
  \/ st = "ending" /\ EndCallForm(r)

\* ... and those of the main fiber.
TaskCount == Cardinality(TaskFibers)

AddCall(r) ==
  \/ r = Entered("tasks", FetchAdd(TaskCount)) \/ r = Entered("tasks", Store(TaskCount))
  \/ r = Accessed("checking", "tasks", TaskCount, 0) \/ r = Accessed("leaving", "tasks", TaskCount, 0)
  \/ r = Done(0)

LookCall(r) ==
  \/ r = Entered("tasks", Load)
  \/ \E v \in Values : r = Accessed("leaving", "tasks", v, v)
  \/ \E v \in Values : r = Done(v)

ReadCall(r) ==
  \/ r = Entered("tasks", Load) \/ r = Accessed("leaving", "tasks", 0, 0) \/ r = Done(0)

MainFits(st, r) ==
  \/ st \in {"start", "added", "resumed", "destroying"} /\ r = NoCall
  \/ st = "adding" /\ AddCall(r)
  \/ st = "looking" /\ LookCall(r)
  \/ st = "waiting" /\ Sleeps(r, "tasks")
  \/ st = "reading" /\ ReadCall(r)

CallsFit == MainFits(stage[Main], call[Main]) /\ \A f \in TaskFibers : TaskFits(stage[f], call[f])

\* A fiber at this stage, in this call, has the mutex; or it has counted down.
Holds(st, r) ==
  \/ st = "holding"
  \/ st = "unlocking" /\ r.at = "entered"
  \/ st = "locking" /\ r.at \in {"checking", "leaving", "returned"} /\ r.result

Counted(st, r) == st = "ended" \/ (st = "ending" /\ r.at # "entered")

\* The tasks that have not counted down.
Running == {f \in TaskFibers : ~Counted(stage[f], call[f])}

\* The fibers that are in a call of counter c.
InCall(r, c) == r.at \in {"entered", "checking", "leaving"} /\ r.counter = c
CallersOf(c) == {f \in Fibers : InCall(call[f], c)}

\* The locking of each fiber: one that spins has an attempt left.
WaysFit ==
  /\ way \in [Fibers -> {"Traditional", "Spin", "SpinInfinite", "Try"}]
  /\ spins \in [Fibers -> 0 .. Iterations] /\ locks \in [Fibers -> 0 .. MaxLocks]
  /\ \A f \in Fibers : way[f] = "Spin" => spins[f] > 0

\* The variables, but for how they are related.
FibtexShape ==
  /\ value \in [Counters -> Values] /\ inside \in [Counters -> Int]
  /\ waiting \in [Counters -> SUBSET (Fibers \X Values)]
  /\ destroyed \subseteq Counters
  /\ call = [f \in Fibers |-> call[f]]
  /\ stage = [f \in Fibers |-> stage[f]]
  /\ WaysFit

InsideCounted == \A c \in Counters : inside[c] = Cardinality(CallersOf(c))

\* Who is on the list of a counter waits for it.
WaitersSleep ==
  \A c \in Counters : \A w \in waiting[c] :
    w[2] = 0 /\ (call[w[1]] = Sleeper("listed", c) \/ call[w[1]] = Sleeper("asleep", c))

OneHolder == value["mutex"] = Cardinality(Holders) /\ Cardinality(Holders) <= 1

\* The counter of the tasks, from when the main fiber has set it, says how many
\* have not counted down; tasks begin after that.
MainCounts(st, r) == st = "start" \/ (st = "adding" /\ r.at = "entered")

TasksCounted ==
  /\ value["tasks"] = IF MainCounts(stage[Main], call[Main]) THEN 0 ELSE Cardinality(Running)
  /\ stage[Main] \in {"start", "adding"} => \A f \in TaskFibers : stage[f] = "new"
  /\ stage[Main] \notin {"start", "adding"} => \A f \in TaskFibers : stage[f] # "new"

\* When somebody is about to wake the main fiber, or nobody needs to (any more),
\* no task is left to count down.
MainGoesOn(st, r, listed) ==
  \/ st = "looking" /\ r.at \in {"leaving", "returned"} /\ r.result = 0
  \/ st = "waiting" /\ (r.at = "returned" \/ (r.at \in {"listed", "asleep"} /\ ~listed))
  \/ st \in {"resumed", "reading", "destroying"}

ZeroIsFinal ==
  /\ \A f \in TaskFibers :
       stage[f] = "ending" /\ call[f].at = "checking" /\ call[f].new = 0 => Running = {}
  /\ MainGoesOn(stage[Main], call[Main], <<Main, 0>> \in waiting["tasks"]) => Running = {}

DestroyedAtRest ==
  /\ destroyed # {} => stage[Main] = "destroying"
  /\ \A c \in destroyed : \A f \in Fibers : ~InCall(call[f], c)

\* The invariant of the fibers that every step preserves.
FibtexIInv ==
  /\ FibtexShape /\ CallsFit /\ InsideCounted /\ WaitersSleep
  /\ OneHolder /\ TasksCounted /\ ZeroIsFinal /\ DestroyedAtRest

-----------------------------------------------------------------------------
LEMMA FiberConstants ==
  /\ Main \in Fibers /\ TaskFibers \subseteq Fibers /\ Main \notin TaskFibers
  /\ IsFiniteSet(Fibers) /\ IsFiniteSet(TaskFibers)
  /\ TaskCount \in Nat /\ TaskCount < ValueRange
  /\ ValueRange \in Nat /\ ValueRange > 1
  /\ "mutex" \in Counters /\ "tasks" \in Counters
<1>1. Main \in Fibers /\ IsFiniteSet(Fibers) /\ ValueRange \in Nat /\ Cardinality(Fibers) < ValueRange
  BY CounterAssumption, FibtexAssumption
<1>2. IsFiniteSet(TaskFibers) /\ Cardinality(TaskFibers) = Cardinality(Fibers) - 1
  BY <1>1, FS_RemoveElement DEF TaskFibers
<1>3. Cardinality(Fibers) \in Nat /\ Cardinality(TaskFibers) \in Nat
  BY <1>1, <1>2, FS_CardinalityType
<1> QED
  BY <1>1, <1>2, <1>3, FibtexAssumption DEF TaskCount, TaskFibers

\* What each operation does with the value.
LEMMA CompareExchanges ==
  ASSUME NEW a, NEW b, NEW v
  PROVE  /\ NewValue(CompareExchange(a, b), v) = IF v = a THEN b ELSE v
         /\ Stores(CompareExchange(a, b), v) <=> v = a
         /\ ResultOf(CompareExchange(a, b), v) = (v = a)
<1>1. /\ CompareExchange(a, b).kind = "CompareExchange"
      /\ CompareExchange(a, b).expected = a /\ CompareExchange(a, b).new = b
  BY DEF CompareExchange
<1>2. NewValue(CompareExchange(a, b), v) = IF v = a THEN b ELSE v
  BY <1>1 DEF NewValue
<1> QED
  BY <1>1, <1>2 DEF Stores, ResultOf

LEMMA Subtracts ==
  ASSUME NEW v \in Values
  PROVE  /\ NewValue(FetchSub(1), v) = IF v = 0 THEN ValueRange - 1 ELSE v - 1
         /\ Stores(FetchSub(1), v) /\ ResultOf(FetchSub(1), v) = v
<1>1. FetchSub(1).kind = "FetchSub" /\ FetchSub(1).x = 1
  BY DEF FetchSub
<1>2. NewValue(FetchSub(1), v) = (v - 1) % ValueRange
  BY <1>1 DEF NewValue
<1>3. (v - 1) % ValueRange = IF v = 0 THEN ValueRange - 1 ELSE v - 1
  BY FiberConstants DEF Values
<1> QED
  BY <1>1, <1>2, <1>3 DEF Stores, ResultOf

LEMMA Adds ==
  ASSUME NEW o \in {FetchAdd(TaskCount), Store(TaskCount)}
  PROVE  NewValue(o, 0) = TaskCount /\ Stores(o, 0) /\ ResultOf(o, 0) = 0
<1>1. CASE o = FetchAdd(TaskCount)
  <2>1. o.kind = "FetchAdd" /\ o.x = TaskCount
    BY <1>1 DEF FetchAdd
  <2>2. NewValue(o, 0) = (0 + TaskCount) % ValueRange
    BY <2>1 DEF NewValue
  <2>3. (0 + TaskCount) % ValueRange = TaskCount
    BY FiberConstants
  <2> QED
    BY <2>1, <2>2, <2>3 DEF Stores, ResultOf
<1>2. CASE o = Store(TaskCount)
  <2>1. o.kind = "Store" /\ o.x = TaskCount
    BY <1>2 DEF Store
  <2>2. NewValue(o, 0) = TaskCount
    BY <2>1 DEF NewValue
  <2> QED
    BY <2>1, <2>2 DEF Stores, ResultOf
<1> QED
  BY <1>1, <1>2

LEMMA Loads ==
  ASSUME NEW v
  PROVE  NewValue(Load, v) = v /\ ~Stores(Load, v) /\ ResultOf(Load, v) = v
<1>1. Load.kind = "Load"
  BY DEF Load
<1>2. NewValue(Load, v) = v
  BY <1>1 DEF NewValue
<1> QED
  BY <1>1, <1>2 DEF Stores, ResultOf

-----------------------------------------------------------------------------
\* One fiber goes to a stage and a call: what becomes of the functions, ...
LEMMA FiberMoves ==
  ASSUME FibtexShape, NEW f \in Fibers, NEW s, NEW r,
         stage' = [stage EXCEPT ![f] = s], call' = [call EXCEPT ![f] = r]
  PROVE  /\ stage'[f] = s /\ call'[f] = r
         /\ \A g \in Fibers : g # f => stage'[g] = stage[g] /\ call'[g] = call[g]
         /\ stage' = [g \in Fibers |-> stage'[g]] /\ call' = [g \in Fibers |-> call'[g]]
BY DEF FibtexShape

\* ... of the calls that fit the stages, ...
LEMMA CallsStillFit ==
  ASSUME FibtexShape, CallsFit, NEW f \in Fibers, NEW s, NEW r,
         stage' = [stage EXCEPT ![f] = s], call' = [call EXCEPT ![f] = r],
         IF f = Main THEN MainFits(s, r) ELSE TaskFits(s, r)
  PROVE  CallsFit'
<1>1. stage'[f] = s /\ call'[f] = r /\ \A g \in Fibers : g # f => stage'[g] = stage[g] /\ call'[g] = call[g]
  BY FiberMoves
<1>2. Main \in Fibers /\ TaskFibers \subseteq Fibers /\ Main \notin TaskFibers
  BY FiberConstants
<1>3. MainFits(stage'[Main], call'[Main])
  BY <1>1, <1>2 DEF CallsFit
<1>4. ASSUME NEW g \in TaskFibers
      PROVE  TaskFits(stage'[g], call'[g])
  BY <1>1, <1>2, <1>4 DEF CallsFit
<1> QED
  BY <1>3, <1>4 DEF CallsFit

\* ... of the holders of the mutex, ...
LEMMA HoldersAre == Holders = {f \in TaskFibers : Holds(stage[f], call[f])}
BY DEF Holders, Holds

LEMMA HoldersMove ==
  ASSUME FibtexShape, NEW f \in TaskFibers, NEW s, NEW r,
         stage' = [stage EXCEPT ![f] = s], call' = [call EXCEPT ![f] = r]
  PROVE  /\ f \in Holders <=> Holds(stage[f], call[f])
         /\ Holders' = IF Holds(s, r) THEN Holders \union {f} ELSE Holders \ {f}
<1>1. stage'[f] = s /\ call'[f] = r /\ \A g \in TaskFibers : g # f => stage'[g] = stage[g] /\ call'[g] = call[g]
  <2>1. f \in Fibers /\ TaskFibers \subseteq Fibers
    BY FiberConstants
  <2>2. stage'[f] = s /\ call'[f] = r /\ \A g \in Fibers : g # f => stage'[g] = stage[g] /\ call'[g] = call[g]
    BY <2>1, FiberMoves
  <2> QED
    BY <2>1, <2>2
<1>2. Holders' = {g \in TaskFibers : Holds(stage'[g], call'[g])}
  BY DEF Holders, Holds
<1> QED
  BY <1>1, <1>2, HoldersAre

LEMMA HoldersStay ==
  ASSUME FibtexShape, NEW s, NEW r,
         stage' = [stage EXCEPT ![Main] = s], call' = [call EXCEPT ![Main] = r]
  PROVE  Holders' = Holders /\ Running' = Running
<1>1. \A g \in TaskFibers : stage'[g] = stage[g] /\ call'[g] = call[g]
  BY FiberMoves, FiberConstants
<1>2. Holders' = {g \in TaskFibers : Holds(stage'[g], call'[g])}
  BY DEF Holders, Holds
<1>3. Running' = Running
  BY <1>1 DEF Running
<1> QED
  BY <1>1, <1>2, <1>3, HoldersAre

\* ... of the tasks that have not counted down, ...
LEMMA RunningMove ==
  ASSUME FibtexShape, NEW f \in TaskFibers, NEW s, NEW r,
         stage' = [stage EXCEPT ![f] = s], call' = [call EXCEPT ![f] = r]
  PROVE  /\ f \in Running <=> ~Counted(stage[f], call[f])
         /\ Running' = IF Counted(s, r) THEN Running \ {f} ELSE Running \union {f}
<1>1. stage'[f] = s /\ call'[f] = r /\ \A g \in TaskFibers : g # f => stage'[g] = stage[g] /\ call'[g] = call[g]
  <2>1. f \in Fibers /\ TaskFibers \subseteq Fibers
    BY FiberConstants
  <2>2. stage'[f] = s /\ call'[f] = r /\ \A g \in Fibers : g # f => stage'[g] = stage[g] /\ call'[g] = call[g]
    BY <2>1, FiberMoves
  <2> QED
    BY <2>1, <2>2
<1>2. Running' = {g \in TaskFibers : ~Counted(stage'[g], call'[g])}
  BY DEF Running
<1> QED
  BY <1>1, <1>2 DEF Running

LEMMA RunningFinite == IsFiniteSet(Running) /\ Cardinality(Running) \in Nat
<1>1. IsFiniteSet(Running)
  BY FiberConstants, FS_Subset DEF Running
<1> QED
  BY <1>1, FS_CardinalityType

LEMMA HoldersFinite == IsFiniteSet(Holders) /\ Cardinality(Holders) \in Nat
<1>1. IsFiniteSet(Holders)
  BY FiberConstants, FS_Subset DEF Holders
<1> QED
  BY <1>1, FS_CardinalityType

\* ... and of those inside a counter.
LEMMA CallersMove ==
  ASSUME FibtexShape, NEW f \in Fibers, NEW r, NEW c, call' = [call EXCEPT ![f] = r]
  PROVE  /\ f \in CallersOf(c) <=> InCall(call[f], c)
         /\ CallersOf(c)' = IF InCall(r, c) THEN CallersOf(c) \union {f} ELSE CallersOf(c) \ {f}
         /\ IsFiniteSet(CallersOf(c)) /\ Cardinality(CallersOf(c)) \in Nat
<1>1. call'[f] = r /\ \A g \in Fibers : g # f => call'[g] = call[g]
  BY DEF FibtexShape
<1>2. CallersOf(c)' = {g \in Fibers : InCall(call'[g], c)}
  BY DEF CallersOf
<1>3. IsFiniteSet(CallersOf(c))
  BY FiberConstants, FS_Subset DEF CallersOf
<1>4. Cardinality(CallersOf(c)) \in Nat
  BY <1>3, FS_CardinalityType
<1> QED
  BY <1>1, <1>2, <1>3, <1>4 DEF CallersOf

\* m_lock counts them when a call begins, ...
LEMMA EnterCounts ==
  ASSUME FibtexShape, InsideCounted, NEW f \in Fibers, NEW c \in Counters, NEW o,
         \A d \in Counters : ~InCall(call[f], d),
         inside' = [inside EXCEPT ![c] = @ + 1], call' = [call EXCEPT ![f] = Entered(c, o)]
  PROVE  InsideCounted' /\ inside' \in [Counters -> Int]
<1> DEFINE r == Entered(c, o)
<1>1. \A d \in Counters : InCall(r, d) <=> d = c
  BY DEF InCall, Entered
<1> HIDE DEF r
<1>2. ASSUME NEW d \in Counters
      PROVE  inside'[d] = Cardinality(CallersOf(d)')
  <2>1. /\ f \notin CallersOf(d) /\ IsFiniteSet(CallersOf(d)) /\ Cardinality(CallersOf(d)) \in Nat
        /\ CallersOf(d)' = IF InCall(r, d) THEN CallersOf(d) \union {f} ELSE CallersOf(d) \ {f}
    BY CallersMove DEF r
  <2>2. inside[d] = Cardinality(CallersOf(d)) /\ inside \in [Counters -> Int]
    BY DEF InsideCounted, FibtexShape
  <2>3. CASE d = c
    <3>1. CallersOf(d)' = CallersOf(d) \union {f}
      BY <1>1, <2>1, <2>3
    <3>2. Cardinality(CallersOf(d)') = Cardinality(CallersOf(d)) + 1
      BY <2>1, <3>1, FS_AddElement
    <3> QED
      BY <2>2, <2>3, <3>2
  <2>4. CASE d # c
    <3>1. CallersOf(d)' = CallersOf(d)
      BY <1>1, <2>1, <2>4
    <3> QED
      BY <2>2, <2>4, <3>1
  <2> QED
    BY <2>3, <2>4
<1> QED
  BY <1>2 DEF InsideCounted, FibtexShape

\* ... and no more when it ends, ...
LEMMA LeaveCounts ==
  ASSUME FibtexShape, InsideCounted, NEW f \in Fibers, NEW c \in Counters, NEW r,
         \A d \in Counters : InCall(call[f], d) <=> d = c,
         \A d \in Counters : ~InCall(r, d),
         inside' = [inside EXCEPT ![c] = @ - 1], call' = [call EXCEPT ![f] = r]
  PROVE  InsideCounted' /\ inside' \in [Counters -> Int]
<1>1. ASSUME NEW d \in Counters
      PROVE  inside'[d] = Cardinality(CallersOf(d)')
  <2>1. /\ f \in CallersOf(d) <=> d = c
        /\ IsFiniteSet(CallersOf(d)) /\ Cardinality(CallersOf(d)) \in Nat
        /\ CallersOf(d)' = CallersOf(d) \ {f}
    BY CallersMove
  <2>2. inside[d] = Cardinality(CallersOf(d)) /\ inside \in [Counters -> Int]
    BY DEF InsideCounted, FibtexShape
  <2>3. CASE d = c
    <3>1. Cardinality(CallersOf(d)') = Cardinality(CallersOf(d)) - 1
      BY <2>1, <2>3, FS_RemoveElement
    <3> QED
      BY <2>2, <2>3, <3>1
  <2>4. CASE d # c
    <3>1. CallersOf(d)' = CallersOf(d)
      BY <2>1, <2>4
    <3> QED
      BY <2>2, <2>4, <3>1
  <2> QED
    BY <2>3, <2>4
<1> QED
  BY <1>1 DEF InsideCounted, FibtexShape

\* ... and while it goes on it stays the same.
LEMMA StayCounts ==
  ASSUME FibtexShape, InsideCounted, NEW f \in Fibers, NEW r,
         \A d \in Counters : InCall(r, d) <=> InCall(call[f], d),
         inside' = inside, call' = [call EXCEPT ![f] = r]
  PROVE  InsideCounted'
<1>1. ASSUME NEW d \in Counters
      PROVE  CallersOf(d)' = CallersOf(d)
  <2>1. /\ f \in CallersOf(d) <=> InCall(call[f], d)
        /\ CallersOf(d)' = IF InCall(r, d) THEN CallersOf(d) \union {f} ELSE CallersOf(d) \ {f}
    BY CallersMove
  <2> QED
    BY <2>1
<1> QED
  BY <1>1 DEF InsideCounted

-----------------------------------------------------------------------------
\* A task goes on without a change to the values or to who waits, and neither
\* gets nor gives back the mutex nor counts down.
LEMMA TaskMoves ==
  ASSUME FibtexIInv, NEW f \in TaskFibers, NEW s, NEW r,
         stage' = [stage EXCEPT ![f] = s], call' = [call EXCEPT ![f] = r],
         UNCHANGED <<value, waiting, destroyed>>,
         TaskFits(s, r), s = "new" <=> stage[f] = "new",
         Holds(s, r) <=> Holds(stage[f], call[f]),
         Counted(s, r) <=> Counted(stage[f], call[f]),
         r.at # "checking", call[f].at \notin {"listed", "asleep"},
         inside' \in [Counters -> Int], InsideCounted',
         \A c \in Counters : InCall(r, c) => InCall(call[f], c) \/ c \notin destroyed,
         WaysFit'
  PROVE  FibtexIInv'
<1>1. /\ FibtexShape /\ CallsFit /\ InsideCounted /\ WaitersSleep
      /\ OneHolder /\ TasksCounted /\ ZeroIsFinal /\ DestroyedAtRest
  BY DEF FibtexIInv
<1>2. f \in Fibers /\ f # Main /\ Main \in Fibers /\ TaskFibers \subseteq Fibers
  BY FiberConstants
<1>3. /\ stage'[f] = s /\ call'[f] = r
      /\ \A g \in Fibers : g # f => stage'[g] = stage[g] /\ call'[g] = call[g]
      /\ stage' = [g \in Fibers |-> stage'[g]] /\ call' = [g \in Fibers |-> call'[g]]
  BY <1>1, <1>2, FiberMoves
<1>4. FibtexShape'
  BY <1>1, <1>3 DEF FibtexShape
<1>5. CallsFit'
  BY <1>1, <1>2, CallsStillFit
<1>6. WaitersSleep'
  <2>1. ASSUME NEW c \in Counters, NEW w \in waiting[c]
        PROVE  w[2] = 0 /\ (call'[w[1]] = Sleeper("listed", c) \/ call'[w[1]] = Sleeper("asleep", c))
    <3>1. w[2] = 0 /\ (call[w[1]] = Sleeper("listed", c) \/ call[w[1]] = Sleeper("asleep", c))
      BY <1>1 DEF WaitersSleep
    <3>2. w[1] \in Fibers
      BY <1>1 DEF FibtexShape
    <3>3. w[1] # f
      BY <3>1 DEF Sleeper
    <3> QED
      BY <1>3, <3>1, <3>2, <3>3
  <2> QED
    BY <2>1 DEF WaitersSleep
<1>7. Holders' = Holders
  <2>1. /\ f \in Holders <=> Holds(stage[f], call[f])
        /\ Holders' = IF Holds(s, r) THEN Holders \union {f} ELSE Holders \ {f}
    BY <1>1, HoldersMove
  <2> QED
    BY <2>1
<1>8. OneHolder'
  BY <1>1, <1>7 DEF OneHolder
<1>9. Running' = Running
  <2>1. /\ f \in Running <=> ~Counted(stage[f], call[f])
        /\ Running' = IF Counted(s, r) THEN Running \ {f} ELSE Running \union {f}
    BY <1>1, RunningMove
  <2> QED
    BY <2>1
<1>10. TasksCounted'
  BY <1>1, <1>2, <1>3, <1>9 DEF TasksCounted
<1>11. ZeroIsFinal'
  BY <1>1, <1>2, <1>3, <1>9 DEF ZeroIsFinal
<1>12. DestroyedAtRest'
  BY <1>1, <1>2, <1>3 DEF DestroyedAtRest, FibtexShape
<1> QED
  BY <1>4, <1>5, <1>6, <1>8, <1>10, <1>11, <1>12 DEF FibtexIInv

\* The main fiber goes on without a change to the values or to who waits.
LEMMA MainMoves ==
  ASSUME FibtexIInv, NEW s, NEW r,
         stage' = [stage EXCEPT ![Main] = s], call' = [call EXCEPT ![Main] = r],
         UNCHANGED <<value, waiting, destroyed, way, spins, locks>>,
         MainFits(s, r), s \in {"start", "adding"} <=> stage[Main] \in {"start", "adding"},
         MainCounts(s, r) <=> MainCounts(stage[Main], call[Main]),
         MainGoesOn(s, r, <<Main, 0>> \in waiting["tasks"]) => Running = {},
         call[Main].at \notin {"listed", "asleep"},
         inside' \in [Counters -> Int], InsideCounted',
         \A c \in Counters : InCall(r, c) => InCall(call[Main], c) \/ destroyed = {},
         stage[Main] = "destroying" => s = "destroying"
  PROVE  FibtexIInv'
<1>1. /\ FibtexShape /\ CallsFit /\ InsideCounted /\ WaitersSleep
      /\ OneHolder /\ TasksCounted /\ ZeroIsFinal /\ DestroyedAtRest
  BY DEF FibtexIInv
<1>2. Main \in Fibers /\ Main \notin TaskFibers /\ TaskFibers \subseteq Fibers
  BY FiberConstants
<1>3. /\ stage'[Main] = s /\ call'[Main] = r
      /\ \A g \in Fibers : g # Main => stage'[g] = stage[g] /\ call'[g] = call[g]
      /\ stage' = [g \in Fibers |-> stage'[g]] /\ call' = [g \in Fibers |-> call'[g]]
  BY <1>1, <1>2, FiberMoves
<1>4. FibtexShape'
  BY <1>1, <1>3 DEF FibtexShape, WaysFit
<1>5. CallsFit'
  BY <1>1, <1>2, CallsStillFit
<1>6. WaitersSleep'
  <2>1. ASSUME NEW c \in Counters, NEW w \in waiting[c]
        PROVE  w[2] = 0 /\ (call'[w[1]] = Sleeper("listed", c) \/ call'[w[1]] = Sleeper("asleep", c))
    <3>1. w[2] = 0 /\ (call[w[1]] = Sleeper("listed", c) \/ call[w[1]] = Sleeper("asleep", c))
      BY <1>1 DEF WaitersSleep
    <3>2. w[1] \in Fibers
      BY <1>1 DEF FibtexShape
    <3>3. w[1] # Main
      BY <3>1 DEF Sleeper
    <3> QED
      BY <1>3, <3>1, <3>2, <3>3
  <2> QED
    BY <2>1 DEF WaitersSleep
<1>7. Holders' = Holders /\ Running' = Running
  BY <1>1, HoldersStay
<1>8. OneHolder'
  BY <1>1, <1>7 DEF OneHolder
<1>9. \A g \in TaskFibers : stage'[g] = stage[g] /\ call'[g] = call[g]
  BY <1>2, <1>3
<1>10. TasksCounted'
  BY <1>1, <1>3, <1>7, <1>9 DEF TasksCounted
<1>11. ZeroIsFinal'
  BY <1>1, <1>3, <1>7, <1>9 DEF ZeroIsFinal
<1>12. DestroyedAtRest'
  BY <1>1, <1>2, <1>3 DEF DestroyedAtRest, FibtexShape
<1> QED
  BY <1>4, <1>5, <1>6, <1>8, <1>10, <1>11, <1>12 DEF FibtexIInv

-----------------------------------------------------------------------------
\* As long as a task has not counted down nothing is destroyed.
LEMMA NoneDestroyed ==
  ASSUME FibtexIInv, NEW f \in TaskFibers, ~Counted(stage[f], call[f])
  PROVE  destroyed = {}
<1>1. f \in Running
  BY DEF Running
<1>2. stage[Main] # "destroying"
  BY <1>1 DEF FibtexIInv, ZeroIsFinal, MainGoesOn
<1> QED
  BY <1>2 DEF FibtexIInv, DestroyedAtRest

\* A task is in no call, calls or has a result, and stays outside of calls.
LEMMA TaskMovesOutside ==
  ASSUME FibtexIInv, NEW f \in TaskFibers, NEW s,
         call[f] = NoCall \/ call[f].at = "returned",
         stage' = [stage EXCEPT ![f] = s], call' = [call EXCEPT ![f] = NoCall],
         UNCHANGED <<value, waiting, inside, destroyed>>,
         TaskFits(s, NoCall), s # "new", stage[f] # "new",
         Holds(s, NoCall) <=> Holds(stage[f], call[f]),
         s = "ended" <=> Counted(stage[f], call[f]),
         WaysFit'
  PROVE  FibtexIInv'
<1>1. f \in Fibers /\ FibtexShape /\ InsideCounted
  BY FiberConstants DEF FibtexIInv
<1>2. NoCall.at = "none" /\ call[f].at \in {"none", "returned"}
  BY DEF NoCall
<1>3. \A d \in Counters : ~InCall(NoCall, d) /\ ~InCall(call[f], d)
  BY <1>2 DEF InCall
<1>4. InsideCounted' /\ inside' \in [Counters -> Int]
  BY <1>1, <1>3, StayCounts DEF FibtexShape
<1>5. Counted(s, NoCall) <=> Counted(stage[f], call[f])
  <2>1. s # "ending"
    BY <1>2 DEF TaskFits, EndCallForm, NoCall, Entered, Accessed, Done
  <2> QED
    BY <2>1 DEF Counted
<1> QED
  BY <1>2, <1>3, <1>4, <1>5, TaskMoves

\* A task that is in no call begins one.
LEMMA TaskEnters ==
  ASSUME FibtexIInv, NEW f \in TaskFibers, NEW s, NEW c \in Counters, NEW o,
         call[f] = NoCall, Enter(f, c, o), stage' = [stage EXCEPT ![f] = s], UNCHANGED ownVars,
         TaskFits(s, Entered(c, o)), s # "new", stage[f] \in {"ready", "locking", "holding"},
         Holds(s, Entered(c, o)) <=> Holds(stage[f], call[f]), s # "ended"
  PROVE  FibtexIInv'
<1>1. f \in Fibers /\ FibtexShape /\ InsideCounted
  BY FiberConstants DEF FibtexIInv
<1>2. /\ call' = [call EXCEPT ![f] = Entered(c, o)] /\ inside' = [inside EXCEPT ![c] = @ + 1]
      /\ UNCHANGED <<value, waiting, destroyed>>
  BY DEF Enter, Proceeds, Entered
<1>3. call[f].at = "none" /\ Entered(c, o).at = "entered"
  BY DEF NoCall, Entered
<1>4. InsideCounted' /\ inside' \in [Counters -> Int]
  BY <1>1, <1>2, <1>3, EnterCounts DEF InCall
<1>5. ~Counted(stage[f], call[f]) /\ ~Counted(s, Entered(c, o))
  BY <1>3 DEF Counted
<1>6. destroyed = {}
  BY <1>5, NoneDestroyed
<1>7. WaysFit'
  BY <1>1 DEF ownVars, FibtexShape, WaysFit
<1> QED
  BY <1>2, <1>3, <1>4, <1>5, <1>6, <1>7, TaskMoves

LEMMA BeginOK ==
  ASSUME FibtexIInv, NEW f \in TaskFibers, NEW b \in Behaviors[f], Begin(f, b)
  PROVE  FibtexIInv'
<1>1. f \in Fibers /\ FibtexShape
  BY FiberConstants DEF FibtexIInv
<1>2. b \in {"Traditional", "Spin", "SpinInfinite", "Try"}
  BY FibtexAssumption DEF TaskFibers
<1>3. WaysFit'
  <2>1. /\ way \in [Fibers -> {"Traditional", "Spin", "SpinInfinite", "Try"}]
        /\ spins \in [Fibers -> 0 .. Iterations] /\ locks \in [Fibers -> 0 .. MaxLocks]
        /\ \A g \in Fibers : way[g] = "Spin" => spins[g] > 0
        /\ Iterations \in Nat \ {0} /\ MaxLocks \in Nat
    BY <1>1, FibtexAssumption DEF FibtexShape, WaysFit
  <2>2. way' \in [Fibers -> {"Traditional", "Spin", "SpinInfinite", "Try"}]
    BY <1>2, <2>1 DEF Begin
  <2>3. spins' = [spins EXCEPT ![f] = IF way'[f] = "Spin" THEN Iterations ELSE 0]
    BY DEF Begin
  <2>4. spins' \in [Fibers -> 0 .. Iterations]
    <3>1. (IF way'[f] = "Spin" THEN Iterations ELSE 0) \in 0 .. Iterations
      BY <2>1
    <3> QED
      BY <2>1, <2>3, <3>1
  <2>5. locks[f] + 1 \in 0 .. MaxLocks
    BY <1>1, <2>1 DEF Begin
  <2>6. locks' \in [Fibers -> 0 .. MaxLocks]
    BY <2>1, <2>5 DEF Begin
  <2>7. \A g \in Fibers : way'[g] = "Spin" => spins'[g] > 0
    <3>1. \A g \in Fibers \ {f} : way'[g] = way[g] /\ spins'[g] = spins[g]
      BY <2>1 DEF Begin
    <3>2. way'[f] = "Spin" => spins'[f] > 0
      BY <1>1, <2>1, <2>3
    <3> QED
      BY <2>1, <3>1, <3>2
  <2> QED
    BY <2>2, <2>4, <2>6, <2>7 DEF WaysFit
<1>6. /\ stage[f] = "ready" /\ call[f] = NoCall /\ stage' = [stage EXCEPT ![f] = "locking"]
      /\ call' = [call EXCEPT ![f] = NoCall] /\ UNCHANGED <<value, waiting, inside, destroyed>>
  BY <1>1 DEF Begin, Free, Goes, counterVars, FibtexShape
<1>7. TaskFits("locking", NoCall) /\ ~Holds("locking", NoCall)
  BY DEF TaskFits, LockCall, Holds, NoCall
<1>8. ~Holds(stage[f], call[f]) /\ ~Counted(stage[f], call[f])
  BY <1>6 DEF Holds, Counted
<1> QED
  BY <1>3, <1>6, <1>7, <1>8, TaskMovesOutside

LEMMA AttemptOK ==
  ASSUME FibtexIInv, NEW f \in TaskFibers, Attempt(f)
  PROVE  FibtexIInv'
<1>1. f \in Fibers /\ FibtexShape /\ "mutex" \in Counters
  BY FiberConstants DEF FibtexIInv
<1>2. /\ stage[f] = "locking" /\ call[f] = NoCall /\ stage' = [stage EXCEPT ![f] = "locking"]
      /\ Enter(f, "mutex", CompareExchange(0, 1)) /\ UNCHANGED ownVars
  BY <1>1 DEF Attempt, Free, FibtexShape
<1>3. TaskFits("locking", Entered("mutex", CompareExchange(0, 1)))
  BY DEF TaskFits, LockCall
<1>4. ~Holds("locking", Entered("mutex", CompareExchange(0, 1))) /\ ~Holds("locking", NoCall)
  BY DEF Holds, Entered, NoCall
<1> QED
  BY <1>1, <1>2, <1>3, <1>4, TaskEnters

LEMMA UnlockOK ==
  ASSUME FibtexIInv, NEW f \in TaskFibers, Unlock(f)
  PROVE  FibtexIInv'
<1>1. f \in Fibers /\ FibtexShape /\ "mutex" \in Counters
  BY FiberConstants DEF FibtexIInv
<1>2. /\ stage[f] = "holding" /\ call[f] = NoCall /\ stage' = [stage EXCEPT ![f] = "unlocking"]
      /\ Enter(f, "mutex", CompareExchange(1, 0)) /\ UNCHANGED ownVars
  BY <1>1 DEF Unlock, Free, Goes, FibtexShape
<1>3. TaskFits("unlocking", Entered("mutex", CompareExchange(1, 0)))
  BY DEF TaskFits, UnlockCall
<1>4. Holds("unlocking", Entered("mutex", CompareExchange(1, 0))) /\ Holds("holding", NoCall)
  BY DEF Holds, Entered
<1> QED
  BY <1>1, <1>2, <1>3, <1>4, TaskEnters

LEMMA EndTaskOK ==
  ASSUME FibtexIInv, NEW f \in TaskFibers, EndTask(f)
  PROVE  FibtexIInv'
<1>1. f \in Fibers /\ FibtexShape /\ "tasks" \in Counters
  BY FiberConstants DEF FibtexIInv
<1>2. /\ stage[f] = "ready" /\ call[f] = NoCall /\ stage' = [stage EXCEPT ![f] = "ending"]
      /\ Enter(f, "tasks", FetchSub(1)) /\ UNCHANGED ownVars
  BY <1>1 DEF EndTask, Free, Goes, FibtexShape
<1>3. TaskFits("ending", Entered("tasks", FetchSub(1)))
  BY DEF TaskFits, EndCallForm
<1>4. ~Holds("ending", Entered("tasks", FetchSub(1))) /\ ~Holds("ready", NoCall)
  BY DEF Holds
<1> QED
  BY <1>1, <1>2, <1>3, <1>4, TaskEnters

\* The fields of the forms of a call.
LEMMA CallForms ==
  /\ NoCall.at = "none"
  /\ \A c, o : Entered(c, o).at = "entered" /\ Entered(c, o).counter = c /\ Entered(c, o).o = o
  /\ \A at, c, n, x :
       /\ Accessed(at, c, n, x).at = at /\ Accessed(at, c, n, x).counter = c
       /\ Accessed(at, c, n, x).new = n /\ Accessed(at, c, n, x).result = x
  /\ \A at, c : /\ Sleeper(at, c).at = at /\ Sleeper(at, c).counter = c /\ Sleeper(at, c).target = 0
  /\ \A c : Lost(c).at = "lost" /\ Lost(c).counter = c
  /\ \A x : Done(x).at = "returned" /\ Done(x).result = x
BY DEF NoCall, Entered, Accessed, Sleeper, Lost, Done

\* A call that has returned has none of the other forms.
LEMMA OtherForms ==
  ASSUME NEW r, r.at = "returned"
  PROVE  /\ r # NoCall
         /\ \A c, o : r # Entered(c, o)
         /\ \A c, n, x : r # Accessed("checking", c, n, x) /\ r # Accessed("leaving", c, n, x)
         /\ \A c : r # Sleeper("listed", c) /\ r # Sleeper("asleep", c) /\ r # Lost(c)
BY CallForms

\* The results of the calls of a task that have returned.
LEMMA ResultsFit ==
  ASSUME FibtexIInv, NEW f \in TaskFibers, call[f].at = "returned"
  PROVE  /\ stage[f] = "locking" => call[f] = Done(TRUE) \/ call[f] = Done(FALSE)
         /\ stage[f] \in {"waiting", "unlocking"} => call[f] = Done(TRUE)
         /\ stage[f] \in {"locking", "waiting", "unlocking", "ending"}
<1>1. TaskFits(stage[f], call[f])
  BY DEF FibtexIInv, CallsFit
<1>2. stage[f] = "locking" => call[f] = Done(TRUE) \/ call[f] = Done(FALSE)
  <2> SUFFICES ASSUME stage[f] = "locking"
               PROVE  call[f] = Done(TRUE) \/ call[f] = Done(FALSE)
    OBVIOUS
  <2>1. LockCall(call[f])
    BY <1>1 DEF TaskFits
  <2> QED
    BY <2>1, OtherForms, Zenon DEF LockCall
<1>3. stage[f] = "waiting" => call[f] = Done(TRUE)
  <2> SUFFICES ASSUME stage[f] = "waiting"
               PROVE  call[f] = Done(TRUE)
    OBVIOUS
  <2>1. Sleeps(call[f], "mutex")
    BY <1>1 DEF TaskFits
  <2> QED
    BY <2>1, OtherForms, Zenon DEF Sleeps
<1>4. stage[f] = "unlocking" => call[f] = Done(TRUE)
  <2> SUFFICES ASSUME stage[f] = "unlocking"
               PROVE  call[f] = Done(TRUE)
    OBVIOUS
  <2>1. UnlockCall(call[f])
    BY <1>1 DEF TaskFits
  <2> QED
    BY <2>1, OtherForms, Zenon DEF UnlockCall
<1>5. stage[f] \in {"locking", "waiting", "unlocking", "ending"}
  BY <1>1 DEF TaskFits, NoCall
<1> QED
  BY <1>2, <1>3, <1>4, <1>5

\* What a step that ends a call of a task leaves to show.
LEMMA TaskEndsCall ==
  ASSUME FibtexIInv, NEW f \in TaskFibers, NEW s, call[f].at = "returned", EndCall(f),
         stage' = [stage EXCEPT ![f] = s], TaskFits(s, NoCall), s # "new",
         Holds(s, NoCall) <=> Holds(stage[f], call[f]),
         s = "ended" <=> stage[f] = "ending",
         WaysFit'
  PROVE  FibtexIInv'
<1>1. /\ call' = [call EXCEPT ![f] = NoCall] /\ UNCHANGED <<value, waiting, inside, destroyed>>
  BY DEF EndCall
<1>2. stage[f] \in {"locking", "waiting", "unlocking", "ending"}
  BY ResultsFit
<1>3. Counted(stage[f], call[f]) <=> stage[f] = "ending"
  BY <1>2 DEF Counted
<1> QED
  BY <1>1, <1>2, <1>3, TaskMovesOutside

LEMMA LockedOK ==
  ASSUME FibtexIInv, NEW f \in TaskFibers, Locked(f) \/ GiveUp(f)
  PROVE  FibtexIInv'
<1> DEFINE s == IF call[f].result THEN "holding" ELSE "ready"
<1>1. f \in Fibers /\ FibtexShape /\ Iterations \in Nat
  BY FiberConstants, FibtexAssumption DEF FibtexIInv
<1>2. /\ stage[f] = "locking" /\ call[f].at = "returned" /\ EndCall(f) /\ EndLocking(f)
      /\ stage' = [stage EXCEPT ![f] = s] /\ locks' = locks
  BY DEF Locked, GiveUp, Returned, Goes
<1>3. WaysFit'
  BY <1>1, <1>2 DEF EndLocking, FibtexShape, WaysFit
<1>4. TaskFits(s, NoCall) /\ s # "new" /\ s # "ended"
  BY DEF TaskFits
<1>5. Holds(s, NoCall) <=> Holds(stage[f], call[f])
  BY <1>2 DEF Holds
<1> HIDE DEF s
<1> QED
  BY <1>2, <1>3, <1>4, <1>5, TaskEndsCall

LEMMA SpinOK ==
  ASSUME FibtexIInv, NEW f \in TaskFibers, Spin(f)
  PROVE  FibtexIInv'
<1>1. f \in Fibers /\ FibtexShape /\ Iterations \in Nat
  BY FiberConstants, FibtexAssumption DEF FibtexIInv
<1>2. /\ stage[f] = "locking" /\ call[f].at = "returned" /\ ~call[f].result /\ EndCall(f)
      /\ stage' = [stage EXCEPT ![f] = "locking"] /\ locks' = locks
  BY <1>1 DEF Spin, Returned, FibtexShape
<1>3. WaysFit'
  <2>1. /\ way \in [Fibers -> {"Traditional", "Spin", "SpinInfinite", "Try"}]
        /\ spins \in [Fibers -> 0 .. Iterations] /\ locks \in [Fibers -> 0 .. MaxLocks]
        /\ \A g \in Fibers : way[g] = "Spin" => spins[g] > 0
    BY <1>1 DEF FibtexShape, WaysFit
  <2>2. CASE way[f] = "SpinInfinite"
    BY <1>2, <2>1, <2>2 DEF Spin, WaysFit
  <2>3. CASE way[f] = "Spin"
    <3>1. spins[f] - 1 \in 0 .. Iterations
      BY <1>1, <2>1, <2>3
    <3>2. /\ spins' = [spins EXCEPT ![f] = spins[f] - 1]
          /\ way' = [way EXCEPT ![f] = IF spins[f] > 1 THEN way[f] ELSE "Traditional"]
      BY <2>3 DEF Spin
    <3>3. /\ spins' \in [Fibers -> 0 .. Iterations]
          /\ way' \in [Fibers -> {"Traditional", "Spin", "SpinInfinite", "Try"}]
      BY <1>1, <2>1, <3>1, <3>2
    <3>4. \A g \in Fibers : way'[g] = "Spin" => spins'[g] > 0
      BY <1>1, <2>1, <2>3, <3>2
    <3> QED
      BY <1>2, <2>1, <3>3, <3>4 DEF WaysFit
  <2> QED
    BY <2>2, <2>3 DEF Spin
<1>5. TaskFits("locking", NoCall) /\ ~Holds("locking", NoCall) /\ ~Holds(stage[f], call[f])
  BY <1>2 DEF TaskFits, LockCall, Holds, NoCall
<1> QED
  BY <1>2, <1>3, <1>5, TaskEndsCall

LEMMA RetryOK ==
  ASSUME FibtexIInv, NEW f \in TaskFibers, Retry(f) \/ Unlocked(f) \/ TaskEnded(f)
  PROVE  FibtexIInv'
<1> DEFINE s == CASE stage[f] = "waiting" -> "locking"
                  [] stage[f] = "unlocking" -> "ready"
                  [] OTHER -> "ended"
<1>1. f \in Fibers /\ FibtexShape
  BY FiberConstants DEF FibtexIInv
<1>2. /\ stage[f] \in {"waiting", "unlocking", "ending"} /\ call[f].at = "returned"
      /\ EndCall(f) /\ UNCHANGED ownVars
  BY DEF Retry, Unlocked, TaskEnded, Returned
<1>3. stage' = [stage EXCEPT ![f] = s]
  BY DEF Retry, Unlocked, TaskEnded, Returned, Goes
<1>4. TaskFits(s, NoCall) /\ s # "new"
  BY DEF TaskFits, LockCall
<1>5. s = "ended" <=> stage[f] = "ending"
  BY <1>2
<1>6. ~Holds(s, NoCall)
  BY DEF Holds, NoCall
<1>7. ~Holds(stage[f], call[f])
  BY <1>2 DEF Holds
<1>8. WaysFit'
  BY <1>1, <1>2 DEF ownVars, FibtexShape, WaysFit
<1> HIDE DEF s
<1> QED
  BY <1>2, <1>3, <1>4, <1>5, <1>6, <1>7, <1>8, TaskEndsCall

-----------------------------------------------------------------------------
\* The forms differ in where the call is, ...
LEMMA FormsDiffer ==
  ASSUME NEW r
  PROVE  /\ r.at # "none" => r # NoCall
         /\ r.at # "entered" => \A c, o : r # Entered(c, o)
         /\ r.at # "checking" => \A c, n, x : r # Accessed("checking", c, n, x)
         /\ r.at # "leaving" => \A c, n, x : r # Accessed("leaving", c, n, x)
         /\ r.at # "listed" => \A c : r # Sleeper("listed", c)
         /\ r.at # "asleep" => \A c : r # Sleeper("asleep", c)
         /\ r.at # "lost" => \A c : r # Lost(c)
         /\ r.at # "returned" => \A x : r # Done(x)
BY CallForms

\* ... so that it tells what the fiber is doing: a task, ...
LEMMA TaskEntered ==
  ASSUME FibtexIInv, NEW f \in TaskFibers, call[f].at = "entered"
  PROVE  \/ stage[f] = "locking" /\ call[f] = Entered("mutex", CompareExchange(0, 1))
         \/ stage[f] = "unlocking" /\ call[f] = Entered("mutex", CompareExchange(1, 0))
         \/ stage[f] = "ending" /\ call[f] = Entered("tasks", FetchSub(1))
<1>1. TaskFits(stage[f], call[f])
  BY DEF FibtexIInv, CallsFit
<1>2. /\ call[f].at # "none" /\ call[f].at # "checking" /\ call[f].at # "leaving"
      /\ call[f].at # "listed" /\ call[f].at # "asleep" /\ call[f].at # "lost" /\ call[f].at # "returned"
  OBVIOUS
<1> QED
  BY <1>1, <1>2, FormsDiffer, ZenonT(40) DEF TaskFits, LockCall, UnlockCall, EndCallForm, Sleeps

LEMMA TaskChecking ==
  ASSUME FibtexIInv, NEW f \in TaskFibers, call[f].at = "checking"
  PROVE  \/ stage[f] = "locking" /\ call[f] = Accessed("checking", "mutex", 1, TRUE)
         \/ stage[f] = "unlocking" /\ call[f] = Accessed("checking", "mutex", 0, TRUE)
         \/ stage[f] = "ending" /\ \E v, w \in Values : call[f] = Accessed("checking", "tasks", v, w)
<1>1. TaskFits(stage[f], call[f])
  BY DEF FibtexIInv, CallsFit
<1>2. /\ call[f].at # "none" /\ call[f].at # "entered" /\ call[f].at # "leaving"
      /\ call[f].at # "listed" /\ call[f].at # "asleep" /\ call[f].at # "lost" /\ call[f].at # "returned"
  OBVIOUS
<1> QED
  BY <1>1, <1>2, FormsDiffer, ZenonT(40) DEF TaskFits, LockCall, UnlockCall, EndCallForm, Sleeps

LEMMA TaskLeaving ==
  ASSUME FibtexIInv, NEW f \in TaskFibers, call[f].at = "leaving"
  PROVE  \/ stage[f] = "locking" /\ call[f] = Accessed("leaving", "mutex", 1, TRUE)
         \/ stage[f] = "locking" /\ \E v \in Values : call[f] = Accessed("leaving", "mutex", v, FALSE)
         \/ stage[f] = "unlocking" /\ call[f] = Accessed("leaving", "mutex", 0, TRUE)
         \/ stage[f] = "ending" /\ \E v, w \in Values : call[f] = Accessed("leaving", "tasks", v, w)
<1>1. TaskFits(stage[f], call[f])
  BY DEF FibtexIInv, CallsFit
<1>2. /\ call[f].at # "none" /\ call[f].at # "entered" /\ call[f].at # "checking"
      /\ call[f].at # "listed" /\ call[f].at # "asleep" /\ call[f].at # "lost" /\ call[f].at # "returned"
  OBVIOUS
<1> QED
  BY <1>1, <1>2, FormsDiffer, ZenonT(40) DEF TaskFits, LockCall, UnlockCall, EndCallForm, Sleeps

LEMMA TaskSleeping ==
  ASSUME FibtexIInv, NEW f \in TaskFibers, call[f].at \in {"listed", "asleep"}
  PROVE  stage[f] = "waiting" /\ call[f] = Sleeper(call[f].at, "mutex")
<1>1. TaskFits(stage[f], call[f])
  BY DEF FibtexIInv, CallsFit
<1>2. /\ call[f].at # "none" /\ call[f].at # "entered" /\ call[f].at # "checking" /\ call[f].at # "leaving"
      /\ call[f].at # "lost" /\ call[f].at # "returned"
  OBVIOUS
<1>3. stage[f] = "waiting" /\ (call[f] = Sleeper("listed", "mutex") \/ call[f] = Sleeper("asleep", "mutex"))
  BY <1>1, <1>2, FormsDiffer, ZenonT(40) DEF TaskFits, LockCall, UnlockCall, EndCallForm, Sleeps
<1> QED
  BY <1>3, CallForms

\* ... and the main fiber.
LEMMA MainEntered ==
  ASSUME FibtexIInv, call[Main].at = "entered"
  PROVE  \/ /\ stage[Main] = "adding"
            /\ \E o \in {FetchAdd(TaskCount), Store(TaskCount)} : call[Main] = Entered("tasks", o)
         \/ stage[Main] \in {"looking", "reading"} /\ call[Main] = Entered("tasks", Load)
<1>1. MainFits(stage[Main], call[Main])
  BY DEF FibtexIInv, CallsFit
<1>2. /\ call[Main].at # "none" /\ call[Main].at # "checking" /\ call[Main].at # "leaving"
      /\ call[Main].at # "listed" /\ call[Main].at # "asleep" /\ call[Main].at # "lost" /\ call[Main].at # "returned"
  OBVIOUS
<1> QED
  BY <1>1, <1>2, FormsDiffer, Zenon DEF MainFits, AddCall, LookCall, ReadCall, Sleeps

LEMMA MainChecking ==
  ASSUME FibtexIInv, call[Main].at = "checking"
  PROVE  stage[Main] = "adding" /\ call[Main] = Accessed("checking", "tasks", TaskCount, 0)
<1>1. MainFits(stage[Main], call[Main])
  BY DEF FibtexIInv, CallsFit
<1>2. /\ call[Main].at # "none" /\ call[Main].at # "entered" /\ call[Main].at # "leaving"
      /\ call[Main].at # "listed" /\ call[Main].at # "asleep" /\ call[Main].at # "lost" /\ call[Main].at # "returned"
  OBVIOUS
<1> QED
  BY <1>1, <1>2, FormsDiffer, Zenon DEF MainFits, AddCall, LookCall, ReadCall, Sleeps

LEMMA MainLeaving ==
  ASSUME FibtexIInv, call[Main].at = "leaving"
  PROVE  \/ stage[Main] = "adding" /\ call[Main] = Accessed("leaving", "tasks", TaskCount, 0)
         \/ stage[Main] = "looking" /\ \E v \in Values : call[Main] = Accessed("leaving", "tasks", v, v)
         \/ stage[Main] = "reading" /\ call[Main] = Accessed("leaving", "tasks", 0, 0)
<1>1. MainFits(stage[Main], call[Main])
  BY DEF FibtexIInv, CallsFit
<1>2. /\ call[Main].at # "none" /\ call[Main].at # "entered" /\ call[Main].at # "checking"
      /\ call[Main].at # "listed" /\ call[Main].at # "asleep" /\ call[Main].at # "lost" /\ call[Main].at # "returned"
  OBVIOUS
<1> QED
  BY <1>1, <1>2, FormsDiffer, Zenon DEF MainFits, AddCall, LookCall, ReadCall, Sleeps

LEMMA MainSleeping ==
  ASSUME FibtexIInv, call[Main].at \in {"listed", "asleep"}
  PROVE  stage[Main] = "waiting" /\ call[Main] = Sleeper(call[Main].at, "tasks")
<1>1. MainFits(stage[Main], call[Main])
  BY DEF FibtexIInv, CallsFit
<1>2. /\ call[Main].at # "none" /\ call[Main].at # "entered" /\ call[Main].at # "checking" /\ call[Main].at # "leaving"
      /\ call[Main].at # "lost" /\ call[Main].at # "returned"
  OBVIOUS
<1>3. stage[Main] = "waiting" /\ (call[Main] = Sleeper("listed", "tasks") \/ call[Main] = Sleeper("asleep", "tasks"))
  BY <1>1, <1>2, FormsDiffer, Zenon DEF MainFits, AddCall, LookCall, ReadCall, Sleeps
<1> QED
  BY <1>3, CallForms

-----------------------------------------------------------------------------
LEMMA TaskLeaveOK ==
  ASSUME FibtexIInv, NEW f \in TaskFibers, Leave(f), UNCHANGED <<stage, ownVars>>
  PROVE  FibtexIInv'
<1> DEFINE c == call[f].counter
           r == Done(call[f].result)
<1>1. f \in Fibers /\ FibtexShape /\ InsideCounted /\ "mutex" \in Counters /\ "tasks" \in Counters
  BY FiberConstants DEF FibtexIInv
<1>2. /\ call[f].at = "leaving" /\ inside' = [inside EXCEPT ![c] = @ - 1]
      /\ call' = [call EXCEPT ![f] = r] /\ stage' = [stage EXCEPT ![f] = stage[f]]
      /\ UNCHANGED <<value, waiting, destroyed>>
  BY <1>1 DEF Leave, Yields, Proceeds, Done, FibtexShape
<1>3. r.at = "returned" /\ r.result = call[f].result
  BY CallForms
<1>4. WaysFit'
  BY <1>1 DEF ownVars, FibtexShape, WaysFit
<1>5. /\ c \in Counters /\ TaskFits(stage[f], r) /\ stage[f] # "new"
  <2>1. CASE stage[f] = "locking" /\ call[f] = Accessed("leaving", "mutex", 1, TRUE)
    <3>1. c = "mutex" /\ r = Done(TRUE)
      BY <2>1 DEF Accessed
    <3> QED
      BY <1>1, <2>1, <3>1 DEF TaskFits, LockCall
  <2>2. CASE stage[f] = "locking" /\ \E v \in Values : call[f] = Accessed("leaving", "mutex", v, FALSE)
    <3>1. c = "mutex" /\ r = Done(FALSE)
      BY <2>2 DEF Accessed
    <3> QED
      BY <1>1, <2>2, <3>1 DEF TaskFits, LockCall
  <2>3. CASE stage[f] = "unlocking" /\ call[f] = Accessed("leaving", "mutex", 0, TRUE)
    <3>1. c = "mutex" /\ r = Done(TRUE)
      BY <2>3 DEF Accessed
    <3> QED
      BY <1>1, <2>3, <3>1 DEF TaskFits, UnlockCall
  <2>4. CASE stage[f] = "ending" /\ \E v, w \in Values : call[f] = Accessed("leaving", "tasks", v, w)
    <3>1. PICK v \in Values, w \in Values : call[f] = Accessed("leaving", "tasks", v, w)
      BY <2>4
    <3>2. c = "tasks" /\ r = Done(w)
      BY <3>1 DEF Accessed
    <3> QED
      BY <1>1, <2>4, <3>2 DEF TaskFits, EndCallForm
  <2> QED
    BY <1>2, TaskLeaving, <2>1, <2>2, <2>3, <2>4
<1>6. Holds(stage[f], r) <=> Holds(stage[f], call[f])
  BY <1>2, <1>3 DEF Holds
<1>7. Counted(stage[f], r) <=> Counted(stage[f], call[f])
  BY <1>2, <1>3 DEF Counted
<1>8. /\ \A d \in Counters : InCall(call[f], d) <=> d = c
      /\ \A d \in Counters : ~InCall(r, d)
  BY <1>2, <1>3 DEF InCall
<1> HIDE DEF c, r
<1>9. InsideCounted' /\ inside' \in [Counters -> Int]
  BY <1>1, <1>2, <1>5, <1>8, LeaveCounts
<1> QED
  BY <1>2, <1>3, <1>4, <1>5, <1>6, <1>7, <1>8, <1>9, TaskMoves

\* A task goes on with a change to who waits.
LEMMA TaskWaits ==
  ASSUME FibtexIInv, NEW f \in TaskFibers, NEW s, NEW r,
         stage' = [stage EXCEPT ![f] = s], call' = [call EXCEPT ![f] = r],
         UNCHANGED <<value, inside, destroyed, ownVars>>,
         waiting' \in [Counters -> SUBSET (Fibers \X Values)], WaitersSleep',
         <<Main, 0>> \in waiting["tasks"] /\ <<Main, 0>> \notin waiting'["tasks"] => Running = {},
         TaskFits(s, r), s # "new", stage[f] # "new",
         Holds(s, r) <=> Holds(stage[f], call[f]),
         Counted(s, r) <=> Counted(stage[f], call[f]),
         r.at # "checking", \A c \in Counters : InCall(r, c) <=> InCall(call[f], c)
  PROVE  FibtexIInv'
<1>1. /\ FibtexShape /\ CallsFit /\ InsideCounted /\ WaitersSleep
      /\ OneHolder /\ TasksCounted /\ ZeroIsFinal /\ DestroyedAtRest
  BY DEF FibtexIInv
<1>2. f \in Fibers /\ f # Main /\ Main \in Fibers /\ TaskFibers \subseteq Fibers
  BY FiberConstants
<1>3. /\ stage'[f] = s /\ call'[f] = r
      /\ \A g \in Fibers : g # f => stage'[g] = stage[g] /\ call'[g] = call[g]
      /\ stage' = [g \in Fibers |-> stage'[g]] /\ call' = [g \in Fibers |-> call'[g]]
  BY <1>1, <1>2, FiberMoves
<1>4. FibtexShape'
  BY <1>1, <1>3 DEF FibtexShape, WaysFit, ownVars
<1>5. CallsFit'
  BY <1>1, <1>2, CallsStillFit
<1>6. InsideCounted'
  BY <1>1, <1>2, StayCounts
<1>7. Holders' = Holders
  <2>1. /\ f \in Holders <=> Holds(stage[f], call[f])
        /\ Holders' = IF Holds(s, r) THEN Holders \union {f} ELSE Holders \ {f}
    BY <1>1, HoldersMove
  <2> QED
    BY <2>1
<1>8. OneHolder'
  BY <1>1, <1>7 DEF OneHolder
<1>9. Running' = Running
  <2>1. /\ f \in Running <=> ~Counted(stage[f], call[f])
        /\ Running' = IF Counted(s, r) THEN Running \ {f} ELSE Running \union {f}
    BY <1>1, RunningMove
  <2> QED
    BY <2>1
<1>10. TasksCounted'
  BY <1>1, <1>2, <1>3, <1>9 DEF TasksCounted
<1>11. ZeroIsFinal'
  <2>1. \A g \in TaskFibers :
          stage'[g] = "ending" /\ call'[g].at = "checking" /\ call'[g].new = 0 => Running' = {}
    BY <1>1, <1>2, <1>3, <1>9 DEF ZeroIsFinal
  <2>2. MainGoesOn(stage[Main], call[Main], <<Main, 0>> \in waiting'["tasks"]) => Running = {}
    BY <1>1 DEF ZeroIsFinal, MainGoesOn
  <2> QED
    BY <1>2, <1>3, <1>9, <2>1, <2>2 DEF ZeroIsFinal
<1>12. DestroyedAtRest'
  BY <1>1, <1>2, <1>3 DEF DestroyedAtRest, FibtexShape
<1> QED
  BY <1>4, <1>5, <1>6, <1>8, <1>10, <1>11, <1>12 DEF FibtexIInv

\* Who waits after one fiber has gone on, if its call was not one of a waiting
\* fiber and others are taken off a list at most.
LEMMA FewerWaiters ==
  ASSUME FibtexIInv, NEW f \in Fibers, call[f].at \notin {"listed", "asleep"},
         \A g \in Fibers : g # f => call'[g] = call[g],
         waiting' \in [Counters -> SUBSET (Fibers \X Values)],
         \A c \in Counters : waiting'[c] \subseteq waiting[c]
  PROVE  WaitersSleep'
<1>1. ASSUME NEW c \in Counters, NEW w \in waiting'[c]
      PROVE  w[2] = 0 /\ (call'[w[1]] = Sleeper("listed", c) \/ call'[w[1]] = Sleeper("asleep", c))
  <2>1. w[2] = 0 /\ (call[w[1]] = Sleeper("listed", c) \/ call[w[1]] = Sleeper("asleep", c))
    BY <1>1 DEF FibtexIInv, WaitersSleep
  <2>2. w[1] \in Fibers
    BY <1>1
  <2>3. w[1] # f
    BY <2>1 DEF Sleeper
  <2> QED
    BY <2>1, <2>2, <2>3
<1> QED
  BY <1>1 DEF WaitersSleep

LEMMA TaskCheckOK ==
  ASSUME FibtexIInv, NEW f \in TaskFibers, CheckWaitingFibers(f), UNCHANGED <<stage, ownVars>>
  PROVE  FibtexIInv'
<1> DEFINE c == call[f].counter
           n == call[f].new
           r == Accessed("leaving", c, n, call[f].result)
<1>1. f \in Fibers /\ FibtexShape /\ f # Main /\ "mutex" \in Counters /\ "tasks" \in Counters
  BY FiberConstants DEF FibtexIInv
<1>2. call[f].at = "checking"
  BY DEF CheckWaitingFibers
<1>3. /\ c \in Counters /\ call[f] = Accessed("checking", c, n, call[f].result)
      /\ TaskFits(stage[f], r) /\ stage[f] # "new"
      /\ c = "tasks" => stage[f] = "ending"
  <2>1. CASE stage[f] = "locking" /\ call[f] = Accessed("checking", "mutex", 1, TRUE)
    <3>1. c = "mutex" /\ n = 1 /\ call[f].result = TRUE
      BY <2>1 DEF Accessed
    <3>2. call[f] = Accessed("checking", c, n, call[f].result) /\ r = Accessed("leaving", "mutex", 1, TRUE)
      BY <2>1, <3>1 DEF Accessed
    <3> QED
      BY <1>1, <2>1, <3>1, <3>2 DEF TaskFits, LockCall
  <2>2. CASE stage[f] = "unlocking" /\ call[f] = Accessed("checking", "mutex", 0, TRUE)
    <3>1. c = "mutex" /\ n = 0 /\ call[f].result = TRUE
      BY <2>2 DEF Accessed
    <3>2. call[f] = Accessed("checking", c, n, call[f].result) /\ r = Accessed("leaving", "mutex", 0, TRUE)
      BY <2>2, <3>1 DEF Accessed
    <3> QED
      BY <1>1, <2>2, <3>1, <3>2 DEF TaskFits, UnlockCall
  <2>3. CASE stage[f] = "ending" /\ \E v, w \in Values : call[f] = Accessed("checking", "tasks", v, w)
    <3>1. PICK v \in Values, w \in Values : call[f] = Accessed("checking", "tasks", v, w)
      BY <2>3
    <3>2. c = "tasks" /\ n = v /\ call[f].result = w
      BY <3>1 DEF Accessed
    <3>3. call[f] = Accessed("checking", c, n, call[f].result) /\ r = Accessed("leaving", "tasks", v, w)
      BY <3>1, <3>2
    <3> QED
      BY <1>1, <2>3, <3>2, <3>3 DEF TaskFits, EndCallForm
  <2> QED
    BY <1>2, TaskChecking, <2>1, <2>2, <2>3
<1>4. /\ call' = [call EXCEPT ![f] = r] /\ stage' = [stage EXCEPT ![f] = stage[f]]
      /\ waiting' = [waiting EXCEPT ![c] = {w \in @ : w[2] # n}]
      /\ UNCHANGED <<value, inside, destroyed, ownVars>>
  <2>1. [call[f] EXCEPT !.at = "leaving"] = r
    BY <1>3 DEF Accessed
  <2> QED
    BY <1>1, <2>1 DEF CheckWaitingFibers, Proceeds, FibtexShape
<1>5. r.at = "leaving" /\ r.counter = c /\ r.result = call[f].result
  BY CallForms
<1>6. Holds(stage[f], r) <=> Holds(stage[f], call[f])
  BY <1>2, <1>5 DEF Holds
<1>7. Counted(stage[f], r) <=> Counted(stage[f], call[f])
  BY <1>2, <1>5 DEF Counted
<1>8. \A d \in Counters : InCall(r, d) <=> InCall(call[f], d)
  BY <1>2, <1>5 DEF InCall
<1>9. /\ waiting' \in [Counters -> SUBSET (Fibers \X Values)]
      /\ \A d \in Counters : waiting'[d] \subseteq waiting[d]
  BY <1>1, <1>3, <1>4 DEF FibtexShape
<1>10. \A g \in Fibers : g # f => call'[g] = call[g]
  BY <1>1, <1>4 DEF FibtexShape
<1>11. WaitersSleep'
  BY <1>1, <1>2, <1>9, <1>10, FewerWaiters
<1>12. <<Main, 0>> \in waiting["tasks"] /\ <<Main, 0>> \notin waiting'["tasks"] => Running = {}
  <2> SUFFICES ASSUME <<Main, 0>> \in waiting["tasks"], <<Main, 0>> \notin waiting'["tasks"]
               PROVE  Running = {}
    OBVIOUS
  <2>1. c = "tasks" /\ n = 0
    BY <1>1, <1>3, <1>4 DEF FibtexShape
  <2>2. stage[f] = "ending" /\ call[f].at = "checking" /\ call[f].new = 0
    BY <1>2, <1>3, <2>1
  <2> QED
    BY <2>2 DEF FibtexIInv, ZeroIsFinal
<1> HIDE DEF c, n, r
<1>13. r.at # "checking"
  BY <1>5
<1> QED
  BY <1>3, <1>4, <1>6, <1>7, <1>8, <1>9, <1>11, <1>12, <1>13, TaskWaits

\* A task that waits for the mutex looks again, or is resumed.
LEMMA TaskLookAgainOK ==
  ASSUME FibtexIInv, NEW f \in TaskFibers, LookAgain(f) \/ Resume(f), UNCHANGED <<stage, ownVars>>
  PROVE  FibtexIInv'
<1>1. /\ f \in Fibers /\ FibtexShape /\ WaitersSleep /\ f # Main
      /\ "mutex" \in Counters /\ "tasks" \in Counters
  BY FiberConstants DEF FibtexIInv
<1>2. call[f].at \in {"listed", "asleep"}
  BY DEF LookAgain, Resume
<1>3. stage[f] = "waiting" /\ call[f] = Sleeper(call[f].at, "mutex")
  BY <1>2, TaskSleeping
<1>4. call[f].counter = "mutex" /\ call[f].target = 0
  BY <1>3, CallForms
<1>5. PICK r \in {Done(TRUE), Sleeper("asleep", "mutex")} :
        /\ call' = [call EXCEPT ![f] = r] /\ stage' = [stage EXCEPT ![f] = "waiting"]
        /\ UNCHANGED <<value, inside, destroyed, ownVars>>
        /\ waiting' \in [Counters -> SUBSET (Fibers \X Values)]
        /\ \A d \in Counters \ {"mutex"} : waiting'[d] = waiting[d]
        /\ waiting'["mutex"] \subseteq waiting["mutex"]
        /\ r = Done(TRUE) => <<f, 0>> \notin waiting'["mutex"]
  <2>1. stage' = [stage EXCEPT ![f] = "waiting"]
    BY <1>1, <1>3 DEF FibtexShape
  <2>2. Done(TRUE) = [at |-> "returned", result |-> TRUE]
    BY DEF Done
  <2>3. [call[f] EXCEPT !.at = "asleep"] = Sleeper("asleep", "mutex")
    BY <1>3 DEF Sleeper
  <2>4. CASE LookAgain(f) /\ value["mutex"] = 0 /\ <<f, 0>> \in waiting["mutex"]
    <3>1. /\ waiting' = [waiting EXCEPT !["mutex"] = @ \ {<<f, 0>>}]
          /\ call' = [call EXCEPT ![f] = Done(TRUE)] /\ UNCHANGED <<value, inside, destroyed>>
      BY <1>4, <2>2, <2>4 DEF LookAgain, Yields, Proceeds
    <3> QED
      BY <1>1, <2>1, <3>1 DEF FibtexShape
  <2>5. CASE LookAgain(f) /\ ~(value["mutex"] = 0 /\ <<f, 0>> \in waiting["mutex"])
    <3>1. /\ waiting' = waiting
          /\ call' = [call EXCEPT ![f] = Sleeper("asleep", "mutex")] /\ UNCHANGED <<value, inside, destroyed>>
      BY <1>4, <2>3, <2>5 DEF LookAgain, Proceeds
    <3>2. Sleeper("asleep", "mutex") # Done(TRUE)
      <4>1. Sleeper("asleep", "mutex").at # "returned"
        BY CallForms
      <4> QED
        BY <4>1, FormsDiffer, Zenon
    <3> QED
      BY <1>1, <2>1, <3>1, <3>2 DEF FibtexShape
  <2>6. CASE Resume(f)
    <3>1. /\ <<f, 0>> \notin waiting["mutex"] /\ waiting' = waiting
          /\ call' = [call EXCEPT ![f] = Done(TRUE)] /\ UNCHANGED <<value, inside, destroyed>>
      BY <1>4, <2>2, <2>6 DEF Resume, Yields, Proceeds
    <3> QED
      BY <1>1, <2>1, <3>1 DEF FibtexShape
  <2> QED
    BY <2>4, <2>5, <2>6
<1>6. TaskFits("waiting", r)
  BY DEF TaskFits, Sleeps
<1>7. /\ r.at \in {"returned", "asleep"} /\ ~Holds("waiting", r) /\ ~Holds(stage[f], call[f])
      /\ ~Counted("waiting", r) /\ ~Counted(stage[f], call[f])
  <2>1. CASE r = Done(TRUE)
    <3>1. r.at = "returned"
      BY <2>1, CallForms, Zenon
    <3> QED
      BY <1>3, <3>1 DEF Holds, Counted
  <2>2. CASE r = Sleeper("asleep", "mutex")
    <3>1. r.at = "asleep"
      BY <2>2, CallForms
    <3> QED
      BY <1>3, <3>1 DEF Holds, Counted
  <2> QED
    BY <2>1, <2>2
<1>8. \A d \in Counters : InCall(r, d) <=> InCall(call[f], d)
  BY <1>2, <1>7 DEF InCall
<1>9. WaitersSleep'
  <2>1. ASSUME NEW c \in Counters, NEW w \in waiting'[c]
        PROVE  w[2] = 0 /\ (call'[w[1]] = Sleeper("listed", c) \/ call'[w[1]] = Sleeper("asleep", c))
    <3>1. w \in waiting[c] /\ w \in Fibers \X Values
      BY <1>5, <2>1
    <3>2. w[2] = 0 /\ (call[w[1]] = Sleeper("listed", c) \/ call[w[1]] = Sleeper("asleep", c))
      BY <1>1, <3>1 DEF WaitersSleep
    <3>3. CASE w[1] # f
      BY <1>1, <1>5, <3>1, <3>2, <3>3 DEF FibtexShape
    <3>4. CASE w[1] = f
      <4>1. call[f].counter = c
        BY <3>2, <3>4, CallForms
      <4>2. c = "mutex" /\ w = <<f, 0>>
        BY <1>4, <3>1, <3>2, <3>4, <4>1
      <4>3. r = Sleeper("asleep", "mutex")
        BY <1>5, <2>1, <4>2
      <4>4. call'[f] = r
        BY <1>1, <1>5 DEF FibtexShape
      <4> QED
        BY <3>2, <3>4, <4>2, <4>3, <4>4
    <3> QED
      BY <3>3, <3>4
  <2> QED
    BY <2>1 DEF WaitersSleep
<1>10. r.at # "checking" /\ waiting'["tasks"] = waiting["tasks"] /\ stage[f] # "new"
  BY <1>1, <1>3, <1>5, <1>7
<1> QED
  BY <1>5, <1>6, <1>7, <1>8, <1>9, <1>10, TaskWaits

\* A task waits for the mutex.
LEMMA YieldOK ==
  ASSUME FibtexIInv, NEW f \in TaskFibers, Yield(f)
  PROVE  FibtexIInv'
<1>1. /\ f \in Fibers /\ FibtexShape /\ WaitersSleep /\ f # Main
      /\ "mutex" \in Counters /\ "tasks" \in Counters /\ 0 \in Values
  BY FiberConstants DEF FibtexIInv, Values
<1>2. /\ stage[f] = "locking" /\ call[f].at = "returned" /\ ~call[f].result
      /\ stage' = [stage EXCEPT ![f] = "waiting"] /\ UNCHANGED <<value, inside, destroyed, ownVars>>
  BY DEF Yield, Returned, Goes, WaitForCounter
<1>3. PICK r \in {Sleeper("listed", "mutex"), Lost("mutex")} :
        /\ call' = [call EXCEPT ![f] = r]
        /\ waiting' \in [Counters -> SUBSET (Fibers \X Values)]
        /\ \A d \in Counters \ {"mutex"} : waiting'[d] = waiting[d]
        /\ \A w \in waiting'["mutex"] : w \in waiting["mutex"] \/ (w = <<f, 0>> /\ r = Sleeper("listed", "mutex"))
  <2>1. \/ /\ waiting' = [waiting EXCEPT !["mutex"] = @ \union {<<f, 0>>}]
           /\ call' = [call EXCEPT ![f] = Sleeper("listed", "mutex")]
        \/ waiting' = waiting /\ call' = [call EXCEPT ![f] = Lost("mutex")]
    BY DEF Yield, WaitForCounter, Proceeds, Sleeper, Lost
  <2> QED
    BY <1>1, <2>1 DEF FibtexShape
<1>4. TaskFits("waiting", r)
  BY DEF TaskFits, Sleeps
<1>5. /\ r.at \in {"listed", "lost"} /\ ~Holds("waiting", r) /\ ~Holds(stage[f], call[f])
      /\ ~Counted("waiting", r) /\ ~Counted(stage[f], call[f])
  BY <1>2, CallForms DEF Holds, Counted
<1>6. \A d \in Counters : InCall(r, d) <=> InCall(call[f], d)
  BY <1>2, <1>5 DEF InCall
<1>7. WaitersSleep'
  <2>1. ASSUME NEW c \in Counters, NEW w \in waiting'[c]
        PROVE  w[2] = 0 /\ (call'[w[1]] = Sleeper("listed", c) \/ call'[w[1]] = Sleeper("asleep", c))
    <3>1. w \in Fibers \X Values /\ call'[f] = r
      BY <1>1, <1>3, <2>1 DEF FibtexShape
    <3>2. CASE w \in waiting[c]
      <4>1. w[2] = 0 /\ (call[w[1]] = Sleeper("listed", c) \/ call[w[1]] = Sleeper("asleep", c))
        BY <1>1, <3>2 DEF WaitersSleep
      <4>2. w[1] # f
        BY <1>2, <4>1, CallForms
      <4> QED
        BY <1>1, <1>3, <3>1, <4>1, <4>2 DEF FibtexShape
    <3>3. CASE w \notin waiting[c]
      <4>1. c = "mutex" /\ w = <<f, 0>> /\ r = Sleeper("listed", "mutex")
        BY <1>3, <2>1, <3>3
      <4> QED
        BY <3>1, <4>1
    <3> QED
      BY <3>2, <3>3
  <2> QED
    BY <2>1 DEF WaitersSleep
<1>8. r.at # "checking" /\ waiting'["tasks"] = waiting["tasks"] /\ stage[f] # "new"
  BY <1>1, <1>2, <1>3, <1>5
<1> QED
  BY <1>2, <1>3, <1>4, <1>5, <1>6, <1>7, <1>8, TaskWaits

-----------------------------------------------------------------------------
\* A task accesses a value; what the value is about remains to be shown.
LEMMA TaskAccesses ==
  ASSUME FibtexIInv, NEW f \in TaskFibers, NEW r, call[f].at = "entered",
         call' = [call EXCEPT ![f] = r], UNCHANGED <<stage, waiting, inside, destroyed, ownVars>>,
         value' \in [Counters -> Values], TaskFits(stage[f], r),
         r.at \in {"checking", "leaving"}, r.counter = call[f].counter,
         OneHolder', TasksCounted', ZeroIsFinal'
  PROVE  FibtexIInv'
<1>1. /\ FibtexShape /\ CallsFit /\ InsideCounted /\ WaitersSleep /\ DestroyedAtRest
  BY DEF FibtexIInv
<1>2. f \in Fibers /\ f # Main /\ Main \in Fibers /\ TaskFibers \subseteq Fibers
  BY FiberConstants
<1>3. stage' = [stage EXCEPT ![f] = stage[f]]
  BY <1>1, <1>2 DEF FibtexShape
<1>4. /\ call'[f] = r
      /\ \A g \in Fibers : g # f => stage'[g] = stage[g] /\ call'[g] = call[g]
      /\ stage' = [g \in Fibers |-> stage'[g]] /\ call' = [g \in Fibers |-> call'[g]]
  BY <1>1, <1>2, <1>3, FiberMoves
<1>5. FibtexShape'
  BY <1>1, <1>4 DEF FibtexShape, WaysFit, ownVars
<1>6. CallsFit'
  BY <1>1, <1>2, <1>3, CallsStillFit
<1>7. \A c \in Counters : InCall(r, c) <=> InCall(call[f], c)
  BY DEF InCall
<1>8. InsideCounted'
  BY <1>1, <1>2, <1>7, StayCounts
<1>9. WaitersSleep'
  <2>1. waiting' \in [Counters -> SUBSET (Fibers \X Values)] /\ \A c \in Counters : waiting'[c] \subseteq waiting[c]
    BY <1>1 DEF FibtexShape
  <2>2. call[f].at \notin {"listed", "asleep"}
    OBVIOUS
  <2> QED
    BY <1>2, <1>4, <2>1, <2>2, FewerWaiters
<1>10. DestroyedAtRest'
  BY <1>1, <1>2, <1>4, <1>7 DEF DestroyedAtRest, FibtexShape
<1> QED
  BY <1>5, <1>6, <1>8, <1>9, <1>10 DEF FibtexIInv

\* The value of the mutex and its holders, before and after.
LEMMA AccessByLocking ==
  ASSUME FibtexIInv, NEW f \in TaskFibers, Access(f), UNCHANGED <<stage, ownVars>>,
         stage[f] = "locking", call[f] = Entered("mutex", CompareExchange(0, 1))
  PROVE  FibtexIInv'
<1> DEFINE v == value["mutex"]
           r == IF v = 0 THEN Accessed("checking", "mutex", 1, TRUE) ELSE Accessed("leaving", "mutex", v, FALSE)
<1>1. /\ FibtexShape /\ OneHolder /\ TasksCounted /\ ZeroIsFinal /\ f \in Fibers /\ f # Main
      /\ "mutex" \in Counters /\ "tasks" \in Counters /\ ValueRange \in Nat /\ ValueRange > 1
      /\ Main \in Fibers /\ TaskFibers \subseteq Fibers
  BY FiberConstants DEF FibtexIInv
<1>2. v \in Values /\ 1 \in Values
  BY <1>1 DEF FibtexShape, Values
<1>3. call[f].counter = "mutex" /\ call[f].o = CompareExchange(0, 1) /\ call[f].at = "entered"
  BY CallForms
<1>4. /\ NewValue(call[f].o, v) = IF v = 0 THEN 1 ELSE v
      /\ Stores(call[f].o, v) <=> v = 0
      /\ ResultOf(call[f].o, v) = (v = 0)
  BY <1>3, CompareExchanges
<1>5. /\ value' = [value EXCEPT !["mutex"] = IF v = 0 THEN 1 ELSE v]
      /\ UNCHANGED <<stage, waiting, inside, destroyed, ownVars>>
  BY <1>3, <1>4 DEF Access
<1>6. call' = [call EXCEPT ![f] = r]
  <2>1. [at |-> IF Stores(call[f].o, v) THEN "checking" ELSE "leaving", counter |-> "mutex",
         new |-> NewValue(call[f].o, v), result |-> ResultOf(call[f].o, v)] = r
    <3>1. CASE v = 0
      BY <1>4, <3>1 DEF Accessed
    <3>2. CASE v # 0
      BY <1>4, <3>2 DEF Accessed
    <3> QED
      BY <3>1, <3>2
  <2> QED
    BY <1>3, <2>1 DEF Access, Proceeds
<1>0. /\ v = 0 => r = Accessed("checking", "mutex", 1, TRUE)
      /\ v # 0 => r = Accessed("leaving", "mutex", v, FALSE)
  OBVIOUS
<1> HIDE DEF r
<1>7. /\ TaskFits(stage[f], r) /\ r.counter = "mutex" /\ r.at \in {"checking", "leaving"}
      /\ Holds("locking", r) <=> v = 0
      /\ ~Counted("locking", r)
  <2>1. CASE v = 0
    <3>1. r = Accessed("checking", "mutex", 1, TRUE)
      BY <1>0, <2>1
    <3>2. r.at = "checking" /\ r.counter = "mutex" /\ r.result = TRUE
      BY <3>1 DEF Accessed
    <3> QED
      BY <2>1, <3>1, <3>2 DEF TaskFits, LockCall, Holds, Counted
  <2>2. CASE v # 0
    <3>1. r = Accessed("leaving", "mutex", v, FALSE)
      BY <1>0, <2>2
    <3>2. r.at = "leaving" /\ r.counter = "mutex" /\ r.result = FALSE
      BY <3>1 DEF Accessed
    <3> QED
      BY <1>2, <2>2, <3>1, <3>2 DEF TaskFits, LockCall, Holds, Counted
  <2> QED
    BY <2>1, <2>2
<1>8. stage' = [stage EXCEPT ![f] = stage[f]] /\ ~Holds(stage[f], call[f]) /\ ~Counted(stage[f], call[f])
  BY <1>1, <1>3, <1>5 DEF FibtexShape, Holds, Counted
<1>9. value' \in [Counters -> Values] /\ value'["tasks"] = value["tasks"]
      /\ value'["mutex"] = IF v = 0 THEN 1 ELSE v
  BY <1>1, <1>2, <1>5 DEF FibtexShape
<1>10. OneHolder'
  <2>1. f \notin Holders /\ Holders' = IF v = 0 THEN Holders \union {f} ELSE Holders \ {f}
    BY <1>1, <1>6, <1>7, <1>8, HoldersMove
  <2>2. v = Cardinality(Holders) /\ Cardinality(Holders) <= 1
    BY <1>1 DEF OneHolder
  <2>3. CASE v = 0
    <3>1. Holders' = Holders \union {f} /\ f \notin Holders
      BY <2>1, <2>3
    <3>2. Cardinality(Holders \union {f}) = Cardinality(Holders) + 1
      BY <3>1, HoldersFinite, FS_AddElement
    <3>3. Cardinality(Holders') = 1
      BY <2>2, <2>3, <3>1, <3>2
    <3> QED
      BY <1>9, <2>3, <3>3 DEF OneHolder
  <2>4. CASE v # 0
    <3>1. Holders' = Holders
      BY <2>1, <2>4
    <3> QED
      BY <1>9, <2>2, <2>4, <3>1 DEF OneHolder
  <2> QED
    BY <2>3, <2>4
<1>11. Running' = Running
  <2>1. /\ f \in Running <=> ~Counted(stage[f], call[f])
        /\ Running' = IF Counted(stage[f], r) THEN Running \ {f} ELSE Running \union {f}
    BY <1>1, <1>6, <1>8, RunningMove
  <2> QED
    BY <1>7, <1>8, <2>1
<1>12. \A g \in Fibers : g # f => stage'[g] = stage[g] /\ call'[g] = call[g]
  BY <1>1, <1>5, <1>6 DEF FibtexShape
<1>13. TasksCounted'
  BY <1>1, <1>5, <1>9, <1>11, <1>12 DEF TasksCounted
<1>14. ZeroIsFinal'
  <2>1. stage'[f] # "ending"
    BY <1>5
  <2>2. stage'[Main] = stage[Main] /\ call'[Main] = call[Main] /\ waiting' = waiting
    BY <1>1, <1>5, <1>12
  <2> QED
    BY <1>1, <1>11, <1>12, <2>1, <2>2 DEF ZeroIsFinal
<1> QED
  BY <1>3, <1>5, <1>6, <1>7, <1>9, <1>10, <1>13, <1>14, TaskAccesses

LEMMA AccessByUnlocking ==
  ASSUME FibtexIInv, NEW f \in TaskFibers, Access(f), UNCHANGED <<stage, ownVars>>,
         stage[f] = "unlocking", call[f] = Entered("mutex", CompareExchange(1, 0))
  PROVE  FibtexIInv'
<1> DEFINE r == Accessed("checking", "mutex", 0, TRUE)
<1>1. /\ FibtexShape /\ OneHolder /\ TasksCounted /\ ZeroIsFinal /\ f \in Fibers /\ f # Main
      /\ "mutex" \in Counters /\ "tasks" \in Counters /\ ValueRange \in Nat /\ ValueRange > 1
      /\ Main \in Fibers /\ TaskFibers \subseteq Fibers
  BY FiberConstants DEF FibtexIInv
<1>2. call[f].counter = "mutex" /\ call[f].o = CompareExchange(1, 0) /\ call[f].at = "entered"
  BY CallForms
<1>3. Holds(stage[f], call[f]) /\ ~Counted(stage[f], call[f])
  BY <1>2 DEF Holds, Counted
<1>4. f \in Holders
  BY <1>3, HoldersAre
<1>5. Cardinality(Holders) = 1 /\ value["mutex"] = 1
  <2>1. Cardinality(Holders) # 0
    BY <1>4, HoldersFinite, FS_EmptySet
  <2> QED
    BY <1>1, <2>1, HoldersFinite DEF OneHolder
<1>6. /\ NewValue(call[f].o, value["mutex"]) = 0
      /\ Stores(call[f].o, value["mutex"])
      /\ ResultOf(call[f].o, value["mutex"]) = TRUE
  <2>1. ResultOf(CompareExchange(1, 0), 1) = (1 = 1)
    BY CompareExchanges, Zenon
  <2>2. ResultOf(CompareExchange(1, 0), 1) = TRUE
    BY <2>1
  <2>3. NewValue(CompareExchange(1, 0), 1) = 0 /\ Stores(CompareExchange(1, 0), 1)
    BY CompareExchanges
  <2> QED
    BY <1>2, <1>5, <2>2, <2>3
<1>7. /\ value' = [value EXCEPT !["mutex"] = 0]
      /\ UNCHANGED <<stage, waiting, inside, destroyed, ownVars>>
  BY <1>2, <1>6 DEF Access
<1>8. call' = [call EXCEPT ![f] = r]
  BY <1>2, <1>6 DEF Access, Proceeds, Accessed
<1>9. r.at = "checking" /\ r.counter = "mutex"
  BY DEF Accessed
<1>10. TaskFits(stage[f], r) /\ ~Holds(stage[f], r) /\ ~Counted(stage[f], r)
  BY <1>9 DEF TaskFits, UnlockCall, Holds, Counted
<1> HIDE DEF r
<1>11. stage' = [stage EXCEPT ![f] = stage[f]]
  BY <1>1, <1>7 DEF FibtexShape
<1>12. value' \in [Counters -> Values] /\ value'["tasks"] = value["tasks"] /\ value'["mutex"] = 0
  BY <1>1, <1>7 DEF FibtexShape, Values
<1>13. OneHolder'
  <2>1. Holders' = Holders \ {f}
    BY <1>1, <1>8, <1>10, <1>11, HoldersMove
  <2>2. Cardinality(Holders') = 0
    BY <1>4, <1>5, <2>1, HoldersFinite, FS_RemoveElement, SMTT(30)
  <2> QED
    BY <1>12, <2>2 DEF OneHolder
<1>14. Running' = Running
  <2>1. /\ f \in Running <=> ~Counted(stage[f], call[f])
        /\ Running' = IF Counted(stage[f], r) THEN Running \ {f} ELSE Running \union {f}
    BY <1>1, <1>8, <1>11, RunningMove
  <2> QED
    BY <1>3, <1>10, <2>1
<1>15. \A g \in Fibers : g # f => stage'[g] = stage[g] /\ call'[g] = call[g]
  BY <1>1, <1>7, <1>8 DEF FibtexShape
<1>16. TasksCounted'
  BY <1>1, <1>7, <1>12, <1>14, <1>15 DEF TasksCounted
<1>17. ZeroIsFinal'
  <2>1. stage'[f] # "ending"
    BY <1>7
  <2>2. stage'[Main] = stage[Main] /\ call'[Main] = call[Main] /\ waiting' = waiting
    BY <1>1, <1>7, <1>15
  <2> QED
    BY <1>1, <1>14, <1>15, <2>1, <2>2 DEF ZeroIsFinal
<1> QED
  BY <1>2, <1>7, <1>8, <1>9, <1>10, <1>12, <1>13, <1>16, <1>17, TaskAccesses

\* A task counts down: it is the last exactly if it leaves 0.
LEMMA AccessByEnding ==
  ASSUME FibtexIInv, NEW f \in TaskFibers, Access(f), UNCHANGED <<stage, ownVars>>,
         stage[f] = "ending", call[f] = Entered("tasks", FetchSub(1))
  PROVE  FibtexIInv'
<1> DEFINE v == value["tasks"]
           r == Accessed("checking", "tasks", v - 1, v)
<1>1. /\ FibtexShape /\ OneHolder /\ TasksCounted /\ ZeroIsFinal /\ f \in Fibers /\ f # Main
      /\ "mutex" \in Counters /\ "tasks" \in Counters /\ ValueRange \in Nat /\ ValueRange > 1
      /\ Main \in Fibers /\ TaskFibers \subseteq Fibers
  BY FiberConstants DEF FibtexIInv
<1>2. call[f].counter = "tasks" /\ call[f].o = FetchSub(1) /\ call[f].at = "entered"
  BY CallForms
<1>3. ~Holds(stage[f], call[f]) /\ ~Counted(stage[f], call[f])
  BY <1>2 DEF Holds, Counted
<1>4. f \in Running
  BY <1>3 DEF Running
<1>5. v = Cardinality(Running) /\ v # 0
  <2>1. stage[Main] \notin {"start", "adding"}
    BY <1>1 DEF TasksCounted
  <2>2. v = Cardinality(Running)
    BY <1>1, <2>1 DEF TasksCounted, MainCounts
  <2> QED
    BY <1>4, <2>2, RunningFinite, FS_EmptySet
<1>6. v \in Values /\ v - 1 \in Values
  BY <1>1, <1>5 DEF FibtexShape, Values
<1>7. /\ NewValue(call[f].o, v) = v - 1
      /\ Stores(call[f].o, v) /\ ResultOf(call[f].o, v) = v
  BY <1>2, <1>5, <1>6, Subtracts
<1>8. /\ value' = [value EXCEPT !["tasks"] = v - 1]
      /\ UNCHANGED <<stage, waiting, inside, destroyed, ownVars>>
  BY <1>2, <1>7 DEF Access
<1>9. call' = [call EXCEPT ![f] = r]
  BY <1>2, <1>7 DEF Access, Proceeds, Accessed
<1>10. r.at = "checking" /\ r.counter = "tasks" /\ r.new = v - 1
  BY DEF Accessed
<1>11. TaskFits(stage[f], r) /\ ~Holds(stage[f], r) /\ Counted(stage[f], r)
  BY <1>6, <1>10 DEF TaskFits, EndCallForm, Holds, Counted
<1> HIDE DEF r
<1>12. stage' = [stage EXCEPT ![f] = stage[f]]
  BY <1>1, <1>8 DEF FibtexShape
<1>13. value' \in [Counters -> Values] /\ value'["tasks"] = v - 1 /\ value'["mutex"] = value["mutex"]
  BY <1>1, <1>6, <1>8 DEF FibtexShape
<1>14. OneHolder'
  <2>1. /\ f \in Holders <=> Holds(stage[f], call[f])
        /\ Holders' = IF Holds(stage[f], r) THEN Holders \union {f} ELSE Holders \ {f}
    BY <1>1, <1>9, <1>12, HoldersMove
  <2>2. Holders' = Holders
    BY <1>3, <1>11, <2>1
  <2> QED
    BY <1>1, <1>13, <2>2 DEF OneHolder
<1>15. Running' = Running \ {f}
  BY <1>1, <1>9, <1>11, <1>12, RunningMove
<1>16. Cardinality(Running') = v - 1
  BY <1>4, <1>5, <1>15, RunningFinite, FS_RemoveElement
<1>17. \A g \in Fibers : g # f => stage'[g] = stage[g] /\ call'[g] = call[g]
  BY <1>1, <1>8, <1>9 DEF FibtexShape
<1>18. TasksCounted'
  <2>1. stage'[Main] = stage[Main] /\ stage[Main] \notin {"start", "adding"}
    BY <1>1, <1>17 DEF TasksCounted
  <2> QED
    BY <1>1, <1>8, <1>13, <1>16, <2>1 DEF TasksCounted, MainCounts
<1>19. ZeroIsFinal'
  <2>1. v - 1 = 0 => Running' = {}
    <3>1. IsFiniteSet(Running')
      BY <1>15, RunningFinite, FS_Subset
    <3> QED
      BY <1>16, <3>1, FS_EmptySet
  <2>2. call'[f].new = v - 1
    BY <1>1, <1>9, <1>10 DEF FibtexShape
  <2>3. stage'[Main] = stage[Main] /\ call'[Main] = call[Main] /\ waiting' = waiting
    BY <1>1, <1>8, <1>17
  <2>4. ~MainGoesOn(stage[Main], call[Main], <<Main, 0>> \in waiting["tasks"])
    BY <1>1, <1>4 DEF ZeroIsFinal
  <2>5. \A g \in TaskFibers : g # f => ~(stage'[g] = "ending" /\ call'[g].at = "checking" /\ call'[g].new = 0)
    BY <1>1, <1>4, <1>17 DEF ZeroIsFinal
  <2> QED
    BY <2>1, <2>2, <2>3, <2>4, <2>5 DEF ZeroIsFinal
<1> QED
  BY <1>2, <1>8, <1>9, <1>10, <1>11, <1>13, <1>14, <1>18, <1>19, TaskAccesses

LEMMA TaskCallStepOK ==
  ASSUME FibtexIInv, NEW f \in TaskFibers, CallStep(f), UNCHANGED <<stage, ownVars>>
  PROVE  FibtexIInv'
<1>1. CASE Access(f)
  <2>1. call[f].at = "entered"
    BY <1>1 DEF Access
  <2> QED
    BY <1>1, <2>1, TaskEntered, AccessByLocking, AccessByUnlocking, AccessByEnding
<1> QED
  BY <1>1, TaskCheckOK, TaskLeaveOK, TaskLookAgainOK DEF CallStep

-----------------------------------------------------------------------------
\* The main fiber begins a call.
LEMMA MainEnters ==
  ASSUME FibtexIInv, NEW s, NEW o, call[Main] = NoCall, Enter(Main, "tasks", o),
         stage' = [stage EXCEPT ![Main] = s], UNCHANGED ownVars,
         MainFits(s, Entered("tasks", o)), stage[Main] \in {"start", "added", "resumed"},
         s = CASE stage[Main] = "start" -> "adding" [] stage[Main] = "added" -> "looking"
               [] stage[Main] = "resumed" -> "reading"
  PROVE  FibtexIInv'
<1>1. /\ Main \in Fibers /\ FibtexShape /\ InsideCounted /\ ZeroIsFinal /\ DestroyedAtRest
      /\ "tasks" \in Counters
  BY FiberConstants DEF FibtexIInv
<1>2. /\ call' = [call EXCEPT ![Main] = Entered("tasks", o)] /\ inside' = [inside EXCEPT !["tasks"] = @ + 1]
      /\ UNCHANGED <<value, waiting, destroyed, way, spins, locks>>
  BY DEF Enter, Proceeds, Entered, ownVars
<1>3. call[Main].at = "none" /\ Entered("tasks", o).at = "entered"
  BY CallForms
<1>4. InsideCounted' /\ inside' \in [Counters -> Int]
  BY <1>1, <1>2, <1>3, EnterCounts DEF InCall
<1>5. MainCounts(s, Entered("tasks", o)) <=> MainCounts(stage[Main], call[Main])
  BY <1>3 DEF MainCounts
<1>6. MainGoesOn(s, Entered("tasks", o), <<Main, 0>> \in waiting["tasks"]) => Running = {}
  BY <1>1, <1>3 DEF ZeroIsFinal, MainGoesOn
<1>7. destroyed = {}
  BY <1>1 DEF DestroyedAtRest
<1>8. /\ s \in {"start", "adding"} <=> stage[Main] \in {"start", "adding"}
      /\ stage[Main] = "destroying" => s = "destroying"
  OBVIOUS
<1> QED
  BY <1>2, <1>3, <1>4, <1>5, <1>6, <1>7, <1>8, MainMoves

LEMMA CountTasksOK ==
  ASSUME FibtexIInv, NEW o \in {FetchAdd(TaskCount), Store(TaskCount)}, CountTasks(o)
  PROVE  FibtexIInv'
<1>1. /\ stage[Main] = "start" /\ call[Main] = NoCall /\ stage' = [stage EXCEPT ![Main] = "adding"]
      /\ Enter(Main, "tasks", o) /\ UNCHANGED ownVars
  BY DEF CountTasks, Free, Goes
<1>2. MainFits("adding", Entered("tasks", o))
  BY DEF MainFits, AddCall
<1> QED
  BY <1>1, <1>2, MainEnters

LEMMA LoadCounterOK ==
  ASSUME FibtexIInv, LoadCounter
  PROVE  FibtexIInv'
<1>1. /\ stage[Main] = "added" /\ call[Main] = NoCall /\ stage' = [stage EXCEPT ![Main] = "looking"]
      /\ Enter(Main, "tasks", Load) /\ UNCHANGED ownVars
  BY DEF LoadCounter, Free, Goes
<1>2. MainFits("looking", Entered("tasks", Load))
  BY DEF MainFits, LookCall
<1> QED
  BY <1>1, <1>2, MainEnters

LEMMA ReadCounterOK ==
  ASSUME FibtexIInv, ReadCounter
  PROVE  FibtexIInv'
<1>1. /\ stage[Main] = "resumed" /\ call[Main] = NoCall /\ stage' = [stage EXCEPT ![Main] = "reading"]
      /\ Enter(Main, "tasks", Load) /\ UNCHANGED ownVars
  BY DEF ReadCounter, Free, Goes
<1>2. MainFits("reading", Entered("tasks", Load))
  BY DEF MainFits, ReadCall
<1> QED
  BY <1>1, <1>2, MainEnters

\* The main fiber uses a result: no task is left to count down when it does so
\* after its wait, or goes on without one.
LEMMA MainResultOK ==
  ASSUME FibtexIInv, MainResumes \/ CounterRead \/ SkipWaiting
  PROVE  FibtexIInv'
<1> DEFINE s == IF stage[Main] = "waiting" THEN "resumed" ELSE "destroying"
<1>1. /\ Main \in Fibers /\ FibtexShape /\ InsideCounted /\ ZeroIsFinal
  BY FiberConstants DEF FibtexIInv
<1>2. /\ stage[Main] \in {"waiting", "reading", "looking"} /\ call[Main].at = "returned"
      /\ stage[Main] = "looking" => call[Main].result = 0
      /\ call' = [call EXCEPT ![Main] = NoCall]
      /\ UNCHANGED <<value, inside, waiting, destroyed, way, spins, locks>>
  BY DEF MainResumes, CounterRead, SkipWaiting, Returned, EndCall, ownVars
<1>3. stage' = [stage EXCEPT ![Main] = s]
  BY DEF MainResumes, CounterRead, SkipWaiting, Returned, Goes
<1>4. NoCall.at = "none"
  BY CallForms
<1>5. \A d \in Counters : ~InCall(NoCall, d) /\ ~InCall(call[Main], d)
  BY <1>2, <1>4 DEF InCall
<1>6. InsideCounted' /\ inside' \in [Counters -> Int]
  BY <1>1, <1>2, <1>5, StayCounts DEF FibtexShape
<1>7. MainFits(s, NoCall)
  BY DEF MainFits
<1>8. Running = {}
  BY <1>1, <1>2 DEF ZeroIsFinal, MainGoesOn
<1>9. ~MainCounts(s, NoCall) /\ ~MainCounts(stage[Main], call[Main])
  BY <1>2 DEF MainCounts
<1>10. /\ s \in {"start", "adding"} <=> stage[Main] \in {"start", "adding"}
       /\ stage[Main] # "destroying"
  BY <1>2
<1> HIDE DEF s
<1> QED
  BY <1>2, <1>3, <1>5, <1>6, <1>7, <1>8, <1>9, <1>10, MainMoves

LEMMA MainLeaveOK ==
  ASSUME FibtexIInv, Leave(Main), UNCHANGED <<stage, ownVars>>
  PROVE  FibtexIInv'
<1> DEFINE r == Done(call[Main].result)
<1>1. /\ Main \in Fibers /\ FibtexShape /\ InsideCounted /\ ZeroIsFinal /\ "tasks" \in Counters
  BY FiberConstants DEF FibtexIInv
<1>2. call[Main].at = "leaving"
  BY DEF Leave
<1>3. /\ stage[Main] \in {"adding", "looking", "reading"}
      /\ call[Main].counter = "tasks"
      /\ call[Main].result \in IF stage[Main] = "looking" THEN Values ELSE {0}
  BY <1>2, MainLeaving, CallForms
<1>4. /\ inside' = [inside EXCEPT !["tasks"] = @ - 1]
      /\ call' = [call EXCEPT ![Main] = r] /\ stage' = [stage EXCEPT ![Main] = stage[Main]]
      /\ UNCHANGED <<value, waiting, destroyed, way, spins, locks>>
  BY <1>1, <1>3 DEF Leave, Yields, Proceeds, Done, FibtexShape, ownVars
<1>5. r.at = "returned" /\ r.result = call[Main].result
  BY CallForms
<1>6. MainFits(stage[Main], r)
  BY <1>3 DEF MainFits, AddCall, LookCall, ReadCall
<1>7. /\ \A d \in Counters : InCall(call[Main], d) <=> d = "tasks"
      /\ \A d \in Counters : ~InCall(r, d)
  BY <1>2, <1>3, <1>5 DEF InCall
<1> HIDE DEF r
<1>8. InsideCounted' /\ inside' \in [Counters -> Int]
  BY <1>1, <1>4, <1>7, LeaveCounts
<1>9. ~MainCounts(stage[Main], r) /\ ~MainCounts(stage[Main], call[Main])
  BY <1>2, <1>3, <1>5 DEF MainCounts
<1>10. MainGoesOn(stage[Main], r, <<Main, 0>> \in waiting["tasks"]) => Running = {}
  BY <1>1, <1>2, <1>3, <1>5 DEF ZeroIsFinal, MainGoesOn
<1> QED
  BY <1>2, <1>4, <1>6, <1>7, <1>8, <1>9, <1>10, MainMoves

\* The main fiber goes on in its call with a change to who waits.
LEMMA MainWaits ==
  ASSUME FibtexIInv, NEW r,
         call' = [call EXCEPT ![Main] = r], UNCHANGED <<stage, value, inside, destroyed, ownVars>>,
         waiting' \in [Counters -> SUBSET (Fibers \X Values)], WaitersSleep',
         MainFits(stage[Main], r),
         MainCounts(stage[Main], r) <=> MainCounts(stage[Main], call[Main]),
         MainGoesOn(stage[Main], r, <<Main, 0>> \in waiting'["tasks"]) => Running = {},
         \A c \in Counters : InCall(r, c) <=> InCall(call[Main], c)
  PROVE  FibtexIInv'
<1>1. /\ FibtexShape /\ CallsFit /\ InsideCounted /\ WaitersSleep
      /\ OneHolder /\ TasksCounted /\ ZeroIsFinal /\ DestroyedAtRest
  BY DEF FibtexIInv
<1>2. Main \in Fibers /\ Main \notin TaskFibers /\ TaskFibers \subseteq Fibers
  BY FiberConstants
<1>3. stage' = [stage EXCEPT ![Main] = stage[Main]]
  BY <1>1, <1>2 DEF FibtexShape
<1>4. /\ stage'[Main] = stage[Main] /\ call'[Main] = r
      /\ \A g \in Fibers : g # Main => stage'[g] = stage[g] /\ call'[g] = call[g]
      /\ stage' = [g \in Fibers |-> stage'[g]] /\ call' = [g \in Fibers |-> call'[g]]
  BY <1>1, <1>2, <1>3, FiberMoves
<1>5. FibtexShape'
  BY <1>1, <1>4 DEF FibtexShape, WaysFit, ownVars
<1>6. CallsFit'
  BY <1>1, <1>2, <1>3, CallsStillFit
<1>7. InsideCounted'
  BY <1>1, <1>2, StayCounts
<1>8. Holders' = Holders /\ Running' = Running
  BY <1>1, <1>3, HoldersStay
<1>9. OneHolder'
  BY <1>1, <1>8 DEF OneHolder
<1>10. \A g \in TaskFibers : stage'[g] = stage[g] /\ call'[g] = call[g]
  BY <1>2, <1>4
<1>11. TasksCounted'
  BY <1>1, <1>4, <1>8, <1>10 DEF TasksCounted
<1>12. ZeroIsFinal'
  BY <1>1, <1>4, <1>8, <1>10 DEF ZeroIsFinal
<1>13. DestroyedAtRest'
  BY <1>1, <1>2, <1>4 DEF DestroyedAtRest, FibtexShape
<1> QED
  BY <1>5, <1>6, <1>7, <1>9, <1>11, <1>12, <1>13 DEF FibtexIInv

LEMMA MainCheckOK ==
  ASSUME FibtexIInv, CheckWaitingFibers(Main), UNCHANGED <<stage, ownVars>>
  PROVE  FibtexIInv'
<1> DEFINE r == Accessed("leaving", "tasks", TaskCount, 0)
<1>1. Main \in Fibers /\ FibtexShape /\ "tasks" \in Counters
  BY FiberConstants DEF FibtexIInv
<1>2. /\ call[Main].at = "checking" /\ stage[Main] = "adding"
      /\ call[Main] = Accessed("checking", "tasks", TaskCount, 0)
  BY MainChecking DEF CheckWaitingFibers
<1>3. call[Main].counter = "tasks" /\ call[Main].new = TaskCount
  BY <1>2, CallForms
<1>4. /\ call' = [call EXCEPT ![Main] = r]
      /\ waiting' = [waiting EXCEPT !["tasks"] = {w \in @ : w[2] # TaskCount}]
      /\ UNCHANGED <<value, inside, destroyed>>
  <2>1. [call[Main] EXCEPT !.at = "leaving"] = r
    BY <1>2 DEF Accessed
  <2> QED
    BY <1>3, <2>1 DEF CheckWaitingFibers, Proceeds
<1>5. r.at = "leaving" /\ r.counter = "tasks"
  BY CallForms
<1>6. MainFits(stage[Main], r) /\ ~MainCounts(stage[Main], r) /\ ~MainCounts(stage[Main], call[Main])
  BY <1>2, <1>5 DEF MainFits, AddCall, MainCounts
<1>7. \A d \in Counters : InCall(r, d) <=> InCall(call[Main], d)
  BY <1>2, <1>3, <1>5 DEF InCall
<1>8. /\ waiting' \in [Counters -> SUBSET (Fibers \X Values)]
      /\ \A d \in Counters : waiting'[d] \subseteq waiting[d]
  BY <1>1, <1>4 DEF FibtexShape
<1>9. \A g \in Fibers : g # Main => call'[g] = call[g]
  BY <1>1, <1>4 DEF FibtexShape
<1>10. WaitersSleep'
  BY <1>1, <1>2, <1>8, <1>9, FewerWaiters
<1>11. ~MainGoesOn(stage[Main], r, <<Main, 0>> \in waiting'["tasks"])
  BY <1>2 DEF MainGoesOn
<1> HIDE DEF r
<1> QED
  BY <1>4, <1>6, <1>7, <1>8, <1>10, <1>11, MainWaits

\* The main fiber does not wait only if it has seen 0, and is resumed only by
\* the task that left 0.
LEMMA MainLookAgainOK ==
  ASSUME FibtexIInv, LookAgain(Main) \/ Resume(Main), UNCHANGED <<stage, ownVars>>
  PROVE  FibtexIInv'
<1>1. /\ Main \in Fibers /\ FibtexShape /\ WaitersSleep /\ ZeroIsFinal /\ TasksCounted
      /\ "mutex" \in Counters /\ "tasks" \in Counters
  BY FiberConstants DEF FibtexIInv
<1>2. call[Main].at \in {"listed", "asleep"}
  BY DEF LookAgain, Resume
<1>3. stage[Main] = "waiting" /\ call[Main] = Sleeper(call[Main].at, "tasks")
  BY <1>2, MainSleeping
<1>4. call[Main].counter = "tasks" /\ call[Main].target = 0
  BY <1>3, CallForms
<1>5. value["tasks"] = 0 => Running = {}
  BY <1>1, <1>3, RunningFinite, FS_EmptySet DEF TasksCounted, MainCounts
<1>6. <<Main, 0>> \notin waiting["tasks"] => Running = {}
  BY <1>1, <1>2, <1>3 DEF ZeroIsFinal, MainGoesOn
<1>7. PICK r \in {Done(TRUE), Sleeper("asleep", "tasks")} :
        /\ call' = [call EXCEPT ![Main] = r] /\ UNCHANGED <<value, inside, destroyed>>
        /\ waiting' \in [Counters -> SUBSET (Fibers \X Values)]
        /\ \A d \in Counters \ {"tasks"} : waiting'[d] = waiting[d]
        /\ waiting'["tasks"] \subseteq waiting["tasks"]
        /\ r = Done(TRUE) => <<Main, 0>> \notin waiting'["tasks"] /\ Running = {}
        /\ r = Sleeper("asleep", "tasks") => waiting' = waiting
  <2>1. Done(TRUE) = [at |-> "returned", result |-> TRUE]
    BY DEF Done
  <2>2. [call[Main] EXCEPT !.at = "asleep"] = Sleeper("asleep", "tasks")
    BY <1>3 DEF Sleeper
  <2>3. Sleeper("asleep", "tasks") # Done(TRUE)
    <3>1. Sleeper("asleep", "tasks").at # "returned"
      BY CallForms
    <3> QED
      BY <3>1, FormsDiffer, Zenon
  <2>4. CASE LookAgain(Main) /\ value["tasks"] = 0 /\ <<Main, 0>> \in waiting["tasks"]
    <3>1. /\ waiting' = [waiting EXCEPT !["tasks"] = @ \ {<<Main, 0>>}]
          /\ call' = [call EXCEPT ![Main] = Done(TRUE)] /\ UNCHANGED <<value, inside, destroyed>>
      BY <1>4, <2>1, <2>4 DEF LookAgain, Yields, Proceeds
    <3> QED
      BY <1>1, <1>5, <2>3, <2>4, <3>1 DEF FibtexShape
  <2>5. CASE LookAgain(Main) /\ ~(value["tasks"] = 0 /\ <<Main, 0>> \in waiting["tasks"])
    <3>1. /\ waiting' = waiting
          /\ call' = [call EXCEPT ![Main] = Sleeper("asleep", "tasks")] /\ UNCHANGED <<value, inside, destroyed>>
      BY <1>4, <2>2, <2>5 DEF LookAgain, Proceeds
    <3> QED
      BY <1>1, <2>3, <3>1 DEF FibtexShape
  <2>6. CASE Resume(Main)
    <3>1. /\ <<Main, 0>> \notin waiting["tasks"] /\ waiting' = waiting
          /\ call' = [call EXCEPT ![Main] = Done(TRUE)] /\ UNCHANGED <<value, inside, destroyed>>
      BY <1>4, <2>1, <2>6 DEF Resume, Yields, Proceeds
    <3> QED
      BY <1>1, <1>6, <2>3, <3>1 DEF FibtexShape
  <2> QED
    BY <2>4, <2>5, <2>6
<1>8. MainFits(stage[Main], r)
  BY <1>3 DEF MainFits, Sleeps
<1>9. r.at \in {"returned", "asleep"}
  <2>1. r = Done(TRUE) => r.at = "returned"
    BY DEF Done
  <2>2. r = Sleeper("asleep", "tasks") => r.at = "asleep"
    BY CallForms
  <2> QED
    BY <2>1, <2>2
<1>10. ~MainCounts(stage[Main], r) /\ ~MainCounts(stage[Main], call[Main])
  BY <1>3 DEF MainCounts
<1>11. MainGoesOn(stage[Main], r, <<Main, 0>> \in waiting'["tasks"]) => Running = {}
  <2>1. CASE r = Done(TRUE)
    BY <1>7, <2>1
  <2>2. CASE r = Sleeper("asleep", "tasks")
    <3>1. r.at = "asleep" /\ waiting' = waiting
      BY <1>7, <2>2, CallForms
    <3> QED
      BY <1>3, <1>6, <3>1 DEF MainGoesOn
  <2> QED
    BY <2>1, <2>2
<1>12. \A d \in Counters : InCall(r, d) <=> InCall(call[Main], d)
  BY <1>2, <1>9 DEF InCall
<1>13. WaitersSleep'
  <2>1. ASSUME NEW c \in Counters, NEW w \in waiting'[c]
        PROVE  w[2] = 0 /\ (call'[w[1]] = Sleeper("listed", c) \/ call'[w[1]] = Sleeper("asleep", c))
    <3>1. w \in waiting[c] /\ w \in Fibers \X Values
      BY <1>7, <2>1
    <3>2. w[2] = 0 /\ (call[w[1]] = Sleeper("listed", c) \/ call[w[1]] = Sleeper("asleep", c))
      BY <1>1, <3>1 DEF WaitersSleep
    <3>3. CASE w[1] # Main
      BY <1>1, <1>7, <3>1, <3>2, <3>3 DEF FibtexShape
    <3>4. CASE w[1] = Main
      <4>1. call[Main].counter = c
        BY <3>2, <3>4, CallForms
      <4>2. c = "tasks" /\ w = <<Main, 0>>
        BY <1>4, <3>1, <3>2, <3>4, <4>1
      <4>3. r = Sleeper("asleep", "tasks")
        BY <1>7, <2>1, <4>2
      <4>4. call'[Main] = r
        BY <1>1, <1>7 DEF FibtexShape
      <4> QED
        BY <3>2, <3>4, <4>2, <4>3, <4>4
    <3> QED
      BY <3>3, <3>4
  <2> QED
    BY <2>1 DEF WaitersSleep
<1> QED
  BY <1>7, <1>8, <1>10, <1>11, <1>12, <1>13, MainWaits

\* The main fiber sets the counter of the tasks.
LEMMA AccessByAdding ==
  ASSUME FibtexIInv, Access(Main), UNCHANGED <<stage, ownVars>>, stage[Main] = "adding",
         NEW o \in {FetchAdd(TaskCount), Store(TaskCount)}, call[Main] = Entered("tasks", o)
  PROVE  FibtexIInv'
<1> DEFINE r == Accessed("checking", "tasks", TaskCount, 0)
<1>1. /\ FibtexShape /\ CallsFit /\ InsideCounted /\ WaitersSleep
      /\ OneHolder /\ TasksCounted /\ ZeroIsFinal /\ DestroyedAtRest
  BY DEF FibtexIInv
<1>2. /\ Main \in Fibers /\ Main \notin TaskFibers /\ TaskFibers \subseteq Fibers
      /\ "mutex" \in Counters /\ "tasks" \in Counters /\ TaskCount \in Values
  BY FiberConstants DEF Values
<1>3. call[Main].counter = "tasks" /\ call[Main].o = o /\ call[Main].at = "entered"
  BY CallForms
<1>4. value["tasks"] = 0 /\ \A f \in TaskFibers : stage[f] = "new"
  BY <1>1, <1>3 DEF TasksCounted, MainCounts
<1>5. NewValue(o, 0) = TaskCount /\ Stores(o, 0) /\ ResultOf(o, 0) = 0
  BY Adds
<1>6. /\ value' = [value EXCEPT !["tasks"] = TaskCount] /\ call' = [call EXCEPT ![Main] = r]
      /\ UNCHANGED <<stage, waiting, inside, destroyed, ownVars>>
  BY <1>3, <1>4, <1>5 DEF Access, Proceeds, Accessed
<1>7. r.at = "checking" /\ r.counter = "tasks" /\ MainFits(stage[Main], r)
  BY CallForms DEF MainFits, AddCall
<1> HIDE DEF r
<1>8. stage' = [stage EXCEPT ![Main] = stage[Main]]
  BY <1>1, <1>2, <1>6 DEF FibtexShape
<1>9. /\ stage' = stage /\ call'[Main] = r
      /\ \A g \in Fibers : g # Main => call'[g] = call[g]
      /\ call' = [g \in Fibers |-> call'[g]]
  BY <1>1, <1>2, <1>6, <1>8, FiberMoves
<1>10. FibtexShape'
  BY <1>1, <1>2, <1>6, <1>9 DEF FibtexShape, WaysFit, ownVars
<1>11. CallsFit'
  BY <1>1, <1>2, <1>6, <1>7, <1>8, CallsStillFit
<1>12. \A c \in Counters : InCall(r, c) <=> InCall(call[Main], c)
  BY <1>3, <1>7 DEF InCall
<1>13. InsideCounted'
  BY <1>1, <1>2, <1>6, <1>12, StayCounts
<1>14. WaitersSleep'
  <2>1. waiting' \in [Counters -> SUBSET (Fibers \X Values)] /\ \A c \in Counters : waiting'[c] \subseteq waiting[c]
    BY <1>1, <1>6 DEF FibtexShape
  <2> QED
    BY <1>2, <1>3, <1>9, <2>1, FewerWaiters
<1>15. Holders' = Holders /\ Running' = Running
  BY <1>1, <1>6, <1>8, HoldersStay
<1>16. OneHolder'
  <2>1. value'["mutex"] = value["mutex"]
    BY <1>1, <1>2, <1>6 DEF FibtexShape
  <2> QED
    BY <1>1, <1>15, <2>1 DEF OneHolder
<1>17. TasksCounted'
  <2>1. Running = TaskFibers
    BY <1>4 DEF Running, Counted
  <2>2. value'["tasks"] = Cardinality(Running')
    BY <1>1, <1>2, <1>6, <1>15, <2>1 DEF FibtexShape, TaskCount
  <2>3. ~MainCounts(stage'[Main], call'[Main])
    BY <1>7, <1>9 DEF MainCounts
  <2> QED
    BY <1>4, <1>9, <2>2, <2>3 DEF TasksCounted
<1>18. ZeroIsFinal'
  <2>1. ~MainGoesOn(stage'[Main], call'[Main], <<Main, 0>> \in waiting'["tasks"])
    BY <1>9 DEF MainGoesOn
  <2>2. \A f \in TaskFibers : stage'[f] # "ending"
    BY <1>4, <1>9
  <2> QED
    BY <2>1, <2>2 DEF ZeroIsFinal
<1>19. DestroyedAtRest'
  BY <1>1, <1>2, <1>6, <1>9, <1>12 DEF DestroyedAtRest, FibtexShape
<1> QED
  BY <1>10, <1>11, <1>13, <1>14, <1>16, <1>17, <1>18, <1>19 DEF FibtexIInv

\* The main fiber looks at the counter, before its wait and after it.
LEMMA AccessByReading ==
  ASSUME FibtexIInv, Access(Main), UNCHANGED <<stage, ownVars>>, stage[Main] \in {"looking", "reading"},
         call[Main] = Entered("tasks", Load)
  PROVE  FibtexIInv'
<1> DEFINE v == value["tasks"]
           r == Accessed("leaving", "tasks", v, v)
<1>1. /\ Main \in Fibers /\ FibtexShape /\ InsideCounted /\ ZeroIsFinal /\ TasksCounted /\ "tasks" \in Counters
  BY FiberConstants DEF FibtexIInv
<1>2. call[Main].counter = "tasks" /\ call[Main].o = Load /\ call[Main].at = "entered"
  BY CallForms
<1>3. v \in Values /\ v = Cardinality(Running)
  BY <1>1 DEF FibtexShape, TasksCounted, MainCounts
<1>4. v = 0 <=> Running = {}
  BY <1>3, RunningFinite, FS_EmptySet
<1>5. stage[Main] = "reading" => Running = {} /\ v = 0
  BY <1>1, <1>4 DEF ZeroIsFinal, MainGoesOn
<1>6. NewValue(Load, v) = v /\ ~Stores(Load, v) /\ ResultOf(Load, v) = v
  BY Loads
<1>7. /\ value' = [value EXCEPT !["tasks"] = v] /\ call' = [call EXCEPT ![Main] = r]
      /\ UNCHANGED <<stage, waiting, inside, destroyed, way, spins, locks>>
  BY <1>2, <1>6 DEF Access, Proceeds, Accessed, ownVars
<1>8. value' = value /\ stage' = [stage EXCEPT ![Main] = stage[Main]]
  BY <1>1, <1>7 DEF FibtexShape
<1>9. r.at = "leaving" /\ r.counter = "tasks" /\ r.result = v
  BY CallForms
<1>10. MainFits(stage[Main], r)
  BY <1>3, <1>5 DEF MainFits, LookCall, ReadCall
<1>11. MainGoesOn(stage[Main], r, <<Main, 0>> \in waiting["tasks"]) => Running = {}
  BY <1>4, <1>5, <1>9 DEF MainGoesOn
<1> HIDE DEF r, v
<1>12. \A c \in Counters : InCall(r, c) <=> InCall(call[Main], c)
  BY <1>2, <1>9 DEF InCall
<1>13. InsideCounted' /\ inside' \in [Counters -> Int]
  BY <1>1, <1>7, <1>12, StayCounts DEF FibtexShape
<1>14. ~MainCounts(stage[Main], r) /\ ~MainCounts(stage[Main], call[Main])
  BY DEF MainCounts
<1> QED
  BY <1>2, <1>7, <1>8, <1>9, <1>10, <1>11, <1>12, <1>13, <1>14, MainMoves

LEMMA MainCallStepOK ==
  ASSUME FibtexIInv, CallStep(Main), UNCHANGED <<stage, ownVars>>
  PROVE  FibtexIInv'
<1>1. CASE Access(Main)
  <2>1. call[Main].at = "entered"
    BY <1>1 DEF Access
  <2>2. CASE /\ stage[Main] = "adding"
             /\ \E o \in {FetchAdd(TaskCount), Store(TaskCount)} : call[Main] = Entered("tasks", o)
    BY <1>1, <2>2, AccessByAdding
  <2>3. CASE stage[Main] \in {"looking", "reading"} /\ call[Main] = Entered("tasks", Load)
    BY <1>1, <2>3, AccessByReading
  <2> QED
    BY <2>1, <2>2, <2>3, MainEntered
<1> QED
  BY <1>1, MainCheckOK, MainLeaveOK, MainLookAgainOK DEF CallStep

\* The tasks are added: all of them are new until then.
LEMMA AddTasksOK ==
  ASSUME FibtexIInv, AddTasks
  PROVE  FibtexIInv'
<1>1. /\ FibtexShape /\ CallsFit /\ InsideCounted /\ WaitersSleep
      /\ OneHolder /\ TasksCounted /\ ZeroIsFinal /\ DestroyedAtRest
  BY DEF FibtexIInv
<1>2. /\ Main \in Fibers /\ Main \notin TaskFibers /\ TaskFibers \subseteq Fibers
  BY FiberConstants
<1>3. /\ stage[Main] = "adding" /\ call[Main].at = "returned"
      /\ stage' = [f \in Fibers |-> IF f = Main THEN "added" ELSE "ready"]
      /\ call' = [call EXCEPT ![Main] = NoCall]
      /\ UNCHANGED <<value, inside, waiting, destroyed, way, spins, locks>>
  BY DEF AddTasks, Returned, EndCall, ownVars
<1>4. /\ stage'[Main] = "added" /\ call'[Main] = NoCall
      /\ \A f \in TaskFibers : stage[f] = "new" /\ stage'[f] = "ready" /\ call'[f] = call[f]
      /\ \A f \in Fibers : f # Main => call'[f] = call[f]
      /\ stage' = [f \in Fibers |-> stage'[f]] /\ call' = [f \in Fibers |-> call'[f]]
  BY <1>1, <1>2, <1>3 DEF FibtexShape, TasksCounted
<1>5. \A f \in TaskFibers : call[f] = NoCall
  <2>1. ASSUME NEW f \in TaskFibers
        PROVE  call[f] = NoCall
    <3>1. TaskFits(stage[f], call[f]) /\ stage[f] = "new"
      BY <1>1, <1>4 DEF CallsFit
    <3> QED
      BY <3>1 DEF TaskFits
  <2> QED
    BY <2>1
<1>6. FibtexShape'
  BY <1>1, <1>3, <1>4 DEF FibtexShape, WaysFit
<1>7. CallsFit'
  BY <1>4, <1>5 DEF CallsFit, MainFits, TaskFits
<1>8. InsideCounted'
  <2>1. \A c \in Counters : ~InCall(NoCall, c) /\ ~InCall(call[Main], c)
    BY <1>3, CallForms DEF InCall
  <2> QED
    BY <1>1, <1>2, <1>3, <2>1, StayCounts
<1>9. WaitersSleep'
  <2>1. waiting' \in [Counters -> SUBSET (Fibers \X Values)] /\ \A c \in Counters : waiting'[c] \subseteq waiting[c]
    BY <1>1, <1>3 DEF FibtexShape
  <2> QED
    BY <1>1, <1>2, <1>3, <1>4, <2>1, FewerWaiters
<1>10. Holders' = {} /\ Holders = {}
  BY <1>4 DEF Holders
<1>11. OneHolder'
  BY <1>1, <1>3, <1>10 DEF OneHolder
<1>12. Running' = Running
  BY <1>4 DEF Running, Counted
<1>13. TasksCounted'
  <2>1. value["tasks"] = Cardinality(Running)
    BY <1>1, <1>3 DEF TasksCounted, MainCounts
  <2> QED
    BY <1>3, <1>4, <1>12, <2>1 DEF TasksCounted, MainCounts
<1>14. ZeroIsFinal'
  BY <1>4 DEF ZeroIsFinal, MainGoesOn
<1>15. DestroyedAtRest'
  <2>1. destroyed' = {}
    BY <1>1, <1>3 DEF DestroyedAtRest
  <2> QED
    BY <2>1 DEF DestroyedAtRest
<1> QED
  BY <1>6, <1>7, <1>8, <1>9, <1>11, <1>13, <1>14, <1>15 DEF FibtexIInv

\* The main fiber puts itself on the list, whatever the tasks have done since
\* it looked at the counter.
LEMMA WaitForTasksOK ==
  ASSUME FibtexIInv, WaitForTasks
  PROVE  FibtexIInv'
<1>1. /\ FibtexShape /\ CallsFit /\ InsideCounted /\ WaitersSleep
      /\ OneHolder /\ TasksCounted /\ ZeroIsFinal /\ DestroyedAtRest
  BY DEF FibtexIInv
<1>2. /\ Main \in Fibers /\ Main \notin TaskFibers /\ TaskFibers \subseteq Fibers
      /\ "tasks" \in Counters /\ 0 \in Values
  BY FiberConstants DEF Values
<1>3. /\ stage[Main] = "looking" /\ call[Main].at = "returned"
      /\ stage' = [stage EXCEPT ![Main] = "waiting"]
      /\ UNCHANGED <<value, inside, destroyed, way, spins, locks>>
  BY DEF WaitForTasks, Returned, Goes, WaitForCounter, ownVars
<1>4. PICK r \in {Sleeper("listed", "tasks"), Lost("tasks")} :
        /\ call' = [call EXCEPT ![Main] = r]
        /\ waiting' = IF r = Sleeper("listed", "tasks") THEN [waiting EXCEPT !["tasks"] = @ \union {<<Main, 0>>}]
                      ELSE waiting
  <2>1. Sleeper("listed", "tasks") # Lost("tasks")
    <3>1. Sleeper("listed", "tasks").at = "listed" /\ Lost("tasks").at = "lost"
      BY DEF Sleeper, Lost
    <3> QED
      BY <3>1
  <2>2. CASE Cardinality(waiting["tasks"]) < FiberSlots
    BY <2>2 DEF WaitForTasks, WaitForCounter, Proceeds, Sleeper
  <2>3. CASE ~(Cardinality(waiting["tasks"]) < FiberSlots)
    BY <2>1, <2>3 DEF WaitForTasks, WaitForCounter, Proceeds, Lost
  <2> QED
    BY <2>2, <2>3
<1>5. r.at \in {"listed", "lost"} /\ MainFits("waiting", r)
  <2>1. r.at \in {"listed", "lost"}
    BY DEF Sleeper, Lost
  <2>2. MainFits("waiting", r)
    BY Zenon DEF MainFits, Sleeps
  <2> QED
    BY <2>1, <2>2
<1>6. /\ stage'[Main] = "waiting" /\ call'[Main] = r
      /\ \A f \in Fibers : f # Main => stage'[f] = stage[f] /\ call'[f] = call[f]
      /\ stage' = [f \in Fibers |-> stage'[f]] /\ call' = [f \in Fibers |-> call'[f]]
  BY <1>1, <1>2, <1>3, <1>4, FiberMoves
<1>7. \A f \in TaskFibers : stage'[f] = stage[f] /\ call'[f] = call[f]
  BY <1>2, <1>6
<1>8. FibtexShape'
  <2>1. waiting' \in [Counters -> SUBSET (Fibers \X Values)]
    BY <1>1, <1>2, <1>4 DEF FibtexShape
  <2> QED
    BY <1>1, <1>3, <1>6, <2>1 DEF FibtexShape, WaysFit
<1>9. CallsFit'
  BY <1>1, <1>2, <1>3, <1>4, <1>5, CallsStillFit
<1>10. \A c \in Counters : ~InCall(r, c) /\ ~InCall(call[Main], c)
  BY <1>3, <1>5 DEF InCall
<1>11. InsideCounted'
  BY <1>1, <1>2, <1>3, <1>4, <1>10, StayCounts
<1>12. WaitersSleep'
  <2>1. ASSUME NEW c \in Counters, NEW w \in waiting'[c]
        PROVE  w[2] = 0 /\ (call'[w[1]] = Sleeper("listed", c) \/ call'[w[1]] = Sleeper("asleep", c))
    <3>1. CASE w \in waiting[c]
      <4>1. w[1] \in Fibers
        BY <1>1, <3>1 DEF FibtexShape
      <4>2. w[2] = 0 /\ (call[w[1]] = Sleeper("listed", c) \/ call[w[1]] = Sleeper("asleep", c))
        BY <1>1, <3>1 DEF WaitersSleep
      <4>3. call[w[1]].at # "returned"
        BY <4>2, CallForms
      <4> QED
        BY <1>3, <1>6, <4>1, <4>2, <4>3
    <3>2. CASE w \notin waiting[c]
      <4>1. r = Sleeper("listed", "tasks") /\ c = "tasks" /\ w = <<Main, 0>>
        BY <1>1, <1>4, <3>2 DEF FibtexShape
      <4> QED
        BY <1>6, <4>1
    <3> QED
      BY <3>1, <3>2
  <2> QED
    BY <2>1 DEF WaitersSleep
<1>13. Holders' = Holders /\ Running' = Running
  BY <1>1, <1>3, <1>4, HoldersStay
<1>14. OneHolder'
  BY <1>1, <1>3, <1>13 DEF OneHolder
<1>15. TasksCounted'
  BY <1>1, <1>3, <1>6, <1>7, <1>13 DEF TasksCounted, MainCounts
<1>16. ZeroIsFinal'
  <2>1. ~MainGoesOn(stage'[Main], call'[Main], <<Main, 0>> \in waiting'["tasks"])
    <3>1. CASE r = Lost("tasks")
      <4>1. r.at = "lost"
        BY <3>1 DEF Lost
      <4> QED
        BY <1>6, <4>1 DEF MainGoesOn
    <3>2. CASE r = Sleeper("listed", "tasks")
      <4>1. <<Main, 0>> \in waiting'["tasks"] /\ r.at = "listed"
        BY <1>1, <1>2, <1>4, <3>2 DEF FibtexShape, Sleeper
      <4> QED
        BY <1>6, <4>1 DEF MainGoesOn
    <3> QED
      BY <3>1, <3>2
  <2> QED
    BY <1>1, <1>7, <1>13, <2>1 DEF ZeroIsFinal
<1>17. DestroyedAtRest'
  <2>1. destroyed' = {}
    BY <1>1, <1>3 DEF DestroyedAtRest
  <2> QED
    BY <2>1 DEF DestroyedAtRest
<1> QED
  BY <1>8, <1>9, <1>11, <1>12, <1>14, <1>15, <1>16, <1>17 DEF FibtexIInv

\* A counter is destroyed when m_lock says that no call is in it.
LEMMA DestroyCounterOK ==
  ASSUME FibtexIInv, NEW c \in Counters, DestroyCounter(c)
  PROVE  FibtexIInv'
<1>1. /\ FibtexShape /\ CallsFit /\ InsideCounted /\ WaitersSleep
      /\ OneHolder /\ TasksCounted /\ ZeroIsFinal /\ DestroyedAtRest
  BY DEF FibtexIInv
<1>2. /\ stage[Main] = "destroying" /\ inside[c] = 0 /\ destroyed' = destroyed \union {c}
      /\ UNCHANGED <<value, inside, waiting, call, stage, way, spins, locks>>
  BY DEF DestroyCounter, Destroy, MayDestroy, ownVars
<1>3. CallersOf(c) = {}
  <2>1. IsFiniteSet(CallersOf(c))
    BY FiberConstants, FS_Subset DEF CallersOf
  <2> QED
    BY <1>1, <1>2, <2>1, FS_EmptySet DEF InsideCounted
<1>4. DestroyedAtRest'
  BY <1>1, <1>2, <1>3 DEF DestroyedAtRest, CallersOf
<1>5. FibtexShape'
  BY <1>1, <1>2 DEF FibtexShape, WaysFit
<1>6. CallsFit' /\ InsideCounted' /\ WaitersSleep'
  BY <1>1, <1>2 DEF CallsFit, InsideCounted, CallersOf, WaitersSleep
<1>7. Holders' = Holders /\ Running' = Running
  BY <1>2 DEF Holders, Running
<1>8. OneHolder' /\ TasksCounted' /\ ZeroIsFinal'
  BY <1>1, <1>2, <1>7 DEF OneHolder, TasksCounted, ZeroIsFinal
<1> QED
  BY <1>4, <1>5, <1>6, <1>8 DEF FibtexIInv

LEMMA FibtexInitOK ==
  ASSUME FibtexInit
  PROVE  FibtexIInv
<1>1. /\ Main \in Fibers /\ Main \notin TaskFibers /\ TaskFibers \subseteq Fibers
      /\ "mutex" \in Counters /\ "tasks" \in Counters /\ 0 \in Values
  BY FiberConstants DEF Values
<1>2. /\ stage[Main] = "start" /\ \A f \in TaskFibers : stage[f] = "new"
      /\ \A f \in Fibers : call[f] = NoCall /\ call[f].at = "none"
  BY <1>1, CallForms DEF FibtexInit, CounterInit
<1>3. FibtexShape
  BY <1>1, FibtexAssumption DEF FibtexInit, CounterInit, FibtexShape, WaysFit
<1>4. CallsFit
  BY <1>1, <1>2 DEF CallsFit, MainFits, TaskFits
<1>5. InsideCounted
  <2>1. \A c \in Counters : CallersOf(c) = {}
    BY <1>2 DEF CallersOf, InCall
  <2> QED
    BY <2>1, FS_EmptySet DEF InsideCounted, FibtexInit, CounterInit
<1>6. WaitersSleep
  BY DEF WaitersSleep, FibtexInit, CounterInit
<1>7. OneHolder
  <2>1. Holders = {}
    BY <1>2 DEF Holders
  <2> QED
    BY <1>1, <2>1, FS_EmptySet DEF OneHolder, FibtexInit, CounterInit
<1>8. TasksCounted
  BY <1>1, <1>2 DEF TasksCounted, MainCounts, FibtexInit, CounterInit
<1>9. ZeroIsFinal
  BY <1>2 DEF ZeroIsFinal, MainGoesOn
<1>10. DestroyedAtRest
  BY DEF DestroyedAtRest, FibtexInit, CounterInit
<1> QED
  BY <1>3, <1>4, <1>5, <1>6, <1>7, <1>8, <1>9, <1>10 DEF FibtexIInv

LEMMA FibtexStepOK ==
  ASSUME FibtexIInv, [FibtexNext]_fibtexVars
  PROVE  FibtexIInv'
<1>1. CASE \E o \in {FetchAdd(Cardinality(TaskFibers)), Store(Cardinality(TaskFibers))} : CountTasks(o)
  BY <1>1, CountTasksOK DEF TaskCount
<1>2. CASE MainStep
  BY <1>2, MainCallStepOK, AddTasksOK, LoadCounterOK, WaitForTasksOK, MainResultOK, ReadCounterOK,
     DestroyCounterOK DEF MainStep
<1>3. ASSUME NEW f \in TaskFibers, FiberStep(f) \/ \E b \in Behaviors[f] : Begin(f, b)
      PROVE  FibtexIInv'
  <2>1. CASE CallStep(f) /\ UNCHANGED <<stage, ownVars>>
    BY <2>1, TaskCallStepOK
  <2>2. CASE Attempt(f) \/ Locked(f) \/ Yield(f) \/ Spin(f) \/ GiveUp(f)
    BY <2>2, AttemptOK, LockedOK, YieldOK, SpinOK
  <2>3. CASE Retry(f) \/ Unlock(f) \/ Unlocked(f) \/ EndTask(f) \/ TaskEnded(f)
    BY <2>3, RetryOK, UnlockOK, EndTaskOK
  <2>4. CASE \E b \in Behaviors[f] : Begin(f, b)
    BY <2>4, BeginOK
  <2> QED
    BY <1>3, <2>1, <2>2, <2>3, <2>4 DEF FiberStep
<1>4. CASE UNCHANGED fibtexVars
  <2>1. UNCHANGED <<value, inside, waiting, destroyed, call, stage, way, spins, locks>>
    BY <1>4 DEF fibtexVars, counterVars
  <2>2. Holders' = Holders /\ Running' = Running
    BY <2>1 DEF Holders, Running
  <2>3. FibtexShape' /\ CallsFit'
    BY <2>1 DEF FibtexIInv, FibtexShape, WaysFit, CallsFit
  <2>4. InsideCounted' /\ WaitersSleep' /\ DestroyedAtRest'
    BY <2>1 DEF FibtexIInv, InsideCounted, CallersOf, WaitersSleep, DestroyedAtRest
  <2>5. OneHolder' /\ TasksCounted' /\ ZeroIsFinal'
    BY <2>1, <2>2 DEF FibtexIInv, OneHolder, TasksCounted, ZeroIsFinal
  <2> QED
    BY <2>3, <2>4, <2>5 DEF FibtexIInv
<1> QED
  BY <1>1, <1>2, <1>3, <1>4 DEF FibtexNext


-----------------------------------------------------------------------------
\* What the invariant means: the stages, ...
MainStages == {"start", "adding", "added", "looking", "waiting", "resumed", "reading", "destroying"}

LEMMA StagesFit ==
  ASSUME FibtexIInv
  PROVE  /\ stage[Main] \in MainStages
         /\ \A f \in TaskFibers :
              stage[f] \in {"new", "ready", "locking", "waiting", "holding", "unlocking", "ending", "ended"}
<1>1. MainFits(stage[Main], call[Main]) /\ \A f \in TaskFibers : TaskFits(stage[f], call[f])
  BY DEF FibtexIInv, CallsFit
<1>2. stage[Main] \in MainStages
  BY <1>1 DEF MainFits, MainStages
<1>3. \A f \in TaskFibers :
        stage[f] \in {"new", "ready", "locking", "waiting", "holding", "unlocking", "ending", "ended"}
  BY <1>1 DEF TaskFits
<1> QED
  BY <1>2, <1>3

\* ... the types, ...
LEMMA FibtexTypes ==
  ASSUME FibtexIInv
  PROVE  FibtexTypeOK
<1>1. /\ FibtexShape /\ InsideCounted /\ WaitersSleep
  BY DEF FibtexIInv
<1>2. CounterTypeOK
  <2>1. value \in [Counters -> 0 .. ValueRange - 1] /\ destroyed \subseteq Counters
    BY <1>1 DEF FibtexShape, Values
  <2>2. ASSUME NEW c \in Counters
        PROVE  inside[c] = Cardinality({f \in Fibers :
                 call[f].at \in {"entered", "checking", "leaving"} /\ call[f].counter = c})
    BY <1>1 DEF InsideCounted, CallersOf, InCall
  <2>3. ASSUME NEW c \in Counters, NEW w \in waiting[c]
        PROVE  /\ w[1] \in Fibers /\ w[2] \in 0 .. ValueRange - 1
               /\ call[w[1]].at \in {"listed", "asleep"} /\ call[w[1]].counter = c
    <3>1. w[1] \in Fibers /\ w[2] \in 0 .. ValueRange - 1
      BY <1>1 DEF FibtexShape, Values
    <3>2. call[w[1]] = Sleeper("listed", c) \/ call[w[1]] = Sleeper("asleep", c)
      BY <1>1 DEF WaitersSleep
    <3> QED
      BY <3>1, <3>2, CallForms
  <2> QED
    BY <2>1, <2>2, <2>3 DEF CounterTypeOK
<1>3. ASSUME NEW f \in Fibers
      PROVE  stage[f] \in IF f = Main THEN MainStages
                          ELSE {"new", "ready", "locking", "waiting", "holding", "unlocking", "ending", "ended"}
  BY StagesFit DEF TaskFibers
<1> QED
  BY <1>1, <1>2, <1>3 DEF FibtexTypeOK, FibtexShape, WaysFit, MainStages

\* ... the assertion of unlock, ...
LEMMA Excludes ==
  ASSUME FibtexIInv
  PROVE  MutualExclusion
<1>1. ASSUME NEW f \in TaskFibers, Returned(f, "unlocking")
      PROVE  call[f].result
  <2>1. TaskFits("unlocking", call[f]) /\ call[f].at = "returned"
    BY <1>1 DEF FibtexIInv, CallsFit, Returned
  <2>2. UnlockCall(call[f])
    BY <2>1 DEF TaskFits
  <2>3. call[f] = Done(TRUE)
    <3>1. call[f].at # "entered" /\ call[f].at # "checking" /\ call[f].at # "leaving"
      BY <2>1
    <3> QED
      BY <2>2, <3>1, FormsDiffer, Zenon DEF UnlockCall
  <2> QED
    BY <2>3 DEF Done
<1> QED
  BY <1>1 DEF FibtexIInv, OneHolder, MutualExclusion

\* ... and what the main fiber relies on.
LEMMA Outlives ==
  ASSUME FibtexIInv
  PROVE  CountersOutliveCalls
<1>1. /\ FibtexShape /\ CallsFit /\ InsideCounted /\ WaitersSleep /\ TasksCounted /\ ZeroIsFinal /\ DestroyedAtRest
  BY DEF FibtexIInv
<1>2. ASSUME stage[Main] \in {"resumed", "reading", "destroying"}
      PROVE  /\ Running = {} /\ value["tasks"] = 0
             /\ \A f \in TaskFibers : stage[f] \in {"ending", "ended"}
  <2>1. Running = {}
    BY <1>1, <1>2 DEF ZeroIsFinal, MainGoesOn
  <2>2. value["tasks"] = 0
    BY <1>1, <1>2, <2>1, FS_EmptySet DEF TasksCounted, MainCounts
  <2>3. \A f \in TaskFibers : Counted(stage[f], call[f])
    BY <2>1 DEF Running
  <2> QED
    BY <2>1, <2>2, <2>3 DEF Counted
<1>3. ASSUME NEW c \in destroyed
      PROVE  /\ inside[c] = 0 /\ waiting[c] = {}
             /\ \A f \in Fibers : call[f] # NoCall => call[f].at = "returned" \/ call[f].counter # c
  <2>1. /\ c \in Counters /\ stage[Main] = "destroying" /\ call[Main] = NoCall
        /\ \A f \in Fibers : ~InCall(call[f], c)
    BY <1>1 DEF FibtexShape, DestroyedAtRest, CallsFit, MainFits
  <2>2. ASSUME NEW f \in Fibers
        PROVE  call[f] = NoCall \/ call[f].at \in {"entered", "checking", "leaving", "returned"}
    <3>1. CASE f # Main
      <4>1. f \in TaskFibers
        BY <3>1 DEF TaskFibers
      <4>2. TaskFits(stage[f], call[f]) /\ stage[f] \in {"ending", "ended"}
        BY <1>1, <1>2, <2>1, <4>1 DEF CallsFit
      <4>3. call[f] = NoCall \/ EndCallForm(call[f])
        BY <4>2 DEF TaskFits
      <4> QED
        BY <4>3, CallForms DEF EndCallForm
    <3> QED
      BY <2>1, <3>1
  <2>3. CallersOf(c) = {}
    BY <2>1 DEF CallersOf
  <2>4. inside[c] = 0
    BY <1>1, <2>1, <2>3, FS_EmptySet DEF InsideCounted
  <2>5. waiting[c] = {}
    <3>1. ASSUME NEW w \in waiting[c]
          PROVE  FALSE
      <4>1. w[1] \in Fibers
        BY <1>1, <2>1 DEF FibtexShape
      <4>2. call[w[1]].at \in {"listed", "asleep"}
        <5>1. call[w[1]] = Sleeper("listed", c) \/ call[w[1]] = Sleeper("asleep", c)
          BY <1>1, <2>1 DEF WaitersSleep
        <5> QED
          BY <5>1, CallForms
      <4>3. NoCall.at = "none"
        BY CallForms
      <4> QED
        BY <2>2, <4>1, <4>2, <4>3
    <3> QED
      BY <3>1
  <2> QED
    BY <2>1, <2>2, <2>4, <2>5 DEF InCall
<1> QED
  BY <1>2, <1>3 DEF CountersOutliveCalls

-----------------------------------------------------------------------------
\* The invariant of the pool holds in every behaviour.
LEMMA PoolInvariant == Spec => []PoolIInv
<1>1. Init => PoolIInv
  BY PoolInitOK
<1>2. PoolIInv /\ [Next]_vars => PoolIInv'
  BY PoolStepOK
<1> QED
  BY <1>1, <1>2, PTL DEF Spec

\* The state of the pool has its type (threadpool.h): a worker has a task
\* exactly while it runs one, and only who may notify does.
THEOREM PoolTypeCorrectness == Spec => []TypeOK
<1>1. PoolIInv => TypeOK
  BY DEF PoolIInv
<1> QED
  BY <1>1, PoolInvariant, PTL

\* However many callers enqueue and workers run, and whatever wakes them: no
\* task that ThreadPool::enqueue took is lost, run twice or overtaken by a
\* later one, and none of those it refused is run.
THEOREM TasksRunOnce == Spec => []EachTaskOnce
<1>1. PoolIInv => EachTaskOnce
  BY DEF PoolIInv
<1> QED
  BY <1>1, PoolInvariant, PTL

\* No worker of the pool sleeps through work: while one waits, enough
\* notifications are still to come, or workers awake, for the tasks in the
\* queue, and after stop is set the notify_all of the destructor is.
THEOREM WorkIsNoticed == Spec => []NoLostWakeup
<1>1. PoolIInv => NoLostWakeup
  BY DEF PoolIInv
<1> QED
  BY <1>1, PoolInvariant, PTL

\* The destructor of the pool returns only after every task that was accepted
\* has been executed, if the pool has a worker at all: with none, it joins
\* nobody and drops what is in the queue.
THEOREM DestructorDrains ==
  ASSUME Workers # {}
  PROVE  Spec => []DrainedAtEnd
<1>1. PoolIInv => DrainedAtEnd
  BY PoolDrains
<1> QED
  BY <1>1, PoolInvariant, PTL

-----------------------------------------------------------------------------
\* The invariant of the fibers holds in every behaviour.
LEMMA FibtexInvariant == FibtexSpec => []FibtexIInv
<1>1. FibtexInit => FibtexIInv
  BY FibtexInitOK
<1>2. FibtexIInv /\ [FibtexNext]_fibtexVars => FibtexIInv'
  BY FibtexStepOK
<1> QED
  BY <1>1, <1>2, PTL DEF FibtexSpec

\* At most one of any number of fibers has the mutex (fibtex.h), whatever
\* mixture of lock, lock_spin, lock_spin_infinite and try_lock they use; its
\* counter is 1 exactly if one has it, and the compare-and-exchange of unlock,
\* which is asserted to succeed, does.
THEOREM MutexExcludes == FibtexSpec => []MutualExclusion
<1>1. FibtexIInv => MutualExclusion
  BY Excludes
<1> QED
  BY <1>1, FibtexInvariant, PTL

\* WaitForCounter returns only after every task has counted down, and the
\* destructor of a counter (atomic_counter.h) only when no call is in it and no
\* fiber on its list, although the last task is still in its fetch_sub when
\* the fiber that waits is resumed.
THEOREM DestructionIsLast == FibtexSpec => []CountersOutliveCalls
<1>1. FibtexIInv => CountersOutliveCalls
  BY Outlives
<1> QED
  BY <1>1, FibtexInvariant, PTL

\* The state of the counters and of the fibers has its type: m_lock counts
\* exactly those that are in a call, and who is on the list of a counter waits
\* for it.
THEOREM FibersTypeCorrectness == FibtexSpec => []FibtexTypeOK
<1>1. FibtexIInv => FibtexTypeOK
  BY FibtexTypes
<1> QED
  BY <1>1, FibtexInvariant, PTL

-----------------------------------------------------------------------------
\* The pool, the queue and the fibers side by side, as the specification of
\* Executors has them: it moves one of them at a time.
THEOREM ExecutorsInvariant == ExecutorsSpec => [](PoolIInv /\ QueueIInv /\ FibtexIInv)
<1>1. ExecutorsInit => PoolIInv /\ QueueIInv /\ FibtexIInv
  BY PoolInitOK, QueueInitOK, FibtexInitOK DEF ExecutorsInit
<1>2. PoolIInv /\ QueueIInv /\ FibtexIInv /\ [ExecutorsNext]_allVars
        => PoolIInv' /\ QueueIInv' /\ FibtexIInv'
  <2> SUFFICES ASSUME PoolIInv, QueueIInv, FibtexIInv, [ExecutorsNext]_allVars
               PROVE  PoolIInv' /\ QueueIInv' /\ FibtexIInv'
    OBVIOUS
  <2>1. [Next]_vars /\ [QueueNext]_queueVars /\ [FibtexNext]_fibtexVars
    BY DEF ExecutorsNext, allVars, OfPool, OfQueue, OfFibers
  <2> QED
    BY <2>1, PoolStepOK, QueueStepOK, FibtexStepOK
<1> QED
  BY <1>1, <1>2, PTL DEF ExecutorsSpec

\* The states of all three have their types, whichever of them moves.
THEOREM ExecutorsTypeCorrectness == ExecutorsSpec => []ExecutorsTypeOK
<1>1. PoolIInv /\ QueueIInv /\ FibtexIInv => ExecutorsTypeOK
  BY QueueTypes, FibtexTypes DEF PoolIInv, ExecutorsTypeOK
<1> QED
  BY <1>1, ExecutorsInvariant, PTL

=============================================================================
