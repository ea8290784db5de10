----------------------------- MODULE ListProofs -----------------------------
(***************************************************************************)
(* Lemmas about loops over lists: a form of induction along a list, and    *)
(* what the folds of Lists, and FlattenSeq, compute for every list.        *)
(***************************************************************************)
EXTENDS Lists, FiniteSetTheorems, SequenceTheorems, WellFoundedInduction, TLAPS

\* A set of naturals that is not empty has a least element, which gives a form
\* of induction.
LEMMA LeastNumber ==
  ASSUME NEW T \in SUBSET Nat, T # {}
  PROVE  \E x \in T : \A y \in T : x <= y
<1> DEFINE R == {p \in Nat \X Nat : p[1] < p[2]}
<1>0. IsWellFoundedOn(OpToRel(<, Nat), Nat)
  BY NatLessThanWellFounded
<1>3. R \subseteq OpToRel(<, Nat)
  BY Zenon DEF OpToRel
<1>4. R \cap (Nat \X Nat) \subseteq OpToRel(<, Nat)
  BY <1>3
<1>1. IsWellFoundedOn(R, Nat)
  BY <1>0, <1>4, IsWellFoundedOnSubrelation
<1>5. \A x, y \in Nat : y < x => <<y, x>> \in R 
  OBVIOUS
<1> HIDE DEF R
<1>2. \E x \in T : \A y \in T : ~ (<<y, x>> \in R)
  BY <1>1, WFMin
<1>6. PICK x \in T : \A y \in T : ~ (<<y, x>> \in R)
  BY <1>2
<1>7. ASSUME NEW y \in T PROVE x <= y
  <2>1. x \in Nat /\ y \in Nat 
    OBVIOUS
  <2>2. ~ (y < x)
     BY <1>6, <1>5, <2>1
  <2> QED BY <2>1, <2>2
<1> QED BY <1>7

\* A property of 0 that every number passes on to the next holds up to any number.
LEMMA UpTo ==
  ASSUME NEW n \in Nat, NEW T, 0 \in T, \A k \in 0 .. n - 1 : k \in T => k + 1 \in T
  PROVE  \A k \in 0 .. n : k \in T
<1> DEFINE F == {k \in 0 .. n : k \notin T}
<1>1. SUFFICES ASSUME F # {} PROVE FALSE
  OBVIOUS
<1>2. F \in SUBSET Nat
  OBVIOUS
<1>3. PICK k \in F : \A y \in F : k <= y
  <2> HIDE DEF F
  <2> QED BY <1>1, <1>2, LeastNumber
<1>4. k # 0 /\ k \in 0 .. n /\ k - 1 \in 0 .. n - 1
  OBVIOUS
<1>5. k - 1 \in T
  BY <1>3, <1>4
<1>6. (k - 1) + 1 = k
  BY <1>4
<1> QED
  BY <1>4, <1>5, <1>6

\* The greatest number of a set of numbers up to it.
LEMMA MaxOfTop ==
  ASSUME NEW k \in Nat, NEW s, s \subseteq 1 .. k + 1, k + 1 \in s
  PROVE  Max(s) = k + 1
<1>1. \A y \in s : k + 1 >= y
  OBVIOUS
<1>2. \A x \in s : (\A y \in s : x >= y) => x = k + 1
  OBVIOUS
<1> QED
  BY <1>1, <1>2 DEF Max

\* The greatest number of an interval, and what is left without it.
LEMMA MaxOfInterval ==
  ASSUME NEW k \in Nat
  PROVE  /\ Max(1 .. k + 1) = k + 1
         /\ (1 .. k + 1) \ {k + 1} = 1 .. k
         /\ 1 .. k + 1 # {}
<1>1. 1 .. k + 1 \subseteq 1 .. k + 1 /\ k + 1 \in 1 .. k + 1
  OBVIOUS
<1>2. Max(1 .. k + 1) = k + 1
  BY <1>1, MaxOfTop
<1> QED
  BY <1>2

\* The function that the fold of Total defines: it exists, and gives the sums of
\* the first numbers.
IsTotal(it, S, numbers) ==
  it = [s \in SUBSET S |-> IF s = {} THEN 0 ELSE it[s \ {Max(s)}] + numbers[Max(s)]]

\* Total is a value of that function.
LEMMA TotalIter ==
  ASSUME NEW numbers
  PROVE  Total(numbers) = (CHOOSE it : IsTotal(it, DOMAIN numbers, numbers))[DOMAIN numbers]
BY DEF Total, FoldLeft, MapThenFoldSet, IsTotal

\* The function exists for every list.
LEMMA TotalExists ==
  ASSUME NEW n \in Nat, NEW numbers
  PROVE  \E it : IsTotal(it, 1 .. n, numbers)
<1> DEFINE T == {k \in 0 .. n : \E it : IsTotal(it, 1 .. k, numbers)}
<1>1. 0 \in T
  <2> DEFINE it == [s \in SUBSET (1 .. 0) |-> 0]
  <2>1. 1 .. 0 = {}
    OBVIOUS
  <2>2. IsTotal(it, 1 .. 0, numbers)
    BY <2>1 DEF IsTotal
  <2> QED
    BY <2>2
<1>2. ASSUME NEW k \in 0 .. n - 1, k \in T PROVE k + 1 \in T
  <2>1. PICK h : IsTotal(h, 1 .. k, numbers)
    BY <1>2
  <2> DEFINE it == [s \in SUBSET (1 .. k + 1) |->
                      IF k + 1 \in s THEN h[s \ {k + 1}] + numbers[k + 1] ELSE h[s]]
  <2>2. ASSUME NEW s \in SUBSET (1 .. k + 1)
        PROVE  it[s] = IF s = {} THEN 0 ELSE it[s \ {Max(s)}] + numbers[Max(s)]
    <3>1. CASE k + 1 \in s
      <4>1. Max(s) = k + 1
        <5>1. k \in Nat /\ s \subseteq 1 .. k + 1
          OBVIOUS
        <5> HIDE DEF it, T
        <5> QED BY <3>1, <5>1, MaxOfTop
      <4>2. s \ {k + 1} \in SUBSET (1 .. k + 1) /\ k + 1 \notin s \ {k + 1} /\ s # {}
        BY <3>1
      <4>3. it[s \ {k + 1}] = h[s \ {k + 1}]
        BY <4>2
      <4> QED
        BY <3>1, <4>1, <4>2, <4>3
    <3>2. CASE k + 1 \notin s
      <4>1. s \in SUBSET (1 .. k)
        BY <3>2
      <4>2. h[s] = IF s = {} THEN 0 ELSE h[s \ {Max(s)}] + numbers[Max(s)]
        BY <2>1, <4>1 DEF IsTotal
      <4>3. \A r \in SUBSET (1 .. k + 1) : k + 1 \notin r => it[r] = h[r]
        OBVIOUS
      <4>4. s \ {Max(s)} \in SUBSET (1 .. k + 1) /\ k + 1 \notin s \ {Max(s)}
        BY <3>2
      <4>5. it[s] = h[s] /\ it[s \ {Max(s)}] = h[s \ {Max(s)}]
        <5> HIDE DEF it
        <5> QED BY <3>2, <4>3, <4>4
      <4> QED
        BY <4>2, <4>5
    <3> QED
      BY <3>1, <3>2
  <2>3. IsTotal(it, 1 .. k + 1, numbers)
    BY <2>2 DEF IsTotal
  <2> QED
    BY <2>3
<1>3. \A k \in 0 .. n : k \in T
  <2> HIDE DEF T
  <2> QED BY <1>1, <1>2, UpTo
<1> QED
  BY <1>3

\* Total is the last of the sums of the first numbers.
LEMMA TotalIsSum ==
  ASSUME NEW n \in Nat, NEW numbers \in [1 .. n -> Nat]
  PROVE  \E T \in [0 .. n -> Nat] :
           /\ T[0] = 0 /\ \A k \in 0 .. n - 1 : T[k + 1] = T[k] + numbers[k + 1]
           /\ Total(numbers) = T[n]
<1> DEFINE it == CHOOSE it : IsTotal(it, 1 .. n, numbers)
           T  == [k \in 0 .. n |-> it[1 .. k]]
<1>1. IsTotal(it, 1 .. n, numbers)
  BY TotalExists
<1>2. Total(numbers) = it[1 .. n]
  BY TotalIter
<1> HIDE DEF it
<1>3. \A s \in SUBSET (1 .. n) :
        it[s] = IF s = {} THEN 0 ELSE it[s \ {Max(s)}] + numbers[Max(s)]
  BY <1>1 DEF IsTotal
<1>4. it[1 .. 0] = 0
  <2>1. 1 .. 0 = {}
    OBVIOUS
  <2> QED BY <1>3, <2>1
<1>5. ASSUME NEW k \in 0 .. n - 1 PROVE it[1 .. k + 1] = it[1 .. k] + numbers[k + 1]
  <2>1. 1 .. k + 1 \in SUBSET (1 .. n) /\ k \in Nat
    OBVIOUS
  <2>2. Max(1 .. k + 1) = k + 1 /\ (1 .. k + 1) \ {k + 1} = 1 .. k /\ 1 .. k + 1 # {}
    BY <2>1, MaxOfInterval
  <2> QED
    BY <1>3, <2>1, <2>2
<1>6. \A k \in 0 .. n : k \in {j \in 0 .. n : it[1 .. j] \in Nat}
  <2> DEFINE S == {j \in 0 .. n : it[1 .. j] \in Nat}
  <2> HIDE DEF T
  <2>1. 0 \in S
    BY <1>4
  <2>2. ASSUME NEW k \in 0 .. n - 1, k \in S PROVE k + 1 \in S
    <3>1. it[1 .. k] \in Nat /\ numbers[k + 1] \in Nat /\ k + 1 \in 0 .. n
      BY <2>2
    <3>2. it[1 .. k + 1] \in Nat
      BY <1>5, <3>1
    <3> QED BY <3>1, <3>2
  <2> HIDE DEF S
  <2>3. \A k \in 0 .. n : k \in S
    BY <2>1, <2>2, UpTo
  <2> QED BY <2>3 DEF S
<1>7. T \in [0 .. n -> Nat] /\ T[0] = 0 /\ \A k \in 0 .. n - 1 : T[k + 1] = T[k] + numbers[k + 1]
  BY <1>4, <1>5, <1>6
<1>8. Total(numbers) = T[n]
  BY <1>2
<1> QED
  BY <1>7, <1>8

\* A set whose elements are numbered from 1 to n has n elements.
LEMMA CountOfNumbered ==
  ASSUME NEW n \in Nat, NEW S, NEW f \in [1 .. n -> S],
         \A c, d \in 1 .. n : f[c] = f[d] => c = d,
         \A x \in S : \E c \in 1 .. n : f[c] = x
  PROVE  IsFiniteSet(S) /\ Cardinality(S) = n
<1>1. f \in Bijection(1 .. n, S)
  BY DEF Bijection, Injection, Surjection, IsInjective
<1>2. ExistsBijection(1 .. n, S)
  BY <1>1 DEF ExistsBijection
<1>3. IsFiniteSet(1 .. n) /\ Cardinality(1 .. n) = n
  BY FS_Interval
<1> QED
  BY <1>2, <1>3, FS_Bijection

-----------------------------------------------------------------------------
\* The function that the fold of Kept defines.
IsKept(it, D, list, S) ==
  it = [s \in SUBSET D |->
          IF s = {} THEN << >>
          ELSE IF list[Max(s)] \in S THEN Append(it[s \ {Max(s)}], list[Max(s)])
          ELSE it[s \ {Max(s)}]]

\* Kept is a value of that function.
LEMMA KeptIter ==
  ASSUME NEW list, NEW S
  PROVE  Kept(list, S) = (CHOOSE it : IsKept(it, DOMAIN list, list, S))[DOMAIN list]
BY DEF Kept, FoldLeft, MapThenFoldSet, IsKept

\* The function exists for every list.
LEMMA KeptExists ==
  ASSUME NEW n \in Nat, NEW list, NEW S
  PROVE  \E it : IsKept(it, 1 .. n, list, S)
<1> DEFINE Add(kept, x) == IF x \in S THEN Append(kept, x) ELSE kept
           T == {k \in 0 .. n : \E it : IsKept(it, 1 .. k, list, S)}
<1>1. 0 \in T
  <2> DEFINE it == [s \in SUBSET (1 .. 0) |-> << >>]
  <2>1. 1 .. 0 = {}
    OBVIOUS
  <2>2. IsKept(it, 1 .. 0, list, S)
    BY <2>1 DEF IsKept
  <2> QED
    BY <2>2
<1>2. ASSUME NEW k \in 0 .. n - 1, k \in T PROVE k + 1 \in T
  <2>1. PICK h : IsKept(h, 1 .. k, list, S)
    BY <1>2
  <2> DEFINE it == [s \in SUBSET (1 .. k + 1) |->
                      IF k + 1 \in s THEN Add(h[s \ {k + 1}], list[k + 1]) ELSE h[s]]
  <2>2. ASSUME NEW s \in SUBSET (1 .. k + 1)
        PROVE  it[s] = IF s = {} THEN << >> ELSE Add(it[s \ {Max(s)}], list[Max(s)])
    <3> HIDE DEF Add
    <3>1. CASE k + 1 \in s
      <4>1. Max(s) = k + 1
        <5>1. k \in Nat /\ s \subseteq 1 .. k + 1
          OBVIOUS
        <5> HIDE DEF it, T
        <5> QED BY <3>1, <5>1, MaxOfTop
      <4>2. s \ {k + 1} \in SUBSET (1 .. k + 1) /\ k + 1 \notin s \ {k + 1} /\ s # {}
        BY <3>1
      <4>3. it[s \ {k + 1}] = h[s \ {k + 1}]
        BY <4>2
      <4> QED
        BY <3>1, <4>1, <4>2, <4>3
    <3>2. CASE k + 1 \notin s
      <4>1. s \in SUBSET (1 .. k)
        BY <3>2
      <4>2. h[s] = IF s = {} THEN << >> ELSE Add(h[s \ {Max(s)}], list[Max(s)])
        BY <2>1, <4>1 DEF IsKept, Add
      <4>3. \A r \in SUBSET (1 .. k + 1) : k + 1 \notin r => it[r] = h[r]
        OBVIOUS
      <4>4. s \ {Max(s)} \in SUBSET (1 .. k + 1) /\ k + 1 \notin s \ {Max(s)}
        BY <3>2
      <4>5. it[s] = h[s] /\ it[s \ {Max(s)}] = h[s \ {Max(s)}]
        <5> HIDE DEF it
        <5> QED BY <3>2, <4>3, <4>4
      <4> QED
        BY <4>2, <4>5
    <3> QED
      BY <3>1, <3>2
  <2>3. IsKept(it, 1 .. k + 1, list, S)
    <3>1. it = [s \in SUBSET (1 .. k + 1) |->
                  IF s = {} THEN << >> ELSE Add(it[s \ {Max(s)}], list[Max(s)])]
      <4> HIDE DEF Add
      <4> QED BY <2>2
    <3> HIDE DEF it
    <3> QED BY <3>1 DEF IsKept
  <2> QED
    BY <2>3
<1>3. \A k \in 0 .. n : k \in T
  <2> HIDE DEF T
  <2> QED BY <1>1, <1>2, UpTo
<1> QED
  BY <1>3

\* Kept, element by element.
LEMMA KeptStepByStep ==
  ASSUME NEW n \in Nat, NEW list, DOMAIN list = 1 .. n, NEW S
  PROVE  \E K : /\ K[0] = << >>
                /\ \A k \in 0 .. n - 1 :
                     K[k + 1] = IF list[k + 1] \in S THEN Append(K[k], list[k + 1]) ELSE K[k]
                /\ Kept(list, S) = K[n]
<1> DEFINE it == CHOOSE it : IsKept(it, 1 .. n, list, S)
           K  == [k \in 0 .. n |-> it[1 .. k]]
<1>1. IsKept(it, 1 .. n, list, S)
  BY KeptExists
<1>2. Kept(list, S) = it[1 .. n]
  BY KeptIter
<1> HIDE DEF it
<1>3. \A s \in SUBSET (1 .. n) :
        it[s] = IF s = {} THEN << >>
                ELSE IF list[Max(s)] \in S THEN Append(it[s \ {Max(s)}], list[Max(s)])
                ELSE it[s \ {Max(s)}]
  BY <1>1 DEF IsKept
<1>4. it[1 .. 0] = << >>
  <2>1. 1 .. 0 = {}
    OBVIOUS
  <2> QED BY <1>3, <2>1
<1>5. ASSUME NEW k \in 0 .. n - 1
      PROVE  it[1 .. k + 1] =
               IF list[k + 1] \in S THEN Append(it[1 .. k], list[k + 1]) ELSE it[1 .. k]
  <2>1. 1 .. k + 1 \in SUBSET (1 .. n) /\ k \in Nat
    OBVIOUS
  <2>2. Max(1 .. k + 1) = k + 1 /\ (1 .. k + 1) \ {k + 1} = 1 .. k /\ 1 .. k + 1 # {}
    BY <2>1, MaxOfInterval
  <2> QED
    BY <1>3, <2>1, <2>2
<1>6. K[0] = << >> /\ K[n] = it[1 .. n]
  BY <1>4
<1>7. ASSUME NEW k \in 0 .. n - 1
      PROVE  K[k + 1] = IF list[k + 1] \in S THEN Append(K[k], list[k + 1]) ELSE K[k]
  <2>1. K[k] = it[1 .. k] /\ K[k + 1] = it[1 .. k + 1]
    OBVIOUS
  <2> HIDE DEF K
  <2> QED BY <1>5, <2>1
<1> HIDE DEF K
<1> QED
  BY <1>2, <1>6, <1>7

\* No element of the list that is in S is there twice.
OnceIn(list, S) ==
  \A i, j \in DOMAIN list : list[i] \in S /\ list[i] = list[j] => i = j

\* A list that holds the elements of the first k in S, each as often as they do.
KeptOf(kept, list, k, S) ==
  /\ kept \in Seq(Range(list) \intersect S)
  /\ \A j \in 1 .. k : list[j] \in S => list[j] \in Range(kept)
  /\ \A x \in Range(kept) : \E j \in 1 .. k : list[j] = x
  /\ OnceIn(list, S) => IsInjective(kept)

\* Kept has the elements that are in S and no others, and none of them twice
\* if the list has none of them twice.
LEMMA KeptElements ==
  ASSUME NEW D, NEW list \in Seq(D), NEW S
  PROVE  /\ Kept(list, S) \in Seq(Range(list) \intersect S)
         /\ Kept(list, S) \in Seq(D)
         /\ Range(Kept(list, S)) = Range(list) \intersect S
         /\ IsInjective(list) => IsInjective(Kept(list, S))
         /\ OnceIn(list, S) => IsInjective(Kept(list, S))
<1> DEFINE n == Len(list)
<1>1. n \in Nat /\ DOMAIN list = 1 .. n /\ \A j \in 1 .. n : list[j] \in D
  <2>1. list \in [1 .. Len(list) -> D] /\ Len(list) \in Nat
    BY LenProperties
  <2> QED BY <2>1
<1> HIDE DEF n
<1>2. PICK K : /\ K[0] = << >>
               /\ \A k \in 0 .. n - 1 :
                    K[k + 1] = IF list[k + 1] \in S THEN Append(K[k], list[k + 1]) ELSE K[k]
               /\ Kept(list, S) = K[n]
  BY <1>1, KeptStepByStep
<1>3. KeptOf(K[0], list, 0, S)
  <2>1. << >> \in Seq(Range(list) \intersect S) /\ DOMAIN << >> = {}
    OBVIOUS
  <2>2. 1 .. 0 = {} /\ Range(<< >>) = {} /\ IsInjective(<< >>)
    BY <2>1 DEF Range, IsInjective
  <2> QED BY <1>2, <2>1, <2>2 DEF KeptOf
<1>4. ASSUME NEW k \in 0 .. n - 1, KeptOf(K[k], list, k, S)
      PROVE  KeptOf(K[k + 1], list, k + 1, S)
  <2> DEFINE x == list[k + 1]
  <2>1. k + 1 \in DOMAIN list /\ x \in Range(list) /\ k \in Nat
    BY <1>1 DEF Range
  <2>2. \A j \in 1 .. k + 1 : j \in 1 .. k \/ j = k + 1
    BY <2>1
  <2>3. 1 .. k \subseteq 1 .. k + 1 /\ k + 1 \in 1 .. k + 1 /\ k + 1 \notin 1 .. k
    BY <2>1
  <2>4. CASE x \in S
    <3>1. PICK kept : kept = K[k] /\ KeptOf(kept, list, k, S)
      BY <1>4
    <3> DEFINE new == Append(kept, x)
    <3>2. kept \in Seq(Range(list) \intersect S) /\ Len(kept) \in Nat
          /\ DOMAIN kept = 1 .. Len(kept)
      BY <3>1 DEF KeptOf
    <3>3. /\ new \in Seq(Range(list) \intersect S) /\ DOMAIN new = 1 .. Len(kept) + 1
          /\ \A m \in DOMAIN kept : new[m] = kept[m] /\ m \in DOMAIN new
          /\ new[Len(kept) + 1] = x /\ Len(kept) + 1 \in DOMAIN new
          /\ \A m \in DOMAIN new : m \in DOMAIN kept \/ m = Len(kept) + 1
      BY <2>1, <2>4, <3>2
    <3> HIDE DEF new
    <3>4. Range(new) = Range(kept) \cup {x}
      BY <3>3 DEF Range
    <3>5. \A j \in 1 .. k + 1 : list[j] \in S => list[j] \in Range(new)
      BY <2>2, <3>1, <3>4 DEF KeptOf
    <3>6. \A y \in Range(new) : \E j \in 1 .. k + 1 : list[j] = y
      <4> TAKE y \in Range(new)
      <4>1. CASE y = x
        BY <4>1, <2>3
      <4>2. CASE y \in Range(kept)
        BY <4>2, <2>3, <3>1 DEF KeptOf
      <4> QED BY <4>1, <4>2, <3>4
    <3>7. ASSUME OnceIn(list, S) PROVE IsInjective(new)
      <4>1. IsInjective(kept)
        BY <3>1, <3>7 DEF KeptOf
      <4>2. x \notin Range(kept)
        <5>1. SUFFICES ASSUME x \in Range(kept) PROVE FALSE
          OBVIOUS
        <5>2. PICK j \in 1 .. k : list[j] = x
          BY <3>1, <5>1 DEF KeptOf
        <5>3. j \in DOMAIN list /\ j # k + 1
          BY <1>1, <2>1
        <5> QED BY <2>1, <2>4, <3>7, <5>2, <5>3 DEF OnceIn
      <4>3. \A m \in DOMAIN kept : kept[m] # x
        BY <4>2 DEF Range
      <4> QED BY <3>3, <4>1, <4>3 DEF IsInjective
    <3>8. KeptOf(new, list, k + 1, S)
      BY <3>3, <3>5, <3>6, <3>7 DEF KeptOf
    <3>9. K[k + 1] = new
      BY <1>2, <2>4, <3>1 DEF new
    <3> QED BY <3>8, <3>9
  <2>5. CASE x \notin S
    <3>1. K[k + 1] = K[k]
      BY <1>2, <2>5
    <3>2. \A j \in 1 .. k + 1 : list[j] \in S => list[j] \in Range(K[k])
      BY <1>4, <2>2, <2>5 DEF KeptOf
    <3>3. \A y \in Range(K[k]) : \E j \in 1 .. k + 1 : list[j] = y
      BY <1>4, <2>3 DEF KeptOf
    <3> QED BY <1>4, <3>1, <3>2, <3>3 DEF KeptOf
  <2> QED BY <2>4, <2>5
<1>5. KeptOf(K[n], list, n, S)
  <2> DEFINE T == {k \in 0 .. n : KeptOf(K[k], list, k, S)}
  <2>1. 0 \in T
    BY <1>1, <1>3
  <2>2. ASSUME NEW k \in 0 .. n - 1, k \in T PROVE k + 1 \in T
    BY <1>1, <1>4, <2>2
  <2> HIDE DEF T
  <2>3. \A k \in 0 .. n : k \in T
    BY <1>1, <2>1, <2>2, UpTo
  <2> QED BY <1>1, <2>3 DEF T
<1>6. PICK kept : kept = Kept(list, S) /\ KeptOf(kept, list, n, S)
  BY <1>2, <1>5
<1>7. Range(kept) = Range(list) \intersect S
  <2>1. \A y \in Range(list) : \E j \in 1 .. n : list[j] = y
    BY <1>1 DEF Range
  <2>2. \A y \in Range(kept) : y \in S /\ y \in Range(list)
    BY <1>6 DEF KeptOf, Range
  <2> QED BY <1>6, <2>1, <2>2 DEF KeptOf
<1>8. Range(list) \subseteq D
  BY <1>1 DEF Range
<1>9. kept \in Seq(D)
  BY <1>6, <1>8 DEF KeptOf
<1>10. IsInjective(list) => OnceIn(list, S)
  BY DEF IsInjective, OnceIn
<1> QED
  BY <1>6, <1>7, <1>9, <1>10 DEF KeptOf

-----------------------------------------------------------------------------
\* The function that FlattenSeq defines.
IsFlat(f, n, lists) ==
  f = [i \in 1 .. n |-> IF i = 1 THEN lists[i] ELSE f[i - 1] \o lists[i]]

\* FlattenSeq is the last value of that function.
LEMMA FlatIs ==
  ASSUME NEW lists, Len(lists) # 0
  PROVE  FlattenSeq(lists) = (CHOOSE f : IsFlat(f, Len(lists), lists))[Len(lists)]
BY DEF FlattenSeq, IsFlat

\* The function exists for all lists.
LEMMA FlatExists ==
  ASSUME NEW n \in Nat, NEW lists
  PROVE  \E f : IsFlat(f, n, lists)
<1> DEFINE T == {k \in 0 .. n : \E f : IsFlat(f, k, lists)}
<1>1. 0 \in T
  <2> DEFINE f == [i \in 1 .. 0 |-> << >>]
  <2>1. IsFlat(f, 0, lists)
    BY DEF IsFlat
  <2> QED BY <2>1
<1>2. ASSUME NEW k \in 0 .. n - 1, k \in T PROVE k + 1 \in T
  <2>1. PICK g : IsFlat(g, k, lists)
    BY <1>2
  <2> DEFINE last == IF k = 0 THEN lists[1] ELSE g[k] \o lists[k + 1]
             f    == [i \in 1 .. k + 1 |-> IF i = k + 1 THEN last ELSE g[i]]
  <2>2. ASSUME NEW i \in 1 .. k + 1
        PROVE  f[i] = IF i = 1 THEN lists[i] ELSE f[i - 1] \o lists[i]
    <3> HIDE DEF last
    <3>1. CASE i = k + 1 /\ k = 0
      BY <3>1 DEF last
    <3>2. CASE i = k + 1 /\ k # 0
      <4>1. f[i] = last /\ f[i - 1] = g[k] /\ i # 1
        BY <3>2
      <4> HIDE DEF f
      <4> QED BY <3>2, <4>1 DEF last
    <3>3. CASE i # k + 1
      <4>1. i \in 1 .. k /\ (i # 1 => i - 1 \in 1 .. k /\ i - 1 # k + 1)
        BY <3>3
      <4>2. g[i] = IF i = 1 THEN lists[i] ELSE g[i - 1] \o lists[i]
        BY <2>1, <4>1 DEF IsFlat
      <4>3. f[i] = g[i] /\ (i # 1 => f[i - 1] = g[i - 1])
        BY <3>3, <4>1
      <4> HIDE DEF f
      <4> QED BY <4>2, <4>3
    <3> QED BY <3>1, <3>2, <3>3
  <2>3. IsFlat(f, k + 1, lists)
    <3>1. f = [i \in 1 .. k + 1 |-> IF i = 1 THEN lists[i] ELSE f[i - 1] \o lists[i]]
      <4>1. \A i \in 1 .. k + 1 : f[i] = IF i = 1 THEN lists[i] ELSE f[i - 1] \o lists[i]
        <5> HIDE DEF f
        <5> QED BY <2>2
      <4>2. f = [i \in 1 .. k + 1 |-> f[i]]
        OBVIOUS
      <4> HIDE DEF f
      <4> QED BY <4>1, <4>2
    <3> HIDE DEF f
    <3> QED BY <3>1 DEF IsFlat
  <2>4. k + 1 \in 0 .. n
    OBVIOUS
  <2> HIDE DEF f
  <2> QED BY <2>3, <2>4
<1>3. \A k \in 0 .. n : k \in T
  <2> HIDE DEF T
  <2> QED BY <1>1, <1>2, UpTo
<1> QED
  BY <1>3

\* FlattenSeq, list by list.
LEMMA FlatStepByStep ==
  ASSUME NEW n \in Nat, NEW lists, lists = << >> \/ n # 0, Len(lists) = n,
         n # 0 => << >> \o lists[1] = lists[1]
  PROVE  \E F : /\ F[0] = << >>
                /\ \A k \in 0 .. n - 1 : F[k + 1] = F[k] \o lists[k + 1]
                /\ FlattenSeq(lists) = F[n]
<1>1. CASE n = 0
  <2> DEFINE F == [k \in 0 .. 0 |-> << >>]
  <2>1. FlattenSeq(lists) = << >>
    BY <1>1 DEF FlattenSeq
  <2>2. F[0] = << >> /\ F[n] = << >>
    BY <1>1
  <2>3. \A k \in 0 .. n - 1 : FALSE
    BY <1>1
  <2> HIDE DEF F
  <2> QED BY <2>1, <2>2, <2>3
<1>2. CASE n # 0
  <2> DEFINE f == CHOOSE f : IsFlat(f, n, lists)
             F == [k \in 0 .. n |-> IF k = 0 THEN << >> ELSE f[k]]
  <2>1. IsFlat(f, n, lists)
    BY FlatExists
  <2>2. FlattenSeq(lists) = f[n]
    BY <1>2, FlatIs
  <2> HIDE DEF f
  <2>3. \A i \in 1 .. n : f[i] = IF i = 1 THEN lists[i] ELSE f[i - 1] \o lists[i]
    BY <2>1 DEF IsFlat
  <2>4. ASSUME NEW k \in 0 .. n - 1 PROVE F[k + 1] = F[k] \o lists[k + 1]
    <3>1. k + 1 \in 1 .. n /\ F[k + 1] = f[k + 1] /\ (k + 1) - 1 = k
      OBVIOUS
    <3>2. CASE k = 0
      <4>1. F[k] = << >> /\ f[k + 1] = lists[1]
        BY <2>3, <3>1, <3>2
      <4> HIDE DEF F
      <4> QED BY <1>2, <3>1, <3>2, <4>1
    <3>3. CASE k # 0
      <4>1. F[k] = f[k] /\ k + 1 # 1
        BY <3>3
      <4> HIDE DEF F
      <4> QED BY <2>3, <3>1, <4>1
    <3> QED BY <3>2, <3>3
  <2>5. F[0] = << >> /\ F[n] = f[n]
    BY <1>2
  <2> HIDE DEF F
  <2> QED BY <2>2, <2>4, <2>5
<1> QED BY <1>1, <1>2

\* A list that holds the elements of the first k lists.
FlatOf(flat, lists, k) ==
  /\ \A j \in 1 .. k : Range(lists[j]) \subseteq Range(flat)
  /\ \A x \in Range(flat) : \E j \in 1 .. k : x \in Range(lists[j])

\* None of the lists has an element twice, and no two have one in common.
NoneTwice(lists) ==
  /\ \A j \in DOMAIN lists : IsInjective(lists[j])
  /\ \A i, j \in DOMAIN lists : i # j => Range(lists[i]) \intersect Range(lists[j]) = {}

\* The elements of a concatenation.
LEMMA ConcatElements ==
  ASSUME NEW D, NEW s \in Seq(D), NEW t \in Seq(D)
  PROVE  /\ s \o t \in Seq(D)
         /\ Range(s \o t) = Range(s) \cup Range(t)
         /\ IsInjective(s) /\ IsInjective(t) /\ Range(s) \intersect Range(t) = {}
              => IsInjective(s \o t)
<1> DEFINE st == s \o t
<1>1. /\ st \in Seq(D) /\ Len(s) \in Nat /\ Len(t) \in Nat
      /\ DOMAIN st = 1 .. Len(s) + Len(t) /\ DOMAIN s = 1 .. Len(s) /\ DOMAIN t = 1 .. Len(t)
      /\ \A i \in 1 .. Len(s) + Len(t) : st[i] = IF i <= Len(s) THEN s[i] ELSE t[i - Len(s)]
  BY LenProperties
<1> HIDE DEF st
<1>2. \A i \in DOMAIN s : i \in DOMAIN st /\ st[i] = s[i]
  BY <1>1
<1>3. ASSUME NEW i \in DOMAIN t PROVE i + Len(s) \in DOMAIN st /\ st[i + Len(s)] = t[i]
  <2>1. i + Len(s) \in 1 .. Len(s) + Len(t) /\ ~ (i + Len(s) <= Len(s)) /\ (i + Len(s)) - Len(s) = i
    BY <1>1
  <2> QED BY <1>1, <2>1
<1>4. ASSUME NEW i \in DOMAIN st
      PROVE  \/ i \in DOMAIN s /\ st[i] = s[i]
             \/ i - Len(s) \in DOMAIN t /\ st[i] = t[i - Len(s)] /\ i \in Nat
  BY <1>1
<1>5. Range(st) = Range(s) \cup Range(t)
  <2>1. \A x \in Range(s) : x \in Range(st)
    BY <1>2 DEF Range
  <2>2. \A x \in Range(t) : x \in Range(st)
    BY <1>3 DEF Range
  <2>3. \A x \in Range(st) : x \in Range(s) \/ x \in Range(t)
    BY <1>4 DEF Range
  <2> QED BY <2>1, <2>2, <2>3
<1>6. ASSUME IsInjective(s), IsInjective(t), Range(s) \intersect Range(t) = {}
      PROVE  IsInjective(st)
  <2>1. ASSUME NEW i \in DOMAIN st, NEW j \in DOMAIN st, st[i] = st[j] PROVE i = j
    <3>1. \A k \in DOMAIN s : s[k] \in Range(s)
      BY DEF Range
    <3>2. \A k \in DOMAIN t : t[k] \in Range(t)
      BY DEF Range
    <3>3. CASE i \in DOMAIN s /\ st[i] = s[i] /\ j \in DOMAIN s /\ st[j] = s[j]
      BY <1>6, <2>1, <3>3 DEF IsInjective
    <3>4. CASE /\ i - Len(s) \in DOMAIN t /\ st[i] = t[i - Len(s)] /\ i \in Nat
               /\ j - Len(s) \in DOMAIN t /\ st[j] = t[j - Len(s)] /\ j \in Nat
      <4>1. i - Len(s) = j - Len(s)
        BY <1>6, <2>1, <3>4 DEF IsInjective
      <4> QED BY <1>1, <3>4, <4>1
    <3>5. \/ i \in DOMAIN s /\ st[i] = s[i]
          \/ i - Len(s) \in DOMAIN t /\ st[i] = t[i - Len(s)] /\ i \in Nat
      BY <1>4
    <3>6. \/ j \in DOMAIN s /\ st[j] = s[j]
          \/ j - Len(s) \in DOMAIN t /\ st[j] = t[j - Len(s)] /\ j \in Nat
      BY <1>4
    <3> QED BY <1>6, <2>1, <3>1, <3>2, <3>3, <3>4, <3>5, <3>6
  <2> QED BY <2>1 DEF IsInjective
<1> QED BY <1>1, <1>5, <1>6 DEF st

\* FlattenSeq has the elements of all lists and no others, and none of them
\* twice if the lists have none twice.
LEMMA FlatElements ==
  ASSUME NEW D, NEW lists \in Seq(Seq(D))
  PROVE  /\ FlattenSeq(lists) \in Seq(D)
         /\ Range(FlattenSeq(lists)) = UNION {Range(lists[j]) : j \in DOMAIN lists}
         /\ NoneTwice(lists) => IsInjective(FlattenSeq(lists))
<1> DEFINE n == Len(lists)
           OK(flat, k) == /\ flat \in Seq(D)
                          /\ FlatOf(flat, lists, k)
                          /\ NoneTwice(lists) => IsInjective(flat)
<1>1. n \in Nat /\ DOMAIN lists = 1 .. n /\ (\A j \in 1 .. n : lists[j] \in Seq(D))
      /\ (lists = << >> \/ n # 0)
  <2>1. lists \in [1 .. Len(lists) -> Seq(D)] /\ Len(lists) \in Nat
    BY LenProperties
  <2>2. Len(lists) = 0 => lists = << >>
    BY EmptySeq
  <2> QED BY <2>1, <2>2
<1>2. n # 0 => << >> \o lists[1] = lists[1]
  BY <1>1, ConcatEmptySeq
<1>3. PICK F : /\ F[0] = << >>
               /\ \A k \in 0 .. n - 1 : F[k + 1] = F[k] \o lists[k + 1]
               /\ FlattenSeq(lists) = F[n]
  BY <1>1, <1>2, FlatStepByStep
<1> HIDE DEF n
<1>4. OK(F[0], 0)
  <2>1. << >> \in Seq(D) /\ DOMAIN << >> = {} /\ 1 .. 0 = {}
    OBVIOUS
  <2>2. Range(<< >>) = {} /\ IsInjective(<< >>)
    BY <2>1 DEF Range, IsInjective
  <2> QED BY <1>3, <2>1, <2>2 DEF FlatOf
<1>5. ASSUME NEW k \in 0 .. n - 1, OK(F[k], k) PROVE OK(F[k + 1], k + 1)
  <2>1. PICK flat : flat = F[k] /\ flat \in Seq(D) /\ FlatOf(flat, lists, k)
                    /\ (NoneTwice(lists) => IsInjective(flat))
    BY <1>5
  <2>2. PICK t : t = lists[k + 1] /\ t \in Seq(D)
    BY <1>1
  <2>3. F[k + 1] = flat \o t
    BY <1>3, <2>1, <2>2
  <2>4. PICK new : new = flat \o t
    OBVIOUS
  <2>5. /\ new \in Seq(D)
        /\ Range(new) = Range(flat) \cup Range(t)
        /\ IsInjective(flat) /\ IsInjective(t) /\ Range(flat) \intersect Range(t) = {}
             => IsInjective(new)
    BY <2>1, <2>2, <2>4, ConcatElements
  <2>6. /\ \A j \in 1 .. k + 1 : j \in 1 .. k \/ j = k + 1
        /\ 1 .. k \subseteq 1 .. k + 1 /\ k + 1 \in 1 .. k + 1 /\ k + 1 \notin 1 .. k
        /\ 1 .. k + 1 \subseteq 1 .. n
    BY <1>1
  <2>7. FlatOf(new, lists, k + 1)
    <3>1. \A j \in 1 .. k + 1 : Range(lists[j]) \subseteq Range(new)
      BY <2>1, <2>2, <2>5, <2>6 DEF FlatOf
    <3>2. \A x \in Range(new) : \E j \in 1 .. k + 1 : x \in Range(lists[j])
      BY <2>1, <2>2, <2>5, <2>6 DEF FlatOf
    <3> QED BY <3>1, <3>2 DEF FlatOf
  <2>8. ASSUME NoneTwice(lists) PROVE IsInjective(new)
    <3>1. IsInjective(flat) /\ IsInjective(t)
      BY <1>1, <2>1, <2>2, <2>6, <2>8 DEF NoneTwice
    <3>2. ASSUME NEW x \in Range(flat), x \in Range(t) PROVE FALSE
      <4>1. PICK j \in 1 .. k : x \in Range(lists[j])
        BY <2>1 DEF FlatOf
      <4>2. j \in DOMAIN lists /\ k + 1 \in DOMAIN lists /\ j # k + 1
        BY <1>1, <2>6
      <4>3. Range(lists[j]) \intersect Range(lists[k + 1]) = {}
        BY <2>8, <4>2 DEF NoneTwice
      <4> QED BY <2>2, <3>2, <4>1, <4>3
    <3> QED BY <2>5, <3>1, <3>2
  <2> QED BY <2>3, <2>4, <2>5, <2>7, <2>8
<1>6. OK(F[n], n)
  <2> DEFINE T == {k \in 0 .. n : OK(F[k], k)}
  <2> HIDE DEF OK
  <2>1. 0 \in T
    BY <1>1, <1>4
  <2>2. ASSUME NEW k \in 0 .. n - 1, k \in T PROVE k + 1 \in T
    BY <1>1, <1>5, <2>2
  <2> HIDE DEF T
  <2>3. \A k \in 0 .. n : k \in T
    BY <1>1, <2>1, <2>2, UpTo
  <2> QED BY <1>1, <2>3 DEF T
<1>7. PICK flat : flat = FlattenSeq(lists) /\ OK(flat, n)
  BY <1>3, <1>6
<1>8. Range(flat) = UNION {Range(lists[j]) : j \in DOMAIN lists}
  BY <1>1, <1>7 DEF FlatOf
<1> QED BY <1>7, <1>8

-----------------------------------------------------------------------------
\* The union of disjoint sets has as many elements as they have together.
LEMMA TotalOfParts ==
  ASSUME NEW n \in Nat, NEW parts,
         \A k \in 1 .. n : IsFiniteSet(parts[k]),
         \A j, k \in 1 .. n : j # k => parts[j] \intersect parts[k] = {},
         NEW numbers, numbers = [k \in 1 .. n |-> Cardinality(parts[k])]
  PROVE  /\ IsFiniteSet(UNION {parts[k] : k \in 1 .. n})
         /\ Cardinality(UNION {parts[k] : k \in 1 .. n}) = Total(numbers)
<1> DEFINE U(k) == UNION {parts[j] : j \in 1 .. k}
<1>1. numbers \in [1 .. n -> Nat] /\ \A k \in 1 .. n : numbers[k] = Cardinality(parts[k])
  BY FS_CardinalityType
<1>2. PICK T \in [0 .. n -> Nat] :
        /\ T[0] = 0 /\ \A k \in 0 .. n - 1 : T[k + 1] = T[k] + numbers[k + 1]
        /\ Total(numbers) = T[n]
  BY <1>1, TotalIsSum
<1> DEFINE OK(k) == IsFiniteSet(U(k)) /\ Cardinality(U(k)) = T[k]
<1>3. OK(0)
  <2>1. U(0) = {}
    OBVIOUS
  <2> HIDE DEF U
  <2> QED BY <1>2, <2>1, FS_EmptySet
<1>4. ASSUME NEW k \in 0 .. n - 1, OK(k) PROVE OK(k + 1)
  <2>1. k + 1 \in 1 .. n /\ 1 .. k + 1 = (1 .. k) \cup {k + 1} /\ 1 .. k \subseteq 1 .. n
        /\ k + 1 \notin 1 .. k
    OBVIOUS
  <2>2. U(k + 1) = U(k) \cup parts[k + 1]
    BY <2>1
  <2>3. U(k) \cap parts[k + 1] = {}
    BY <2>1
  <2>4. IsFiniteSet(parts[k + 1]) /\ Cardinality(parts[k + 1]) = numbers[k + 1]
    BY <1>1, <2>1
  <2> HIDE DEF U
  <2>5. /\ IsFiniteSet(U(k) \cup parts[k + 1])
        /\ Cardinality(U(k) \cup parts[k + 1])
             = Cardinality(U(k)) + Cardinality(parts[k + 1]) - Cardinality(U(k) \cap parts[k + 1])
    BY <1>4, <2>4, FS_Union
  <2>6. Cardinality(U(k) \cap parts[k + 1]) = 0
    BY <2>3, FS_EmptySet
  <2>7. T[k] \in Nat /\ numbers[k + 1] \in Nat
    BY <1>1, <2>1
  <2>8. T[k + 1] = T[k] + numbers[k + 1]
    BY <1>2
  <2>9. IsFiniteSet(U(k)) /\ Cardinality(U(k)) = T[k]
    BY <1>4
  <2>10. Cardinality(U(k + 1)) = T[k] + numbers[k + 1]
    <3>1. Cardinality(U(k + 1))
            = Cardinality(U(k)) + Cardinality(parts[k + 1]) - Cardinality(U(k) \cap parts[k + 1])
      BY <2>2, <2>5
    <3> QED BY <2>4, <2>6, <2>7, <2>9, <3>1
  <2>11. IsFiniteSet(U(k + 1))
    BY <2>2, <2>5
  <2> QED BY <2>8, <2>10, <2>11
<1>5. OK(n)
  <2> DEFINE S == {k \in 0 .. n : OK(k)}
  <2> HIDE DEF OK
  <2>1. 0 \in S
    BY <1>3
  <2>2. ASSUME NEW k \in 0 .. n - 1, k \in S PROVE k + 1 \in S
    BY <1>4, <2>2
  <2> HIDE DEF S
  <2>3. \A k \in 0 .. n : k \in S
    BY <2>1, <2>2, UpTo
  <2> QED BY <2>3 DEF S
<1> QED BY <1>2, <1>5
=============================================================================
