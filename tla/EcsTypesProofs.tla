-------------------------- MODULE EcsTypesProofs --------------------------
(***************************************************************************)
(* Proofs about EcsTypes, for any number of clients, types and Ecs         *)
(* objects: the locks of types exclude, a lookup finds the right type, and  *)
(* the lists of types are sets of types.                                   *)
(***************************************************************************)
EXTENDS EcsTypes, ListProofs

\* The clients that have t locked for reading.
Readers(held, t) == {c \in Clients : t \in held[c]}

\* LocksExclude says nothing of the number of readers, on which it depends: a
\* release takes one entry out of a list that names no client, and the type
\* must stay locked as long as another reader is left.
ReadersCounted ==
  \A t \in LockTypes : lockedForRead[t] = Cardinality(Readers(reading, t))

WriterAlone ==
  \A t \in LockTypes, c \in Clients :
    t \in writing[c] => /\ lockedForWrite[t] = 1 /\ lockedForRead[t] = 0
                        /\ \A d \in Clients : t \in writing[d] => c = d

LockIInv == LockTypeOK /\ ReadersCounted /\ WriterAlone

-----------------------------------------------------------------------------
\* The readers of a type are finitely many, and there are none exactly if
\* their number is 0.
LEMMA ReadersFinite ==
  ASSUME NEW held, NEW t
  PROVE  /\ IsFiniteSet(Readers(held, t))
         /\ Cardinality(Readers(held, t)) \in Nat
         /\ Cardinality(Readers(held, t)) = 0 <=> Readers(held, t) = {}
<1>1. IsFiniteSet(Readers(held, t))
  BY LocksAssumption, FS_Subset DEF Readers
<1> QED
  BY <1>1, FS_CardinalityType, FS_EmptySet

\* A lock that is added to those held adds a reader.
LEMMA ReaderAdded ==
  ASSUME NEW held \in [Clients -> SUBSET LockTypes], NEW c \in Clients, NEW t \in LockTypes,
         t \notin held[c], NEW u \in LockTypes
  PROVE  Cardinality(Readers(Holding(held, c, t), u)) =
           IF u = t THEN Cardinality(Readers(held, u)) + 1 ELSE Cardinality(Readers(held, u))
<1>1. CASE u = t
  <2>1. Readers(Holding(held, c, t), u) = Readers(held, u) \cup {c} /\ c \notin Readers(held, u)
    BY <1>1 DEF Readers, Holding
  <2>2. IsFiniteSet(Readers(held, u))
    BY ReadersFinite
  <2>3. Cardinality(Readers(held, u) \cup {c}) = Cardinality(Readers(held, u)) + 1
    BY ONLY <2>1, <2>2, FS_AddElement
  <2> QED
    BY <1>1, <2>1, <2>3
<1>2. CASE u # t
  <2>1. Readers(Holding(held, c, t), u) = Readers(held, u)
    BY <1>2 DEF Readers, Holding
  <2> QED
    BY <1>2, <2>1
<1> QED
  BY <1>1, <1>2

\* A lock that is given back takes one away.
LEMMA ReaderRemoved ==
  ASSUME NEW held \in [Clients -> SUBSET LockTypes], NEW c \in Clients, NEW t \in LockTypes,
         t \in held[c], NEW u \in LockTypes
  PROVE  Cardinality(Readers(Without(held, c, t), u)) =
           IF u = t THEN Cardinality(Readers(held, u)) - 1 ELSE Cardinality(Readers(held, u))
<1>1. CASE u = t
  <2>1. Readers(Without(held, c, t), u) = Readers(held, u) \ {c} /\ c \in Readers(held, u)
    BY <1>1 DEF Readers, Without
  <2>2. IsFiniteSet(Readers(held, u))
    BY ReadersFinite
  <2>3. Cardinality(Readers(held, u) \ {c}) = Cardinality(Readers(held, u)) - 1
    BY <2>1, <2>2, FS_RemoveElement
  <2> QED
    BY <1>1, <2>1, <2>3
<1>2. CASE u # t
  <2>1. Readers(Without(held, c, t), u) = Readers(held, u)
    BY <1>2 DEF Readers, Without
  <2> QED
    BY <1>2, <2>1
<1> QED
  BY <1>1, <1>2

\* A client that reads a type makes the count of its readers at least 1.
LEMMA ReadCounted ==
  ASSUME LockTypeOK, ReadersCounted, NEW c \in Clients, NEW t \in LockTypes, t \in reading[c]
  PROVE  lockedForRead[t] > 0
<1>1. c \in Readers(reading, t)
  BY DEF Readers
<1>2. lockedForRead[t] = Cardinality(Readers(reading, t))
  BY DEF ReadersCounted
<1> QED
  BY <1>1, <1>2, ReadersFinite

-----------------------------------------------------------------------------
LEMMA LockInitOK ==
  ASSUME LockInit
  PROVE  LockIInv
<1>1. LockTypeOK /\ WriterAlone
  BY DEF LockInit, LockTypeOK, WriterAlone
<1>2. \A t \in LockTypes : Readers(reading, t) = {}
  BY DEF LockInit, Readers
<1>3. ReadersCounted
  BY <1>2, FS_EmptySet DEF LockInit, ReadersCounted
<1> QED
  BY <1>1, <1>3 DEF LockIInv

LEMMA LockTypeForReadOK ==
  ASSUME LockIInv, NEW c \in Clients, NEW t \in LockTypes, LockTypeForRead(c, t)
  PROVE  LockIInv'
<1>1. LockTypeOK /\ ReadersCounted /\ WriterAlone
  BY DEF LockIInv
<1>2. LockTypeOK'
  BY <1>1 DEF LockTypeForRead, LockTypeOK, Holding
<1>3. ReadersCounted'
  <2>1. t \notin reading[c] /\ reading' = Holding(reading, c, t)
    BY DEF LockTypeForRead
  <2>2. \A u \in LockTypes :
          Cardinality(Readers(reading', u)) =
            IF u = t THEN Cardinality(Readers(reading, u)) + 1 ELSE Cardinality(Readers(reading, u))
    BY <1>1, <2>1, ReaderAdded DEF LockTypeOK
  <2>3. \A u \in LockTypes :
          lockedForRead'[u] = IF u = t THEN lockedForRead[u] + 1 ELSE lockedForRead[u]
    BY <1>1 DEF LockTypeForRead, LockTypeOK
  <2> QED
    BY <1>1, <2>2, <2>3 DEF ReadersCounted
<1>4. WriterAlone'
  BY <1>1 DEF LockTypeForRead, LockTypeOK, WriterAlone
<1> QED
  BY <1>2, <1>3, <1>4 DEF LockIInv

LEMMA LockTypeForWriteOK ==
  ASSUME LockIInv, NEW c \in Clients, NEW t \in LockTypes, LockTypeForWrite(c, t)
  PROVE  LockIInv'
<1>1. LockTypeOK /\ ReadersCounted /\ WriterAlone
  BY DEF LockIInv
<1>2. LockTypeOK'
  BY <1>1 DEF LockTypeForWrite, LockTypeOK, Holding
<1>3. ReadersCounted'
  BY <1>1 DEF LockTypeForWrite, ReadersCounted
<1>4. lockedForWrite[t] = 0 /\ lockedForRead[t] = 0 /\ \A d \in Clients : t \notin writing[d]
  BY <1>1 DEF LockTypeForWrite, MayLockForWrite, WriterAlone
<1>5. WriterAlone'
  BY <1>1, <1>4 DEF LockTypeForWrite, LockTypeOK, WriterAlone, Holding
<1> QED
  BY <1>2, <1>3, <1>5 DEF LockIInv

LEMMA ReleaseTypeForReadOK ==
  ASSUME LockIInv, NEW c \in Clients, NEW t \in LockTypes, ReleaseTypeForRead(c, t)
  PROVE  LockIInv'
<1>1. LockTypeOK /\ ReadersCounted /\ WriterAlone
  BY DEF LockIInv
<1>2. t \in reading[c] /\ reading' = Without(reading, c, t)
  BY DEF ReleaseTypeForRead
<1>3. lockedForRead[t] > 0
  BY <1>1, <1>2, ReadCounted
<1>4. \A u \in LockTypes :
        lockedForRead'[u] = IF u = t THEN lockedForRead[u] - 1 ELSE lockedForRead[u]
  BY <1>1, <1>3 DEF ReleaseTypeForRead, LockTypeOK
<1>5. LockTypeOK'
  BY <1>1 DEF ReleaseTypeForRead, LockTypeOK, Without
<1>6. ReadersCounted'
  <2>1. \A u \in LockTypes :
          Cardinality(Readers(reading', u)) =
            IF u = t THEN Cardinality(Readers(reading, u)) - 1 ELSE Cardinality(Readers(reading, u))
    BY <1>1, <1>2, ReaderRemoved DEF LockTypeOK
  <2> QED
    BY <1>1, <1>4, <2>1 DEF ReadersCounted
<1>7. WriterAlone'
  BY <1>1, <1>3, <1>4 DEF ReleaseTypeForRead, LockTypeOK, WriterAlone
<1> QED
  BY <1>5, <1>6, <1>7 DEF LockIInv

LEMMA ReleaseTypeForWriteOK ==
  ASSUME LockIInv, NEW c \in Clients, NEW t \in LockTypes, ReleaseTypeForWrite(c, t)
  PROVE  LockIInv'
<1>1. LockTypeOK /\ ReadersCounted /\ WriterAlone
  BY DEF LockIInv
<1>2. LockTypeOK'
  BY <1>1 DEF ReleaseTypeForWrite, LockTypeOK, Without
<1>3. ReadersCounted'
  BY <1>1 DEF ReleaseTypeForWrite, ReadersCounted
<1>4. WriterAlone'
  BY <1>1 DEF ReleaseTypeForWrite, LockTypeOK, WriterAlone, Without
<1> QED
  BY <1>2, <1>3, <1>4 DEF LockIInv

\* Every step of EcsTypes.
LEMMA LockStepOK ==
  ASSUME LockIInv, [Next]_vars
  PROVE  LockIInv'
<1>1. CASE UNCHANGED lockVars
  BY <1>1 DEF lockVars, LockIInv, LockTypeOK, ReadersCounted, WriterAlone
<1>2. ASSUME NEW c \in Clients, NEW t \in LockTypes, LockStep(c, t)
      PROVE  LockIInv'
  BY <1>2, LockTypeForReadOK, LockTypeForWriteOK, ReleaseTypeForReadOK, ReleaseTypeForWriteOK
     DEF LockStep
<1> QED
  BY <1>1, <1>2 DEF Next, vars

LEMMA LockIInvExcludes ==
  ASSUME LockIInv
  PROVE  LocksExclude
<1>1. LockTypeOK /\ ReadersCounted /\ WriterAlone
  BY DEF LockIInv
<1>2. \A c \in Clients, t \in LockTypes : t \in reading[c] => lockedForRead[t] > 0
  BY <1>1, ReadCounted
<1> QED
  BY <1>1, <1>2 DEF WriterAlone, LocksExclude

\* A type locked for writing by one client is not locked by any other, nor for
\* reading by itself, and a release never meets its assertion, for any number
\* of clients and types: LocksExclude, of lockTypeForRead, lockTypeForWrite and
\* their releases.
THEOREM LockExclusion == Spec => []LocksExclude
<1>1. Init => LockIInv
  BY LockInitOK DEF Init
<1>2. LockIInv /\ [Next]_vars => LockIInv'
  BY LockStepOK
<1>3. LockIInv => LocksExclude
  BY LockIInvExcludes
<1> QED
  BY <1>1, <1>2, <1>3, PTL DEF Spec

-----------------------------------------------------------------------------
\* Each Ecs has registered the first types of the order, and asked for them.
PrefixesAsked ==
  \A e \in Stores :
    /\ descriptors[e] \in Seq(Range(Order)) /\ Len(descriptors[e]) <= Len(Order)
    /\ \A k \in 1 .. Len(descriptors[e]) :
         descriptors[e][k] = Order[k] /\ Order[k] \in DOMAIN typeIndex

\* The static index of a type is its place in the order, for the first Ecs that
\* asked and so for every other.  LookupsExact alone does not say it of a type
\* that an Ecs is still to register.
IndicesByOrder ==
  \A k \in 1 .. Len(Order) : Order[k] \in DOMAIN typeIndex => typeIndex[Order[k]] = k - 1

RegistryIInv ==
  /\ descriptors = [e \in Stores |-> descriptors[e]]
  /\ PrefixesAsked /\ IndicesByOrder

\* The order is a sequence without repetition.
LEMMA OrderFacts ==
  /\ Order \in Seq(Range(Order)) /\ Len(Order) \in Nat /\ DOMAIN Order = 1 .. Len(Order)
  /\ \A t \in Range(Order) : \E k \in 1 .. Len(Order) : Order[k] = t
  /\ \A k \in 1 .. Len(Order) : Order[k] \in Range(Order)
  /\ \A j, k \in 1 .. Len(Order) : Order[j] = Order[k] => j = k
<1>1. Order \in Seq(Range(Order)) /\ IsInjective(Order)
  BY RegistryAssumption
<1>2. Len(Order) \in Nat /\ DOMAIN Order = 1 .. Len(Order)
  BY <1>1
<1>3. \A j, k \in DOMAIN Order : Order[j] = Order[k] => j = k
  BY <1>1 DEF IsInjective
<1> QED
  BY <1>1, <1>2, <1>3 DEF Range

\* In a state of the invariant lookups are exact.
LEMMA RegistryIInvLookups ==
  ASSUME RegistryIInv
  PROVE  LookupsExact
<1> SUFFICES ASSUME NEW e \in Stores, NEW t \in Range(Order)
             PROVE  GetTypeId(e, t) = IF t \in Registered(e) THEN {t} ELSE {}
  BY DEF LookupsExact
<1> DEFINE n == Len(descriptors[e])
<1>1. PICK k \in 1 .. Len(Order) : Order[k] = t
  BY OrderFacts
<1>2. /\ descriptors[e] \in Seq(Range(Order)) /\ n \in Nat
      /\ DOMAIN descriptors[e] = 1 .. n /\ n <= Len(Order) /\ Len(Order) \in Nat
      /\ \A j \in 1 .. n : descriptors[e][j] = Order[j] /\ Order[j] \in DOMAIN typeIndex
  BY OrderFacts DEF RegistryIInv, PrefixesAsked
<1>3. t \in Registered(e) <=> k <= n
  <2>1. \A j \in 1 .. n : descriptors[e][j] = t => j = k
    BY <1>1, <1>2, OrderFacts
  <2>2. Registered(e) = {descriptors[e][j] : j \in 1 .. n}
    BY <1>2 DEF Registered, Range
  <2>3. k <= n => k \in 1 .. n /\ descriptors[e][k] = t
    BY <1>1, <1>2
  <2> HIDE DEF n
  <2> QED
    BY <1>1, <1>2, <2>1, <2>2, <2>3
<1>4. t \in DOMAIN typeIndex => typeIndex[t] = k - 1
  BY <1>1 DEF RegistryIInv, IndicesByOrder
<1>5. CASE k <= n
  <2>1. t \in DOMAIN typeIndex /\ descriptors[e][k] = t
    BY <1>1, <1>2, <1>5
  <2>2. IndexOnceAsked(e, t) = k - 1
    BY <1>4, <2>1 DEF IndexOnceAsked
  <2>3. k - 1 < n /\ k - 1 + 1 = k
    BY <1>1, <1>2, <1>5
  <2>4. GetTypeId(e, t) = {descriptors[e][k]}
    BY <2>2, <2>3 DEF GetTypeId
  <2> QED
    BY <1>3, <1>5, <2>1, <2>4
<1>6. CASE k > n
  <2>1. IndexOnceAsked(e, t) \in {k - 1, n}
    BY <1>4 DEF IndexOnceAsked
  <2> QED
    BY <1>1, <1>2, <1>3, <1>6, <2>1 DEF GetTypeId
<1> QED
  BY <1>1, <1>2, <1>5, <1>6

LEMMA RegistryInitOK ==
  ASSUME RegistryInit
  PROVE  RegistryIInv
BY OrderFacts DEF RegistryInit, RegistryIInv, PrefixesAsked, IndicesByOrder

\* Ecs::registerType: the type is the next of the order, so that its index,
\* whether an Ecs had asked for it before or not, is where it is put.
LEMMA RegisterTypeOK ==
  ASSUME RegistryIInv, NEW e \in Stores, NEW t \in Range(Order), RegisterType(e, t)
  PROVE  RegistryIInv'
<1> DEFINE n == Len(descriptors[e])
<1>1. /\ n \in Nat /\ n < Len(Order) /\ n + 1 \in 1 .. Len(Order) /\ t = Order[n + 1]
      /\ descriptors[e] \in Seq(Range(Order))
  BY OrderFacts DEF RegistryIInv, PrefixesAsked, RegisterType, MayRegister
<1>2. IndexOnceAsked(e, t) = n
  BY <1>1 DEF IndexOnceAsked, RegistryIInv, IndicesByOrder
<1>3. GetTypeId(e, t) = {}
  BY <1>1, <1>2 DEF GetTypeId
<1>4. descriptors' = [descriptors EXCEPT ![e] = Append(@, t)]
  BY <1>3 DEF RegisterType
<1>5. /\ DOMAIN typeIndex' = DOMAIN typeIndex \cup {t}
      /\ typeIndex'[t] = n
      /\ \A u \in DOMAIN typeIndex : u # t => typeIndex'[u] = typeIndex[u]
  BY <1>2 DEF RegisterType, TypeIndexAsked
<1>6. IndicesByOrder'
  <2> SUFFICES ASSUME NEW k \in 1 .. Len(Order), Order[k] \in DOMAIN typeIndex'
               PROVE  typeIndex'[Order[k]] = k - 1
    BY DEF IndicesByOrder
  <2>1. CASE k = n + 1
    BY <1>1, <1>5, <2>1
  <2>2. CASE k # n + 1
    <3>1. Order[k] # t
      BY <1>1, <2>2, OrderFacts
    <3> QED
      BY <1>5, <3>1 DEF RegistryIInv, IndicesByOrder
  <2> QED
    BY <2>1, <2>2
<1>7. descriptors' = [x \in Stores |-> IF x = e THEN Append(descriptors[e], t) ELSE descriptors[x]]
  BY <1>4 DEF RegistryIInv
<1>8. PrefixesAsked'
  <2> SUFFICES ASSUME NEW x \in Stores
               PROVE  /\ descriptors'[x] \in Seq(Range(Order)) /\ Len(descriptors'[x]) <= Len(Order)
                      /\ \A k \in 1 .. Len(descriptors'[x]) :
                           descriptors'[x][k] = Order[k] /\ Order[k] \in DOMAIN typeIndex'
    BY DEF PrefixesAsked
  <2>1. CASE x = e
    <3>1. /\ descriptors'[x] = Append(descriptors[e], t) /\ Len(descriptors'[x]) = n + 1
          /\ descriptors'[x] \in Seq(Range(Order))
      BY <1>1, <1>7, <2>1
    <3>2. \A k \in 1 .. n : descriptors'[x][k] = Order[k] /\ Order[k] \in DOMAIN typeIndex'
      BY <1>1, <1>5, <3>1 DEF RegistryIInv, PrefixesAsked
    <3>3. descriptors'[x][n + 1] = Order[n + 1] /\ Order[n + 1] \in DOMAIN typeIndex'
      BY <1>1, <1>5, <3>1
    <3> QED
      BY <1>1, <3>1, <3>2, <3>3
  <2>2. CASE x # e
    <3>1. descriptors'[x] = descriptors[x]
      BY <1>7, <2>2
    <3> QED
      BY <1>5, <3>1 DEF RegistryIInv, PrefixesAsked
  <2> QED
    BY <2>1, <2>2
<1> QED
  BY <1>6, <1>7, <1>8 DEF RegistryIInv

\* The other operations make archetypes only.
LEMMA RegistryStepOK ==
  ASSUME RegistryIInv, [Next]_vars
  PROVE  RegistryIInv'
<1>1. CASE UNCHANGED <<descriptors, typeIndex>>
  BY <1>1 DEF RegistryIInv, PrefixesAsked, IndicesByOrder
<1>2. CASE RegistryNext
  <2>1. ASSUME NEW e \in Stores, NEW list, CreateArchetype(e, list)
        PROVE  UNCHANGED <<descriptors, typeIndex>>
    BY <2>1 DEF CreateArchetype
  <2>2. ASSUME NEW e \in Stores, NEW t \in Range(Order), RegisterType(e, t)
        PROVE  RegistryIInv'
    BY <2>2, RegisterTypeOK
  <2> QED
    BY <1>1, <1>2, <2>1, <2>2
       DEF RegistryNext, CreateEntity, AddComponent, DeleteComponents
<1> QED
  BY <1>1, <1>2 DEF Next, vars, registryVars

\* A lookup finds the type itself where it is registered and nothing elsewhere,
\* whichever Ecs asked first, for any number of Ecs objects, types and orders of
\* events: LookupsExact, of getTypeId and registerType.
THEOREM LookupExactness == Spec => []LookupsExact
<1>1. Init => RegistryIInv
  BY RegistryInitOK DEF Init
<1>2. RegistryIInv /\ [Next]_vars => RegistryIInv'
  BY RegistryStepOK
<1>3. RegistryIInv => LookupsExact
  BY RegistryIInvLookups
<1> QED
  BY <1>1, <1>2, <1>3, PTL DEF Spec


-----------------------------------------------------------------------------
\* Lists as sets of types: the bits of these types, and the list of a width that
\* has them.
BitsOf(ts) == {k - 1 : k \in {j \in 1 .. Len(Order) : Order[j] \in ts}}

SetList(n, ts) == [width |-> Width(n), bits |-> BitsOf(ts)]

\* The types that an Ecs with n types has registered, and the client's among them.
FirstTypes(n) == {Order[k] : k \in 1 .. n}

FirstClientTypes(n) == {Order[k] : k \in InternalTypes + 1 .. n}

\* Every archetype has the list of a set of types, as wide as lists are now: so
\* two lists of one set are equal although one was made when there were fewer
\* types.  ListsAreSets says what follows from it.
ArchetypesAreSets ==
  /\ archetypes = [e \in Stores |-> archetypes[e]]
  /\ \A e \in Stores : \A list \in archetypes[e] :
       \E ts \in SUBSET FirstClientTypes(Len(descriptors[e])) : list = SetList(Len(descriptors[e]), ts)

\* The factory of an Ecs makes arrays of each type it has registered.
FactoriesMatch ==
  factoryFunctions = [e \in Stores |-> [t \in FirstTypes(Len(descriptors[e])) |-> t]]

ListIInv == ub = FALSE /\ RegistryIInv /\ ArchetypesAreSets /\ FactoriesMatch

\* A list of n types has room for their bits.
LEMMA FieldHolds ==
  ASSUME NEW n \in Nat
  PROVE  Width(n) \in Nat /\ n <= Width(n) * ByteBits
<1>1. \A x \in Nat, b \in Nat \ {0} : x \div b \in Nat /\ x < (x \div b) * b + b
  OBVIOUS
<1>2. PICK b \in Nat \ {0} : b = ByteBits
  BY RegistryAssumption
<1>3. n + b - 1 \in Nat
  BY <1>2
<1>4. Width(n) = (n + b - 1) \div b
  BY <1>2 DEF Width
<1>5. PICK w : w = (n + b - 1) \div b
  OBVIOUS
<1>6. w \in Nat /\ n + b - 1 < w * b + b
  BY <1>1, <1>2, <1>3, <1>5
<1>7. w * b \in Nat
  BY <1>2, <1>6
<1>8. n <= w * b
  BY <1>2, <1>6, <1>7
<1> QED
  BY <1>2, <1>4, <1>5, <1>6, <1>8

\* The bit of a type of the order is set exactly if the type is in the set.
LEMMA BitIs ==
  ASSUME NEW ts, NEW k \in 1 .. Len(Order)
  PROVE  k - 1 \in BitsOf(ts) <=> Order[k] \in ts
<1>1. \A j \in 1 .. Len(Order) : j - 1 = k - 1 => j = k
  BY OrderFacts
<1> QED
  BY <1>1 DEF BitsOf

\* The bits of types among the first n, and these types.
BitsFit(ts, n) ==
  /\ BitsOf(ts) = {k - 1 : k \in {j \in 1 .. n : Order[j] \in ts}}
  /\ BitsOf(ts) \subseteq 0 .. n - 1
  /\ ts = {Order[i + 1] : i \in BitsOf(ts)}
  /\ ts \subseteq Range(Order)

\* The bits are those of a set of types.
LEMMA BitsBelow ==
  ASSUME NEW n \in 0 .. Len(Order), NEW ts \in SUBSET FirstTypes(n)
  PROVE  BitsFit(ts, n)
<1>1. n \in Nat /\ n <= Len(Order) /\ Len(Order) \in Nat
  BY OrderFacts
<1>2. ASSUME NEW j \in 1 .. Len(Order), Order[j] \in ts
      PROVE  j \in 1 .. n
  <2>1. PICK k \in 1 .. n : Order[j] = Order[k]
    BY <1>2 DEF FirstTypes
  <2> QED
    BY <1>1, <2>1, OrderFacts
<1>3. BitsOf(ts) = {k - 1 : k \in {j \in 1 .. n : Order[j] \in ts}}
  BY <1>1, <1>2 DEF BitsOf
<1>4. BitsOf(ts) \subseteq 0 .. n - 1
  BY <1>1, <1>3
<1>5. ts \subseteq {Order[i + 1] : i \in BitsOf(ts)}
  <2> SUFFICES ASSUME NEW t \in ts
               PROVE  \E i \in BitsOf(ts) : Order[i + 1] = t
    OBVIOUS
  <2>1. PICK k \in 1 .. n : Order[k] = t
    BY DEF FirstTypes
  <2>2. k - 1 \in BitsOf(ts) /\ k - 1 + 1 = k
    BY <1>3, <2>1
  <2> QED
    BY <2>1, <2>2
<1>6. {Order[i + 1] : i \in BitsOf(ts)} \subseteq ts
  <2> SUFFICES ASSUME NEW i \in BitsOf(ts)
               PROVE  Order[i + 1] \in ts
    OBVIOUS
  <2>1. PICK k \in 1 .. n : i = k - 1 /\ Order[k] \in ts
    BY <1>3
  <2>2. i + 1 = k
    BY <1>1, <2>1
  <2> QED
    BY <2>1, <2>2
<1>7. ts \subseteq Range(Order)
  BY <1>1, OrderFacts DEF FirstTypes
<1> QED
  BY <1>3, <1>4, <1>5, <1>6, <1>7 DEF BitsFit


\* What the operations on lists do, for lists of sets of types.
LEMMA SetOperations ==
  ASSUME NEW n \in 0 .. Len(Order), NEW A \in SUBSET FirstTypes(n), NEW B \in SUBSET FirstTypes(n)
  PROVE  /\ \A i \in BitsOf(A) : InField(SetList(n, A), i)
         /\ AddList(SetList(n, A), SetList(n, B)) = SetList(n, A \cup B)
         /\ DeleteList(SetList(n, A), SetList(n, B)) = SetList(n, A \ B)
         /\ HasAllTypes(SetList(n, A), SetList(n, B)) <=> B \subseteq A
         /\ SetList(n, A).bits \cap SetList(n, B).bits = {} <=> A \cap B = {}
         /\ SetList(n, A) = SetList(n, B) => A = B
<1>0. \A ts \in SUBSET FirstTypes(n) : BitsFit(ts, n)
  BY BitsBelow
<1>1. n \in Nat /\ n <= Width(n) * ByteBits /\ Len(Order) \in Nat /\ n <= Len(Order)
      /\ Width(n) * ByteBits \in Nat
  <2>1. n \in Nat /\ n <= Len(Order) /\ Len(Order) \in Nat
    BY OrderFacts
  <2>2. n <= Width(n) * ByteBits /\ Width(n) \in Nat
    BY <2>1, FieldHolds
  <2>3. PICK w \in Nat, b \in Nat : w = Width(n) /\ b = ByteBits
    BY <2>2, RegistryAssumption
  <2>4. w * b \in Nat
    OBVIOUS
  <2> QED
    BY <2>1, <2>2, <2>3, <2>4
<1>2. PICK room \in Nat : room = Width(n) * ByteBits /\ n <= room
  BY <1>1
<1>3. \A ts, i : InField(SetList(n, ts), i) <=> i < room
  BY <1>2 DEF InField, SetList
<1>4. \A ts \in SUBSET FirstTypes(n) : \A i \in BitsOf(ts) : InField(SetList(n, ts), i)
  BY <1>0, <1>1, <1>2, <1>3 DEF BitsFit
<1>5. \A ts, us \in SUBSET FirstTypes(n) : \A i \in BitsOf(us) : InField(SetList(n, ts), i)
  BY <1>0, <1>1, <1>2, <1>3 DEF BitsFit
<1>6. /\ BitsOf(A \cup B) = BitsOf(A) \cup BitsOf(B)
      /\ BitsOf(A \cap B) = BitsOf(A) \cap BitsOf(B)
      /\ BitsOf(A \ B) = BitsOf(A) \ BitsOf(B)
  <2>1. \A ts : \A i : i \in BitsOf(ts) <=> \E k \in 1 .. Len(Order) : i = k - 1 /\ Order[k] \in ts
    BY DEF BitsOf
  <2>2. \A j, k \in 1 .. Len(Order) : j - 1 = k - 1 => j = k
    BY <1>1
  <2> QED
    BY <2>1, <2>2
<1>7. AddList(SetList(n, A), SetList(n, B)) = SetList(n, A \cup B)
  <2>1. {i \in BitsOf(B) : InField(SetList(n, A), i)} = BitsOf(B)
    BY <1>5
  <2>2. AddList(SetList(n, A), SetList(n, B)) =
          [SetList(n, A) EXCEPT !.bits = @ \cup {i \in SetList(n, B).bits : InField(SetList(n, A), i)}]
    BY DEF AddList
  <2>3. SetList(n, B).bits = BitsOf(B)
    BY DEF SetList
  <2>4. AddList(SetList(n, A), SetList(n, B)) = [SetList(n, A) EXCEPT !.bits = @ \cup BitsOf(B)]
    BY <2>1, <2>2, <2>3
  <2> QED
    BY <1>6, <2>4 DEF SetList
<1>8. DeleteList(SetList(n, A), SetList(n, B)) = SetList(n, A \ B)
  <2>1. {i \in BitsOf(B) : InField(SetList(n, A), i)} = BitsOf(B)
    BY <1>5
  <2>2. DeleteList(SetList(n, A), SetList(n, B)) =
          [SetList(n, A) EXCEPT !.bits = @ \ {i \in SetList(n, B).bits : InField(SetList(n, A), i)}]
    BY DEF DeleteList
  <2>3. SetList(n, B).bits = BitsOf(B)
    BY DEF SetList
  <2>4. DeleteList(SetList(n, A), SetList(n, B)) = [SetList(n, A) EXCEPT !.bits = @ \ BitsOf(B)]
    BY <2>1, <2>2, <2>3
  <2> QED
    BY <1>6, <2>4 DEF SetList
<1>9. \A ts \in SUBSET FirstTypes(n) : ts = {Order[i + 1] : i \in BitsOf(ts)}
  BY <1>0 DEF BitsFit
<1>10. BitsOf(B) \subseteq BitsOf(A) <=> B \subseteq A
  <2>1. A = {Order[i + 1] : i \in BitsOf(A)} /\ B = {Order[i + 1] : i \in BitsOf(B)}
    BY <1>9
  <2>2. BitsOf(B) \subseteq BitsOf(A) => B \subseteq A
    BY ONLY <2>1
  <2>3. B \subseteq A => BitsOf(B) \subseteq BitsOf(A)
    BY DEF BitsOf
  <2> QED
    BY <2>2, <2>3
<1>11. HasAllTypes(SetList(n, A), SetList(n, B)) <=> BitsOf(B) \subseteq BitsOf(A)
  BY <1>5 DEF HasAllTypes, SetList
<1>12. \A ts \in SUBSET FirstTypes(n) : BitsOf(ts) = {} <=> ts = {}
  BY <1>9 DEF BitsOf
<1>13. A \cap B \in SUBSET FirstTypes(n)
  OBVIOUS
<1>14. SetList(n, A).bits \cap SetList(n, B).bits = {} <=> A \cap B = {}
  <2>1. SetList(n, A).bits \cap SetList(n, B).bits = BitsOf(A \cap B)
    BY <1>6 DEF SetList
  <2> QED
    BY <1>12, <1>13, <2>1
<1>16. SetList(n, A) = SetList(n, B) => A = B
  <2>1. SetList(n, A) = SetList(n, B) => BitsOf(A) = BitsOf(B)
    BY DEF SetList
  <2> QED
    BY <1>9, <2>1
<1> QED
  BY <1>4, <1>7, <1>8, <1>10, <1>11, <1>14, <1>16

\* A list is empty if the set is.
LEMMA EmptyList ==
  ASSUME NEW n \in 0 .. Len(Order), NEW A \in SUBSET FirstTypes(n)
  PROVE  IsEmpty(SetList(n, A)) <=> A = {}
<1>1. \A i \in BitsOf(A) : InField(SetList(n, A), i)
  BY SetOperations
<1>2. IsEmpty(SetList(n, A)) <=> BitsOf(A) = {}
  BY <1>1 DEF IsEmpty, SetList
<1>3. A = {Order[i + 1] : i \in BitsOf(A)}
  <2>1. BitsFit(A, n)
    BY BitsBelow
  <2> QED
    BY <2>1 DEF BitsFit
<1> QED
  BY <1>2, <1>3 DEF BitsOf

\* The number of types of a list is the number of its bits.
LEMMA CountOfSet ==
  ASSUME NEW n \in 0 .. Len(Order), NEW ts \in SUBSET FirstTypes(n)
  PROVE  CalcTypeCount(SetList(n, ts)) = Cardinality(ts)
<1>1. {i \in SetList(n, ts).bits : InField(SetList(n, ts), i)} = BitsOf(ts)
  <2>1. \A i \in BitsOf(ts) : InField(SetList(n, ts), i)
    BY SetOperations
  <2>2. SetList(n, ts).bits = BitsOf(ts)
    BY DEF SetList
  <2> QED
    BY <2>1, <2>2
<1>2. BitsOf(ts) \subseteq 0 .. n - 1 /\ n \in Nat /\ ts = {Order[i + 1] : i \in BitsOf(ts)}
      /\ Len(Order) \in Nat
  <2>1. BitsFit(ts, n)
    BY BitsBelow
  <2>2. n \in Nat /\ Len(Order) \in Nat
    BY OrderFacts
  <2>3. BitsOf(ts) \subseteq 0 .. n - 1 /\ ts = {Order[i + 1] : i \in BitsOf(ts)}
    BY ONLY <2>1 DEF BitsFit
  <2> QED
    BY <2>2, <2>3
<1>3. IsFiniteSet(BitsOf(ts))
  <2>1. IsFiniteSet(0 .. n - 1)
    BY <1>2, FS_Interval
  <2> QED
    BY <1>2, <2>1, FS_Subset
<1> DEFINE f == [i \in BitsOf(ts) |-> Order[i + 1]]
<1>4. f \in Surjection(BitsOf(ts), ts)
  BY <1>2 DEF Surjection
<1>5. f \in Injection(BitsOf(ts), ts)
  <2>1. \A i \in BitsOf(ts) : i \in Int /\ i + 1 \in 1 .. Len(Order)
    BY <1>2
  <2>2. \A i, j \in BitsOf(ts) : Order[i + 1] = Order[j + 1] => i = j
    BY <2>1, OrderFacts
  <2>3. f \in [BitsOf(ts) -> ts]
    BY <1>2
  <2> QED
    BY <2>2, <2>3 DEF Injection, IsInjective
<1>6. f \in Bijection(BitsOf(ts), ts)
  BY <1>4, <1>5 DEF Bijection
<1>7. Cardinality(BitsOf(ts)) = Cardinality(ts)
  BY <1>3, <1>6, FS_Bijection DEF ExistsBijection
<1> QED
  BY <1>1, <1>7 DEF CalcTypeCount


-----------------------------------------------------------------------------
\* The descriptors of an Ecs, and the indices of its types.
LEMMA RegistryFacts ==
  ASSUME RegistryIInv, NEW e \in Stores, NEW n, n = Len(descriptors[e])
  PROVE  /\ n \in 0 .. Len(Order) /\ descriptors[e] \in Seq(Range(Order))
         /\ Registered(e) = FirstTypes(n)
         /\ ClientTypes(e) = FirstClientTypes(n)
         /\ \A k \in 1 .. n : descriptors[e][k] = Order[k] /\ IndexOf(e, Order[k]) = k - 1
<1>1. /\ n \in Nat /\ n <= Len(Order) /\ Len(Order) \in Nat /\ DOMAIN descriptors[e] = 1 .. n
      /\ descriptors[e] \in Seq(Range(Order))
      /\ \A k \in 1 .. n : descriptors[e][k] = Order[k] /\ Order[k] \in DOMAIN typeIndex
  BY OrderFacts DEF RegistryIInv, PrefixesAsked
<1>2. Registered(e) = FirstTypes(n)
  BY <1>1 DEF Registered, Range, FirstTypes
<1>3. \A k \in 1 .. n : IndexOf(e, Order[k]) = k - 1
  BY <1>1 DEF IndexOf, IndexOnceAsked, RegistryIInv, IndicesByOrder
<1>4. ClientTypes(e) = FirstClientTypes(n)
  <2>1. InternalTypes \in Nat /\ InternalTypes <= Len(Order)
    BY <1>1, RegistryAssumption
  <2>2. /\ DOMAIN SubSeq(Order, 1, InternalTypes) = 1 .. InternalTypes
        /\ \A k \in 1 .. InternalTypes : SubSeq(Order, 1, InternalTypes)[k] = Order[k]
    BY <2>1, OrderFacts, SubSeqProperties
  <2>3. Range(SubSeq(Order, 1, InternalTypes)) = {Order[k] : k \in 1 .. InternalTypes}
    BY <2>2 DEF Range
  <2>4. \A j, k \in 1 .. Len(Order) : Order[j] = Order[k] => j = k
    BY OrderFacts
  <2>5. ASSUME NEW j \in 1 .. n
        PROVE  Order[j] \in {Order[k] : k \in 1 .. InternalTypes} <=> j <= InternalTypes
    BY <1>1, <2>1, <2>4
  <2>6. FirstTypes(n) \ {Order[k] : k \in 1 .. InternalTypes} = FirstClientTypes(n)
    <3>1. ASSUME NEW t \in FirstTypes(n), t \notin {Order[k] : k \in 1 .. InternalTypes}
          PROVE  t \in FirstClientTypes(n)
      BY <1>1, <2>1, <2>5, <3>1 DEF FirstTypes, FirstClientTypes
    <3>2. ASSUME NEW t \in FirstClientTypes(n)
          PROVE  t \in FirstTypes(n) /\ t \notin {Order[k] : k \in 1 .. InternalTypes}
      <4>1. PICK j \in InternalTypes + 1 .. n : t = Order[j]
        BY DEF FirstClientTypes
      <4>2. j \in 1 .. n /\ ~ j <= InternalTypes
        BY <1>1, <2>1
      <4> QED
        BY <2>5, <4>1, <4>2 DEF FirstTypes
    <3> QED
      BY <3>1, <3>2
  <2> QED
    BY <1>2, <2>3, <2>6 DEF ClientTypes
<1> QED
  BY <1>1, <1>2, <1>3, <1>4

\* The client's types are among those registered.
LEMMA ClientsFirst ==
  ASSUME NEW n \in 0 .. Len(Order)
  PROVE  FirstClientTypes(n) \subseteq FirstTypes(n)
BY OrderFacts, RegistryAssumption DEF FirstClientTypes, FirstTypes

\* The indices of types of an Ecs are their bits.
LEMMA IndicesAreBits ==
  ASSUME RegistryIInv, NEW e \in Stores, NEW n, n = Len(descriptors[e]),
         NEW ts \in SUBSET FirstTypes(n)
  PROVE  {IndexOf(e, t) : t \in ts} = BitsOf(ts)
<1>1. /\ n \in 0 .. Len(Order) /\ descriptors[e] \in Seq(Range(Order))
      /\ n \in Nat /\ n <= Len(Order) /\ Len(Order) \in Nat /\ DOMAIN descriptors[e] = 1 .. n
      /\ \A k \in 1 .. n : descriptors[e][k] = Order[k] /\ IndexOf(e, Order[k]) = k - 1
  BY OrderFacts, RegistryFacts
<1>2. BitsOf(ts) = {k - 1 : k \in {j \in 1 .. n : Order[j] \in ts}}
  <2>1. BitsFit(ts, n)
    BY <1>1, BitsBelow
  <2> QED
    BY <2>1 DEF BitsFit
<1>3. \A t \in ts : \E k \in 1 .. n : t = Order[k] /\ IndexOf(e, t) = k - 1
  BY <1>1 DEF FirstTypes
<1>4. \A k \in 1 .. n : Order[k] \in ts => k - 1 \in {IndexOf(e, t) : t \in ts}
  BY <1>1
<1> QED
  BY <1>2, <1>3, <1>4

\* The list that an Ecs makes of types, what it says of them, and the types
\* it stands for.
LEMMA ListIs ==
  ASSUME RegistryIInv, NEW e \in Stores, NEW n, n = Len(descriptors[e]),
         NEW A \in SUBSET FirstTypes(n)
  PROVE  /\ ListOf(e, A) = SetList(n, A)
         /\ \A t \in FirstTypes(n) : HasType(e, SetList(n, A), t) <=> t \in A
         /\ Denoted(e, SetList(n, A)) = A
<1>1. /\ n \in 0 .. Len(Order) /\ descriptors[e] \in Seq(Range(Order))
      /\ n \in Nat /\ n <= Len(Order) /\ Len(Order) \in Nat /\ DOMAIN descriptors[e] = 1 .. n
      /\ \A k \in 1 .. n : descriptors[e][k] = Order[k] /\ IndexOf(e, Order[k]) = k - 1
  BY OrderFacts, RegistryFacts
<1>2. ListOf(e, A) = SetList(n, A)
  BY IndicesAreBits DEF ListOf, SetList
<1>3. ASSUME NEW t \in FirstTypes(n)
      PROVE  HasType(e, SetList(n, A), t) <=> t \in A
  <2>1. PICK k \in 1 .. n : t = Order[k]
    BY DEF FirstTypes
  <2>2. k \in 1 .. Len(Order) /\ IndexOf(e, t) = k - 1
    BY <1>1, <2>1
  <2> QED
    BY <2>1, <2>2, BitIs DEF HasType, SetList
<1>4. Denoted(e, SetList(n, A)) = A
  <2> DEFINE numbers == [k \in DOMAIN descriptors[e] |-> k]
             taken   == {i + 1 : i \in BitsOf(A)}
             set     == Kept(numbers, taken)
  <2>1. numbers \in Seq(Nat) /\ Range(numbers) = 1 .. n
    <3>1. numbers = [k \in 1 .. n |-> k]
      BY <1>1
    <3>2. numbers \in [1 .. n -> Nat] /\ DOMAIN numbers = 1 .. n
      BY <1>1, <3>1
    <3>3. numbers \in Seq(Nat)
      BY <1>1, <3>2, SeqDef
    <3>4. Range(numbers) = 1 .. n
      BY <3>1 DEF Range
    <3> QED
      BY <3>3, <3>4
  <2>2. SetList(n, A).bits = BitsOf(A)
    BY DEF SetList
  <2>3. CalcTypeIds(e, SetList(n, A)) = [m \in DOMAIN set |-> descriptors[e][set[m]]]
    BY <2>2 DEF CalcTypeIds
  <2>4. taken = {k \in 1 .. n : Order[k] \in A}
    <3>1. BitsOf(A) = {k - 1 : k \in {j \in 1 .. n : Order[j] \in A}}
      <4>1. BitsFit(A, n)
        BY <1>1, BitsBelow
      <4> QED
        BY <4>1 DEF BitsFit
    <3>2. ASSUME NEW k \in 1 .. n, Order[k] \in A
          PROVE  k \in taken
      <4>1. k - 1 \in BitsOf(A) /\ k = (k - 1) + 1
        BY <1>1, <3>1, <3>2
      <4> QED
        BY <4>1
    <3>3. ASSUME NEW k \in taken
          PROVE  k \in 1 .. n /\ Order[k] \in A
      <4>1. PICK i \in BitsOf(A) : k = i + 1
        OBVIOUS
      <4>2. PICK j \in 1 .. n : i = j - 1 /\ Order[j] \in A
        BY <3>1
      <4>3. k = j
        BY <1>1, <4>1, <4>2
      <4> QED
        BY <4>2, <4>3
    <3> HIDE DEF taken
    <3> QED
      BY <3>2, <3>3
  <2> HIDE DEF numbers, taken
  <2>5. Range(set) = {k \in 1 .. n : Order[k] \in A}
    <3>1. Range(set) = Range(numbers) \cap taken
      BY <2>1, KeptElements
    <3> QED
      BY <2>1, <2>4, <3>1
  <2> HIDE DEF set
  <2>6. Denoted(e, SetList(n, A)) = {descriptors[e][k] : k \in Range(set)}
    BY <2>3 DEF Denoted, Range
  <2>7. {descriptors[e][k] : k \in Range(set)} = {Order[k] : k \in {j \in 1 .. n : Order[j] \in A}}
    BY <1>1, <2>5
  <2>8. {Order[k] : k \in {j \in 1 .. n : Order[j] \in A}} = A
    BY DEF FirstTypes
  <2> QED
    BY <2>6, <2>7, <2>8
<1> QED
  BY <1>2, <1>3, <1>4

\* addTypes of single types, of the list of a set, ...
LEMMA TypesAdded ==
  ASSUME RegistryIInv, NEW e \in Stores, NEW n, n = Len(descriptors[e]),
         NEW A, NEW B \in SUBSET FirstTypes(n), NEW list, list = SetList(n, A),
         NEW more, more = SetList(n, A \cup B)
  PROVE  WithTypes(e, list, B) = more
<1>1. {IndexOf(e, t) : t \in B} = BitsOf(B)
  BY IndicesAreBits
<1>2. BitsOf(A \cup B) = BitsOf(A) \cup BitsOf(B)
  BY DEF BitsOf
<1>3. list = [width |-> Width(n), bits |-> BitsOf(A)]
      /\ more = [width |-> Width(n), bits |-> BitsOf(A \cup B)]
  BY DEF SetList
<1>4. WithTypes(e, list, B) = [list EXCEPT !.bits = @ \cup BitsOf(B)]
  BY <1>1 DEF WithTypes
<1> QED
  BY ONLY <1>2, <1>3, <1>4

\* ... and deleteTypes.
LEMMA TypesDeleted ==
  ASSUME RegistryIInv, NEW e \in Stores, NEW n, n = Len(descriptors[e]),
         NEW A, NEW B \in SUBSET FirstTypes(n), NEW list, list = SetList(n, A),
         NEW left, left = SetList(n, A \ B)
  PROVE  WithoutTypes(e, list, B) = left
<1>1. {IndexOf(e, t) : t \in B} = BitsOf(B)
  BY IndicesAreBits
<1>2. BitsOf(A \ B) = BitsOf(A) \ BitsOf(B)
  <2>1. \A ts : \A i : i \in BitsOf(ts) <=> \E k \in 1 .. Len(Order) : i = k - 1 /\ Order[k] \in ts
    BY DEF BitsOf
  <2>2. \A j, k \in 1 .. Len(Order) : j - 1 = k - 1 => j = k
    BY OrderFacts
  <2> QED
    BY <2>1, <2>2
<1>3. list = [width |-> Width(n), bits |-> BitsOf(A)]
      /\ left = [width |-> Width(n), bits |-> BitsOf(A \ B)]
  BY DEF SetList
<1>4. WithoutTypes(e, list, B) = [list EXCEPT !.bits = @ \ BitsOf(B)]
  BY <1>1 DEF WithoutTypes
<1> QED
  BY ONLY <1>2, <1>3, <1>4

-----------------------------------------------------------------------------
\* The query of sets of types.
SetQuery(n, required, excluded, read, write) ==
  [required |-> SetList(n, required), excluded |-> SetList(n, excluded),
   read     |-> SetList(n, read),     write    |-> SetList(n, write)]

\* typeQueryList::add of types that are required: they are added to the set, ...
LEMMA RequiredAdded ==
  ASSUME NEW n \in 0 .. Len(Order), NEW R \in SUBSET FirstTypes(n),
         NEW A \in SUBSET FirstTypes(n), NEW X, NEW D, NEW W,
         NEW q, q = SetQuery(n, R, X, D, W), NEW a, a = SetList(n, A),
         NEW R2, R2 = R \cup A
  PROVE  AddToQuery(q, a, "Required") = SetQuery(n, R2, X, D, W)
<1>1. AddList(SetList(n, R), a) = SetList(n, R2)
  BY SetOperations
<1>2. q = [required |-> SetList(n, R), excluded |-> SetList(n, X),
           read     |-> SetList(n, D), write    |-> SetList(n, W)]
  BY DEF SetQuery
<1>3. AddToQuery(q, a, "Required") = [q EXCEPT !.required = AddList(@, a)]
  BY DEF AddToQuery
<1> QED
  BY ONLY <1>1, <1>2, <1>3 DEF SetQuery

\* ... of types that are excluded, ...
LEMMA ExcludeAdded ==
  ASSUME NEW n \in 0 .. Len(Order), NEW X \in SUBSET FirstTypes(n),
         NEW A \in SUBSET FirstTypes(n), NEW R, NEW D, NEW W,
         NEW q, q = SetQuery(n, R, X, D, W), NEW a, a = SetList(n, A),
         NEW X2, X2 = X \cup A
  PROVE  AddToQuery(q, a, "Exclude") = SetQuery(n, R, X2, D, W)
<1>1. AddList(SetList(n, X), a) = SetList(n, X2)
  BY SetOperations
<1>2. q = [required |-> SetList(n, R), excluded |-> SetList(n, X),
           read     |-> SetList(n, D), write    |-> SetList(n, W)]
  BY DEF SetQuery
<1>3. AddToQuery(q, a, "Exclude") = [q EXCEPT !.excluded = AddList(@, a)]
  BY DEF AddToQuery
<1> QED
  BY ONLY <1>1, <1>2, <1>3 DEF SetQuery

\* ... of types that are read, which are required, too, ...
LEMMA ReadAdded ==
  ASSUME NEW n \in 0 .. Len(Order), NEW R \in SUBSET FirstTypes(n), NEW D \in SUBSET FirstTypes(n),
         NEW A \in SUBSET FirstTypes(n), NEW X, NEW W,
         NEW q, q = SetQuery(n, R, X, D, W), NEW a, a = SetList(n, A),
         NEW R2, R2 = R \cup A, NEW D2, D2 = D \cup A
  PROVE  AddToQuery(q, a, "Read") = SetQuery(n, R2, X, D2, W)
<1>1. AddList(SetList(n, R), a) = SetList(n, R2) /\ AddList(SetList(n, D), a) = SetList(n, D2)
  BY SetOperations
<1>2. q = [required |-> SetList(n, R), excluded |-> SetList(n, X),
           read     |-> SetList(n, D), write    |-> SetList(n, W)]
  BY DEF SetQuery
<1>3. AddToQuery(q, a, "Read") = [q EXCEPT !.required = AddList(@, a), !.read = AddList(@, a)]
  BY DEF AddToQuery
<1> QED
  BY ONLY <1>1, <1>2, <1>3 DEF SetQuery

\* ... and of types that are written.
LEMMA WriteAdded ==
  ASSUME NEW n \in 0 .. Len(Order), NEW R \in SUBSET FirstTypes(n), NEW W \in SUBSET FirstTypes(n),
         NEW A \in SUBSET FirstTypes(n), NEW X, NEW D,
         NEW q, q = SetQuery(n, R, X, D, W), NEW a, a = SetList(n, A),
         NEW R2, R2 = R \cup A, NEW W2, W2 = W \cup A
  PROVE  AddToQuery(q, a, "Write") = SetQuery(n, R2, X, D, W2)
<1>1. AddList(SetList(n, R), a) = SetList(n, R2) /\ AddList(SetList(n, W), a) = SetList(n, W2)
  BY SetOperations
<1>2. q = [required |-> SetList(n, R), excluded |-> SetList(n, X),
           read     |-> SetList(n, D), write    |-> SetList(n, W)]
  BY DEF SetQuery
<1>3. AddToQuery(q, a, "Write") = [q EXCEPT !.required = AddList(@, a), !.write = AddList(@, a)]
  BY DEF AddToQuery
<1> QED
  BY ONLY <1>1, <1>2, <1>3 DEF SetQuery

\* typeQueryList::check asks what it means for sets.
LEMMA SetQueryChecks ==
  ASSUME NEW n \in 0 .. Len(Order), NEW R \in SUBSET FirstTypes(n), NEW X \in SUBSET FirstTypes(n),
         NEW D, NEW W, NEW held \in SUBSET FirstTypes(n)
  PROVE  Check(SetQuery(n, R, X, D, W), SetList(n, held)) <=> R \subseteq held /\ X \cap held = {}
<1>1. PICK q : q = SetQuery(n, R, X, D, W)
  OBVIOUS
<1>2. q.required = SetList(n, R) /\ q.excluded = SetList(n, X)
  BY <1>1 DEF SetQuery
<1>3. HasAllTypes(SetList(n, held), SetList(n, R)) <=> R \subseteq held
  BY SetOperations
<1>4. SetList(n, held).bits \cap SetList(n, X).bits = {} <=> held \cap X = {}
  BY SetOperations
<1> QED
  BY <1>1, <1>2, <1>3, <1>4 DEF Check

\* The lists of no types.
LEMMA NewQueryIs ==
  ASSUME RegistryIInv, NEW e \in Stores, NEW n, n = Len(descriptors[e])
  PROVE  NewQuery(e) = SetQuery(n, {}, {}, {}, {})
<1>1. {} \in SUBSET FirstTypes(n)
  OBVIOUS
<1>2. ListOf(e, {}) = SetList(n, {})
  BY <1>1, ListIs
<1> QED
  BY <1>2 DEF NewQuery, SetQuery

\* The types that are const, or not.
ConstOf(ts, isConst) == {t \in ts : isConst[t] = TRUE}

NotConstOf(ts, isConst) == {t \in ts : isConst[t] = FALSE}

\* The query of a view to which types are added.
ModesQuery(e, ts, isConst, R, X) == Exclude(e, With(e, ViewQuery(e, ts, isConst), R), X)

\* The query of a view with types that are read, written, required and excluded.
LEMMA ViewQueryIs ==
  ASSUME RegistryIInv, NEW e \in Stores, NEW n, n = Len(descriptors[e]),
         NEW D \in SUBSET FirstTypes(n), NEW W \in SUBSET FirstTypes(n),
         NEW R \in SUBSET FirstTypes(n), NEW X \in SUBSET FirstTypes(n),
         NEW ts, NEW isConst,
         D = ConstOf(ts, isConst), W = NotConstOf(ts, isConst),
         NEW DWR, DWR = D \cup W \cup R
  PROVE  ModesQuery(e, ts, isConst, R, X) = SetQuery(n, DWR, X, D, W)
<1>1. /\ n \in 0 .. Len(Order)
      /\ {} \in SUBSET FirstTypes(n)
      /\ D \in SUBSET FirstTypes(n) /\ W \in SUBSET FirstTypes(n)
      /\ R \in SUBSET FirstTypes(n) /\ X \in SUBSET FirstTypes(n)
  BY RegistryFacts
<1>2. NewQuery(e) = SetQuery(n, {}, {}, {}, {})
  BY NewQueryIs
<1>3. ASSUME NEW keepConst \in BOOLEAN
      PROVE  TypeIdsFilterConst(e, ts, isConst, keepConst) = ListOf(e, {t \in ts : isConst[t] = keepConst})
  <2>1. {t \in ts : [u \in ts |-> isConst[u] = keepConst][t]} = {t \in ts : isConst[t] = keepConst}
    BY Zenon
  <2> QED
    BY <2>1, Zenon DEF TypeIdsFilterConst, ListKept
<1>4. /\ TypeIdsFilterConst(e, ts, isConst, TRUE) = SetList(n, D)
      /\ TypeIdsFilterConst(e, ts, isConst, FALSE) = SetList(n, W)
  <2>1. TypeIdsFilterConst(e, ts, isConst, TRUE) = ListOf(e, D)
    BY <1>3 DEF ConstOf, NotConstOf
  <2>2. TypeIdsFilterConst(e, ts, isConst, FALSE) = ListOf(e, W)
    BY <1>3 DEF ConstOf, NotConstOf
  <2>3. ListOf(e, D) = SetList(n, D) /\ ListOf(e, W) = SetList(n, W)
    BY ListIs
  <2> QED
    BY <2>1, <2>2, <2>3
<1>5. ListOf(e, R) = SetList(n, R) /\ ListOf(e, X) = SetList(n, X)
  BY ListIs
<1>6. PICK DW, q0, q1, q2, q3, q4 :
        /\ DW = D \cup W
        /\ q0 = SetQuery(n, {}, {}, {}, {}) /\ q1 = SetQuery(n, D, {}, D, {})
        /\ q2 = SetQuery(n, DW, {}, D, W)   /\ q3 = SetQuery(n, DWR, {}, D, W)
        /\ q4 = SetQuery(n, DWR, X, D, W)
  OBVIOUS
<1>7. PICK d, w, r, x :
        d = SetList(n, D) /\ w = SetList(n, W) /\ r = SetList(n, R) /\ x = SetList(n, X)
  OBVIOUS
<1>8. /\ DW \in SUBSET FirstTypes(n) /\ DWR \in SUBSET FirstTypes(n)
      /\ D = {} \cup D /\ DW = D \cup W /\ W = {} \cup W /\ DWR = DW \cup R /\ X = {} \cup X
  BY <1>6
<1>9. AddToQuery(q0, d, "Read") = q1
  BY ONLY <1>1, <1>6, <1>7, <1>8, ReadAdded
<1>10. AddToQuery(q1, w, "Write") = q2
  BY ONLY <1>1, <1>6, <1>7, <1>8, WriteAdded
<1>11. AddToQuery(q2, r, "Required") = q3
  BY ONLY <1>1, <1>6, <1>7, <1>8, RequiredAdded
<1>12. AddToQuery(q3, x, "Exclude") = q4
  BY ONLY <1>1, <1>6, <1>7, <1>8, ExcludeAdded
<1>13. ViewQuery(e, ts, isConst) = q2
  BY <1>2, <1>4, <1>6, <1>7, <1>9, <1>10 DEF ViewQuery
<1>14. With(e, ViewQuery(e, ts, isConst), R) = q3
  BY <1>5, <1>7, <1>11, <1>13 DEF With
<1> QED
  BY <1>5, <1>6, <1>7, <1>12, <1>14 DEF Exclude, ModesQuery

\* QueriesExact, of the list of a set of types.
LEMMA QueriesAreSets ==
  ASSUME RegistryIInv, NEW e \in Stores, NEW n, n = Len(descriptors[e]),
         NEW held \in SUBSET FirstTypes(n)
  PROVE  QueriesExact(e, SetList(n, held), held)
<1> DEFINE Modes == {"Read", "Write", "Required", "Exclude", "None"}
<1> SUFFICES ASSUME NEW mode \in [ClientTypes(e) -> Modes]
             PROVE  LET Of(modes) == {t \in ClientTypes(e) : mode[t] \in modes}
                        query == Exclude(e, With(e, ViewQuery(e, Of({"Read", "Write"}),
                                                              [t \in ClientTypes(e) |-> mode[t] = "Read"]),
                                                 Of({"Required"})),
                                         Of({"Exclude"}))
                    IN  /\ Check(query, SetList(n, held)) <=>
                             /\ Of({"Read", "Write", "Required"}) \subseteq held
                             /\ Of({"Exclude"}) \cap held = {}
                        /\ Denoted(e, query.read) = Of({"Read"})
                        /\ Denoted(e, query.write) = Of({"Write"})
  BY DEF QueriesExact
<1> DEFINE Of(modes) == {t \in ClientTypes(e) : mode[t] \in modes}
           isConst == [t \in ClientTypes(e) |-> mode[t] = "Read"]
           query == Exclude(e, With(e, ViewQuery(e, Of({"Read", "Write"}), isConst), Of({"Required"})),
                            Of({"Exclude"}))
<1>1. n \in 0 .. Len(Order) /\ ClientTypes(e) \subseteq FirstTypes(n)
  BY RegistryFacts, ClientsFirst
<1>2. \A modes : Of(modes) \in SUBSET FirstTypes(n)
  BY <1>1
<1>3. ConstOf(Of({"Read", "Write"}), isConst) = Of({"Read"})
  <2>1. \A t \in ClientTypes(e) : (isConst[t] = TRUE) <=> mode[t] = "Read"
    BY Zenon
  <2> HIDE DEF isConst
  <2> QED
    BY <2>1 DEF ConstOf, NotConstOf
<1>4. NotConstOf(Of({"Read", "Write"}), isConst) = Of({"Write"})
  <2>1. \A t \in ClientTypes(e) : (isConst[t] = FALSE) <=> mode[t] # "Read"
    BY Zenon
  <2> HIDE DEF isConst
  <2> QED
    BY <2>1 DEF ConstOf, NotConstOf
<1>5. PICK D, W, R, X, rw : /\ D = Of({"Read"}) /\ W = Of({"Write"}) /\ R = Of({"Required"})
                            /\ X = Of({"Exclude"}) /\ rw = Of({"Read", "Write"})
  OBVIOUS
<1>6. PICK const, all : const = isConst /\ all = D \cup W \cup R
  OBVIOUS
<1>7. /\ D \in SUBSET FirstTypes(n) /\ W \in SUBSET FirstTypes(n)
      /\ R \in SUBSET FirstTypes(n) /\ X \in SUBSET FirstTypes(n)
      /\ all = D \cup W \cup R /\ all \in SUBSET FirstTypes(n)
      /\ D = ConstOf(rw, const) /\ W = NotConstOf(rw, const)
  <2>1. D = ConstOf(rw, const) /\ W = NotConstOf(rw, const)
    BY <1>3, <1>4, <1>5, <1>6, Zenon
  <2>2. /\ D \in SUBSET FirstTypes(n) /\ W \in SUBSET FirstTypes(n)
        /\ R \in SUBSET FirstTypes(n) /\ X \in SUBSET FirstTypes(n)
    BY <1>2, <1>5, Zenon
  <2>3. all \in SUBSET FirstTypes(n)
    BY ONLY <1>6, <2>2
  <2> QED
    BY <1>6, <2>1, <2>2, <2>3
<1>8. Of({"Read", "Write", "Required"}) = all
  BY <1>5, <1>6
<1>9. query = ModesQuery(e, rw, const, R, X)
  BY <1>5, <1>6 DEF ModesQuery
<1>10. ModesQuery(e, rw, const, R, X) = SetQuery(n, all, X, D, W)
  <2>1. /\ RegistryIInv /\ e \in Stores /\ n = Len(descriptors[e])
        /\ D \in SUBSET FirstTypes(n) /\ W \in SUBSET FirstTypes(n)
        /\ R \in SUBSET FirstTypes(n) /\ X \in SUBSET FirstTypes(n)
        /\ D = ConstOf(rw, const) /\ W = NotConstOf(rw, const)
        /\ all = D \cup W \cup R
    BY <1>7
  <2> QED
    BY ONLY <2>1, ViewQueryIs
<1>11. Check(SetQuery(n, all, X, D, W), SetList(n, held))
         <=> all \subseteq held /\ X \cap held = {}
  <2>1. /\ n \in 0 .. Len(Order) /\ all \in SUBSET FirstTypes(n)
        /\ X \in SUBSET FirstTypes(n) /\ held \in SUBSET FirstTypes(n)
    BY <1>1, <1>7
  <2> QED
    BY ONLY <2>1, SetQueryChecks
<1>12. Denoted(e, SetList(n, D)) = D /\ Denoted(e, SetList(n, W)) = W
  BY <1>7, ListIs
<1>13. SetQuery(n, all, X, D, W).read = SetList(n, D)
       /\ SetQuery(n, all, X, D, W).write = SetList(n, W)
  BY DEF SetQuery
<1>14. query = SetQuery(n, all, X, D, W)
  BY <1>9, <1>10
<1> HIDE DEF query, Of
<1>15. /\ Check(query, SetList(n, held)) <=>
                             /\ Of({"Read", "Write", "Required"}) \subseteq held
                             /\ Of({"Exclude"}) \cap held = {}
       /\ Denoted(e, query.read) = Of({"Read"})
       /\ Denoted(e, query.write) = Of({"Write"})
  BY <1>5, <1>8, <1>11, <1>12, <1>13, <1>14
<1> QED
  BY <1>15 DEF query, Of, isConst


\* AnswersAgree, of the list of a set of types.
LEMMA AnswersAreSets ==
  ASSUME RegistryIInv, NEW e \in Stores, NEW n, n = Len(descriptors[e]),
         NEW held \in SUBSET FirstTypes(n)
  PROVE  AnswersAgree(e, SetList(n, held), held)
<1> SUFFICES ASSUME NEW ts \in SUBSET ClientTypes(e)
             PROVE  /\ HasAllComponents(e, SetList(n, held), ts) <=> ts \subseteq held
                    /\ HasAllComponents(e, SetList(n, held), ts)
                         <=> \A t \in ts : HasEachComponent(e, SetList(n, held), ts)[t]
                    /\ DeleteList(SetList(n, held), ListOf(e, ts)) = WithoutTypes(e, SetList(n, held), ts)
                    /\ IsEmpty(DeleteList(SetList(n, held), ListOf(e, ts))) <=> held \subseteq ts
  BY DEF AnswersAgree
<1>1. n \in 0 .. Len(Order) /\ ts \in SUBSET FirstTypes(n)
  BY RegistryFacts, ClientsFirst
<1>2. PICK list, other, left :
        list = SetList(n, held) /\ other = SetList(n, ts) /\ left = SetList(n, held \ ts)
  OBVIOUS
<1>3. ListOf(e, ts) = other
  BY <1>1, <1>2, ListIs
<1>4. HasAllComponents(e, list, ts) <=> ts \subseteq held
  <2>1. PICK q0, q : q0 = SetQuery(n, {}, {}, {}, {}) /\ q = SetQuery(n, ts, {}, ts, {})
    OBVIOUS
  <2>2. NewQuery(e) = q0
    BY <2>1, NewQueryIs
  <2>3. {} \in SUBSET FirstTypes(n) /\ ts = {} \cup ts
    OBVIOUS
  <2>4. AddToQuery(q0, other, "Read") = q
    BY ONLY <1>1, <1>2, <2>1, <2>3, ReadAdded
  <2>5. Check(q, list) <=> ts \subseteq held /\ {} \cap held = {}
    <3>1. /\ n \in 0 .. Len(Order) /\ ts \in SUBSET FirstTypes(n)
          /\ {} \in SUBSET FirstTypes(n) /\ held \in SUBSET FirstTypes(n)
      BY <1>1
    <3>2. Check(SetQuery(n, ts, {}, ts, {}), SetList(n, held)) <=> ts \subseteq held /\ {} \cap held = {}
      BY ONLY <3>1, SetQueryChecks
    <3> QED
      BY <1>2, <2>1, <3>2
  <2> QED
    BY <1>3, <2>2, <2>4, <2>5 DEF HasAllComponents
<1>5. (\A t \in ts : HasEachComponent(e, list, ts)[t]) <=> ts \subseteq held
  <2>1. \A t \in FirstTypes(n) : HasType(e, list, t) <=> t \in held
    BY <1>2, ListIs
  <2>2. ASSUME NEW t \in ts
        PROVE  HasEachComponent(e, list, ts)[t] <=> HasType(e, list, t)
    BY Zenon DEF HasEachComponent
  <2>3. \A t \in ts : t \in FirstTypes(n)
    BY <1>1
  <2> QED
    BY <2>1, <2>2, <2>3, Zenon
<1>6. DeleteList(list, other) = left /\ WithoutTypes(e, list, ts) = left
  <2>1. DeleteList(list, other) = left
    BY <1>1, <1>2, SetOperations
  <2>2. WithoutTypes(e, list, ts) = left
    BY <1>1, <1>2, TypesDeleted
  <2> QED
    BY <2>1, <2>2
<1>7. IsEmpty(left) <=> held \subseteq ts
  <2>1. held \ ts \in SUBSET FirstTypes(n)
    OBVIOUS
  <2>2. IsEmpty(SetList(n, held \ ts)) <=> held \ ts = {}
    BY <1>1, <2>1, EmptyList
  <2> QED
    BY <1>2, <2>2
<1> QED
  BY <1>2, <1>3, <1>4, <1>5, <1>6, <1>7

-----------------------------------------------------------------------------
\* The array of the right type for each type registered.
LEMMA FactoryMakes ==
  ASSUME FactoriesMatch, NEW e \in Stores, NEW t \in FirstTypes(Len(descriptors[e]))
  PROVE  Create(e, t) = {t}
<1>1. factoryFunctions[e] = [u \in FirstTypes(Len(descriptors[e])) |-> u]
  BY DEF FactoriesMatch
<1> QED
  BY <1>1 DEF Create

\* In a state of the invariant lists are sets.
LEMMA ListIInvSets ==
  ASSUME ListIInv
  PROVE  ListsAreSets
<1>1. ub = FALSE /\ RegistryIInv /\ ArchetypesAreSets /\ FactoriesMatch
  BY DEF ListIInv
<1> SUFFICES ASSUME NEW e \in Stores, NEW list \in archetypes[e]
             PROVE  LET held == Denoted(e, list)
                    IN  /\ held \subseteq ClientTypes(e) /\ CalcTypeCount(list) = Cardinality(held)
                        /\ \A t \in held : Create(e, t) = {t}
                        /\ \A other \in archetypes[e] : Denoted(e, other) = held => list = other
                        /\ QueriesExact(e, list, held) /\ AnswersAgree(e, list, held)
  BY <1>1 DEF ListsAreSets
<1>2. PICK n : n = Len(descriptors[e])
  OBVIOUS
<1>3. n \in 0 .. Len(Order) /\ ClientTypes(e) = FirstClientTypes(n)
      /\ FirstClientTypes(n) \subseteq FirstTypes(n)
  BY <1>1, <1>2, RegistryFacts, ClientsFirst
<1>4. PICK ts \in SUBSET FirstClientTypes(n) : list = SetList(n, ts)
  BY <1>1, <1>2 DEF ArchetypesAreSets
<1>5. \A us \in SUBSET FirstTypes(n) : Denoted(e, SetList(n, us)) = us
  BY <1>1, <1>2, ListIs
<1>6. ts \in SUBSET FirstTypes(n)
  BY <1>3
<1>7. Denoted(e, list) = ts
  BY <1>4, <1>5, <1>6
<1>8. CalcTypeCount(list) = Cardinality(ts)
  BY <1>3, <1>4, <1>6, CountOfSet
<1>9. \A t \in ts : Create(e, t) = {t}
  BY <1>1, <1>2, <1>6, FactoryMakes
<1>10. ASSUME NEW other \in archetypes[e], Denoted(e, other) = ts
       PROVE  list = other
  <2>1. PICK us \in SUBSET FirstClientTypes(n) : other = SetList(n, us)
    BY <1>1, <1>2 DEF ArchetypesAreSets
  <2>2. us = ts
    BY <1>3, <1>5, <1>10, <2>1
  <2> QED
    BY <1>4, <2>1, <2>2
<1>11. QueriesExact(e, list, ts) /\ AnswersAgree(e, list, ts)
  BY <1>1, <1>2, <1>4, <1>6, QueriesAreSets, AnswersAreSets
<1> QED
  BY <1>3, <1>4, <1>7, <1>8, <1>9, <1>10, <1>11

\* No Ecs has types yet.
LEMMA ListInitOK ==
  ASSUME RegistryInit
  PROVE  ListIInv
<1>1. RegistryIInv
  BY RegistryInitOK
<1>2. \A e \in Stores : Len(descriptors[e]) = 0
  BY DEF RegistryInit
<1>3. FirstTypes(0) = {}
  BY DEF FirstTypes
<1>4. FactoriesMatch
  <2>1. << >> = [t \in {} |-> t]
    OBVIOUS
  <2> QED
    BY <1>2, <1>3, <2>1 DEF FactoriesMatch, RegistryInit
<1> QED
  BY <1>1, <1>4 DEF RegistryInit, ListIInv, ArchetypesAreSets

\* Ecs::registerType widens no list that there is, and tells the factory of the
\* type.
LEMMA RegisterListOK ==
  ASSUME ListIInv, NEW e \in Stores, NEW t \in Range(Order), RegisterType(e, t)
  PROVE  ListIInv'
<1>1. ub = FALSE /\ RegistryIInv /\ ArchetypesAreSets /\ FactoriesMatch
  BY DEF ListIInv
<1> DEFINE n == Len(descriptors[e])
<1>2. RegistryIInv'
  BY <1>1, RegisterTypeOK
<1>3. n \in Nat /\ t = Order[n + 1] /\ (archetypes[e] # {} => Width(n + 1) = Width(n))
      /\ descriptors[e] \in Seq(Range(Order))
  BY <1>1, RegistryFacts DEF RegisterType, MayRegister
<1>4. GetTypeId(e, t) = {}
  <2>1. IndexOnceAsked(e, t) = n
    <3>1. n + 1 \in 1 .. Len(Order)
      BY <1>3, OrderFacts DEF RegisterType, MayRegister
    <3> QED
      BY <1>1, <1>3, <3>1 DEF IndexOnceAsked, RegistryIInv, IndicesByOrder
  <2> QED
    BY <1>3, <2>1 DEF GetTypeId
<1>5. /\ descriptors' = [descriptors EXCEPT ![e] = Append(@, t)]
      /\ factoryFunctions' =
           [factoryFunctions EXCEPT ![e] = [u \in DOMAIN @ \cup {t} |-> IF u = t THEN t ELSE @[u]]]
      /\ archetypes' = archetypes /\ ub' = ub
  BY <1>4 DEF RegisterType, AddFactoryFunction
<1>6. descriptors = [x \in Stores |-> descriptors[x]]
  BY <1>1 DEF RegistryIInv
<1>7. /\ descriptors'[e] = Append(descriptors[e], t)
      /\ \A x \in Stores : x # e => descriptors'[x] = descriptors[x]
  BY <1>5, <1>6
<1>8. Len(descriptors'[e]) = n + 1
  BY <1>3, <1>7
<1> HIDE DEF n
<1>9. FirstTypes(n + 1) = FirstTypes(n) \cup {t}
  BY <1>3 DEF FirstTypes
<1>10. FirstClientTypes(n) \subseteq FirstClientTypes(n + 1)
  BY <1>3, RegistryAssumption DEF FirstClientTypes
<1>11. FactoriesMatch'
  <2>1. factoryFunctions[e] = [u \in FirstTypes(n) |-> u]
    BY <1>1 DEF FactoriesMatch, n
  <2> DEFINE old == factoryFunctions[e]
  <2>2. [u \in DOMAIN old \cup {t} |-> IF u = t THEN t ELSE old[u]] = [u \in FirstTypes(n + 1) |-> u]
    BY <1>9, <2>1
  <2>3. factoryFunctions' = [x \in Stores |-> IF x = e THEN [u \in FirstTypes(n + 1) |-> u]
                                                       ELSE factoryFunctions[x]]
    <3>1. factoryFunctions = [x \in Stores |-> factoryFunctions[x]]
      BY <1>1 DEF FactoriesMatch
    <3> QED
      BY <1>5, <2>1, <2>2, <3>1
  <2>4. ASSUME NEW x \in Stores
        PROVE  factoryFunctions'[x] = [u \in FirstTypes(Len(descriptors'[x])) |-> u]
    <3>1. CASE x = e
      BY <1>8, <2>3, <3>1
    <3>2. CASE x # e
      BY <1>1, <1>7, <2>3, <3>2 DEF FactoriesMatch
    <3> QED
      BY <3>1, <3>2
  <2> QED
    BY <2>3, <2>4 DEF FactoriesMatch
<1>12. ArchetypesAreSets'
  <2> SUFFICES ASSUME NEW x \in Stores, NEW list \in archetypes[x]
               PROVE  \E ts \in SUBSET FirstClientTypes(Len(descriptors'[x])) :
                        list = SetList(Len(descriptors'[x]), ts)
    BY <1>1, <1>5 DEF ArchetypesAreSets
  <2>1. PICK ts \in SUBSET FirstClientTypes(Len(descriptors[x])) : list = SetList(Len(descriptors[x]), ts)
    BY <1>1 DEF ArchetypesAreSets
  <2>2. CASE x = e
    <3>1. ts \in SUBSET FirstClientTypes(n) /\ list = SetList(n, ts)
      BY <2>1, <2>2 DEF n
    <3>2. SetList(n + 1, ts) = SetList(n, ts)
      <4>1. Width(n + 1) = Width(n)
        BY <1>3, <2>2
      <4> QED
        BY <4>1 DEF SetList
    <3> QED
      BY <1>8, <1>10, <2>2, <3>1, <3>2
  <2>3. CASE x # e
    BY <1>7, <2>1, <2>3
  <2> QED
    BY <2>2, <2>3
<1> QED
  BY <1>1, <1>2, <1>5, <1>11, <1>12 DEF ListIInv

\* Ecs::createArchetype for the list of a set of types.
LEMMA CreateArchetypeOK ==
  ASSUME ListIInv, NEW e \in Stores, NEW ts \in SUBSET FirstClientTypes(Len(descriptors[e])),
         NEW list, list = SetList(Len(descriptors[e]), ts), CreateArchetype(e, list)
  PROVE  ListIInv'
<1>1. RegistryIInv /\ ArchetypesAreSets /\ FactoriesMatch
  BY DEF ListIInv
<1>2. /\ archetypes' = [archetypes EXCEPT ![e] = @ \cup {list}]
      /\ descriptors' = descriptors /\ typeIndex' = typeIndex /\ factoryFunctions' = factoryFunctions
      /\ ub' = (\E i \in list.bits : ~InField(list, i))
  BY DEF CreateArchetype
<1>3. ub' = FALSE
  <2>1. PICK n : n = Len(descriptors[e])
    OBVIOUS
  <2>2. n \in 0 .. Len(Order) /\ ts \in SUBSET FirstTypes(n)
    BY <1>1, <2>1, RegistryFacts, ClientsFirst
  <2>3. \A i \in BitsOf(ts) : InField(SetList(n, ts), i)
    BY ONLY <2>2, SetOperations
  <2>4. \A i \in list.bits : InField(list, i)
    BY <2>1, <2>3 DEF SetList
  <2>5. ~ \E i \in list.bits : ~InField(list, i)
    BY <2>4
  <2> QED
    BY <1>2, <2>5, Zenon
<1>4. RegistryIInv'
  BY <1>1, <1>2 DEF RegistryIInv, PrefixesAsked, IndicesByOrder
<1>5. ArchetypesAreSets'
  <2>1. archetypes' = [x \in Stores |-> IF x = e THEN archetypes[e] \cup {list} ELSE archetypes[x]]
    BY <1>1, <1>2 DEF ArchetypesAreSets
  <2>2. ASSUME NEW x \in Stores, NEW other \in archetypes'[x]
        PROVE  \E us \in SUBSET FirstClientTypes(Len(descriptors[x])) :
                 other = SetList(Len(descriptors[x]), us)
    <3>1. CASE other \in archetypes[x]
      BY <1>1, <3>1 DEF ArchetypesAreSets
    <3>2. CASE other \notin archetypes[x]
      <4>1. x = e /\ other = list
        BY <2>1, <3>2
      <4> QED
        BY <4>1
    <3> QED
      BY <3>1, <3>2
  <2> QED
    BY <1>2, <2>1, <2>2 DEF ArchetypesAreSets
<1>6. FactoriesMatch'
  BY <1>1, <1>2 DEF FactoriesMatch
<1> QED
  BY <1>3, <1>4, <1>5, <1>6 DEF ListIInv

\* Every operation that makes an archetype gives it the list of a set of types.
LEMMA ListStepOK ==
  ASSUME ListIInv, [Next]_vars
  PROVE  ListIInv'
<1>1. ub = FALSE /\ RegistryIInv /\ ArchetypesAreSets /\ FactoriesMatch
  BY DEF ListIInv
<1>2. CASE UNCHANGED registryVars
  BY <1>1, <1>2 DEF registryVars, ListIInv, RegistryIInv, PrefixesAsked, IndicesByOrder,
                    ArchetypesAreSets, FactoriesMatch
<1>3. ASSUME NEW e \in Stores, NEW t \in Range(Order), RegisterType(e, t)
      PROVE  ListIInv'
  BY <1>3, RegisterListOK
<1>4. ASSUME NEW e \in Stores
      PROVE  /\ ClientTypes(e) = FirstClientTypes(Len(descriptors[e]))
             /\ Len(descriptors[e]) \in 0 .. Len(Order)
             /\ FirstClientTypes(Len(descriptors[e])) \subseteq FirstTypes(Len(descriptors[e]))
  BY <1>1, RegistryFacts, ClientsFirst
<1>5. ASSUME NEW e \in Stores, NEW ts \in SUBSET ClientTypes(e), CreateEntity(e, ts)
      PROVE  ListIInv'
  <2>1. ts \in SUBSET FirstClientTypes(Len(descriptors[e]))
    BY <1>4
  <2>2. ListOf(e, ts) = SetList(Len(descriptors[e]), ts)
    BY <1>1, <1>4, <2>1, ListIs
  <2> QED
    BY <1>5, <2>1, <2>2, CreateArchetypeOK DEF CreateEntity
<1>6. ASSUME NEW e \in Stores, NEW list \in archetypes[e], NEW t \in ClientTypes(e),
             AddComponent(e, list, t)
      PROVE  ListIInv'
  <2>1. PICK n : n = Len(descriptors[e])
    OBVIOUS
  <2>2. PICK held \in SUBSET FirstClientTypes(n) : list = SetList(n, held)
    BY <1>1, <2>1 DEF ArchetypesAreSets
  <2>3. held \cup {t} \in SUBSET FirstClientTypes(n)
    BY <1>4, <2>1
  <2>4. WithTypes(e, list, {t}) = SetList(n, held \cup {t})
    <3>1. {t} \in SUBSET FirstTypes(n)
      BY <1>4, <2>1
    <3>2. PICK more : more = SetList(n, held \cup {t})
      OBVIOUS
    <3>3. WithTypes(e, list, {t}) = more
      BY <1>1, <2>1, <2>2, <3>1, <3>2, TypesAdded
    <3> QED
      BY <3>2, <3>3
  <2> QED
    BY <1>6, <2>1, <2>3, <2>4, CreateArchetypeOK DEF AddComponent
<1>7. ASSUME NEW e \in Stores, NEW list \in archetypes[e], NEW ts \in SUBSET ClientTypes(e),
             DeleteComponents(e, list, ts)
      PROVE  ListIInv'
  <2>1. PICK n : n = Len(descriptors[e])
    OBVIOUS
  <2>2. PICK held \in SUBSET FirstClientTypes(n) : list = SetList(n, held)
    BY <1>1, <2>1 DEF ArchetypesAreSets
  <2>3. held \ ts \in SUBSET FirstClientTypes(n)
    OBVIOUS
  <2>4. n \in 0 .. Len(Order) /\ held \in SUBSET FirstTypes(n) /\ ts \in SUBSET FirstTypes(n)
    BY <1>4, <2>1
  <2>5. ListOf(e, ts) = SetList(n, ts)
    BY <1>1, <2>1, <2>4, ListIs
  <2>6. DeleteList(SetList(n, held), SetList(n, ts)) = SetList(n, held \ ts)
    BY ONLY <2>4, SetOperations
  <2> QED
    BY <1>7, <2>1, <2>2, <2>3, <2>5, <2>6, CreateArchetypeOK DEF DeleteComponents
<1> QED
  BY <1>2, <1>3, <1>5, <1>6, <1>7 DEF Next, RegistryNext, vars

\* Lists of types, bit fields of a fixed width, behave as sets of types although
\* types are registered while there are archetypes: no bit falls outside a field,
\* equal sets have equal lists, and queries and lists are answered as sets would
\* be, for any number of types and Ecs objects: ListsAreSets, of typeIdList,
\* typeQueryList and registerType.
THEOREM ListsAreSetsOfTypes == Spec => []ListsAreSets
<1>1. Init => ListIInv
  BY ListInitOK DEF Init
<1>2. ListIInv /\ [Next]_vars => ListIInv'
  BY ListStepOK
<1>3. ListIInv => ListsAreSets
  BY ListIInvSets
<1> QED
  BY <1>1, <1>2, <1>3, PTL DEF Spec

-----------------------------------------------------------------------------
\* The layout of a chunk.  The function that the fold of Placed defines:
FirstArray(capacity) == <<0, IdSize * capacity, 1>>

IsPlaced(it, D, types, capacity) ==
  it = [s \in SUBSET D |->
          IF s = {} THEN <<FirstArray(capacity)>>
          ELSE Place(capacity, it[s \ {Max(s)}], types[Max(s)])]

\* Placed is a value of that function.
LEMMA PlacedIter ==
  ASSUME NEW types
  PROVE  Placed(types) =
           (CHOOSE it : IsPlaced(it, DOMAIN types, types, EntityCapacity(types)))[DOMAIN types]
BY DEF Placed, FoldLeft, MapThenFoldSet, IsPlaced, FirstArray

\* The function exists for every list of types.
LEMMA PlacedExists ==
  ASSUME NEW n \in Nat, NEW types, NEW capacity
  PROVE  \E it : IsPlaced(it, 1 .. n, types, capacity)
<1> DEFINE T == {k \in 0 .. n : \E it : IsPlaced(it, 1 .. k, types, capacity)}
<1>1. 0 \in T
  <2> DEFINE it == [s \in SUBSET (1 .. 0) |-> <<FirstArray(capacity)>>]
  <2>1. 1 .. 0 = {}
    OBVIOUS
  <2>2. IsPlaced(it, 1 .. 0, types, capacity)
    BY <2>1 DEF IsPlaced
  <2> QED
    BY <2>2
<1>2. ASSUME NEW k \in 0 .. n - 1, k \in T PROVE k + 1 \in T
  <2>1. PICK h : IsPlaced(h, 1 .. k, types, capacity)
    BY <1>2
  <2> DEFINE it == [s \in SUBSET (1 .. k + 1) |->
                      IF k + 1 \in s THEN Place(capacity, h[s \ {k + 1}], types[k + 1]) ELSE h[s]]
  <2>2. ASSUME NEW s \in SUBSET (1 .. k + 1)
        PROVE  it[s] = IF s = {} THEN <<FirstArray(capacity)>>
                       ELSE Place(capacity, it[s \ {Max(s)}], types[Max(s)])
    <3>1. CASE k + 1 \in s
      <4>1. Max(s) = k + 1
        <5>1. k \in Nat /\ s \subseteq 1 .. k + 1
          OBVIOUS
        <5> HIDE DEF it, T
        <5> QED BY <3>1, <5>1, MaxOfTop
      <4>2. s \ {k + 1} \in SUBSET (1 .. k + 1) /\ k + 1 \notin s \ {k + 1} /\ s # {}
        BY <3>1
      <4>3. it[s \ {k + 1}] = h[s \ {k + 1}]
        BY <4>2
      <4> QED
        BY <3>1, <4>1, <4>2, <4>3
    <3>2. CASE k + 1 \notin s
      <4>1. s \in SUBSET (1 .. k)
        BY <3>2
      <4>2. h[s] = IF s = {} THEN <<FirstArray(capacity)>>
                   ELSE Place(capacity, h[s \ {Max(s)}], types[Max(s)])
        BY <2>1, <4>1 DEF IsPlaced
      <4>3. \A r \in SUBSET (1 .. k + 1) : k + 1 \notin r => it[r] = h[r]
        OBVIOUS
      <4>4. s \ {Max(s)} \in SUBSET (1 .. k + 1) /\ k + 1 \notin s \ {Max(s)}
        BY <3>2
      <4>5. it[s] = h[s] /\ it[s \ {Max(s)}] = h[s \ {Max(s)}]
        <5> HIDE DEF it
        <5> QED BY <3>2, <4>3, <4>4
      <4> QED
        BY <4>2, <4>5
    <3> QED
      BY <3>1, <3>2
  <2>3. IsPlaced(it, 1 .. k + 1, types, capacity)
    BY <2>2 DEF IsPlaced
  <2> QED
    BY <2>3
<1>3. \A k \in 0 .. n : k \in T
  <2> HIDE DEF T
  <2> QED BY <1>1, <1>2, UpTo
<1> QED
  BY <1>3

\* The arrays of the first k types, for each k up to n.
PlacedUpTo(P, n, types, capacity) ==
  /\ P[0] = <<FirstArray(capacity)>>
  /\ \A k \in 0 .. n - 1 : P[k + 1] = Place(capacity, P[k], types[k + 1])

\* Placed, type by type.
LEMMA PlacedStepByStep ==
  ASSUME NEW n \in Nat, NEW types, DOMAIN types = 1 .. n
  PROVE  \E P : PlacedUpTo(P, n, types, EntityCapacity(types)) /\ Placed(types) = P[n]
<1>1. PICK capacity : capacity = EntityCapacity(types)
  OBVIOUS
<1> DEFINE it == CHOOSE it : IsPlaced(it, 1 .. n, types, capacity)
           P  == [k \in 0 .. n |-> it[1 .. k]]
<1>2. IsPlaced(it, 1 .. n, types, capacity)
  BY PlacedExists
<1>3. Placed(types) = it[1 .. n]
  BY <1>1, PlacedIter
<1> HIDE DEF it
<1>4. \A s \in SUBSET (1 .. n) :
        it[s] = IF s = {} THEN <<FirstArray(capacity)>>
                ELSE Place(capacity, it[s \ {Max(s)}], types[Max(s)])
  BY <1>2 DEF IsPlaced
<1>5. it[1 .. 0] = <<FirstArray(capacity)>>
  <2>1. 1 .. 0 = {}
    OBVIOUS
  <2> QED BY <1>4, <2>1
<1>6. ASSUME NEW k \in 0 .. n - 1
      PROVE  it[1 .. k + 1] = Place(capacity, it[1 .. k], types[k + 1])
  <2>1. 1 .. k + 1 \in SUBSET (1 .. n) /\ k \in Nat
    OBVIOUS
  <2>2. Max(1 .. k + 1) = k + 1 /\ (1 .. k + 1) \ {k + 1} = 1 .. k /\ 1 .. k + 1 # {}
    BY <2>1, MaxOfInterval
  <2> QED
    BY <1>4, <2>1, <2>2
<1>7. P[0] = <<FirstArray(capacity)>> /\ P[n] = it[1 .. n]
  BY <1>5
<1>8. ASSUME NEW k \in 0 .. n - 1
      PROVE  P[k + 1] = Place(capacity, P[k], types[k + 1])
  <2>1. P[k] = it[1 .. k] /\ P[k + 1] = it[1 .. k + 1]
    OBVIOUS
  <2> HIDE DEF P
  <2> QED BY <1>6, <2>1
<1> HIDE DEF P
<1>9. PlacedUpTo(P, n, types, capacity)
  BY <1>7, <1>8 DEF PlacedUpTo
<1> QED
  BY <1>1, <1>3, <1>7, <1>9


\* Arithmetic of the offsets: the next multiple of an alignment.
LEMMA AlignedIs ==
  ASSUME NEW offset \in Nat, NEW a \in Nat \ {0}
  PROVE  /\ Aligned(offset, a) \in Nat /\ Aligned(offset, a) % a = 0
         /\ offset <= Aligned(offset, a) /\ Aligned(offset, a) <= offset + a
<1>1. PICK q \in Nat, r \in 0 .. a - 1 : offset = q * a + r
  <2>1. offset \div a \in Nat /\ offset % a \in 0 .. a - 1
    OBVIOUS
  <2>2. offset = (offset \div a) * a + (offset % a)
    OBVIOUS
  <2> QED BY <2>1, <2>2
<1>2. \A p \in Nat, x \in 0 .. a - 1 : (p * a + x) % a = x
  OBVIOUS
<1>3. offset % a = r
  BY <1>1, <1>2
<1>4. CASE r = 0
  <2>1. (1 * a + 0) % a = 0
    BY <1>2
  <2>2. (a - r) % a = 0
    BY <1>4, <2>1
  <2> QED
    BY <1>3, <1>4, <2>2 DEF Aligned
<1>5. CASE r # 0
  <2>1. (0 * a + (a - r)) % a = a - r
    BY <1>2, <1>5
  <2>2. (a - r) % a = a - r
    BY <2>1
  <2>3. Aligned(offset, a) = (q + 1) * a + 0
    BY <1>1, <1>3, <2>2 DEF Aligned
  <2>4. ((q + 1) * a + 0) % a = 0
    BY <1>2
  <2> QED
    BY <1>1, <1>3, <2>2, <2>3, <2>4 DEF Aligned
<1> QED
  BY <1>4, <1>5

\* Arrays one behind the other, each aligned.
Laid(arrays) ==
  /\ arrays \in Seq(Nat \X Nat \X (Nat \ {0})) /\ Len(arrays) >= 1
  /\ \A i \in DOMAIN arrays : /\ arrays[i][1] % arrays[i][3] = 0
                              /\ arrays[i][2] <= arrays[Len(arrays)][2]
  /\ \A i \in 2 .. Len(arrays) : arrays[i - 1][2] <= arrays[i][1]

\* They end at a byte.
LEMMA LaidEnd ==
  ASSUME NEW arrays, Laid(arrays)
  PROVE  arrays[Len(arrays)][2] \in Nat
<1>1. Len(arrays) \in DOMAIN arrays
  BY DEF Laid
<1>2. arrays[Len(arrays)] \in Nat \X Nat \X (Nat \ {0})
  BY <1>1 DEF Laid
<1> QED
  BY <1>2

\* The elements that a chunk has of a type.
Elements(capacity, t) == IF t.shared THEN 1 ELSE capacity

\* One more array is laid behind the others, and needs its size and the padding.
LEMMA PlaceIs ==
  ASSUME NEW capacity \in Nat, NEW t \in Shapes, NEW arrays, Laid(arrays)
  PROVE  LET more == Place(capacity, arrays, t)
         IN  /\ Laid(more)
             /\ more[Len(more)][2] <=
                  arrays[Len(arrays)][2] + MaxAlign + t.size * Elements(capacity, t)
<1>1. /\ t.size \in Nat /\ t.alignment \in 1 .. MaxAlign /\ t.shared \in BOOLEAN
      /\ MaxAlign \in Nat
  BY LayoutAssumption
<1> DEFINE n     == Len(arrays)
           first == Aligned(arrays[n][2], t.alignment)
           bytes == t.size * Elements(capacity, t)
           array == <<first, first + bytes, t.alignment>>
<1>2. /\ n \in Nat /\ n >= 1 /\ arrays[n] \in Nat \X Nat \X (Nat \ {0})
      /\ Last(arrays) = arrays[n]
  BY DEF Laid, Last
<1>3. bytes \in Nat
  <2>1. \A x, y \in Nat : x * y \in Nat
    OBVIOUS
  <2> QED BY <1>1, <2>1 DEF Elements
<1>4. CASE t.size = 0
  <2>1. Place(capacity, arrays, t) = arrays
    BY <1>4 DEF Place
  <2> QED
    BY <1>1, <1>2, <1>3, <2>1
<1>5. CASE t.size # 0
  <2>1. PICK more : more = Place(capacity, arrays, t)
    OBVIOUS
  <2>2. more = Append(arrays, array)
    BY <1>2, <1>5, <2>1 DEF Place, Elements
  <2>3. /\ first \in Nat /\ first % t.alignment = 0
        /\ arrays[n][2] <= first /\ first <= arrays[n][2] + t.alignment
    <3>1. PICK y : y = arrays[n][2]
      OBVIOUS
    <3>2. y \in Nat /\ t.alignment \in Nat \ {0}
      BY <1>1, <1>2, <3>1
    <3>3. first = Aligned(y, t.alignment)
      BY <3>1
    <3> HIDE DEF first
    <3> QED BY <3>1, <3>2, <3>3, AlignedIs
  <2>4. PICK x : x = array
    OBVIOUS
  <2>5. x \in Nat \X Nat \X (Nat \ {0}) /\ x[1] = first /\ x[2] = first + bytes /\ x[3] = t.alignment
    BY <1>1, <1>3, <2>3, <2>4
  <2> HIDE DEF array, first, bytes
  <2>6. more = Append(arrays, x)
    BY <2>2, <2>4
  <2>7. /\ more \in Seq(Nat \X Nat \X (Nat \ {0})) /\ Len(more) = n + 1 /\ more[n + 1] = x
        /\ \A i \in 1 .. n : more[i] = arrays[i]
    BY <2>5, <2>6 DEF Laid
  <2>8. ASSUME NEW i \in DOMAIN more
        PROVE  more[i][1] % more[i][3] = 0 /\ more[i][2] <= more[Len(more)][2]
    <3>1. CASE i \in 1 .. n
      <4>1. /\ arrays[i][1] % arrays[i][3] = 0 /\ arrays[i][2] <= arrays[n][2]
            /\ arrays[i] \in Nat \X Nat \X (Nat \ {0})
        BY <3>1 DEF Laid
      <4>2. arrays[i][2] \in Nat /\ arrays[n][2] \in Nat
        BY <1>2, <4>1
      <4>3. more[i] = arrays[i] /\ more[Len(more)] = x
        BY <2>7, <3>1
      <4>4. arrays[i][2] <= x[2]
        BY <1>3, <2>3, <2>5, <4>1, <4>2
      <4> QED BY <4>1, <4>3, <4>4
    <3>2. CASE i = n + 1
      <4>1. more[i] = x /\ more[Len(more)] = x
        BY <2>7, <3>2
      <4>2. x[1] % x[3] = 0 /\ x[2] <= x[2]
        BY <1>3, <2>3, <2>5
      <4> QED BY <4>1, <4>2
    <3> QED
      <4>1. DOMAIN more = 1 .. n + 1
        BY <2>7
      <4> QED BY <1>2, <3>1, <3>2, <4>1
  <2>9. ASSUME NEW i \in 2 .. Len(more) PROVE more[i - 1][2] <= more[i][1]
    <3>1. CASE i \in 2 .. n
      <4>1. arrays[i - 1][2] <= arrays[i][1]
        BY <3>1 DEF Laid
      <4>2. i \in 1 .. n /\ i - 1 \in 1 .. n
        BY <3>1
      <4> QED BY <2>7, <4>1, <4>2
    <3>2. CASE i = n + 1
      <4>1. more[i - 1] = arrays[n] /\ more[i] = x
        BY <1>2, <2>7, <3>2
      <4> QED BY <2>3, <2>5, <4>1
    <3> QED
      BY <1>2, <2>7, <3>1, <3>2
  <2>10. more[Len(more)][2] <= arrays[n][2] + MaxAlign + bytes
    <3>1. arrays[n][2] \in Nat /\ more[Len(more)][2] = first + bytes
      BY <1>2, <2>5, <2>7
    <3>2. t.alignment \in Nat /\ t.alignment <= MaxAlign /\ MaxAlign \in Nat
      BY <1>1
    <3>3. first + bytes <= arrays[n][2] + MaxAlign + bytes
      <4>1. \A p, q, z, w, m \in Nat : q <= p + z /\ z <= m => q + w <= p + m + w
        OBVIOUS
      <4>2. first \in Nat /\ bytes \in Nat /\ first <= arrays[n][2] + t.alignment
        BY <1>3, <2>3
      <4> QED BY ONLY <3>1, <3>2, <4>1, <4>2
    <3> QED BY ONLY <3>1, <3>3
  <2>11. Laid(more)
    BY <1>2, <2>7, <2>8, <2>9 DEF Laid
  <2> QED
    BY <2>1, <2>10, <2>11 DEF bytes
<1> QED
  BY <1>1, <1>4, <1>5

\* Integer division takes no more than there is, and rounds towards zero.
LEMMA CapacityFits ==
  ASSUME NEW types, NEW worst \in Int, NEW size \in Nat \ {0},
         WorstCaseCapacity(types) = worst, EntitySize(types) = size, EntityCapacity(types) >= 1
  PROVE  EntityCapacity(types) \in Nat /\ EntityCapacity(types) * size <= worst
<1>1. \A x \in Nat : x \div size \in Nat /\ (x \div size) * size <= x
  OBVIOUS
<1>2. CASE worst >= 0
  <2>1. worst \in Nat /\ EntityCapacity(types) = worst \div size
    BY <1>2 DEF EntityCapacity
  <2> QED BY <1>1, <2>1
<1>3. CASE ~ worst >= 0
  <2>1. - worst \in Nat
    BY <1>3
  <2>2. PICK x \in Nat : x = (- worst) \div size
    BY <1>1, <2>1
  <2>3. EntityCapacity(types) = - x
    BY <1>3, <2>2 DEF EntityCapacity
  <2> QED BY <2>2, <2>3
<1> QED
  BY <1>2, <1>3

\* What the first arrays take: the ids, and of each type its elements and padding.
LEMMA ArraysEnd ==
  ASSUME NEW types \in Seq(Shapes), NEW capacity \in Nat, NEW P, NEW U, NEW S,
         PlacedUpTo(P, Len(types), types, capacity),
         U \in [0 .. Len(types) -> Nat], U[0] = 0,
         \A k \in 0 .. Len(types) - 1 :
           U[k + 1] = U[k] + (IF types[k + 1].shared = FALSE THEN types[k + 1].size ELSE 0),
         S \in [0 .. Len(types) -> Nat], S[0] = 0,
         \A k \in 0 .. Len(types) - 1 :
           S[k + 1] = S[k] + (IF types[k + 1].shared = TRUE THEN types[k + 1].size ELSE 0)
  PROVE  \A k \in 0 .. Len(types) :
           /\ Laid(P[k])
           /\ P[k][Len(P[k])][2] <= IdSize * capacity + MaxAlign * k + S[k] + U[k] * capacity
<1>1. PICK n \in Nat : n = Len(types)
  OBVIOUS
<1>2. PICK c \in Nat : c = capacity
  OBVIOUS
<1>3. \A x, y \in Nat : x * y \in Nat
  OBVIOUS
<1>4. IdSize \in Nat /\ MaxAlign \in Nat
  BY LayoutAssumption
<1> DEFINE End(k)   == P[k][Len(P[k])][2]
           Bound(k) == IdSize * c + MaxAlign * k + S[k] + U[k] * c
           T == {k \in 0 .. n : Laid(P[k]) /\ End(k) <= Bound(k)}
<1>5. 0 \in T
  <2>1. PICK x : x = IdSize * c
    OBVIOUS
  <2>2. x \in Nat
    BY <1>3, <1>4, <2>1
  <2>3. P[0] = << <<0, x, 1>> >>
    BY <1>2, <2>1 DEF PlacedUpTo, FirstArray
  <2>4. Laid(P[0]) /\ End(0) = x
    BY <2>2, <2>3 DEF Laid
  <2>5. Bound(0) = x + MaxAlign * 0 + 0 + 0 * c
    BY <2>1
  <2>6. Bound(0) = x
    BY <1>4, <2>2, <2>5
  <2>7. Laid(P[0]) /\ End(0) <= Bound(0) /\ 0 \in 0 .. n
    BY <2>2, <2>4, <2>6
  <2> HIDE DEF End, Bound
  <2> QED
    BY <2>7
<1>6. ASSUME NEW k \in 0 .. n - 1, k \in T PROVE k + 1 \in T
  <2>1. PICK t \in Shapes : t = types[k + 1]
    BY <1>1
  <2>2. t.size \in Nat /\ t.shared \in BOOLEAN
    BY LayoutAssumption
  <2>3. Laid(P[k]) /\ End(k) <= Bound(k)
    BY <1>6
  <2>4. P[k + 1] = Place(c, P[k], t)
    BY <1>1, <1>2, <2>1 DEF PlacedUpTo
  <2>5. Laid(P[k + 1]) /\ End(k + 1) <= End(k) + MaxAlign + t.size * Elements(c, t)
    BY <2>3, <2>4, PlaceIs
  <2>6. End(k) \in Nat /\ End(k + 1) \in Nat
    BY <2>3, <2>5, LaidEnd
  <2>7. PICK u \in Nat, s \in Nat : u = U[k] /\ s = S[k]
    BY <1>1
  <2>8. /\ U[k + 1] = u + (IF t.shared = FALSE THEN t.size ELSE 0)
        /\ S[k + 1] = s + (IF t.shared = TRUE THEN t.size ELSE 0)
    BY <1>1, <2>1, <2>7
  <2>9. PICK a \in Nat, z \in Nat : a = MaxAlign /\ z = t.size
    BY <1>4, <2>2
  <2>10. PICK i \in Nat : i = IdSize * c
    BY <1>3, <1>4
  <2>11. Bound(k) = i + a * k + s + u * c
    BY <2>7, <2>9, <2>10
  <2>12. Bound(k + 1) = i + a * (k + 1) + S[k + 1] + U[k + 1] * c
    BY <2>9, <2>10
  <2>13. k \in Nat /\ a * (k + 1) = a * k + a
    BY <2>9
  <2>14. Bound(k + 1) = Bound(k) + a + z * Elements(c, t)
    <3> HIDE DEF Bound, End, T
    <3>1. CASE t.shared = TRUE
      <4>1. S[k + 1] = s + z /\ U[k + 1] = u /\ Elements(c, t) = 1
        BY <2>8, <2>9, <3>1 DEF Elements
      <4>2. PICK ak \in Nat, uc \in Nat : ak = a * k /\ uc = u * c
        BY <1>3, <2>13
      <4> QED
        BY <2>11, <2>12, <2>13, <4>1, <4>2
    <3>2. CASE t.shared = FALSE
      <4>1. S[k + 1] = s /\ U[k + 1] = u + z /\ Elements(c, t) = c
        BY <2>8, <2>9, <3>2 DEF Elements
      <4>2. PICK ak \in Nat, uc \in Nat, zc \in Nat : ak = a * k /\ uc = u * c /\ zc = z * c
        BY <1>3, <2>13
      <4>3. (u + z) * c = uc + zc
        BY <4>2
      <4> QED
        BY <2>11, <2>12, <2>13, <4>1, <4>2, <4>3
    <3> QED
      BY <2>2, <3>1, <3>2
  <2>15. z * Elements(c, t) \in Nat /\ Bound(k) \in Nat
    <3>1. Elements(c, t) \in Nat
      BY DEF Elements
    <3>2. PICK ak \in Nat, uc \in Nat, zc \in Nat : ak = a * k /\ uc = u * c /\ zc = z * Elements(c, t)
      <4>1. a * k \in Nat /\ u * c \in Nat /\ z * Elements(c, t) \in Nat
        BY ONLY <1>3, <2>13, <3>1, a \in Nat, u \in Nat, c \in Nat, z \in Nat
      <4> QED BY ONLY <4>1
    <3> HIDE DEF Bound, End, T
    <3>3. Bound(k) = i + ak + s + uc
      BY <2>11, <3>2
    <3>4. i + ak + s + uc \in Nat
      BY ONLY i \in Nat, ak \in Nat, s \in Nat, uc \in Nat
    <3>5. z * Elements(c, t) \in Nat
      BY ONLY zc \in Nat, <3>2
    <3> QED
      BY ONLY <3>3, <3>4, <3>5
  <2>16. End(k + 1) <= Bound(k + 1)
    <3>1. PICK zc \in Nat : zc = z * Elements(c, t)
      BY <2>15
    <3>2. End(k + 1) <= End(k) + a + zc
      BY <2>5, <2>9, <3>1
    <3> HIDE DEF Bound, End, T
    <3>3. Bound(k + 1) = Bound(k) + a + zc
      BY <2>14, <3>1
    <3> QED
      BY <2>3, <2>6, <2>15, <3>2, <3>3
  <2>17. k + 1 \in 0 .. n
    OBVIOUS
  <2> HIDE DEF Bound, End
  <2> QED
    BY <2>5, <2>16, <2>17
<1>7. \A k \in 0 .. n : k \in T
  <2> HIDE DEF T
  <2> QED BY <1>5, <1>6, UpTo
<1> QED
  BY <1>1, <1>2, <1>7

\* The arrays of every list of types fit the buffer of a chunk, aligned and apart
\* from each other, if there is room for one entity: whatever the sizes, kinds and
\* alignments, the reserve that the constructor of Chunk takes for the padding is
\* enough.
THEOREM EveryLayoutFits ==
  ASSUME NEW types \in Seq(Shapes), EntityCapacity(types) >= 1
  PROVE  Fits(types)
<1>1. PICK n \in Nat : n = Len(types) /\ DOMAIN types = 1 .. n
  OBVIOUS
<1>2. \A k \in 1 .. n : types[k] \in Shapes /\ types[k].size \in Nat
  BY <1>1, LayoutAssumption
<1>3. BufferCapacity \in Nat /\ IdSize \in Nat \ {0} /\ MaxAlign \in Nat
  BY LayoutAssumption
<1> DEFINE Sizes(shared) ==
      [k \in DOMAIN types |-> IF types[k].shared = shared THEN types[k].size ELSE 0]
<1>4. ASSUME NEW shared
      PROVE  \E T \in [0 .. n -> Nat] :
               /\ T[0] = 0
               /\ \A k \in 0 .. n - 1 :
                    T[k + 1] = T[k] + (IF types[k + 1].shared = shared THEN types[k + 1].size ELSE 0)
               /\ TotalSize(types, shared) = T[n]
  <2>1. PICK sizes : sizes = Sizes(shared)
    OBVIOUS
  <2>2. /\ sizes \in [1 .. n -> Nat] /\ TotalSize(types, shared) = Total(sizes)
        /\ \A k \in 1 .. n : sizes[k] = IF types[k].shared = shared THEN types[k].size ELSE 0
    BY <1>1, <1>2, <2>1 DEF TotalSize
  <2>3. PICK T \in [0 .. n -> Nat] :
          /\ T[0] = 0 /\ \A k \in 0 .. n - 1 : T[k + 1] = T[k] + sizes[k + 1]
          /\ Total(sizes) = T[n]
    BY <2>2, TotalIsSum
  <2>4. \A k \in 0 .. n - 1 : k + 1 \in 1 .. n
    OBVIOUS
  <2> QED
    BY <2>2, <2>3, <2>4
<1>5. PICK U \in [0 .. n -> Nat] :
        /\ U[0] = 0
        /\ \A k \in 0 .. n - 1 :
             U[k + 1] = U[k] + (IF types[k + 1].shared = FALSE THEN types[k + 1].size ELSE 0)
        /\ TotalSize(types, FALSE) = U[n]
  BY <1>4
<1>6. PICK S \in [0 .. n -> Nat] :
        /\ S[0] = 0
        /\ \A k \in 0 .. n - 1 :
             S[k + 1] = S[k] + (IF types[k + 1].shared = TRUE THEN types[k + 1].size ELSE 0)
        /\ TotalSize(types, TRUE) = S[n]
  BY <1>4
<1>7. PICK u \in Nat, s \in Nat : u = U[n] /\ s = S[n]
  OBVIOUS
<1>8. PICK i \in Nat \ {0}, a \in Nat : i = IdSize /\ a = MaxAlign * n
  <2>1. MaxAlign * n \in Nat
    BY <1>3
  <2> QED BY <1>3, <2>1
<1>9. WorstCaseCapacity(types) = BufferCapacity - a - s /\ EntitySize(types) = i + u
  BY <1>1, <1>5, <1>6, <1>7, <1>8 DEF WorstCaseCapacity, EntitySize
<1>10. PICK c \in Nat : c = EntityCapacity(types) /\ c * (i + u) <= BufferCapacity - a - s
  <2>1. BufferCapacity - a - s \in Int /\ i + u \in Nat \ {0}
    BY <1>3
  <2> QED
    BY <1>9, <2>1, CapacityFits
<1>11. PICK P : PlacedUpTo(P, n, types, c) /\ Placed(types) = P[n]
  BY <1>1, <1>10, PlacedStepByStep
<1>12. PICK arrays : arrays = Placed(types)
  OBVIOUS
<1>13. Laid(arrays) /\ arrays[Len(arrays)][2] <= i * c + a + s + u * c
  <2>1. /\ U \in [0 .. Len(types) -> Nat] /\ S \in [0 .. Len(types) -> Nat]
        /\ n \in 0 .. Len(types)
    BY <1>1
  <2>2. /\ Laid(P[n])
        /\ P[n][Len(P[n])][2] <= IdSize * c + MaxAlign * n + S[n] + U[n] * c
    BY <1>1, <1>5, <1>6, <1>11, <2>1, ArraysEnd
  <2>3. arrays = P[n]
    BY <1>11, <1>12
  <2> QED
    BY <1>7, <1>8, <2>2, <2>3
<1>14. i * c + a + s + u * c <= BufferCapacity
  <2>1. PICK ic \in Nat, uc \in Nat : ic = i * c /\ uc = u * c
    <3>1. \A x, y \in Nat : x * y \in Nat
      OBVIOUS
    <3> QED BY <3>1
  <2>2. c * (i + u) = ic + uc
    BY <2>1
  <2>3. ic + uc <= BufferCapacity - a - s
    BY <1>10, <2>2
  <2>4. ic + a + s + uc <= BufferCapacity
    BY <1>3, <2>3
  <2> QED
    BY <2>1, <2>4
<1>15. ASSUME NEW j \in DOMAIN arrays
       PROVE  /\ arrays[j][1] % arrays[j][3] = 0 /\ arrays[j][2] <= BufferCapacity
              /\ j > 1 => arrays[j - 1][2] <= arrays[j][1]
  <2>1. /\ arrays[j][1] % arrays[j][3] = 0 /\ arrays[j][2] <= arrays[Len(arrays)][2]
        /\ DOMAIN arrays = 1 .. Len(arrays) /\ Len(arrays) \in Nat
    BY <1>13 DEF Laid
  <2>2. arrays[j][2] \in Nat /\ arrays[Len(arrays)][2] \in Nat
    BY <1>13, <2>1 DEF Laid
  <2>3. arrays[j][2] <= BufferCapacity
    <3>1. PICK b \in Nat : b = i * c + a + s + u * c
      <4>1. \A x, y \in Nat : x * y \in Nat
        OBVIOUS
      <4>2. PICK ic \in Nat, uc \in Nat : ic = i * c /\ uc = u * c
        BY <4>1
      <4>3. ic + a + s + uc \in Nat
        OBVIOUS
      <4> QED BY <4>2, <4>3
    <3>2. arrays[Len(arrays)][2] <= b
      BY <1>13, <3>1
    <3>3. b <= BufferCapacity
      BY <1>14, <3>1
    <3>4. \A x, y, z \in Nat : x <= y /\ y <= b /\ b <= z => x <= z
      BY ONLY b \in Nat
    <3> HIDE DEF Sizes
    <3> QED
      BY ONLY <1>3, <2>1, <2>2, <3>2, <3>3, <3>4
  <2>4. j > 1 => j \in 2 .. Len(arrays)
    BY <2>1
  <2> QED
    BY <1>13, <2>1, <2>3, <2>4 DEF Laid
<1> QED
  BY <1>12, <1>15 DEF Fits

\* An archetype has no more types than there are to register.
LEMMA TypesLimited ==
  ASSUME NEW n \in 0 .. Len(Order), NEW ts \in SUBSET FirstClientTypes(n)
  PROVE  Cardinality(ts) \in 0 .. MaxTypes
<1>1. InternalTypes \in Nat /\ n \in Nat /\ Len(Order) \in Nat /\ n <= Len(Order)
      /\ InternalTypes <= Len(Order)
  BY OrderFacts, RegistryAssumption
<1>2. PICK m \in Nat : m = Len(Order) - InternalTypes
  <2>1. \A x, y \in Nat : y <= x => x - y \in Nat
    OBVIOUS
  <2> QED BY <1>1, <2>1
<1> DEFINE S == {k \in InternalTypes + 1 .. n : Order[k] \in ts}
           f == [k \in S |-> Order[k]]
<1>3. f \in Surjection(S, ts)
  BY <1>1 DEF Surjection, FirstClientTypes
<1>4. /\ IsFiniteSet(InternalTypes + 1 .. n)
      /\ Cardinality(InternalTypes + 1 .. n) =
           IF InternalTypes + 1 > n THEN 0 ELSE n - (InternalTypes + 1) + 1
  <2>1. InternalTypes + 1 \in Int /\ n \in Int
    BY <1>1
  <2> QED BY <2>1, FS_Interval
<1>5. Cardinality(InternalTypes + 1 .. n) <= m /\ Cardinality(InternalTypes + 1 .. n) \in Nat
  BY <1>1, <1>2, <1>4
<1>6. S \in SUBSET (InternalTypes + 1 .. n)
  OBVIOUS
<1>7. IsFiniteSet(S) /\ Cardinality(S) <= Cardinality(InternalTypes + 1 .. n)
  BY ONLY <1>4, <1>6, FS_Subset
<1> HIDE DEF S, f
<1>8. IsFiniteSet(ts) /\ Cardinality(ts) <= Cardinality(S)
  BY <1>3, <1>7, FS_Surjection
<1>9. Cardinality(ts) \in Nat /\ Cardinality(S) \in Nat
  BY <1>7, <1>8, FS_CardinalityType
<1>10. m <= MaxTypes /\ MaxTypes \in Nat
  BY <1>2, ArchetypeAssumption, LayoutAssumption
<1>11. Cardinality(ts) <= MaxTypes
  BY <1>5, <1>7, <1>8, <1>9, <1>10
<1> QED
  BY <1>9, <1>10, <1>11

\* A chunk of any archetype has for each of its types an aligned array within the
\* buffer and apart from the others, in every state: LayoutFits, of the constructor
\* of Chunk.
THEOREM LayoutsFit == Spec => []LayoutFits
<1>1. Init => ListIInv
  BY ListInitOK DEF Init
<1>2. ListIInv /\ [Next]_vars => ListIInv'
  BY ListStepOK
<1>3. \A n \in 0 .. MaxTypes : FitAny[n]
  <2> SUFFICES ASSUME NEW n \in 0 .. MaxTypes, NEW types \in [1 .. n -> Shapes],
                      EntityCapacity(types) >= 1
               PROVE  Fits(types)
    BY DEF FitAny
  <2>1. MaxTypes \in Nat
    BY LayoutAssumption
  <2>2. types \in Seq(Shapes)
    BY <2>1
  <2> QED
    BY <2>2, EveryLayoutFits
<1>4. ListIInv => LayoutFits
  <2> SUFFICES ASSUME ListIInv, NEW e \in Stores, NEW list \in archetypes[e]
               PROVE  FitAny[CalcTypeCount(list)]
    BY DEF LayoutFits
  <2>1. RegistryIInv /\ ArchetypesAreSets
    BY DEF ListIInv
  <2>2. PICK n : n = Len(descriptors[e])
    OBVIOUS
  <2>3. n \in 0 .. Len(Order)
    BY <2>1, <2>2, RegistryFacts
  <2>4. PICK ts \in SUBSET FirstClientTypes(n) : list = SetList(n, ts)
    BY <2>1, <2>2 DEF ArchetypesAreSets
  <2>5. ts \in SUBSET FirstTypes(n)
    BY <2>3, ClientsFirst
  <2>6. CalcTypeCount(list) = Cardinality(ts)
    BY <2>3, <2>4, <2>5, CountOfSet
  <2> QED
    BY <1>3, <2>3, <2>6, TypesLimited
<1> QED
  BY <1>1, <1>2, <1>4, PTL DEF Spec
=============================================================================
