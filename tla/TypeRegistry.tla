--------------------------- MODULE TypeRegistry ---------------------------
(***************************************************************************)
(* How types get their index (Ecs::registerType, getTypeId) and the lists  *)
(* of types, bit fields over the indices (typeIdList, typeQueryList).      *)
(*                                                                         *)
(* getTypeId<T> remembers ONE index for the type in a static variable that *)
(* all Ecs objects of the process share, set when it is called first; the  *)
(* descriptor is the one an Ecs has at that index.  So the objects have to *)
(* register their types in one common order, each the first so many of it  *)
(* (as EcsTest does), and look up only those they have registered.  A list *)
(* is as wide as its Ecs had types when it was made, in whole bytes; a     *)
(* type that does not fit into that width has to be registered before the  *)
(* first archetype is made.                                                *)
(***************************************************************************)
EXTENDS Integers, Sequences, FiniteSets, SequencesExt, Lists

CONSTANTS
  Stores,        \* the Ecs objects of the process
  Order,         \* the types in the order they are registered in
  InternalTypes, \* how many of them the constructor of Ecs registers
  ByteBits,      \* bits of a byte of a bit field: 8
  MaxArchetypes  \* bound: the archetypes of an Ecs

ASSUME RegistryAssumption ==
  /\ Order \in Seq(Range(Order)) /\ IsInjective(Order)
  /\ InternalTypes \in 0 .. Len(Order)
  /\ ByteBits \in Nat \ {0}
  /\ MaxArchetypes \in Nat

VARIABLES
  descriptors,  \* typeDescriptors_ of each Ecs
  typeIndex,    \* the static typeIndex of getTypeId_impl<T>, for each T
  factoryFunctions, \* the arrays the componentArrayFactory_ of each Ecs makes
  archetypes,   \* the containedTypes_ of the archetypes of each Ecs
  ub            \* a bit outside a bit field was written or read

registryVars == <<descriptors, typeIndex, factoryFunctions, archetypes, ub>>

Registered(e) == Range(descriptors[e])

\* Those the clients registered, and use.
ClientTypes(e) == Registered(e) \ Range(SubSeq(Order, 1, InternalTypes))

-----------------------------------------------------------------------------
\* The static index after a call of getTypeId<T> on e.
IndexOnceAsked(e, t) == IF t \in DOMAIN typeIndex THEN typeIndex[t] ELSE Len(descriptors[e])

\* Ecs::getTypeId: the descriptor, here the type it is of, or none.
GetTypeId(e, t) ==
  LET i == IndexOnceAsked(e, t)
  IN  IF i < Len(descriptors[e]) THEN {descriptors[e][i + 1]} ELSE {}

\* TypeDescriptor.index of what getTypeId finds.
IndexOf(e, t) == IndexOnceAsked(e, t)

\* typeIdList: bitField.resize((totalTypeCount + 7) / 8), rounded down.
WidthRoundedDown(count) == count \div ByteBits

\* typeIdList: bitField.resize((totalTypeCount + 7) / 8)
Width(count) == (count + ByteBits - 1) \div ByteBits

InField(list, i) == i < list.width * ByteBits

\* Ecs::getTypeIds
ListOf(e, ts) ==
  [width |-> Width(Len(descriptors[e])), bits |-> {IndexOf(e, t) : t \in ts}]

\* typeIdList with a filter, a Boolean for each type listed.
ListKept(e, ts, keep) == ListOf(e, {t \in ts : keep[t]})

\* Ecs::getTypeIds_FilterConst
TypeIdsFilterConst(e, ts, isConst, keepConst) ==
  ListKept(e, ts, [t \in ts |-> isConst[t] = keepConst])

\* typeIdList::addTypes and deleteTypes, of single types
WithTypes(e, list, ts) == [list EXCEPT !.bits = @ \cup {IndexOf(e, t) : t \in ts}]
WithoutTypes(e, list, ts) == [list EXCEPT !.bits = @ \ {IndexOf(e, t) : t \in ts}]

\* typeIdList::addTypes and deleteTypes of another list: of its bytes only as
\* many as list has.
AddList(list, other) == [list EXCEPT !.bits = @ \cup {i \in other.bits : InField(list, i)}]
DeleteList(list, other) == [list EXCEPT !.bits = @ \ {i \in other.bits : InField(list, i)}]

HasType(e, list, t) == IndexOf(e, t) \in list.bits

\* typeIdList::hasAllTypes, which compares as many bytes as list has.
HasAllTypes(list, required) == \A i \in required.bits : InField(list, i) => i \in list.bits

\* Ecs::hasEachComponent
HasEachComponent(e, list, ts) == [t \in ts |-> HasType(e, list, t)]

\* typeIdList::calcTypeIds: the registered types whose bit is set, in their order.
CalcTypeIds(e, list) ==
  LET set == Kept([k \in DOMAIN descriptors[e] |-> k], {i + 1 : i \in list.bits})
  IN  [n \in DOMAIN set |-> descriptors[e][set[n]]]

CalcTypeCount(list) == Cardinality({i \in list.bits : InField(list, i)})

\* typeIdList::isEmpty
IsEmpty(list) == \A i \in list.bits : ~InField(list, i)

\* A list that changeComponents takes to be of an entity that is gone: no type, or
\* only the last type the constructor of Ecs registers, DeletedEntity.
NothingLeft(e, list) ==
  CalcTypeCount(list) = 0 \/ (CalcTypeCount(list) = 1 /\ HasType(e, list, Order[InternalTypes]))

-----------------------------------------------------------------------------
\* typeQueryList
NewQuery(e) ==
  [required |-> ListOf(e, {}), excluded |-> ListOf(e, {}),
   read     |-> ListOf(e, {}), write    |-> ListOf(e, {})]

\* typeQueryList::add
AddToQuery(query, list, mode) ==
  CASE mode = "Exclude"  -> [query EXCEPT !.excluded = AddList(@, list)]
    [] mode = "Required" -> [query EXCEPT !.required = AddList(@, list)]
    [] mode = "Read"  -> [query EXCEPT !.required = AddList(@, list), !.read = AddList(@, list)]
    [] mode = "Write" -> [query EXCEPT !.required = AddList(@, list), !.write = AddList(@, list)]

\* The constructor of View: of its types those that are const are read.
ViewQuery(e, ts, isConst) ==
  AddToQuery(AddToQuery(NewQuery(e), TypeIdsFilterConst(e, ts, isConst, TRUE), "Read"),
             TypeIdsFilterConst(e, ts, isConst, FALSE), "Write")

\* View::with and View::exclude
With(e, query, ts) == AddToQuery(query, ListOf(e, ts), "Required")
Exclude(e, query, ts) == AddToQuery(query, ListOf(e, ts), "Exclude")

\* typeQueryList::check
Check(query, list) ==
  HasAllTypes(list, query.required) /\ list.bits \cap query.excluded.bits = {}

\* Ecs::hasAllComponents
HasAllComponents(e, list, ts) == Check(AddToQuery(NewQuery(e), ListOf(e, ts), "Read"), list)

-----------------------------------------------------------------------------
RegistryInit ==
  /\ descriptors = [e \in Stores |-> << >>]
  /\ typeIndex = << >>
  /\ factoryFunctions = [e \in Stores |-> << >>]
  /\ archetypes = [e \in Stores |-> {}]
  /\ ub = FALSE

\* The client's part: the next type of the order, and not a type that makes
\* lists wider once there are archetypes.
MayRegister(e, t) ==
  LET n == Len(descriptors[e])
  IN  /\ n < Len(Order) /\ t = Order[n + 1]
      /\ archetypes[e] # {} => Width(n + 1) = Width(n)

\* A registerType that does not ask for the type first.
TypeIndexUnasked(e, t) == typeIndex

\* The static variables after registerType has called getTypeId.
TypeIndexAsked(e, t) ==
  [u \in DOMAIN typeIndex \cup {t} |-> IF u = t THEN IndexOnceAsked(e, t) ELSE typeIndex[u]]

\* ComponentArrayFactory::addFactoryFunction, for the descriptor of t: a function
\* that makes arrays of t, in the place of one the descriptor may have.
AddFactoryFunction(e, t) ==
  factoryFunctions' =
    [factoryFunctions EXCEPT ![e] = [u \in DOMAIN @ \cup {t} |-> IF u = t THEN t ELSE @[u]]]

\* ComponentArrayFactory::create: the type of the array made, or none.
Create(e, t) == {factoryFunctions[e][u] : u \in {t} \cap DOMAIN factoryFunctions[e]}

\* Ecs::registerType.  The constructor of an Ecs registers the first types.
RegisterType(e, t) ==
  /\ ~ub /\ MayRegister(e, t)
  /\ typeIndex' = TypeIndexAsked(e, t)
  /\ IF GetTypeId(e, t) # {} THEN UNCHANGED <<descriptors, factoryFunctions>>
     ELSE /\ descriptors' = [descriptors EXCEPT ![e] = Append(@, t)]
          /\ AddFactoryFunction(e, t)
  /\ UNCHANGED <<archetypes, ub>>

\* Ecs::createArchetype: the list is compared with those there are.
CreateArchetype(e, list) ==
  /\ Len(descriptors[e]) >= InternalTypes
  /\ Cardinality(archetypes[e] \cup {list}) <= MaxArchetypes
  /\ archetypes' = [archetypes EXCEPT ![e] = @ \cup {list}]
  /\ ub' = (\E i \in list.bits : ~InField(list, i))
  /\ UNCHANGED <<descriptors, typeIndex, factoryFunctions>>

\* Ecs::createEntity<Ts...>, which makes a list.
CreateEntity(e, ts) == ~ub /\ CreateArchetype(e, ListOf(e, ts))

\* Ecs::addComponent and deleteComponents, which change a copy of the list of
\* the entity's archetype.  (An entity left without types is deleted.)
AddComponent(e, list, t) == ~ub /\ CreateArchetype(e, WithTypes(e, list, {t}))
DeleteComponents(e, list, ts) ==
  LET left == DeleteList(list, ListOf(e, ts))
  IN  ~ub /\ ~NothingLeft(e, left) /\ CreateArchetype(e, left)

RegistryNext ==
  \E e \in Stores :
    \/ \E t \in Range(Order) : RegisterType(e, t)
    \/ \E ts \in SUBSET ClientTypes(e) \ {{}} : CreateEntity(e, ts)
    \/ \E list \in archetypes[e] :
         \/ \E t \in ClientTypes(e) : AddComponent(e, list, t)
         \/ \E ts \in SUBSET ClientTypes(e) : DeleteComponents(e, list, ts)

RegistrySpec == RegistryInit /\ [][RegistryNext]_registryVars

-----------------------------------------------------------------------------
RegistryTypeOK ==
  /\ \A e \in Stores : descriptors[e] \in Seq(Range(Order))
  /\ DOMAIN typeIndex \subseteq Range(Order)
  /\ \A t \in DOMAIN typeIndex : typeIndex[t] \in Nat
  /\ \A e \in Stores : \A list \in archetypes[e] : list.width \in Nat /\ list.bits \subseteq Nat

\* In every Ecs a lookup finds the type itself, if it is registered there, and
\* nothing if it is not, whichever Ecs asked for the type first and however
\* many types it had then.
LookupsExact ==
  \A e \in Stores, t \in Range(Order) :
    GetTypeId(e, t) = IF t \in Registered(e) THEN {t} ELSE {}

Denoted(e, list) == Range(CalcTypeIds(e, list))

\* A query of a list that holds these types, in which each client type has one
\* of these modes, is answered as for sets of types, and the types it reads and
\* writes, which a view would lock, are those of these modes.
QueriesExact(e, list, held) ==
  \A mode \in [ClientTypes(e) -> {"Read", "Write", "Required", "Exclude", "None"}] :
    LET Of(modes) == {t \in ClientTypes(e) : mode[t] \in modes}
        query == Exclude(e, With(e, ViewQuery(e, Of({"Read", "Write"}),
                                              [t \in ClientTypes(e) |-> mode[t] = "Read"]),
                                 Of({"Required"})),
                         Of({"Exclude"}))
    IN  /\ Check(query, list) <=> /\ Of({"Read", "Write", "Required"}) \subseteq held
                                  /\ Of({"Exclude"}) \cap held = {}
        /\ Denoted(e, query.read) = Of({"Read"}) /\ Denoted(e, query.write) = Of({"Write"})

\* The three ways to ask for components agree with the types there are, as do
\* the two ways to delete types.
AnswersAgree(e, list, held) ==
  \A ts \in SUBSET ClientTypes(e) :
    /\ HasAllComponents(e, list, ts) <=> ts \subseteq held
    /\ HasAllComponents(e, list, ts) <=> \A t \in ts : HasEachComponent(e, list, ts)[t]
    /\ DeleteList(list, ListOf(e, ts)) = WithoutTypes(e, list, ts)
    /\ IsEmpty(DeleteList(list, ListOf(e, ts))) <=> held \subseteq ts

\* No bit falls outside a field; lists with the same types are equal, so that
\* an archetype is found again; and queries and lists are answered as sets of
\* types would be: although types are registered while there are archetypes.
\* And a chunk of any archetype gets an array of the right type for each of its
\* types.
ListsAreSets ==
  /\ ~ub
  /\ \A e \in Stores : \A list \in archetypes[e] :
       LET held == Denoted(e, list)
       IN  /\ held \subseteq ClientTypes(e) /\ CalcTypeCount(list) = Cardinality(held)
           /\ \A t \in held : Create(e, t) = {t}
           /\ \A other \in archetypes[e] : Denoted(e, other) = held => list = other
           /\ QueriesExact(e, list, held) /\ AnswersAgree(e, list, held)
=============================================================================
