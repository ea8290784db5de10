------------------------ MODULE CommandBufferProofs ------------------------
(***************************************************************************)
(* Proofs about the deferred commands, for any number of jobs, buffers and *)
(* entities: a temporary id names one entity, every command finds the      *)
(* entity it was recorded for, and no command touches another.             *)
(***************************************************************************)
EXTENDS CommandBuffer, FiniteSetTheorems, TLAPS

\* The commands there can be, whatever has been created by now.
AnyId == 1 .. MaxId \cup TempIds

AnyCommand ==
  [op : {"Create"}, id : TempIds, values : Initials]
    \cup [op : {"Delete"}, id : AnyId]
    \cup [op : {"DeleteComponents", "ChangeComponents"}, id : AnyId, types : TypeLists]
    \cup [op : {"SetComponent", "SetSharedComponent", "AddComponent"},
          id : AnyId, type : ClientTypes, value : Value]

\* The store: ids are given out in order, and an entity is a function from
\* types to values.  Only where two ids have one place may an id that was not
\* given out, 0, name an entity.
Entity(e) == e \in [DOMAIN e -> Value \cup {Uninit}]

StoreFits ==
  /\ Cardinality(issued) \in 0 .. MaxId /\ issued = 1 .. Cardinality(issued)
  /\ entities = [id \in DOMAIN entities |-> entities[id]]
  /\ DOMAIN entities \subseteq IF aliased THEN issued \cup {0} ELSE issued
  /\ \A id \in DOMAIN entities : Entity(entities[id])

\* The temporary ids jobs are about to record: different ones, and none while
\* commands are executed.
TakenFits ==
  /\ nextTempEntityId \in 1 .. MaxTemp + 1
  /\ taken \in [Jobs -> 0 .. nextTempEntityId - 1]
  /\ \A job, other \in Jobs : taken[job] = taken[other] /\ taken[job] # 0 => job = other
  /\ executing # 0 => \A job \in Jobs : taken[job] = 0

\* The jobs that are about to record.
Taking == {job \in Jobs : taken[job] # 0}

BufferFits ==
  /\ entityCommandBuffer \in Seq(AnyCommand)
  /\ executing \in 0 .. Len(entityCommandBuffer) + 1
  /\ Len(entityCommandBuffer) + Cardinality(Taking) <= MaxCommands
  /\ \A i \in DOMAIN entityCommandBuffer :
       entityCommandBuffer[i].id \in issued \cup KnownEarly

\* The remapping leads from known temporary ids to what was made for them in
\* this execution, or to 0.
RemappingFits ==
  /\ temporaryEntityIdRemapping =
       [id \in DOMAIN temporaryEntityIdRemapping |-> temporaryEntityIdRemapping[id]]
  /\ \A id \in DOMAIN temporaryEntityIdRemapping :
       /\ id \in KnownEarly
       /\ \/ temporaryEntityIdRemapping[id] = 0
          \/ <<id, temporaryEntityIdRemapping[id]>> \in made /\ CreatedHere(id)

\* Each entity that was made has a temporary id of its own.
MadeIds == {p[1] : p \in made}

MadeFits ==
  /\ made \subseteq KnownEarly \X issued
  /\ IsFiniteSet(made) /\ Cardinality(made) = Cardinality(MadeIds)
  /\ OneEntityPerTempId

\* There is room for the entities that are still to be made.
RoomLeft == Cardinality(issued) + (nextTempEntityId - 1) - Cardinality(made) <= MaxId

\* A creation that has not been executed, and one not recorded yet, is for a
\* temporary id under which nothing was made.
Pending(i) == entityCommandBuffer[i].op = "Create" /\ executing <= i

PendingUnmade ==
  /\ \A i \in DOMAIN entityCommandBuffer : Pending(i) => entityCommandBuffer[i].id \notin MadeIds
  /\ \A job \in Jobs : taken[job] # 0 => -taken[job] \notin MadeIds

\* A creation that has been executed is mapped to what it made.
ExecutedMapped ==
  \A i \in DOMAIN entityCommandBuffer :
    LET id == entityCommandBuffer[i].id
    IN  i < executing /\ entityCommandBuffer[i].op = "Create" =>
          /\ id \in DOMAIN temporaryEntityIdRemapping
          /\ <<id, temporaryEntityIdRemapping[id]>> \in made

\* The invariant that every step preserves.
IInv ==
  /\ StoreFits /\ TakenFits /\ BufferFits /\ RemappingFits /\ MadeFits /\ RoomLeft
  /\ CommandsFollowCreation /\ PendingUnmade /\ ExecutedMapped
  /\ aliased \in BOOLEAN /\ ub \in BOOLEAN

-----------------------------------------------------------------------------
LEMMA CommandConstants ==
  /\ MaxId \in Nat /\ MaxTemp \in Nat /\ MaxCommands \in Nat
  /\ IsFiniteSet(Jobs) /\ Written \subseteq Value /\ Default \in Value
BY CommandAssumption, TypesAssumption

\* The temporary ids up to the n-th.
LEMMA NegatedIs ==
  ASSUME NEW n \in Nat
  PROVE  {-k : k \in 1 .. n} = (-n) .. (-1)
<1>1. ASSUME NEW z \in (-n) .. (-1)
      PROVE  z \in {-k : k \in 1 .. n}
  <2>1. -z \in 1 .. n /\ z = -(-z)
    OBVIOUS
  <2> QED
    BY <2>1
<1> QED
  BY <1>1

LEMMA NegatedFinite ==
  ASSUME NEW n \in Nat
  PROVE  IsFiniteSet((-n) .. (-1)) /\ Cardinality((-n) .. (-1)) = n
<1> DEFINE a == -n
           b == -1
<1>1. a \in Int /\ b \in Int /\ (IF a > b THEN 0 ELSE b - a + 1) = n
  OBVIOUS
<1> HIDE DEF a, b
<1>2. IsFiniteSet(a .. b) /\ Cardinality(a .. b) = n
  BY <1>1, FS_Interval
<1> QED
  BY <1>2 DEF a, b

LEMMA KnownAre ==
  ASSUME TakenFits
  PROVE  /\ nextTempEntityId - 1 \in Nat
         /\ KnownEarly = (-(nextTempEntityId - 1)) .. (-1)
         /\ TempIds = (-MaxTemp) .. (-1)
         /\ KnownEarly \subseteq TempIds
         /\ IsFiniteSet(KnownEarly) /\ Cardinality(KnownEarly) = nextTempEntityId - 1
<1>1. nextTempEntityId - 1 \in Nat /\ nextTempEntityId - 1 <= MaxTemp /\ MaxTemp \in Nat
  BY CommandConstants DEF TakenFits
<1>2. KnownEarly = (-(nextTempEntityId - 1)) .. (-1) /\ TempIds = (-MaxTemp) .. (-1)
  BY <1>1, NegatedIs DEF KnownEarly, TempIds
<1>3. /\ IsFiniteSet((-(nextTempEntityId - 1)) .. (-1))
      /\ Cardinality((-(nextTempEntityId - 1)) .. (-1)) = nextTempEntityId - 1
  BY <1>1, NegatedFinite
<1> QED
  BY <1>1, <1>2, <1>3

\* The commands have these components.
LEMMA CommandForms ==
  ASSUME NEW c \in AnyCommand
  PROVE  /\ c.id \in AnyId
         /\ c.op \in {"Create", "Delete", "DeleteComponents", "ChangeComponents",
                      "SetComponent", "SetSharedComponent", "AddComponent"}
         /\ c.op = "Create" => c.values \in Initials /\ c.id \in TempIds
         /\ c.op \in {"SetComponent", "SetSharedComponent", "AddComponent"} => c.value \in Value
BY DEF AnyCommand, AnyId

LEMMA CommandsAreCommands ==
  ASSUME StoreFits, TakenFits, NEW c \in Commands
  PROVE  c \in AnyCommand /\ c.op # "Create" /\ c.id \in ClientIds
<1>1. ClientIds \subseteq AnyId
  <2>1. issued \subseteq 1 .. MaxId
    BY CommandConstants DEF StoreFits
  <2>2. Known \subseteq TempIds
    BY KnownAre DEF Known
  <2> QED
    BY <2>1, <2>2 DEF ClientIds, AnyId
<1>2. ArrayTypes(ClientTypes) \subseteq ClientTypes /\ SharedTypes(ClientTypes) \subseteq ClientTypes
  BY DEF ArrayTypes, SharedTypes
<1>3. c.id \in ClientIds /\ c.op # "Create"
  BY DEF Commands
<1>4. c \in AnyCommand
  BY <1>1, <1>2, CommandConstants DEF Commands, AnyCommand
<1> QED
  BY <1>3, <1>4

-----------------------------------------------------------------------------
\* What EntityStore does with a function.
LEMMA PutIs ==
  ASSUME NEW f, NEW x, NEW y
  PROVE  /\ DOMAIN Store!Put(f, x, y) = DOMAIN f \cup {x}
         /\ Store!Put(f, x, y)[x] = y
         /\ \A z \in DOMAIN f : z # x => Store!Put(f, x, y)[z] = f[z]
         /\ Store!Put(f, x, y) = [z \in DOMAIN f \cup {x} |-> Store!Put(f, x, y)[z]]
BY DEF Store!Put

\* The entities it builds are entities, if what is given has values.
LEMMA WithIs ==
  ASSUME NEW ts, NEW given, NEW e \in Store!With(ts, given),
         \A t \in DOMAIN given : given[t] \in Value \cup {Uninit}
  PROVE  Entity(e)
<1>1. PICK found \in [Store!SharedTypes(ts) \ DOMAIN given -> Value] :
        e = [t \in ts |-> IF t \in DOMAIN given THEN given[t]
                          ELSE IF t \in Store!SharedTypes(ts) THEN found[t] ELSE Default]
  BY DEF Store!With
<1>2. DOMAIN e = ts /\ \A t \in ts : e[t] \in Value \cup {Uninit}
  BY <1>1, CommandConstants
<1>3. e = [t \in DOMAIN e |-> e[t]]
  BY <1>1
<1> QED
  BY <1>2, <1>3 DEF Entity

\* An operation on the entity id: it is changed or it ends, and no other is.
OnlyChanges(id) ==
  /\ UNCHANGED issued
  /\ DOMAIN entities' \subseteq DOMAIN entities
  /\ \A other \in DOMAIN entities : other # id => other \in DOMAIN entities' /\ entities'[other] = entities[other]

LEMMA ChangeOK ==
  ASSUME StoreFits, ~aliased, UNCHANGED aliased, NEW id, NEW options, Store!Change(id, options),
         \A e \in options : Entity(e)
  PROVE  StoreFits' /\ OnlyChanges(id)
<1>1. PICK e \in options : entities' = [entities EXCEPT ![id] = e] /\ issued' = issued
  BY DEF Store!Change
<1>2. /\ DOMAIN entities' = DOMAIN entities /\ entities' = [x \in DOMAIN entities' |-> entities'[x]]
      /\ \A x \in DOMAIN entities : entities'[x] = IF x = id THEN e ELSE entities[x]
  BY <1>1 DEF StoreFits
<1>3. \A x \in DOMAIN entities' : Entity(entities'[x])
  BY <1>2 DEF StoreFits
<1> QED
  BY <1>1, <1>2, <1>3 DEF StoreFits, OnlyChanges

LEMMA RemoveOK ==
  ASSUME StoreFits, ~aliased, UNCHANGED aliased, NEW id, Store!Remove(id)
  PROVE  StoreFits' /\ OnlyChanges(id)
<1>1. issued' = issued /\ entities' = [x \in DOMAIN entities \ {id} |-> entities[x]]
  BY DEF Store!Remove, Store!Restrict
<1> QED
  BY <1>1 DEF StoreFits, OnlyChanges

LEMMA ChangeTypesOK ==
  ASSUME StoreFits, ~aliased, UNCHANGED aliased, NEW id \in DOMAIN entities, NEW ts, Store!ChangeTypes(id, ts)
  PROVE  StoreFits' /\ OnlyChanges(id)
<1>1. \A t \in DOMAIN entities[id] : entities[id][t] \in Value \cup {Uninit}
  BY DEF StoreFits, Entity
<1>2. \A e \in Store!With(ts, entities[id]) : Entity(e)
  BY <1>1, WithIs
<1> QED
  BY <1>2, ChangeOK, RemoveOK DEF Store!ChangeTypes

LEMMA DeleteOK ==
  ASSUME StoreFits, ~aliased, UNCHANGED aliased, NEW id \in DOMAIN entities, Store!DeleteEntity(id)
  PROVE  StoreFits' /\ OnlyChanges(id)
BY ChangeTypesOK, RemoveOK DEF Store!DeleteEntity

LEMMA AddComponentOK ==
  ASSUME StoreFits, ~aliased, UNCHANGED aliased,
         NEW id \in DOMAIN entities, NEW t, NEW v \in Value, Store!AddComponent(id, t, v)
  PROVE  StoreFits' /\ OnlyChanges(id)
<1> DEFINE given == Store!Put(entities[id], t, v)
<1>1. \A u \in DOMAIN given : given[u] \in Value \cup {Uninit}
  <2>1. \A u \in DOMAIN entities[id] : entities[id][u] \in Value \cup {Uninit}
    BY DEF StoreFits, Entity
  <2>2. /\ DOMAIN given = DOMAIN entities[id] \cup {t} /\ given[t] = v
        /\ \A u \in DOMAIN entities[id] : u # t => given[u] = entities[id][u]
    BY DEF Store!Put
  <2> QED
    BY <2>1, <2>2
<1> HIDE DEF given
<1>2. \A e \in Store!With(DOMAIN entities[id] \cup {t}, given) : Entity(e)
  BY <1>1, WithIs
<1> QED
  BY <1>2, ChangeOK DEF Store!AddComponent, given

LEMMA SetComponentOK ==
  ASSUME StoreFits, ~aliased, UNCHANGED aliased,
         NEW id \in DOMAIN entities, NEW t, NEW v \in Value, Store!SetComponent(id, t, v)
  PROVE  StoreFits' /\ OnlyChanges(id)
<1>1. Entity([entities[id] EXCEPT ![t] = v])
  BY DEF StoreFits, Entity
<1> QED
  BY <1>1, ChangeOK DEF Store!SetComponent

\* A creation gives the next id, and changes no entity there was.
LEMMA CreateOK ==
  ASSUME StoreFits, ~aliased, UNCHANGED aliased,
         NEW values \in Initials, Cardinality(issued) < MaxId,
         Store!CreateEntityWithValues(Cardinality(issued) + 1, values)
  PROVE  /\ StoreFits' /\ Cardinality(issued)' = Cardinality(issued) + 1
         /\ Cardinality(issued) + 1 \notin issued /\ issued' = issued \cup {Cardinality(issued) + 1}
         /\ \A id \in DOMAIN entities : id \in DOMAIN entities' /\ entities'[id] = entities[id]
<1> DEFINE n == Cardinality(issued)
           e == [t \in DOMAIN values |-> IF t \in EmptyTypes THEN Default
                  ELSE IF Kind[t] \in {"Regular", "Shared"} THEN values[t] ELSE Uninit]
<1>1. n \in Nat /\ n < MaxId /\ issued = 1 .. n /\ MaxId \in Nat
  BY CommandConstants DEF StoreFits
<1>2. n + 1 \notin issued /\ issued' = issued \cup {n + 1} /\ entities' = Store!Put(entities, n + 1, e)
  BY DEF Store!CreateEntityWithValues, Store!Create
<1>3. issued' = 1 .. n + 1 /\ Cardinality(issued)' = n + 1
  <2>1. issued' = 1 .. n + 1
    BY <1>1, <1>2
  <2>2. Cardinality(1 .. n + 1) = n + 1
    BY <1>1, FS_Interval
  <2> QED
    BY <2>1, <2>2
<1>4. Entity(e)
  <2>1. \A t \in DOMAIN values : values[t] \in Value
    BY CommandConstants DEF Initials
  <2> QED
    BY <2>1, CommandConstants DEF Entity
<1> HIDE DEF e
<1>5. /\ DOMAIN entities' = DOMAIN entities \cup {n + 1} /\ entities'[n + 1] = e
      /\ \A id \in DOMAIN entities : id # n + 1 => entities'[id] = entities[id]
      /\ entities' = [id \in DOMAIN entities' |-> entities'[id]]
  <2>1. /\ DOMAIN Store!Put(entities, n + 1, e) = DOMAIN entities \cup {n + 1}
        /\ Store!Put(entities, n + 1, e)[n + 1] = e
        /\ \A id \in DOMAIN entities : id # n + 1 => Store!Put(entities, n + 1, e)[id] = entities[id]
        /\ Store!Put(entities, n + 1, e) =
             [id \in DOMAIN entities \cup {n + 1} |-> Store!Put(entities, n + 1, e)[id]]
    BY DEF Store!Put
  <2> QED
    BY <1>2, <2>1
<1>6. n + 1 \notin DOMAIN entities /\ DOMAIN entities \subseteq issued /\ \A id \in DOMAIN entities : Entity(entities[id])
  BY <1>2 DEF StoreFits
<1>7. \A id \in DOMAIN entities' : Entity(entities'[id])
  BY <1>4, <1>5, <1>6
<1>8. DOMAIN entities' \subseteq issued'
  BY <1>2, <1>5, <1>6
<1>9. StoreFits'
  BY <1>1, <1>3, <1>5, <1>7, <1>8 DEF StoreFits
<1> QED
  BY <1>2, <1>3, <1>5, <1>6, <1>9

\* ... also when the entities are not followed any more.
LEMMA CreateInStoreOK ==
  ASSUME StoreFits, aliased \in BOOLEAN, ub \in BOOLEAN,
         NEW values \in Initials, Cardinality(issued) < MaxId, CreateInStore(values)
  PROVE  /\ StoreFits' /\ Cardinality(issued)' = Cardinality(issued) + 1
         /\ Cardinality(issued) + 1 \notin issued /\ issued' = issued \cup {Cardinality(issued) + 1}
         /\ ~aliased => \A id \in DOMAIN entities :
              id \in DOMAIN entities' /\ entities'[id] = entities[id]
         /\ aliased' = aliased /\ ub' \in BOOLEAN
<1> DEFINE n == Cardinality(issued)
<1>1. aliased' = aliased
  BY DEF CreateInStore
<1>2. CASE ~aliased
  <2>1. Store!CreateEntityWithValues(n + 1, values) /\ ub' = ub
    BY <1>2 DEF CreateInStore
  <2> QED
    BY <1>1, <1>2, <2>1, CreateOK
<1>3. CASE aliased
  <2>1. issued' = issued \cup {n + 1} /\ entities' = << >> /\ ub' \in BOOLEAN
    BY <1>3 DEF CreateInStore, Unfollowed
  <2>2. n \in Nat /\ n < MaxId /\ issued = 1 .. n /\ MaxId \in Nat
    BY CommandConstants DEF StoreFits
  <2>3. issued' = 1 .. n + 1 /\ n + 1 \notin issued
    BY <2>1, <2>2
  <2>4. Cardinality(1 .. n + 1) = n + 1
    BY <2>2, FS_Interval
  <2>5. Cardinality(issued)' = n + 1
    BY <2>3, <2>4
  <2>6. DOMAIN entities' = {} /\ entities' = [id \in DOMAIN entities' |-> entities'[id]]
    BY <2>1
  <2>7. StoreFits'
    <3>1. Cardinality(issued)' \in 0 .. MaxId /\ issued' = 1 .. Cardinality(issued)'
      BY <2>2, <2>3, <2>5
    <3> QED
      BY <2>6, <3>1 DEF StoreFits
  <2> QED
    BY <1>1, <1>3, <2>1, <2>3, <2>5, <2>7
<1> QED
  BY <1>2, <1>3

\* What is not followed has its type.
LEMMA UnfollowedFits ==
  ASSUME StoreFits, Unfollowed, issued' = issued
  PROVE  StoreFits' /\ ub' \in BOOLEAN
BY DEF StoreFits, Unfollowed

\* A shared component set for an entity that is gone hits one other.
LEMMA SetSharedOfGoneOK ==
  ASSUME StoreFits, ~aliased, aliased' = TRUE, NEW id \in issued \cup {0}, NEW t,
         id \notin DOMAIN entities, NEW v \in Value, Store!SetSharedOfGoneId(id, t, v)
  PROVE  StoreFits' /\ issued' = issued /\ \E first \in DOMAIN entities : OnlyHits(first)
<1>1. PICK first \in DOMAIN entities :
        \E others \in IF entities[first][t] = v THEN {entities} ELSE Store!Displaced(first) :
          entities' = Store!Put(others, id, [entities[first] EXCEPT ![t] = v])
  BY DEF Store!SetSharedOfGoneId
<1>2. PICK others \in {entities} \cup Store!Displaced(first) :
        entities' = Store!Put(others, id, [entities[first] EXCEPT ![t] = v])
  BY <1>1
<1>3. \A x \in DOMAIN entities : Entity(entities[x])
  BY DEF StoreFits
<1>4. DOMAIN others \subseteq DOMAIN entities /\ \A x \in DOMAIN others : Entity(others[x])
  <2>1. CASE others = entities
    BY <1>3, <2>1
  <2>2. CASE others = Store!Restrict(entities, DOMAIN entities \ {first})
    BY <1>3, <2>2 DEF Store!Restrict
  <2>3. ASSUME NEW other \in Store!Neighbours(first),
               others = [entities EXCEPT ![first] = entities[other]]
        PROVE  <1>4!1 /\ <1>4!2
    BY <1>3, <2>3 DEF Store!Neighbours
  <2> QED
    BY <2>1, <2>2, <2>3 DEF Store!Displaced
<1>5. Entity([entities[first] EXCEPT ![t] = v])
  BY <1>3 DEF Entity
<1> DEFINE e == [entities[first] EXCEPT ![t] = v]
<1> HIDE DEF e
<1>6. /\ entities' = [x \in DOMAIN entities' |-> entities'[x]]
      /\ DOMAIN entities' = DOMAIN others \cup {id}
      /\ \A x \in DOMAIN entities' : entities'[x] = IF x = id THEN e ELSE others[x]
  BY <1>2 DEF Store!Put, e
<1>7. \A x \in DOMAIN entities' : Entity(entities'[x])
  BY <1>4, <1>5, <1>6 DEF e
<1>8. issued' = issued
  BY DEF Store!SetSharedOfGoneId
<1>9. DOMAIN entities' \subseteq issued \cup {0}
  <2>1. DOMAIN entities \subseteq issued
    BY DEF StoreFits
  <2> QED
    BY <1>4, <1>6, <2>1
<1>10. Cardinality(issued)' \in 0 .. MaxId /\ issued' = 1 .. Cardinality(issued)'
  BY <1>8 DEF StoreFits
<1>11. OnlyHits(first)
  <2>1. \A other \in DOMAIN entities \ {first} : other \in DOMAIN others /\ others[other] = entities[other]
    BY <1>2 DEF Store!Displaced, Store!Restrict
  <2> QED
    BY <1>6, <2>1 DEF OnlyHits
<1> QED
  BY <1>6, <1>7, <1>8, <1>9, <1>10, <1>11 DEF StoreFits


-----------------------------------------------------------------------------
\* The jobs that have taken a temporary id are finitely many.
LEMMA TakingFinite == IsFiniteSet(Taking) /\ Cardinality(Taking) \in Nat
<1>1. IsFiniteSet(Taking)
  BY CommandConstants, FS_Subset DEF Taking
<1> QED
  BY <1>1, FS_CardinalityType

\* What was made is no more than the temporary ids, and less if one is unused.
LEMMA MadeBound ==
  ASSUME TakenFits, MadeFits
  PROVE  /\ MadeIds \subseteq KnownEarly
         /\ Cardinality(made) \in Nat /\ Cardinality(made) <= nextTempEntityId - 1
         /\ \A id \in KnownEarly : id \notin MadeIds => Cardinality(made) + 1 <= nextTempEntityId - 1
<1>1. MadeIds \subseteq KnownEarly
  BY DEF MadeFits, MadeIds
<1>2. IsFiniteSet(KnownEarly) /\ Cardinality(KnownEarly) = nextTempEntityId - 1
  BY KnownAre
<1>3. IsFiniteSet(MadeIds) /\ Cardinality(MadeIds) <= nextTempEntityId - 1
  BY <1>1, <1>2, FS_Subset
<1>4. Cardinality(made) = Cardinality(MadeIds) /\ Cardinality(made) \in Nat
  BY FS_CardinalityType DEF MadeFits
<1>5. ASSUME NEW id \in KnownEarly, id \notin MadeIds
      PROVE  Cardinality(made) + 1 <= nextTempEntityId - 1
  <2>1. Cardinality(MadeIds \cup {id}) = Cardinality(MadeIds) + 1
    BY <1>3, <1>5, FS_AddElement
  <2>2. MadeIds \cup {id} \subseteq KnownEarly
    BY <1>1, <1>5
  <2>3. Cardinality(MadeIds \cup {id}) <= Cardinality(KnownEarly)
    BY <1>2, <2>2, FS_Subset
  <2> QED
    BY <1>2, <1>4, <2>1, <2>3
<1> QED
  BY <1>1, <1>3, <1>4, <1>5

\* The ids of recorded commands that are temporary ids are known ones.
LEMMA IdsKnown ==
  ASSUME IInv, NEW i \in DOMAIN entityCommandBuffer
  PROVE  /\ entityCommandBuffer[i] \in AnyCommand
         /\ entityCommandBuffer[i].id \in Int
         /\ entityCommandBuffer[i].id < 0 <=> entityCommandBuffer[i].id \in KnownEarly
         /\ entityCommandBuffer[i].id >= 0 <=> entityCommandBuffer[i].id \in issued
<1>1. entityCommandBuffer[i] \in AnyCommand /\ entityCommandBuffer[i].id \in issued \cup KnownEarly
  BY DEF IInv, BufferFits
<1>2. /\ \A z \in KnownEarly : z \in Int /\ z < 0
      /\ \A z \in issued : z \in Int /\ z > 0
  <2>1. /\ KnownEarly = (-(nextTempEntityId - 1)) .. (-1) /\ nextTempEntityId - 1 \in Nat
    BY KnownAre DEF IInv
  <2>2. issued = 1 .. Cardinality(issued) /\ Cardinality(issued) \in Nat
    BY CommandConstants DEF IInv, StoreFits
  <2> QED
    BY <2>1, <2>2
<1> QED
  BY <1>1, <1>2

-----------------------------------------------------------------------------
\* A job fetches a temporary id: nobody has it, nothing was made for it, and
\* no command names it.
LEMMA TakeTempIdOK ==
  ASSUME IInv, NEW job \in Jobs, TakeTempId(job)
  PROVE  IInv'
<1> DEFINE n == nextTempEntityId
<1>1. /\ StoreFits /\ TakenFits /\ BufferFits /\ RemappingFits /\ MadeFits /\ RoomLeft
      /\ CommandsFollowCreation /\ PendingUnmade /\ ExecutedMapped
      /\ aliased \in BOOLEAN /\ ub \in BOOLEAN
  BY DEF IInv
<1>2. /\ executing = 0 /\ taken[job] = 0 /\ n <= MaxTemp /\ Expected < MaxId /\ Slots < MaxCommands
      /\ taken' = [taken EXCEPT ![job] = n] /\ nextTempEntityId' = n + 1
      /\ UNCHANGED <<entities, issued, entityCommandBuffer, executing, temporaryEntityIdRemapping, made,
                     aliased, ub>>
  BY DEF TakeTempId, Idle, store
<1>3. n \in Int /\ n >= 1 /\ MaxTemp \in Nat /\ MaxCommands \in Nat
  BY <1>1, CommandConstants DEF TakenFits
<1>4. TakenFits'
  BY <1>1, <1>2, <1>3 DEF TakenFits
<1>5. KnownEarly' = KnownEarly \cup {-n} /\ -n \notin KnownEarly
  <2>1. KnownEarly = (-(n - 1)) .. (-1)
    BY <1>1, KnownAre
  <2>2. KnownEarly' = (-(n + 1 - 1)) .. (-1)
    <3>1. KnownEarly' = {-k : k \in 1 .. n + 1 - 1} /\ n + 1 - 1 \in Nat
      BY <1>2, <1>3 DEF KnownEarly
    <3> QED
      BY <3>1, NegatedIs
  <2> QED
    BY <1>3, <2>1, <2>2
<1>6. StoreFits' /\ OneEntityPerTempId' /\ MadeIds' = MadeIds
  BY <1>1, <1>2 DEF StoreFits, MadeFits, OneEntityPerTempId, MadeIds
<1>7. BufferFits'
  <2>1. Taking' = Taking \cup {job} /\ job \notin Taking
    BY <1>1, <1>2, <1>3 DEF Taking, TakenFits
  <2>2. Cardinality(Taking') = Cardinality(Taking) + 1
    BY <2>1, TakingFinite, FS_AddElement
  <2>3. Len(entityCommandBuffer) + Cardinality(Taking) < MaxCommands /\ Len(entityCommandBuffer) \in Nat
    BY <1>1, <1>2 DEF Slots, Taking, BufferFits
  <2>4. Len(entityCommandBuffer) + Cardinality(Taking') <= MaxCommands
    BY <1>3, <2>2, <2>3, TakingFinite
  <2> QED
    BY <1>1, <1>2, <1>5, <2>4 DEF BufferFits
<1>8. RemappingFits'
  BY <1>1, <1>2, <1>5 DEF RemappingFits, CreatedHere
<1>9. MadeFits'
  BY <1>1, <1>2, <1>5, <1>6 DEF MadeFits
<1>10. RoomLeft'
  <2>1. Cardinality(issued) \in Int /\ Cardinality(made) \in Int /\ MaxId \in Int
    BY <1>1, MadeBound, CommandConstants DEF StoreFits
  <2>2. Cardinality(issued) + (n - 1) - Cardinality(made) < MaxId
    BY <1>2 DEF Expected
  <2> QED
    BY <1>2, <1>3, <2>1, <2>2 DEF RoomLeft
<1>11. CommandsFollowCreation'
  <2>1. \A i \in DOMAIN entityCommandBuffer : entityCommandBuffer[i].id # -n
    <3>1. -n \in Int /\ -n < 0
      BY <1>3
    <3> QED
      BY <1>5, <3>1, IdsKnown
  <2>2. \A other \in Jobs : taken'[other] = IF other = job THEN n ELSE taken[other]
    BY <1>1, <1>2 DEF TakenFits
  <2> QED
    BY <1>1, <1>2, <2>1, <2>2 DEF CommandsFollowCreation
<1>12. PendingUnmade'
  <2>1. -n \notin MadeIds
    BY <1>1, <1>5, MadeBound
  <2>2. \A other \in Jobs : taken'[other] = IF other = job THEN n ELSE taken[other]
    BY <1>1, <1>2 DEF TakenFits
  <2> QED
    BY <1>1, <1>2, <1>6, <2>1, <2>2 DEF PendingUnmade, Pending
<1>13. ExecutedMapped' /\ aliased' \in BOOLEAN /\ ub' \in BOOLEAN
  BY <1>1, <1>2 DEF ExecutedMapped
<1> QED
  BY <1>4, <1>6, <1>7, <1>8, <1>9, <1>10, <1>11, <1>12, <1>13 DEF IInv

\* A command is recorded: what remains to be shown about it.
LEMMA Appends ==
  ASSUME IInv, NEW c \in AnyCommand, AddToCommandBuffer(c), executing = 0,
         c.id \in issued \cup KnownEarly,
         \A job \in Jobs : taken'[job] # 0 => c.id # -taken'[job],
         c.op = "Create" =>
           c.id \notin MadeIds /\ \A i \in DOMAIN entityCommandBuffer : entityCommandBuffer[i].id # c.id,
         \A job \in Jobs : taken'[job] \in {taken[job], 0}, taken' \in [Jobs -> Int],
         Len(entityCommandBuffer) + 1 + Cardinality(Taking') <= MaxCommands
  PROVE  IInv'
<1> DEFINE n == Len(entityCommandBuffer)
<1>1. /\ StoreFits /\ TakenFits /\ BufferFits /\ RemappingFits /\ MadeFits /\ RoomLeft
      /\ CommandsFollowCreation /\ PendingUnmade /\ ExecutedMapped
      /\ aliased \in BOOLEAN /\ ub \in BOOLEAN
  BY DEF IInv
<1>2. /\ entityCommandBuffer' = Append(entityCommandBuffer, c)
      /\ UNCHANGED <<entities, issued, executing, nextTempEntityId, temporaryEntityIdRemapping, made,
                     aliased, ub>>
  BY DEF AddToCommandBuffer, store
<1>3. /\ entityCommandBuffer' \in Seq(AnyCommand) /\ Len(entityCommandBuffer') = n + 1 /\ n \in Nat
      /\ DOMAIN entityCommandBuffer = 1 .. n /\ DOMAIN entityCommandBuffer' = 1 .. n + 1
      /\ \A i \in 1 .. n : entityCommandBuffer'[i] = entityCommandBuffer[i]
      /\ entityCommandBuffer'[n + 1] = c
  BY <1>1, <1>2 DEF BufferFits
<1>4. KnownEarly' = KnownEarly /\ MadeIds' = MadeIds
  BY <1>2 DEF KnownEarly, MadeIds
<1>5. TakenFits'
  <2>1. nextTempEntityId \in 1 .. MaxTemp + 1 /\ MaxTemp \in Nat
    BY <1>1, CommandConstants DEF TakenFits
  <2>2. taken' \in [Jobs -> 0 .. nextTempEntityId - 1]
    BY <1>1, <2>1 DEF TakenFits
  <2>3. \A job, other \in Jobs : taken'[job] = taken'[other] /\ taken'[job] # 0 => job = other
    BY <1>1 DEF TakenFits
  <2> QED
    BY <1>2, <2>1, <2>2, <2>3 DEF TakenFits
<1>6. BufferFits'
  <2>1. \A i \in 1 .. n + 1 : i = n + 1 \/ i \in 1 .. n
    BY <1>3
  <2>2. \A i \in 1 .. n + 1 : entityCommandBuffer'[i].id \in issued' \cup KnownEarly'
    BY <1>1, <1>2, <1>3, <1>4, <2>1 DEF BufferFits
  <2> QED
    BY <1>2, <1>3, <2>2 DEF BufferFits
<1>7. StoreFits' /\ RemappingFits' /\ MadeFits' /\ RoomLeft'
  <2>1. \A id \in DOMAIN temporaryEntityIdRemapping : temporaryEntityIdRemapping[id] = 0
    BY <1>1 DEF RemappingFits, CreatedHere
  <2>2. RemappingFits'
    BY <1>1, <1>2, <1>4, <2>1 DEF RemappingFits
  <2> QED
    BY <1>1, <1>2, <1>4, <2>2 DEF StoreFits, MadeFits, OneEntityPerTempId, RoomLeft
<1>8. CommandsFollowCreation'
  <2>1. ASSUME NEW i \in 1 .. n + 1, NEW job \in Jobs, taken'[job] # 0
        PROVE  entityCommandBuffer'[i].id # -taken'[job]
    <3>1. CASE i = n + 1
      BY <1>3, <2>1, <3>1
    <3>2. CASE i # n + 1
      <4>1. i \in 1 .. n /\ taken'[job] = taken[job]
        BY <1>3, <2>1, <3>2
      <4> QED
        BY <1>1, <1>3, <2>1, <4>1 DEF CommandsFollowCreation
    <3> QED
      BY <3>1, <3>2
  <2>2. ASSUME NEW i \in 1 .. n + 1, NEW j \in 1 .. n + 1,
               entityCommandBuffer'[j].op = "Create",
               entityCommandBuffer'[j].id = entityCommandBuffer'[i].id
        PROVE  j <= i
    <3>1. CASE i = n + 1
      BY <1>3, <3>1
    <3>2. CASE i # n + 1 /\ j # n + 1
      <4>1. i \in 1 .. n /\ j \in 1 .. n
        BY <1>3, <3>2
      <4> QED
        BY <1>1, <1>3, <2>2, <4>1 DEF CommandsFollowCreation
    <3>3. CASE i # n + 1 /\ j = n + 1
      <4>1. i \in 1 .. n
        BY <1>3, <3>3
      <4> QED
        BY <1>3, <2>2, <3>3, <4>1
    <3> QED
      BY <3>1, <3>2, <3>3
  <2> QED
    BY <1>3, <2>1, <2>2 DEF CommandsFollowCreation
<1>9. PendingUnmade'
  <2>1. ASSUME NEW i \in 1 .. n + 1, entityCommandBuffer'[i].op = "Create"
        PROVE  entityCommandBuffer'[i].id \notin MadeIds
    <3>1. CASE i = n + 1
      BY <1>3, <2>1, <3>1
    <3>2. CASE i # n + 1
      <4>1. i \in 1 .. n /\ 0 <= i
        BY <1>3, <3>2
      <4> QED
        BY <1>1, <1>3, <2>1, <4>1 DEF PendingUnmade, Pending
    <3> QED
      BY <3>1, <3>2
  <2>2. \A job \in Jobs : taken'[job] # 0 => -taken'[job] \notin MadeIds
    BY <1>1 DEF PendingUnmade
  <2> QED
    BY <1>3, <1>4, <2>1, <2>2 DEF PendingUnmade, Pending
<1>10. ExecutedMapped' /\ aliased' \in BOOLEAN /\ ub' \in BOOLEAN
  BY <1>1, <1>2, <1>3 DEF ExecutedMapped
<1> QED
  BY <1>5, <1>6, <1>7, <1>8, <1>9, <1>10 DEF IInv

LEMMA RecordCreateOK ==
  ASSUME IInv, NEW job \in Jobs, NEW values \in Initials, RecordCreate(job, values)
  PROVE  IInv'
<1> DEFINE c == [op |-> "Create", id |-> -taken[job], values |-> values]
<1>1. /\ TakenFits /\ BufferFits /\ CommandsFollowCreation /\ PendingUnmade
  BY DEF IInv
<1>2. /\ taken[job] # 0 /\ taken' = [taken EXCEPT ![job] = 0] /\ AddToCommandBuffer(c)
  BY DEF RecordCreate
<1>3. executing = 0 /\ taken[job] \in 1 .. nextTempEntityId - 1 /\ nextTempEntityId \in Nat
  BY <1>1, <1>2, CommandConstants DEF TakenFits
<1>4. -taken[job] \in KnownEarly
  BY <1>3 DEF KnownEarly
<1>5. c \in AnyCommand /\ c.id = -taken[job]
  BY <1>1, <1>4, KnownAre DEF AnyCommand
<1> HIDE DEF c
<1>6. \A other \in Jobs : taken'[other] = IF other = job THEN 0 ELSE taken[other]
  BY <1>1, <1>2 DEF TakenFits
<1>7. /\ taken' \in [Jobs -> Int]
      /\ \A other \in Jobs : taken'[other] \in {taken[other], 0}
      /\ \A other \in Jobs : taken'[other] # 0 => c.id # -taken'[other]
  <2>1. taken \in [Jobs -> Int]
    BY <1>1, <1>3 DEF TakenFits
  <2>2. \A other \in Jobs : taken'[other] # 0 => taken[other] # taken[job]
    BY <1>1, <1>2, <1>6 DEF TakenFits
  <2> QED
    BY <1>2, <1>5, <1>6, <2>1, <2>2
<1>8. /\ c.id \notin MadeIds
      /\ \A i \in DOMAIN entityCommandBuffer : entityCommandBuffer[i].id # c.id
  BY <1>1, <1>2, <1>5 DEF PendingUnmade, CommandsFollowCreation
<1>9. Len(entityCommandBuffer) + 1 + Cardinality(Taking') <= MaxCommands
  <2>1. Taking' = Taking \ {job} /\ job \in Taking
    BY <1>2, <1>6 DEF Taking
  <2>2. Cardinality(Taking') = Cardinality(Taking) - 1
    BY <2>1, TakingFinite, FS_RemoveElement
  <2> QED
    BY <1>1, <2>2, TakingFinite, CommandConstants DEF BufferFits
<1> QED
  BY <1>2, <1>3, <1>4, <1>5, <1>7, <1>8, <1>9, Appends

LEMMA RecordOK ==
  ASSUME IInv, NEW job \in Jobs, NEW c \in Commands, Record(job, c)
  PROVE  IInv'
<1>1. /\ StoreFits /\ TakenFits /\ BufferFits
  BY DEF IInv
<1>2. /\ executing = 0 /\ AddToCommandBuffer(c) /\ taken' = taken
      /\ Len(entityCommandBuffer) + Cardinality(Taking) < MaxCommands
  BY DEF Record, Idle, Slots, Taking
<1>3. c \in AnyCommand /\ c.op # "Create" /\ c.id \in issued \cup Known
  BY <1>1, CommandsAreCommands DEF ClientIds
<1>4. c.id \in issued \cup KnownEarly /\ \A other \in Jobs : taken[other] # 0 => c.id # -taken[other]
  <2>1. CASE c.id \in Known
    BY <2>1 DEF Known
  <2>2. CASE c.id \in issued
    <3>1. c.id \in Int /\ c.id > 0
      BY <1>1, <2>2, CommandConstants DEF StoreFits
    <3>2. \A other \in Jobs : taken[other] \in Int /\ taken[other] >= 0
      BY <1>1, CommandConstants DEF TakenFits
    <3> QED
      BY <2>2, <3>1, <3>2
  <2> QED
    BY <1>3, <2>1, <2>2
<1>5. taken' \in [Jobs -> Int] /\ Taking' = Taking
  BY <1>1, <1>2, CommandConstants DEF TakenFits, Taking
<1>6. Len(entityCommandBuffer) + 1 + Cardinality(Taking') <= MaxCommands
  BY <1>1, <1>2, <1>5, TakingFinite, CommandConstants DEF BufferFits
<1> QED
  BY <1>2, <1>3, <1>4, <1>5, <1>6, Appends


-----------------------------------------------------------------------------
\* The main thread's calls, between two executions.
LEMMA CallCreateOK ==
  ASSUME IInv, NEW values \in Initials, CallCreate(values)
  PROVE  IInv'
<1>1. /\ StoreFits /\ TakenFits /\ BufferFits /\ RemappingFits /\ MadeFits /\ RoomLeft
      /\ CommandsFollowCreation /\ PendingUnmade /\ ExecutedMapped
      /\ aliased \in BOOLEAN /\ ub \in BOOLEAN
  BY DEF IInv
<1>2. /\ Expected < MaxId /\ CreateInStore(values)
      /\ UNCHANGED <<entityCommandBuffer, executing, taken, nextTempEntityId,
                     temporaryEntityIdRemapping, made>>
  BY DEF CallCreate, commands
<1>3. /\ Cardinality(issued) \in Int /\ Cardinality(made) \in Int /\ nextTempEntityId - 1 \in Int /\ MaxId \in Int
      /\ Cardinality(made) <= nextTempEntityId - 1
      /\ Cardinality(issued) + (nextTempEntityId - 1) - Cardinality(made) < MaxId
  BY <1>1, <1>2, MadeBound, KnownAre, CommandConstants DEF StoreFits, Expected
<1>4. /\ StoreFits' /\ Cardinality(issued') = Cardinality(issued) + 1 /\ issued \subseteq issued'
      /\ aliased' = aliased /\ ub' \in BOOLEAN
  BY <1>1, <1>2, <1>3, CreateInStoreOK
<1>5. KnownEarly' = KnownEarly /\ Taking' = Taking /\ MadeIds' = MadeIds
  BY <1>2 DEF KnownEarly, Taking, MadeIds
<1>6. TakenFits' /\ RemappingFits' /\ CommandsFollowCreation'
  BY <1>1, <1>2, <1>5 DEF TakenFits, RemappingFits, CreatedHere, CommandsFollowCreation
<1>7. BufferFits' /\ MadeFits'
  BY <1>1, <1>2, <1>4, <1>5 DEF BufferFits, MadeFits, OneEntityPerTempId
<1>8. RoomLeft'
  BY <1>2, <1>3, <1>4 DEF RoomLeft
<1>9. PendingUnmade' /\ ExecutedMapped'
  BY <1>1, <1>2, <1>5 DEF PendingUnmade, Pending, ExecutedMapped
<1> QED
  BY <1>1, <1>4, <1>6, <1>7, <1>8, <1>9 DEF IInv

LEMMA CallDeleteOK ==
  ASSUME IInv, NEW id, CallDelete(id)
  PROVE  IInv'
<1>1. /\ StoreFits /\ TakenFits /\ BufferFits /\ RemappingFits /\ MadeFits /\ RoomLeft
      /\ CommandsFollowCreation /\ PendingUnmade /\ ExecutedMapped
      /\ aliased \in BOOLEAN /\ ub \in BOOLEAN
  BY DEF IInv
<1>2. UNCHANGED <<entityCommandBuffer, executing, taken, nextTempEntityId,
                  temporaryEntityIdRemapping, made, aliased>>
  BY DEF CallDelete, commands
<1>3. StoreFits' /\ issued' = issued /\ ub' \in BOOLEAN
  <2>1. CASE aliased
    <3>1. Unfollowed /\ issued' = issued
      BY <2>1 DEF CallDelete
    <3> QED
      BY <1>1, <3>1, UnfollowedFits
  <2>2. CASE ~aliased
    <3>1. id \in DOMAIN entities /\ Store!DeleteEntity(id) /\ ub' = ub
      BY <2>2 DEF CallDelete
    <3> QED
      BY <1>1, <1>2, <2>2, <3>1, DeleteOK DEF OnlyChanges
  <2> QED
    BY <1>1, <2>1, <2>2
<1>4. KnownEarly' = KnownEarly /\ Taking' = Taking /\ MadeIds' = MadeIds
  BY <1>2 DEF KnownEarly, Taking, MadeIds
<1>5. TakenFits' /\ BufferFits' /\ RemappingFits' /\ MadeFits'
  BY <1>1, <1>2, <1>3, <1>4 DEF TakenFits, BufferFits, RemappingFits, CreatedHere, MadeFits, OneEntityPerTempId
<1>6. /\ RoomLeft' /\ CommandsFollowCreation' /\ PendingUnmade' /\ ExecutedMapped'
  BY <1>1, <1>2, <1>3, <1>4 DEF RoomLeft, CommandsFollowCreation, PendingUnmade, Pending, ExecutedMapped
<1> QED
  BY <1>1, <1>2, <1>3, <1>5, <1>6 DEF IInv

-----------------------------------------------------------------------------
\* The execution begins and ends.
LEMMA StartExecutionOK ==
  ASSUME IInv, StartExecution
  PROVE  IInv'
<1>1. /\ StoreFits /\ TakenFits /\ BufferFits /\ RemappingFits /\ MadeFits /\ RoomLeft
      /\ CommandsFollowCreation /\ PendingUnmade /\ ExecutedMapped
      /\ aliased \in BOOLEAN /\ ub \in BOOLEAN
  BY DEF IInv
<1>2. /\ executing = 0 /\ executing' = 1 /\ \A job \in Jobs : taken[job] = 0
      /\ UNCHANGED <<entities, issued, entityCommandBuffer, taken, nextTempEntityId,
                     temporaryEntityIdRemapping, made, aliased, ub>>
  BY DEF StartExecution, store
<1>3. KnownEarly' = KnownEarly /\ Taking' = Taking /\ MadeIds' = MadeIds
  BY <1>2 DEF KnownEarly, Taking, MadeIds
<1>4. DOMAIN entityCommandBuffer = 1 .. Len(entityCommandBuffer) /\ Len(entityCommandBuffer) \in Nat
  BY <1>1 DEF BufferFits
<1>5. TakenFits' /\ BufferFits' /\ RemappingFits' /\ MadeFits' /\ StoreFits'
  <2>1. \A id \in DOMAIN temporaryEntityIdRemapping : temporaryEntityIdRemapping[id] = 0
    BY <1>1, <1>2 DEF RemappingFits, CreatedHere
  <2>2. RemappingFits'
    BY <1>1, <1>2, <1>3, <2>1 DEF RemappingFits
  <2> QED
    BY <1>1, <1>2, <1>3, <1>4, <2>2 DEF TakenFits, BufferFits, MadeFits, OneEntityPerTempId, StoreFits
<1>6. RoomLeft' /\ CommandsFollowCreation' /\ aliased' \in BOOLEAN /\ ub' \in BOOLEAN
  BY <1>1, <1>2 DEF RoomLeft, CommandsFollowCreation
<1>7. PendingUnmade' /\ ExecutedMapped'
  BY <1>1, <1>2, <1>3, <1>4 DEF PendingUnmade, Pending, ExecutedMapped
<1> QED
  BY <1>5, <1>6, <1>7 DEF IInv

LEMMA FinishExecutionOK ==
  ASSUME IInv, FinishExecution
  PROVE  IInv'
<1>1. /\ StoreFits /\ TakenFits /\ BufferFits /\ RemappingFits /\ MadeFits /\ RoomLeft /\ PendingUnmade
      /\ aliased \in BOOLEAN /\ ub \in BOOLEAN
  BY DEF IInv
<1>2. /\ executing = Len(entityCommandBuffer) + 1 /\ executing' = 0
      /\ entityCommandBuffer' = << >> /\ temporaryEntityIdRemapping' = << >>
      /\ UNCHANGED <<entities, issued, taken, nextTempEntityId, made, aliased, ub>>
  BY DEF FinishExecution, store
<1>3. \A job \in Jobs : taken[job] = 0
  BY <1>1, <1>2 DEF TakenFits, BufferFits
<1>4. KnownEarly' = KnownEarly /\ MadeIds' = MadeIds
  BY <1>2 DEF KnownEarly, MadeIds
<1>5. /\ entityCommandBuffer' \in Seq(AnyCommand) /\ Len(entityCommandBuffer') = 0
      /\ DOMAIN entityCommandBuffer' = {}
      /\ temporaryEntityIdRemapping' = [id \in DOMAIN temporaryEntityIdRemapping' |-> temporaryEntityIdRemapping'[id]]
      /\ DOMAIN temporaryEntityIdRemapping' = {}
  BY <1>2
<1>6. BufferFits'
  <2>1. Taking' = {}
    BY <1>2, <1>3 DEF Taking
  <2>2. Cardinality(Taking') = 0
    BY <2>1, FS_EmptySet
  <2> QED
    BY <1>2, <1>5, <2>2, CommandConstants DEF BufferFits
<1>7. TakenFits' /\ RemappingFits' /\ MadeFits' /\ StoreFits' /\ RoomLeft'
  BY <1>1, <1>2, <1>4, <1>5 DEF TakenFits, RemappingFits, MadeFits, OneEntityPerTempId, StoreFits, RoomLeft
<1>8. /\ CommandsFollowCreation' /\ PendingUnmade' /\ ExecutedMapped'
      /\ aliased' \in BOOLEAN /\ ub' \in BOOLEAN
  BY <1>1, <1>2, <1>3, <1>5 DEF CommandsFollowCreation, PendingUnmade, ExecutedMapped
<1> QED
  BY <1>6, <1>7, <1>8 DEF IInv

\* An entity is made for a temporary id, for the first time.
LEMMA ExecuteCreateOK ==
  ASSUME IInv, ExecuteCreate
  PROVE  /\ IInv'
         /\ ~aliased => \A id \in DOMAIN entities :
              id \in DOMAIN entities' /\ entities'[id] = entities[id]
<1> DEFINE n == Cardinality(issued)
           t == Command.id
<1>1. /\ StoreFits /\ TakenFits /\ BufferFits /\ RemappingFits /\ MadeFits /\ RoomLeft
      /\ CommandsFollowCreation /\ PendingUnmade /\ ExecutedMapped
      /\ aliased \in BOOLEAN /\ ub \in BOOLEAN
  BY DEF IInv
<1>2. /\ executing \in DOMAIN entityCommandBuffer /\ Command.op = "Create"
      /\ CreateInStore(Command.values)
      /\ temporaryEntityIdRemapping' = Store!Put(temporaryEntityIdRemapping, t, n + 1)
      /\ made' = made \cup {<<t, n + 1>>} /\ executing' = executing + 1
      /\ UNCHANGED <<entityCommandBuffer, taken, nextTempEntityId>>
  BY DEF ExecuteCreate, Execute, Running
<1>3. /\ DOMAIN entityCommandBuffer = 1 .. Len(entityCommandBuffer) /\ Len(entityCommandBuffer) \in Nat
      /\ executing \in Nat /\ executing > 0 /\ executing <= Len(entityCommandBuffer)
  BY <1>1, <1>2 DEF BufferFits
<1>4. Command \in AnyCommand /\ Command.values \in Initials /\ t \in TempIds
  BY <1>1, <1>2, CommandForms DEF BufferFits, Command
<1>5. t \in KnownEarly /\ t \notin MadeIds
  <2>1. t \in Int /\ t < 0
    BY <1>1, <1>4, KnownAre, CommandConstants
  <2>2. t \in KnownEarly
    BY <1>2, <2>1, IdsKnown DEF Command
  <2>3. t \notin MadeIds
    BY <1>1, <1>2, <1>3 DEF PendingUnmade, Pending, Command
  <2> QED
    BY <2>2, <2>3
<1>6. /\ n \in Nat /\ Cardinality(made) \in Nat /\ nextTempEntityId - 1 \in Nat /\ MaxId \in Nat
      /\ Cardinality(made) + 1 <= nextTempEntityId - 1
      /\ n + (nextTempEntityId - 1) - Cardinality(made) <= MaxId
  BY <1>1, <1>5, MadeBound, KnownAre, CommandConstants, SMTT(30) DEF StoreFits, RoomLeft
<1>7. n < MaxId
  BY <1>6
<1>8. /\ StoreFits' /\ Cardinality(issued') = n + 1
      /\ n + 1 \notin issued /\ issued' = issued \cup {n + 1}
      /\ ~aliased => \A id \in DOMAIN entities :
           id \in DOMAIN entities' /\ entities'[id] = entities[id]
      /\ aliased' = aliased /\ ub' \in BOOLEAN
  BY <1>1, <1>2, <1>4, <1>7, CreateInStoreOK
<1>9. KnownEarly' = KnownEarly /\ Taking' = Taking /\ MadeIds' = MadeIds \cup {t}
  <2>1. KnownEarly' = KnownEarly /\ Taking' = Taking
    BY <1>2 DEF KnownEarly, Taking
  <2>2. MadeIds' = {p[1] : p \in made \cup {<<t, n + 1>>}}
    BY <1>2 DEF MadeIds
  <2>3. <<t, n + 1>>[1] = t
    OBVIOUS
  <2> HIDE DEF t
  <2> QED
    BY <2>1, <2>2, <2>3 DEF MadeIds
<1>10. TakenFits' /\ CommandsFollowCreation' /\ \A job \in Jobs : taken[job] = 0
  BY <1>1, <1>2, <1>3 DEF TakenFits, CommandsFollowCreation
<1>11. BufferFits'
  BY <1>1, <1>2, <1>3, <1>8, <1>9 DEF BufferFits
<1>12. /\ DOMAIN temporaryEntityIdRemapping' = DOMAIN temporaryEntityIdRemapping \cup {t}
       /\ temporaryEntityIdRemapping'[t] = n + 1
       /\ \A id \in DOMAIN temporaryEntityIdRemapping :
            id # t => temporaryEntityIdRemapping'[id] = temporaryEntityIdRemapping[id]
       /\ temporaryEntityIdRemapping' =
            [id \in DOMAIN temporaryEntityIdRemapping' |-> temporaryEntityIdRemapping'[id]]
  BY <1>2 DEF Store!Put
<1>13. RemappingFits'
  <2>1. ASSUME NEW id, id = t
        PROVE  CreatedHere(id)'
    BY <1>2, <1>3, <2>1 DEF CreatedHere, Command
  <2>2. \A id : CreatedHere(id) => CreatedHere(id)'
    BY <1>2, <1>3 DEF CreatedHere
  <2> HIDE DEF t
  <2> QED
    BY <1>1, <1>2, <1>5, <1>9, <1>12, <2>1, <2>2 DEF RemappingFits
<1>14. MadeFits'
  <2>1. <<t, n + 1>> \notin made
    BY <1>5 DEF MadeIds
  <2>2. Cardinality(made') = Cardinality(made) + 1 /\ IsFiniteSet(made')
    BY <1>1, <1>2, <2>1, FS_AddElement DEF MadeFits
  <2>3. IsFiniteSet(MadeIds)
    BY <1>1, KnownAre, MadeBound, FS_Subset
  <2>4. Cardinality(MadeIds') = Cardinality(MadeIds) + 1
    BY <1>5, <1>9, <2>3, FS_AddElement
  <2>5. \A p \in made : p[1] # t /\ p[2] # n + 1
    BY <1>1, <1>5, <1>8 DEF MadeIds, MadeFits
  <2>6. OneEntityPerTempId'
    BY <1>1, <1>2, <2>5 DEF MadeFits, OneEntityPerTempId
  <2>7. made' \subseteq KnownEarly' \X issued'
    BY <1>1, <1>2, <1>5, <1>8, <1>9 DEF MadeFits
  <2> QED
    BY <1>1, <2>2, <2>4, <2>6, <2>7 DEF MadeFits
<1>15. RoomLeft'
  <2>1. Cardinality(made') = Cardinality(made) + 1
    <3>1. <<t, n + 1>> \notin made
      BY <1>5 DEF MadeIds
    <3> QED
      BY <1>1, <1>2, <3>1, FS_AddElement DEF MadeFits
  <2> QED
    BY <1>2, <1>6, <1>8, <2>1 DEF RoomLeft
<1>16. \A i \in DOMAIN entityCommandBuffer :
         entityCommandBuffer[i].op = "Create" /\ entityCommandBuffer[i].id = t => i = executing
  <2>1. ASSUME NEW i \in DOMAIN entityCommandBuffer, entityCommandBuffer[i].op = "Create",
               entityCommandBuffer[i].id = t
        PROVE  i = executing
    <3>1. i <= executing /\ executing <= i
      BY <1>1, <1>2, <2>1 DEF CommandsFollowCreation, Command
    <3> QED
      BY <1>3, <3>1
  <2> QED
    BY <2>1
<1>17. PendingUnmade'
  <2>1. ASSUME NEW i \in DOMAIN entityCommandBuffer, entityCommandBuffer[i].op = "Create", executing + 1 <= i
        PROVE  entityCommandBuffer[i].id \notin MadeIds \cup {t}
    <3>1. executing <= i /\ i # executing
      BY <1>3, <2>1
    <3> QED
      BY <1>1, <1>16, <2>1, <3>1 DEF PendingUnmade, Pending
  <2> QED
    BY <1>2, <1>9, <1>10, <2>1 DEF PendingUnmade, Pending
<1>18. ExecutedMapped'
  <2>1. ASSUME NEW i \in DOMAIN entityCommandBuffer, entityCommandBuffer[i].op = "Create", i < executing + 1
        PROVE  LET id == entityCommandBuffer[i].id
               IN  /\ id \in DOMAIN temporaryEntityIdRemapping'
                   /\ <<id, temporaryEntityIdRemapping'[id]>> \in made'
    <3>1. CASE i = executing
      BY <1>2, <1>12, <3>1 DEF Command
    <3>2. CASE i # executing
      <4>1. i < executing /\ entityCommandBuffer[i].id # t
        BY <1>3, <1>16, <2>1, <3>2
      <4> QED
        BY <1>1, <1>2, <1>12, <2>1, <4>1 DEF ExecutedMapped
    <3> QED
      BY <3>1, <3>2
  <2> QED
    BY <1>2, <2>1 DEF ExecutedMapped
<1> QED
  BY <1>1, <1>2, <1>8, <1>10, <1>11, <1>13, <1>14, <1>15, <1>17, <1>18 DEF IInv


-----------------------------------------------------------------------------
\* What a command finds is nothing, or the entity it names.
LEMMA TargetIs ==
  ASSUME IInv, ~aliased, Running, Alive(Target(Command.id))
  PROVE  Named(Target(Command.id))
<1>1. StoreFits /\ RemappingFits
  BY DEF IInv
<1>2. Target(Command.id) \in DOMAIN entities
  BY DEF Alive
<1>3. Target(Command.id) # 0
  <2>1. 0 \notin 1 .. Cardinality(issued)
    BY <1>1 DEF StoreFits
  <2> QED
    BY <1>1, <1>2, <2>1 DEF StoreFits
<1> QED
  BY <1>1, <1>3 DEF Target, RemappingFits, Named

\* It looks for an id that was given out, or for 0.
LEMMA TargetIssued ==
  ASSUME IInv, Running
  PROVE  Target(Command.id) \in issued \cup {0}
<1>1. RemappingFits /\ MadeFits
  BY DEF IInv
<1>2. Command.id >= 0 => Command.id \in issued
  BY IdsKnown DEF Running, Command
<1> QED
  BY <1>1, <1>2 DEF Target, RemappingFits, MadeFits

\* A command that finds nothing names no entity there is.
LEMMA GoneNamesNone ==
  ASSUME IInv, ~aliased, Running, ~Alive(Target(Command.id)), NEW other \in DOMAIN entities
  PROVE  ~Named(other)
<1>1. StoreFits /\ BufferFits /\ MadeFits /\ ExecutedMapped
  BY DEF IInv
<1>2. executing \in DOMAIN entityCommandBuffer
  BY DEF Running
<1>3. Command.id # other
  <2>1. ASSUME Command.id = other
        PROVE  FALSE
    <3>1. other \in issued
      BY <1>1 DEF StoreFits
    <3>2. Command.id >= 0
      BY <1>2, <2>1, <3>1, IdsKnown DEF Command
    <3> QED
      BY <2>1, <3>2 DEF Target, Alive
  <2> QED
    BY <2>1
<1>4. ASSUME <<Command.id, other>> \in made, CreatedHere(Command.id)
      PROVE  FALSE
  <2>1. PICK i \in 1 .. executing - 1 :
          entityCommandBuffer[i].op = "Create" /\ entityCommandBuffer[i].id = Command.id
    BY <1>4 DEF CreatedHere
  <2>2. i \in DOMAIN entityCommandBuffer /\ i < executing
    BY <1>1, <1>2 DEF BufferFits
  <2>3. /\ Command.id \in DOMAIN temporaryEntityIdRemapping
        /\ <<Command.id, temporaryEntityIdRemapping[Command.id]>> \in made
    BY <1>1, <2>1, <2>2 DEF ExecutedMapped
  <2>4. other = temporaryEntityIdRemapping[Command.id]
    <3>1. \A p, q \in made : p[1] = q[1] => p[2] = q[2]
      BY <1>1 DEF MadeFits, OneEntityPerTempId
    <3> QED
      BY <1>4, <2>3, <3>1
  <2>5. ~(Command.id >= 0)
    <3>1. Command.id \in KnownEarly
      BY <1>1, <1>4 DEF MadeFits
    <3>2. Command.id \in Int /\ Command.id < 0
      BY <1>2, <3>1, IdsKnown DEF Command
    <3> QED
      BY <3>2
  <2>6. Target(Command.id) = other
    BY <2>3, <2>4, <2>5 DEF Target
  <2> QED
    BY <2>6 DEF Alive
<1> QED
  BY <1>3, <1>4 DEF Named

\* A command on an entity is executed: what it does to the bookkeeping.
LEMMA OnEntityOK ==
  ASSUME IInv, NEW ops, "Create" \notin ops, ExecuteOnEntity(ops),
         StoreFits', issued' = issued, aliased' \in BOOLEAN, ub' \in BOOLEAN
  PROVE  IInv'
<1> DEFINE t == Command.id
<1>1. /\ StoreFits /\ TakenFits /\ BufferFits /\ RemappingFits /\ MadeFits /\ RoomLeft
      /\ CommandsFollowCreation /\ PendingUnmade /\ ExecutedMapped
  BY DEF IInv
<1>2. /\ executing \in DOMAIN entityCommandBuffer /\ Command.op # "Create" /\ LookUp(t)
      /\ executing' = executing + 1
      /\ UNCHANGED <<entityCommandBuffer, taken, nextTempEntityId, made>>
  BY DEF ExecuteOnEntity, Execute, Running
<1>3. /\ DOMAIN entityCommandBuffer = 1 .. Len(entityCommandBuffer) /\ Len(entityCommandBuffer) \in Nat
      /\ executing \in Nat /\ executing > 0 /\ executing <= Len(entityCommandBuffer)
  BY <1>1, <1>2 DEF BufferFits
<1>4. KnownEarly' = KnownEarly /\ Taking' = Taking /\ MadeIds' = MadeIds
  BY <1>2 DEF KnownEarly, Taking, MadeIds
<1>5. t < 0 => t \in KnownEarly
  BY <1>2, IdsKnown DEF Command
<1>6. TakenFits' /\ CommandsFollowCreation'
  BY <1>1, <1>2, <1>3 DEF TakenFits, CommandsFollowCreation
<1>7. BufferFits' /\ MadeFits' /\ RoomLeft'
  BY <1>1, <1>2, <1>3, <1>4 DEF BufferFits, MadeFits, OneEntityPerTempId, RoomLeft
<1> HIDE DEF t
<1>8. /\ \/ temporaryEntityIdRemapping' = temporaryEntityIdRemapping
         \/ /\ t \in KnownEarly
            /\ DOMAIN temporaryEntityIdRemapping' = DOMAIN temporaryEntityIdRemapping \cup {t}
            /\ temporaryEntityIdRemapping'[t] = 0
            /\ temporaryEntityIdRemapping' =
                 [id \in DOMAIN temporaryEntityIdRemapping' |-> temporaryEntityIdRemapping'[id]]
      /\ \A id \in DOMAIN temporaryEntityIdRemapping :
           /\ id \in DOMAIN temporaryEntityIdRemapping'
           /\ temporaryEntityIdRemapping'[id] = temporaryEntityIdRemapping[id]
  <2>1. CASE t < 0 /\ t \notin DOMAIN temporaryEntityIdRemapping
    <3>1. temporaryEntityIdRemapping' = Store!Put(temporaryEntityIdRemapping, t, 0)
      BY <1>2, <2>1 DEF LookUp
    <3> QED
      BY <1>5, <2>1, <3>1 DEF Store!Put
  <2>2. CASE ~(t < 0 /\ t \notin DOMAIN temporaryEntityIdRemapping)
    BY <1>2, <2>2 DEF LookUp
  <2> QED
    BY <2>1, <2>2
<1>9. RemappingFits'
  <2>1. \A id : CreatedHere(id) => CreatedHere(id)'
    BY <1>2, <1>3 DEF CreatedHere
  <2> QED
    BY <1>1, <1>2, <1>4, <1>8, <2>1 DEF RemappingFits
<1>10. PendingUnmade'
  BY <1>1, <1>2, <1>3, <1>4 DEF PendingUnmade, Pending
<1>11. ExecutedMapped'
  <2>1. \A i \in DOMAIN entityCommandBuffer :
          i < executing + 1 /\ entityCommandBuffer[i].op = "Create" => i < executing
    BY <1>2, <1>3 DEF Command
  <2> QED
    BY <1>1, <1>2, <1>8, <2>1 DEF ExecutedMapped
<1> QED
  BY <1>6, <1>7, <1>9, <1>10, <1>11 DEF IInv

\* While commands are executed, as long as every id has a place of its own,
\* only these change entities.
Obeys ==
  ~aliased =>
    \A id \in DOMAIN entities :
      executing # 0 /\ (id \in DOMAIN entities' => entities'[id] # entities[id])
        => \/ Named(id)
           \/ /\ Command.op = "SetSharedComponent" /\ OnlyHits(id)
              /\ \A other \in DOMAIN entities : ~Named(other)

LEMMA OnEntityObeys ==
  ASSUME IInv, NEW ops, ExecuteAlone(ops), Alive(Target(Command.id)),
         OnlyChanges(Target(Command.id))
  PROVE  Obeys
<1>1. Running /\ ~aliased
  BY DEF ExecuteAlone, ExecuteOnEntity, Execute
<1>2. Named(Target(Command.id))
  BY <1>1, TargetIs
<1> QED
  BY <1>2 DEF OnlyChanges, Obeys

\* The bookkeeping of a command in a store where each id has its place.
LEMMA AloneOK ==
  ASSUME IInv, NEW ops, "Create" \notin ops, ExecuteAlone(ops),
         StoreFits', issued' = issued, ub' \in BOOLEAN
  PROVE  IInv'
<1>1. ExecuteOnEntity(ops) /\ aliased' \in BOOLEAN
  BY DEF ExecuteAlone, IInv
<1> QED
  BY <1>1, OnEntityOK

LEMMA OnEntityStep ==
  ASSUME IInv,
         \/ ExecuteOnNothing \/ ExecuteDelete \/ ExecuteSetComponent \/ ExecuteChange
         \/ ExecuteSetShared \/ ExecuteSetSharedOfGone \/ ExecuteOnAliased
  PROVE  IInv' /\ Obeys
<1> DEFINE id == Target(Command.id)
<1>1. StoreFits /\ BufferFits /\ aliased \in BOOLEAN /\ ub \in BOOLEAN
  BY DEF IInv
<1>2. ASSUME UNCHANGED <<store, aliased>>
      PROVE  StoreFits' /\ issued' = issued /\ Obeys
  BY <1>1, <1>2 DEF store, StoreFits, Obeys
<1>0. ASSUME NEW ops, ExecuteAlone(ops)
      PROVE  ~aliased /\ UNCHANGED aliased /\ ExecuteOnEntity(ops)
  BY <1>0 DEF ExecuteAlone
<1>3. ASSUME Running
      PROVE  Command.op \in {"SetComponent", "SetSharedComponent", "AddComponent"} => Command.value \in Value
  BY <1>1, <1>3, CommandForms DEF BufferFits, Running, Command
<1>4. CASE ExecuteOnNothing
  <2>1. /\ ExecuteAlone({"Delete", "DeleteComponents", "ChangeComponents", "SetComponent", "AddComponent"})
        /\ UNCHANGED <<store, ub>>
    BY <1>4 DEF ExecuteOnNothing
  <2> QED
    BY <1>0, <1>1, <1>2, <2>1, AloneOK
<1>5. CASE ExecuteDelete
  <2>1. /\ ExecuteAlone({"Delete"}) /\ Alive(id) /\ Store!DeleteEntity(id) /\ ub' = ub
    BY <1>5 DEF ExecuteDelete
  <2>2. StoreFits' /\ OnlyChanges(id)
    BY <1>0, <1>1, <2>1, DeleteOK DEF Alive
  <2> QED
    BY <1>0, <1>1, <2>1, <2>2, AloneOK, OnEntityObeys DEF OnlyChanges
<1>6. CASE ExecuteSetComponent
  <2>1. /\ ExecuteAlone({"SetComponent"}) /\ Alive(id) /\ ub' = ub
        /\ Store!SetComponent(id, Command.type, Command.value)
    BY <1>6 DEF ExecuteSetComponent
  <2>2. Command.value \in Value
    BY <1>3, <2>1 DEF ExecuteAlone, ExecuteOnEntity, Execute
  <2>3. StoreFits' /\ OnlyChanges(id)
    BY <1>0, <1>1, <2>1, <2>2, SetComponentOK DEF Alive
  <2> QED
    BY <1>1, <2>1, <2>3, AloneOK, OnEntityObeys DEF OnlyChanges
<1>7. CASE ExecuteChange
  <2>1. ExecuteAlone({"DeleteComponents", "ChangeComponents", "AddComponent"}) /\ Alive(id)
    BY <1>7 DEF ExecuteChange
  <2>2. CASE ub' = TRUE /\ UNCHANGED store
    BY <1>0, <1>1, <1>2, <2>1, <2>2, AloneOK
  <2>3. CASE Command.op = "AddComponent" /\ Store!AddComponent(id, Command.type, Command.value) /\ ub' = ub
    <3>1. Command.value \in Value
      BY <1>3, <2>1, <2>3 DEF ExecuteAlone, ExecuteOnEntity, Execute
    <3>2. StoreFits' /\ OnlyChanges(id)
      BY <1>0, <1>1, <2>1, <2>3, <3>1, AddComponentOK DEF Alive
    <3> QED
      BY <1>1, <2>1, <2>3, <3>2, AloneOK, OnEntityObeys DEF OnlyChanges
  <2>4. CASE Store!ChangeTypes(id, NewTypes(id)) /\ ub' = ub
    <3>1. StoreFits' /\ OnlyChanges(id)
      BY <1>0, <1>1, <2>1, <2>4, ChangeTypesOK DEF Alive
    <3> QED
      BY <1>1, <2>1, <2>4, <3>1, AloneOK, OnEntityObeys DEF OnlyChanges
  <2> QED
    BY <1>7, <2>2, <2>3, <2>4 DEF ExecuteChange
<1>8. CASE ExecuteSetShared
  <2>1. ExecuteAlone({"SetSharedComponent"})
    BY <1>8 DEF ExecuteSetShared
  <2>2. CASE ub' = TRUE /\ UNCHANGED store
    BY <1>0, <1>1, <1>2, <2>1, <2>2, AloneOK
  <2>3. CASE Alive(id) /\ Store!SetComponent(id, Command.type, Command.value) /\ ub' = ub
    <3>1. Command.value \in Value
      BY <1>3, <2>1 DEF ExecuteAlone, ExecuteOnEntity, Execute
    <3>2. StoreFits' /\ OnlyChanges(id)
      BY <1>0, <1>1, <2>1, <2>3, <3>1, SetComponentOK DEF Alive
    <3> QED
      BY <1>1, <2>1, <2>3, <3>2, AloneOK, OnEntityObeys DEF OnlyChanges
  <2> QED
    BY <1>8, <2>2, <2>3 DEF ExecuteSetShared
<1>9. CASE ExecuteSetSharedOfGone
  <2>1. /\ ExecuteOnEntity({"SetSharedComponent"}) /\ ~aliased /\ ~Alive(id)
    BY <1>9 DEF ExecuteSetSharedOfGone
  <2>2. CASE ub' = TRUE /\ UNCHANGED <<store, aliased>>
    BY <1>1, <1>2, <2>1, <2>2, OnEntityOK
  <2>3. CASE /\ Store!SetSharedOfGoneId(id, Command.type, Command.value)
             /\ aliased' = TRUE /\ ub' = ub
    <3>1. Running /\ Command.op = "SetSharedComponent"
      BY <2>1 DEF ExecuteOnEntity, Execute
    <3>2. Command.value \in Value
      BY <1>3, <3>1
    <3>3. id \in issued \cup {0}
      BY <3>1, TargetIssued
    <3>4. StoreFits' /\ issued' = issued /\ \E first \in DOMAIN entities : OnlyHits(first)
      BY <1>1, <2>1, <2>3, <3>2, <3>3, SetSharedOfGoneOK DEF Alive
    <3>5. IInv'
      BY <1>1, <2>1, <2>3, <3>4, OnEntityOK
    <3>6. Obeys
      <4>1. PICK first \in DOMAIN entities : OnlyHits(first)
        BY <3>4
      <4>2. \A x \in DOMAIN entities : x # first => x \in DOMAIN entities' /\ entities'[x] = entities[x]
        BY <4>1 DEF OnlyHits
      <4> QED
        BY <2>1, <3>1, <4>1, <4>2, GoneNamesNone DEF Obeys
    <3> QED
      BY <3>5, <3>6
  <2> QED
    BY <1>9, <2>1, <2>2, <2>3 DEF ExecuteSetSharedOfGone
<1>10. CASE ExecuteOnAliased
  <2>1. /\ ExecuteOnEntity({"Delete", "DeleteComponents", "ChangeComponents", "SetComponent",
                            "SetSharedComponent", "AddComponent"})
        /\ aliased /\ Unfollowed /\ issued' = issued /\ aliased' = aliased
    BY <1>10 DEF ExecuteOnAliased
  <2>2. StoreFits' /\ ub' \in BOOLEAN
    BY <1>1, <2>1, UnfollowedFits
  <2> QED
    BY <1>1, <2>1, <2>2, OnEntityOK DEF Obeys
<1> QED
  BY <1>4, <1>5, <1>6, <1>7, <1>8, <1>9, <1>10

-----------------------------------------------------------------------------
LEMMA InitOK ==
  ASSUME Init
  PROVE  IInv
<1>1. /\ entities = << >> /\ issued = {} /\ entityCommandBuffer = << >> /\ executing = 0
      /\ temporaryEntityIdRemapping = << >> /\ nextTempEntityId = 1
      /\ taken = [job \in Jobs |-> 0] /\ made = {} /\ aliased = FALSE /\ ub = FALSE
  BY DEF Init, Store!Init
<1>2. Cardinality(issued) = 0 /\ Cardinality(made) = 0 /\ IsFiniteSet(made)
  BY <1>1, FS_EmptySet
<1>3. StoreFits /\ TakenFits /\ RoomLeft /\ RemappingFits
  BY <1>1, <1>2, CommandConstants DEF StoreFits, TakenFits, RoomLeft, RemappingFits
<1>4. BufferFits
  <2>1. Taking = {}
    BY <1>1 DEF Taking
  <2>2. Cardinality(Taking) = 0
    BY <2>1, FS_EmptySet
  <2> QED
    BY <1>1, <2>2, CommandConstants DEF BufferFits
<1>5. MadeFits
  <2>1. MadeIds = {}
    BY <1>1 DEF MadeIds
  <2> QED
    BY <1>1, <1>2, <2>1 DEF MadeFits, OneEntityPerTempId
<1>6. CommandsFollowCreation /\ PendingUnmade /\ ExecutedMapped
  BY <1>1 DEF CommandsFollowCreation, PendingUnmade, ExecutedMapped
<1> QED
  BY <1>1, <1>3, <1>4, <1>5, <1>6 DEF IInv

LEMMA StepOK ==
  ASSUME IInv, [Next]_vars
  PROVE  IInv' /\ Obeys
<1>1. ASSUME UNCHANGED entities \/ executing = 0 \/ aliased
      PROVE  Obeys
  BY <1>1 DEF Obeys
<1>2. ASSUME NEW job \in Jobs,
             \/ TakeTempId(job)
             \/ \E values \in Initials : RecordCreate(job, values)
             \/ \E command \in Commands : Record(job, command)
      PROVE  IInv' /\ Obeys
  <2>1. UNCHANGED entities
    BY <1>2 DEF TakeTempId, RecordCreate, Record, AddToCommandBuffer, store
  <2> QED
    BY <1>1, <1>2, <2>1, TakeTempIdOK, RecordCreateOK, RecordOK
<1>3. CASE (\E values \in Initials : CallCreate(values)) \/ (\E id \in issued : CallDelete(id))
  <2>1. executing = 0
    BY <1>3 DEF CallCreate, CallDelete
  <2> QED
    BY <1>1, <1>3, <2>1, CallCreateOK, CallDeleteOK
<1>4. CASE StartExecution \/ FinishExecution
  <2>1. UNCHANGED entities
    BY <1>4 DEF StartExecution, FinishExecution, store
  <2> QED
    BY <1>1, <1>4, <2>1, StartExecutionOK, FinishExecutionOK
<1>5. CASE ExecuteCreate
  BY <1>5, ExecuteCreateOK DEF Obeys
<1>6. CASE \/ ExecuteOnNothing \/ ExecuteDelete \/ ExecuteSetComponent \/ ExecuteChange
           \/ ExecuteSetShared \/ ExecuteSetSharedOfGone \/ ExecuteOnAliased
  BY <1>6, OnEntityStep
<1>7. CASE UNCHANGED vars
  <2>1. UNCHANGED <<entities, issued, entityCommandBuffer, executing, temporaryEntityIdRemapping,
                    nextTempEntityId, taken, made, aliased, ub>>
    BY <1>7 DEF vars, store, commands
  <2>2. KnownEarly' = KnownEarly /\ Taking' = Taking /\ MadeIds' = MadeIds
    BY <2>1 DEF KnownEarly, Taking, MadeIds
  <2>3. StoreFits' /\ TakenFits' /\ BufferFits' /\ RemappingFits' /\ MadeFits'
    BY <2>1, <2>2 DEF IInv, StoreFits, TakenFits, BufferFits, RemappingFits, CreatedHere, MadeFits, OneEntityPerTempId
  <2>4. RoomLeft' /\ CommandsFollowCreation' /\ PendingUnmade' /\ ExecutedMapped'
    BY <2>1, <2>2 DEF IInv, RoomLeft, CommandsFollowCreation, PendingUnmade, Pending, ExecutedMapped
  <2>5. IInv'
    BY <2>1, <2>3, <2>4 DEF IInv
  <2> QED
    BY <1>1, <2>1, <2>5
<1> QED
  BY <1>2, <1>3, <1>4, <1>5, <1>6, <1>7 DEF Next

\* The invariant holds in every behaviour.
LEMMA CommandsInvariant == Spec => []IInv
<1>1. Init => IInv
  BY InitOK
<1>2. IInv /\ [Next]_vars => IInv'
  BY StepOK
<1> QED
  BY <1>1, <1>2, PTL DEF Spec

\* It implies the properties.
LEMMA TypesFit ==
  ASSUME IInv
  PROVE  TypeOK
<1>1. /\ StoreFits /\ TakenFits /\ BufferFits /\ RemappingFits /\ MadeFits
      /\ aliased \in BOOLEAN /\ ub \in BOOLEAN
  BY DEF IInv
<1>2. /\ KnownEarly \subseteq TempIds /\ nextTempEntityId - 1 <= MaxTemp
      /\ nextTempEntityId \in Nat /\ MaxTemp \in Nat /\ MaxId \in Nat /\ MaxCommands \in Nat
  BY <1>1, KnownAre, CommandConstants DEF TakenFits
<1>3. issued \subseteq 1 .. MaxId
  BY <1>1, <1>2 DEF StoreFits
<1>4. Len(entityCommandBuffer) <= MaxCommands /\ executing \in 0 .. Len(entityCommandBuffer) + 1
  BY <1>1, <1>2, TakingFinite DEF BufferFits
<1>5. ASSUME NEW id \in DOMAIN temporaryEntityIdRemapping
      PROVE  id \in TempIds /\ temporaryEntityIdRemapping[id] \in 0 .. MaxId
  <2>1. id \in KnownEarly
    BY <1>1 DEF RemappingFits
  <2>2. temporaryEntityIdRemapping[id] = 0 \/ temporaryEntityIdRemapping[id] \in issued
    BY <1>1 DEF RemappingFits, MadeFits
  <2>3. \A n \in issued : n \in 0 .. MaxId
    BY <1>2, <1>3
  <2>4. 0 \in 0 .. MaxId
    BY <1>2
  <2> QED
    BY <1>2, <2>1, <2>2, <2>3, <2>4
<1>6. nextTempEntityId \in 1 .. MaxTemp + 1 /\ taken \in [Jobs -> 0 .. MaxTemp]
  BY <1>1, <1>2 DEF TakenFits
<1>7. made \subseteq TempIds \X issued
  BY <1>1, <1>2 DEF MadeFits
<1> QED
  BY <1>1, <1>3, <1>4, <1>5, <1>6, <1>7 DEF TypeOK, StoreFits, Entity


LEMMA Resolves ==
  ASSUME IInv
  PROVE  TempIdsResolve
<1> SUFFICES ASSUME Running, NEW i \in 1 .. executing - 1,
                    entityCommandBuffer[i].op = "Create", entityCommandBuffer[i].id = Command.id,
                    Command.id < 0
             PROVE  <<Command.id, Target(Command.id)>> \in made
  BY DEF TempIdsResolve
<1>1. BufferFits /\ ExecutedMapped
  BY DEF IInv
<1>2. i \in DOMAIN entityCommandBuffer /\ i < executing
  BY <1>1 DEF BufferFits, Running
<1>3. /\ Command.id \in DOMAIN temporaryEntityIdRemapping
      /\ <<Command.id, temporaryEntityIdRemapping[Command.id]>> \in made
  BY <1>1, <1>2 DEF ExecutedMapped
<1>4. ~(Command.id >= 0)
  <2>1. Command.id \in Int
    BY IdsKnown DEF Running, Command
  <2> QED
    BY <2>1
<1> QED
  BY <1>3, <1>4 DEF Target

-----------------------------------------------------------------------------
\* The state of the deferred commands has its type: the remapping leads from
\* temporary ids to ids or to 0, and the buffer and the counters stay in their
\* bounds.
THEOREM CommandsTypeCorrectness == Spec => []TypeOK
<1>1. IInv => TypeOK
  BY TypesFit
<1> QED
  BY <1>1, CommandsInvariant, PTL

\* However the jobs of several threads interleave the fetch_add of
\* getTempEntityId with addToCommandBuffer: no command precedes the creation
\* of the entity it names.
THEOREM CommandsOrdered == Spec => []CommandsFollowCreation
<1>1. IInv => CommandsFollowCreation
  BY DEF IInv
<1> QED
  BY <1>1, CommandsInvariant, PTL

\* Over all buffers, a temporary id is the name of one entity and an entity has
\* one temporary id, as nextTempEntityId is never set back.
THEOREM TemporaryIdsUnique == Spec => []OneEntityPerTempId
<1>1. IInv => OneEntityPerTempId
  BY DEF IInv, MadeFits
<1> QED
  BY <1>1, CommandsInvariant, PTL

\* A command that names an entity created earlier in the same buffer is
\* executed on that entity (executeCommmandBuffer, temporaryEntityIdRemapping_).
THEOREM TemporaryIdsResolved == Spec => []TempIdsResolve
<1>1. IInv => TempIdsResolve
  BY Resolves
<1> QED
  BY <1>1, CommandsInvariant, PTL

\* While the buffer is executed, an entity changes or ends only by a command
\* that names it.  The exception, and the only one: SetSharedComponent with the
\* id of an entity that is gone, or a temporary id of an earlier buffer, hits
\* one other entity (Ecs::setSharedComponent does not look whether the id is in
\* the map).
THEOREM CommandsHitOnlyTheirTarget == Spec => CommandsStayOnTarget
<1>1. IInv /\ [Next]_vars =>
        [~aliased =>
           \A id \in DOMAIN entities :
             executing # 0 /\ (id \in DOMAIN entities' => entities'[id] # entities[id])
               => \/ Named(id)
                  \/ /\ Command.op = "SetSharedComponent" /\ OnlyHits(id)
                     /\ \A other \in DOMAIN entities : ~Named(other)]_vars
  BY StepOK DEF Obeys
<1> QED
  BY <1>1, CommandsInvariant, PTL DEF Spec, CommandsStayOnTarget
=============================================================================
