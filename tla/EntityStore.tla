--------------------------- MODULE EntityStore ---------------------------
(***************************************************************************)
(* What an Ecs promises its clients, without archetypes, chunks and        *)
(* indices: a live entity is a function from its component types to their  *)
(* values; an operation on an entity changes that entity and no other; the *)
(* id of an entity is never given out again.                               *)
(*                                                                         *)
(* Two things are left open, because the storage leaves them open: what a  *)
(* component holds that createEntity(values) does not write (all but       *)
(* Regular and Shared ones), and the shared value an entity meets in the   *)
(* chunk it is put into when nobody gave one.                              *)
(***************************************************************************)
EXTENDS ComponentTypes, Functions

CONSTANTS ClientTypes, MaxId

VARIABLES
  entities,   \* the live entities: id -> type -> value
  issued      \* the ids given out so far

vars == <<entities, issued>>

Init == entities = << >> /\ issued = {}

\* The function f with the value y at x, whether f had one there or not.
Put(f, x, y) == [z \in DOMAIN f \cup {x} |-> IF z = x THEN y ELSE f[z]]

\* An entity with the types ts: the components of given keep their value, the
\* others are built as T{}; a shared one gets some value.
With(ts, given) ==
  {[t \in ts |-> IF t \in DOMAIN given THEN given[t]
                 ELSE IF t \in SharedTypes(ts) THEN found[t] ELSE Default]
     : found \in [SharedTypes(ts) \ DOMAIN given -> Value]}

-----------------------------------------------------------------------------
Create(id, options) ==
  /\ id \notin issued
  /\ issued' = issued \cup {id}
  /\ \E e \in options : entities' = Put(entities, id, e)

CreateEntity(id, ts) == Create(id, With(ts, << >>))

CreateEntityWithValues(id, values) ==
  Create(id, {[t \in DOMAIN values |->
                 IF t \in EmptyTypes THEN Default
                 ELSE IF Kind[t] \in {"Regular", "Shared"} THEN values[t] ELSE Uninit]})

Change(id, options) ==
  /\ UNCHANGED issued
  /\ \E e \in options : entities' = [entities EXCEPT ![id] = e]

Remove(id) ==
  /\ UNCHANGED issued
  /\ entities' = Restrict(entities, DOMAIN entities \ {id})

\* deleteComponents, changeComponents
ChangeTypes(id, ts) ==
  IF Vanishes(ts) THEN Remove(id) ELSE Change(id, With(ts, entities[id]))

\* An entity with State components survives with these, marked as deleted.
DeleteEntity(id) ==
  LET kept == StateTypes(DOMAIN entities[id])
  IN  IF kept = {} THEN Remove(id) ELSE ChangeTypes(id, kept \cup {DeletedEntity})

AddComponent(id, t, v) ==
  Change(id, With(DOMAIN entities[id] \cup {t}, Put(entities[id], t, v)))

\* No effect if the entity does not have the component.
SetComponent(id, t, v) ==
  t \in DOMAIN entities[id] /\ Change(id, {[entities[id] EXCEPT ![t] = v]})

ValuesOf(t) == IF t \in EmptyTypes THEN {Default} ELSE Value

Next ==
  \/ \E id \in 1 .. MaxId, ts \in SUBSET ClientTypes \ {{}} :
       \/ CreateEntity(id, ts)
       \/ \E values \in [ts -> Value] : CreateEntityWithValues(id, values)
  \/ \E id \in DOMAIN entities :
       \/ DeleteEntity(id)
       \/ \E ts \in SUBSET (ClientTypes \cup DOMAIN entities[id]) : ChangeTypes(id, ts)
       \/ \E t \in ClientTypes : \E v \in ValuesOf(t) :
            AddComponent(id, t, v) \/ SetComponent(id, t, v)

Spec == Init /\ [][Next]_vars

-----------------------------------------------------------------------------
\* What EntityStore does not promise, and an Ecs does all the same.

\* Entities that can be in one chunk with this one.
Neighbours(id) ==
  {other \in DOMAIN entities \ {id} :
     /\ DOMAIN entities[other] = DOMAIN entities[id]
     /\ \A t \in SharedTypes(DOMAIN entities[id]) : entities[other][t] = entities[id][t]}

\* The id of the entity first, whose place was left, leads to nothing or to a
\* neighbour that was moved there.
Displaced(first) ==
  {Restrict(entities, DOMAIN entities \ {first})}
    \cup {[entities EXCEPT ![first] = entities[other]] : other \in Neighbours(first)}

\* A shared component is set for an entity that is gone: the id gets the place
\* of the first entity of the store, and the value of that one is set.
SetSharedOfGoneId(id, t, v) ==
  /\ UNCHANGED issued
  /\ \E first \in DOMAIN entities :
       LET e == entities[first]
       IN  /\ t \in DOMAIN e
           /\ \E others \in IF e[t] = v THEN {entities} ELSE Displaced(first) :
                entities' = Put(others, id, [e EXCEPT ![t] = v])
=============================================================================
