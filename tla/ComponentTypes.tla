------------------------- MODULE ComponentTypes -------------------------
(***************************************************************************)
(* The component types an Ecs knows (ecs_util.h: ComponentType,           *)
(* TypeDescriptor) and the questions the storage asks of a set of types.   *)
(*                                                                         *)
(* A typeIdList, which the code keeps as a bit field over the registered   *)
(* types, is the set of the types whose bit is set.  All types are         *)
(* registered before the first entity is created, so every list has the    *)
(* same width.                                                             *)
(***************************************************************************)
EXTENDS Integers, FiniteSets

CONSTANTS
  Types,          \* the registered types: an Ecs's typeDescriptors_
  Kind,           \* TypeDescriptor.type of each type
  EmptyTypes,     \* the types of size 0 (std::is_empty): tags, without data
  DeletedEntity,  \* the internal tag that marks a deleted entity
  Value,          \* the values a component can have
  Default,        \* the value of a component built as T{}
  Uninit          \* the content of memory that no constructor ran on

ASSUME TypesAssumption ==
  /\ DeletedEntity \in EmptyTypes
  /\ EmptyTypes \subseteq Types
  /\ Kind \in [Types -> {"Regular", "DontSave", "Shared", "State", "Internal"}]
  /\ Kind[DeletedEntity] = "Internal"
  /\ Default \in Value
  /\ Uninit \notin Value

-----------------------------------------------------------------------------

\* The types a chunk keeps one array of: one element per entity.
ArrayTypes(ts) == {t \in ts \ EmptyTypes : Kind[t] # "Shared"}

\* The types a chunk keeps one value of, shared by all its entities.
SharedTypes(ts) == {t \in ts \ EmptyTypes : Kind[t] = "Shared"}

\* typeIdList::createTypeListStateComponentsOnly
StateTypes(ts) == {t \in ts : Kind[t] = "State"}

\* A list with which changeComponents deletes the entity: no component is
\* left, or only the mark of a deleted entity.
Vanishes(ts) == ts \subseteq {DeletedEntity}

=============================================================================
