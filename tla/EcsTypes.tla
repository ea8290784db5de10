----------------------------- MODULE EcsTypes -----------------------------
(***************************************************************************)
(* The types of an Ecs: their registration and lists, and the locks that   *)
(* views take of the types registered in one of the Ecs objects; and the   *)
(* layout of the chunks of an archetype.                                   *)
(***************************************************************************)
EXTENDS TypeRegistry, TypeLocks, ChunkLayout

CONSTANT Locking  \* the Ecs whose types are locked

\* The layouts that are tried are those of all lists of types a chunk can have.
ASSUME ArchetypeAssumption == Len(Order) - InternalTypes <= MaxTypes

vars == <<registryVars, lockVars>>

Init == RegistryInit /\ LockInit

\* The locks and the lists do not read each other: it is enough to look at
\* behaviours that lock before the first archetype of the Ecs is made, and have
\* given back all locks by then.
LockStep(c, t) ==
  /\ t \in Registered(Locking) /\ archetypes[Locking] = {}
  /\ \/ LockTypeForRead(c, t)  \/ LockTypeForWrite(c, t)
     \/ ReleaseTypeForRead(c, t) \/ ReleaseTypeForWrite(c, t)

Next ==
  \/ /\ RegistryNext /\ UNCHANGED lockVars
     /\ archetypes'[Locking] # {} => LockInit
  \/ /\ \E c \in Clients, t \in LockTypes : LockStep(c, t)
     /\ UNCHANGED registryVars

Spec == Init /\ [][Next]_vars

-----------------------------------------------------------------------------
\* A chunk of any archetype has for each of its types an aligned array of as
\* many elements as the constructor found room for, within its buffer and
\* apart from the others: for every mix of sizes, alignments and kinds and every
\* order of registration.  (If it finds room for one entity at least: that the
\* capacity is not 0, or negative, nobody checks.)
LayoutFits ==
  \A e \in Stores : \A list \in archetypes[e] : FitAny[CalcTypeCount(list)]
=============================================================================
