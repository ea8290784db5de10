------------------------------ MODULE MCEcs ------------------------------
(* Small instances of Ecs. *)
EXTENDS Ecs

\* A type of each kind the storage tells apart; a run's clients use some.
MCTypes == {"A", "D", "Tag", "S", "Sh", "Sh2", "Deleted"}

MCKind ==
  [t \in MCTypes |-> CASE t \in {"A", "Tag"} -> "Regular"
                       [] t = "D"            -> "DontSave"
                       [] t = "S"            -> "State"
                       [] t = "Deleted"      -> "Internal"
                       [] OTHER              -> "Shared"]

MCEmptyTypes == {"Tag", "Deleted"}

\* Room for more entities in a chunk the fewer types they have, ...
MCCapacityFew == [ts \in SUBSET MCTypes |-> IF Cardinality(ts) = 1 THEN 2 ELSE 1]

\* ... the more they have, ...
MCCapacityMany == [ts \in SUBSET MCTypes |-> IF Cardinality(ts) = 1 THEN 1 ELSE 2]

\* ... or for three, whatever types they have.
MCCapacityThree == [ts \in SUBSET MCTypes |-> 3]
=============================================================================
