------------------------------ MODULE MCView ------------------------------
(* A small instance of View: the types, kinds and capacities of MCEcs. *)
EXTENDS View

MCTypes == {"A", "Tag", "Sh", "Deleted"}

MCKind ==
  [t \in MCTypes |-> CASE t \in {"A", "Tag"} -> "Regular"
                       [] t = "Sh"            -> "Shared"
                       [] t = "Deleted"       -> "Internal"]

MCEmptyTypes == {"Tag", "Deleted"}

\* Two entities in a chunk if they have two types, else one.
MCCapacity == [ts \in SUBSET MCTypes |-> IF Cardinality(ts) = 1 THEN 1 ELSE 2]

\* .with<Sh>().exclude<A>(); view<>() is there from the beginning.
MCQueries == {[required |-> {"Sh"}, excluded |-> {"A"}]}
=============================================================================
