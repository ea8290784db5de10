------------------------- MODULE MCCommandBuffer -------------------------
(* A small instance of CommandBuffer. *)
EXTENDS CommandBuffer, TLC

MCTypes == {"A", "Sh", "Deleted"}

MCKind ==
  [t \in MCTypes |-> CASE t = "A"       -> "Regular"
                       [] t = "Sh"      -> "Shared"
                       [] t = "Deleted" -> "Internal"]

MCTypeLists == {{"A"}, {"Sh"}}

\* The jobs run the same code.
Symmetry == Permutations(Jobs)
=============================================================================
