---------------------------- MODULE MCSaveLoad ----------------------------
(* A small instance of SaveLoad: a type of each kind and a shared one without  *)
(* data.                                                                     *)
EXTENDS SaveLoad

MCTypes == {"A", "Vec", "D", "S", "Sh", "Flag", "Skip", "Deleted"}

MCKind ==
  [t \in MCTypes |-> CASE t \in {"A", "Vec"}        -> "Regular"
                       [] t = "D"                   -> "DontSave"
                       [] t = "S"                   -> "State"
                       [] t \in {"Sh", "Flag"}      -> "Shared"
                       [] t \in {"Skip", "Deleted"} -> "Internal"]

MCEmptyTypes == {"Flag", "Skip", "Deleted"}

\* Room for two entities that have one type, else for one.
MCCapacity == [ts \in SUBSET MCTypes |-> IF Cardinality(ts) < 2 THEN 2 ELSE 1]

MCRaw == MCTypes \ {"Vec"}

\* The indices are not in the order of the names.
MCTypeIndex ==
  [t \in MCTypes |-> CASE t = "Skip" -> 0 [] t = "Deleted" -> 1 [] t = "Sh" -> 2 [] t = "A" -> 3
                       [] t = "Vec"  -> 4 [] t = "S"       -> 5 [] t = "D"  -> 6
                       [] t = "Flag" -> 7]

MCTypeLists == {{"A"}, {"A", "S"}, {"D", "Vec"}, {"A", "Skip"}, {"Sh"}, {"Flag"}, {"S"}}
=============================================================================
