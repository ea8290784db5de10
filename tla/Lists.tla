------------------------------- MODULE Lists -------------------------------
(***************************************************************************)
(* What the loops over lists compute, as folds.                            *)
(***************************************************************************)
EXTENDS Integers, SequencesExt

\* The elements of a list that are in S, in their order.
Kept(list, S) ==
  FoldLeft(LAMBDA kept, x : IF x \in S THEN Append(kept, x) ELSE kept, << >>, list)

\* The sum of a list of numbers.
Total(numbers) == FoldLeft(LAMBDA n, m : n + m, 0, numbers)
=============================================================================
