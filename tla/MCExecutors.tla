---------------------------- MODULE MCExecutors ----------------------------
(* Small instances: a pool of three workers, two clients and three tasks; a *)
(* queue with two thieves and three items, whose array grows twice; and     *)
(* three fibers that lock in different ways, with a slot for two of them.   *)
EXTENDS Executors

CONSTANTS f1, f2, f3

MCBehaviors ==
  (f1 :> {"Traditional"}) @@ (f2 :> {"Spin"}) @@ (f3 :> {"SpinInfinite", "Try"})
=============================================================================
