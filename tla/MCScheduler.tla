---------------------------- MODULE MCScheduler ----------------------------
(* A small instance of Scheduler: a class with one job and one with two. *)
EXTENDS Scheduler

MCJobsOf == [c \in {"One", "Two"} |-> IF c = "One" THEN <<"q">> ELSE <<"r", "q">>]
=============================================================================
