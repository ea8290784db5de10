------------------------------- MODULE Deque -------------------------------
(***************************************************************************)
(* What the queue of a thread of the task scheduler promises: its owner    *)
(* adds items at one end and takes the newest, other threads take the      *)
(* oldest.  Each of these happens at once, and an item is taken by one.    *)
(***************************************************************************)
EXTENDS Integers, Sequences, SequencesExt

CONSTANT MaxPushes  \* bound: the items, numbered as they are added

VARIABLES
  contents,  \* the items in the queue, the oldest first
  popped,    \* those the owner has taken
  stolen     \* those taken by others, in that order

vars == <<contents, popped, stolen>>

\* The number of the next item.
Fresh == Len(contents) + Len(stolen) + Len(popped) + 1

Init == contents = << >> /\ popped = << >> /\ stolen = << >>

Push ==
  /\ Fresh <= MaxPushes
  /\ contents' = Append(contents, Fresh)
  /\ UNCHANGED <<popped, stolen>>

Pop ==
  /\ contents # << >>
  /\ popped' = Append(popped, Last(contents))
  /\ contents' = Front(contents)
  /\ UNCHANGED stolen

Steal ==
  /\ contents # << >>
  /\ stolen' = Append(stolen, Head(contents))
  /\ contents' = Tail(contents)
  /\ UNCHANGED popped

Next == Push \/ Pop \/ Steal

Spec == Init /\ [][Next]_vars
=============================================================================
