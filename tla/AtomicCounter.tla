--------------------------- MODULE AtomicCounter ---------------------------
(***************************************************************************)
(* The counters fibers wait on (ftl, atomic_counter.h).  A call is several *)
(* steps: it enters (m_lock), accesses the value, resumes the fibers that  *)
(* wait for the new value, and leaves.                                     *)
(*                                                                         *)
(* The list of waiting fibers and the destructor are only declared in the  *)
(* repository; they do here what the comments at their declarations say.   *)
(***************************************************************************)
EXTENDS Integers, FiniteSets

CONSTANTS
  Fibers,      \* who calls
  Counters,
  FiberSlots,  \* m_fiberSlots
  ValueRange   \* values are unsigned: 2^32

ASSUME CounterAssumption ==
  /\ IsFiniteSet(Fibers)
  /\ FiberSlots \in Nat
  /\ ValueRange \in Nat \ {0}

VARIABLES
  value,      \* m_value of each counter
  inside,     \* m_lock of each counter
  waiting,    \* m_waitingFibers of each counter, as <<fiber, target value>>
  destroyed,  \* the counters whose destructor has returned
  call        \* the call each fiber is in

counterVars == <<value, inside, waiting, destroyed, call>>

NoCall == [at |-> "none"]

\* The call of fiber f goes on like this, or it has returned a result.
Proceeds(f, c) == call' = [call EXCEPT ![f] = c]
Yields(f, result) == Proceeds(f, [at |-> "returned", result |-> result])

CounterInit ==
  /\ value = [c \in Counters |-> 0]
  /\ inside = [c \in Counters |-> 0]
  /\ waiting = [c \in Counters |-> {}]
  /\ destroyed = {}
  /\ call = [f \in Fibers |-> NoCall]

-----------------------------------------------------------------------------
\* The operations, as functions of the value: the new one, ...
NewValue(o, v) ==
  CASE o.kind = "FetchAdd" -> (v + o.x) % ValueRange
    [] o.kind = "FetchSub" -> (v - o.x) % ValueRange
    [] o.kind = "Store" -> o.x
    [] o.kind = "CompareExchange" /\ v = o.expected -> o.new
    [] OTHER -> v

\* ... whether it is stored, so that waiting fibers are looked at, ...
Stores(o, v) ==
  o.kind # "Load" /\ (o.kind = "CompareExchange" => v = o.expected)

\* (A result of a compare-and-exchange that is a success whatever happens.)
ResultAlways(o, v) == IF o.kind = "CompareExchange" THEN TRUE ELSE v

\* ... and the result.
ResultOf(o, v) == IF o.kind = "CompareExchange" THEN v = o.expected ELSE v

Load == [kind |-> "Load"]
Store(x) == [kind |-> "Store", x |-> x]
FetchAdd(x) == [kind |-> "FetchAdd", x |-> x]
FetchSub(x) == [kind |-> "FetchSub", x |-> x]
CompareExchange(expected, new) == [kind |-> "CompareExchange", expected |-> expected, new |-> new]

\* A call of operation o on counter c begins.
Enter(f, c, o) ==
  /\ inside' = [inside EXCEPT ![c] = @ + 1]
  /\ Proceeds(f, [at |-> "entered", counter |-> c, o |-> o])
  /\ UNCHANGED <<value, waiting, destroyed>>

\* The access to m_value.
Access(f) ==
  LET c == call[f].counter
      o == call[f].o
      v == value[c]
  IN  /\ call[f].at = "entered"
      /\ value' = [value EXCEPT ![c] = NewValue(o, v)]
      /\ Proceeds(f, [at      |-> IF Stores(o, v) THEN "checking" ELSE "leaving",
                      counter |-> c, new |-> NewValue(o, v), result |-> ResultOf(o, v)])
      /\ UNCHANGED <<inside, waiting, destroyed>>

\* CheckWaitingFibers, with the value stored, whatever it is now.
CheckWaitingFibers(f) ==
  LET c == call[f].counter
  IN  /\ call[f].at = "checking"
      /\ waiting' = [waiting EXCEPT ![c] = {w \in @ : w[2] # call[f].new}]
      /\ Proceeds(f, [call[f] EXCEPT !.at = "leaving"])
      /\ UNCHANGED <<value, inside, destroyed>>

\* The call ends.
Leave(f) ==
  /\ call[f].at = "leaving"
  /\ inside' = [inside EXCEPT ![call[f].counter] = @ - 1]
  /\ Yields(f, call[f].result)
  /\ UNCHANGED <<value, waiting, destroyed>>

-----------------------------------------------------------------------------
\* TaskScheduler::WaitForCounter puts the fiber on the list.  With no free slot
\* the fiber is not tracked, and sleeps for ever.
WaitForCounter(f, c, target) ==
  /\ IF Cardinality(waiting[c]) < FiberSlots
       THEN /\ waiting' = [waiting EXCEPT ![c] = @ \union {<<f, target>>}]
            /\ Proceeds(f, [at |-> "listed", counter |-> c, target |-> target])
       ELSE /\ Proceeds(f, [at |-> "lost", counter |-> c])
            /\ UNCHANGED waiting
  /\ UNCHANGED <<value, inside, destroyed>>

\* An AddFiberToWaitingList that does not look at the value again.
SleepAtOnce(f) ==
  /\ call[f].at = "listed"
  /\ Proceeds(f, [call[f] EXCEPT !.at = "asleep"])
  /\ UNCHANGED <<value, inside, waiting, destroyed>>

\* AddFiberToWaitingList looks at the value again: if it is the target and the
\* fiber is on the list still, it does not wait.
LookAgain(f) ==
  LET c == call[f].counter
      mine == <<f, call[f].target>>
  IN  /\ call[f].at = "listed"
      /\ IF value[c] = call[f].target /\ mine \in waiting[c]
           THEN waiting' = [waiting EXCEPT ![c] = @ \ {mine}] /\ Yields(f, TRUE)
           ELSE Proceeds(f, [call[f] EXCEPT !.at = "asleep"]) /\ UNCHANGED waiting
      /\ UNCHANGED <<value, inside, destroyed>>

\* A fiber that is not on the list any more is resumed.
Resume(f) ==
  /\ call[f].at = "asleep" /\ <<f, call[f].target>> \notin waiting[call[f].counter]
  /\ Yields(f, TRUE)
  /\ UNCHANGED <<value, inside, waiting, destroyed>>

\* A destructor that does not look at m_lock.
MayDestroyAtOnce(c) == TRUE

\* "An atomic counter to ensure the instance can't be destroyed while other
\* threads are still inside a function."
MayDestroy(c) == inside[c] = 0

\* ~AtomicCounter
Destroy(c) ==
  /\ c \notin destroyed /\ MayDestroy(c)
  /\ destroyed' = destroyed \union {c}
  /\ UNCHANGED <<value, inside, waiting, call>>

\* The steps of a call, once it has begun.
CallStep(f) ==
  \/ Access(f) \/ CheckWaitingFibers(f) \/ Leave(f)
  \/ LookAgain(f) \/ Resume(f)

-----------------------------------------------------------------------------
CounterTypeOK ==
  /\ value \in [Counters -> 0 .. ValueRange - 1]
  /\ \A c \in Counters :
       /\ inside[c] = Cardinality({f \in Fibers :
                        call[f].at \in {"entered", "checking", "leaving"} /\ call[f].counter = c})
       /\ \A w \in waiting[c] :
            /\ w[1] \in Fibers /\ w[2] \in 0 .. ValueRange - 1
            /\ call[w[1]].at \in {"listed", "asleep"} /\ call[w[1]].counter = c
  /\ destroyed \subseteq Counters
=============================================================================
