--------------------------- MODULE WaitFreeQueue ---------------------------
(***************************************************************************)
(* The queue of tasks of a thread of the task scheduler (ftl,              *)
(* wait_free_queue.h): its owner pushes and pops at the bottom while other *)
(* threads steal at the top, without a lock.                               *)
(*                                                                         *)
(* An action goes up to the next access of a thread to what others write,  *)
(* or to what others read: only the owner writes m_bottom, m_array and the *)
(* arrays.  Memory is taken to be sequentially consistent.                 *)
(***************************************************************************)
EXTENDS Integers, FiniteSets, Sequences, SequencesExt

CONSTANTS
  QueueOwner,    \* the thread the queue belongs to
  Thieves,       \* the others
  StartingSize,  \* kStartingCircularArraySize: 32
  IndexRange,    \* of m_top and m_bottom: 2^64
  MaxPushes      \* bound: the items, numbered as they are pushed

ASSUME QueueAssumption ==
  /\ QueueOwner \notin Thieves
  /\ StartingSize \in Nat \ {0}
  /\ MaxPushes \in Nat
  /\ IndexRange \in Nat /\ IndexRange > MaxPushes + 1   \* or the indices wrap around

VARIABLES
  top, bottom,  \* m_top and m_bottom
  arrays,       \* the last is m_array; threads may still read those before it
  op,           \* the call each thread is in, with its local variables
  pops,         \* history: the items the owner got, in that order
  steals        \* history: those the others got

queueVars == <<top, bottom, arrays, op, pops, steals>>

NoItem == 0

Size(array) == Cardinality(DOMAIN array)

\* CircularArray::Get and Put
Item(array, i) == array[i % Size(array)]
WithItem(array, i, x) == [array EXCEPT ![i % Size(array)] = x]

Newest == arrays[Len(arrays)]

\* An index after one more, or one less; they are unsigned.
Up(i) == (i + 1) % IndexRange
Down(i) == (i - 1) % IndexRange

\* CircularArray::Grow: the items at t to b - 1 keep their indices.
Grown(array, t, b) ==
  LET size  == 2 * Size(array)
      moved == {(t + k) % IndexRange : k \in 0 .. ((b - t) % IndexRange) - 1}
      At(i) == {j \in moved : j % size = i}
  IN  [i \in 0 .. size - 1 |-> IF At(i) = {} THEN NoItem ELSE Item(array, CHOOSE j \in At(i) : TRUE)]

Idle == [at |-> "idle"]

\* The call of thread p goes on with these local variables, or it returns.
Continues(p, call) == op' = [op EXCEPT ![p] = call]
Returns(p) == Continues(p, Idle)

NoneTaken == UNCHANGED <<pops, steals>>

-----------------------------------------------------------------------------
\* An index below which there is none: the first Pop of an empty queue
\* underflows.
StartFromNothing == 0

Start == 1

QueueInit ==
  /\ top = Start /\ bottom = Start
  /\ arrays = << [i \in 0 .. StartingSize - 1 |-> NoItem] >>
  /\ op = [p \in Thieves \union {QueueOwner} |-> Idle]
  /\ pops = << >> /\ steals = << >>

\* Push, up to the load of m_top.
BeginPush(x) ==
  /\ op[QueueOwner] = Idle
  /\ Continues(QueueOwner, [at |-> "push", item |-> x, t |-> top])
  /\ UNCHANGED <<top, bottom, arrays>> /\ NoneTaken

\* A check that lets an array run over by one.
FullTooLate(t) == (bottom - t) % IndexRange > Size(Newest)

Full(t) == (bottom - t) % IndexRange > Size(Newest) - 1

\* Push has found the queue full.
Grow ==
  LET call == op[QueueOwner]
  IN  /\ call.at = "push" /\ Full(call.t)
      /\ arrays' = Append(arrays, Grown(Newest, call.t, bottom))
      /\ Continues(QueueOwner, [call EXCEPT !.at = "put"])
      /\ UNCHANGED <<top, bottom>> /\ NoneTaken

Put ==
  LET call == op[QueueOwner]
  IN  /\ call.at = "put" \/ (call.at = "push" /\ ~Full(call.t))
      /\ arrays' = [arrays EXCEPT ![Len(arrays)] = WithItem(@, bottom, call.item)]
      /\ Continues(QueueOwner, [call EXCEPT !.at = "publish"])
      /\ UNCHANGED <<top, bottom>> /\ NoneTaken

\* The end of Push.
Publish ==
  /\ op[QueueOwner].at = "publish"
  /\ bottom' = Up(bottom)
  /\ Returns(QueueOwner)
  /\ UNCHANGED <<top, arrays>> /\ NoneTaken

-----------------------------------------------------------------------------
\* Pop, up to the fence.
BeginPop ==
  /\ op[QueueOwner] = Idle
  /\ bottom' = Down(bottom)
  /\ Continues(QueueOwner, [at |-> "pop"])
  /\ UNCHANGED <<top, arrays>> /\ NoneTaken

\* Pop looks at m_top: there is more than one item and it returns the last, ...
PopOne ==
  /\ op[QueueOwner].at = "pop" /\ top < bottom
  /\ pops' = Append(pops, Item(Newest, bottom))
  /\ Returns(QueueOwner)
  /\ UNCHANGED <<top, bottom, arrays, steals>>

\* ... there is one, for which it has to compete, ...
PopFindsLast ==
  /\ op[QueueOwner].at = "pop" /\ top = bottom
  /\ Continues(QueueOwner, [at |-> "last", t |-> top])
  /\ UNCHANGED <<top, bottom, arrays>> /\ NoneTaken

\* ... or there is none.
PopFindsNone ==
  /\ op[QueueOwner].at = "pop" /\ top > bottom
  /\ Continues(QueueOwner, [at |-> "restore"])
  /\ UNCHANGED <<top, bottom, arrays>> /\ NoneTaken

\* The compare-and-exchange of m_top succeeds.
Wins(t) == top = t

\* Pop wins the last item, or somebody has stolen it.
PopLast ==
  LET call == op[QueueOwner]
  IN  /\ call.at = "last"
      /\ IF Wins(call.t)
           THEN top' = Up(call.t) /\ pops' = Append(pops, Item(Newest, bottom))
           ELSE UNCHANGED <<top, pops>>
      /\ Continues(QueueOwner, [at |-> "restore"])
      /\ UNCHANGED <<bottom, arrays, steals>>

\* The end of Pop, if it did not find more than one item.
Restore ==
  /\ op[QueueOwner].at = "restore"
  /\ bottom' = Up(bottom)
  /\ Returns(QueueOwner)
  /\ UNCHANGED <<top, arrays>> /\ NoneTaken

-----------------------------------------------------------------------------
\* Steal, up to the load of m_top.
BeginSteal(p) ==
  /\ op[p] = Idle
  /\ Continues(p, [at |-> "steal", t |-> top])
  /\ UNCHANGED <<top, bottom, arrays>> /\ NoneTaken

\* Steal loads m_bottom, and returns if there is nothing to steal.
LoadBottom(p) ==
  /\ op[p].at = "steal"
  /\ IF op[p].t < bottom THEN Continues(p, [op[p] EXCEPT !.at = "array"]) ELSE Returns(p)
  /\ UNCHANGED <<top, bottom, arrays>> /\ NoneTaken

\* Steal loads m_array.
LoadArray(p) ==
  /\ op[p].at = "array"
  /\ Continues(p, [at |-> "get", t |-> op[p].t, array |-> Len(arrays)])
  /\ UNCHANGED <<top, bottom, arrays>> /\ NoneTaken

\* Steal reads the item.  The owner may write over it, but then m_top has gone on.
GetItem(p) ==
  /\ op[p].at = "get"
  /\ Continues(p, [at |-> "take", t |-> op[p].t, item |-> Item(arrays[op[p].array], op[p].t)])
  /\ UNCHANGED <<top, bottom, arrays>> /\ NoneTaken

\* The end of Steal.
TakeItem(p) ==
  /\ op[p].at = "take"
  /\ IF Wins(op[p].t) THEN top' = Up(op[p].t) /\ steals' = Append(steals, op[p].item)
     ELSE UNCHANGED <<top, steals>>
  /\ Returns(p)
  /\ UNCHANGED <<bottom, arrays, pops>>

-----------------------------------------------------------------------------
\* One past the last item, also while a Pop has lowered m_bottom.
End == IF op[QueueOwner].at \in {"pop", "last", "restore"} THEN bottom + 1 ELSE bottom

Contents == [k \in 1 .. End - top |-> Item(Newest, top + k - 1)]

\* The number of the next item, and those that may still come.
NextItem == Len(Contents) + Len(pops) + Len(steals) + 1

QueueNext ==
  \/ NextItem <= MaxPushes /\ BeginPush(NextItem)
  \/ Grow \/ Put \/ Publish
  \/ BeginPop \/ PopOne \/ PopFindsLast \/ PopFindsNone \/ PopLast \/ Restore
  \/ \E p \in Thieves :
       BeginSteal(p) \/ LoadBottom(p) \/ LoadArray(p) \/ GetItem(p) \/ TakeItem(p)

QueueSpec == QueueInit /\ [][QueueNext]_queueVars

-----------------------------------------------------------------------------
\* The type invariant.  m_top is at most one past m_bottom, and only during a Pop.
QueueTypeOK ==
  /\ bottom \in 0 .. MaxPushes + 1 /\ top \in Start .. End
  /\ \A k \in DOMAIN arrays : arrays[k] \in [0 .. Size(arrays[k]) - 1 -> 0 .. MaxPushes]
  /\ Size(arrays[1]) = StartingSize
  /\ \A k \in 2 .. Len(arrays) : Size(arrays[k]) = 2 * Size(arrays[k - 1])
  /\ End - top <= Size(Newest)
  /\ \A p \in DOMAIN op : op[p].at \in
       IF p = QueueOwner THEN {"idle", "push", "put", "publish", "pop", "last", "restore"}
       ELSE {"idle", "steal", "array", "get", "take"}

Abstract == INSTANCE Deque WITH contents <- Contents, popped <- pops, stolen <- steals

\* The queue implements Deque: whatever the owner and thieves do at the same
\* time, and although the array is replaced under them, no item is lost or
\* taken twice, the owner gets the newest and a thief the oldest.
ImplementsDeque == Abstract!Spec
=============================================================================
