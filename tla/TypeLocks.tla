---------------------------- MODULE TypeLocks ----------------------------
(***************************************************************************)
(* The locks an Ecs keeps of component types (lockTypeForRead,             *)
(* lockTypeForWrite and their releases).  They are lists of types and do   *)
(* not say whose a lock is.  A call that cannot lock returns false and     *)
(* nobody waits.  The lists are not guarded: calls do not overlap.         *)
(*                                                                         *)
(* A client releases the locks it got; as the code does not tell them      *)
(* apart, one that released others would take the locks of another.        *)
(***************************************************************************)
EXTENDS Integers, FiniteSets

CONSTANTS
  Clients,   \* who locks: the views
  LockTypes  \* the types they lock

VARIABLES
  lockedForRead,   \* how often each type is in the list lockedForRead
  lockedForWrite,  \* how often each is in lockedForWrite
  reading,         \* history: the types each client has locked for reading
  writing          \* history: the types each has locked for writing

lockVars == <<lockedForRead, lockedForWrite, reading, writing>>

ASSUME LocksAssumption == IsFiniteSet(Clients)

Holding(held, c, t) == [held EXCEPT ![c] = @ \cup {t}]

Without(held, c, t) == [held EXCEPT ![c] = @ \ {t}]

LockInit ==
  /\ lockedForRead = [t \in LockTypes |-> 0]
  /\ lockedForWrite = [t \in LockTypes |-> 0]
  /\ reading = [c \in Clients |-> {}]
  /\ writing = [c \in Clients |-> {}]

\* Ecs::lockTypeForRead.  (A call that returns false changes nothing.)
LockTypeForRead(c, t) ==
  /\ t \notin reading[c]
  /\ lockedForWrite[t] = 0
  /\ lockedForRead' = [lockedForRead EXCEPT ![t] = @ + 1]
  /\ reading' = Holding(reading, c, t)
  /\ UNCHANGED <<lockedForWrite, writing>>

\* A lockTypeForWrite that does not look for readers.
MayLockForWriteUnread(t) == lockedForWrite[t] = 0

MayLockForWrite(t) == lockedForWrite[t] = 0 /\ lockedForRead[t] = 0

\* Ecs::lockTypeForWrite
LockTypeForWrite(c, t) ==
  /\ MayLockForWrite(t)
  /\ lockedForWrite' = [lockedForWrite EXCEPT ![t] = @ + 1]
  /\ writing' = Holding(writing, c, t)
  /\ UNCHANGED <<lockedForRead, reading>>

\* Ecs::releaseTypeForRead, which asserts that the type is locked.
ReleaseTypeForRead(c, t) ==
  /\ t \in reading[c]
  /\ lockedForRead' = [lockedForRead EXCEPT ![t] = IF @ > 0 THEN @ - 1 ELSE @]
  /\ reading' = Without(reading, c, t)
  /\ UNCHANGED <<lockedForWrite, writing>>

\* Ecs::releaseTypeForWrite
ReleaseTypeForWrite(c, t) ==
  /\ t \in writing[c]
  /\ lockedForWrite' = [lockedForWrite EXCEPT ![t] = IF @ > 0 THEN @ - 1 ELSE @]
  /\ writing' = Without(writing, c, t)
  /\ UNCHANGED <<lockedForRead, reading>>

LockNext ==
  \E c \in Clients, t \in LockTypes :
    \/ LockTypeForRead(c, t)  \/ LockTypeForWrite(c, t)
    \/ ReleaseTypeForRead(c, t) \/ ReleaseTypeForWrite(c, t)

LockSpec == LockInit /\ [][LockNext]_lockVars

-----------------------------------------------------------------------------
LockTypeOK ==
  /\ lockedForRead \in [LockTypes -> Nat]
  /\ lockedForWrite \in [LockTypes -> Nat]
  /\ reading \in [Clients -> SUBSET LockTypes]
  /\ writing \in [Clients -> SUBSET LockTypes]

\* While a client has a type locked for writing no client, itself included,
\* has it locked for reading, and no other for writing, although the lists do
\* not say whose a lock is; and releaseTypeForRead never meets its assertion.
LocksExclude ==
  \A c, d \in Clients, t \in LockTypes :
    /\ t \in writing[c] => t \notin reading[d] /\ (t \in writing[d] => c = d)
    /\ t \in reading[c] => lockedForRead[t] > 0
=============================================================================
