-------------------------- MODULE CommandBuffer --------------------------
(***************************************************************************)
(* The deferred commands of an Ecs (entitycommand.h; ecs.h:                *)
(* getTempEntityId, addToCommandBuffer; view.h: the functions of a View    *)
(* that record a command; ecs_impl.h: executeCommmandBuffer).              *)
(*                                                                         *)
(* The jobs of several threads must not change the store.  They record     *)
(* commands, and name an entity that does not exist yet by a negative,     *)
(* temporary id.  When no job is running, the main thread executes the     *)
(* commands in the order of the buffer and maps temporary ids to the       *)
(* entities created.  What a command does to the entities is what          *)
(* EntityStore says of the operation it calls.                             *)
(*                                                                         *)
(* A shared component set for an entity that is gone changes another one   *)
(* and gives two ids one place (see Ecs).  From then on the entities are   *)
(* not followed any more, the commands are.                                *)
(***************************************************************************)
EXTENDS ComponentTypes, Sequences

CONSTANTS
  Jobs,         \* the jobs that record commands, each on a thread: finitely many
  TypeLists,    \* the lists of types that occur in commands
  Written,      \* the values that commands write into existing entities
  MaxId,        \* bound: the ids of entities are 1 .. MaxId
  MaxTemp,      \* bound: the temporary ids are -MaxTemp .. -1
  MaxCommands   \* bound: the commands in the buffer

ASSUME CommandAssumption ==
  /\ TypeLists \subseteq SUBSET (Types \ {DeletedEntity})
  /\ Written \subseteq Value
  /\ IsFiniteSet(Jobs)
  /\ MaxId \in Nat /\ MaxTemp \in Nat /\ MaxCommands \in Nat

VARIABLES
  entities,                    \* the store, as EntityStore keeps it
  issued,
  entityCommandBuffer,         \* entityCommandBuffer_
  executing,                   \* the next command to execute; 0 while recording
  temporaryEntityIdRemapping,  \* temporaryEntityIdRemapping_
  nextTempEntityId,
  taken,                       \* the temporary id a job has fetched and not yet recorded, or 0
  made,                        \* history: <<temporary id, id>> for each entity created
  aliased,                     \* two ids have one place in the store
  ub                           \* a command met undefined behaviour: the end

store == <<entities, issued>>
commands == <<entityCommandBuffer, executing, taken, nextTempEntityId>>
vars == <<store, commands, temporaryEntityIdRemapping, made, aliased, ub>>

ClientTypes == UNION TypeLists

Store == INSTANCE EntityStore

\* The temporary ids whose creation was published before it was recorded.
KnownEarly == {-k : k \in 1 .. nextTempEntityId - 1}

\* The temporary ids a View has returned: to whoever called createEntity, and
\* so to all jobs.  They stay known when the buffer has been executed.
Known == KnownEarly \ {-taken[job] : job \in Jobs}

Init ==
  /\ Store!Init
  /\ entityCommandBuffer = << >>
  /\ executing = 0
  /\ temporaryEntityIdRemapping = << >>
  /\ nextTempEntityId = 1
  /\ taken = [job \in Jobs |-> 0]
  /\ made = {}
  /\ aliased = FALSE
  /\ ub = FALSE

-----------------------------------------------------------------------------
\* Recording.

Idle(job) == ~ub /\ executing = 0 /\ taken[job] = 0

\* The entities that will have been created.
Expected ==
  Cardinality(issued) + (nextTempEntityId - 1) - Cardinality(made)

Slots == Len(entityCommandBuffer) + Cardinality({job \in Jobs : taken[job] # 0})

\* View::createEntity, its first half: getTempEntityId, an atomic fetch_add.
TakeTempId(job) ==
  /\ Idle(job)
  /\ nextTempEntityId <= MaxTemp /\ Expected < MaxId /\ Slots < MaxCommands
  /\ taken' = [taken EXCEPT ![job] = nextTempEntityId]
  /\ nextTempEntityId' = nextTempEntityId + 1
  /\ UNCHANGED <<store, entityCommandBuffer, executing, temporaryEntityIdRemapping,
                 made, aliased, ub>>

\* Ecs::addToCommandBuffer: emplace_back under the mutex.
AddToCommandBuffer(command) ==
  /\ entityCommandBuffer' = Append(entityCommandBuffer, command)
  /\ UNCHANGED <<store, executing, nextTempEntityId, temporaryEntityIdRemapping, made,
                 aliased, ub>>

\* ... and its second half.  (From a prefab: the values are the prefab's,
\* which is read when the command is executed and assumed to be unchanged.)
RecordCreate(job, values) ==
  /\ ~ub
  /\ taken[job] # 0
  /\ AddToCommandBuffer([op |-> "Create", id |-> -taken[job], values |-> values])
  /\ taken' = [taken EXCEPT ![job] = 0]

ClientIds == issued \cup Known

\* The other commands, on an entity that may be gone by now, or later.
Commands ==
  [op : {"Delete"}, id : ClientIds]
    \cup [op : {"DeleteComponents", "ChangeComponents"}, id : ClientIds, types : TypeLists]
    \cup [op : {"SetComponent"}, id : ClientIds, type : ArrayTypes(ClientTypes), value : Written]
    \cup [op : {"SetSharedComponent"}, id : ClientIds, type : SharedTypes(ClientTypes), value : Written]
    \cup [op : {"AddComponent"}, id : ClientIds, type : ClientTypes \ EmptyTypes, value : Written]
    \cup [op : {"AddComponent"}, id : ClientIds, type : ClientTypes \cap EmptyTypes, value : {Default}]

\* View::deleteEntity, deleteComponents, addComponent, changeComponents,
\* setComponentData, setSharedComponentData.
Record(job, command) ==
  /\ Idle(job)
  /\ Slots < MaxCommands
  /\ AddToCommandBuffer(command)
  /\ UNCHANGED taken

-----------------------------------------------------------------------------
\* The store.

\* What becomes of entities that are not followed any more.
Unfollowed == entities' = << >> /\ ub' \in BOOLEAN

\* Ecs::createEntity gives the next id.
CreateInStore(values) ==
  LET id == Cardinality(issued) + 1
  IN  /\ IF aliased THEN issued' = issued \cup {id} /\ Unfollowed
                    ELSE Store!CreateEntityWithValues(id, values) /\ UNCHANGED ub
      /\ UNCHANGED aliased

\* The main thread's own calls between two runs of the systems.
CallCreate(values) ==
  /\ ~ub /\ executing = 0 /\ Expected < MaxId
  /\ CreateInStore(values)
  /\ UNCHANGED <<commands, temporaryEntityIdRemapping, made>>

CallDelete(id) ==
  /\ ~ub /\ executing = 0
  /\ IF aliased THEN UNCHANGED issued /\ Unfollowed
                ELSE id \in DOMAIN entities /\ Store!DeleteEntity(id) /\ UNCHANGED ub
  /\ UNCHANGED <<commands, temporaryEntityIdRemapping, made, aliased>>

-----------------------------------------------------------------------------
\* Ecs::executeCommmandBuffer, called when all jobs have ended.

StartExecution ==
  /\ ~ub
  /\ executing = 0
  /\ entityCommandBuffer # << >>
  /\ \A job \in Jobs : taken[job] = 0
  /\ executing' = 1
  /\ UNCHANGED <<store, entityCommandBuffer, taken, nextTempEntityId,
                 temporaryEntityIdRemapping, made, aliased, ub>>

Running == ~ub /\ executing \in DOMAIN entityCommandBuffer

Command == entityCommandBuffer[executing]

\* The next command is one of these.
Execute(ops) ==
  /\ Running
  /\ Command.op \in ops
  /\ executing' = executing + 1
  /\ UNCHANGED <<entityCommandBuffer, taken, nextTempEntityId>>

\* A creation that does not record what became of its temporary id.
ExecuteCreateUnmapped ==
  LET id == Cardinality(issued) + 1
  IN  /\ Execute({"Create"})
      /\ CreateInStore(Command.values)
      /\ made' = made \cup {<<Command.id, id>>}
      /\ UNCHANGED temporaryEntityIdRemapping

\* EntityCommand_Create::execute, EntityCommand_CreateFromPrefab::execute
ExecuteCreate ==
  LET id == Cardinality(issued) + 1
  IN  /\ Execute({"Create"})
      /\ CreateInStore(Command.values)
      /\ temporaryEntityIdRemapping' = Store!Put(temporaryEntityIdRemapping, Command.id, id)
      /\ made' = made \cup {<<Command.id, id>>}

\* A lookup that inserts the temporary id itself instead of a zero.
LookUpInsertsSelf(id) ==
  temporaryEntityIdRemapping' =
    IF id < 0 /\ id \notin DOMAIN temporaryEntityIdRemapping
      THEN Store!Put(temporaryEntityIdRemapping, id, id) ELSE temporaryEntityIdRemapping

\* temporaryEntityIdRemapping_[id]: operator[] inserts 0, the id of no entity,
\* for an id of an earlier buffer.
LookUp(id) ==
  temporaryEntityIdRemapping' =
    IF id < 0 /\ id \notin DOMAIN temporaryEntityIdRemapping
      THEN Store!Put(temporaryEntityIdRemapping, id, 0) ELSE temporaryEntityIdRemapping

\* A command that takes the n-th temporary id for the n-th entity.
TargetUnmapped(id) == IF id < 0 THEN -id ELSE id

\* idToUse
Target(id) ==
  IF id >= 0 THEN id
  ELSE IF id \in DOMAIN temporaryEntityIdRemapping THEN temporaryEntityIdRemapping[id] ELSE 0

\* A command on an existing entity.
ExecuteOnEntity(ops) ==
  /\ Execute(ops)
  /\ LookUp(Command.id)
  /\ UNCHANGED made

\* ... in a store where every id has a place of its own.
ExecuteAlone(ops) == ExecuteOnEntity(ops) /\ ~aliased /\ UNCHANGED aliased

Alive(id) == id \in DOMAIN entities

\* The operations return at once if the entity is gone; SetComponent also if
\* it does not have the component.
ExecuteOnNothing ==
  /\ ExecuteAlone({"Delete", "DeleteComponents", "ChangeComponents", "SetComponent", "AddComponent"})
  /\ Alive(Target(Command.id)) =>
       /\ Command.op = "SetComponent"
       /\ Command.type \notin DOMAIN entities[Target(Command.id)]
  /\ UNCHANGED <<store, ub>>

\* EntityCommand_Delete::execute
ExecuteDelete ==
  LET id == Target(Command.id)
  IN  /\ ExecuteAlone({"Delete"})
      /\ Alive(id)
      /\ Store!DeleteEntity(id)
      /\ UNCHANGED ub

\* EntityCommand_SetComponent::execute
ExecuteSetComponent ==
  LET id == Target(Command.id)
  IN  /\ ExecuteAlone({"SetComponent"})
      /\ Alive(id)
      /\ Store!SetComponent(id, Command.type, Command.value)
      /\ UNCHANGED ub

\* The list of types an entity changes to.
NewTypes(id) ==
  CASE Command.op = "ChangeComponents" -> Command.types
    [] Command.op = "DeleteComponents" -> DOMAIN entities[id] \ Command.types
    [] Command.op = "AddComponent"     -> DOMAIN entities[id] \cup {Command.type}

\* EntityCommand_DeleteComponents, _ChangeComponents and _AddComponent::execute.
\* The store may meet undefined behaviour when the entity gets a shared type
\* it does not have.
ExecuteChange ==
  LET id == Target(Command.id)
  IN  /\ ExecuteAlone({"DeleteComponents", "ChangeComponents", "AddComponent"})
      /\ Alive(id)
      /\ \/ /\ ~ (SharedTypes(NewTypes(id)) \subseteq DOMAIN entities[id])
            /\ ub' = TRUE
            /\ UNCHANGED store
         \/ /\ IF Command.op = "AddComponent"
                  THEN Store!AddComponent(id, Command.type, Command.value)
                  ELSE Store!ChangeTypes(id, NewTypes(id))
            /\ UNCHANGED ub

\* EntityCommand_SetSharedComponent::execute.  Archetype::setSharedComponent
\* reads a null pointer if the entity does not have the component.
ExecuteSetShared ==
  LET id == Target(Command.id)
  IN  /\ ExecuteAlone({"SetSharedComponent"})
      /\ Alive(id)
      /\ IF Command.type \in DOMAIN entities[id]
           THEN Store!SetComponent(id, Command.type, Command.value) /\ UNCHANGED ub
           ELSE ub' = TRUE /\ UNCHANGED store

\* ... Ecs::setSharedComponent looks no entity up that is gone: its operator[]
\* gives the id the first place of the store, and the shared value of the
\* entity there is set, if that is one that has the component.
ExecuteSetSharedOfGone ==
  LET id == Target(Command.id)
  IN  /\ ExecuteOnEntity({"SetSharedComponent"})
      /\ ~aliased
      /\ ~Alive(id)
      /\ \/ ub' = TRUE /\ UNCHANGED <<store, aliased>>
         \/ /\ Store!SetSharedOfGoneId(id, Command.type, Command.value)
            /\ aliased' = TRUE
            /\ UNCHANGED ub

\* A command on an entity of a store that is not followed any more.
ExecuteOnAliased ==
  /\ ExecuteOnEntity({"Delete", "DeleteComponents", "ChangeComponents", "SetComponent",
                      "SetSharedComponent", "AddComponent"})
  /\ aliased
  /\ Unfollowed
  /\ UNCHANGED <<issued, aliased>>

\* An end of the execution that also starts the temporary ids anew.
FinishExecutionAnew ==
  /\ ~ub
  /\ executing = Len(entityCommandBuffer) + 1
  /\ entityCommandBuffer' = << >>
  /\ temporaryEntityIdRemapping' = << >>
  /\ executing' = 0
  /\ nextTempEntityId' = 1
  /\ UNCHANGED <<store, taken, made, aliased, ub>>

\* Both the buffer and the remapping are cleared.
FinishExecution ==
  /\ ~ub
  /\ executing = Len(entityCommandBuffer) + 1
  /\ entityCommandBuffer' = << >>
  /\ temporaryEntityIdRemapping' = << >>
  /\ executing' = 0
  /\ UNCHANGED <<store, taken, nextTempEntityId, made, aliased, ub>>

-----------------------------------------------------------------------------
\* The values creations give.  What a command does depends on none of them.
Initials == {[t \in ts |-> Default] : ts \in TypeLists}

Next ==
  \/ \E job \in Jobs :
       \/ TakeTempId(job)
       \/ \E values \in Initials : RecordCreate(job, values)
       \/ \E command \in Commands : Record(job, command)
  \/ \E values \in Initials : CallCreate(values)
  \/ \E id \in issued : CallDelete(id)
  \/ StartExecution
  \/ ExecuteCreate
  \/ ExecuteOnNothing
  \/ ExecuteDelete
  \/ ExecuteSetComponent
  \/ ExecuteChange
  \/ ExecuteSetShared
  \/ ExecuteSetSharedOfGone
  \/ ExecuteOnAliased
  \/ FinishExecution

Spec == Init /\ [][Next]_vars

-----------------------------------------------------------------------------
TempIds == {-k : k \in 1 .. MaxTemp}

\* The type invariant.  The remapping leads from temporary ids to ids, or to 0;
\* only where two ids have one place does an id that is gone, or 0, name an
\* entity.
TypeOK ==
  /\ issued \subseteq 1 .. MaxId
  /\ DOMAIN entities \subseteq IF aliased THEN issued \cup {0} ELSE issued
  /\ \A id \in DOMAIN entities :
       entities[id] \in [DOMAIN entities[id] -> Value \cup {Uninit}]
  /\ Len(entityCommandBuffer) <= MaxCommands
  /\ executing \in 0 .. Len(entityCommandBuffer) + 1
  /\ \A id \in DOMAIN temporaryEntityIdRemapping :
       id \in TempIds /\ temporaryEntityIdRemapping[id] \in 0 .. MaxId
  /\ nextTempEntityId \in 1 .. MaxTemp + 1
  /\ taken \in [Jobs -> 0 .. MaxTemp]
  /\ made \subseteq TempIds \X issued
  /\ aliased \in BOOLEAN
  /\ ub \in BOOLEAN

\* A command never precedes the creation of the entity it names, however the
\* jobs interleave: View::createEntity returns the temporary id only after
\* the creation is in the buffer.
CommandsFollowCreation ==
  \A i \in DOMAIN entityCommandBuffer :
    LET id == entityCommandBuffer[i].id
    IN  /\ \A job \in Jobs : taken[job] # 0 => id # -taken[job]
        /\ \A j \in DOMAIN entityCommandBuffer :
             entityCommandBuffer[j].op = "Create" /\ entityCommandBuffer[j].id = id => j <= i

\* A temporary id names one entity, and no two name the same, over all
\* buffers: the counter is never set back, so that an id kept from an earlier
\* buffer cannot name a new entity.
OneEntityPerTempId ==
  \A p, q \in made : p[1] = q[1] <=> p[2] = q[2]

\* A command that names an entity created earlier in the same buffer finds it.
TempIdsResolve ==
  Running /\ Command.id < 0 =>
    \A i \in 1 .. executing - 1 :
      entityCommandBuffer[i].op = "Create" /\ entityCommandBuffer[i].id = Command.id
        => <<Command.id, Target(Command.id)>> \in made

\* A creation for this temporary id was executed, in this execution.
CreatedHere(tempId) ==
  \E i \in 1 .. executing - 1 :
    entityCommandBuffer[i].op = "Create" /\ entityCommandBuffer[i].id = tempId

\* The command names the entity id: by its id, or by the temporary id under
\* which it was created earlier in the same execution.
Named(id) ==
  Command.id = id \/ (<<Command.id, id>> \in made /\ CreatedHere(Command.id))

\* All entities but this one are as they were.
OnlyHits(id) ==
  \A other \in DOMAIN entities \ {id} :
    other \in DOMAIN entities' /\ entities'[other] = entities[other]

\* While commands are executed, an entity changes or ends only by a command
\* that names it, with one exception: a SetSharedComponent that names no
\* entity there is, but one that is gone, or a temporary id of an earlier
\* buffer, hits one entity it does not name (the first of the store), and no
\* more than one.  No other command with such an id changes anything.
CommandsStayOnTarget ==
  [][~aliased =>
       \A id \in DOMAIN entities :
         executing # 0 /\ (id \in DOMAIN entities' => entities'[id] # entities[id])
           => \/ Named(id)
              \/ /\ Command.op = "SetSharedComponent" /\ OnlyHits(id)
                 /\ \A other \in DOMAIN entities : ~Named(other)]_vars

=============================================================================
