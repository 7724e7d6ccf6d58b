--------------------------- MODULE EntityManager ---------------------------
(***************************************************************************)
(* Mangalore's game world: the entity manager with its arrays of attached, *)
(* new and removed entities and its registry of ids, the entities' own     *)
(* activation and their loops over their properties, and the game server's *)
(* loops over all entities.                                                *)
(*                                                                         *)
(* Everything runs in one thread, but every method of a property is        *)
(* application code, which may attach, look up, remove and delete entities *)
(* while the loops that called it are under way: `stack' holds those loops *)
(* and the calls they made.  The application attaches an entity once (an   *)
(* entity that was removed has lost its properties), and removes none from *)
(* an OnLoad, OnStart or OnSave that is under way: those loops index the   *)
(* arrays they have measured before, without looking at `activated'.       *)
(***************************************************************************)
EXTENDS Naturals, Sequences, FiniteSets, SequencesExt, Sublists

CONSTANTS
    Entity,     \* bound: the entity objects there will ever be
    Guid,       \* the GUIDs of the instances in the database
    Null,       \* the null pointer
    NewGuid,    \* the fresh GUID of an entity created from a template
    NumProps,   \* the number of properties of an entity
    MaxDepth    \* bound: nested loops and calls

ASSUME EntityManagerAssumption ==
    /\ IsFiniteSet(Entity) /\ Null \notin Entity /\ NewGuid \notin Guid
    /\ NumProps \in Nat \ {0} /\ MaxDepth \in Nat /\ MaxDepth >= 3

VARIABLES
    entities,         \* the attached entities, with null elements in a frame
    registry,         \* entityRegistry: what it holds for the id of each entity
    newEntities,      \* attached in this frame
    removedEntities,  \* removed in this frame, and kept alive until its end
    isInOnFrame,
    isStarted,        \* of the game server
    status,           \* fresh, activating, active, deactivating, gone
    guid,             \* attribute GUID of each entity
    sleeping,         \* the entities in the SleepingPool
    db,               \* the rows of the database
    stack,            \* the loops and calls under way, innermost last
    called,           \* history: calls of each entity's properties in this frame
    started,          \* history: calls of OnStart of each entity
    missed            \* history: the entities attached while Start was looping

vars == <<entities, registry, newEntities, removedEntities, isInOnFrame, isStarted, status,
          guid, sleeping, db, stack, called, started, missed>>

arrays  == <<entities, registry, newEntities, removedEntities>>
objects == <<status, guid, sleeping, db>>
history == <<called, started, missed>>

Phase == {"OnBeginFrame", "OnMoveBefore", "OnMoveAfter", "OnRender"}
World == {"OnLoad", "OnStart", "OnSave"}
NextPhase == [OnBeginFrame |-> "OnMoveBefore", OnMoveBefore |-> "OnMoveAfter",
              OnMoveAfter |-> "OnRender"]

(* The number of elements of the array is read once; history: `live' are   *)
(* the live entities that are in the array at the beginning.               *)
Loop(method) == [kind |-> "loop", method |-> method, num |-> Len(entities), i |-> 1,
                 live |-> (Range(entities) \ {Null}) \ sleeping]

(* Method of entity e: property i is running.                              *)
Call(e, method) == [kind |-> "call", entity |-> e, method |-> method, i |-> 1]
Activating(e)   == [kind |-> "activate", entity |-> e]

(* RemoveEntity; DeleteEntity also holds a pointer of its own, and deletes *)
(* the row at last.                                                        *)
Deactivating(e, delete) == [kind |-> "deactivate", entity |-> e, delete |-> delete]
RemovingAll == [kind |-> "removeAll"]

Push(c) == Len(stack) < MaxDepth /\ stack' = Append(stack, c)
Below == Front(stack)
Top(kind) == stack # <<>> /\ Last(stack).kind = kind

(* Application code runs: the main loop, or a property's method.           *)
AppRuns == stack # <<>> => Last(stack).kind \in {"call", "activate", "deactivate"}

(* A call of a method of e is under way.                                   *)
Running(e, methods) ==
    \E k \in DOMAIN stack : stack[k].kind = "call" /\ stack[k].entity = e /\ stack[k].method \in methods

Looping(methods) == \E k \in DOMAIN stack : stack[k].kind = "loop" /\ stack[k].method \in methods

Init ==
    /\ entities = <<>>
    /\ registry = [e \in Entity |-> "none"]
    /\ newEntities = <<>>
    /\ removedEntities = <<>>
    /\ isInOnFrame = FALSE
    /\ isStarted = FALSE
    /\ status = [e \in Entity |-> "fresh"]
    /\ guid = [e \in Entity |-> NewGuid]
    /\ sleeping = {}
    /\ db = Guid
    /\ stack = <<>>
    /\ called = [e \in Entity |-> 0]
    /\ started = [e \in Entity |-> 0]
    /\ missed = {}

-----------------------------------------------------------------------------
(* Attaching.                                                              *)

(* AttachEntity of an entity the factory has just created: OnActivate runs *)
(* the properties' OnActivate.                                             *)
AttachEntity(e, g, asleep) ==
    /\ status[e] = "fresh"
    /\ Push(Activating(e))
    /\ status' = [status EXCEPT ![e] = "activating"]
    /\ guid' = [guid EXCEPT ![e] = g]
    /\ sleeping' = IF asleep THEN sleeping \cup {e} ELSE sleeping
    /\ UNCHANGED <<arrays, isInOnFrame, isStarted, db, history>>

(* CreateEntityByTemplate and AttachEntity                                 *)
AttachNew(e) == AppRuns /\ AttachEntity(e, NewGuid, FALSE)

Attached == Range(entities) \ {Null}

(* The entity loader attaches each row of the level once.                  *)
LoadLevel(e, g) ==
    /\ stack = <<>> /\ ~isStarted
    /\ g \in db /\ \A f \in Attached : guid[f] # g
    /\ AttachEntity(e, g, FALSE)

(* GetEntityByGuid and GetEntityByName of an entity that is not in the     *)
(* array: CreateSleepingEntities creates it from its row and attaches it.  *)
CreateSleepingEntities(e, g) ==
    /\ AppRuns
    /\ g \in db /\ \A f \in Attached : guid[f] # g
    /\ AttachEntity(e, g, TRUE)

(* Seeded fault: in a frame the entity takes the first null element.       *)
AddEntityReuse(e) ==
    IF isInOnFrame /\ ~Contains(entities, Null)
    THEN newEntities' = Append(newEntities, e) /\ UNCHANGED <<entities, registry>>
    ELSE /\ entities' = IF isInOnFrame
                        THEN [entities EXCEPT ![SelectInSeq(entities, LAMBDA x : x = Null)] = e]
                        ELSE Append(entities, e)
         /\ registry' = [registry EXCEPT ![e] = "set"]
         /\ UNCHANGED newEntities

AddEntityToReqistry(e) ==
    IF isInOnFrame
    THEN newEntities' = Append(newEntities, e) /\ UNCHANGED <<entities, registry>>
    ELSE /\ entities' = Append(entities, e)
         /\ registry' = [registry EXCEPT ![e] = "set"]
         /\ UNCHANGED newEntities

(* The method has been called on e.                                        *)
Count(c) ==
    /\ started' = IF c.method = "OnStart" /\ c.i = 1 THEN [started EXCEPT ![c.entity] = @ + 1] ELSE started
    /\ called' = IF c.method \in Phase THEN [called EXCEPT ![c.entity] = @ + 1] ELSE called

(* Seeded fault: OnStart is left to Start.                                 *)
ActivatedUnstarted ==
    /\ Top("activate")
    /\ LET e == Last(stack).entity
       IN  /\ status' = [status EXCEPT ![e] = "active"]
           /\ AddEntityToReqistry(e)
           /\ missed' = IF Looping({"OnStart"}) THEN missed \cup {e} ELSE missed
           /\ stack' = Below
           /\ UNCHANGED <<called, started>>
    /\ UNCHANGED <<removedEntities, isInOnFrame, isStarted, guid, sleeping, db>>

(* OnActivate returns: the entity comes into the arrays, and is started in *)
(* a world that has been started.                                          *)
Activated ==
    /\ Top("activate")
    /\ LET e == Last(stack).entity
       IN  /\ status' = [status EXCEPT ![e] = "active"]
           /\ AddEntityToReqistry(e)
           /\ missed' = IF Looping({"OnStart"}) THEN missed \cup {e} ELSE missed
           /\ IF isStarted
              THEN stack' = Append(Below, Call(e, "OnStart")) /\ Count(Call(e, "OnStart"))
              ELSE stack' = Below /\ UNCHANGED <<called, started>>
    /\ UNCHANGED <<removedEntities, isInOnFrame, isStarted, guid, sleeping, db>>

-----------------------------------------------------------------------------
(* Removing.                                                               *)

(* RemoveEntity and DeleteEntity: OnDeactivate runs the properties'        *)
(* OnDeactivate.                                                           *)
RemoveEntity(e, delete) ==
    /\ AppRuns
    /\ status[e] = "active"
    /\ ~Running(e, World) /\ ~Looping(World)
    /\ Push(Deactivating(e, delete))
    /\ status' = [status EXCEPT ![e] = "deactivating"]
    /\ UNCHANGED <<arrays, isInOnFrame, isStarted, guid, sleeping, db, history>>

(* Seeded fault: the removed entity is not kept.                           *)
RemoveEntityUnkept(e) ==
    \/ /\ isInOnFrame /\ Contains(newEntities, e)
       /\ newEntities' = LeaveOut(newEntities, {e})
       /\ UNCHANGED <<entities, registry, removedEntities>>
    \/ /\ isInOnFrame /\ ~Contains(newEntities, e)
       /\ entities' = [k \in DOMAIN entities |-> IF entities[k] = e THEN Null ELSE entities[k]]
       /\ registry' = [registry EXCEPT ![e] = "zero"]
       /\ UNCHANGED <<newEntities, removedEntities>>
    \/ /\ ~isInOnFrame
       /\ entities' = LeaveOut(entities, {e})
       /\ registry' = [registry EXCEPT ![e] = "none"]
       /\ UNCHANGED <<newEntities, removedEntities>>

(* In a frame the elements only become null: the loops are indexing them.  *)
RemoveEntityFromRegistry(e) ==
    \/ /\ isInOnFrame /\ Contains(newEntities, e)
       /\ newEntities' = LeaveOut(newEntities, {e})
       /\ UNCHANGED <<entities, registry, removedEntities>>
    \/ /\ isInOnFrame /\ ~Contains(newEntities, e)
       /\ removedEntities' = Append(removedEntities, e)
       /\ entities' = [k \in DOMAIN entities |-> IF entities[k] = e THEN Null ELSE entities[k]]
       /\ registry' = [registry EXCEPT ![e] = "zero"]
       /\ UNCHANGED newEntities
    \/ /\ ~isInOnFrame
       /\ entities' = LeaveOut(entities, {e})
       /\ registry' = [registry EXCEPT ![e] = "none"]
       /\ UNCHANGED <<newEntities, removedEntities>>

(* OnDeactivate returns: the entity leaves the arrays; DeleteEntity        *)
(* deletes the row.                                                        *)
Deactivated ==
    /\ Top("deactivate")
    /\ LET c == Last(stack)
       IN  /\ status' = [status EXCEPT ![c.entity] = "gone"]
           /\ RemoveEntityFromRegistry(c.entity)
           /\ db' = IF c.delete THEN db \ {guid[c.entity]} ELSE db
           /\ stack' = Below
    /\ UNCHANGED <<isInOnFrame, isStarted, guid, sleeping, history>>

(* RemoveAllEntities removes the last one until there is none.             *)
RemoveAllNext ==
    /\ Top("removeAll") /\ entities # <<>>
    /\ Push(Deactivating(Last(entities), FALSE))
    /\ status' = [status EXCEPT ![Last(entities)] = "deactivating"]
    /\ UNCHANGED <<arrays, isInOnFrame, isStarted, guid, sleeping, db, history>>

RemoveAllEnd ==
    /\ Top("removeAll") /\ entities = <<>>
    /\ stack' = Below
    /\ UNCHANGED <<arrays, isInOnFrame, isStarted, objects, history>>

-----------------------------------------------------------------------------
(* The loops over all entities.                                            *)

(* EntityManager::OnFrame, called by the game server between Start and Stop. *)
OnFrame ==
    /\ stack = <<>> /\ isStarted
    /\ isInOnFrame' = TRUE
    /\ Push(Loop("OnBeginFrame"))
    /\ called' = [e \in Entity |-> 0]
    /\ UNCHANGED <<arrays, isStarted, objects, started, missed>>

(* Server::Load, after the level was loaded; Server::Start; Server::Save.  *)
Load ==
    /\ stack = <<>> /\ ~isStarted
    /\ Push(Loop("OnLoad"))
    /\ UNCHANGED <<arrays, isInOnFrame, isStarted, objects, history>>

Start ==
    /\ stack = <<>> /\ ~isStarted
    /\ Push(Loop("OnStart"))
    /\ UNCHANGED <<arrays, isInOnFrame, isStarted, objects, history>>

Save ==
    /\ stack = <<>> /\ isStarted
    /\ Push(Loop("OnSave"))
    /\ UNCHANGED <<arrays, isInOnFrame, isStarted, objects, history>>

(* CleanupWorld: Stop, Save, RemoveAllEntities                             *)
CleanupWorld ==
    /\ stack = <<>> /\ isStarted
    /\ isStarted' = FALSE
    /\ stack' = <<RemovingAll, Loop("OnSave")>>
    /\ UNCHANGED <<arrays, isInOnFrame, objects, history>>

(* A frame's loops leave out null elements and sleeping entities.          *)
LoopNext ==
    /\ Top("loop")
    /\ LET c == Last(stack)
           e == entities[c.i]
           next == Append(Below, [c EXCEPT !.i = @ + 1])
       IN  /\ c.i <= c.num
           /\ IF c.method \in Phase /\ (e = Null \/ e \in sleeping)
              THEN stack' = next /\ UNCHANGED <<called, started>>
              ELSE stack' = Append(next, Call(e, c.method)) /\ Count(Call(e, c.method))
    /\ UNCHANGED <<arrays, isInOnFrame, isStarted, objects, missed>>

(* Seeded fault: the loop over the properties does not look at `activated'. *)
CallNextUnchecked ==
    /\ Top("call")
    /\ LET c == [Last(stack) EXCEPT !.i = @ + 1]
       IN  IF c.i <= NumProps
           THEN stack' = Append(Below, c) /\ Count(c)
           ELSE stack' = Below /\ UNCHANGED <<called, started>>
    /\ UNCHANGED <<arrays, isInOnFrame, isStarted, objects, missed>>

(* A property's method returns: the next property, unless the entity was   *)
(* deactivated in a frame's method.                                        *)
CallNext ==
    /\ Top("call")
    /\ LET c == [Last(stack) EXCEPT !.i = @ + 1]
       IN  IF c.i <= NumProps /\ (c.method \in Phase => status[c.entity] \in {"active", "deactivating"})
           THEN stack' = Append(Below, c) /\ Count(c)
           ELSE stack' = Below /\ UNCHANGED <<called, started>>
    /\ UNCHANGED <<arrays, isInOnFrame, isStarted, objects, missed>>

(* Seeded fault: OnMoveAfter is followed by OnMoveBefore.                  *)
PhaseEndRepeats ==
    /\ Top("loop")
    /\ LET c == Last(stack)
           next == IF c.method = "OnMoveAfter" THEN "OnMoveBefore" ELSE NextPhase[c.method]
       IN  /\ c.i > c.num
           /\ c.method \in Phase \ {"OnRender"}
           /\ stack' = Append(Below, [c EXCEPT !.method = next, !.i = 1])
    /\ UNCHANGED <<arrays, isInOnFrame, isStarted, objects, history>>

PhaseEnd ==
    /\ Top("loop")
    /\ LET c == Last(stack)
       IN  /\ c.i > c.num
           /\ c.method \in Phase \ {"OnRender"}
           /\ stack' = Append(Below, [c EXCEPT !.method = NextPhase[@], !.i = 1])
    /\ UNCHANGED <<arrays, isInOnFrame, isStarted, objects, history>>

(* Load, Start and Save return; Save writes the entities it has called.    *)
WorldEnd ==
    /\ Top("loop")
    /\ LET c == Last(stack)
       IN  /\ c.i > c.num
           /\ c.method \in World
           /\ isStarted' = (isStarted \/ c.method = "OnStart")
           /\ db' = IF c.method = "OnSave"
                    THEN db \cup ({guid[entities[k]] : k \in 1 .. c.num} \ {NewGuid})
                    ELSE db
           /\ stack' = Below
    /\ UNCHANGED <<arrays, isInOnFrame, status, guid, sleeping, history>>

Compact(s) == LeaveOut(s, {Null})

(* Each null element takes a new entity, the last one first, while there   *)
(* are any; the null elements left are removed, the entities left appended. *)
Gaps == {k \in DOMAIN entities : entities[k] = Null}
Waiting == Reverse(newEntities)
GapsUpTo(k) == Cardinality(UpTo(Gaps, k))
Filled ==
    [k \in DOMAIN entities |->
        IF k \notin Gaps THEN entities[k]
        ELSE IF GapsUpTo(k) <= Len(Waiting) THEN Waiting[GapsUpTo(k)]
        ELSE Null]
Merged == Compact(Filled) \o SubSeq(Waiting, Cardinality(Gaps) + 1, Len(Waiting))

(* Seeded fault: only the entities that are appended come into the registry. *)
UpdateRegistryPartly ==
    /\ removedEntities' = <<>>
    /\ registry' = [e \in Entity |->
                      CASE registry[e] = "zero" -> "none"
                        [] Contains(newEntities, e) /\ ~Contains(entities, Null) -> "set"
                        [] OTHER -> registry[e]]
    /\ entities' = Merged
    /\ newEntities' = <<>>

UpdateRegistry ==
    /\ removedEntities' = <<>>
    /\ registry' = [e \in Entity |->
                      CASE registry[e] = "zero" -> "none"
                        [] Contains(newEntities, e) -> "set"
                        [] OTHER -> registry[e]]
    /\ entities' = Merged
    /\ newEntities' = <<>>

FrameEnd ==
    /\ Top("loop")
    /\ Last(stack).method = "OnRender" /\ Last(stack).i > Last(stack).num
    /\ isInOnFrame' = FALSE
    /\ UpdateRegistry
    /\ stack' = Below
    /\ UNCHANGED <<isStarted, objects, history>>

-----------------------------------------------------------------------------
Application ==
    \E e \in Entity :
        \/ AttachNew(e)
        \/ \E g \in Guid : LoadLevel(e, g) \/ CreateSleepingEntities(e, g)
        \/ \E delete \in BOOLEAN : RemoveEntity(e, delete)

MainLoop == OnFrame \/ Load \/ Start \/ Save \/ CleanupWorld

Return ==
    \/ Activated \/ Deactivated \/ RemoveAllNext \/ RemoveAllEnd
    \/ LoopNext \/ CallNext \/ PhaseEnd \/ WorldEnd \/ FrameEnd

Next == Application \/ MainLoop \/ Return

Spec == Init /\ [][Next]_vars

-----------------------------------------------------------------------------
(* Properties.                                                             *)

Status == {"fresh", "activating", "active", "deactivating", "gone"}

LoopFrame ==
    [kind : {"loop"}, method : Phase \cup World, num : 0 .. Cardinality(Entity),
     i : 1 .. Cardinality(Entity) + 1, live : SUBSET Entity]
CallFrame == [kind : {"call"}, entity : Entity, method : Phase \cup World, i : 1 .. NumProps]
Frame ==
    LoopFrame \cup CallFrame
    \cup [kind : {"activate"}, entity : Entity]
    \cup [kind : {"deactivate"}, entity : Entity, delete : BOOLEAN]
    \cup {RemovingAll}

(* The types of the variables; each of a frame's four phases calls an      *)
(* entity's properties once at most, and OnStart is called once at most.   *)
TypeOK ==
    /\ entities \in Seq(Entity \cup {Null}) /\ Len(entities) <= Cardinality(Entity)
    /\ registry \in [Entity -> {"none", "set", "zero"}]
    /\ newEntities \in Seq(Entity) /\ removedEntities \in Seq(Entity)
    /\ isInOnFrame \in BOOLEAN /\ isStarted \in BOOLEAN
    /\ status \in [Entity -> Status]
    /\ guid \in [Entity -> Guid \cup {NewGuid}]
    /\ sleeping \subseteq Entity /\ db \subseteq Guid /\ missed \subseteq Entity
    /\ stack \in Seq(Frame) /\ Len(stack) <= MaxDepth
    /\ called \in [Entity -> 0 .. 4 * NumProps]
    /\ started \in [Entity -> 0 .. 1]

InWorld == {e \in Entity : status[e] \in {"active", "deactivating"}}

(* The registry finds exactly the entities in the array, and the entities  *)
(* that were activated are those in the array and those that wait for the  *)
(* end of the frame, each of them once; between frames nothing waits and   *)
(* no null element is left behind.                                         *)
RegistryAgrees ==
    /\ {e \in Entity : registry[e] = "set"} = Attached
    /\ InWorld = Attached \cup Range(newEntities)
    /\ IsInjective(Compact(entities) \o newEntities)
    /\ ~isInOnFrame => /\ Null \notin Range(entities)
                       /\ "zero" \notin Range(registry)
                       /\ newEntities = <<>> /\ removedEntities = <<>>

(* "Prevent a partly OnFrame trigger" (entitymanager.cc): when the last    *)
(* loop of a frame is done, every live entity that was there when the      *)
(* frame began and has not been removed has had all four phases, and an    *)
(* entity attached in the frame, or a sleeping one, has had none.          *)
WholeFrames ==
    Top("loop") /\ Last(stack).method = "OnRender" /\ Last(stack).i > Last(stack).num =>
        \A e \in Entity :
            /\ e \notin Last(stack).live => called[e] = 0
            /\ e \in Last(stack).live /\ status[e] = "active" => called[e] = 4 * NumProps

(* An entity that has been removed is not called again in the frame, nor   *)
(* are its remaining properties by the call that removed it.               *)
RemovedIsLeftAlone ==
    [][\A e \in Entity : status[e] = "gone" => called'[e] <= called[e]]_vars

(* The entities some pointer of the manager keeps alive.                   *)
Kept ==
    Attached \cup Range(newEntities) \cup Range(removedEntities)
    \cup {c.entity : c \in {d \in Range(stack) : d.kind = "deactivate" /\ d.delete}}

(* What the loops and calls under way go back to is still there: no loop   *)
(* over the entities indexes beyond the array, however many were removed   *)
(* since it was measured, and no entity is destroyed while a method of it  *)
(* runs ("make sure the entity does not get destroyed until end of         *)
(* frame", entitymanager.cc).                                              *)
LoopsInBounds ==
    \A c \in Range(stack) : c.kind = "loop" => c.num <= Len(entities)

InUseIsAlive ==
    \A c \in Range(stack) : c.kind \in {"call", "deactivate"} => c.entity \in Kept

LoopsAreSafe == LoopsInBounds /\ InUseIsAlive

(* In a started world every entity has been started, or is being attached; *)
(* those that were attached while Start was looping over the others are    *)
(* the only ones it leaves out.                                            *)
AllStarted ==
    isStarted /\ ~Looping({"OnStart"}) =>
        \A e \in InWorld : started[e] = 1 \/ e \in missed

(* "GUID must be unique!" (entitymanager.cc): of one row of the database   *)
(* there is at most one entity in the world.                               *)
GuidUnique ==
    \A e, f \in InWorld : e # f /\ guid[e] = guid[f] => guid[e] = NewGuid
=============================================================================
