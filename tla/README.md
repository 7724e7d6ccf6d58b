# Verification of the Nebula2 / Mangalore engine

TLA+ models of the concurrent, distributed and re-entrant parts of the engine under `src/nebula2/code`: the Nebula2 core
(`nebula2/`) and the Mangalore game framework on top of it (`mangalore/`). TLC checks the models on small instances;
TLAPS proves the theorems of the seven modules named `...Proofs` for every value of the constants.

`PROJECT.json` lists the components, runs, findings, hazards and theorems, and maps every definition to the lines it
stands for. Paths below are relative to `src/nebula2/code/`; `inc/` and `src/` are those of `nebula2/`.

## Inventory

### What runs concurrently

The engine is a single-threaded frame loop with few exceptions. `nResourceServer` owns one **loader thread**;
`nIpcServer` owns one **listener thread** per port; a directory watcher (Win32) has a thread that calls it back; some platform code (the file log, the audio and video players)
uses mutexes of its own. All of them are built from `nThread`, `nEvent`, `nMutex` and `nThreadSafeList`. Everything
else that is hard is **re-entrancy**: a message handler, a signal's command or an object's destructor calls back into
the server that is just iterating over its clients.

### Components

| Component | State | Operations | Interacts with | Hard because |
|---|---|---|---|---|
| Threads (`inc/kernel/nthread.h`, `nevent.h`, `nmutex.h`, `nthreadsafelist.h`) | start and shutdown events, stop flag, list + mutex + event | construct (start handshake), destroy (stop, wakeup, join), Lock/Unlock, Signal/Wait, message queue | used by the resource and IPC servers | events count on POSIX and do not on Win32; the Win32 join times out |
| Resource system (`src/resource`, meshes in `src/gfx2`) | per resource: life, state, D3D objects, mutex, job node; per server: job list, loader thread | NewResource, Load, Unload, SetFilename, Release, ~nResourceServer; the loader's loop | main thread and loader share the list, the object and its mutex | two locks taken in different orders, flags read without a lock, a list read without its lock, deletion during a load |
| IPC (`src/kernel/nipc*`) | listener thread, list of mini servers, message list, socket and `isConnected` of each | Listen/accept, Poll, GetMsg, Send, Connect, handshake, close | session and game network, remote server | mini servers are created by one thread and polled and deleted by another; blocking sockets; lost connections |
| Session and game network (`src/network/nsession*`, `nnet*`) | sessions found, contexts per client and server, start state | discover, join, leave, kick, start, close, keep-alive | over IPC channels and LAN broadcasts | messages cross; a kick and a leave, a start and a join, an expiry and a late broadcast |
| Object system (`src/kernel/nroot*`, `nreferenced*`, `inc/kernel/nref.h`) | tree of named objects, reference counts, lists of weak references | New, AddRef, Release, SetName, Find, invalidate | every class derives from it | destructors that delete, look up or re-reference others |
| Signals (`src/signals`) | per emitter and signal a list of bindings by priority; a list of posted signals by time, pool of 512 | Bind, Unbind, Emit, Post, Trigger | objects bind commands of other objects | commands that bind, unbind, post or trigger while a signal is being dispatched |
| Messages (`mangalore/message`) | port arrays with null elements, lock counts, message queues | RegisterPort, UnregisterPort, AttachPort, RemovePort, Send/Broadcast x Sync/Async, HandlePendingMessages | entities, properties and managers are ports | handlers that register, remove and send during a delivery |
| Game objects (`mangalore/game`, `managers`, `fsm`) | entities with properties, managers, the current state | attach, activate, deactivate, remove, per-frame calls | message server, all subsystem servers | entities that are removed while the manager runs over them |
| Kernel, persistency, script, files, memory, variables | class table, current directory, command tables, files | create by class name, look up, save, load | everything | sequential |
| Graphics, scene, animation, particles, input, GUI, audio, video, physics, navigation, database | device objects and numerical data | per-frame calls | the frame loop | numerical or device code |
| Vendored code (`microtcl`, `tinyxml`, SQLite), `contrib`, tools, `buildsys3`, `appwiz` | - | - | - | not part of the engine |

### What makes each component correct

* **Resource system.** An object is not freed while it is loaded or queued; a request is not lost; requests are
  served in order; names do not change under the loader; a call returns; shutdown leaves no thread and no loaded
  resource behind; an assertion of the code does not fail.
* **Threads.** A wakeup is not lost; a started thread is seen to start; a stopped thread ends before its owner does.
* **IPC.** What a client sends reaches the server whole, once and in order; an answer reaches whom it is for; Poll
  does not block; every mini server has one owner and none is left behind; shutdown ends the listener.
* **Session.** Client and server agree on who is joined; at most the maximum number of clients are; clients show the
  attributes of the host; a started game has exactly the clients that were told to open it.
* **Object system.** A weak reference is null or points at an object that exists; a tree has no dangling pointers;
  an object dies by its last release or its parent's; the kernel's current object exists.
* **Signals.** A dispatch calls each binding that stays bound once, in the order of priorities, and never a
  deleted one; posted signals run in the order of time, each once, and are released once.
* **Messages.** A broadcast reaches each port that stays registered once; arrays do not move under a loop;
  queued messages are handled, in order, once.
* **Game objects.** Arrays, registry and entities agree; every frame is whole for every entity; a removed entity is
  not called any more and not destroyed while it runs; there is one entity for a GUID.

## Modules

| Module | What it is |
|---|---|
| `Threading` | `nEvent` and `nMutex` as operators on their values; `CountingEvent` selects POSIX semaphores or Win32 auto-reset events |
| `AsyncLoader` | the resource system: main thread, loader thread, job list, locks, lifetimes |
| `LoadQueue` | what the loader promises: the abstract specification |
| `MCAsyncLoader` | instances of `AsyncLoader` for TLC |
| `AsyncLoaderProofs` | inductive invariant, safety theorems and refinement, checked by TLAPS |
| `Sublists` | how the code's loops filter lists and insert into them, as operators on sequences |
| `ListLemmas` | lemmas about sequences and stacks that the proofs share, checked by TLAPS |
| `MessageServer` | Mangalore's ports, dispatchers and message server |
| `MCMessageServer` | an instance of `MessageServer`: a manager and an entity with two properties |
| `MessageServerProofs` | its inductive invariant and safety theorems |
| `Signals` | bindings, emission and posted signals |
| `MCSignals` | an instance of `Signals`: two objects, three bindings |
| `SignalsProofs` | its inductive invariant and safety theorems |
| `IpcServer` | `nIpcServer`, its listener thread and mini servers, and the clients, over TCP |
| `IpcChannel` | what the ipc classes promise the layers above: the abstract specification |
| `MCIpcServer` | instances of `IpcServer`: two clients |
| `IpcServerProofs` | inductive invariant, safety theorems and refinement of `IpcServer` |
| `Session` | hosts and clients of the session layer, over the channels that `IpcChannel` describes |
| `MCSession` | an instance of `Session`: one host, a client that may connect twice, a hasty client |
| `SessionProofs` | its inductive invariant and safety theorems |
| `EntityManager` | Mangalore's entities, their manager and the loops over them |
| `MCEntityManager` | an instance of `EntityManager`: three entities |
| `EntityManagerProofs` | its inductive invariant and safety theorems |
| `ObjectTree` | Nebula's objects: tree, reference counts, `nRef`, the kernel's current object |
| `MCObjectTree` | an instance of `ObjectTree`: the root and three objects |
| `ObjectTreeProofs` | its inductive invariant and theorems |

How they fit together: `AsyncLoader` and `IpcServer` are built from `Threading`. `IpcServer` implements `IpcChannel`;
`Session` takes its guarantees for its own streams: whole messages, in order, once, and lost only with the connection.
`Session` leaves out what `IpcServer` has shown about polling and mini servers, `IpcServer` what the strings mean.
`EntityManager` is the application of `MessageServer`: attaching and removing an entity registers and removes its
ports, in any callback, which is what `MessageServer` allows its handlers. `ObjectTree` is the life cycle that
`AsyncLoader` (Release against the loader thread) and `Signals` (receivers that go away) each have a part of.

In every module a definition that is called a *seeded fault* stands next to the one it distorts. It takes no part in
the specification: it serves to show that a property notices the fault.

### AsyncLoader

The main thread and the loader thread are program counters, `pcM` and `pcL`. Every read or write of shared state is
a step of its own. The one exception: what `AddLoaderJob`, `RemLoaderJob`, `ShutdownLoaderThread` do between Lock and
Unlock of the job list, up to the Unlock, is one step; nobody else writes the list meanwhile, and the one reader
that does not lock, the loader's `GetHead()`, is modelled as two reads (the head, its successor) between which
anything may happen. The successor of a freed node is undefined and is chosen by `\E isNull \in BOOLEAN`.

| Code | Actions |
|---|---|
| `nResourceServer::NewResource` | `NewResource` |
| `nResource::Load`, `AddLoaderJob` | `Load`, `LoadPending`, `AddAssert`, `AddLock`, `AddTail`, `AddSignal` |
| `nResource::Unload`, `RemLoaderJob`, `nD3D9Mesh::UnloadResource` | `Unload`, `UnloadLock`, `UnloadRem`, `UnloadState`, `UnloadResource` |
| `nResource::SetFilename` | `Rename`, `RenameLock`, `SetFilename` |
| `nRoot::Release`, `~nD3D9Mesh`, `~nMesh2`, `~nResource` | `Release`, `ReleaseLock`, `DtorMesh`, (Unload's actions), `DtorAssert`, `DtorLock`, `DtorRem`, `DtorFree` |
| `~nResourceServer`, `~nThread` | `Shutdown`, `Wakeup`, `LetDie`, `Join`, `ClearLock`, `ClearJobs`, `UnloadNext`, `UnloadDone` |
| `nThread` start and `ThreadHarakiri` | `Started`, `ThreadStarted`, `ThreadHarakiri` |
| `LoaderThreadFunc` | `WaitJobs`, `CheckStop`, `ReadHead`, `ReadSucc`, `LockJobs`, `PopJob`, `LockJob`, `UnlockJobs`, `EndLoad`, `UntilStop` |
| `nD3D9Mesh::LoadResource`, `nMesh2::LoadResource` | `BeginLoad`, `Fill`, `Publish`, `Declare` |

A failed `n_assert`, and the call on the null pointer that `RemHead()` returns for an empty list, set `fault`; then
nobody moves. The resources are meshes, the class that overrides `CanLoadAsync()` with a thread-safe load; a load may
succeed, fail before it creates buffers, or fail after that (`Outcomes`).

### MessageServer

Server and dispatcher keep their ports in the same way and are both *hubs* here: `slots` is the port array with its
null elements, `locks` the nesting count. Everything runs in one thread; `stack` holds the loops
(`BroadcastSync`, `Dispatcher::HandleMessage`), the `HandlePendingMessages` and the application's handlers under way.
Whenever a handler is on top, or nothing is under way, the application may call any entry point. `Accepts()` and
`Put()` do not call the application, so an asynchronous message is one step. `Loop` carries two history fields
(`calls`, `stayed`), `handled` is a history variable; nothing reads them but the properties.

| Code | Definitions |
|---|---|
| `RegisterPort`, `AttachPort`, `CleanupEmptyPorts` | `RegisterPort`, `Insert`, `CleanupEmptyPorts`, `Compact` |
| `UnregisterPort`, `RemovePort` | `UnregisterPort` |
| `SendAsync`, `BroadcastAsync`, `Port::Put`, `Dispatcher::Put` | `SendAsync`, `BroadcastAsync`, `PutOn`, `Reaches` |
| `SendSync`, `BroadcastSync`, `Dispatcher::HandleMessage` | `SendSync`, `BroadcastSync`, `Deliver`, `BeginLoop`, `LoopNext`, `LoopEnd`, `HandlerReturn` |
| `Port::HandlePendingMessages` | `HandlePendingMessages`, `PendingNext`, `PendingEnd` |

`AttachPort` does not assert that the port is absent, as `RegisterPort` does; its only caller,
`Entity::ActivateProperties`, attaches each property once, and the model does so too.

### Signals

One signal per emitter: the signals of an emitter share nothing but `bindingSets`. A member of `Binding` is one
call of `BindSignal` that the application may make, with its receiver, its priority and a command of its own; it may be
unbound and made again, which is a new `nSignalBinding` in the same place. `stack` holds the loops of `Dispatch` and
`Trigger` and the commands they invoked; when a command is on top, or the stack is empty, the application may do
anything, and only with an empty stack does its main loop call `Trigger`. A loop keeps a plain pointer to its binding:
when that is deleted, by anybody, the pointer becomes `Dangling`, and to go on from there is a fault. So are the null
references and the endless loop that the code runs into (`fault`); after a fault nothing moves.

| Code | Definitions |
|---|---|
| `nSignalEmitter::BindSignal`, `nSignalBindingSet::AddBinding` | `BindSignal`, `Insert` |
| `UnbindSignal`, `UnbindTargetObject`, `RemoveBinding`, `HasBinding` | `UnbindCommand`, `UnbindTargetObject`, `UnbindTargetEverywhere`, `UnbindBinding`, `UnbindSignal`, `Delete` |
| `UnbindAllSignals`, `~nSignalEmitter`, `~nReferenced` | `UnbindAllSignals`, `Release` |
| `EmitSignal`, `nSignal::Dispatch`, `nSignalNative::Dispatch`, `Invoke` | `EmitSignal`, `Emission`, `Invoke`, `CommandReturn`, `EmitSucc`, `Discard`, `EmitLost`, `EmitEnd` |
| `PostSignal`, `PostCmd` | `PostSignal` |
| `nSignalServer::Trigger` | `Trigger`, `TriggerNext`, `TriggerRelease`, `TriggerEnd` |

`Dispatch` exists three times. The two that take an `nCmd` are the same loop; the one that takes a `va_list` in
`nSignalNative` (`va` in the model) does not advance after it has deleted a binding.

### IpcServer

`listener` and `main` are the program counters of the two threads; the lock of the mini server list is held by the main
thread through all of a Poll, and by the listener only within `New`. TCP is a queue of connections that wait for
`accept()` and a stream in either direction; `recv()` takes what has arrived, possibly with the last string only in
part. Messages are numbered by connection, so that order, loss and duplication show.

| Code | Definitions |
|---|---|
| `ListenerThreadFunc`, `nIpcMiniServer::Listen`, `Ignore` | `New`, `Accept`, `AcceptFails`, `SetNonBlocking`, `Ignore`, `Loop`, `ThreadHarakiri` |
| `nIpcServer::Poll`, `nIpcMiniServer::Poll`, `nIpcBuffer` | `PollStart`, `PollUnbound`, `WouldBlock`, `Block`, `ConnectionClosed`, `Receive`, `ReceiveSplit`, `PollEnd` |
| `nIpcServer::GetMsg`, `Send`, `nIpcMiniServer::Send` | `GetMsg`, `Send`, `Answer`, `Target` |
| `~nIpcServer`, `~nThread`, `ListenerWakeupFunc` | `Stop`, `Wakeup`, `LetDie`, `Join` |
| `nIpcClient` | `Connect`, `Handshake`, `ClientSend`, `ClientReceive`, `Disconnect`; `Crash` is the environment |

A mini server that Poll has deleted while the listener thread is between `accept()` and the test of the stop flag is
still read by that thread. Freed memory could hold anything; the model reads `INVALID_SOCKET` there, the value with
which the thread goes on as it would without the fault, so that what follows shows the other properties. The fault
itself, contrary to the comment at `nipcserver.cc:119`, is told under *Findings*. A third `Send` on a
socket that has been reset raises SIGPIPE and ends the process (`main = "killed"`).

### Session

Each process is single-threaded and driven by its Trigger, so that one Trigger, with all the messages it reads, is one
step: its handlers are operators on a record of what they change. What a step reads is chosen freely among what has
arrived. A user is *patient* (waits for the answer before it calls again) or *hasty*. Nothing orders what comes on different
connections, those of one client included. `ousted` is a history variable: the connections whose context was released
by the leave message of an older one. The loops over messages and mini
servers are recursive functions of the position (`HandleTaken`, `HandleInbox`). Two loops are given by what they come to:
the kicks of the last clients until the limit is met (`KickAbove`, `Tell`), and a client's reading of its messages,
where every answer overwrites the one before it (`Latest`, `JoinedAfter`, `ReplyAfter`, `ViewAfter`).

| Code | Definitions |
|---|---|
| `nSessionServer::Trigger` and its handlers | `ServerTrigger`, `Trigger`, `HandleInbox`, `HandleTaken`, `HandleMsg`, `OfGuid`, `HandleJoin`, `HandleLeave`, `HandleAttr`, `KickAbove`, `Publish` |
| `Open`, `Close`, `Start`, `KickClient`, `SetMaxNumClients` | the same names; `Starts`, `StartAborts` |
| `nSessionClient::Trigger`, `DiscoverSessions`, `CleanupExpiredSessions`, `nSessionServerContext::Trigger` | `ClientTrigger`, `Frame`, `Heard`, `Read`, `JoinedAfter`, `ReplyAfter`, `ViewAfter`, `Over`, `StartsRead`, `TriggerAborts` |
| `JoinSession`, `LeaveSession`, `nSessionClient::Close` | `JoinSession`, `JoinAborts`, `LeaveSession`, `CloseClient` |
| crashes | `ClientCrash`, `HostCrash` |

The assertions that the code can fail (`nIpcClient::Receive` on a lost connection, `nNetClient::Open` twice,
`JoinSession` of a context that has been joined behind the client's back, a null PlayerName in `Start`) are
steps that end the process, `TriggerAborts`, `JoinAborts`, `StartAborts`.

### EntityManager

As in `MessageServer`, `stack` holds the loops and calls under way, and whenever a property's method is on top, or
nothing is under way, the application may attach, look up, remove and delete entities. `entities` has null elements while a
frame runs; `status` is the entity's own view of its life. `called`, `started` and `missed` are history.

| Code | Definitions |
|---|---|
| `AttachEntity`, `FactoryManager::Create...`, `Entity::OnActivate`, `AddEntityToReqistry` | `AttachNew`, `AttachEntity`, `LoadLevel`, `Activated`, `AddEntityToReqistry` |
| `GetEntitiesByAttrs`, `CreateSleepingEntities` | `CreateSleepingEntities`, `Attached` |
| `RemoveEntity`, `DeleteEntity`, `RemoveAllEntities`, `RemoveEntityFromRegistry` | `RemoveEntity`, `Deactivated`, `RemoveAllNext`, `RemoveAllEnd`, `RemoveEntityFromRegistry`, `CleanupWorld` |
| `OnFrame`, `UpdateRegistry`, `Entity::On...` | `OnFrame`, `LoopNext`, `CallNext`, `PhaseEnd`, `FrameEnd`, `UpdateRegistry`, `Gaps`, `Filled`, `Compact`, `Merged` |
| `Server::Start`, `Load`, `Save` | `Start`, `Load`, `Save`, `WorldEnd` |

The loops over an entity's properties in `OnActivate` and `OnDeactivate` are one interval in which the application may
do anything. The application keeps three rules: it attaches an entity object once (one that was removed has lost its
properties), removes none from an `OnLoad`, `OnStart` or `OnSave` (those loops index the arrays they measured before,
without asking for `activated`), and does not save in a frame.

### ObjectTree

Destructors run application code and nest; `stack` holds them. `claims` is a history variable: what the application
has to release. Application code, a destructor included, may name any object that exists, one that is being destroyed
included: it may create below it, make it current, point a safe pointer at it, take it out of its parent's list. Its rules
are: it uses no plain pointer to what has been destroyed; it adds and releases no reference of an object that is being
destroyed (`~nRoot` asserts that the count is 0), and gives it no new parent; it releases no object below which a destructor
is under way, and puts none below one whose destructor started later.

| Code | Definitions |
|---|---|
| `nKernelServer::New`, `CheckCreatePath`, `NewUnnamedObject` | `New`, `NewPath`, `NewUnnamedObject` |
| `SetCwd`, `PushCwd`, `PopCwd` | the same names |
| `nReferenced::AddRef`, `nRoot::Release` and the destructors | `AddRef`, `Release`, `DerivedEnd`, `ReleaseChild`, `Free` |
| `AddHead`, `AddTail`, `Remove` | `Link`, `Unlink` |
| `nRef::set`, `invalidate`, `InvalidateAllRefs` | `SetRef`, `Free` |

## Runs

| Run | Instance | Distinct states | Shows |
|---|---|---|---|
| `loader_posix` | 3 resources, all operations and outcomes, POSIX events, at most 2 unconsumed signals when a Load begins | 3,604,999 | `TypeOK`, `LoadedIsAlive`, `PendingExists`, `DtorFindsUnloaded`, `RenameExcludesLoad`, `NoLostWakeup`, `CleanShutdown`; `AsyncLoader` implements `LoadQueue` |
| `loader_live` | 2 resources, everything but Release, fairness | 85,834 | `JobsServed`, `CallsReturn`; no deadlock |
| `loader_delete` | 2 resources, Load and Release | - | *finding*: a destructor and the loader wait for each other |
| `message_sync` | server with a dispatcher and a manager, two properties, 2 messages, 4 nested loops or handlers | 345,726 | `TypeOK`, `LoopsInBounds`, `DeliveredOnce`, `SlotsBounded`, `HandledInOrder` |
| `signals` | 2 objects, 3 bindings of one signal (two with the same priority), a pool and a total of 2 posted signals, 5 nested loops or commands | 1,767,823 | `TypeOK`, `CallsInOrder`, `StayedAreCalled`, `PostedInOrderOnce` |
| `ipc` | 2 clients (2 messages and 1), 1 fault, 2 answers, shutdown at any moment | 3,324,945 | `TypeOK`, `RepliesReachSender`, `OneOwnerEach`; `IpcServer` implements `IpcChannel` |
| `ipc_live` | 2 clients with 1 message each, 1 answer, no faults, fairness | 123,669 | `ShutdownEnds`, `SentIsHandled` |
| `ipc_block` | 1 client with 1 message, fairness | - | *finding*: Poll waits in `recv()` |
| `session` | 1 host, 2 clients (one hasty, one that may connect twice), 4 calls of users, timeouts and crashes | 968,635 | `TypeOK`, `SidesAgree`, `JoinedIsCounted`, `AttrsConverge`, `StartAgreed` |
| `entities` | 3 entities, 1 row of the database, 2 properties, 6 nested loops or calls | 743,573 | `TypeOK`, `RegistryAgrees`, `WholeFrames`, `LoopsAreSafe`, `AllStarted`, `RemovedIsLeftAlone`; no deadlock |
| `entities_guid` | as `entities`, 4 nested | - | *finding*: two entities with one GUID |
| `objects` | the root and 3 objects, 1 `nRef`, 2 references to an object, a stack of 1 | 1,529,585 | `TypeOK`, `NothingDangles`, `OnlyReleasedDie`, `CwdStaysValid` |

**Loader.** `LoadedIsAlive`: what the loader loads is neither freed nor in its destructor.
`PendingExists`: no freed object is in the list. `DtorFindsUnloaded`: the destructor's assertion holds.
`RenameExcludesLoad`: the name is stable during a load. `NoLostWakeup`: a sleeping loader has a signal for a list that
is not empty. `CleanShutdown`: the server leaves nothing behind. `ImplementsQueue`: the refinement, with
`live <- {r : Exists(r)}`, `queue <- jobList`, `busy <- job`; it carries first-in-first-out service and "what is
queued or taken is not deleted". `JobsServed`, `CallsReturn`: liveness; since the join waits for the thread, that
`~nResourceServer` returns means that the loader ends.

**Messages.** `LoopsInBounds`: no loop runs past its array. `DeliveredOnce`: a finished loop has called
each port that stayed, once. `SlotsBounded`: arrays are no longer than the number of ports that may be in them.
`HandledInOrder`: a port that at most one hub holds handles its messages in the order they were sent, none twice.

**Signals.** `CallsInOrder`: an emission invokes bindings by priority and none twice, also when
commands unbind and rebind them. `StayedAreCalled`: it ends only when it has invoked every binding that stayed.
`PostedInOrderOnce`: posted signals are taken up in the order of time, none is lost or taken up twice, though
commands post others in front of the one that is running. These hold in all behaviours *up to a fault*; which faults
there are is told under *Findings*. `TypeOK` includes that the entries of the pool are conserved.

**IPC.** `RepliesReachSender`: an answer to an id goes to the client whose message came with it, or to nobody.
`OneOwnerEach`: no two mini servers share a connection, the listener's own is not in use, and none is left without
a socket but by a failed `accept()`. `ImplementsChannel`: the refinement, with `chan <-` what is in the list of
messages and on the wire, and `reliable <-` no string has been split, no client has crashed, no answer has been refused
and the server is not stopping; then nothing is lost, and in no case does a message overtake another or come twice.
`ShutdownEnds`: the destructor returns, once the thread has come to listen. `SentIsHandled`: over reliable channels
what has been sent is handled, unless Poll waits in `recv()` for ever.

**Session.** `SidesAgree`: when nothing is under way, a patient client is joined exactly if the host counts it.
`JoinedIsCounted`: a patient client that believes itself joined has a place, or the kick is on its way, also on a second
connection after a timeout, unless the leave message of an older connection came late and released its context: that is a
fault, told under *Findings*, and the only exception. `AttrsConverge`: an idle connection shows the host's number of players.
`StartAgreed`: a client that opens its game client is one the game server expects (`StartedIsExpected`), and every
expected client that is still connected has its start message coming (`StartIsDelivered`).

**Entities.** `RegistryAgrees`: the registry finds exactly the entities of the array, the active ones are those of the
array and the new ones, each once, and nothing waits between frames. `WholeFrames`: when the last loop of a frame is
done every entity that was there from the beginning and stayed has had all four phases, and no new or sleeping one any.
`LoopsAreSafe`: no loop indexes beyond the array, no entity is destroyed while a method of it runs. `AllStarted`: in a
started world every entity has been started, except those attached while `Start` looped. `RemovedIsLeftAlone`: a
removed entity is not called again.

**Objects.** `NothingDangles`: parents and lists of children agree (`TreeOK`), no object outlives its parent and no
`nRef` its target (`RefsExist`), no destructor runs twice (`DyingOnce`). `OnlyReleasedDie`: an object the application
still references dies only with its parent. `CwdStaysValid`: destruction leaves the kernel with no current object that
is gone, but in two ways: `PopCwd` brings one back, or code under a destructor makes an object current whose `~nRoot`
has already looked. Both are faults, told under *Findings*; the property says that there is no third.

### Bounds

* Resources: the faults that need several objects need two (one whose request is taken back, one that is stranded;
  one that is deleted, one that is loaded). Three are used where the order of the queue matters.
* `MaxSignals` bounds the counting semaphore: no `Load` begins while two signals are unconsumed. A third signal leads
  to one more empty round of the loader's loop; the proofs have no such bound on their side, `MaxSignals` is any
  positive number there.
* Deadlock is not checked in `loader_posix` and `loader_delete`, because the code does deadlock there (see the finding);
  in `ipc`, `ipc_live` and `session`, because servers and clients that have ended, or users who have made all their
  calls, may stop; and in `objects`, because all ends when the root is freed.
* `message_sync`: `MaxMsgs = 2` gives an outer message, and one that is sent from its handler; `MaxDepth = 4` admits
  broadcast -> dispatcher -> handler -> nested send. With three messages the same properties hold (346 thousand
  states become several million; not kept as a run because of its time).
* `signals`: three bindings are the least for "unbind and rebind one of equal priority behind the loop's back" and for
  a middle element; two posted signals for an order and for one in front of another; five levels admit
  Trigger -> emission -> command -> nested emission -> command. `MaxTime = 1` and `Delays = {0, 1}` give
  signals that are due at once, later, and at the same time. Emitters are the objects that something can be bound to: an
  emission of another object does nothing.
* The symmetry of the two properties in `message_sync` is sound: no definition distinguishes them, and the run checks
  invariants only. The same goes for the entities of `entities`, whose one action property quantifies over all of
  them and has no liveness in it, and for the objects below the root in `objects`.
* `ipc`: a second client is needed for ids and lists (a middle element, an accept during a Poll), a second message for
  order and for strings that share a receive. `Backlog = 1` lets a connection wait, and be refused. One fault
  (`MaxFaults`) shows what each of them does by itself; two at a time only add losses, which `IpcChannel` allows.
  Only the last message taken may be answered, at any later time: what matters is that its client may have gone.
* `session`: the faults need at most two calls of users and a timeout or a second client; four leaves room for a crossing
  of each kind. Two clients reach the limit when it is lowered to one. One session: a client's contexts for
  two sessions share `joinRef` only. The connections of a client are read in any order: a second one is enough for a
  leave message that comes after the request on the newer connection has been accepted.
* `entities`: three objects give more, as many and fewer new entities than gaps in `UpdateRegistry`; two
  properties, an entity that is removed by its first one; six levels admit frame -> method -> attach -> remove -> ...
* `objects`: three objects below the root give a chain, two children of one parent, and a destructor that adds
  a third; two references, one that is left when the other is released.

### Fairness

**Loader.** `WF(Main)`: a call that has begun is not suspended for ever; the operating system schedules the main thread.
Nothing is assumed of `Application`: it need not call anything. `SF(Loader)`: the loader is scheduled, and when a lock that it
waits for is released again and again it gets it at some time; the mutexes of both platforms wake their waiters, but
neither is first-in-first-out, so weak fairness would be too weak for a main thread that keeps locking, and no more than
strong fairness is assumed. Liveness is checked without Release, whose deadlock with the loader is the
finding of `loader_delete`, and with POSIX events, because Win32 events lose signals (see *Findings*).

**IPC.** `WF` for the listener thread and for the steps of a Poll and of the destructor: both threads are scheduled.
`SF` for `New`, which needs the lock that every Poll takes: between two polls the rest of a frame goes by. `WF(PollStart)`
and `SF(GetMsg)`: the frame loop polls and takes its messages, as every user of the class in `src/` does. `WF(Handshake)`:
`Connect` goes on from `connect()` to the handshake. Nobody has to connect, send, answer or stop.

Safety alone is checked of sessions, entities, objects, messages and signals: users and the application decide whether
anything happens there.

## Findings

Three are runs with one property each, stating what the repository says, and a counterexample; the texts with quotes and
lines are in `PROJECT.json`.

1. `loader_delete`: lock order. The loader takes the list, then the object; `Release` takes the object, then the list.
2. `ipc_block`: a Poll between `accept()` and `O_NONBLOCK` waits in `recv()`, with the list locked, until the client
   sends something; the comment says "do a non-blocking recv".
3. `entities_guid`: `GetEntityByGuid` does not see entities attached in the same frame or under activation, and
   creates the row's entity again.

More were met while modelling. Where a definition is named it is in the module; put in the place of the
properties of the run given, it has a counterexample.

* Loader. `GetHead()` without the list's lock strands a job when events do not count (`JobsServed` in `loader_live`
  with `CountingEvent = FALSE`). `Unload()` during a load has no effect, although "unloading resources always
  happened immediately" (`UnloadIsImmediate`). A repeated `Load()` is recognised by two unlocked reads, between or after
  which the loader can act, and fails an assertion (`NeverAborts`, `nresource_main.cc:105`).
* Messages. `HandlePendingMessages` clears messages it has not handled (`QueuedIsHandled`, `port.cc:61`).
* Signals. `nSignalNative::Dispatch` for a `va_list` goes on at the binding it has just deleted; with `Native = {}` the
  same happens when a command unbinds the binding it was invoked through (`NoDeletedBinding`). `HasBinding` never
  advances beyond the successor of its own argument (`HasBindingReturns`, `nsignalbindingset.cc:128`). Bindings of
  released receivers stay in the list, and unbinding any other object asks their null reference for the object
  (`NoNullRef`). `UnbindTargetObject(object)` on an emitter without binding sets is a null pointer access
  (`nsignalemitter.cc:279`, fault `nullSets`).
* IPC. A mini server may be deleted by Poll while the listener thread is about to use it (`nipcminiserver.cc:194`,
  against `nipcserver.cc:119`). A stop request before the first `listen()` has its dummy connection refused, and the
  destructor waits for ever (`nipcserver.cc:61`). An error code left by an earlier call makes the next connection that
  delivers data be closed, and the data lost (`nipcminiserver.cc:125`). A `recv()` that ends within a string loses
  all the strings it has brought and leaves a fragment (`nipcbuffer.h:237`); a split handshake closes the connection.
* Sessions. The host looks for the context to release by the client's guid, whatever connection the leave message came
  on (`nsessionserver_main.cc:535`): a client is kicked, its session expires before it has read that, it joins again on a
  new connection, and the leave message of the old one, which comes late, takes its place away (`JoinedHasPlace`). The
  client is not told.
  `Start` passes a null PlayerName to an assertion when a client has just joined (`NamesKnownAtStart`,
  `nsessionserver_main.cc:367`). A second join request is accepted a second time and makes a second context for one
  client, which then reads two start messages and fails `nNetClient::Open`'s assertion. A hasty user can be told
  "joined" by an acceptance that crossed a kick, and can run into `JoinAborts` after a cancelled join. A connection the
  host has closed without `~closesession` fails an assertion of the client in the frame after (`nipcclient.cc:223`). A
  joined session is released when its broadcasts are late (`nsessionclient_main.cc:320`). `~kick` is not answered with
  `~leavesession`, and `Start` sends no `~closesession` to those who have not joined, although the protocol's
  description says so. The check of name and version negates the first comparison only (`nsessionclient_main.cc:265`).
* Entities. Those attached from another's `OnStart` during `Server::Start` are never started (`server.cc:79`).
  `Save` within a frame, after a removal, would use a null pointer (`server.cc:240`). A property that removes its own
  entity is itself destroyed while its method runs: the entity is kept, its properties are not (`entity.cc:391`).
* Objects. The current object can be one that has been freed (`CwdExists`). `PopCwd` can bring back one that has been
  destroyed since `PushCwd` (`nkernelserver.cc:843`; `nGuiServer::RunCommand` pushes around a script). And a destructor of
  a child can make its dying parent the current object (`SetCwd`, `PushCwd`) after the parent's `~nRoot` has tested
  whether it is (`nroot_main.cc:35`). A parent's destructor destroys children whoever has a reference to
  them. `New` on an existing path returns the object without `AddRef`, though the change log says "if object exists,
  increase ref count" (`nkernelserver.cc:136`).

## Proofs

Each module of proofs EXTENDS the module it is about, and `ListLemmas`. The assumptions are the named ones of the
models: what they say of the constants is what the code's data structures give (a finite set of ports, a null pointer
that is no object). No bound of a run is assumed: nesting, messages, faults, objects and clients are arbitrary. The one
assumption that is not about data, `MaxDepth >= 3` of `EntityManager`, says that the bound on nested calls leaves room for
a loop, a method in it, and what that method calls; the code has no such bound.

| Theorem | Assumes besides | Property |
|---|---|---|
| `AsyncLoaderProofs!TypeCorrect` | - | `TypeOK` |
| `AsyncLoaderProofs!LoadedAreAlive` | - | `LoadedIsAlive` |
| `AsyncLoaderProofs!PendingExist` | - | `PendingExists` |
| `AsyncLoaderProofs!DtorAssertionHolds` | - | `DtorFindsUnloaded` |
| `AsyncLoaderProofs!RenameExclusion` | - | `RenameExcludesLoad` |
| `AsyncLoaderProofs!WakeupCorrect` | `CountingEvent` | `NoLostWakeup` |
| `AsyncLoaderProofs!ShutdownCorrect` | `~JoinTimeout` | `CleanShutdown` |
| `AsyncLoaderProofs!QueueRefinement` | `~JoinTimeout` | `ImplementsQueue` |
| `ObjectTreeProofs!TypeCorrect` | - | `TypeOK` |
| `ObjectTreeProofs!TreeIsSafe` | - | `NothingDangles` |
| `ObjectTreeProofs!NoneDiesUnreleased` | - | `OnlyReleasedDie` |
| `ObjectTreeProofs!CwdIsValid` | - | `CwdStaysValid` |
| `MessageServerProofs!TypeCorrect` | - | `TypeOK` |
| `MessageServerProofs!LoopsStayInBounds` | - | `LoopsInBounds` |
| `MessageServerProofs!StayedAreCalledOnce` | - | `DeliveredOnce` |
| `MessageServerProofs!ArraysAreBounded` | - | `SlotsBounded` |
| `MessageServerProofs!MessagesStayInOrder` | - | `HandledInOrder` |
| `IpcServerProofs!TypeCorrect` | - | `TypeOK` |
| `IpcServerProofs!RepliesArrive` | - | `RepliesReachSender` |
| `IpcServerProofs!OwnersAreUnique` | - | `OneOwnerEach` |
| `IpcServerProofs!ChannelsKept` | - | `ImplementsChannel` |
| `SessionProofs!TypeCorrect` | - | `TypeOK` |
| `SessionProofs!SidesStayAgreed` | - | `SidesAgree` |
| `SessionProofs!JoinedStaysCounted` | - | `JoinedIsCounted` |
| `SessionProofs!AttributesConverge` | - | `AttrsConverge` |
| `SessionProofs!StartIsAgreed` | - | `StartAgreed` |
| `SignalsProofs!TypeCorrect` | - | `TypeOK` |
| `SignalsProofs!CallsStayInOrder` | - | `CallsInOrder` |
| `SignalsProofs!StayedGetCalled` | - | `StayedAreCalled` |
| `SignalsProofs!PostedOnceInOrder` | - | `PostedInOrderOnce` |
| `EntityManagerProofs!TypeCorrect` | - | `TypeOK` |
| `EntityManagerProofs!RegistryStaysTrue` | - | `RegistryAgrees` |
| `EntityManagerProofs!LoopsStaySafe` | - | `LoopsAreSafe` |
| `EntityManagerProofs!FramesAreWhole` | - | `WholeFrames` |
| `EntityManagerProofs!AllGetStarted` | - | `AllStarted` |
| `EntityManagerProofs!RemovedStaysAlone` | - | `RemovedIsLeftAlone` |

None of the safety properties is inductive: each needs to know why the state around it cannot be otherwise.

**Loader.** The constants are any set of resources, finite or not, any set of operations and outcomes, either kind of
event, with or without the join timeout unless the theorem says otherwise. The invariant is built in layers, each
proved for all actions with the layers before it as hypotheses:

1. `TypeInv`: the types, and which operation, object and job each program counter implies.
2. `LockInv`: each lock is held by exactly the thread whose program counter is in its critical section. It gives
   mutual exclusion, and with it `RenameExcludesLoad`.
3. `Lifetime`: what the main thread works on and what the loader has taken still exists, and is not being destroyed
   once the loader has its mutex. The loader takes the mutex before it gives up the list; that is why there is no
   moment in which a taken, unlocked object can be deleted.
4. `Nodes`: queued objects exist, and no node is linked twice.
5. `DtorUnloaded`: past the check in the destructor nobody can make the object loaded.
6. `AfterJoin`: after the join the loader is dead, the list stays empty and the objects still to be unloaded are in `todo`.
7. `WakeupInv`: a loader that goes to sleep with a non-empty list has a signal coming.

The refinement proof maps every action to a step of `LoadQueue` or a stutter under the conjunction of the layers.

**Objects.** `IInv` adds to the types and `NothingDangles`: the count of a living object is what the application holds,
or one more (`Counted`); parents form no cycle (`Acyclic`); every dying object has its destructor on the stack
(`DyingAreUnderWay`); and no destructor is under way at or above an object whose destructor started earlier
(`InnerFirst`). The last one is what keeps a destructor from running twice: an application that is called from a
destructor can release an object only if it holds it, and a parent can destroy a child only if the child is alive, so a
second destructor of an object would need the first one above it. `CwdIsValid` needs little of this: it compares what
each step does to the current object with the destructors that have passed the test of `~nRoot`. `Above(o)` is the least
set with `o` that is closed under `parent`; the lemmas about it stand in for an induction over the tree.

**Messages.** The ports are assumed finitely many; every hub has the ports that may be attached to it (`Holds`).
`Tidy`: an array holds ports of its hub, each once, and null elements, and is no longer than the hub has ports. `Stacked`:
`locks[h]` is the number of loops over `h` on the stack, and of every loop, what it has called and what it has still to
call is where its index says. Elements move only when that number is 0, so a port that a loop has still to call stays
where the loop will find it. `HandlePendingMessages` runs outside of all loops, so its frame is the bottom of the stack.
`Ordered`: what a port has handled, and what of its queue has not been taken up, is ascending. That holds of a port that
at most one hub holds, and `HandledInOrder` says no more: a port that is attached to a dispatcher and registered with
the server as well gets a broadcast twice.

**IPC.** The set of connections is assumed finite: the ids of mini servers are counted. The lock follows from the program
counters of the two threads (`Controlled`). `Owned`: a connection waits in the queue or has been taken from it by one
mini server, which is on the list for as long as it has it. `Counted`: every mini server has a connection of its own, or
a failed `accept()`, or is the one the listener has just made, so the ids suffice. `HandedOver`: which of them have no
socket, at each point of the listener thread; without it nothing says that the mini server that Poll skips is the
listener's own. `Addressed`: an id that came with a message belongs to a mini server that has that connection, or none any
more, and is never the one that waits for `accept()`; so ids, which are never used again, cannot come to stand for
another client.

`ChannelsKept` is the refinement of `IpcChannel`. `SInv` adds to this invariant what the streams look like (`Streams`:
nothing before the handshake, nothing after the close command, and a connection that has not been read still begins with
its handshake, so the strings that a mini server throws away while it is not connected are no messages), where the
code of a reset connection can come from (`Leftover`), and that nobody wakes the listener before the stop flag is set
(`Stopping`); under it every step does one of four things to the messages under way, `Keeps`, `Loses`, `Sends` or
`Gets`. The members of a sequence that are messages are a sublist of it, so the proof rests on the lemmas about sublists of
sequences that are joined, shortened, or mapped (`OnlyOfJoined`, `OnlyOfRest`, `OnlyOfBoth`). `Delivered` is what the
abstract `Send` asks for: what is under way and what has been handed over is not newer than what has been sent, and is
all of it while the channels are reliable.

**Sessions.** The constants are any finite set of sessions (a frame counts those that it gives up), any set of clients,
finite or not, hasty or patient, any limit, number of connections and number of calls. The invariant, `SessionInv`,
speaks of each session by itself:

* `Wiring`: a connection that has not been made is empty; one with an open end is the last of its client; a close message
  comes only from an end that is shut; and what is under way to the host has a mini server to read it.
* `Holding`: a context is connected as long as its host serves, and has been linked or has its handshake, and the query for
  the attributes, on the way.
* `Hosting`: a host that does not serve has no contexts and no mini servers, and the mini servers are in line: those of
  one client in the order of its connections.
* `Agreeing`, of a serving host: the number of players is that of its contexts; contexts are of connections that have been
  made, and those of the present ones can be told (`Seated`); and for every client with an open context, `Meets`.
* `Starting`: a start message, an opened game and the roster are about clients that the started session expects.

`Meets` is the heart: it counts as if everything under way had been handled. The attributes are those of the host, or
dirty, or asked for. Of a patient client, `Side` has the requests that can be on the way (a leave, a join, or a
leave before a join, no more) and says that who has asked for something is not joined and will not find
itself joined by what is coming; that who will be joined when it has read all is counted, or `ousted`; and, of a client that has
connected once, the converse. What an older connection still has to say can change only one thing of this: it can
release the context of the last one, which is then in `ousted`, until a request on it is accepted again; a client's
first connection has no older one. Without the part about what is under way the properties are not inductive: a leave message
that is handled would take away the place of a client that has joined again, an acceptance could meet a client
that has left, a kick could cross either.

A `Trigger` of the host handles many messages, each of which disturbs this. `Midway` is the invariant between two of them,
where what has still to be read is an argument; each handler keeps it (`AfterJoin`, `AfterLeave`, `AfterAttr`), and
the loops over messages and mini servers keep it by induction on the position, which is on numbers and for which
`LeastNumber` stands in (`Rounds`). A step of a client is judged session by session: `Own` is what the invariant says of one
client and one session, `ClientKeeps` says that nothing else can be disturbed, and the frame, which can find, give up and
read any number of sessions at once, is split by what happens to one of them.

**Signals.** `Sorted`: a list of bindings is ordered by priority and holds none twice. `OnCourse`, of every emission on the
stack: what it has invoked lies before the binding it is at, wherever it is in the list now; what stayed and has not
been invoked lies behind it. It is an invariant because a binding that is made again goes *in front of* those with its
priority (`InsertOrder`, `LeaveOutOrder` in `ListLemmas`), so it cannot come up a second time. `AtBottom`: only the bottom
of the stack can be `Trigger`, at the present time. `Posted`: the list, less the signal that is running, and those that
have been taken up are all that have been posted; both are ordered by time, and what has been taken up is not later than
what waits. The theorems hold in all behaviours up to a fault, as the runs do.

**Entities.** `ArraysInv`: no entity is twice in the arrays; the array and the registry hold the same ones; an entity that
is active, or is being deactivated, is in the array or waits for the end of the frame, never both; and out of frames there
are no gaps and nobody waits. The work is in `UpdateKeeps`: the loop of `UpdateRegistry` fills the gaps from the end of the
list of new entities, and the proof follows the k-th gap to the k-th of them (`MergedElements`, `Ranks`). `StackInv`: loops are
at the bottom of the stack, a frame's loop has called the element before its index, which is the entity of the call
above it or null; an entity is activated or deactivated by one call at a time, and none is deactivated while the world
loads, starts or saves. So an array is shortened only when no loop can notice, and what runs is in the array or kept in
`removedEntities`. `CalledInv` computes, from the indices of the loop and of the call above it, what has been called of
each element and that it is nothing for those that are new or asleep; at the last index of the last phase it is `WholeFrames`.
`StartedInv` does the same for `Start`, whose loop is over the array that it measured before, and accounts for those that
were attached meanwhile.

**Lemmas.** `ListLemmas` holds what several of these need: `SublistProperties` (a filtered list is the original along an
ascending map of positions), `LeaveOutOrder`, `InsertPosition` and `InsertOrder`, `RemovedElement`, `AppendedElement`,
`TopOfStack`, `LeastNumber` (with the library's theorem on well-founded sets), `OneOrder`; and, for the two network
components, what joining, reversing and shortening do to the elements and to the members of a set in a sequence
(`JoinedElements`, `RestElements`, `OnlyOfJoined`, `OneCount`). `Sublist` is defined by counting positions and not by
recursion, so that nothing has to be proved by induction over data.

**Only model-checked.** Liveness (`JobsServed`, `CallsReturn`, `ShutdownEnds`, `SentIsHandled`), because fairness is out of
the prover's reach, and the runs that expect a violation. Every invariant and action property and both refinements
that a passing run checks are theorems. Where a theorem about `AsyncLoader`
assumes something of the platform its property needs it: `NoLostWakeup` fails with auto-reset events, `CleanShutdown` with
the join timeout. In every case the runs of the proved models also check the theorems' properties: what they
show beyond the proofs is that the interesting cases occur, since each property has a seeded fault that breaks it.

## Plan

1. *Done:* all models; proofs about all of them: every safety property of the passing runs, and the refinements of
   `LoadQueue` and `IpcChannel`.
2. *Open:* liveness by proof, which needs a prover with fairness; hazards that no property covers, which are faults of
   the code told under *Findings*; the particle ring buffer and the remote server, if they come to matter.

## Not modelled

Of the modelled components: synchronous loading, lost devices and resource bundles; `TimedWait`; ports' reference
counts; signal registries; `nIpcPeer`; the game's own messages after a start (`nNetServer`, `nNetClient`) and LAN
broadcasts as packets; names, versions and paths as text; `nAutoRef` and `nHardRef`; managers' callbacks and properties
that are attached or removed one by one at runtime. And the components that
`PROJECT.json` marks `not_modelled`, with the reason for each: mostly devices, files, numerical code and sequential
conversions.
