---------------------------- MODULE AsyncLoader ----------------------------
(***************************************************************************)
(* Asynchronous resource loading: the main thread calls nResource::Load,   *)
(* Unload, SetFilename and Release on mesh resources and finally destroys  *)
(* the nResourceServer; the server's loader thread takes jobs from the     *)
(* thread-safe job list and runs LoadResource on them.                     *)
(*                                                                         *)
(* Each thread is a program counter.  A step reads or writes shared state  *)
(* at most once, except that what a thread does inside a critical section  *)
(* of the job list, up to and including the Unlock, is one step.           *)
(*                                                                         *)
(* A failed n_assert aborts the program: `fault' names the assertion and   *)
(* no thread moves again.                                                  *)
(***************************************************************************)
EXTENDS Threading, Sequences, SequencesExt

CONSTANTS
    Resource,      \* the resource objects, all with async loading enabled
    NoRes,         \* the null pointer
    Ops,           \* the entry points the application calls
    Outcomes,      \* what a mesh load can do, see Fill
    JoinTimeout,   \* TRUE: ~nThread gives up waiting after 500 ms (Win32)
    MaxSignals     \* bound: no new Load while this many signals are unconsumed

AllOps == {"Load", "Unload", "Rename", "Release", "Shutdown"}
AllOutcomes == {"valid", "notInitialised", "notFilled"}

ASSUME AsyncLoaderAssumption ==
    /\ NoRes \notin Resource
    /\ Ops \subseteq AllOps
    /\ Outcomes \subseteq AllOutcomes /\ Outcomes # {}
    /\ JoinTimeout \in BOOLEAN
    /\ MaxSignals \in Nat \ {0}

VARIABLES
    \* the resource objects
    life,          \* "none", "live", or "dying" (inside the destructor)
    state,         \* nResource::state
    buffers,       \* are the vertex and index buffers created?
    decl,          \* is the vertex declaration created?
    resLock,       \* owner of nRoot::mutex
    \* the job list
    jobList,       \* the linked job nodes, head first
    listLock,      \* owner of nThreadSafeList::mutex
    listEvent,     \* nThreadSafeList::event
    \* the loader's nThread
    stopThread, startupEvent, shutdownEvent,
    \* the main thread: program counter, the call it executes, its object,
    \* and the objects ~nResourceServer still has to unload
    pcM, op, cur, todo,
    \* the loader thread: program counter, the list head read by GetHead,
    \* and the resource it has taken from the list
    pcL, probe, job,
    fault

objVars  == <<life, state, buffers, decl>>
listVars == <<jobList, listLock, listEvent>>
thrVars  == <<stopThread, startupEvent, shutdownEvent>>
mainVars == <<pcM, op, cur, todo>>
loadVars == <<pcL, probe, job>>
vars == <<objVars, resLock, listVars, thrVars, mainVars, loadVars, fault>>

Faults == {"none", "loadedJob", "nullJob", "loadTwice", "buffersLeft", "declLeft", "dtorLoaded"}

(* IsPending(): the object's job node is linked into the list. *)
IsPending(r) == \E i \in DOMAIN jobList : jobList[i] = r
Exists(r)    == life[r] # "none"

(* nNode::Remove of r's node: a node is linked at most once. *)
Unlinked(r) == RemoveAt(jobList, CHOOSE i \in DOMAIN jobList : jobList[i] = r)

Init ==
    /\ life = [r \in Resource |-> "none"]
    /\ state = [r \in Resource |-> "Unloaded"]
    /\ buffers = [r \in Resource |-> FALSE]
    /\ decl = [r \in Resource |-> FALSE]
    /\ resLock = [r \in Resource |-> Nobody]
    /\ jobList = <<>> /\ listLock = Nobody /\ listEvent = 0
    /\ stopThread = FALSE /\ startupEvent = 0 /\ shutdownEvent = 0
    /\ pcM = "starting" /\ op = "none" /\ cur = NoRes /\ todo = {}
    /\ pcL = "boot" /\ probe = NoRes /\ job = NoRes
    /\ fault = "none"

-----------------------------------------------------------------------------
(* The main thread.                                                        *)

MainAt(pc) == fault = "none" /\ pcM = pc

(* The calling operation goes on at pc, touching no shared state but what  *)
(* the action itself names.                                                *)
MainTo(pc) == pcM' = pc /\ UNCHANGED <<op, cur, todo>>

(* An operation returns to the application; those that ~nResourceServer    *)
(* calls in its loop return to that loop.                                  *)
Return ==
    /\ pcM' = IF op = "Shutdown" THEN "unloadAll" ELSE "idle"
    /\ op' = IF op = "Shutdown" THEN op ELSE "none"
    /\ cur' = NoRes
    /\ UNCHANGED todo

Call(o, r, pc) ==
    /\ MainAt("idle")
    /\ o \in Ops
    /\ life[r] = "live"
    /\ op' = o /\ cur' = r /\ pcM' = pc
    /\ UNCHANGED <<todo, objVars, resLock, listVars, thrVars, loadVars, fault>>

(* nThread::nThread waits for the thread function to signal its start.     *)
Started ==
    /\ MainAt("starting")
    /\ CanWait(startupEvent)
    /\ startupEvent' = WaitEvent(startupEvent)
    /\ MainTo("idle")
    /\ UNCHANGED <<objVars, resLock, listVars, stopThread, shutdownEvent, loadVars, fault>>

(* NewResource creates the object: not loaded, no D3D objects.             *)
NewResource(r) ==
    /\ MainAt("idle")
    /\ life[r] = "none"
    /\ life' = [life EXCEPT ![r] = "live"]
    /\ state' = [state EXCEPT ![r] = "Unloaded"]
    /\ buffers' = [buffers EXCEPT ![r] = FALSE]
    /\ decl' = [decl EXCEPT ![r] = FALSE]
    /\ UNCHANGED <<resLock, listVars, thrVars, mainVars, loadVars, fault>>

(* Load: a loaded resource is left alone ...                               *)
Load(r) ==
    /\ state[r] = "Unloaded"
    /\ listEvent < MaxSignals
    /\ Call("Load", r, "loadPending")

(* ... and so is one with a pending request, read without the list's lock. *)
LoadPending ==
    /\ MainAt("loadPending")
    /\ IF IsPending(cur) THEN Return ELSE MainTo("loadAssert")
    /\ UNCHANGED <<objVars, resLock, listVars, thrVars, loadVars, fault>>

(* AddLoaderJob asserts that the resource is neither pending nor loaded.   *)
(* Only this thread links nodes, so the first assertion cannot fail.       *)
AddAssert ==
    /\ MainAt("loadAssert")
    /\ IF state[cur] = "Unloaded"
       THEN MainTo("addLock") /\ UNCHANGED fault
       ELSE fault' = "loadedJob" /\ UNCHANGED mainVars
    /\ UNCHANGED <<objVars, resLock, listVars, thrVars, loadVars>>

LockList(from, to) ==
    /\ MainAt(from)
    /\ CanLock(listLock)
    /\ listLock' = "main"
    /\ MainTo(to)
    /\ UNCHANGED <<objVars, resLock, jobList, listEvent, thrVars, loadVars, fault>>

AddLock == LockList("addLock", "addTail")

(* Seeded fault: the job is queued in front of the others.                 *)
AddTailAtHead ==
    /\ MainAt("addTail")
    /\ jobList' = <<cur>> \o jobList
    /\ listLock' = Nobody
    /\ MainTo("addSignal")
    /\ UNCHANGED <<objVars, resLock, listEvent, thrVars, loadVars, fault>>

AddTail ==
    /\ MainAt("addTail")
    /\ jobList' = Append(jobList, cur)
    /\ listLock' = Nobody
    /\ MainTo("addSignal")
    /\ UNCHANGED <<objVars, resLock, listEvent, thrVars, loadVars, fault>>

(* Seeded fault: signal only the job that makes the list non-empty.        *)
AddSignalOnce ==
    /\ MainAt("addSignal")
    /\ listEvent' = IF Len(jobList) <= 1 THEN SignalEvent(listEvent) ELSE listEvent
    /\ Return
    /\ UNCHANGED <<objVars, resLock, jobList, listLock, thrVars, loadVars, fault>>

AddSignal ==
    /\ MainAt("addSignal")
    /\ listEvent' = SignalEvent(listEvent)
    /\ Return
    /\ UNCHANGED <<objVars, resLock, jobList, listLock, thrVars, loadVars, fault>>

(* RemLoaderJob: unlink the node, if it is linked, under the list's lock.  *)
RemNode(from, to) ==
    /\ MainAt(from)
    /\ jobList' = IF IsPending(cur) THEN Unlinked(cur) ELSE jobList
    /\ listLock' = Nobody
    /\ MainTo(to)
    /\ UNCHANGED <<objVars, resLock, listEvent, thrVars, loadVars, fault>>

(* Unload: take the request back, then free what has been loaded.          *)
Unload(r)  == Call("Unload", r, "unloadLock")
UnloadLock == LockList("unloadLock", "unloadRem")
UnloadRem  == RemNode("unloadRem", "unloadState")

Unloaded ==
    IF op = "Release" THEN MainTo("dtorAssert") ELSE Return

UnloadState ==
    /\ MainAt("unloadState")
    /\ IF state[cur] = "Unloaded" THEN Unloaded ELSE MainTo("unloadFree")
    /\ UNCHANGED <<objVars, resLock, listVars, thrVars, loadVars, fault>>

(* nD3D9Mesh::UnloadResource; its IsLoaded assertion cannot fail, because  *)
(* only this thread takes a resource back to Unloaded.                     *)
UnloadResource ==
    /\ MainAt("unloadFree")
    /\ state' = [state EXCEPT ![cur] = "Unloaded"]
    /\ buffers' = [buffers EXCEPT ![cur] = FALSE]
    /\ decl' = [decl EXCEPT ![cur] = FALSE]
    /\ Unloaded
    /\ UNCHANGED <<life, resLock, listVars, thrVars, loadVars, fault>>

LockRes(from, to) ==
    /\ MainAt(from)
    /\ CanLock(resLock[cur])
    /\ resLock' = [resLock EXCEPT ![cur] = "main"]
    /\ MainTo(to)
    /\ UNCHANGED <<objVars, listVars, thrVars, loadVars, fault>>

(* SetFilename writes the name under the object's mutex.                   *)
Rename(r)  == Call("Rename", r, "renameLock")

(* Seeded fault: SetFilename and Release without the object's mutex.       *)
DontLockRes(from, to) ==
    /\ MainAt(from)
    /\ MainTo(to)
    /\ UNCHANGED <<objVars, resLock, listVars, thrVars, loadVars, fault>>

RenameNoLock  == DontLockRes("renameLock", "rename")
ReleaseNoLock == DontLockRes("releaseLock", "dtorMesh")

RenameLock == LockRes("renameLock", "rename")

SetFilename ==
    /\ MainAt("rename")
    /\ resLock' = [resLock EXCEPT ![cur] = Nobody]
    /\ Return
    /\ UNCHANGED <<objVars, listVars, thrVars, loadVars, fault>>

(* Release of the last reference deletes the object with its mutex held.   *)
Release(r)  == Call("Release", r, "releaseLock")

ReleaseLock == LockRes("releaseLock", "dtorMesh")

(* ~nD3D9Mesh and ~nMesh2 unload a resource that is still loaded ...       *)
DtorMesh ==
    /\ MainAt("dtorMesh")
    /\ life' = [life EXCEPT ![cur] = "dying"]
    /\ MainTo(IF state[cur] = "Unloaded" THEN "dtorAssert" ELSE "unloadLock")
    /\ UNCHANGED <<state, buffers, decl, resLock, listVars, thrVars, loadVars, fault>>

(* ... ~nResource asserts that it is unloaded, and takes its request back. *)
DtorAssert ==
    /\ MainAt("dtorAssert")
    /\ IF state[cur] = "Unloaded"
       THEN MainTo("dtorLock") /\ UNCHANGED fault
       ELSE fault' = "dtorLoaded" /\ UNCHANGED mainVars
    /\ UNCHANGED <<objVars, resLock, listVars, thrVars, loadVars>>

DtorLock == LockList("dtorLock", "dtorRem")

(* Seeded fault: the destructor leaves its node in the job list.           *)
DtorKeepNode ==
    /\ MainAt("dtorRem")
    /\ listLock' = Nobody
    /\ MainTo("dtorFree")
    /\ UNCHANGED <<objVars, resLock, jobList, listEvent, thrVars, loadVars, fault>>

DtorRem  == RemNode("dtorRem", "dtorFree")

(* The memory and the mutex in it are gone.                                *)
DtorFree ==
    /\ MainAt("dtorFree")
    /\ life' = [life EXCEPT ![cur] = "none"]
    /\ resLock' = [resLock EXCEPT ![cur] = Nobody]
    /\ Return
    /\ UNCHANGED <<state, buffers, decl, listVars, thrVars, loadVars, fault>>

(* ~nResourceServer: ~nThread asks the loader to stop, wakes it, lets it   *)
(* terminate and waits until it has; then the list is cleared and every    *)
(* resource is unloaded.                                                   *)
Shutdown ==
    /\ MainAt("idle")
    /\ "Shutdown" \in Ops
    /\ stopThread' = TRUE
    /\ op' = "Shutdown" /\ pcM' = "wakeup" /\ UNCHANGED <<cur, todo>>
    /\ UNCHANGED <<objVars, resLock, listVars, startupEvent, shutdownEvent, loadVars, fault>>

(* Seeded fault: ~nThread without a wakeup function.                       *)
NoWakeup ==
    /\ MainAt("wakeup")
    /\ MainTo("letDie")
    /\ UNCHANGED <<objVars, resLock, listVars, thrVars, loadVars, fault>>

Wakeup ==
    /\ MainAt("wakeup")
    /\ listEvent' = SignalEvent(listEvent)
    /\ MainTo("letDie")
    /\ UNCHANGED <<objVars, resLock, jobList, listLock, thrVars, loadVars, fault>>

LetDie ==
    /\ MainAt("letDie")
    /\ shutdownEvent' = SignalEvent(shutdownEvent)
    /\ MainTo("join")
    /\ UNCHANGED <<objVars, resLock, listVars, stopThread, startupEvent, loadVars, fault>>

(* Seeded fault: ~nThread does not wait for its thread.                    *)
DontJoin ==
    /\ MainAt("join")
    /\ MainTo("clearLock")
    /\ UNCHANGED <<objVars, resLock, listVars, thrVars, loadVars, fault>>

Join ==
    /\ MainAt("join")
    /\ pcL = "dead" \/ JoinTimeout
    /\ MainTo("clearLock")
    /\ UNCHANGED <<objVars, resLock, listVars, thrVars, loadVars, fault>>

ClearLock == LockList("clearLock", "clear")

ClearJobs ==
    /\ MainAt("clear")
    /\ jobList' = <<>>
    /\ listLock' = Nobody
    /\ todo' = {r \in Resource : life[r] = "live"}
    /\ pcM' = "unloadAll" /\ UNCHANGED <<op, cur>>
    /\ UNCHANGED <<objVars, resLock, listEvent, thrVars, loadVars, fault>>

(* UnloadResources(AllResourceTypes)                                       *)
UnloadNext(r) ==
    /\ MainAt("unloadAll")
    /\ r \in todo
    /\ todo' = todo \ {r}
    /\ cur' = r /\ pcM' = "unloadLock" /\ UNCHANGED op
    /\ UNCHANGED <<objVars, resLock, listVars, thrVars, loadVars, fault>>

UnloadDone ==
    /\ MainAt("unloadAll")
    /\ todo = {}
    /\ MainTo("gone")
    /\ UNCHANGED <<objVars, resLock, listVars, thrVars, loadVars, fault>>

-----------------------------------------------------------------------------
(* The loader thread, LoaderThreadFunc.                                    *)

LoaderAt(pc) == fault = "none" /\ pcL = pc
LoaderTo(pc) == pcL' = pc /\ UNCHANGED <<probe, job>>

ThreadStarted ==
    /\ LoaderAt("boot")
    /\ startupEvent' = SignalEvent(startupEvent)
    /\ LoaderTo("wait")
    /\ UNCHANGED <<objVars, resLock, listVars, stopThread, shutdownEvent, mainVars, fault>>

WaitJobs ==
    /\ LoaderAt("wait")
    /\ CanWait(listEvent)
    /\ listEvent' = WaitEvent(listEvent)
    /\ LoaderTo("check")
    /\ UNCHANGED <<objVars, resLock, jobList, listLock, thrVars, mainVars, fault>>

CheckStop ==
    /\ LoaderAt("check")
    /\ LoaderTo(IF stopThread THEN "until" ELSE "head")
    /\ UNCHANGED <<objVars, resLock, listVars, thrVars, mainVars, fault>>

(* jobList.GetHead(), which nobody guards with the list's lock, reads two  *)
(* pointers: the list's head, and that node's successor.  The successor is *)
(* null for the list's own end node and for a node unlinked in between;    *)
(* what it is for a node freed in between is undefined.                    *)
ReadHead ==
    /\ LoaderAt("head")
    /\ probe' = IF jobList = <<>> THEN NoRes ELSE Head(jobList)
    /\ pcL' = "succ" /\ UNCHANGED job
    /\ UNCHANGED <<objVars, resLock, listVars, thrVars, mainVars, fault>>

ReadSucc ==
    /\ LoaderAt("succ")
    /\ \E isNull \in BOOLEAN :
        /\ probe = NoRes => isNull
        /\ probe \in Resource /\ Exists(probe) => isNull = ~IsPending(probe)
        /\ pcL' = IF isNull THEN "until" ELSE "lockList"
    /\ probe' = NoRes /\ UNCHANGED job
    /\ UNCHANGED <<objVars, resLock, listVars, thrVars, mainVars, fault>>

LockJobs ==
    /\ LoaderAt("lockList")
    /\ CanLock(listLock)
    /\ listLock' = "loader"
    /\ LoaderTo("pop")
    /\ UNCHANGED <<objVars, resLock, jobList, listEvent, thrVars, mainVars, fault>>

(* Seeded fault: the list is unlocked before the resource is locked.       *)
PopJobAndUnlock ==
    /\ LoaderAt("pop")
    /\ IF jobList = <<>>
       THEN fault' = "nullJob" /\ UNCHANGED <<jobList, listLock, loadVars>>
       ELSE /\ job' = Head(jobList)
            /\ jobList' = Tail(jobList)
            /\ pcL' = "lockRes"
            /\ listLock' = Nobody
            /\ UNCHANGED <<probe, fault>>
    /\ UNCHANGED <<objVars, resLock, listEvent, thrVars, mainVars>>

(* RemHead returns null for an empty list, and GetPtr is called on it.     *)
PopJob ==
    /\ LoaderAt("pop")
    /\ IF jobList = <<>>
       THEN fault' = "nullJob" /\ UNCHANGED <<jobList, loadVars>>
       ELSE /\ job' = Head(jobList)
            /\ jobList' = Tail(jobList)
            /\ pcL' = "lockRes"
            /\ UNCHANGED <<probe, fault>>
    /\ UNCHANGED <<objVars, resLock, listLock, listEvent, thrVars, mainVars>>

LockJob ==
    /\ LoaderAt("lockRes")
    /\ CanLock(resLock[job])
    /\ resLock' = [resLock EXCEPT ![job] = "loader"]
    /\ LoaderTo("unlockList")
    /\ UNCHANGED <<objVars, listVars, thrVars, mainVars, fault>>

UnlockJobs ==
    /\ LoaderAt("unlockList")
    /\ listLock' = Nobody
    /\ LoaderTo("begin")
    /\ UNCHANGED <<objVars, resLock, jobList, listEvent, thrVars, mainVars, fault>>

(* nD3D9Mesh::LoadResource asserts that nothing is loaded ...              *)
BeginLoad ==
    /\ LoaderAt("begin")
    /\ \/ /\ state[job] # "Unloaded"
          /\ fault' = "loadTwice" /\ UNCHANGED loadVars
       \/ /\ state[job] = "Unloaded" /\ buffers[job]
          /\ fault' = "buffersLeft" /\ UNCHANGED loadVars
       \/ /\ state[job] = "Unloaded" /\ ~buffers[job]
          /\ LoaderTo("fill") /\ UNCHANGED fault
    /\ UNCHANGED <<objVars, resLock, listVars, thrVars, mainVars>>

(* ... nMesh2::LoadResource creates the buffers and reads the data: with a *)
(* resource loader attached it can fail before the buffers are created, or *)
(* after that, and then leaves them as they are ...                        *)
Fill ==
    /\ LoaderAt("fill")
    /\ \E o \in Outcomes :
        /\ buffers' = [buffers EXCEPT ![job] = (o # "notInitialised")]
        /\ LoaderTo(IF o = "valid" THEN "publish" ELSE "unlockRes")
    /\ UNCHANGED <<life, state, decl, resLock, listVars, thrVars, mainVars, fault>>

(* ... sets the state to Valid ...                                         *)
Publish ==
    /\ LoaderAt("publish")
    /\ state' = [state EXCEPT ![job] = "Valid"]
    /\ LoaderTo("declare")
    /\ UNCHANGED <<life, buffers, decl, resLock, listVars, thrVars, mainVars, fault>>

(* ... and nD3D9Mesh::LoadResource creates the vertex declaration last.    *)
Declare ==
    /\ LoaderAt("declare")
    /\ IF decl[job]
       THEN fault' = "declLeft" /\ UNCHANGED <<decl, loadVars>>
       ELSE /\ decl' = [decl EXCEPT ![job] = TRUE]
            /\ LoaderTo("unlockRes")
            /\ UNCHANGED fault
    /\ UNCHANGED <<life, state, buffers, resLock, listVars, thrVars, mainVars>>

EndLoad ==
    /\ LoaderAt("unlockRes")
    /\ resLock' = [resLock EXCEPT ![job] = Nobody]
    /\ job' = NoRes
    /\ pcL' = "head" /\ UNCHANGED probe
    /\ UNCHANGED <<objVars, listVars, thrVars, mainVars, fault>>

UntilStop ==
    /\ LoaderAt("until")
    /\ LoaderTo(IF stopThread THEN "harakiri" ELSE "wait")
    /\ UNCHANGED <<objVars, resLock, listVars, thrVars, mainVars, fault>>

ThreadHarakiri ==
    /\ LoaderAt("harakiri")
    /\ CanWait(shutdownEvent)
    /\ shutdownEvent' = WaitEvent(shutdownEvent)
    /\ LoaderTo("dead")
    /\ UNCHANGED <<objVars, resLock, listVars, stopThread, startupEvent, mainVars, fault>>

-----------------------------------------------------------------------------
(* What the application may start, and what a thread goes on with.         *)
Application ==
    \/ \E r \in Resource : NewResource(r) \/ Load(r) \/ Unload(r) \/ Rename(r) \/ Release(r)
    \/ Shutdown

Main ==
    \/ Started
    \/ LoadPending \/ AddAssert \/ AddLock \/ AddTail \/ AddSignal
    \/ UnloadLock \/ UnloadRem \/ UnloadState \/ UnloadResource
    \/ RenameLock \/ SetFilename
    \/ ReleaseLock \/ DtorMesh \/ DtorAssert \/ DtorLock \/ DtorRem \/ DtorFree
    \/ Wakeup \/ LetDie \/ Join \/ ClearLock \/ ClearJobs
    \/ \E r \in Resource : UnloadNext(r)
    \/ UnloadDone

Loader ==
    \/ ThreadStarted \/ WaitJobs \/ CheckStop \/ ReadHead \/ ReadSucc
    \/ LockJobs \/ PopJob \/ LockJob \/ UnlockJobs
    \/ BeginLoad \/ Fill \/ Publish \/ Declare \/ EndLoad
    \/ UntilStop \/ ThreadHarakiri

(* The program has aborted, or the server and its thread are gone.         *)
Stopped ==
    /\ fault # "none" \/ (pcM = "gone" /\ pcL = "dead")
    /\ UNCHANGED vars

Next == Application \/ Main \/ Loader \/ Stopped

Spec == Init /\ [][Next]_vars

(* A call that has begun goes on; the loader thread is scheduled, and a    *)
(* lock it waits for while it is released again and again reaches it.      *)
Fairness == WF_vars(Main) /\ SF_vars(Loader)

FairSpec == Spec /\ Fairness
-----------------------------------------------------------------------------
(* Properties.                                                             *)

ListWait == {"addLock", "unloadLock", "dtorLock", "clearLock"}
ListHeld == {"addTail", "unloadRem", "dtorRem", "clear"}
ResWait  == {"renameLock", "releaseLock"}
MainPCs  == ListWait \cup ListHeld \cup ResWait \cup
            {"starting", "idle", "loadPending", "loadAssert", "addSignal",
             "unloadState", "unloadFree", "rename", "dtorMesh", "dtorAssert",
             "dtorFree", "wakeup", "letDie", "join", "unloadAll", "gone"}

(* The loader between its two critical sections, with the resource locked. *)
Loading   == {"unlockList", "begin", "fill", "publish", "declare", "unlockRes"}
LoaderPCs == Loading \cup {"boot", "wait", "check", "head", "succ", "lockList", "pop",
                           "lockRes", "until", "harakiri", "dead"}

Owner == {Nobody, "main", "loader"}

(* Every variable keeps its type.                                          *)
TypeOK ==
    /\ life \in [Resource -> {"none", "live", "dying"}]
    /\ state \in [Resource -> {"Unloaded", "Valid"}]
    /\ buffers \in [Resource -> BOOLEAN]
    /\ decl \in [Resource -> BOOLEAN]
    /\ resLock \in [Resource -> Owner]
    /\ jobList \in Seq(Resource)
    /\ listLock \in Owner
    /\ listEvent \in Nat /\ startupEvent \in Nat /\ shutdownEvent \in Nat
    /\ stopThread \in BOOLEAN
    /\ pcM \in MainPCs
    /\ op \in AllOps \cup {"none"}
    /\ cur \in Resource \cup {NoRes}
    /\ todo \subseteq Resource
    /\ pcL \in LoaderPCs
    /\ probe \in Resource \cup {NoRes}
    /\ job \in Resource \cup {NoRes}
    /\ fault \in Faults

(* The resource the loader has locked is neither freed nor in its          *)
(* destructor while LoadResource runs on it: the loader takes the object's *)
(* mutex before it gives up the list's (LoaderThreadFunc), and Release     *)
(* waits for that mutex before it deletes (nRoot::Release).                *)
LoadedIsAlive == pcL \in Loading => life[job] = "live"

(* A freed object is in the job list under no interleaving: ~nResource     *)
(* takes its request back, and nothing links the node again.               *)
PendingExists == \A r \in Resource : IsPending(r) => Exists(r)

(* ~nResource never finds its resource loaded, although the loader thread  *)
(* may finish a load at any moment before the destructor's first check.    *)
DtorFindsUnloaded == fault # "dtorLoaded"

(* SetFilename never changes the name of a resource that is being loaded.  *)
RenameExcludesLoad == pcM = "rename" => ~(pcL \in Loading /\ job = cur)

(* When the loader sleeps, some signal is left or on its way for every job *)
(* list that is not empty: no interleaving of AddLoaderJob, RemLoaderJob   *)
(* and the unguarded GetHead loses the last wakeup.                        *)
NoLostWakeup ==
    pcL = "wait" /\ jobList # <<>> => listEvent > 0 \/ pcM = "addSignal"

(* When ~nResourceServer is done, the loader thread has ended, no job is   *)
(* left in the list (~nList asserts it) and every resource is unloaded.    *)
CleanShutdown ==
    pcM = "gone" =>
        /\ pcL = "dead"
        /\ jobList = <<>>
        /\ \A r \in Resource : life[r] = "live" => state[r] = "Unloaded"

(* The loader implements the queue it promises: requests are served in the *)
(* order in which they were made, one at a time, and an object is deleted  *)
(* only when it is neither queued nor taken.                               *)
LQ == INSTANCE LoadQueue WITH
          live <- {r \in Resource : Exists(r)}, queue <- jobList, busy <- job

ImplementsQueue == LQ!Spec

(* Every job is eventually taken by the loader or taken back.              *)
JobsServed ==
    \A r \in Resource : IsPending(r) ~> (~IsPending(r) \/ fault # "none")

(* Every call of the application returns; ~nResourceServer too, which      *)
(* waits until the loader thread has ended.                                *)
CallsReturn ==
    (pcM \notin {"idle", "gone"}) ~> (pcM \in {"idle", "gone"} \/ fault # "none")

-----------------------------------------------------------------------------
(* What the documentation or an assertion says, and the code does not do.  *)

(* "Unloading resources always happened immediately, both in sync and      *)
(* async mode" (nresource.h): when Unload returns, no load is under way.   *)
UnloadIsImmediate == [][op = "Unload" /\ op' = "none" => job # cur]_vars

(* "this prevents the resource to be deleted" (LoaderThreadFunc): the      *)
(* destructor is not running for a job that has been taken off the list.   *)
TakenIsNotDeleted == job # NoRes => life[job] = "live"

(* The assertions in AddLoaderJob and LoadResource say that no job is ever *)
(* added or begun for a resource that is loaded, or partly loaded.         *)
NeverAborts == fault = "none"
=============================================================================
