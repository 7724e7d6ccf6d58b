----------------------------- MODULE Threading -----------------------------
(***************************************************************************)
(* The two synchronisation primitives of the kernel, as operators on the   *)
(* value that stands for one of them:                                      *)
(*                                                                         *)
(*   nEvent  a POSIX semaphore on Linux (sem_post counts every signal) and *)
(*           a Win32 auto-reset event (SetEvent on a set event is lost);   *)
(*           its value is the number of waits it still lets through;       *)
(*   nMutex  its value is the thread that owns it, or Nobody.  The mutex   *)
(*           is recursive; the code modelled here nests a lock only inside *)
(*           LoadResource (GetFilename), where it changes nothing.         *)
(***************************************************************************)
EXTENDS Naturals

CONSTANT CountingEvent   \* TRUE: sem_post/sem_wait; FALSE: CreateEvent(NULL, FALSE, FALSE, NULL)

ASSUME CountingEventAssumption == CountingEvent \in BOOLEAN

Nobody == "nobody"

(* nEvent::Signal *)
SignalEvent(e) == IF CountingEvent THEN e + 1 ELSE 1

(* Seeded fault: a wait that does not wait.                                *)
NeverWait(e) == TRUE

(* nEvent::Wait returns only from a signalled event, and consumes it. *)
CanWait(e)   == e > 0
WaitEvent(e) == e - 1

(* nMutex::Lock by thread t of a mutex owned by o, and nMutex::Unlock *)
CanLock(o) == o = Nobody
=============================================================================
