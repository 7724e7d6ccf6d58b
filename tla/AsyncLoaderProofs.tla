------------------------- MODULE AsyncLoaderProofs -------------------------
(***************************************************************************)
(* Theorems about AsyncLoader, for every number of resources, every choice *)
(* of entry points and outcomes.  The inductive invariant says which       *)
(* thread owns which lock at which program counter, and what follows from  *)
(* that for the job list and the objects.                                  *)
(***************************************************************************)
EXTENDS AsyncLoader, ListLemmas

(* What the main thread does at each program counter.                      *)
LoadPCs    == {"loadPending", "loadAssert", "addLock", "addTail", "addSignal"}
UnloadPCs  == {"unloadLock", "unloadRem", "unloadState", "unloadFree"}
RenamePCs  == {"renameLock", "rename"}
DtorPCs    == {"dtorAssert", "dtorLock", "dtorRem", "dtorFree"}
ServerPCs  == {"wakeup", "letDie", "join", "clearLock", "clear", "unloadAll", "gone"}

MainCall ==
    /\ pcM \in {"starting", "idle"} => op = "none"
    /\ pcM \in LoadPCs => op = "Load"
    /\ pcM \in UnloadPCs => op \in {"Unload", "Release", "Shutdown"}
    /\ pcM \in RenamePCs => op = "Rename"
    /\ pcM \in DtorPCs \cup {"releaseLock", "dtorMesh"} => op = "Release"
    /\ pcM \in ServerPCs => op = "Shutdown"
    /\ pcM \notin ServerPCs \cup {"starting", "idle"} => cur \in Resource
    /\ op # "Shutdown" => todo = {}

(* The loader has a job from PopJob to EndLoad.                            *)
JobTaken == job \in Resource <=> pcL \in Loading \cup {"lockRes"}

TypeInv == TypeOK /\ MainCall /\ JobTaken

(* Who owns the list's mutex, and who owns a resource's.                   *)
ListOwner ==
    /\ listLock = "main" <=> pcM \in ListHeld
    /\ listLock = "loader" <=> pcL \in {"pop", "lockRes", "unlockList"}

MainHolds == pcM = "rename" \/ (op = "Release" /\ pcM # "releaseLock")

ResOwner ==
    \A r \in Resource :
        /\ resLock[r] = "loader" <=> pcL \in Loading /\ job = r
        /\ resLock[r] = "main" <=> cur = r /\ MainHolds

(* Which objects exist.                                                    *)
Lifetime ==
    /\ \A r \in Resource :
        life[r] = "dying" <=> cur = r /\ op = "Release" /\ pcM \in UnloadPCs \cup DtorPCs
    /\ cur \in Resource => Exists(cur)
    /\ \A r \in todo : life[r] = "live"

(* The nodes in the job list are distinct and their objects exist; one     *)
(* that is about to be linked is not linked, one that is about to be freed *)
(* is neither linked nor taken.                                            *)
Distinct == \A i, j \in DOMAIN jobList : jobList[i] = jobList[j] => i = j

Nodes ==
    /\ Distinct
    /\ \A r \in Resource : IsPending(r) => Exists(r)
    /\ pcM \in {"loadAssert", "addLock", "addTail"} => ~IsPending(cur)
    /\ pcM = "dtorFree" => ~IsPending(cur) /\ job # cur
    /\ job \in Resource => Exists(job)

(* The destructor's object stays unloaded from its first check on.         *)
DtorUnloaded ==
    /\ pcM \in DtorPCs => state[cur] = "Unloaded"
    /\ fault # "dtorLoaded"

(* After the join the loader thread has ended; the list has been cleared   *)
(* before the resources are unloaded one by one.                           *)
Joined == pcM \in {"clearLock", "clear", "unloadAll", "gone"} \/ (op = "Shutdown" /\ pcM \in UnloadPCs)
Cleared == pcM \in {"unloadAll", "gone"} \/ (op = "Shutdown" /\ pcM \in UnloadPCs)

AfterJoin ==
    /\ Joined => pcL = "dead"
    /\ Cleared => jobList = <<>>
    /\ Cleared => \A r \in Resource \ todo :
           life[r] = "live" /\ state[r] # "Unloaded" => r = cur /\ pcM \in UnloadPCs
    /\ pcM = "gone" => todo = {}

(* Every job in the list has a signal that is left or on its way, but for  *)
(* one if the loader is on its way to the list: it then takes a job, or    *)
(* the job it has seen at the head has been taken back.                    *)
Signalled == listEvent + (IF pcM = "addSignal" THEN 1 ELSE 0)

Coming ==
    \/ pcL \in {"check", "head", "lockList", "pop"}
    \/ pcL = "succ" /\ probe \in Resource /\ IsPending(probe)

WakeupInv ==
    \/ Len(jobList) <= Signalled + (IF Coming THEN 1 ELSE 0)
    \/ stopThread /\ pcL \in {"until", "harakiri", "dead"}
-----------------------------------------------------------------------------
(* Types, and what the program counters say of the calls.                  *)

(* The initial state has the types.                                        *)
LEMMA TypeInit == Init => TypeInv
<1> SUFFICES ASSUME Init PROVE TypeInv
  OBVIOUS
<1>1. TypeOK
  <2>1. /\ life \in [Resource -> {"none", "live", "dying"}]
        /\ state \in [Resource -> {"Unloaded", "Valid"}]
        /\ buffers \in [Resource -> BOOLEAN]
        /\ decl \in [Resource -> BOOLEAN]
        /\ resLock \in [Resource -> Owner]
    BY DEF Init, Owner
  <2>2. jobList \in Seq(Resource)
    BY DEF Init
  <2>3. listLock \in Owner /\ pcM \in MainPCs /\ pcL \in LoaderPCs /\ fault \in Faults
    BY DEF Init, Owner, MainPCs, LoaderPCs, Faults
  <2>4. /\ listEvent \in Nat /\ startupEvent \in Nat /\ shutdownEvent \in Nat
        /\ stopThread \in BOOLEAN
        /\ op \in AllOps \cup {"none"}
        /\ cur \in Resource \cup {NoRes} /\ todo \subseteq Resource
        /\ probe \in Resource \cup {NoRes} /\ job \in Resource \cup {NoRes}
    BY DEF Init
  <2>5. QED
    BY <2>1, <2>2, <2>3, <2>4 DEF TypeOK
<1>2. MainCall /\ JobTaken
  BY AsyncLoaderAssumption
     DEF Init, MainCall, JobTaken, LoadPCs, UnloadPCs, RenamePCs, DtorPCs, ServerPCs, Loading
<1>3. QED
  BY <1>1, <1>2 DEF TypeInv

(* Every step keeps the types.                                             *)
LEMMA TypeStep == TypeInv /\ [Next]_vars => TypeInv'
<1> SUFFICES ASSUME TypeInv, [Next]_vars PROVE TypeInv'
  OBVIOUS
<1>1. CASE \E r \in Resource : NewResource(r)
  BY <1>1
     DEF NewResource, TypeInv, TypeOK, MainCall, JobTaken, listVars, thrVars, mainVars, loadVars
<1>2. CASE \E r \in Resource : Load(r)
  BY <1>2, AsyncLoaderAssumption
     DEF Load, Call, MainAt, TypeInv, TypeOK, MainCall, JobTaken, MainPCs, UnloadPCs, RenamePCs,
         DtorPCs, ServerPCs, objVars, listVars, thrVars, loadVars
<1>3. CASE \E r \in Resource : Unload(r)
  BY <1>3, AsyncLoaderAssumption
     DEF Unload, Call, MainAt, TypeInv, TypeOK, MainCall, JobTaken, MainPCs, ListWait, LoadPCs,
         RenamePCs, DtorPCs, ServerPCs, objVars, listVars, thrVars, loadVars
<1>4. CASE \E r \in Resource : Rename(r)
  BY <1>4, AsyncLoaderAssumption
     DEF Rename, Call, MainAt, TypeInv, TypeOK, MainCall, JobTaken, MainPCs, ResWait, LoadPCs,
         UnloadPCs, DtorPCs, ServerPCs, objVars, listVars, thrVars, loadVars
<1>5. CASE \E r \in Resource : Release(r)
  BY <1>5, AsyncLoaderAssumption
     DEF Release, Call, MainAt, TypeInv, TypeOK, MainCall, JobTaken, MainPCs, ResWait, LoadPCs,
         RenamePCs, ServerPCs, objVars, listVars, thrVars, loadVars
<1>6. CASE Shutdown
  BY <1>6, AsyncLoaderAssumption
     DEF Shutdown, TypeInv, TypeOK, MainCall, JobTaken, MainPCs, LoadPCs, RenamePCs, DtorPCs,
         ServerPCs, objVars, listVars, loadVars
<1>7. CASE Started
  BY <1>7
     DEF Started, MainTo, MainAt, CanWait, WaitEvent, TypeInv, TypeOK, MainCall, JobTaken,
         MainPCs, LoadPCs, UnloadPCs, RenamePCs, DtorPCs, ServerPCs, objVars, listVars, loadVars
<1>8. CASE LoadPending
  BY <1>8
     DEF LoadPending, MainTo, Return, MainAt, TypeInv, TypeOK, MainCall, JobTaken, MainPCs,
         LoadPCs, UnloadPCs, RenamePCs, DtorPCs, ServerPCs, objVars, listVars, thrVars, loadVars
<1>9. CASE AddAssert
  BY <1>9
     DEF AddAssert, MainTo, MainAt, TypeInv, TypeOK, MainCall, JobTaken, MainPCs, ListWait,
         LoadPCs, UnloadPCs, RenamePCs, DtorPCs, ServerPCs, Faults, objVars, listVars, thrVars,
         mainVars, loadVars
<1>10. CASE AddLock
  BY <1>10
     DEF AddLock, LockList, MainTo, MainAt, TypeInv, TypeOK, MainCall, JobTaken, MainPCs,
         ListHeld, LoadPCs, UnloadPCs, RenamePCs, DtorPCs, ServerPCs, Owner, objVars, thrVars,
         loadVars
<1>11. CASE AddTail
  BY <1>11
     DEF AddTail, MainTo, MainAt, TypeInv, TypeOK, MainCall, JobTaken, MainPCs, LoadPCs,
         UnloadPCs, RenamePCs, DtorPCs, ServerPCs, Owner, objVars, thrVars, loadVars
<1>12. CASE AddSignal
  BY <1>12
     DEF AddSignal, Return, SignalEvent, TypeInv, TypeOK, MainCall, JobTaken, MainPCs, LoadPCs,
         UnloadPCs, RenamePCs, DtorPCs, ServerPCs, objVars, thrVars, loadVars
<1>13. CASE UnloadLock
  BY <1>13
     DEF UnloadLock, LockList, MainTo, MainAt, TypeInv, TypeOK, MainCall, JobTaken, MainPCs,
         ListHeld, LoadPCs, UnloadPCs, RenamePCs, DtorPCs, ServerPCs, Owner, objVars, thrVars,
         loadVars
<1>14. CASE UnloadRem
  BY <1>14
     DEF UnloadRem, RemNode, MainTo, MainAt, Unlinked, RemoveAt, IsPending, TypeInv, TypeOK,
         MainCall, JobTaken, MainPCs, LoadPCs, UnloadPCs, RenamePCs, DtorPCs, ServerPCs, Owner,
         objVars, thrVars, loadVars
<1>15. CASE UnloadState
  BY <1>15
     DEF UnloadState, Unloaded, MainTo, Return, MainAt, TypeInv, TypeOK, MainCall, JobTaken,
         MainPCs, LoadPCs, UnloadPCs, RenamePCs, DtorPCs, ServerPCs, objVars, listVars, thrVars,
         loadVars
<1>16. CASE UnloadResource
  BY <1>16
     DEF UnloadResource, Unloaded, MainTo, Return, TypeInv, TypeOK, MainCall, JobTaken, MainPCs,
         LoadPCs, UnloadPCs, RenamePCs, DtorPCs, ServerPCs, listVars, thrVars, loadVars
<1>17. CASE RenameLock
  BY <1>17
     DEF RenameLock, LockRes, MainTo, MainAt, TypeInv, TypeOK, MainCall, JobTaken, MainPCs,
         LoadPCs, UnloadPCs, RenamePCs, DtorPCs, ServerPCs, Owner, objVars, listVars, thrVars,
         loadVars
<1>18. CASE SetFilename
  BY <1>18
     DEF SetFilename, Return, TypeInv, TypeOK, MainCall, JobTaken, MainPCs, LoadPCs, UnloadPCs,
         RenamePCs, DtorPCs, ServerPCs, Owner, objVars, listVars, thrVars, loadVars
<1>19. CASE ReleaseLock
  BY <1>19
     DEF ReleaseLock, LockRes, MainTo, MainAt, TypeInv, TypeOK, MainCall, JobTaken, MainPCs,
         LoadPCs, RenamePCs, ServerPCs, Owner, objVars, listVars, thrVars, loadVars
<1>20. CASE DtorMesh
  BY <1>20
     DEF DtorMesh, MainTo, MainAt, TypeInv, TypeOK, MainCall, JobTaken, MainPCs, ListWait,
         LoadPCs, RenamePCs, ServerPCs, listVars, thrVars, loadVars
<1>21. CASE DtorAssert
  BY <1>21
     DEF DtorAssert, MainTo, MainAt, TypeInv, TypeOK, MainCall, JobTaken, MainPCs, ListWait,
         LoadPCs, RenamePCs, DtorPCs, ServerPCs, Faults, objVars, listVars, thrVars, mainVars,
         loadVars
<1>22. CASE DtorLock
  BY <1>22
     DEF DtorLock, LockList, MainTo, MainAt, TypeInv, TypeOK, MainCall, JobTaken, MainPCs,
         ListHeld, LoadPCs, RenamePCs, DtorPCs, ServerPCs, Owner, objVars, thrVars, loadVars
<1>23. CASE DtorRem
  BY <1>23, AsyncLoaderAssumption
     DEF DtorRem, RemNode, MainTo, MainAt, Nobody, Unlinked, RemoveAt, IsPending, TypeInv, TypeOK,
         MainCall, JobTaken, MainPCs, ListHeld, LoadPCs, RenamePCs, DtorPCs, ServerPCs, LoaderPCs,
         Owner, objVars, thrVars, loadVars
<1>24. CASE DtorFree
  BY <1>24
     DEF DtorFree, Return, TypeInv, TypeOK, MainCall, JobTaken, MainPCs, LoadPCs, UnloadPCs,
         RenamePCs, DtorPCs, ServerPCs, Owner, listVars, thrVars, loadVars
<1>25. CASE Wakeup
  BY <1>25
     DEF Wakeup, MainTo, MainAt, SignalEvent, TypeInv, TypeOK, MainCall, JobTaken, MainPCs,
         LoadPCs, RenamePCs, DtorPCs, ServerPCs, objVars, thrVars, loadVars
<1>26. CASE LetDie
  BY <1>26
     DEF LetDie, MainTo, MainAt, SignalEvent, TypeInv, TypeOK, MainCall, JobTaken, MainPCs,
         LoadPCs, RenamePCs, DtorPCs, ServerPCs, objVars, listVars, loadVars
<1>27. CASE Join
  BY <1>27
     DEF Join, MainTo, MainAt, TypeInv, TypeOK, MainCall, JobTaken, MainPCs, ListWait, LoadPCs,
         RenamePCs, DtorPCs, ServerPCs, objVars, listVars, thrVars, loadVars
<1>28. CASE ClearLock
  BY <1>28
     DEF ClearLock, LockList, MainTo, MainAt, TypeInv, TypeOK, MainCall, JobTaken, MainPCs,
         ListHeld, LoadPCs, RenamePCs, DtorPCs, ServerPCs, Owner, objVars, thrVars, loadVars
<1>29. CASE ClearJobs
  BY <1>29
     DEF ClearJobs, MainAt, TypeInv, TypeOK, MainCall, JobTaken, MainPCs, LoadPCs, RenamePCs,
         DtorPCs, ServerPCs, Owner, objVars, thrVars, loadVars
<1>30. CASE \E r \in Resource : UnloadNext(r)
  BY <1>30
     DEF UnloadNext, TypeInv, TypeOK, MainCall, JobTaken, MainPCs, ListWait, LoadPCs, RenamePCs,
         DtorPCs, objVars, listVars, thrVars, loadVars
<1>31. CASE UnloadDone
  BY <1>31
     DEF UnloadDone, MainTo, MainAt, TypeInv, TypeOK, MainCall, JobTaken, MainPCs, LoadPCs,
         RenamePCs, DtorPCs, ServerPCs, objVars, listVars, thrVars, loadVars
<1>32. CASE ThreadStarted
  BY <1>32
     DEF ThreadStarted, LoaderTo, LoaderAt, SignalEvent, TypeInv, TypeOK, MainCall, JobTaken,
         LoaderPCs, Loading, objVars, listVars, mainVars
<1>33. CASE WaitJobs
  BY <1>33
     DEF WaitJobs, LoaderTo, LoaderAt, CanWait, WaitEvent, TypeInv, TypeOK, MainCall, JobTaken,
         LoaderPCs, Loading, objVars, thrVars, mainVars
<1>34. CASE CheckStop
  BY <1>34
     DEF CheckStop, LoaderTo, LoaderAt, TypeInv, TypeOK, MainCall, JobTaken, LoaderPCs, Loading,
         objVars, listVars, thrVars, mainVars
<1>35. CASE ReadHead
  BY <1>35
     DEF ReadHead, LoaderAt, TypeInv, TypeOK, MainCall, JobTaken, LoaderPCs, Loading, objVars,
         listVars, thrVars, mainVars
<1>36. CASE ReadSucc
  BY <1>36
     DEF ReadSucc, LoaderAt, TypeInv, TypeOK, MainCall, JobTaken, LoaderPCs, Loading, objVars,
         listVars, thrVars, mainVars
<1>37. CASE LockJobs
  BY <1>37
     DEF LockJobs, LoaderTo, LoaderAt, TypeInv, TypeOK, MainCall, JobTaken, LoaderPCs, Loading,
         Owner, objVars, thrVars, mainVars
<1>38. CASE PopJob
  BY <1>38
     DEF PopJob, TypeInv, TypeOK, MainCall, JobTaken, MainPCs, LoaderPCs, Loading, Faults,
         objVars, thrVars, mainVars, loadVars
<1>39. CASE LockJob
  BY <1>39
     DEF LockJob, LoaderTo, LoaderAt, TypeInv, TypeOK, MainCall, JobTaken, LoaderPCs, Loading,
         Owner, objVars, listVars, thrVars, mainVars
<1>40. CASE UnlockJobs
  BY <1>40
     DEF UnlockJobs, LoaderTo, LoaderAt, TypeInv, TypeOK, MainCall, JobTaken, LoaderPCs, Loading,
         Owner, objVars, thrVars, mainVars
<1>41. CASE BeginLoad
  BY <1>41
     DEF BeginLoad, LoaderTo, LoaderAt, TypeInv, TypeOK, MainCall, JobTaken, LoaderPCs, Loading,
         Faults, objVars, listVars, thrVars, mainVars, loadVars
<1>42. CASE Fill
  BY <1>42
     DEF Fill, LoaderTo, LoaderAt, TypeInv, TypeOK, MainCall, JobTaken, LoaderPCs, Loading,
         listVars, thrVars, mainVars
<1>43. CASE Publish
  BY <1>43
     DEF Publish, LoaderTo, LoaderAt, TypeInv, TypeOK, MainCall, JobTaken, LoaderPCs, Loading,
         listVars, thrVars, mainVars
<1>44. CASE Declare
  BY <1>44
     DEF Declare, LoaderTo, LoaderAt, TypeInv, TypeOK, MainCall, JobTaken, ListWait, ListHeld,
         ResWait, LoadPCs, UnloadPCs, RenamePCs, DtorPCs, ServerPCs, LoaderPCs, Loading, Owner,
         Faults, AllOps, listVars, thrVars, mainVars, loadVars
<1>45. CASE EndLoad
  BY <1>45, AsyncLoaderAssumption
     DEF EndLoad, TypeInv, TypeOK, MainCall, JobTaken, LoaderPCs, Loading, Owner, objVars,
         listVars, thrVars, mainVars
<1>46. CASE UntilStop
  BY <1>46
     DEF UntilStop, LoaderTo, LoaderAt, TypeInv, TypeOK, MainCall, JobTaken, LoaderPCs, Loading,
         objVars, listVars, thrVars, mainVars
<1>47. CASE ThreadHarakiri
  BY <1>47
     DEF ThreadHarakiri, LoaderTo, LoaderAt, CanWait, WaitEvent, TypeInv, TypeOK, MainCall,
         JobTaken, LoaderPCs, Loading, objVars, listVars, mainVars
<1>48. CASE UNCHANGED vars
  BY <1>48
     DEF vars, TypeInv, TypeOK, MainCall, JobTaken, objVars, listVars, thrVars, mainVars, loadVars
<1>49. QED
  BY <1>1, <1>2, <1>3, <1>4, <1>5, <1>6, <1>7, <1>8, <1>9, <1>10, <1>11, <1>12, <1>13, <1>14,
      <1>15, <1>16, <1>17, <1>18, <1>19, <1>20, <1>21, <1>22, <1>23, <1>24, <1>25, <1>26, <1>27,
      <1>28, <1>29, <1>30, <1>31, <1>32, <1>33, <1>34, <1>35, <1>36, <1>37, <1>38, <1>39, <1>40,
      <1>41, <1>42, <1>43, <1>44, <1>45, <1>46, <1>47, <1>48
     DEF Next, Application, Main, Loader, Stopped

-----------------------------------------------------------------------------
(* Who owns which lock.                                                    *)

LockInv == ListOwner /\ ResOwner

(* At first all locks are free.                                            *)
LEMMA LockInit == Init => LockInv
BY AsyncLoaderAssumption DEF Init, LockInv, ListOwner, ResOwner, MainHolds, Nobody, ListHeld,
    Loading

(* Every step leaves each lock with the thread in its section.             *)
LEMMA LockStep == TypeInv /\ LockInv /\ [Next]_vars => LockInv'
<1> SUFFICES ASSUME TypeInv, LockInv, [Next]_vars PROVE LockInv'
  OBVIOUS
<1>1. CASE \E r \in Resource : NewResource(r)
  BY <1>1 DEF NewResource, LockInv, ListOwner, ResOwner, MainHolds, listVars, mainVars, loadVars
<1>2. CASE \E r \in Resource : Load(r)
  BY <1>2
     DEF Load, Call, MainAt, LockInv, ListOwner, ResOwner, MainHolds, TypeInv, MainCall, ListHeld,
         listVars, loadVars
<1>3. CASE \E r \in Resource : Unload(r)
  BY <1>3
     DEF Unload, Call, MainAt, LockInv, ListOwner, ResOwner, MainHolds, TypeInv, MainCall,
         ListHeld, listVars, loadVars
<1>4. CASE \E r \in Resource : Rename(r)
  BY <1>4
     DEF Rename, Call, MainAt, LockInv, ListOwner, ResOwner, MainHolds, TypeInv, MainCall,
         ListHeld, listVars, loadVars
<1>5. CASE \E r \in Resource : Release(r)
  BY <1>5
     DEF Release, Call, MainAt, LockInv, ListOwner, ResOwner, MainHolds, TypeInv, MainCall,
         ListHeld, listVars, loadVars
<1>6. CASE Shutdown
  BY <1>6
     DEF Shutdown, MainAt, LockInv, ListOwner, ResOwner, MainHolds, TypeInv, MainCall, ListHeld,
         listVars, loadVars
<1>7. CASE Started
  BY <1>7
     DEF Started, MainTo, MainAt, LockInv, ListOwner, ResOwner, MainHolds, ListHeld, listVars,
         loadVars
<1>8. CASE LoadPending
  BY <1>8
     DEF LoadPending, MainTo, Return, MainAt, LockInv, ListOwner, ResOwner, MainHolds, TypeInv,
         MainCall, ListHeld, LoadPCs, listVars, loadVars
<1>9. CASE AddAssert
  BY <1>9
     DEF AddAssert, MainTo, MainAt, LockInv, ListOwner, ResOwner, MainHolds, ListHeld, listVars,
         mainVars, loadVars
<1>10. CASE AddLock
  BY <1>10
     DEF AddLock, LockList, MainTo, MainAt, CanLock, LockInv, ListOwner, ResOwner, MainHolds,
         Nobody, ListHeld, loadVars
<1>11. CASE AddTail
  BY <1>11
     DEF AddTail, MainTo, MainAt, LockInv, ListOwner, ResOwner, MainHolds, Nobody, ListHeld,
         loadVars
<1>12. CASE AddSignal
  BY <1>12
     DEF AddSignal, Return, MainAt, LockInv, ListOwner, ResOwner, MainHolds, TypeInv, MainCall,
         ListHeld, LoadPCs, loadVars
<1>13. CASE UnloadLock
  BY <1>13
     DEF UnloadLock, LockList, MainTo, MainAt, CanLock, LockInv, ListOwner, ResOwner, MainHolds,
         Nobody, ListHeld, loadVars
<1>14. CASE UnloadRem
  BY <1>14
     DEF UnloadRem, RemNode, MainTo, MainAt, LockInv, ListOwner, ResOwner, MainHolds, Nobody,
         ListHeld, loadVars
<1>15. CASE UnloadState
  BY <1>15
     DEF UnloadState, Unloaded, MainTo, Return, MainAt, LockInv, ListOwner, ResOwner, MainHolds,
         ListHeld, listVars, loadVars
<1>16. CASE UnloadResource
  BY <1>16
     DEF UnloadResource, Unloaded, MainTo, Return, MainAt, LockInv, ListOwner, ResOwner,
         MainHolds, ListHeld, listVars, loadVars
<1>17. CASE RenameLock
  BY <1>17
     DEF RenameLock, LockRes, MainTo, MainAt, CanLock, LockInv, ListOwner, ResOwner, MainHolds,
         Nobody, TypeInv, TypeOK, ListHeld, listVars, loadVars
<1>18. CASE SetFilename
  BY <1>18
     DEF SetFilename, Return, MainAt, LockInv, ListOwner, ResOwner, MainHolds, Nobody, TypeInv,
         TypeOK, ListHeld, listVars, loadVars
<1>19. CASE ReleaseLock
  BY <1>19
     DEF ReleaseLock, LockRes, MainTo, MainAt, CanLock, LockInv, ListOwner, ResOwner, MainHolds,
         Nobody, TypeInv, TypeOK, MainCall, ListHeld, listVars, loadVars
<1>20. CASE DtorMesh
  BY <1>20
     DEF DtorMesh, MainTo, MainAt, LockInv, ListOwner, ResOwner, MainHolds, ListHeld, listVars,
         loadVars
<1>21. CASE DtorAssert
  BY <1>21
     DEF DtorAssert, MainTo, MainAt, LockInv, ListOwner, ResOwner, MainHolds, ListHeld, listVars,
         mainVars, loadVars
<1>22. CASE DtorLock
  BY <1>22
     DEF DtorLock, LockList, MainTo, MainAt, CanLock, LockInv, ListOwner, ResOwner, MainHolds,
         Nobody, ListHeld, loadVars
<1>23. CASE DtorRem
  BY <1>23
     DEF DtorRem, RemNode, MainTo, MainAt, LockInv, ListOwner, ResOwner, MainHolds, Nobody,
         ListHeld, loadVars
<1>24. CASE DtorFree
  BY <1>24
     DEF DtorFree, Return, MainAt, LockInv, ListOwner, ResOwner, MainHolds, Nobody, TypeInv,
         TypeOK, MainCall, ListHeld, DtorPCs, listVars, loadVars
<1>25. CASE Wakeup
  BY <1>25 DEF Wakeup, MainTo, MainAt, LockInv, ListOwner, ResOwner, MainHolds, ListHeld, loadVars
<1>26. CASE LetDie
  BY <1>26
     DEF LetDie, MainTo, MainAt, LockInv, ListOwner, ResOwner, MainHolds, ListHeld, listVars,
         loadVars
<1>27. CASE Join
  BY <1>27
     DEF Join, MainTo, MainAt, LockInv, ListOwner, ResOwner, MainHolds, ListHeld, listVars,
         loadVars
<1>28. CASE ClearLock
  BY <1>28
     DEF ClearLock, LockList, MainTo, MainAt, CanLock, LockInv, ListOwner, ResOwner, MainHolds,
         Nobody, ListHeld, loadVars
<1>29. CASE ClearJobs
  BY <1>29
     DEF ClearJobs, MainAt, LockInv, ListOwner, ResOwner, MainHolds, Nobody, ListHeld, loadVars
<1>30. CASE \E r \in Resource : UnloadNext(r)
  BY <1>30
     DEF UnloadNext, MainAt, LockInv, ListOwner, ResOwner, MainHolds, TypeInv, MainCall, ListHeld,
         listVars, loadVars
<1>31. CASE UnloadDone
  BY <1>31
     DEF UnloadDone, MainTo, MainAt, LockInv, ListOwner, ResOwner, MainHolds, ListHeld, listVars,
         loadVars
<1>32. CASE ThreadStarted
  BY <1>32
     DEF ThreadStarted, LoaderTo, LoaderAt, LockInv, ListOwner, ResOwner, MainHolds, Loading,
         listVars, mainVars
<1>33. CASE WaitJobs
  BY <1>33
     DEF WaitJobs, LoaderTo, LoaderAt, LockInv, ListOwner, ResOwner, MainHolds, Loading, mainVars
<1>34. CASE CheckStop
  BY <1>34
     DEF CheckStop, LoaderTo, LoaderAt, LockInv, ListOwner, ResOwner, MainHolds, Loading,
         listVars, mainVars
<1>35. CASE ReadHead
  BY <1>35
     DEF ReadHead, LoaderAt, LockInv, ListOwner, ResOwner, MainHolds, Loading, listVars, mainVars
<1>36. CASE ReadSucc
  BY <1>36
     DEF ReadSucc, LoaderAt, LockInv, ListOwner, ResOwner, MainHolds, Loading, listVars, mainVars
<1>37. CASE LockJobs
  BY <1>37
     DEF LockJobs, LoaderTo, LoaderAt, CanLock, LockInv, ListOwner, ResOwner, MainHolds, Nobody,
         Loading, mainVars
<1>38. CASE PopJob
  BY <1>38
     DEF PopJob, LoaderAt, LockInv, ListOwner, ResOwner, MainHolds, Loading, mainVars, loadVars
<1>39. CASE LockJob
  BY <1>39
     DEF LockJob, LoaderTo, LoaderAt, CanLock, LockInv, ListOwner, ResOwner, MainHolds, Nobody,
         TypeInv, TypeOK, Loading, listVars, mainVars
<1>40. CASE UnlockJobs
  BY <1>40
     DEF UnlockJobs, LoaderTo, LoaderAt, LockInv, ListOwner, ResOwner, MainHolds, Nobody, Loading,
         mainVars
<1>41. CASE BeginLoad
  BY <1>41
     DEF BeginLoad, LoaderTo, LoaderAt, LockInv, ListOwner, ResOwner, MainHolds, Loading,
         listVars, mainVars, loadVars
<1>42. CASE Fill
  BY <1>42
     DEF Fill, LoaderTo, LoaderAt, LockInv, ListOwner, ResOwner, MainHolds, Loading, listVars,
         mainVars
<1>43. CASE Publish
  BY <1>43
     DEF Publish, LoaderTo, LoaderAt, LockInv, ListOwner, ResOwner, MainHolds, Loading, listVars,
         mainVars
<1>44. CASE Declare
  BY <1>44
     DEF Declare, LoaderTo, LoaderAt, LockInv, ListOwner, ResOwner, MainHolds, Loading, listVars,
         mainVars, loadVars
<1>45. CASE EndLoad
  BY <1>45, AsyncLoaderAssumption
     DEF EndLoad, LoaderAt, LockInv, ListOwner, ResOwner, MainHolds, Nobody, TypeInv, TypeOK,
         JobTaken, listVars, mainVars
<1>46. CASE UntilStop
  BY <1>46
     DEF UntilStop, LoaderTo, LoaderAt, LockInv, ListOwner, ResOwner, MainHolds, Loading,
         listVars, mainVars
<1>47. CASE ThreadHarakiri
  BY <1>47
     DEF ThreadHarakiri, LoaderTo, LoaderAt, LockInv, ListOwner, ResOwner, MainHolds, Loading,
         listVars, mainVars
<1>48. CASE UNCHANGED vars
  BY <1>48 DEF vars, LockInv, ListOwner, ResOwner, MainHolds, listVars, mainVars, loadVars
<1>49. QED
  BY <1>1, <1>2, <1>3, <1>4, <1>5, <1>6, <1>7, <1>8, <1>9, <1>10, <1>11, <1>12, <1>13, <1>14,
      <1>15, <1>16, <1>17, <1>18, <1>19, <1>20, <1>21, <1>22, <1>23, <1>24, <1>25, <1>26, <1>27,
      <1>28, <1>29, <1>30, <1>31, <1>32, <1>33, <1>34, <1>35, <1>36, <1>37, <1>38, <1>39, <1>40,
      <1>41, <1>42, <1>43, <1>44, <1>45, <1>46, <1>47, <1>48
     DEF Next, Application, Main, Loader, Stopped

-----------------------------------------------------------------------------
(* Which objects exist.                                                    *)

(* At first nothing exists and nothing is taken.                           *)
LEMMA LifetimeInit == Init => Lifetime
BY AsyncLoaderAssumption DEF Init, Lifetime, UnloadPCs, DtorPCs

(* No step destroys what is being worked on.                               *)
LEMMA LifetimeStep == TypeInv /\ Lifetime /\ [Next]_vars => Lifetime'
<1> SUFFICES ASSUME TypeInv, Lifetime, [Next]_vars PROVE Lifetime'
  OBVIOUS
<1>1. CASE \E r \in Resource : NewResource(r)
  BY <1>1 DEF NewResource, Lifetime, Exists, mainVars
<1>2. CASE \E r \in Resource : Load(r)
  BY <1>2 DEF Load, Call, MainAt, Lifetime, Exists, TypeInv, MainCall, objVars
<1>3. CASE \E r \in Resource : Unload(r)
  BY <1>3 DEF Unload, Call, MainAt, Lifetime, Exists, TypeInv, MainCall, objVars
<1>4. CASE \E r \in Resource : Rename(r)
  BY <1>4 DEF Rename, Call, MainAt, Lifetime, Exists, TypeInv, MainCall, objVars
<1>5. CASE \E r \in Resource : Release(r)
  BY <1>5 DEF Release, Call, MainAt, Lifetime, Exists, UnloadPCs, DtorPCs, objVars
<1>6. CASE Shutdown
  BY <1>6 DEF Shutdown, MainAt, Lifetime, Exists, TypeInv, MainCall, objVars
<1>7. CASE Started
  BY <1>7 DEF Started, MainTo, MainAt, Lifetime, Exists, TypeInv, MainCall, objVars
<1>8. CASE LoadPending
  BY <1>8, AsyncLoaderAssumption
     DEF LoadPending, MainTo, Return, MainAt, Lifetime, Exists, TypeInv, MainCall, LoadPCs,
         objVars
<1>9. CASE AddAssert
  BY <1>9
     DEF AddAssert, MainTo, MainAt, Lifetime, Exists, TypeInv, MainCall, LoadPCs, objVars,
         mainVars
<1>10. CASE AddLock
  BY <1>10
     DEF AddLock, LockList, MainTo, MainAt, Lifetime, Exists, TypeInv, MainCall, LoadPCs, objVars
<1>11. CASE AddTail
  BY <1>11 DEF AddTail, MainTo, MainAt, Lifetime, Exists, TypeInv, MainCall, LoadPCs, objVars
<1>12. CASE AddSignal
  BY <1>12, AsyncLoaderAssumption
     DEF AddSignal, Return, MainAt, Lifetime, TypeInv, MainCall, LoadPCs, objVars
<1>13. CASE UnloadLock
  BY <1>13 DEF UnloadLock, LockList, MainTo, MainAt, Lifetime, Exists, UnloadPCs, objVars
<1>14. CASE UnloadRem
  BY <1>14 DEF UnloadRem, RemNode, MainTo, MainAt, Lifetime, Exists, UnloadPCs, objVars
<1>15. CASE UnloadState
  BY <1>15, AsyncLoaderAssumption
     DEF UnloadState, Unloaded, MainTo, Return, MainAt, Lifetime, Exists, UnloadPCs, DtorPCs,
         objVars
<1>16. CASE UnloadResource
  BY <1>16, AsyncLoaderAssumption
     DEF UnloadResource, Unloaded, MainTo, Return, MainAt, Lifetime, Exists, UnloadPCs, DtorPCs
<1>17. CASE RenameLock
  BY <1>17
     DEF RenameLock, LockRes, MainTo, MainAt, Lifetime, Exists, TypeInv, MainCall, RenamePCs,
         objVars
<1>18. CASE SetFilename
  BY <1>18, AsyncLoaderAssumption
     DEF SetFilename, Return, MainAt, Lifetime, TypeInv, MainCall, RenamePCs, objVars
<1>19. CASE ReleaseLock
  BY <1>19 DEF ReleaseLock, LockRes, MainTo, MainAt, Lifetime, Exists, UnloadPCs, DtorPCs, objVars
<1>20. CASE DtorMesh
  <2>1. /\ op = "Release" /\ cur \in Resource /\ op' = op /\ cur' = cur /\ todo' = todo
        /\ todo = {} /\ pcM = "dtorMesh" /\ pcM' \in {"dtorAssert", "unloadLock"}
        /\ life' = [life EXCEPT ![cur] = "dying"]
    BY <1>20 DEF DtorMesh, MainTo, MainAt, TypeInv, MainCall, ServerPCs
  <2>2. cur' \in Resource => Exists(cur)'
    BY <2>1 DEF Exists, TypeInv, TypeOK
  <2>3. \A r \in Resource :
            life'[r] = "dying" <=> cur' = r /\ op' = "Release" /\ pcM' \in UnloadPCs \cup DtorPCs
    BY <2>1 DEF Lifetime, TypeInv, TypeOK, UnloadPCs, DtorPCs
  <2>4. \A r \in todo' : life'[r] = "live"
    BY <2>1 DEF Lifetime, TypeInv, TypeOK
  <2>5. QED
    BY <2>2, <2>3, <2>4 DEF Lifetime
<1>21. CASE DtorAssert
  BY <1>21 DEF DtorAssert, MainTo, MainAt, Lifetime, Exists, DtorPCs, objVars, mainVars
<1>22. CASE DtorLock
  BY <1>22 DEF DtorLock, LockList, MainTo, MainAt, Lifetime, Exists, DtorPCs, objVars
<1>23. CASE DtorRem
  BY <1>23 DEF DtorRem, RemNode, MainTo, MainAt, Lifetime, Exists, DtorPCs, objVars
<1>24. CASE DtorFree
  BY <1>24, AsyncLoaderAssumption
     DEF DtorFree, Return, MainAt, Lifetime, TypeInv, TypeOK, MainCall, DtorPCs
<1>25. CASE Wakeup
  BY <1>25 DEF Wakeup, MainTo, MainAt, Lifetime, Exists, TypeInv, MainCall, ServerPCs, objVars
<1>26. CASE LetDie
  BY <1>26 DEF LetDie, MainTo, MainAt, Lifetime, Exists, TypeInv, MainCall, ServerPCs, objVars
<1>27. CASE Join
  BY <1>27 DEF Join, MainTo, MainAt, Lifetime, Exists, TypeInv, MainCall, ServerPCs, objVars
<1>28. CASE ClearLock
  BY <1>28
     DEF ClearLock, LockList, MainTo, MainAt, Lifetime, Exists, TypeInv, MainCall, ServerPCs,
         objVars
<1>29. CASE ClearJobs
  BY <1>29 DEF ClearJobs, MainAt, Lifetime, Exists, TypeInv, MainCall, ServerPCs, objVars
<1>30. CASE \E r \in Resource : UnloadNext(r)
  BY <1>30 DEF UnloadNext, Lifetime, Exists, TypeInv, MainCall, objVars
<1>31. CASE UnloadDone
  BY <1>31 DEF UnloadDone, MainTo, MainAt, Lifetime, Exists, TypeInv, MainCall, ServerPCs, objVars
<1>32. CASE ThreadStarted
  BY <1>32 DEF ThreadStarted, Lifetime, Exists, objVars, mainVars
<1>33. CASE WaitJobs
  BY <1>33 DEF WaitJobs, Lifetime, Exists, objVars, mainVars
<1>34. CASE CheckStop
  BY <1>34 DEF CheckStop, Lifetime, Exists, objVars, mainVars
<1>35. CASE ReadHead
  BY <1>35 DEF ReadHead, Lifetime, Exists, objVars, mainVars
<1>36. CASE ReadSucc
  BY <1>36 DEF ReadSucc, Lifetime, Exists, objVars, mainVars
<1>37. CASE LockJobs
  BY <1>37 DEF LockJobs, Lifetime, Exists, objVars, mainVars
<1>38. CASE PopJob
  BY <1>38 DEF PopJob, Lifetime, Exists, objVars, mainVars
<1>39. CASE LockJob
  BY <1>39 DEF LockJob, Lifetime, Exists, objVars, mainVars
<1>40. CASE UnlockJobs
  BY <1>40 DEF UnlockJobs, Lifetime, Exists, objVars, mainVars
<1>41. CASE BeginLoad
  BY <1>41 DEF BeginLoad, Lifetime, Exists, objVars, mainVars
<1>42. CASE Fill
  BY <1>42 DEF Fill, Lifetime, Exists, mainVars
<1>43. CASE Publish
  BY <1>43 DEF Publish, Lifetime, Exists, mainVars
<1>44. CASE Declare
  BY <1>44 DEF Declare, Lifetime, Exists, mainVars
<1>45. CASE EndLoad
  BY <1>45 DEF EndLoad, Lifetime, Exists, objVars, mainVars
<1>46. CASE UntilStop
  BY <1>46 DEF UntilStop, Lifetime, Exists, objVars, mainVars
<1>47. CASE ThreadHarakiri
  BY <1>47 DEF ThreadHarakiri, Lifetime, Exists, objVars, mainVars
<1>48. CASE UNCHANGED vars
  BY <1>48 DEF vars, Lifetime, Exists, objVars, mainVars
<1>49. QED
  BY <1>1, <1>2, <1>3, <1>4, <1>5, <1>6, <1>7, <1>8, <1>9, <1>10, <1>11, <1>12, <1>13, <1>14,
      <1>15, <1>16, <1>17, <1>18, <1>19, <1>20, <1>21, <1>22, <1>23, <1>24, <1>25, <1>26, <1>27,
      <1>28, <1>29, <1>30, <1>31, <1>32, <1>33, <1>34, <1>35, <1>36, <1>37, <1>38, <1>39, <1>40,
      <1>41, <1>42, <1>43, <1>44, <1>45, <1>46, <1>47, <1>48
     DEF Next, Application, Main, Loader, Stopped

-----------------------------------------------------------------------------
(* The nodes of the job list.                                              *)

(* Unlinking a node leaves the other nodes, in their order.                *)
LEMMA UnlinkedProperties ==
    ASSUME TypeOK, Distinct, NEW r \in Resource, IsPending(r)
    PROVE  /\ Unlinked(r) \in Seq(Resource)
           /\ Len(Unlinked(r)) = Len(jobList) - 1
           /\ \A i, j \in DOMAIN Unlinked(r) : Unlinked(r)[i] = Unlinked(r)[j] => i = j
           /\ \A x \in Resource :
                 (\E i \in DOMAIN Unlinked(r) : Unlinked(r)[i] = x) <=> IsPending(x) /\ x # r
<1> DEFINE p == CHOOSE i \in DOMAIN jobList : jobList[i] = r
           u == Unlinked(r)
<1>1. jobList \in Seq(Resource)
  BY DEF TypeOK
<1>2. p \in 1 .. Len(jobList) /\ jobList[p] = r
  BY <1>1 DEF IsPending
<1>3. /\ u \in Seq(Resource) /\ Len(u) = Len(jobList) - 1
      /\ \A k \in 1 .. Len(jobList) - 1 : u[k] = IF k < p THEN jobList[k] ELSE jobList[k + 1]
  BY <1>1, <1>2, RemoveAtProperties DEF Unlinked
<1> HIDE DEF p, u
<1>4. DOMAIN u = 1 .. Len(jobList) - 1 /\ DOMAIN jobList = 1 .. Len(jobList) /\ Len(jobList) \in Nat
  BY <1>1, <1>3
<1>5. \A i, j \in 1 .. Len(jobList) : jobList[i] = jobList[j] => i = j
  BY <1>4 DEF Distinct
<1>6. ASSUME NEW i \in DOMAIN u, NEW j \in DOMAIN u, u[i] = u[j]
      PROVE  i = j
  BY <1>2, <1>3, <1>4, <1>5, <1>6
<1>7. ASSUME NEW x \in Resource, IsPending(x), x # r
      PROVE  \E i \in DOMAIN u : u[i] = x
  <2>1. PICK k \in 1 .. Len(jobList) : jobList[k] = x
    BY <1>4, <1>7 DEF IsPending
  <2>2. CASE k < p
    BY <2>1, <2>2, <1>2, <1>3, <1>4
  <2>3. CASE k > p
    <3>1. k - 1 \in 1 .. Len(jobList) - 1 /\ u[k - 1] = jobList[k]
      BY <2>1, <2>3, <1>2, <1>3, <1>4
    <3>2. QED
      BY <3>1, <2>1, <1>4
  <2>4. QED
    BY <2>1, <2>2, <2>3, <1>2, <1>4, <1>7
<1>8. ASSUME NEW x \in Resource, NEW i \in DOMAIN u, u[i] = x
      PROVE  IsPending(x) /\ x # r
  <2> DEFINE k == IF i < p THEN i ELSE i + 1
  <2>1. k \in 1 .. Len(jobList) /\ k # p /\ jobList[k] = x
    BY <1>2, <1>3, <1>4, <1>8
  <2> HIDE DEF k
  <2>2. QED
    BY <1>2, <1>4, <1>5, <2>1 DEF IsPending
<1>9. QED
  BY <1>3, <1>6, <1>7, <1>8 DEF u

(* The list is empty at first.                                             *)
LEMMA NodesInit == Init => Nodes
BY AsyncLoaderAssumption DEF Init, Nodes, Distinct, IsPending

(* Every step keeps freed objects out of the list and links no node twice. *)
LEMMA NodesStep ==
    TypeInv /\ TypeInv' /\ LockInv /\ Lifetime /\ Nodes /\ [Next]_vars => Nodes'
<1> SUFFICES ASSUME TypeInv, TypeInv', LockInv, Lifetime, Nodes, [Next]_vars PROVE Nodes'
  OBVIOUS
<1>1. CASE \E r \in Resource : NewResource(r)
  BY <1>1 DEF NewResource, Nodes, Distinct, IsPending, Exists, listVars, mainVars, loadVars
<1>2. CASE \E r \in Resource : Load(r)
  BY <1>2 DEF Load, Call, Nodes, Distinct, IsPending, Exists, objVars, listVars, loadVars
<1>3. CASE \E r \in Resource : Unload(r)
  BY <1>3 DEF Unload, Call, Nodes, Distinct, IsPending, Exists, objVars, listVars, loadVars
<1>4. CASE \E r \in Resource : Rename(r)
  BY <1>4 DEF Rename, Call, Nodes, Distinct, IsPending, Exists, objVars, listVars, loadVars
<1>5. CASE \E r \in Resource : Release(r)
  BY <1>5 DEF Release, Call, Nodes, Distinct, IsPending, Exists, objVars, listVars, loadVars
<1>6. CASE Shutdown
  BY <1>6 DEF Shutdown, Nodes, Distinct, IsPending, Exists, objVars, listVars, loadVars
<1>7. CASE Started
  BY <1>7 DEF Started, MainTo, Nodes, Distinct, IsPending, Exists, objVars, listVars, loadVars
<1>8. CASE LoadPending
  BY <1>8
     DEF LoadPending, MainTo, Return, Nodes, Distinct, IsPending, Exists, objVars, listVars,
         loadVars
<1>9. CASE AddAssert
  BY <1>9
     DEF AddAssert, MainTo, MainAt, Nodes, Distinct, IsPending, Exists, objVars, listVars,
         mainVars, loadVars
<1>10. CASE AddLock
  BY <1>10
     DEF AddLock, LockList, MainTo, MainAt, Nodes, Distinct, IsPending, Exists, objVars, loadVars
<1>11. CASE AddTail
  <2>1. /\ pcM = "addTail" /\ pcM' = "addSignal" /\ cur \in Resource /\ job' = job
        /\ jobList' = Append(jobList, cur) /\ jobList \in Seq(Resource)
        /\ life' = life
    BY <1>11 DEF AddTail, MainTo, MainAt, TypeInv, TypeOK, MainCall, ServerPCs, objVars, loadVars
  <2>2. Distinct'
    BY <2>1 DEF Nodes, Distinct, IsPending
  <2>3. \A r \in Resource : IsPending(r)' => IsPending(r) \/ r = cur
    BY <2>1 DEF IsPending
  <2>4. QED
    BY <2>1, <2>2, <2>3 DEF Nodes, Lifetime, Exists
<1>12. CASE AddSignal
  BY <1>12 DEF AddSignal, Return, Nodes, Distinct, IsPending, Exists, objVars, loadVars
<1>13. CASE UnloadLock
  BY <1>13 DEF UnloadLock, LockList, MainTo, Nodes, Distinct, IsPending, Exists, objVars, loadVars
<1>14. CASE UnloadRem
  <2>1. /\ pcM = "unloadRem" /\ pcM' = "unloadState" /\ cur \in Resource /\ cur' = cur /\ job' = job
        /\ jobList' = IF IsPending(cur) THEN Unlinked(cur) ELSE jobList
        /\ life' = life
    BY <1>14 DEF UnloadRem, RemNode, MainTo, MainAt, TypeInv, MainCall, ServerPCs,
       objVars, loadVars
  <2>2. Distinct'
    BY <2>1, UnlinkedProperties DEF Nodes, Distinct, TypeInv
  <2>3. \A r \in Resource : IsPending(r)' <=> IsPending(r) /\ r # cur
    BY <2>1, UnlinkedProperties DEF Nodes, IsPending, TypeInv
  <2>4. QED
    BY <2>1, <2>2, <2>3 DEF Nodes, Exists
<1>15. CASE UnloadState
  BY <1>15
     DEF UnloadState, Unloaded, MainTo, Return, Nodes, Distinct, IsPending, Exists, objVars,
         listVars, loadVars
<1>16. CASE UnloadResource
  BY <1>16
     DEF UnloadResource, Unloaded, MainTo, Return, Nodes, Distinct, IsPending, Exists, listVars,
         loadVars
<1>17. CASE RenameLock
  BY <1>17
     DEF RenameLock, LockRes, MainTo, Nodes, Distinct, IsPending, Exists, objVars, listVars,
         loadVars
<1>18. CASE SetFilename
  BY <1>18 DEF SetFilename, Return, Nodes, Distinct, IsPending, Exists, objVars, listVars,
      loadVars
<1>19. CASE ReleaseLock
  BY <1>19
     DEF ReleaseLock, LockRes, MainTo, Nodes, Distinct, IsPending, Exists, objVars, listVars,
         loadVars
<1>20. CASE DtorMesh
  BY <1>20 DEF DtorMesh, MainTo, Nodes, Distinct, IsPending, Exists, listVars, loadVars
<1>21. CASE DtorAssert
  BY <1>21
     DEF DtorAssert, MainTo, Nodes, Distinct, IsPending, Exists, objVars, listVars, mainVars,
         loadVars
<1>22. CASE DtorLock
  BY <1>22 DEF DtorLock, LockList, MainTo, Nodes, Distinct, IsPending, Exists, objVars, loadVars
<1>23. CASE DtorRem
  <2>1. /\ pcM = "dtorRem" /\ pcM' = "dtorFree" /\ cur \in Resource /\ cur' = cur /\ job' = job
        /\ jobList' = IF IsPending(cur) THEN Unlinked(cur) ELSE jobList
        /\ life' = life
    BY <1>23 DEF DtorRem, RemNode, MainTo, MainAt, TypeInv, MainCall, ServerPCs,
       objVars, loadVars
  <2>2. Distinct'
    BY <2>1, UnlinkedProperties DEF Nodes, Distinct, TypeInv
  <2>3. \A r \in Resource : IsPending(r)' <=> IsPending(r) /\ r # cur
    BY <2>1, UnlinkedProperties DEF Nodes, IsPending, TypeInv
  <2>4. job # cur
    BY <2>1, <1>23 DEF LockInv, ListOwner, ResOwner, MainHolds, ListHeld, TypeInv, TypeOK,
        JobTaken,
       MainCall, DtorPCs, Loading, Nobody
  <2>5. QED
    BY <2>1, <2>2, <2>3, <2>4 DEF Nodes, Exists
<1>24. CASE DtorFree
  BY <1>24 DEF DtorFree, Return, MainAt, Nodes, Distinct, IsPending, Exists, listVars, loadVars
<1>25. CASE Wakeup
  BY <1>25 DEF Wakeup, MainTo, Nodes, Distinct, IsPending, Exists, objVars, loadVars
<1>26. CASE LetDie
  BY <1>26 DEF LetDie, MainTo, Nodes, Distinct, IsPending, Exists, objVars, listVars, loadVars
<1>27. CASE Join
  BY <1>27 DEF Join, MainTo, Nodes, Distinct, IsPending, Exists, objVars, listVars, loadVars
<1>28. CASE ClearLock
  BY <1>28 DEF ClearLock, LockList, MainTo, Nodes, Distinct, IsPending, Exists, objVars, loadVars
<1>29. CASE ClearJobs
  BY <1>29 DEF ClearJobs, Nodes, Distinct, IsPending, Exists, objVars, loadVars
<1>30. CASE \E r \in Resource : UnloadNext(r)
  BY <1>30 DEF UnloadNext, Nodes, Distinct, IsPending, Exists, objVars, listVars, loadVars
<1>31. CASE UnloadDone
  BY <1>31 DEF UnloadDone, MainTo, Nodes, Distinct, IsPending, Exists, objVars, listVars, loadVars
<1>32. CASE ThreadStarted
  BY <1>32
     DEF ThreadStarted, LoaderTo, Nodes, Distinct, IsPending, Exists, objVars, listVars, mainVars
<1>33. CASE WaitJobs
  BY <1>33 DEF WaitJobs, LoaderTo, Nodes, Distinct, IsPending, Exists, objVars, mainVars
<1>34. CASE CheckStop
  BY <1>34 DEF CheckStop, LoaderTo, Nodes, Distinct, IsPending, Exists, objVars, listVars,
      mainVars
<1>35. CASE ReadHead
  BY <1>35 DEF ReadHead, Nodes, Distinct, IsPending, Exists, objVars, listVars, mainVars
<1>36. CASE ReadSucc
  BY <1>36 DEF ReadSucc, Nodes, Distinct, IsPending, Exists, objVars, listVars, mainVars
<1>37. CASE LockJobs
  BY <1>37 DEF LockJobs, LoaderTo, Nodes, Distinct, IsPending, Exists, objVars, mainVars
<1>38. CASE PopJob
  <2>1. CASE jobList = <<>>
    BY <1>38, <2>1 DEF PopJob, Nodes, Distinct, IsPending, Exists, objVars, mainVars, loadVars
  <2>2. CASE jobList # <<>>
    <3>1. /\ jobList \in Seq(Resource) /\ jobList # <<>>
          /\ job' = Head(jobList) /\ jobList' = Tail(jobList)
          /\ life' = life /\ pcM' = pcM /\ cur' = cur
      BY <1>38, <2>2 DEF PopJob, TypeInv, TypeOK, objVars, mainVars
    <3>2. Distinct' /\ \A r \in Resource : IsPending(r)' => IsPending(r)
      BY <3>1 DEF Nodes, Distinct, IsPending
    <3>3. job' \in Resource /\ IsPending(job')
      BY <3>1 DEF IsPending
    <3>4. QED
      BY <3>1, <3>2, <3>3 DEF Nodes, Exists, TypeInv, MainCall, ServerPCs
  <2>3. QED
    BY <2>1, <2>2
<1>39. CASE LockJob
  BY <1>39 DEF LockJob, LoaderTo, Nodes, Distinct, IsPending, Exists, objVars, listVars, mainVars
<1>40. CASE UnlockJobs
  BY <1>40 DEF UnlockJobs, LoaderTo, Nodes, Distinct, IsPending, Exists, objVars, mainVars
<1>41. CASE BeginLoad
  BY <1>41
     DEF BeginLoad, LoaderTo, Nodes, Distinct, IsPending, Exists, objVars, listVars, mainVars,
         loadVars
<1>42. CASE Fill
  BY <1>42 DEF Fill, LoaderTo, Nodes, Distinct, IsPending, Exists, listVars, mainVars
<1>43. CASE Publish
  BY <1>43 DEF Publish, LoaderTo, Nodes, Distinct, IsPending, Exists, listVars, mainVars
<1>44. CASE Declare
  BY <1>44 DEF Declare, LoaderTo, Nodes, Distinct, IsPending, Exists, listVars, mainVars, loadVars
<1>45. CASE EndLoad
  BY <1>45
     DEF EndLoad, Nodes, Distinct, IsPending, Exists, TypeInv, MainCall, JobTaken, DtorPCs,
         Loading, objVars, listVars, mainVars
<1>46. CASE UntilStop
  BY <1>46 DEF UntilStop, LoaderTo, Nodes, Distinct, IsPending, Exists, objVars, listVars,
      mainVars
<1>47. CASE ThreadHarakiri
  BY <1>47
     DEF ThreadHarakiri, LoaderTo, Nodes, Distinct, IsPending, Exists, objVars, listVars, mainVars
<1>48. CASE UNCHANGED vars
  BY <1>48 DEF vars, Nodes, Distinct, IsPending, Exists, objVars, listVars, mainVars, loadVars
<1>49. QED
  BY <1>1, <1>2, <1>3, <1>4, <1>5, <1>6, <1>7, <1>8, <1>9, <1>10, <1>11, <1>12, <1>13, <1>14,
      <1>15, <1>16, <1>17, <1>18, <1>19, <1>20, <1>21, <1>22, <1>23, <1>24, <1>25, <1>26, <1>27,
      <1>28, <1>29, <1>30, <1>31, <1>32, <1>33, <1>34, <1>35, <1>36, <1>37, <1>38, <1>39, <1>40,
      <1>41, <1>42, <1>43, <1>44, <1>45, <1>46, <1>47, <1>48
     DEF Next, Application, Main, Loader, Stopped

-----------------------------------------------------------------------------
(* The destructor and the loaded state.                                    *)

(* At first no destructor runs.                                            *)
LEMMA DtorInit == Init => DtorUnloaded
BY DEF Init, DtorUnloaded, DtorPCs

(* No step makes an object loaded behind the check of its destructor.      *)
LEMMA DtorStep ==
    TypeInv /\ LockInv /\ DtorUnloaded /\ [Next]_vars => DtorUnloaded'
<1> SUFFICES ASSUME TypeInv, LockInv, DtorUnloaded, [Next]_vars PROVE DtorUnloaded'
  OBVIOUS
<1>1. CASE \E r \in Resource : NewResource(r)
  BY <1>1 DEF NewResource, DtorUnloaded, mainVars
<1>2. CASE \E r \in Resource : Load(r)
  BY <1>2 DEF Load, Call, DtorUnloaded, DtorPCs
<1>3. CASE \E r \in Resource : Unload(r)
  BY <1>3 DEF Unload, Call, DtorUnloaded, DtorPCs
<1>4. CASE \E r \in Resource : Rename(r)
  BY <1>4 DEF Rename, Call, DtorUnloaded, DtorPCs
<1>5. CASE \E r \in Resource : Release(r)
  BY <1>5 DEF Release, Call, DtorUnloaded, DtorPCs
<1>6. CASE Shutdown
  BY <1>6 DEF Shutdown, DtorUnloaded, DtorPCs
<1>7. CASE Started
  BY <1>7 DEF Started, MainTo, DtorUnloaded, DtorPCs
<1>8. CASE LoadPending
  BY <1>8 DEF LoadPending, MainTo, Return, DtorUnloaded, DtorPCs
<1>9. CASE AddAssert
  BY <1>9 DEF AddAssert, MainTo, DtorUnloaded, objVars, mainVars
<1>10. CASE AddLock
  BY <1>10 DEF AddLock, LockList, MainTo, DtorUnloaded, DtorPCs
<1>11. CASE AddTail
  BY <1>11 DEF AddTail, MainTo, DtorUnloaded, DtorPCs
<1>12. CASE AddSignal
  BY <1>12 DEF AddSignal, Return, DtorUnloaded, DtorPCs
<1>13. CASE UnloadLock
  BY <1>13 DEF UnloadLock, LockList, MainTo, DtorUnloaded, DtorPCs
<1>14. CASE UnloadRem
  BY <1>14 DEF UnloadRem, RemNode, MainTo, DtorUnloaded, DtorPCs
<1>15. CASE UnloadState
  BY <1>15 DEF UnloadState, Unloaded, MainTo, Return, DtorUnloaded, DtorPCs, objVars
<1>16. CASE UnloadResource
  BY <1>16
     DEF UnloadResource, Unloaded, MainTo, Return, DtorUnloaded, TypeInv, TypeOK, MainCall,
         DtorPCs
<1>17. CASE RenameLock
  BY <1>17 DEF RenameLock, LockRes, MainTo, DtorUnloaded, DtorPCs
<1>18. CASE SetFilename
  BY <1>18 DEF SetFilename, Return, DtorUnloaded, DtorPCs
<1>19. CASE ReleaseLock
  BY <1>19 DEF ReleaseLock, LockRes, MainTo, DtorUnloaded, DtorPCs
<1>20. CASE DtorMesh
  BY <1>20 DEF DtorMesh, MainTo, DtorUnloaded, DtorPCs
<1>21. CASE DtorAssert
  BY <1>21 DEF DtorAssert, MainTo, MainAt, DtorUnloaded, DtorPCs, objVars
<1>22. CASE DtorLock
  BY <1>22 DEF DtorLock, LockList, MainTo, MainAt, DtorUnloaded, DtorPCs, objVars
<1>23. CASE DtorRem
  BY <1>23 DEF DtorRem, RemNode, MainTo, MainAt, DtorUnloaded, DtorPCs, objVars
<1>24. CASE DtorFree
  BY <1>24 DEF DtorFree, Return, DtorUnloaded, DtorPCs
<1>25. CASE Wakeup
  BY <1>25 DEF Wakeup, MainTo, DtorUnloaded, DtorPCs
<1>26. CASE LetDie
  BY <1>26 DEF LetDie, MainTo, DtorUnloaded, DtorPCs
<1>27. CASE Join
  BY <1>27 DEF Join, MainTo, DtorUnloaded, DtorPCs
<1>28. CASE ClearLock
  BY <1>28 DEF ClearLock, LockList, MainTo, DtorUnloaded, DtorPCs
<1>29. CASE ClearJobs
  BY <1>29 DEF ClearJobs, DtorUnloaded, DtorPCs
<1>30. CASE \E r \in Resource : UnloadNext(r)
  BY <1>30 DEF UnloadNext, DtorUnloaded, DtorPCs
<1>31. CASE UnloadDone
  BY <1>31 DEF UnloadDone, MainTo, DtorUnloaded, DtorPCs
<1>32. CASE ThreadStarted
  BY <1>32 DEF ThreadStarted, DtorUnloaded, objVars, mainVars
<1>33. CASE WaitJobs
  BY <1>33 DEF WaitJobs, DtorUnloaded, objVars, mainVars
<1>34. CASE CheckStop
  BY <1>34 DEF CheckStop, DtorUnloaded, objVars, mainVars
<1>35. CASE ReadHead
  BY <1>35 DEF ReadHead, DtorUnloaded, objVars, mainVars
<1>36. CASE ReadSucc
  BY <1>36 DEF ReadSucc, DtorUnloaded, objVars, mainVars
<1>37. CASE LockJobs
  BY <1>37 DEF LockJobs, DtorUnloaded, objVars, mainVars
<1>38. CASE PopJob
  BY <1>38 DEF PopJob, DtorUnloaded, objVars, mainVars
<1>39. CASE LockJob
  BY <1>39 DEF LockJob, DtorUnloaded, objVars, mainVars
<1>40. CASE UnlockJobs
  BY <1>40 DEF UnlockJobs, DtorUnloaded, objVars, mainVars
<1>41. CASE BeginLoad
  BY <1>41 DEF BeginLoad, DtorUnloaded, objVars, mainVars
<1>42. CASE Fill
  BY <1>42 DEF Fill, DtorUnloaded, mainVars
<1>43. CASE Publish
  BY <1>43
     DEF Publish, LoaderAt, DtorUnloaded, LockInv, ResOwner, MainHolds, TypeInv, MainCall,
         JobTaken, DtorPCs, mainVars
<1>44. CASE Declare
  BY <1>44 DEF Declare, DtorUnloaded, mainVars
<1>45. CASE EndLoad
  BY <1>45 DEF EndLoad, DtorUnloaded, objVars, mainVars
<1>46. CASE UntilStop
  BY <1>46 DEF UntilStop, DtorUnloaded, objVars, mainVars
<1>47. CASE ThreadHarakiri
  BY <1>47 DEF ThreadHarakiri, DtorUnloaded, objVars, mainVars
<1>48. CASE UNCHANGED vars
  BY <1>48 DEF vars, DtorUnloaded, objVars, mainVars
<1>49. QED
  BY <1>1, <1>2, <1>3, <1>4, <1>5, <1>6, <1>7, <1>8, <1>9, <1>10, <1>11, <1>12, <1>13, <1>14,
      <1>15, <1>16, <1>17, <1>18, <1>19, <1>20, <1>21, <1>22, <1>23, <1>24, <1>25, <1>26, <1>27,
      <1>28, <1>29, <1>30, <1>31, <1>32, <1>33, <1>34, <1>35, <1>36, <1>37, <1>38, <1>39, <1>40,
      <1>41, <1>42, <1>43, <1>44, <1>45, <1>46, <1>47, <1>48
     DEF Next, Application, Main, Loader, Stopped

-----------------------------------------------------------------------------
(* The end of the server.                                                  *)

(* At first the server is not shut down.                                   *)
LEMMA AfterJoinInit == Init => AfterJoin
BY DEF Init, AfterJoin, Joined, Cleared

(* After the join no step of the loader and no new job is left.            *)
LEMMA AfterJoinStep ==
    ~JoinTimeout /\ TypeInv /\ AfterJoin /\ [Next]_vars => AfterJoin'
<1> SUFFICES ASSUME ~JoinTimeout, TypeInv, AfterJoin, [Next]_vars PROVE AfterJoin'
  OBVIOUS
<1>0. ~JoinTimeout
  OBVIOUS
<1>1. CASE \E r \in Resource : NewResource(r)
  BY <1>1 DEF NewResource, AfterJoin, Joined, Cleared, TypeInv, TypeOK, listVars, mainVars,
      loadVars
<1>2. CASE \E r \in Resource : Load(r)
  BY <1>2 DEF Load, Call, AfterJoin, Joined, Cleared
<1>3. CASE \E r \in Resource : Unload(r)
  BY <1>3 DEF Unload, Call, AfterJoin, Joined, Cleared
<1>4. CASE \E r \in Resource : Rename(r)
  BY <1>4 DEF Rename, Call, AfterJoin, Joined, Cleared
<1>5. CASE \E r \in Resource : Release(r)
  BY <1>5 DEF Release, Call, AfterJoin, Joined, Cleared
<1>6. CASE Shutdown
  BY <1>6 DEF Shutdown, AfterJoin, Joined, Cleared, UnloadPCs
<1>7. CASE Started
  BY <1>7 DEF Started, MainTo, MainAt, AfterJoin, Joined, Cleared, TypeInv, MainCall
<1>8. CASE LoadPending
  BY <1>8
     DEF LoadPending, MainTo, Return, MainAt, AfterJoin, Joined, Cleared, TypeInv, MainCall,
         LoadPCs
<1>9. CASE AddAssert
  BY <1>9
     DEF AddAssert, MainTo, MainAt, AfterJoin, Joined, Cleared, TypeInv, MainCall, LoadPCs,
         mainVars
<1>10. CASE AddLock
  BY <1>10
     DEF AddLock, LockList, MainTo, MainAt, AfterJoin, Joined, Cleared, TypeInv, MainCall, LoadPCs
<1>11. CASE AddTail
  BY <1>11 DEF AddTail, MainTo, MainAt, AfterJoin, Joined, Cleared, TypeInv, MainCall, LoadPCs
<1>12. CASE AddSignal
  BY <1>12 DEF AddSignal, Return, MainAt, AfterJoin, Joined, Cleared, TypeInv, MainCall, LoadPCs
<1>13. CASE UnloadLock
  BY <1>13
     DEF UnloadLock, LockList, MainTo, MainAt, AfterJoin, Joined, Cleared, UnloadPCs, objVars,
         loadVars
<1>14. CASE UnloadRem
  <2>1. /\ pcM = "unloadRem" /\ pcM' = "unloadState" /\ cur \in Resource /\ op' = op /\ todo' = todo /\ cur' = cur
        /\ jobList' = IF IsPending(cur) THEN Unlinked(cur) ELSE jobList
        /\ life' = life /\ state' = state /\ pcL' = pcL
    BY <1>14 DEF UnloadRem, RemNode, MainTo, MainAt, TypeInv, MainCall, ServerPCs, UnloadPCs,
        DtorPCs, objVars, loadVars
  <2>2. jobList = <<>> => jobList' = <<>>
    BY <2>1 DEF IsPending
  <2>3. QED
    BY <2>1, <2>2, <1>0 DEF AfterJoin, Joined, Cleared, UnloadPCs, DtorPCs, TypeInv, MainCall
<1>15. CASE UnloadState
  BY <1>15
     DEF UnloadState, Unloaded, MainTo, Return, MainAt, AfterJoin, Joined, Cleared, UnloadPCs,
         objVars, listVars, loadVars
<1>16. CASE UnloadResource
  BY <1>16
     DEF UnloadResource, Unloaded, MainTo, Return, MainAt, AfterJoin, Joined, Cleared, TypeInv,
         TypeOK, UnloadPCs, listVars, loadVars
<1>17. CASE RenameLock
  BY <1>17 DEF RenameLock, LockRes, MainTo, AfterJoin, Joined, Cleared, UnloadPCs
<1>18. CASE SetFilename
  BY <1>18 DEF SetFilename, Return, MainAt, AfterJoin, Joined, Cleared, TypeInv, MainCall,
      RenamePCs
<1>19. CASE ReleaseLock
  BY <1>19 DEF ReleaseLock, LockRes, MainTo, MainAt, AfterJoin, Joined, Cleared, TypeInv, MainCall
<1>20. CASE DtorMesh
  BY <1>20 DEF DtorMesh, MainTo, MainAt, AfterJoin, Joined, Cleared, TypeInv, MainCall
<1>21. CASE DtorAssert
  BY <1>21 DEF DtorAssert, MainTo, MainAt, AfterJoin, Joined, Cleared, UnloadPCs, mainVars
<1>22. CASE DtorLock
  BY <1>22 DEF DtorLock, LockList, MainTo, AfterJoin, Joined, Cleared, UnloadPCs
<1>23. CASE DtorRem
  <2>1. /\ pcM = "dtorRem" /\ pcM' = "dtorFree" /\ cur \in Resource /\ op' = op /\ todo' = todo /\ cur' = cur
        /\ jobList' = IF IsPending(cur) THEN Unlinked(cur) ELSE jobList
        /\ life' = life /\ state' = state /\ pcL' = pcL
    BY <1>23 DEF DtorRem, RemNode, MainTo, MainAt, TypeInv, MainCall, ServerPCs, UnloadPCs,
        DtorPCs, objVars, loadVars
  <2>2. jobList = <<>> => jobList' = <<>>
    BY <2>1 DEF IsPending
  <2>3. QED
    BY <2>1, <2>2, <1>0 DEF AfterJoin, Joined, Cleared, UnloadPCs, DtorPCs, TypeInv, MainCall
<1>24. CASE DtorFree
  BY <1>24 DEF DtorFree, Return, MainAt, AfterJoin, Joined, Cleared, TypeInv, MainCall, DtorPCs
<1>25. CASE Wakeup
  BY <1>25 DEF Wakeup, MainTo, AfterJoin, Joined, Cleared, UnloadPCs
<1>26. CASE LetDie
  BY <1>26 DEF LetDie, MainTo, AfterJoin, Joined, Cleared, UnloadPCs
<1>27. CASE Join
  BY <1>27 DEF Join, MainTo, AfterJoin, Cleared, UnloadPCs, loadVars
<1>28. CASE ClearLock
  BY <1>28 DEF ClearLock, LockList, MainTo, MainAt, AfterJoin, Joined, Cleared, UnloadPCs,
      loadVars
<1>29. CASE ClearJobs
  BY <1>29 DEF ClearJobs, MainAt, AfterJoin, Joined, objVars, loadVars
<1>30. CASE \E r \in Resource : UnloadNext(r)
  BY <1>30
     DEF UnloadNext, MainAt, AfterJoin, Joined, Cleared, UnloadPCs, objVars, listVars, loadVars
<1>31. CASE UnloadDone
  BY <1>31
     DEF UnloadDone, MainTo, MainAt, AfterJoin, Joined, Cleared, UnloadPCs, objVars, listVars,
         loadVars
<1>32. CASE ThreadStarted
  BY <1>32 DEF ThreadStarted, LoaderAt, AfterJoin, Joined, Cleared, mainVars
<1>33. CASE WaitJobs
  BY <1>33 DEF WaitJobs, LoaderAt, AfterJoin, Joined, Cleared, mainVars
<1>34. CASE CheckStop
  BY <1>34 DEF CheckStop, LoaderAt, AfterJoin, Joined, Cleared, mainVars
<1>35. CASE ReadHead
  BY <1>35 DEF ReadHead, LoaderAt, AfterJoin, Joined, Cleared, mainVars
<1>36. CASE ReadSucc
  BY <1>36 DEF ReadSucc, LoaderAt, AfterJoin, Joined, Cleared, mainVars
<1>37. CASE LockJobs
  BY <1>37 DEF LockJobs, LoaderAt, AfterJoin, Joined, Cleared, mainVars
<1>38. CASE PopJob
  BY <1>38 DEF PopJob, LoaderAt, AfterJoin, Joined, Cleared, mainVars
<1>39. CASE LockJob
  BY <1>39 DEF LockJob, LoaderAt, AfterJoin, Joined, Cleared, mainVars
<1>40. CASE UnlockJobs
  BY <1>40 DEF UnlockJobs, LoaderAt, AfterJoin, Joined, Cleared, mainVars
<1>41. CASE BeginLoad
  BY <1>41 DEF BeginLoad, LoaderAt, AfterJoin, Joined, Cleared, mainVars
<1>42. CASE Fill
  BY <1>42 DEF Fill, LoaderAt, AfterJoin, Joined, Cleared, mainVars
<1>43. CASE Publish
  BY <1>43 DEF Publish, LoaderAt, AfterJoin, Joined, Cleared, mainVars
<1>44. CASE Declare
  BY <1>44 DEF Declare, LoaderAt, AfterJoin, Joined, Cleared, mainVars
<1>45. CASE EndLoad
  BY <1>45 DEF EndLoad, LoaderAt, AfterJoin, Joined, Cleared, mainVars
<1>46. CASE UntilStop
  BY <1>46 DEF UntilStop, LoaderAt, AfterJoin, Joined, Cleared, mainVars
<1>47. CASE ThreadHarakiri
  BY <1>47 DEF ThreadHarakiri, LoaderAt, AfterJoin, Joined, Cleared, mainVars
<1>48. CASE UNCHANGED vars
  BY <1>48 DEF vars, AfterJoin, Joined, Cleared, objVars, listVars, mainVars, loadVars
<1>49. QED
  BY <1>1, <1>2, <1>3, <1>4, <1>5, <1>6, <1>7, <1>8, <1>9, <1>10, <1>11, <1>12, <1>13, <1>14,
      <1>15, <1>16, <1>17, <1>18, <1>19, <1>20, <1>21, <1>22, <1>23, <1>24, <1>25, <1>26, <1>27,
      <1>28, <1>29, <1>30, <1>31, <1>32, <1>33, <1>34, <1>35, <1>36, <1>37, <1>38, <1>39, <1>40,
      <1>41, <1>42, <1>43, <1>44, <1>45, <1>46, <1>47, <1>48
     DEF Next, Application, Main, Loader, Stopped

-----------------------------------------------------------------------------
(* The wakeups.                                                            *)

(* The loader has not started to wait.                                     *)
LEMMA WakeupInit == Init => WakeupInv
BY DEF Init, WakeupInv, Signalled, Coming

(* Every step that leaves a job leaves a signal, or is about to.           *)
LEMMA WakeupStep ==
    CountingEvent /\ TypeInv /\ Nodes /\ WakeupInv /\ [Next]_vars => WakeupInv'
<1> SUFFICES ASSUME CountingEvent, TypeInv, Nodes, WakeupInv, [Next]_vars PROVE WakeupInv'
  OBVIOUS
<1>0. /\ CountingEvent /\ Len(jobList) \in Nat
  BY DEF TypeInv, TypeOK
<1>1. CASE \E r \in Resource : NewResource(r)
  BY <1>1
     DEF NewResource, WakeupInv, Signalled, Coming, IsPending, listVars, thrVars, mainVars,
         loadVars
<1>2. CASE \E r \in Resource : Load(r)
  BY <1>2
     DEF Load, Call, MainAt, WakeupInv, Signalled, Coming, IsPending, listVars, thrVars, loadVars
<1>3. CASE \E r \in Resource : Unload(r)
  BY <1>3
     DEF Unload, Call, MainAt, WakeupInv, Signalled, Coming, IsPending, listVars, thrVars,
         loadVars
<1>4. CASE \E r \in Resource : Rename(r)
  BY <1>4
     DEF Rename, Call, MainAt, WakeupInv, Signalled, Coming, IsPending, listVars, thrVars,
         loadVars
<1>5. CASE \E r \in Resource : Release(r)
  BY <1>5
     DEF Release, Call, MainAt, WakeupInv, Signalled, Coming, IsPending, listVars, thrVars,
         loadVars
<1>6. CASE Shutdown
  BY <1>6 DEF Shutdown, MainAt, WakeupInv, Signalled, Coming, IsPending, listVars, loadVars
<1>7. CASE Started
  BY <1>7 DEF Started, MainTo, MainAt, WakeupInv, Signalled, Coming, IsPending, listVars, loadVars
<1>8. CASE LoadPending
  BY <1>8
     DEF LoadPending, MainTo, Return, MainAt, WakeupInv, Signalled, Coming, IsPending, listVars,
         thrVars, loadVars
<1>9. CASE AddAssert
  BY <1>9
     DEF AddAssert, MainTo, MainAt, WakeupInv, Signalled, Coming, IsPending, listVars, thrVars,
         mainVars, loadVars
<1>10. CASE AddLock
  BY <1>10
     DEF AddLock, LockList, MainTo, MainAt, WakeupInv, Signalled, Coming, IsPending, thrVars,
         loadVars
<1>11. CASE AddTail
  <2>1. /\ pcM = "addTail" /\ pcM' = "addSignal" /\ cur \in Resource
        /\ jobList' = Append(jobList, cur) /\ jobList \in Seq(Resource) /\ listEvent \in Nat
        /\ listEvent' = listEvent /\ stopThread' = stopThread /\ pcL' = pcL /\ probe' = probe
    BY <1>11 DEF AddTail, MainTo, MainAt, TypeInv, TypeOK, MainCall, ServerPCs, thrVars, loadVars
  <2>2. Len(jobList') = Len(jobList) + 1 /\ Signalled' = Signalled + 1
    BY <2>1 DEF Signalled
  <2>3. Coming => Coming'
    BY <2>1 DEF Coming, IsPending
  <2>4. Len(jobList) \in Nat /\ Signalled \in Nat
    BY <2>1 DEF Signalled
  <2>5. QED
    BY <2>1, <2>2, <2>3, <2>4 DEF WakeupInv
<1>12. CASE AddSignal
  BY <1>12
     DEF AddSignal, MainAt, SignalEvent, Signalled, WakeupInv, Coming, IsPending, thrVars,
         loadVars
<1>13. CASE UnloadLock
  BY <1>13
     DEF UnloadLock, LockList, MainTo, MainAt, WakeupInv, Signalled, Coming, IsPending, thrVars,
         loadVars
<1>14. CASE UnloadRem
  <2>1. /\ pcM = "unloadRem" /\ pcM' = "unloadState" /\ cur \in Resource
        /\ jobList' = IF IsPending(cur) THEN Unlinked(cur) ELSE jobList
        /\ listEvent' = listEvent /\ stopThread' = stopThread /\ pcL' = pcL /\ probe' = probe
    BY <1>14 DEF UnloadRem, RemNode, MainTo, MainAt, TypeInv, MainCall, ServerPCs, thrVars,
        loadVars
  <2>2. CASE ~IsPending(cur)
    <3>1. jobList' = jobList
      BY <2>1, <2>2
    <3>2. QED
      BY <2>1, <3>1 DEF WakeupInv, Signalled, Coming, IsPending
  <2>3. CASE IsPending(cur)
    <3>1. Len(jobList') = Len(jobList) - 1 /\ Len(jobList) \in Nat /\ listEvent \in Nat
      BY <2>1, <2>3, UnlinkedProperties DEF Nodes, TypeInv, TypeOK
    <3>2. \A r \in Resource : IsPending(r)' <=> IsPending(r) /\ r # cur
      BY <2>1, <2>3, UnlinkedProperties DEF Nodes, IsPending, TypeInv
    <3>3. Signalled' = Signalled /\ Signalled \in Nat
      BY <2>1, <3>1 DEF Signalled
    <3>4. CASE stopThread /\ pcL \in {"until", "harakiri", "dead"}
      BY <2>1, <3>4 DEF WakeupInv
    <3>5. CASE Len(jobList) <= Signalled + (IF Coming THEN 1 ELSE 0)
      BY <3>1, <3>3, <3>5 DEF WakeupInv
    <3>6. QED
      BY <3>4, <3>5 DEF WakeupInv
  <2>4. QED
    BY <2>2, <2>3
<1>15. CASE UnloadState
  BY <1>15
     DEF UnloadState, Unloaded, MainTo, Return, MainAt, WakeupInv, Signalled, Coming, IsPending,
         listVars, thrVars, loadVars
<1>16. CASE UnloadResource
  BY <1>16
     DEF UnloadResource, Unloaded, MainTo, Return, MainAt, WakeupInv, Signalled, Coming,
         IsPending, listVars, thrVars, loadVars
<1>17. CASE RenameLock
  BY <1>17
     DEF RenameLock, LockRes, MainTo, MainAt, WakeupInv, Signalled, Coming, IsPending, listVars,
         thrVars, loadVars
<1>18. CASE SetFilename
  BY <1>18
     DEF SetFilename, Return, MainAt, WakeupInv, Signalled, Coming, IsPending, listVars, thrVars,
         loadVars
<1>19. CASE ReleaseLock
  BY <1>19
     DEF ReleaseLock, LockRes, MainTo, MainAt, WakeupInv, Signalled, Coming, IsPending, listVars,
         thrVars, loadVars
<1>20. CASE DtorMesh
  BY <1>20
     DEF DtorMesh, MainTo, MainAt, WakeupInv, Signalled, Coming, IsPending, listVars, thrVars,
         loadVars
<1>21. CASE DtorAssert
  BY <1>21
     DEF DtorAssert, MainTo, MainAt, WakeupInv, Signalled, Coming, IsPending, listVars, thrVars,
         mainVars, loadVars
<1>22. CASE DtorLock
  BY <1>22
     DEF DtorLock, LockList, MainTo, MainAt, WakeupInv, Signalled, Coming, IsPending, thrVars,
         loadVars
<1>23. CASE DtorRem
  <2>1. /\ pcM = "dtorRem" /\ pcM' = "dtorFree" /\ cur \in Resource
        /\ jobList' = IF IsPending(cur) THEN Unlinked(cur) ELSE jobList
        /\ listEvent' = listEvent /\ stopThread' = stopThread /\ pcL' = pcL /\ probe' = probe
    BY <1>23 DEF DtorRem, RemNode, MainTo, MainAt, TypeInv, MainCall, ServerPCs, thrVars, loadVars
  <2>2. CASE ~IsPending(cur)
    <3>1. jobList' = jobList
      BY <2>1, <2>2
    <3>2. QED
      BY <2>1, <3>1 DEF WakeupInv, Signalled, Coming, IsPending
  <2>3. CASE IsPending(cur)
    <3>1. Len(jobList') = Len(jobList) - 1 /\ Len(jobList) \in Nat /\ listEvent \in Nat
      BY <2>1, <2>3, UnlinkedProperties DEF Nodes, TypeInv, TypeOK
    <3>2. \A r \in Resource : IsPending(r)' <=> IsPending(r) /\ r # cur
      BY <2>1, <2>3, UnlinkedProperties DEF Nodes, IsPending, TypeInv
    <3>3. Signalled' = Signalled /\ Signalled \in Nat
      BY <2>1, <3>1 DEF Signalled
    <3>4. CASE stopThread /\ pcL \in {"until", "harakiri", "dead"}
      BY <2>1, <3>4 DEF WakeupInv
    <3>5. CASE Len(jobList) <= Signalled + (IF Coming THEN 1 ELSE 0)
      BY <3>1, <3>3, <3>5 DEF WakeupInv
    <3>6. QED
      BY <3>4, <3>5 DEF WakeupInv
  <2>4. QED
    BY <2>2, <2>3
<1>24. CASE DtorFree
  BY <1>24
     DEF DtorFree, Return, MainAt, WakeupInv, Signalled, Coming, IsPending, listVars, thrVars,
         loadVars
<1>25. CASE Wakeup
  BY <1>25 DEF Wakeup, MainAt, SignalEvent, Signalled, WakeupInv, TypeInv, TypeOK, thrVars,
      loadVars
<1>26. CASE LetDie
  BY <1>26 DEF LetDie, MainTo, MainAt, WakeupInv, Signalled, Coming, IsPending, listVars, loadVars
<1>27. CASE Join
  BY <1>27
     DEF Join, MainTo, MainAt, WakeupInv, Signalled, Coming, IsPending, listVars, thrVars,
         loadVars
<1>28. CASE ClearLock
  BY <1>28
     DEF ClearLock, LockList, MainTo, MainAt, WakeupInv, Signalled, Coming, IsPending, thrVars,
         loadVars
<1>29. CASE ClearJobs
  <2>1. jobList' = <<>>
    BY <1>29 DEF ClearJobs
  <2>2. listEvent \in Nat /\ listEvent' = listEvent /\ pcM' = "unloadAll"
    BY <1>29 DEF ClearJobs, TypeInv, TypeOK
  <2>3. Len(jobList') = 0
    BY <2>1
  <2>4. Signalled' = listEvent
    BY <2>2 DEF Signalled
  <2>5. QED
    BY <2>2, <2>3, <2>4 DEF WakeupInv
<1>30. CASE \E r \in Resource : UnloadNext(r)
  BY <1>30
     DEF UnloadNext, MainAt, WakeupInv, Signalled, Coming, IsPending, listVars, thrVars, loadVars
<1>31. CASE UnloadDone
  BY <1>31
     DEF UnloadDone, MainTo, MainAt, WakeupInv, Signalled, Coming, IsPending, listVars, thrVars,
         loadVars
<1>32. CASE ThreadStarted
  BY <1>32 DEF ThreadStarted, LoaderTo, LoaderAt, WakeupInv, Signalled, Coming, listVars, mainVars
<1>33. CASE WaitJobs
  BY <1>33
     DEF WaitJobs, LoaderTo, LoaderAt, WaitEvent, WakeupInv, Signalled, Coming, TypeInv, TypeOK,
         mainVars
<1>34. CASE CheckStop
  BY <1>34
     DEF CheckStop, LoaderTo, LoaderAt, WakeupInv, Signalled, Coming, listVars, thrVars, mainVars
<1>35. CASE ReadHead
  <2>1. /\ pcL = "head" /\ pcL' = "succ" /\ jobList' = jobList /\ listEvent' = listEvent
        /\ probe' = IF jobList = <<>> THEN NoRes ELSE Head(jobList)
        /\ pcM' = pcM /\ jobList \in Seq(Resource) /\ listEvent \in Nat
    BY <1>35 DEF ReadHead, LoaderAt, TypeInv, TypeOK, listVars, mainVars
  <2>2. CASE jobList = <<>>
    BY <2>1, <2>2 DEF WakeupInv, Signalled
  <2>3. CASE jobList # <<>>
    <3>1. Coming'
      BY <2>1, <2>3 DEF Coming, IsPending
    <3>2. Coming
      BY <2>1 DEF Coming
    <3>3. QED
      BY <2>1, <3>1, <3>2 DEF WakeupInv, Signalled
  <2>4. QED
    BY <2>2, <2>3
<1>36. CASE ReadSucc
  <2>1. /\ pcL = "succ" /\ pcL' \in {"until", "lockList"} /\ jobList' = jobList
        /\ listEvent' = listEvent /\ pcM' = pcM /\ stopThread' = stopThread
    BY <1>36 DEF ReadSucc, LoaderAt, listVars, mainVars, thrVars
  <2>2. probe \in Resource /\ IsPending(probe) => pcL' = "lockList"
    BY <1>36 DEF ReadSucc, Nodes
  <2>3. Coming => Coming'
    BY <2>1, <2>2 DEF Coming
  <2>4. jobList \in Seq(Resource) /\ listEvent \in Nat
    BY DEF TypeInv, TypeOK
  <2>5. QED
    BY <2>1, <2>3, <2>4 DEF WakeupInv, Signalled
<1>37. CASE LockJobs
  BY <1>37 DEF LockJobs, LoaderTo, LoaderAt, WakeupInv, Signalled, Coming, mainVars
<1>38. CASE PopJob
  BY <1>38 DEF PopJob, LoaderAt, WakeupInv, Signalled, TypeInv, TypeOK, mainVars
<1>39. CASE LockJob
  BY <1>39 DEF LockJob, LoaderTo, LoaderAt, WakeupInv, Signalled, Coming, listVars, mainVars
<1>40. CASE UnlockJobs
  BY <1>40 DEF UnlockJobs, LoaderTo, LoaderAt, WakeupInv, Signalled, Coming, mainVars
<1>41. CASE BeginLoad
  BY <1>41
     DEF BeginLoad, LoaderTo, LoaderAt, WakeupInv, Signalled, Coming, listVars, mainVars, loadVars
<1>42. CASE Fill
  BY <1>42 DEF Fill, LoaderTo, LoaderAt, WakeupInv, Signalled, Coming, listVars, mainVars
<1>43. CASE Publish
  BY <1>43 DEF Publish, LoaderTo, LoaderAt, WakeupInv, Signalled, Coming, listVars, mainVars
<1>44. CASE Declare
  BY <1>44
     DEF Declare, LoaderTo, LoaderAt, WakeupInv, Signalled, Coming, listVars, mainVars, loadVars
<1>45. CASE EndLoad
  BY <1>45 DEF EndLoad, LoaderAt, WakeupInv, Signalled, Coming, TypeInv, TypeOK, listVars
<1>46. CASE UntilStop
  BY <1>46
     DEF UntilStop, LoaderTo, LoaderAt, WakeupInv, Signalled, Coming, listVars, thrVars, mainVars
<1>47. CASE ThreadHarakiri
  BY <1>47 DEF ThreadHarakiri, LoaderTo, LoaderAt, WakeupInv, Signalled, Coming, listVars,
      mainVars
<1>48. CASE UNCHANGED vars
  BY <1>48 DEF vars, WakeupInv, Signalled, Coming, IsPending, listVars, thrVars, mainVars,
      loadVars
<1>49. QED
  BY <1>1, <1>2, <1>3, <1>4, <1>5, <1>6, <1>7, <1>8, <1>9, <1>10, <1>11, <1>12, <1>13, <1>14,
      <1>15, <1>16, <1>17, <1>18, <1>19, <1>20, <1>21, <1>22, <1>23, <1>24, <1>25, <1>26, <1>27,
      <1>28, <1>29, <1>30, <1>31, <1>32, <1>33, <1>34, <1>35, <1>36, <1>37, <1>38, <1>39, <1>40,
      <1>41, <1>42, <1>43, <1>44, <1>45, <1>46, <1>47, <1>48
     DEF Next, Application, Main, Loader, Stopped

-----------------------------------------------------------------------------
(* Every step of the loader is a step of the queue it promises, or none.   *)

(* The initial state is one of the queue.                                  *)
LEMMA QueueInit == Init => LQ!Init
BY DEF Init, LQ!Init, Exists

(* Every step maps to a step of LoadQueue or to a stutter.                 *)
LEMMA QueueStep ==
    TypeInv /\ Lifetime /\ Nodes /\ AfterJoin /\ [Next]_vars => [LQ!Next]_(LQ!vars)
<1> SUFFICES ASSUME TypeInv, Lifetime, Nodes, AfterJoin, [Next]_vars PROVE [LQ!Next]_(LQ!vars)
  OBVIOUS
<1>1. CASE \E r \in Resource : NewResource(r)
  <2>1. PICK r \in Resource : NewResource(r)
    BY <1>1
  <2>2. LQ!New(r)
    BY <2>1 DEF NewResource, LQ!New, Exists, TypeInv, TypeOK, listVars, loadVars
  <2>3. QED
    BY <2>2 DEF LQ!Next
<1>2. CASE \E r \in Resource : Load(r)
  BY <1>2 DEF Load, Call, LQ!vars, Exists, objVars, listVars, loadVars
<1>3. CASE \E r \in Resource : Unload(r)
  BY <1>3 DEF Unload, Call, LQ!vars, Exists, objVars, listVars, loadVars
<1>4. CASE \E r \in Resource : Rename(r)
  BY <1>4 DEF Rename, Call, LQ!vars, Exists, objVars, listVars, loadVars
<1>5. CASE \E r \in Resource : Release(r)
  BY <1>5 DEF Release, Call, LQ!vars, Exists, objVars, listVars, loadVars
<1>6. CASE Shutdown
  BY <1>6 DEF Shutdown, LQ!vars, Exists, objVars, listVars, loadVars
<1>7. CASE Started
  BY <1>7 DEF Started, LQ!vars, Exists, objVars, listVars, loadVars
<1>8. CASE LoadPending
  BY <1>8 DEF LoadPending, LQ!vars, Exists, objVars, listVars, loadVars
<1>9. CASE AddAssert
  BY <1>9 DEF AddAssert, LQ!vars, Exists, objVars, listVars, loadVars
<1>10. CASE AddLock
  BY <1>10 DEF AddLock, LockList, LQ!vars, Exists, objVars, loadVars
<1>11. CASE AddTail
  <2>1. LQ!Request(cur)
    BY <1>11 DEF AddTail, MainAt, LQ!Request, LQ!Queued, Nodes, Lifetime, IsPending, Exists,
        TypeInv, MainCall, ServerPCs,
       objVars, loadVars
  <2>2. cur \in Resource
    BY <1>11 DEF AddTail, MainAt, TypeInv, MainCall, ServerPCs
  <2>3. QED
    BY <2>1, <2>2 DEF LQ!Next
<1>12. CASE AddSignal
  BY <1>12 DEF AddSignal, LQ!vars, Exists, objVars, loadVars
<1>13. CASE UnloadLock
  BY <1>13 DEF UnloadLock, LockList, LQ!vars, Exists, objVars, loadVars
<1>14. CASE UnloadRem
  <2>1. /\ cur \in Resource /\ life' = life /\ job' = job
        /\ jobList' = IF IsPending(cur) THEN Unlinked(cur) ELSE jobList
    BY <1>14 DEF UnloadRem, RemNode, MainAt, TypeInv, MainCall, ServerPCs, objVars, loadVars
  <2>2. CASE ~IsPending(cur)
    BY <2>1, <2>2 DEF LQ!vars, Exists
  <2>3. CASE IsPending(cur)
    <3>1. PICK i \in DOMAIN jobList : jobList[i] = cur /\ jobList' = RemoveAt(jobList, i)
      BY <2>1, <2>3 DEF IsPending, Unlinked
    <3>2. LQ!Cancel(cur)
      BY <2>1, <3>1 DEF LQ!Cancel, LQ!RemoveAt, RemoveAt, Exists
    <3>3. QED
      BY <2>1, <3>2 DEF LQ!Next
  <2>4. QED
    BY <2>2, <2>3
<1>15. CASE UnloadState
  BY <1>15 DEF UnloadState, LQ!vars, Exists, objVars, listVars, loadVars
<1>16. CASE UnloadResource
  BY <1>16 DEF UnloadResource, LQ!vars, Exists, listVars, loadVars
<1>17. CASE RenameLock
  BY <1>17 DEF RenameLock, LockRes, LQ!vars, Exists, objVars, listVars, loadVars
<1>18. CASE SetFilename
  BY <1>18 DEF SetFilename, LQ!vars, Exists, objVars, listVars, loadVars
<1>19. CASE ReleaseLock
  BY <1>19 DEF ReleaseLock, LockRes, LQ!vars, Exists, objVars, listVars, loadVars
<1>20. CASE DtorMesh
  <2>1. /\ cur \in Resource /\ Exists(cur)
        /\ life' = [life EXCEPT ![cur] = "dying"] /\ jobList' = jobList /\ job' = job
    BY <1>20 DEF DtorMesh, MainAt, Lifetime, TypeInv, MainCall, ServerPCs, listVars, loadVars
  <2>2. {r \in Resource : Exists(r)}' = {r \in Resource : Exists(r)}
    BY <2>1 DEF Exists, TypeInv, TypeOK
  <2>3. QED
    BY <2>1, <2>2 DEF LQ!vars
<1>21. CASE DtorAssert
  BY <1>21 DEF DtorAssert, LQ!vars, Exists, objVars, listVars, loadVars
<1>22. CASE DtorLock
  BY <1>22 DEF DtorLock, LockList, LQ!vars, Exists, objVars, loadVars
<1>23. CASE DtorRem
  <2>1. /\ cur \in Resource /\ life' = life /\ job' = job
        /\ jobList' = IF IsPending(cur) THEN Unlinked(cur) ELSE jobList
    BY <1>23 DEF DtorRem, RemNode, MainAt, TypeInv, MainCall, ServerPCs, objVars, loadVars
  <2>2. CASE ~IsPending(cur)
    BY <2>1, <2>2 DEF LQ!vars, Exists
  <2>3. CASE IsPending(cur)
    <3>1. PICK i \in DOMAIN jobList : jobList[i] = cur /\ jobList' = RemoveAt(jobList, i)
      BY <2>1, <2>3 DEF IsPending, Unlinked
    <3>2. LQ!Cancel(cur)
      BY <2>1, <3>1 DEF LQ!Cancel, LQ!RemoveAt, RemoveAt, Exists
    <3>3. QED
      BY <2>1, <3>2 DEF LQ!Next
  <2>4. QED
    BY <2>2, <2>3
<1>24. CASE DtorFree
  <2>1. /\ cur \in Resource /\ Exists(cur) /\ ~IsPending(cur) /\ cur # job
    BY <1>24 DEF DtorFree, MainAt, Nodes, Lifetime, TypeInv, MainCall, ServerPCs
  <2>2. life' = [life EXCEPT ![cur] = "none"] /\ jobList' = jobList /\ job' = job
    BY <1>24 DEF DtorFree, listVars, loadVars
  <2>3. {r \in Resource : Exists(r)}' = {r \in Resource : Exists(r)} \ {cur}
    BY <2>1, <2>2 DEF Exists, TypeInv, TypeOK
  <2>4. LQ!Delete(cur)
    BY <2>1, <2>2, <2>3 DEF LQ!Delete, LQ!Queued, IsPending
  <2>5. QED
    BY <2>1, <2>4 DEF LQ!Next
<1>25. CASE Wakeup
  BY <1>25 DEF Wakeup, LQ!vars, Exists, objVars, loadVars
<1>26. CASE LetDie
  BY <1>26 DEF LetDie, LQ!vars, Exists, objVars, listVars, loadVars
<1>27. CASE Join
  BY <1>27 DEF Join, LQ!vars, Exists, objVars, listVars, loadVars
<1>28. CASE ClearLock
  BY <1>28 DEF ClearLock, LockList, LQ!vars, Exists, objVars, loadVars
<1>29. CASE ClearJobs
  <2>1. jobList' = <<>> /\ life' = life /\ job' = job
    BY <1>29 DEF ClearJobs, objVars, loadVars
  <2>2. job = NoRes
    BY <1>29 DEF ClearJobs, MainAt, AfterJoin, Joined, TypeInv, TypeOK, JobTaken, Loading
  <2>3. LQ!Close
    BY <2>1, <2>2 DEF LQ!Close, Exists
  <2>4. QED
    BY <2>3 DEF LQ!Next
<1>30. CASE \E r \in Resource : UnloadNext(r)
  BY <1>30 DEF UnloadNext, LQ!vars, Exists, objVars, listVars, loadVars
<1>31. CASE UnloadDone
  BY <1>31 DEF UnloadDone, LQ!vars, Exists, objVars, listVars, loadVars
<1>32. CASE ThreadStarted
  BY <1>32 DEF ThreadStarted, LoaderTo, LQ!vars, Exists, objVars, listVars
<1>33. CASE WaitJobs
  BY <1>33 DEF WaitJobs, LoaderTo, LQ!vars, Exists, objVars
<1>34. CASE CheckStop
  BY <1>34 DEF CheckStop, LoaderTo, LQ!vars, Exists, objVars, listVars
<1>35. CASE ReadHead
  BY <1>35 DEF ReadHead, LQ!vars, Exists, objVars, listVars
<1>36. CASE ReadSucc
  BY <1>36 DEF ReadSucc, LQ!vars, Exists, objVars, listVars
<1>37. CASE LockJobs
  BY <1>37 DEF LockJobs, LoaderTo, LQ!vars, Exists, objVars
<1>38. CASE PopJob
  <2>1. CASE jobList = <<>>
    BY <1>38, <2>1 DEF PopJob, LQ!vars, Exists, objVars, loadVars
  <2>2. CASE jobList # <<>>
    <3>1. job = NoRes
      BY <1>38 DEF PopJob, LoaderAt, TypeInv, TypeOK, JobTaken, Loading
    <3>2. LQ!Begin
      BY <1>38, <2>2, <3>1 DEF PopJob, LQ!Begin, Exists, objVars
    <3>3. QED
      BY <3>2 DEF LQ!Next
  <2>3. QED
    BY <2>1, <2>2
<1>39. CASE LockJob
  BY <1>39 DEF LockJob, LoaderTo, LQ!vars, Exists, objVars, listVars
<1>40. CASE UnlockJobs
  BY <1>40 DEF UnlockJobs, LoaderTo, LQ!vars, Exists, objVars
<1>41. CASE BeginLoad
  BY <1>41 DEF BeginLoad, LoaderTo, LQ!vars, Exists, objVars, listVars, loadVars
<1>42. CASE Fill
  BY <1>42 DEF Fill, LoaderTo, LQ!vars, Exists, listVars
<1>43. CASE Publish
  BY <1>43 DEF Publish, LoaderTo, LQ!vars, Exists, listVars
<1>44. CASE Declare
  BY <1>44 DEF Declare, LoaderTo, LQ!vars, Exists, listVars, loadVars
<1>45. CASE EndLoad
  <2>1. LQ!Finish
    BY <1>45, AsyncLoaderAssumption
       DEF EndLoad, LoaderAt, LQ!Finish, Exists, TypeInv, TypeOK, JobTaken, Loading, objVars,
           listVars
  <2>2. QED
    BY <2>1 DEF LQ!Next
<1>46. CASE UntilStop
  BY <1>46 DEF UntilStop, LoaderTo, LQ!vars, Exists, objVars, listVars
<1>47. CASE ThreadHarakiri
  BY <1>47 DEF ThreadHarakiri, LoaderTo, LQ!vars, Exists, objVars, listVars
<1>48. CASE UNCHANGED vars
  BY <1>48 DEF vars, LQ!vars, Exists, objVars, listVars, loadVars
<1>49. QED
  BY <1>1, <1>2, <1>3, <1>4, <1>5, <1>6, <1>7, <1>8, <1>9, <1>10, <1>11, <1>12, <1>13, <1>14,
      <1>15, <1>16, <1>17, <1>18, <1>19, <1>20, <1>21, <1>22, <1>23, <1>24, <1>25, <1>26, <1>27,
      <1>28, <1>29, <1>30, <1>31, <1>32, <1>33, <1>34, <1>35, <1>36, <1>37, <1>38, <1>39, <1>40,
      <1>41, <1>42, <1>43, <1>44, <1>45, <1>46, <1>47, <1>48
     DEF Next, Application, Main, Loader, Stopped

-----------------------------------------------------------------------------
(* The theorems.                                                           *)

(* What holds with every kind of event and of join.                        *)
IInv == TypeInv /\ LockInv /\ Lifetime /\ Nodes /\ DtorUnloaded

(* The layers that hold in every instance.                                 *)
LEMMA Invariance == Spec => []IInv
<1>1. Init => IInv
  BY TypeInit, LockInit, LifetimeInit, NodesInit, DtorInit DEF IInv
<1>2. IInv /\ [Next]_vars => IInv'
  BY TypeStep, LockStep, LifetimeStep, NodesStep, DtorStep DEF IInv
<1>3. QED
  BY <1>1, <1>2, PTL DEF Spec

(* Every variable keeps its type.                                          *)
THEOREM TypeCorrect == Spec => []TypeOK
<1>1. IInv => TypeOK
  BY DEF IInv, TypeInv
<1>2. QED
  BY <1>1, Invariance, PTL

(* While LoadResource runs on a resource, that resource exists and its     *)
(* destructor has not begun: nRoot::Release needs the mutex that the       *)
(* loader thread holds, whatever the kind of the events and of the join.   *)
THEOREM LoadedAreAlive == Spec => []LoadedIsAlive
<1>1. IInv => LoadedIsAlive
  <2> SUFFICES ASSUME IInv, pcL \in Loading PROVE life[job] = "live"
    BY DEF LoadedIsAlive
  <2>1. job \in Resource /\ resLock[job] = "loader"
    BY DEF IInv, TypeInv, JobTaken, LockInv, ResOwner
  <2>2. Exists(job)
    BY <2>1 DEF IInv, Nodes
  <2>3. ~(cur = job /\ MainHolds)
    BY <2>1 DEF IInv, LockInv, ResOwner
  <2>4. life[job] # "dying"
    BY <2>1, <2>3 DEF IInv, Lifetime, MainHolds, UnloadPCs, DtorPCs
  <2>5. QED
    BY <2>1, <2>2, <2>4 DEF IInv, TypeInv, TypeOK, Exists
<1>2. QED
  BY <1>1, Invariance, PTL

(* A job node in the list belongs to an object that has not been freed:    *)
(* RemLoaderJob in ~nResource and the destructor's lock see to that.       *)
THEOREM PendingExist == Spec => []PendingExists
<1>1. IInv => PendingExists
  BY DEF IInv, Nodes, PendingExists
<1>2. QED
  BY <1>1, Invariance, PTL

(* The assertion of ~nResource that it is not loaded never fails, because  *)
(* from nRoot::Release on no load of the object can begin to finish.       *)
THEOREM DtorAssertionHolds == Spec => []DtorFindsUnloaded
<1>1. IInv => DtorFindsUnloaded
  BY DEF IInv, DtorUnloaded, DtorFindsUnloaded
<1>2. QED
  BY <1>1, Invariance, PTL

(* SetFilename and LoadResource exclude each other on one resource.        *)
THEOREM RenameExclusion == Spec => []RenameExcludesLoad
<1>1. IInv => RenameExcludesLoad
  BY DEF IInv, TypeInv, MainCall, RenamePCs, ServerPCs, LockInv, ResOwner, MainHolds,
      RenameExcludesLoad
<1>2. QED
  BY <1>1, Invariance, PTL

(* With a counting semaphore for the job list's event, no wakeup is lost:  *)
(* the loader never sleeps on a list with a job that nobody will signal.   *)
THEOREM WakeupCorrect == CountingEvent => (Spec => []NoLostWakeup)
<1> SUFFICES ASSUME CountingEvent PROVE Spec => []NoLostWakeup
  OBVIOUS
<1>1. Init => WakeupInv
  BY WakeupInit
<1>2. IInv /\ WakeupInv /\ [Next]_vars => WakeupInv'
  BY WakeupStep DEF IInv
<1>3. IInv /\ WakeupInv => NoLostWakeup
  <2> SUFFICES ASSUME IInv, WakeupInv, pcL = "wait", jobList # <<>>
               PROVE  listEvent > 0 \/ pcM = "addSignal"
    BY DEF NoLostWakeup
  <2>1. jobList \in Seq(Resource) /\ listEvent \in Nat
    BY DEF IInv, TypeInv, TypeOK
  <2>2. Len(jobList) \in Nat /\ Len(jobList) > 0
    BY <2>1
  <2>3. ~Coming
    BY DEF Coming
  <2>4. Len(jobList) <= Signalled
    BY <2>1, <2>2, <2>3 DEF WakeupInv, Signalled
  <2>5. QED
    BY <2>1, <2>2, <2>4 DEF Signalled
<1>4. QED
  BY <1>1, <1>2, <1>3, Invariance, PTL DEF Spec

(* The layer that needs a join that does not time out.                     *)
LEMMA JoinInvariance == ~JoinTimeout => (Spec => []AfterJoin)
<1> SUFFICES ASSUME ~JoinTimeout PROVE Spec => []AfterJoin
  OBVIOUS
<1>1. Init => AfterJoin
  BY AfterJoinInit
<1>2. IInv /\ AfterJoin /\ [Next]_vars => AfterJoin'
  BY AfterJoinStep DEF IInv
<1>3. QED
  BY <1>1, <1>2, Invariance, PTL DEF Spec

(* When the join waits until the thread has ended, ~nResourceServer leaves *)
(* no thread, no job and no loaded resource behind.                        *)
THEOREM ShutdownCorrect == ~JoinTimeout => (Spec => []CleanShutdown)
<1> SUFFICES ASSUME ~JoinTimeout PROVE Spec => []CleanShutdown
  OBVIOUS
<1>1. AfterJoin => CleanShutdown
  BY DEF AfterJoin, Joined, Cleared, UnloadPCs, CleanShutdown
<1>2. Spec => []AfterJoin
  BY JoinInvariance
<1>3. QED
  BY <1>1, <1>2, PTL

(* With such a join the two threads, the list and the locks together are   *)
(* the request queue: served in order, one at a time, never deleted under  *)
(* the client.                                                             *)
THEOREM QueueRefinement == ~JoinTimeout => (Spec => ImplementsQueue)
<1> SUFFICES ASSUME ~JoinTimeout PROVE Spec => LQ!Spec
  BY DEF ImplementsQueue
<1>1. IInv /\ AfterJoin /\ [Next]_vars => [LQ!Next]_(LQ!vars)
  BY QueueStep DEF IInv
<1>2. Spec => []AfterJoin
  BY JoinInvariance
<1>3. QED
  BY <1>1, <1>2, QueueInit, Invariance, PTL DEF Spec, LQ!Spec

=============================================================================
