----------------------------- MODULE LoadQueue -----------------------------
(***************************************************************************)
(* What the asynchronous resource loader promises its client, without the  *)
(* threads, locks, events and list nodes it is built from: requests are    *)
(* served one at a time, in the order they were made, each at most once; a *)
(* request can be cancelled until its service begins; and an object that   *)
(* is queued or being served is never deleted.                             *)
(***************************************************************************)
EXTENDS Naturals, Sequences, SequencesExt

CONSTANTS Resource, NoRes

VARIABLES live,    \* the resource objects that exist
          queue,   \* the requests not yet served, oldest first
          busy     \* the resource being loaded, or NoRes

vars == <<live, queue, busy>>

Queued(r) == \E i \in DOMAIN queue : queue[i] = r

Init == live = {} /\ queue = <<>> /\ busy = NoRes

New(r) ==
    /\ r \notin live
    /\ live' = live \cup {r}
    /\ UNCHANGED <<queue, busy>>

Request(r) ==
    /\ r \in live
    /\ ~Queued(r)
    /\ queue' = Append(queue, r)
    /\ UNCHANGED <<live, busy>>

Cancel(r) ==
    /\ \E i \in DOMAIN queue : queue[i] = r /\ queue' = RemoveAt(queue, i)
    /\ UNCHANGED <<live, busy>>

Begin ==
    /\ busy = NoRes
    /\ queue # <<>>
    /\ busy' = Head(queue)
    /\ queue' = Tail(queue)
    /\ UNCHANGED live

Finish ==
    /\ busy # NoRes
    /\ busy' = NoRes
    /\ UNCHANGED <<live, queue>>

Delete(r) ==
    /\ r \in live
    /\ ~Queued(r)
    /\ r # busy
    /\ live' = live \ {r}
    /\ UNCHANGED <<queue, busy>>

(* The server goes away: what has not been started never will be. *)
Close ==
    /\ busy = NoRes
    /\ queue' = <<>>
    /\ UNCHANGED <<live, busy>>

Next ==
    \/ \E r \in Resource : New(r) \/ Request(r) \/ Cancel(r) \/ Delete(r)
    \/ Begin \/ Finish \/ Close

Spec == Init /\ [][Next]_vars
=============================================================================
