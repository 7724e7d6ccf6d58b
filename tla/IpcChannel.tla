----------------------------- MODULE IpcChannel -----------------------------
(***************************************************************************)
(* What the message layer above the ipc classes builds on, and Session in  *)
(* particular takes for granted: what a client sends on one connection     *)
(* reaches the server's GetMsg whole, in the order of sending, and once.   *)
(* As long as the channels are reliable nothing is lost either; after a    *)
(* fault, and once the server shuts down, messages may be lost, and still  *)
(* none overtakes another or comes twice.                                  *)
(*                                                                         *)
(* Messages are numbered by connection.                                    *)
(***************************************************************************)
EXTENDS Naturals, Sequences

CONSTANTS Conns, MaxMsgs

VARIABLES
    chan,       \* what is under way on each connection
    got,        \* what GetMsg has returned of each connection
    reliable    \* no fault so far, and the server is not shutting down

vars == <<chan, got, reliable>>

Init ==
    /\ chan = [k \in Conns |-> <<>>]
    /\ got = [k \in Conns |-> <<>>]
    /\ reliable = TRUE

\* Message n is newer than all messages of the connection before it.
Send(k, n) ==
    /\ \A i \in 1..Len(chan[k]) : chan[k][i] < n
    /\ \A i \in 1..Len(got[k]) : got[k][i] < n
    /\ reliable => n = Len(chan[k]) + Len(got[k]) + 1
    /\ chan' = [chan EXCEPT ![k] = Append(@, n)]
    /\ UNCHANGED <<got, reliable>>

Get(k) ==
    /\ chan[k] # <<>>
    /\ got' = [got EXCEPT ![k] = Append(@, Head(chan[k]))]
    /\ chan' = [chan EXCEPT ![k] = Tail(@)]
    /\ UNCHANGED reliable

\* The members of s are those of t, in the same order, with some left out.
Thinned(s, t) ==
    \E f \in [1..Len(s) -> 1..Len(t)] :
        /\ \A i, j \in 1..Len(s) : i < j => f[i] < f[j]
        /\ \A i \in 1..Len(s) : s[i] = t[f[i]]

\* A fault, the beginning of the shutdown, or a loss that either brings about:
\* messages under way disappear.
Lose ==
    /\ ~reliable'
    /\ chan' \in [Conns -> Seq(Nat)]
    /\ \A k \in Conns : Thinned(chan'[k], chan[k])
    /\ UNCHANGED got

Next == Lose \/ \E k \in Conns : Get(k) \/ \E n \in 1..MaxMsgs[k] : Send(k, n)

Spec == Init /\ [][Next]_vars
=============================================================================
