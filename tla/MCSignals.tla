----------------------------- MODULE MCSignals -----------------------------
(***************************************************************************)
(* An instance of Signals for TLC: two objects and three bindings of the   *)
(* first one's signal, two of them with the same priority.                 *)
(***************************************************************************)
EXTENDS Signals, TLC

CONSTANTS o1, o2, b1, b2, b3

FromFirst   == [b \in Binding |-> o1]
ToEither    == (b1 :> o2) @@ (b2 :> o1) @@ (b3 :> o2)
Priorities  == (b1 :> 1) @@ (b2 :> 2) @@ (b3 :> 2)
=============================================================================
