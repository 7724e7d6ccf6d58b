-------------------------- MODULE MCMessageServer --------------------------
(***************************************************************************)
(* An instance of MessageServer for TLC: a manager and an entity.          *)
(***************************************************************************)
EXTENDS MessageServer, TLC

CONSTANTS p1, p2, p3, d1

(* An entity's dispatcher and a manager are registered with the server,    *)
(* two properties are attached to the entity.  The manager accepts no      *)
(* message, as a Game::Manager does by default.                            *)
ManagerAndEntity == (Server :> {d1, p1}) @@ (d1 :> {p2, p3})

(* The properties are interchangeable.                                     *)
Symmetry == Permutations({p2, p3})
=============================================================================
