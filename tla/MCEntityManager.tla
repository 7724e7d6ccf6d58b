-------------------------- MODULE MCEntityManager --------------------------
(***************************************************************************)
(* An instance of EntityManager for TLC.                                   *)
(***************************************************************************)
EXTENDS EntityManager

(* The entity objects are interchangeable.                                 *)
Symmetry == Permutations(Entity)
=============================================================================
