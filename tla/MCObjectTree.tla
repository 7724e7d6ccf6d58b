---------------------------- MODULE MCObjectTree ----------------------------
(***************************************************************************)
(* An instance of ObjectTree for TLC.                                      *)
(***************************************************************************)
EXTENDS ObjectTree

(* The objects but the root are interchangeable.                           *)
Symmetry == Permutations(Object \ {Root})
=============================================================================
