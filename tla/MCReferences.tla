---------------------------- MODULE MCReferences ----------------------------
(***************************************************************************)
(* Instances of References for TLC.                                        *)
(***************************************************************************)
EXTENDS References, TLC

Symmetry == Permutations(Actors) \cup Permutations(Assets) \cup Permutations(Runs)
=============================================================================
