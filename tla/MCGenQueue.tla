---------------------------- MODULE MCGenQueue ----------------------------
(***************************************************************************)
(* Instances of GenQueue for TLC: one shot, or two shots and their scene.  *)
(***************************************************************************)
EXTENDS GenQueue, TLC

OneShot   == [sc \in Scopes |-> Shots]
SceneToo  == [sc \in Scopes |-> IF sc \in Shots THEN {sc} ELSE Shots]
Symmetry  == Permutations(Clients) \cup Permutations(Keys) \cup Permutations(Seeds)
=============================================================================
