---------------------------- MODULE MCContinuity ----------------------------
(***************************************************************************)
(* Instances of Continuity for TLC: a scene of three shots, two takes of   *)
(* the first and one of the second, in one or two arrangements.            *)
(***************************************************************************)
EXTENDS Continuity, TLC

CONSTANTS s1, s2, s3, t1, t2, t3

OfTakes    == [t \in Takes |-> IF t = t3 THEN s2 ELSE s1]
Fixed      == {<<s1, s2, s3>>}
Arranged   == {<<s1, s2, s3>>, <<s2, s1>>}
Symmetry   == Permutations(Actors)
=============================================================================
