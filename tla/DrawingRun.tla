----------------------------- MODULE DrawingRun ------------------------------
(***************************************************************************)
(* What drawing reference images promises: an execution is opened for one  *)
(* character, sent, and ends once, in success or in failure; it succeeds   *)
(* in the very step that keeps its image, or with an image the character   *)
(* has already; and an image that is kept stays, of the same subject and   *)
(* with the same content.  References.tla is the detailed specification    *)
(* that implements this one.                                               *)
(***************************************************************************)
CONSTANTS Characters, Subjects, Images, Assets, Runs, None

VARIABLES
    run,        \* [Runs -> the state of an execution, its character and its result]
    image       \* [Assets -> the subject and the content of an image]

vars == <<run, image>>

Init == /\ run = [r \in Runs |-> [st |-> "absent", of |-> None, out |-> None]]
        /\ image = [i \in Assets |-> [of |-> None, image |-> None]]

Becomes(r, from, st, of, out) ==
    /\ run[r].st \in from
    /\ run' = [run EXCEPT ![r] = [st |-> st, of |-> of, out |-> out]]

\* A free place gets an image of a subject of S.
Kept(i, S) ==
    /\ image[i].of = None
    /\ image'[i] \in [of : S, image : Images]
    /\ image' = [image EXCEPT ![i] = image'[i]]

Open(r, c) == Becomes(r, {"absent"}, "pending", c, None) /\ UNCHANGED image
Send(r)    == Becomes(r, {"pending"}, "running", run[r].of, None) /\ UNCHANGED image
Fail(r)    == Becomes(r, {"pending", "running"}, "failed", run[r].of, None) /\ UNCHANGED image

Draw(r, i) ==
    /\ Kept(i, {run[r].of})
    /\ Becomes(r, {"running"}, "succeeded", run[r].of, i)

Reuse(r, i) ==
    /\ image[i].of = run[r].of
    /\ Becomes(r, {"running"}, "succeeded", run[r].of, i)
    /\ UNCHANGED image

\* An upload, or an image of the environment.
Keep(i) == Kept(i, Subjects) /\ UNCHANGED run

Next ==
    \/ \E r \in Runs :
          \/ Send(r) \/ Fail(r)
          \/ \E c \in Characters : Open(r, c)
          \/ \E i \in Assets : Draw(r, i) \/ Reuse(r, i)
    \/ \E i \in Assets : Keep(i)

Spec == Init /\ [][Next]_vars
=============================================================================
