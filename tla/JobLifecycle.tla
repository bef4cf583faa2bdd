---------------------------- MODULE JobLifecycle ----------------------------
(***************************************************************************)
(* What the durable generation queue promises about one row of             *)
(* generation_queue, whatever the worker processes, ComfyUI and crashes do *)
(* (queue_models.py, the state machine of QueueJob):                       *)
(*                                                                         *)
(*     pending -> claimed -> succeeded                                     *)
(*            |           -> failed                                        *)
(*            -> cancelled                                                 *)
(*                                                                         *)
(* A job becomes succeeded in the very transaction that inserts its Take,  *)
(* and a job that ended never changes again.  QueueWorker.tla is the       *)
(* detailed specification that implements this one.                        *)
(***************************************************************************)

CONSTANTS Jobs      \* the rows of generation_queue

VARIABLES
    state,          \* [Jobs -> States]; "absent" before the enqueue
    delivered       \* the jobs whose Take row exists

vars == <<state, delivered>>

States == {"absent", "pending", "claimed", "succeeded", "failed", "cancelled"}

Init == /\ state = [j \in Jobs |-> "absent"]
        /\ delivered = {}

Enqueue(j) == /\ state[j] = "absent"
              /\ state' = [state EXCEPT ![j] = "pending"]
              /\ UNCHANGED delivered

Claim(j) == /\ state[j] = "pending"
            /\ state' = [state EXCEPT ![j] = "claimed"]
            /\ UNCHANGED delivered

Succeed(j) == /\ state[j] = "claimed"
              /\ state' = [state EXCEPT ![j] = "succeeded"]
              /\ delivered' = delivered \cup {j}

Fail(j) == /\ state[j] = "claimed"
           /\ state' = [state EXCEPT ![j] = "failed"]
           /\ UNCHANGED delivered

Cancel(j) == /\ state[j] = "pending"
             /\ state' = [state EXCEPT ![j] = "cancelled"]
             /\ UNCHANGED delivered

Next == \E j \in Jobs : Enqueue(j) \/ Claim(j) \/ Succeed(j) \/ Fail(j) \/ Cancel(j)

Spec == Init /\ [][Next]_vars
=============================================================================
