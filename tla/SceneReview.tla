----------------------------- MODULE SceneReview -----------------------------
(***************************************************************************)
(* What reviewing the takes of a scene promises: a take is added, and then *)
(* approved, rejected or exchanged for the approved one of its shot; an    *)
(* exchange outdates, in that instant, the continuity of every later shot, *)
(* and nothing else does; a shot is provided only with a take that was     *)
(* approved.  Continuity.tla is the detailed specification that implements *)
(* this one.                                                               *)
(***************************************************************************)
EXTENDS Naturals, Sequences

CONSTANTS Shots, Takes, Of, None

VARIABLES
    order,      \* the arrangement of the scene
    take,       \* [Takes -> a status]
    chain       \* [Shots -> the state of its continuity, and the take it names]

vars == <<order, take, chain>>

Init == /\ order \in Seq(Shots)
        /\ take = [t \in Takes |-> "absent"]
        /\ chain = [s \in Shots |-> [state |-> "none", take |-> None]]

Later(s) == {x \in Shots : \E i, j \in 1..Len(order) : i < j /\ order[i] = s /\ order[j] = x}

Arrange == order' \in Seq(Shots) /\ UNCHANGED <<take, chain>>

Move(t, from, to) == take[t] = from /\ take' = [take EXCEPT ![t] = to] /\ UNCHANGED <<order, chain>>

Add(t)     == Move(t, "absent", "succeeded")
Reject(t)  == Move(t, "succeeded", "rejected")
Approve(t) == /\ \A u \in Takes : Of[u] = Of[t] => take[u] # "approved"
              /\ Move(t, "succeeded", "approved")

Replace(t, u) ==
    /\ Of[t] = Of[u] /\ take[t] = "succeeded" /\ take[u] = "approved"
    /\ take' = [take EXCEPT ![t] = "approved", ![u] = "superseded"]
    /\ chain' = [s \in Shots |-> IF s \in Later(Of[t]) /\ chain[s].state # "none"
                                 THEN [chain[s] EXCEPT !.state = "outdated"] ELSE chain[s]]
    /\ UNCHANGED order

Provide(s, t) ==
    /\ take[t] \in {"approved", "superseded"}
    /\ chain' = [chain EXCEPT ![s] = [state |-> "current", take |-> t]]
    /\ UNCHANGED <<order, take>>

Next ==
    \/ Arrange
    \/ \E t \in Takes :
          \/ Add(t) \/ Reject(t) \/ Approve(t)
          \/ \E u \in Takes : Replace(t, u)
          \/ \E s \in Shots : Provide(s, t)

Spec == Init /\ [][Next]_vars
=============================================================================
