----------------------------- MODULE Continuity -----------------------------
(***************************************************************************)
(* The review of takes and the continuity chain of one scene.  A shot is   *)
(* generated from the last frame of the approved take of the shot before   *)
(* it; its continuity state records which take that was.  Replacing an     *)
(* approved take marks the states of all later shots outdated; a rebuild   *)
(* makes an outdated state current again.                                  *)
(*                                                                         *)
(* Generations (in worker threads) and review requests run side by side.   *)
(* A connection of Python's sqlite3 begins its transaction at the first    *)
(* write: every read before it is a step of its own here, and only the     *)
(* writes, with their WHERE clauses and the unique index, are one step.    *)
(***************************************************************************)
EXTENDS Naturals, Sequences

CONSTANTS
    Shots,      \* shots of the scene
    Takes,      \* rows that may be inserted in takes
    Of,         \* [Takes -> Shots]: takes.shot_id
    Orders,     \* sequences of shots the scene may be arranged in
    Actors,     \* worker threads and requests in progress
    None

ASSUME OfAssumption     == Of \in [Takes -> Shots]
ASSUME OrdersAssumption == Orders \subseteq Seq(Shots)
ASSUME NoneAssumption   == None \notin Takes \cup Shots

VARIABLES
    order,      \* the current shots of the scene in canonical order
    take,       \* takes: status
    cs,         \* continuity_states, by shot_id
    op,         \* the operation of each actor
    raced       \* shots whose chain moved under an operation (history)

vars == <<order, take, cs, op, raced>>

-----------------------------------------------------------------------------

TakeStatus == {"absent", "succeeded", "approved", "rejected", "superseded"}

State   == [state : {"none", "current", "outdated"}, take : Takes \cup {None}, rev : Nat]
NoState == [state |-> "none", take |-> None, rev |-> 0]

\* Where an operation holds an upstream take it has read.
Holding == {"state", "check", "save", "pred", "own", "create", "cas"}
Pcs     == Holding \cup {"idle", "gentake", "rebtake", "deliver", "approve", "reject", "replace"}

Op   == [pc : Pcs, shot : Shots \cup {None}, pred : Shots \cup {None},
         take : Takes \cup {None}, old : Takes \cup {None}, rev : Nat]

Making(pc, s, p)    == [pc |-> pc, shot |-> s, pred |-> p, take |-> None, old |-> None, rev |-> 0]
Reviewing(pc, t, u) == [pc |-> pc, shot |-> None, pred |-> None, take |-> t, old |-> u, rev |-> 0]
Idle                == Making("idle", None, None)

TypeOK ==
    /\ order \in Orders
    /\ take \in [Takes -> TakeStatus]
    /\ cs \in [Shots -> State]
    /\ op \in [Actors -> Op]
    /\ raced \subseteq Shots

Init ==
    /\ order \in Orders
    /\ take = [t \in Takes |-> "absent"]
    /\ cs = [s \in Shots |-> NoState]
    /\ op = [a \in Actors |-> Idle]
    /\ raced = {}

-----------------------------------------------------------------------------
(* The chain *)

\* The shot just before s, if any.
Before(s, o) == {p \in Shots : \E i \in 1..(Len(o) - 1) : o[i] = p /\ o[i + 1] = s}

\* Mutant: the slice starts one position late.
After_Late(s) == {x \in Shots : \E i, j \in 1..Len(order) :
                      i + 1 < j /\ order[i] = s /\ order[j] = x}

\* All the shots after s.
After(s) == {x \in Shots : \E i, j \in 1..Len(order) : i < j /\ order[i] = s /\ order[j] = x}

Approved(s) == {t \in Takes : Of[t] = s /\ take[t] = "approved"}

\* Shots are created, deleted, reordered and marked outdated: no handler of
\* these looks at the continuity states.
Rearrange ==
    /\ order' \in Orders \ {order}
    /\ raced' = raced \cup {s \in Shots : Before(s, order') # Before(s, order)}
    /\ UNCHANGED <<take, cs, op>>

-----------------------------------------------------------------------------
(* Generation and rebuild: the reads they share *)

At(a, pc) == op[a].pc = pc

Goto(a, pc) == op' = [op EXCEPT ![a].pc = pc]
Finish(a)   == op' = [op EXCEPT ![a] = Idle]

\* generate_take of a shot, its predecessor read.  A shot that is the first of
\* the scene, or is no longer in it, needs no continuity input.
Generate(a) ==
    /\ At(a, "idle")
    /\ \E s \in Shots :
          \/ /\ Before(s, order) = {}
             /\ op' = [op EXCEPT ![a] = Making("deliver", s, None)]
          \/ \E p \in Before(s, order) :
                op' = [op EXCEPT ![a] = Making("gentake", s, p)]
    /\ UNCHANGED <<order, take, cs, raced>>

\* rebuild_for_shot, up to the same read.
Rebuild(a) ==
    /\ At(a, "idle")
    /\ \E s \in Shots : \E p \in Before(s, order) :
          op' = [op EXCEPT ![a] = Making("rebtake", s, p)]
    /\ UNCHANGED <<order, take, cs, raced>>

\* The approved take of the predecessor, its last frame validated; without one
\* the operation fails (GiveUp).
ReadTake(a) ==
    /\ op[a].pc \in {"gentake", "rebtake"}
    /\ \E t \in Approved(op[a].pred) :
          op' = [op EXCEPT ![a].take = t,
                           ![a].pc = IF At(a, "gentake") THEN "state" ELSE "pred"]
    /\ UNCHANGED <<order, take, cs, raced>>

\* Any step may end in an error answer, a database error or a crash; what was
\* committed before it stays.
GiveUp(a) ==
    /\ ~At(a, "idle")
    /\ Finish(a)
    /\ UNCHANGED <<order, take, cs, raced>>

Conflicts(s, t) == cs[s].state = "current" /\ cs[s].take # t

(* Generation *)

\* resolve_for_generation refuses an outdated state, and a current one that
\* names another take.
ReadState(a) ==
    LET s == op[a].shot IN
    /\ At(a, "state")
    /\ cs[s].state # "outdated"
    /\ ~Conflicts(s, op[a].take)
    /\ op' = [op EXCEPT ![a].pc = "check", ![a].rev = cs[s].rev]
    /\ UNCHANGED <<order, take, cs, raced>>

\* persist_state, the SELECT of cas_persist_if_not_outdated: nothing to write
\* over an outdated state, nor over the same provenance.
CheckState(a) ==
    LET s == op[a].shot IN
    /\ At(a, "check")
    /\ Goto(a, IF cs[s].state = "none" \/ Conflicts(s, op[a].take) THEN "save" ELSE "deliver")
    /\ UNCHANGED <<order, take, cs, raced>>

\* save is an upsert without a condition of its own.
Save(s, t, r) == cs' = [cs EXCEPT ![s] = [state |-> "current", take |-> t, rev |-> r]]

SaveState(a) ==
    /\ At(a, "save")
    /\ Save(op[a].shot, op[a].take, op[a].rev)
    /\ Goto(a, "deliver")
    /\ UNCHANGED <<order, take, raced>>

\* The generation ends with a new take of the shot.
Deliver(a) ==
    /\ At(a, "deliver")
    /\ \E t \in Takes : /\ Of[t] = op[a].shot /\ take[t] = "absent"
                        /\ take' = [take EXCEPT ![t] = "succeeded"]
    /\ Finish(a)
    /\ UNCHANGED <<order, cs, raced>>

(* Rebuild *)

\* The predecessor's own state must not be outdated.
ReadPredState(a) ==
    /\ At(a, "pred")
    /\ cs[op[a].pred].state # "outdated"
    /\ Goto(a, "own")
    /\ UNCHANGED <<order, take, cs, raced>>

\* A state that is current already is an answer or a conflict.
ReadOwnState(a) ==
    LET s == op[a].shot IN
    /\ At(a, "own")
    /\ IF cs[s].state = "current" THEN Finish(a)
       ELSE op' = [op EXCEPT ![a].pc = IF cs[s].state = "outdated" THEN "cas" ELSE "create",
                             ![a].rev = cs[s].rev]
    /\ UNCHANGED <<order, take, cs, raced>>

CreateState(a) ==
    /\ At(a, "create")
    /\ Save(op[a].shot, op[a].take, 1)
    /\ Finish(a)
    /\ UNCHANGED <<order, take, raced>>

\* The WHERE clause of cas_rebuild_to_current.
Rebuildable(s, r) == cs[s].state = "outdated" /\ cs[s].rev = r

CasState(a) ==
    LET s == op[a].shot IN
    /\ At(a, "cas")
    /\ IF Rebuildable(s, op[a].rev) THEN Save(s, op[a].take, op[a].rev + 1) ELSE UNCHANGED cs
    /\ Finish(a)
    /\ UNCHANGED <<order, take, raced>>

-----------------------------------------------------------------------------
(* Review *)

\* Mutant: the update does not look at the status it replaces.
Reviewable_Any(t) == TRUE

\* The compare-and-set of approve and reject.
Reviewable(t) == take[t] = "succeeded"

\* Mutant: no unique index.
IndexFree_Dropped(s, except) == TRUE

\* idx_takes_one_approved_per_shot.
IndexFree(s, except) == Approved(s) \subseteq except

Approve(a) ==
    /\ At(a, "idle")
    /\ \E t \in Takes : /\ take[t] = "succeeded" /\ Approved(Of[t]) = {}
                        /\ op' = [op EXCEPT ![a] = Reviewing("approve", t, None)]
    /\ UNCHANGED <<order, take, cs, raced>>

ApproveWrite(a) ==
    LET t == op[a].take IN
    /\ At(a, "approve")
    /\ IF Reviewable(t) /\ IndexFree(Of[t], {})
       THEN take' = [take EXCEPT ![t] = "approved"]
       ELSE UNCHANGED take
    /\ Finish(a)
    /\ UNCHANGED <<order, cs, raced>>

Reject(a) ==
    /\ At(a, "idle")
    /\ \E t \in Takes : /\ take[t] = "succeeded"
                        /\ op' = [op EXCEPT ![a] = Reviewing("reject", t, None)]
    /\ UNCHANGED <<order, take, cs, raced>>

RejectWrite(a) ==
    LET t == op[a].take IN
    /\ At(a, "reject")
    /\ take' = IF Reviewable(t) THEN [take EXCEPT ![t] = "rejected"] ELSE take
    /\ Finish(a)
    /\ UNCHANGED <<order, cs, raced>>

Replace(a) ==
    /\ At(a, "idle")
    /\ \E t \in Takes : \E u \in Approved(Of[t]) :
          /\ take[t] = "succeeded"
          /\ op' = [op EXCEPT ![a] = Reviewing("replace", t, u)]
    /\ UNCHANGED <<order, take, cs, raced>>

\* Mutant: the number of rows the promotion updated is not looked at.
Replaceable_Unchecked(t, u) == take[u] = "approved"

\* Both updates of the transaction must change their row.
Replaceable(t, u) == take[u] = "approved" /\ Reviewable(t) /\ IndexFree(Of[t], {u})

\* Mutant: a status the readers do not know.
Outdated_Stale(st) == IF st.state = "none" THEN st ELSE [st EXCEPT !.state = "stale"]

\* mark_outdated of one row.
Outdated(st) == IF st.state = "none" THEN st ELSE [st EXCEPT !.state = "outdated"]

\* One transaction: demote, promote, invalidate the rest of the scene.
ReplaceWrite(a) ==
    LET t == op[a].take
        u == op[a].old
    IN
    /\ At(a, "replace")
    /\ IF Replaceable(t, u)
       THEN /\ take' = [take EXCEPT ![u] = "superseded",
                                    ![t] = IF Reviewable(t) THEN "approved" ELSE @]
            /\ cs' = [s \in Shots |-> IF s \in After(Of[t]) THEN Outdated(cs[s]) ELSE cs[s]]
            /\ raced' = raced \cup {s \in Shots : \E b \in Actors :
                            op[b].pc \in Holding /\ op[b].take = u /\ op[b].shot = s}
       ELSE UNCHANGED <<take, cs, raced>>
    /\ Finish(a)
    /\ UNCHANGED order

-----------------------------------------------------------------------------

Step(a) ==
    \/ Generate(a) \/ ReadTake(a) \/ ReadState(a) \/ CheckState(a) \/ SaveState(a) \/ Deliver(a)
    \/ Rebuild(a) \/ ReadPredState(a) \/ ReadOwnState(a) \/ CreateState(a) \/ CasState(a)
    \/ Approve(a) \/ ApproveWrite(a) \/ Reject(a) \/ RejectWrite(a)
    \/ Replace(a) \/ ReplaceWrite(a) \/ GiveUp(a)

Next == Rearrange \/ \E a \in Actors : Step(a)

Spec == Init /\ [][Next]_vars

-----------------------------------------------------------------------------
(* Safety *)

\* However many reviewers act at a time, a shot has at most one approved take,
\* the one the next shot and the final cut are made from.
OneApproved ==
    \A t, u \in Takes : take[t] = "approved" /\ take[u] = "approved" /\ Of[t] = Of[u] => t = u

\* A shot that has an approved take never loses it, not even for the moment of
\* a replacement or to a rejection that overlaps it.
ApprovalKept == [][\A s \in Shots : Approved(s) # {} => Approved(s)' # {}]_vars

\* A take that was rejected or superseded never comes back, whatever reviews
\* of it were under way ("superseded ... terminal").
ReviewFinal ==
    [][\A t \in Takes : take[t] \in {"rejected", "superseded"} => take'[t] = take[t]]_vars

Review == INSTANCE SceneReview WITH
              chain <- [s \in Shots |-> [state |-> cs[s].state, take |-> cs[s].take]]

\* Overlapping generations, rebuilds and reviews together do what one decision
\* at a time would: a replacement and the outdating of every later shot are one
\* step, nothing else outdates, and a state names a take that was approved once.
ReviewSpec == Review!Spec

\* Where nothing changed under an operation, a current state is what the model
\* of the chain says: it names the approved take of the shot before.
CurrentUnlessRaced ==
    \A s \in Shots \ raced : cs[s].state = "current" =>
        \E p \in Before(s, order) : cs[s].take \in Approved(p)

\* A current state always names an approved take ("current: upstream Take
\* approved, frame captured and valid").
CurrentIsApproved ==
    \A s \in Shots : cs[s].state = "current" => take[cs[s].take] = "approved"

=============================================================================
