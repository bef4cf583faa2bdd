-------------------------- MODULE Continuity_proofs --------------------------
(***************************************************************************)
(* Theorems about Continuity, for any scene, takes, arrangements and       *)
(* number of actors.                                                       *)
(***************************************************************************)
EXTENDS Continuity, TLAPS

\* What an operation knows: whose takes it holds, and, as long as nothing moved
\* under it, that its upstream take is approved and its predecessor the one
\* before its shot.
OpOK(a) ==
    LET o == op[a] IN
    /\ o.pc \in Holding \cup {"gentake", "rebtake"} =>
          /\ o.shot \in Shots
          /\ o.pred \in Shots
          /\ o.shot \notin raced => o.pred \in Before(o.shot, order)
    /\ o.pc \in Holding =>
          /\ o.take \in Takes
          /\ Of[o.take] = o.pred
          /\ o.shot \notin raced => take[o.take] = "approved"
    /\ o.pc = "deliver" => o.shot \in Shots
    /\ o.pc \in {"approve", "reject", "replace"} => o.take \in Takes
    /\ o.pc = "replace" => o.old \in Takes /\ Of[o.old] = Of[o.take]

OpsOK == \A a \in Actors : OpOK(a)

Inv == TypeOK /\ OpsOK /\ OneApproved /\ CurrentUnlessRaced

-----------------------------------------------------------------------------
(* What a step can do to the takes *)

Inserted(t)    == take[t] = "absent" /\ take' = [take EXCEPT ![t] = "succeeded"]
FirstApproved(t) == /\ take[t] = "succeeded"
                    /\ Approved(Of[t]) = {}
                    /\ take' = [take EXCEPT ![t] = "approved"]
Rejected(t)    == take[t] = "succeeded" /\ take' = [take EXCEPT ![t] = "rejected"]
Replaced(t, u) == /\ take[t] = "succeeded" /\ take[u] = "approved"
                  /\ Of[t] = Of[u]
                  /\ Approved(Of[t]) \subseteq {u}
                  /\ take' = [take EXCEPT ![u] = "superseded", ![t] = "approved"]

TakeMove == \/ take' = take
            \/ \E t \in Takes : Inserted(t) \/ FirstApproved(t) \/ Rejected(t)
            \/ \E t, u \in Takes : Replaced(t, u)

\* Every step is a move of the review state machine.
LEMMA StepMoves == ASSUME TypeOK, OpsOK, [Next]_vars PROVE TakeMove
<1>1. ASSUME NEW a \in Actors, Deliver(a) PROVE TakeMove
  BY <1>1 DEF Deliver, TakeMove, Inserted
<1>2. ASSUME NEW a \in Actors, ApproveWrite(a) PROVE TakeMove
  <2>1. op[a].take \in Takes
    BY <1>2 DEF ApproveWrite, At, OpsOK, OpOK
  <2>2. QED
    BY <1>2, <2>1 DEF ApproveWrite, TakeMove, FirstApproved, Reviewable, IndexFree
<1>3. ASSUME NEW a \in Actors, RejectWrite(a) PROVE TakeMove
  <2>1. op[a].take \in Takes
    BY <1>3 DEF RejectWrite, At, OpsOK, OpOK
  <2>2. QED
    BY <1>3, <2>1 DEF RejectWrite, TakeMove, Rejected, Reviewable
<1>4. ASSUME NEW a \in Actors, ReplaceWrite(a) PROVE TakeMove
  <2> DEFINE t == op[a].take
             u == op[a].old
  <2>1. t \in Takes /\ u \in Takes /\ Of[t] = Of[u]
    BY <1>4 DEF ReplaceWrite, At, OpsOK, OpOK
  <2>2. CASE Replaceable(t, u)
    <3>1. take' = [take EXCEPT ![u] = "superseded", ![t] = "approved"]
      BY <1>4, <2>1, <2>2 DEF ReplaceWrite, Replaceable, Reviewable, TypeOK
    <3>2. Replaced(t, u)
      BY <2>1, <2>2, <3>1 DEF Replaced, Replaceable, Reviewable, IndexFree
    <3>3. QED
      BY <2>1, <3>2 DEF TakeMove
  <2>3. CASE ~Replaceable(t, u)
    BY <1>4, <2>3 DEF ReplaceWrite, TakeMove
  <2>4. QED
    BY <2>2, <2>3
<1>5. CASE UNCHANGED vars
  BY <1>5 DEF vars, TakeMove
<1>6. CASE Next
  <2>1. CASE Rearrange
    BY <2>1 DEF Rearrange, TakeMove
  <2>2. ASSUME NEW a \in Actors, Step(a) PROVE TakeMove
    BY <1>1, <1>2, <1>3, <1>4, <2>2
       DEF Step, TakeMove, Generate, ReadTake, ReadState, CheckState, SaveState, Rebuild,
           ReadPredState, ReadOwnState, CreateState, CasState, Approve, Reject, Replace, GiveUp
  <2>3. QED
    BY <1>6, <2>1, <2>2 DEF Next
<1>7. QED
  BY <1>5, <1>6

\* A move keeps a single approved take per shot ...
LEMMA MoveOneApproved ==
    ASSUME TypeOK, OneApproved, TakeMove PROVE OneApproved'
<1> USE OfAssumption
<1>1. CASE take' = take
  BY <1>1 DEF OneApproved
<1>2. ASSUME NEW t \in Takes, Inserted(t) \/ Rejected(t) PROVE OneApproved'
  BY <1>2 DEF Inserted, Rejected, OneApproved, TypeOK
<1>3. ASSUME NEW t \in Takes, FirstApproved(t) PROVE OneApproved'
  BY <1>3 DEF FirstApproved, OneApproved, TypeOK, Approved
<1>4. ASSUME NEW t \in Takes, NEW u \in Takes, Replaced(t, u) PROVE OneApproved'
  BY <1>4 DEF Replaced, OneApproved, TypeOK, Approved
<1>5. QED
  BY <1>1, <1>2, <1>3, <1>4 DEF TakeMove

\* ... leaves no shot without the approval it had ...
LEMMA MoveKeepsApproval ==
    ASSUME TypeOK, TakeMove, NEW s \in Shots, Approved(s) # {} PROVE Approved(s)' # {}
<1> USE OfAssumption
<1>1. PICK v \in Takes : Of[v] = s /\ take[v] = "approved"
  BY DEF Approved
<1>2. CASE \E w \in Takes : Of[w] = s /\ take'[w] = "approved"
  BY <1>2 DEF Approved
<1>3. CASE take'[v] = "approved"
  BY <1>1, <1>2, <1>3
<1>4. ASSUME NEW t \in Takes, NEW u \in Takes, Replaced(t, u) PROVE Approved(s)' # {}
  <2>1. CASE v = u
    BY <1>1, <1>2, <1>4, <2>1 DEF Replaced, TypeOK
  <2>2. CASE v # u
    BY <1>1, <1>3, <1>4, <2>2 DEF Replaced, TypeOK
  <2>3. QED
    BY <2>1, <2>2
<1>5. QED
  BY <1>1, <1>3, <1>4 DEF TakeMove, Inserted, FirstApproved, Rejected, TypeOK

\* ... and never leaves a final status.
LEMMA MoveFinal ==
    ASSUME TypeOK, TakeMove, NEW t \in Takes, take[t] \in {"rejected", "superseded"}
    PROVE  take'[t] = take[t]
  BY DEF TypeOK, TakeMove, Inserted, FirstApproved, Rejected, Replaced

-----------------------------------------------------------------------------
(* Types *)

LEMMA RecordTypes ==
    /\ \A pc \in Pcs, s \in Shots \cup {None}, p \in Shots \cup {None} : Making(pc, s, p) \in Op
    /\ \A pc \in Pcs, t \in Takes \cup {None}, u \in Takes \cup {None} : Reviewing(pc, t, u) \in Op
    /\ Idle \in Op
    /\ \A st \in State : Outdated(st) \in State
  BY DEF Making, Reviewing, Idle, Op, Pcs, Holding, State, Outdated

LEMMA BeforeIsShot == ASSUME NEW s \in Shots PROVE Before(s, order) \subseteq Shots
  BY DEF Before

\* The types survive every step.
LEMMA StepType == ASSUME TypeOK, OpsOK, [Next]_vars PROVE TypeOK'
<1>1. take' \in [Takes -> TakeStatus]
  BY StepMoves DEF TypeOK, TakeMove, Inserted, FirstApproved, Rejected, Replaced, TakeStatus
<1>2. CASE UNCHANGED vars
  BY <1>2 DEF TypeOK, vars
<1>3. CASE Rearrange
  BY <1>1, <1>3 DEF Rearrange, TypeOK
<1>4. ASSUME NEW a \in Actors, Step(a) PROVE TypeOK'
  <2> DEFINE OpTyped == op' \in [Actors -> Op]
             Rest    == order' \in Orders /\ raced' \subseteq Shots
  <2>1. CASE Generate(a) \/ Rebuild(a)
    <3>1. PICK o \in Op : op' = [op EXCEPT ![a] = o]
      BY <2>1, RecordTypes, BeforeIsShot DEF Generate, Rebuild, Pcs
    <3>2. QED
      BY <1>1, <2>1, <3>1 DEF Generate, Rebuild, TypeOK
  <2>2. CASE Approve(a) \/ Reject(a) \/ Replace(a)
    <3>1. PICK o \in Op : op' = [op EXCEPT ![a] = o]
      BY <2>2, RecordTypes DEF Approve, Reject, Replace, Pcs, Approved
    <3>2. QED
      BY <1>1, <2>2, <3>1 DEF Approve, Reject, Replace, TypeOK
  <2>3. CASE ReadTake(a)
    BY <1>1, <2>3 DEF ReadTake, Approved, TypeOK, Op, Pcs, Holding
  <2>4. CASE ReadState(a)
    <3> DEFINE r == cs[op[a].shot].rev
    <3>1. r \in Nat
      BY <2>4 DEF ReadState, At, OpsOK, OpOK, Holding, TypeOK, State
    <3>2. op' \in [Actors -> Op]
      <4>1. op' = [op EXCEPT ![a].pc = "check", ![a].rev = r]
        BY <2>4 DEF ReadState
      <4> DEFINE checked == [op EXCEPT ![a].pc = "check"]
      <4>2. checked \in [Actors -> Op]
        BY DEF TypeOK, Op, Pcs, Holding
      <4>3. op' = [checked EXCEPT ![a].rev = r]
        BY <4>1
      <4> HIDE DEF r, checked
      <4>4. QED
        BY <3>1, <4>2, <4>3 DEF Op
    <3>3. QED
      BY <1>1, <2>4, <3>2 DEF ReadState, TypeOK
  <2>5. CASE CheckState(a) \/ ReadPredState(a)
    BY <1>1, <2>5 DEF CheckState, ReadPredState, Goto, TypeOK, Op, Pcs, Holding
  <2>6. CASE ReadOwnState(a)
    <3>1. cs[op[a].shot].rev \in Nat
      BY <2>6 DEF ReadOwnState, At, OpsOK, OpOK, Holding, TypeOK, State
    <3>2. QED
      BY <1>1, <2>6, <3>1, RecordTypes DEF ReadOwnState, Finish, TypeOK, Op, Pcs, Holding
  <2>7. CASE SaveState(a) \/ CreateState(a) \/ CasState(a)
    <3>1. op[a].take \in Takes /\ op[a].rev \in Nat
      BY <2>7 DEF SaveState, CreateState, CasState, At, OpsOK, OpOK, Holding, TypeOK, Op
    <3>2. cs' \in [Shots -> State]
      BY <2>7, <3>1 DEF SaveState, CreateState, CasState, Save, TypeOK, State
    <3>3. op' \in [Actors -> Op]
      BY <2>7, RecordTypes
         DEF SaveState, CreateState, CasState, Goto, Finish, TypeOK, Op, Pcs
    <3>4. QED
      BY <1>1, <2>7, <3>2, <3>3 DEF SaveState, CreateState, CasState, TypeOK
  <2>8. CASE ReplaceWrite(a)
    BY <1>1, <2>8, RecordTypes DEF ReplaceWrite, Finish, TypeOK
  <2>9. CASE Deliver(a) \/ ApproveWrite(a) \/ RejectWrite(a) \/ GiveUp(a)
    BY <1>1, <2>9, RecordTypes DEF Deliver, ApproveWrite, RejectWrite, GiveUp, Finish, TypeOK
  <2>10. QED
    BY <1>4, <2>1, <2>2, <2>3, <2>4, <2>5, <2>6, <2>7, <2>8, <2>9 DEF Step
<1>5. QED
  BY <1>2, <1>3, <1>4 DEF Next

-----------------------------------------------------------------------------
(* What the operations know *)

\* A take loses its approval only by a replacement, which races every
\* operation holding it and outdates every shot after it.
LEMMA LostApproval ==
    ASSUME TypeOK, OpsOK, [Next]_vars,
           NEW v \in Takes, take[v] = "approved", take'[v] # "approved"
    PROVE  /\ \A b \in Actors : op[b].pc \in Holding /\ op[b].take = v /\ op[b].shot \in Shots
                                    => op[b].shot \in raced'
           /\ order' = order
           /\ cs' = [s \in Shots |-> IF s \in After(Of[v]) THEN Outdated(cs[s]) ELSE cs[s]]
<1>1. ASSUME NEW a \in Actors, Step(a) PROVE ReplaceWrite(a)
  <2>1. CASE Deliver(a) \/ ApproveWrite(a) \/ RejectWrite(a)
    BY <2>1 DEF Deliver, ApproveWrite, RejectWrite, Reviewable, TypeOK
  <2>2. CASE UNCHANGED take
    BY <2>2
  <2>3. QED
    BY <1>1, <2>1, <2>2
       DEF Step, Generate, ReadTake, ReadState, CheckState, SaveState, Rebuild,
           ReadPredState, ReadOwnState, CreateState, CasState, Approve, Reject, Replace, GiveUp
<1>2. PICK a \in Actors : ReplaceWrite(a)
  BY <1>1 DEF Next, Rearrange, vars
<1>3. Replaceable(op[a].take, op[a].old)
  BY <1>2 DEF ReplaceWrite
<1>4. op[a].take \in Takes /\ op[a].old \in Takes /\ Of[op[a].old] = Of[op[a].take]
  BY <1>2 DEF ReplaceWrite, At, OpsOK, OpOK
<1>5. v = op[a].old
  BY <1>2, <1>3, <1>4 DEF ReplaceWrite, Replaceable, Reviewable, TypeOK
<1>6. QED
  BY <1>2, <1>3, <1>4, <1>5 DEF ReplaceWrite

\* Of the operations of others only the view of order, take and raced moves.
LEMMA KeepsOp ==
    ASSUME TypeOK, OpsOK, [Next]_vars, NEW b \in Actors, op'[b] = op[b] PROVE OpOK(b)'
<1> DEFINE o == op[b]
<1>1. raced \subseteq raced'
  BY DEF Next, Step, vars, Rearrange, Generate, ReadTake, ReadState, CheckState, SaveState, Deliver,
         Rebuild, ReadPredState, ReadOwnState, CreateState, CasState, Approve, ApproveWrite, Reject,
         RejectWrite, Replace, ReplaceWrite, GiveUp
<1>2. ASSUME o.shot \in Shots, o.pred \in Before(o.shot, order), o.shot \notin raced'
      PROVE  o.pred \in Before(o.shot, order')
  <2>1. CASE order' = order
    BY <1>2, <2>1
  <2>2. CASE Rearrange
    BY <1>2, <2>2 DEF Rearrange
  <2>3. QED
    BY <2>1, <2>2
       DEF Next, Step, vars, Generate, ReadTake, ReadState, CheckState, SaveState, Deliver,
           Rebuild, ReadPredState, ReadOwnState, CreateState, CasState, Approve, ApproveWrite, Reject,
           RejectWrite, Replace, ReplaceWrite, GiveUp
<1>3. ASSUME o.pc \in Holding, o.take \in Takes, o.shot \in Shots, o.shot \notin raced',
             take[o.take] = "approved"
      PROVE  take'[o.take] = "approved"
  BY <1>3, LostApproval
<1>4. OpOK(b)
  BY DEF OpsOK
<1>5. Before(o.shot, order)' = Before(o.shot, order')
  BY DEF Before
<1>6. QED
  BY <1>1, <1>2, <1>3, <1>4 DEF OpOK

\* A step keeps what every operation knows.
LEMMA StepOps == ASSUME TypeOK, OpsOK, [Next]_vars PROVE OpsOK'
<1>1. CASE op' = op
  BY <1>1, KeepsOp DEF OpsOK
<1>2. ASSUME NEW a \in Actors, Step(a), NEW b \in Actors, b # a PROVE OpOK(b)'
  <2>1. op'[b] = op[b]
    BY <1>2 DEF TypeOK, Step, Generate, ReadTake, ReadState, CheckState, SaveState, Deliver, Rebuild,
                ReadPredState, ReadOwnState, CreateState, CasState, Approve, ApproveWrite, Reject,
                RejectWrite, Replace, ReplaceWrite, GiveUp, Goto, Finish
  <2>2. QED
    BY <2>1, KeepsOp
<1>3. ASSUME NEW a \in Actors, Step(a) PROVE OpOK(a)'
  <2> DEFINE o == op[a]
  <2> USE DEF OpOK, Holding
  <2>1. CASE op'[a] = Idle
    BY <2>1 DEF Idle, Making
  <2>2. CASE Generate(a)
    <3>1. PICK s \in Shots : \/ op'[a] = Making("deliver", s, None)
                             \/ \E p \in Before(s, order) : op'[a] = Making("gentake", s, p)
      BY <2>2 DEF Generate, TypeOK
    <3>2. QED
      <4>1. CASE op'[a] = Making("deliver", s, None)
        BY <4>1 DEF Making
      <4>2. CASE \E p \in Before(s, order) : op'[a] = Making("gentake", s, p)
        BY <2>2, <4>2, BeforeIsShot DEF Generate, Making
      <4>3. QED
        BY <3>1, <4>1, <4>2
  <2>3. CASE Rebuild(a)
    <3>1. PICK s \in Shots : \E p \in Before(s, order) : op'[a] = Making("rebtake", s, p)
      BY <2>3 DEF Rebuild, TypeOK
    <3>2. QED
      BY <2>3, <3>1, BeforeIsShot DEF Rebuild, Making
  <2>4. CASE ReadTake(a)
    BY <2>4 DEF ReadTake, OpsOK, TypeOK, Op, Approved
  <2>5. CASE ReadState(a)
    BY <2>5 DEF ReadState, At, OpsOK, TypeOK, Op
  <2>6. CASE CheckState(a) \/ ReadPredState(a) \/ SaveState(a)
    BY <2>6 DEF CheckState, ReadPredState, SaveState, Goto, At, OpsOK, TypeOK, Op
  <2>7. CASE ReadOwnState(a) /\ op'[a] # Idle
    BY <2>7 DEF ReadOwnState, Finish, At, OpsOK, TypeOK, Op
  <2>8. CASE Approve(a) \/ Reject(a)
    <3>1. PICK t \in Takes : op'[a] \in {Reviewing("approve", t, None), Reviewing("reject", t, None)}
      BY <2>8 DEF Approve, Reject, TypeOK
    <3>2. QED
      BY <3>1 DEF Reviewing
  <2>9. CASE Replace(a)
    <3>1. PICK t \in Takes : \E u \in Approved(Of[t]) : op'[a] = Reviewing("replace", t, u)
      BY <2>9 DEF Replace, TypeOK
    <3>2. QED
      BY <3>1 DEF Reviewing, Approved
  <2>10. QED
    BY <1>3, <2>1, <2>2, <2>3, <2>4, <2>5, <2>6, <2>7, <2>8, <2>9
       DEF Step, Deliver, CreateState, CasState, ApproveWrite, RejectWrite, ReplaceWrite, GiveUp,
           Finish, TypeOK
<1>4. QED
  BY <1>1, <1>2, <1>3 DEF OpsOK, Next, Rearrange, vars

-----------------------------------------------------------------------------
(* The chain *)

\* What comes just before comes before.
LEMMA BeforeAfter == ASSUME TypeOK, NEW s \in Shots, NEW p \in Before(s, order) PROVE s \in After(p)
<1>1. order \in Seq(Shots)
  BY OrdersAssumption DEF TypeOK
<1>2. PICK i \in 1..(Len(order) - 1) : order[i] = p /\ order[i + 1] = s
  BY DEF Before
<1>3. Len(order) \in Nat
  BY <1>1
<1>4. i \in 1..Len(order) /\ i + 1 \in 1..Len(order) /\ i < i + 1
  BY <1>2, <1>3
<1>5. QED
  BY <1>2, <1>4 DEF After

\* The state an operation writes names the take it holds, in a current state.
LEMMA Saved ==
    ASSUME TypeOK, OpsOK, [Next]_vars, take' = take, NEW s \in Shots, cs'[s] # cs[s]
    PROVE  \E a \in Actors : /\ op[a].pc \in Holding /\ op[a].shot = s
                             /\ cs'[s].take = op[a].take
                             /\ order' = order
<1>1. ASSUME NEW a \in Actors, SaveState(a) \/ CreateState(a) \/ CasState(a)
      PROVE  /\ op[a].pc \in Holding /\ op[a].shot = s
             /\ cs'[s].take = op[a].take
             /\ order' = order
  BY <1>1 DEF SaveState, CreateState, CasState, Save, At, Holding, TypeOK
<1>2. ASSUME NEW a \in Actors, ReplaceWrite(a) PROVE FALSE
  <2>1. Replaceable(op[a].take, op[a].old)
    BY <1>2 DEF ReplaceWrite
  <2>2. op[a].take \in Takes /\ op[a].old \in Takes
    BY <1>2 DEF ReplaceWrite, At, OpsOK, OpOK
  <2>3. take'[op[a].old] # "approved"
    BY <1>2, <2>1, <2>2 DEF ReplaceWrite, Replaceable, Reviewable, TypeOK
  <2>4. QED
    BY <2>1, <2>3 DEF Replaceable
<1>3. PICK a \in Actors : SaveState(a) \/ CreateState(a) \/ CasState(a)
  BY <1>2 DEF Next, Step, vars, Rearrange, Generate, ReadTake, ReadState, CheckState, Deliver, Rebuild,
              ReadPredState, ReadOwnState, Approve, ApproveWrite, Reject, RejectWrite, Replace, GiveUp
<1>4. QED
  BY <1>1, <1>3

\* A state that nothing raced stays in line with the chain.
LEMMA StepChain ==
    ASSUME TypeOK, OpsOK, CurrentUnlessRaced, [Next]_vars PROVE CurrentUnlessRaced'
<1> SUFFICES ASSUME NEW s \in Shots \ raced', cs'[s].state = "current"
             PROVE  \E p \in Before(s, order') : cs'[s].take \in Approved(p)'
  BY DEF CurrentUnlessRaced, Before, Approved
<1>1. raced \subseteq raced'
  BY DEF Next, Step, vars, Rearrange, Generate, ReadTake, ReadState, CheckState, SaveState, Deliver,
         Rebuild, ReadPredState, ReadOwnState, CreateState, CasState, Approve, ApproveWrite, Reject,
         RejectWrite, Replace, ReplaceWrite, GiveUp
<1>2. Before(s, order') = Before(s, order)
  <2>1. CASE Rearrange
    BY <2>1 DEF Rearrange
  <2>2. CASE order' = order
    BY <2>2
  <2>3. QED
    BY <2>1, <2>2
       DEF Next, Step, vars, Generate, ReadTake, ReadState, CheckState, SaveState, Deliver,
           Rebuild, ReadPredState, ReadOwnState, CreateState, CasState, Approve, ApproveWrite, Reject,
           RejectWrite, Replace, ReplaceWrite, GiveUp
<1>3. ASSUME cs'[s] = cs[s]
      PROVE  \E p \in Before(s, order) : cs'[s].take \in Approved(p)'
  <2>1. PICK p \in Before(s, order) : cs[s].take \in Approved(p)
    BY <1>1, <1>3 DEF CurrentUnlessRaced
  <2>2. CASE take'[cs[s].take] = "approved"
    BY <1>3, <2>1, <2>2 DEF Approved
  <2>3. CASE take'[cs[s].take] # "approved"
    <3>1. cs[s].take \in Takes /\ Of[cs[s].take] = p /\ take[cs[s].take] = "approved"
      BY <2>1 DEF Approved
    <3>2. cs'[s] = Outdated(cs[s])
      BY <2>1, <2>3, <3>1, LostApproval, BeforeAfter
    <3>3. QED
      BY <1>3, <3>2 DEF Outdated, TypeOK, State
  <2>4. QED
    BY <2>2, <2>3
<1>4. ASSUME cs'[s] # cs[s], take' = take
      PROVE  \E p \in Before(s, order) : cs'[s].take \in Approved(p)'
  <2>1. PICK a \in Actors : /\ op[a].pc \in Holding /\ op[a].shot = s
                            /\ cs'[s].take = op[a].take
    BY <1>4, Saved
  <2>2. /\ op[a].pred \in Before(s, order)
        /\ op[a].take \in Takes /\ Of[op[a].take] = op[a].pred /\ take[op[a].take] = "approved"
    BY <1>1, <2>1 DEF OpsOK, OpOK
  <2>3. QED
    BY <1>4, <2>1, <2>2 DEF Approved
<1>5. ASSUME cs'[s] # cs[s], take' # take PROVE FALSE
  <2>1. PICK a \in Actors : ReplaceWrite(a)
    BY <1>5 DEF Next, Step, vars, Rearrange, Generate, ReadTake, ReadState, CheckState, SaveState, Deliver,
         Rebuild, ReadPredState, ReadOwnState, CreateState, CasState, Approve, ApproveWrite, Reject,
         RejectWrite, Replace, GiveUp
  <2>2. cs'[s] = Outdated(cs[s])
    BY <1>5, <2>1 DEF ReplaceWrite
  <2>3. QED
    BY <1>5, <2>2 DEF Outdated, TypeOK, State
<1>6. QED
  BY <1>2, <1>3, <1>4, <1>5

-----------------------------------------------------------------------------
(* The theorems *)

LEMMA InitInv == Init => Inv
<1> SUFFICES ASSUME Init PROVE Inv
  OBVIOUS
<1>1. TypeOK
  BY RecordTypes DEF Init, TypeOK, TakeStatus, State, NoState
<1>2. OpsOK
  BY DEF Init, OpsOK, OpOK, Idle, Making, Holding
<1>3. OneApproved /\ CurrentUnlessRaced
  BY DEF Init, OneApproved, CurrentUnlessRaced, NoState
<1>4. QED
  BY <1>1, <1>2, <1>3 DEF Inv

LEMMA StepInv == Inv /\ [Next]_vars => Inv'
  BY StepType, StepOps, StepMoves, MoveOneApproved, StepChain DEF Inv

\* The invariant holds in every state the review and the generation of takes
\* can reach.
LEMMA Invariant == Spec => []Inv
  BY InitInv, StepInv, PTL DEF Spec

\* Every row of takes and continuity_states has a status of its table.
THEOREM TypeCorrect == Spec => []TypeOK
<1>1. Inv => TypeOK
  BY DEF Inv
<1>2. QED
  BY <1>1, Invariant, PTL

\* A shot never has two approved takes, however many reviewers and workers act
\* at once (TakeService.approve, replace_approved and the unique index).
THEOREM SingleApproval == Spec => []OneApproved
<1>1. Inv => OneApproved
  BY DEF Inv
<1>2. QED
  BY <1>1, Invariant, PTL

\* A continuity state that no replacement or reordering overtook names the
\* approved take of the shot before (persist_state, rebuild_for_shot,
\* _invalidate_downstream).
THEOREM ChainCurrent == Spec => []CurrentUnlessRaced
<1>1. Inv => CurrentUnlessRaced
  BY DEF Inv
<1>2. QED
  BY <1>1, Invariant, PTL

\* A shot that has an approved take keeps one at every step.
THEOREM ApprovalIsKept == Spec => ApprovalKept
<1>1. Inv /\ [Next]_vars => [\A s \in Shots : Approved(s) # {} => Approved(s)' # {}]_vars
  BY StepMoves, MoveKeepsApproval DEF Inv
<1>2. QED
  BY <1>1, Invariant, PTL DEF Spec, ApprovalKept

\* Rejected and superseded are final, whatever reviews were under way.
THEOREM FinalStaysFinal == Spec => ReviewFinal
<1>1. Inv /\ [Next]_vars =>
        [\A t \in Takes : take[t] \in {"rejected", "superseded"} => take'[t] = take[t]]_vars
  BY StepMoves, MoveFinal DEF Inv
<1>2. QED
  BY <1>1, Invariant, PTL DEF Spec, ReviewFinal

-----------------------------------------------------------------------------
(* Continuity implements SceneReview *)

\* An upstream take under an operation was approved when it was read, and what
\* was approved can only be superseded.
Known(a) == op[a].pc \in Holding => take[op[a].take] \in {"approved", "superseded"}

AllKnown == \A a \in Actors : Known(a)

LEMMA MoveKeepsKnown ==
    ASSUME TypeOK, TakeMove, NEW t \in Takes, take[t] \in {"approved", "superseded"}
    PROVE  take'[t] \in {"approved", "superseded"}
  BY DEF TypeOK, TakeMove, Inserted, FirstApproved, Rejected, Replaced

LEMMA StepKnown == ASSUME Inv, AllKnown, [Next]_vars PROVE AllKnown'
<1> USE DEF Inv
<1>1. ASSUME NEW b \in Actors, op'[b] = op[b] PROVE Known(b)'
  BY <1>1, StepMoves, MoveKeepsKnown DEF AllKnown, Known, OpsOK, OpOK
<1>2. CASE op' = op
  BY <1>1, <1>2 DEF AllKnown
<1>3. ASSUME NEW a \in Actors, Step(a), NEW b \in Actors, b # a PROVE Known(b)'
  <2>1. op'[b] = op[b]
    BY <1>3 DEF TypeOK, Step, Generate, ReadTake, ReadState, CheckState, SaveState, Deliver, Rebuild,
                ReadPredState, ReadOwnState, CreateState, CasState, Approve, ApproveWrite, Reject,
                RejectWrite, Replace, ReplaceWrite, GiveUp, Goto, Finish
  <2>2. QED
    BY <1>1, <2>1
<1>4. ASSUME NEW a \in Actors, Step(a) PROVE Known(a)'
  <2> USE DEF Known, Holding, TypeOK
  <2>1. CASE op'[a].pc \notin Holding
    BY <2>1
  <2>2. CASE ReadTake(a)
    BY <2>2 DEF ReadTake, Approved, Op
  <2>3. CASE /\ ReadState(a) \/ CheckState(a) \/ ReadPredState(a) \/ ReadOwnState(a)
             /\ op'[a].pc \in Holding
    <3>1. op[a].pc \in Holding /\ op'[a].take = op[a].take /\ take' = take
      BY <2>3 DEF ReadState, CheckState, ReadPredState, ReadOwnState, Goto, Finish, At, Op,
                  Idle, Making
    <3>2. QED
      BY <3>1 DEF AllKnown
  <2>4. CASE Generate(a) \/ Rebuild(a) \/ Approve(a) \/ Reject(a) \/ Replace(a)
    <3>1. op'[a].pc \in {"deliver", "gentake", "rebtake", "approve", "reject", "replace"}
      BY <2>4 DEF Generate, Rebuild, Approve, Reject, Replace, Making, Reviewing
    <3>2. QED
      BY <3>1
  <2>5. CASE SaveState(a)
    BY <2>5 DEF SaveState, Goto, Op
  <2>6. QED
    BY <1>4, <2>1, <2>2, <2>3, <2>4, <2>5
       DEF Step, Deliver, CreateState, CasState, ApproveWrite, RejectWrite, ReplaceWrite, GiveUp,
           Finish, Idle, Making
<1>5. QED
  BY <1>2, <1>3, <1>4 DEF AllKnown, Next, Rearrange, vars

\* The steps that write rows, each the step of SceneReview it is named for.
LEMMA ReplaceReviews ==
    ASSUME Inv, NEW a \in Actors, ReplaceWrite(a), Replaceable(op[a].take, op[a].old)
    PROVE  \E t, u \in Takes : Review!Replace(t, u)
<1> SUFFICES ASSUME NEW t, t = op[a].take, NEW u, u = op[a].old
             PROVE  t \in Takes /\ u \in Takes /\ Review!Replace(t, u)
  OBVIOUS
<1>1. t \in Takes /\ u \in Takes /\ Of[u] = Of[t]
  BY DEF Inv, ReplaceWrite, At, OpsOK, OpOK
<1>2. take[t] = "succeeded" /\ take[u] = "approved"
  BY DEF Replaceable, Reviewable
<1>3. take' = [take EXCEPT ![t] = "approved", ![u] = "superseded"]
  BY <1>1, <1>2 DEF ReplaceWrite, Reviewable, Inv, TypeOK
<1>4. /\ cs' = [s \in Shots |-> IF s \in After(Of[t]) THEN Outdated(cs[s]) ELSE cs[s]]
      /\ order' = order
  BY DEF ReplaceWrite
<1>5. Review!Later(Of[t]) = After(Of[t])
  BY DEF Review!Later, After
<1> DEFINE shown(c) == [s \in Shots |-> [state |-> c[s].state, take |-> c[s].take]]
<1>6. shown(cs)' = [s \in Shots |-> IF s \in After(Of[t]) /\ shown(cs)[s].state # "none"
                                    THEN [shown(cs)[s] EXCEPT !.state = "outdated"]
                                    ELSE shown(cs)[s]]
  <2>1. ASSUME NEW s \in Shots
        PROVE  [state |-> cs'[s].state, take |-> cs'[s].take] =
               IF s \in After(Of[t]) /\ cs[s].state # "none"
               THEN [state |-> "outdated", take |-> cs[s].take]
               ELSE [state |-> cs[s].state, take |-> cs[s].take]
    BY <1>4 DEF Outdated, Inv, TypeOK, State
  <2>2. QED
    BY <2>1
<1>7. QED
  BY <1>1, <1>2, <1>3, <1>4, <1>5, <1>6 DEF Review!Replace

LEMMA SaveProvides ==
    ASSUME Inv, AllKnown, NEW a \in Actors, op[a].pc \in Holding,
           NEW r, Save(op[a].shot, op[a].take, r), UNCHANGED <<order, take>>
    PROVE  \E s \in Shots, t \in Takes : Review!Provide(s, t)
<1> SUFFICES ASSUME NEW s, s = op[a].shot, NEW t, t = op[a].take
             PROVE  s \in Shots /\ t \in Takes /\ Review!Provide(s, t)
  OBVIOUS
<1>1. s \in Shots /\ t \in Takes /\ take[t] \in {"approved", "superseded"}
  BY DEF Inv, OpsOK, OpOK, AllKnown, Known
<1>2. cs' = [cs EXCEPT ![s] = [state |-> "current", take |-> t, rev |-> r]]
  BY DEF Save
<1>3. [x \in Shots |-> [state |-> cs[x].state, take |-> cs[x].take]]' =
      [[x \in Shots |-> [state |-> cs[x].state, take |-> cs[x].take]]
          EXCEPT ![s] = [state |-> "current", take |-> t]]
  BY <1>1, <1>2 DEF Inv, TypeOK
<1>4. QED
  BY <1>1, <1>3 DEF Review!Provide

LEMMA TakeReviews ==
    ASSUME NEW t \in Takes, Inserted(t) \/ Rejected(t) \/ FirstApproved(t), UNCHANGED <<order, cs>>
    PROVE  Review!Add(t) \/ Review!Reject(t) \/ Review!Approve(t)
<1> USE DEF Review!Move
<1>1. CASE Inserted(t)
  BY <1>1 DEF Inserted, Review!Add
<1>2. CASE Rejected(t)
  BY <1>2 DEF Rejected, Review!Reject
<1>3. CASE FirstApproved(t)
  BY <1>3, OfAssumption DEF FirstApproved, Approved, Review!Approve
<1>4. QED
  BY <1>1, <1>2, <1>3

LEMMA StepReviews ==
    ASSUME Inv, AllKnown, [Next]_vars PROVE [Review!Next]_(Review!vars)
<1> USE DEF Inv
<1>1. CASE UNCHANGED <<order, take, cs>>
  BY <1>1 DEF Review!vars
<1>2. CASE Rearrange
  <2>1. order' \in Seq(Shots)
    BY <1>2, OrdersAssumption DEF Rearrange
  <2>2. Review!Arrange
    BY <1>2, <2>1 DEF Rearrange, Review!Arrange
  <2>3. QED
    BY <2>2 DEF Review!Next
<1>3. ASSUME NEW a \in Actors, Deliver(a) \/ ApproveWrite(a) \/ RejectWrite(a), take' # take
      PROVE  Review!Next
  <2>1. \E t \in Takes : Inserted(t) \/ Rejected(t) \/ FirstApproved(t)
    <3>1. CASE Deliver(a)
      BY <3>1 DEF Deliver, Inserted
    <3>2. CASE ApproveWrite(a) \/ RejectWrite(a)
      <4>1. op[a].take \in Takes
        BY <3>2 DEF ApproveWrite, RejectWrite, At, OpsOK, OpOK
      <4>2. QED
        BY <1>3, <3>2, <4>1
           DEF ApproveWrite, RejectWrite, Reviewable, IndexFree, Rejected, FirstApproved
    <3>3. QED
      BY <1>3, <3>1, <3>2
  <2>2. UNCHANGED <<order, cs>>
    BY <1>3 DEF Deliver, ApproveWrite, RejectWrite
  <2>3. QED
    BY <2>1, <2>2, TakeReviews DEF Review!Next
<1>4. ASSUME NEW a \in Actors, ReplaceWrite(a), Replaceable(op[a].take, op[a].old)
      PROVE  Review!Next
  BY <1>4, ReplaceReviews DEF Review!Next
<1>5. ASSUME NEW a \in Actors, SaveState(a) \/ CreateState(a) \/ CasState(a), cs' # cs
      PROVE  Review!Next
  <2>1. op[a].pc \in Holding /\ UNCHANGED <<order, take>>
    BY <1>5 DEF SaveState, CreateState, CasState, At, Holding
  <2>2. PICK r \in {op[a].rev, 1, op[a].rev + 1} : Save(op[a].shot, op[a].take, r)
    BY <1>5 DEF SaveState, CreateState, CasState
  <2>3. QED
    BY <2>1, <2>2, SaveProvides DEF Review!Next
<1>6. ASSUME NEW a \in Actors, Step(a)
      PROVE  Review!Next \/ UNCHANGED <<order, take, cs>>
  <2>1. CASE Deliver(a) \/ ApproveWrite(a) \/ RejectWrite(a)
    BY <1>3, <2>1 DEF Deliver, ApproveWrite, RejectWrite
  <2>2. CASE ReplaceWrite(a)
    BY <1>4, <2>2 DEF ReplaceWrite
  <2>3. CASE SaveState(a) \/ CreateState(a) \/ CasState(a)
    BY <1>5, <2>3 DEF SaveState, CreateState, CasState
  <2>4. QED
    BY <1>6, <2>1, <2>2, <2>3
       DEF Step, Generate, ReadTake, ReadState, CheckState, Rebuild, ReadPredState, ReadOwnState,
           Approve, Reject, Replace, GiveUp
<1>7. QED
  BY <1>1, <1>2, <1>6 DEF Next, Review!Next, vars

\* What overlapping generations, rebuilds and reviews leave behind is what a
\* sequence of single decisions leaves behind, each with its invalidation.
THEOREM ImplementsReview == Spec => ReviewSpec
<1>1. Init => AllKnown /\ Review!Init
  BY OrdersAssumption DEF Init, AllKnown, Known, Idle, Making, Holding, NoState, Review!Init
<1>2. Inv /\ AllKnown /\ [Next]_vars => AllKnown' /\ [Review!Next]_(Review!vars)
  BY StepKnown, StepReviews
<1>3. QED
  BY <1>1, <1>2, Invariant, PTL DEF Spec, ReviewSpec, Review!Spec

-----------------------------------------------------------------------------
(* One operation at a time *)

LEMMA StepUnraced ==
    ASSUME \A a, b \in Actors : a = b, \A o, p \in Orders : o = p,
           TypeOK, raced = {}, [Next]_vars
    PROVE  raced' = {}
<1>1. CASE Rearrange
  BY <1>1 DEF Rearrange, TypeOK
<1>2. ASSUME NEW a \in Actors, ReplaceWrite(a) PROVE raced' = {}
  BY <1>2 DEF ReplaceWrite, At, Holding
<1>3. QED
  BY <1>1, <1>2
     DEF Next, Step, vars, Generate, ReadTake, ReadState, CheckState, SaveState, Deliver, Rebuild,
         ReadPredState, ReadOwnState, CreateState, CasState, Approve, ApproveWrite, Reject,
         RejectWrite, Replace, GiveUp

\* Where the operations of a scene that is not rearranged run one at a time, a
\* current state always names an approved take: what is lost otherwise is lost
\* to overlap alone (resolve_for_generation, rebuild_for_shot, replace_approved).
THEOREM AloneIsCurrent ==
    ASSUME \A a, b \in Actors : a = b, \A o, p \in Orders : o = p
    PROVE  Spec => []CurrentIsApproved
<1>1. Init => raced = {}
  BY DEF Init
<1>2. Inv /\ raced = {} /\ [Next]_vars => (raced = {})'
  BY StepUnraced DEF Inv
<1>3. Inv /\ raced = {} => CurrentIsApproved
  BY DEF Inv, CurrentUnlessRaced, CurrentIsApproved, Approved
<1>4. QED
  BY <1>1, <1>2, <1>3, Invariant, PTL DEF Spec
=============================================================================
