-------------------------- MODULE References_proofs --------------------------
(***************************************************************************)
(* Theorems about References, for any subjects, looks, images and number   *)
(* of actors and operations.                                               *)
(***************************************************************************)
EXTENDS References, TLAPS

Drawing == {"submit", "render", "check", "reuse", "save"}
Holding == {"check", "save", "copy"}

\* What an operation knows: whose image it brings, which execution it has, and
\* that the file it holds is no one's yet.
OpOK(a) ==
    LET o == op[a] IN
    /\ o.pc \in Drawing \cup {"edit", "mark", "register", "copy"} => o.on \in Subjects
    /\ o.pc \in Drawing => o.seen[o.on] # None
    /\ o.pc \in Drawing /\ o.on \in Characters => o.run \in Runs /\ exec[o.run].of = o.on
    /\ o.run # None => o.pc \in Drawing /\ o.on \in Characters
    /\ o.pc \in Holding \cup {"register"} => o.image \in Images
    /\ o.pc \in Holding => o.asset \in files \ Present
    /\ o.pc \in {"pin", "reuse"} => o.asset \in Present
    /\ o.pc = "reuse" => o.on \in Characters /\ asset[o.asset].of = o.on
    /\ o.pc \notin Holding \cup {"pin", "reuse"} => o.asset = None

OpsOK == \A a \in Actors : OpOK(a)

\* Two operations share neither an execution nor a file.
Distinct ==
    \A a, b \in Actors : a # b =>
        /\ op[a].run # None => op[a].run # op[b].run
        /\ op[a].pc \in Holding /\ op[b].pc \in Holding => op[a].asset # op[b].asset

-----------------------------------------------------------------------------
(* Types *)

LEMMA NewOps ==
    ASSUME TypeOK
    PROVE  /\ Idle \in Op
           /\ \A pc \in Pcs, s \in Subjects \cup {None} : Doing(pc, s, look) \in Op
           /\ NoAsset \in Asset /\ NoExec \in Exec
BY DEF TypeOK, Idle, Doing, Op, Pcs, Look, NoAsset, Asset, Maker, Review, NoExec, Exec, RunStatus

\* The records an operation becomes when it goes on.
LEMMA OpUpdates ==
    ASSUME NEW o \in Op
    PROVE  /\ \A pc \in Pcs : [o EXCEPT !.pc = pc] \in Op
           /\ \A r \in Runs : [o EXCEPT !.run = r] \in Op
           /\ \A i \in Assets : [o EXCEPT !.asset = i] \in Op
           /\ \A img \in Images : [o EXCEPT !.image = img] \in Op
           /\ \A l \in BOOLEAN : [o EXCEPT !.late = l] \in Op
           /\ \A pc \in Pcs, i \in Assets : [o EXCEPT !.pc = pc, !.asset = i] \in Op
           /\ \A pc \in Pcs, l \in BOOLEAN : [o EXCEPT !.pc = pc, !.late = l] \in Op
           /\ \A pc \in Pcs, i \in Assets, img \in Images :
                 [o EXCEPT !.pc = pc, !.asset = i, !.image = img] \in Op
           /\ \A pc \in Pcs, s \in Subjects, l \in Look :
                 [o EXCEPT !.pc = pc, !.seen = [o.seen EXCEPT ![s] = l]] \in Op
BY DEF Op

LEMMA OpsUpdate ==
    ASSUME TypeOK, NEW a \in Actors, NEW o \in Op, op' = [op EXCEPT ![a] = o]
    PROVE  op' \in [Actors -> Op]
BY DEF TypeOK

LEMMA SavedTyped ==
    ASSUME TypeOK, NEW a \in Actors, NEW s, Saved(a, s)
    PROVE  op' \in [Actors -> Op]
<1>1. Idle \in Op
    BY NewOps
<1>2. ASSUME NEW c \in Actors PROVE [op[c] EXCEPT !.late = @ \/ op[c].on = s] \in Op
    <2>1. (op[c].late \/ op[c].on = s) \in BOOLEAN
        OBVIOUS
    <2>2. op[c] \in Op
        BY DEF TypeOK
    <2> QED
        BY <2>1, <2>2, OpUpdates
<1> QED
    BY <1>1, <1>2 DEF Saved

\* The records an asset becomes.
LEMMA AssetUpdates ==
    ASSUME NEW i \in Asset
    PROVE  /\ \A b \in BOOLEAN : [i EXCEPT !.stale = b] \in Asset /\ [i EXCEPT !.pinned = b] \in Asset
           /\ \A st \in Review : [i EXCEPT !.status = st] \in Asset
BY DEF Asset

LEMMA ExecUpdates ==
    ASSUME TypeOK, NEW a, NEW st \in RunStatus, NEW out \in Assets \cup {None}
    PROVE  Settled(a, st, out) \in [Runs -> Exec]
<1>1. \A e \in Exec : [e EXCEPT !.st = st, !.out = out] \in Exec
    BY DEF Exec
<1> QED
    BY <1>1 DEF Settled, TypeOK

LEMMA MarkedTyped ==
    ASSUME TypeOK, NEW s, NEW l PROVE Marked(asset, s, l) \in [Assets -> Asset]
BY AssetUpdates DEF TypeOK, Marked

LEMMA InitTyped == Init => TypeOK
<1> SUFFICES ASSUME Init PROVE TypeOK
    OBVIOUS
<1>1. look \in [Subjects -> Look] /\ ops \in 0..MaxOps
    BY BoundAssumption DEF Init
<1>2. Idle \in Op /\ NoAsset \in Asset /\ NoExec \in Exec
    BY DEF Idle, Doing, Op, Pcs, Look, NoAsset, Asset, Maker, Review, NoExec, Exec, RunStatus
<1> QED
    BY <1>1, <1>2 DEF Init, TypeOK

LEMMA StepTyped == ASSUME TypeOK, OpsOK, [Next]_vars PROVE TypeOK'
<1> USE DEF TypeOK
<1>1. ASSUME NEW a \in Actors, EditCharacter(a) \/ EditEnvironment(a) \/ Enrich(a)
             \/ GenerateEnvironment(a) PROVE TypeOK'
    BY <1>1, NewOps, BoundAssumption
       DEF EditCharacter, EditEnvironment, Enrich, GenerateEnvironment, Begin, store, history,
           Pcs, Subjects
<1>2. ASSUME NEW a \in Actors, GenerateCharacter(a) PROVE TypeOK'
    <2>1. PICK s \in Characters, r \in Runs :
             /\ exec' = [exec EXCEPT ![r] = [NoExec EXCEPT !.st = "pending", !.of = s]]
             /\ Begin(a, [Doing("submit", s, look) EXCEPT !.run = r])
        BY <1>2 DEF GenerateCharacter
    <2>2. [NoExec EXCEPT !.st = "pending", !.of = s] \in Exec
        BY DEF NoExec, Exec, RunStatus
    <2>3. [Doing("submit", s, look) EXCEPT !.run = r] \in Op
        BY NewOps, OpUpdates DEF Pcs, Subjects
    <2> QED
        BY <1>2, <2>1, <2>2, <2>3, BoundAssumption DEF GenerateCharacter, Begin, history
<1>3. ASSUME NEW a \in Actors, Register(a) \/ Pin(a) PROVE TypeOK'
    <2>1. PICK o \in Op : Begin(a, o)
        BY <1>3, NewOps, OpUpdates DEF Register, Pin, Pcs, Present
    <2> QED
        BY <1>3, <2>1, BoundAssumption DEF Register, Pin, Begin, store, history
<1>4. ASSUME NEW a \in Actors, EditSave(a) PROVE TypeOK'
    <2>1. op[a].on \in Subjects
        BY <1>4 DEF EditSave, OpsOK, OpOK
    <2>2. PICK l \in Look :
             /\ look' = [look EXCEPT ![op[a].on] = l]
             /\ \/ op' = [op EXCEPT ![a].pc = "mark", ![a].seen[op[a].on] = l]
                \/ op' = [op EXCEPT ![a] = Idle]
             /\ drifted' \in {drifted, drifted \cup {op[a].on}}
        BY <1>4 DEF EditSave
    <2>3. CASE op' = [op EXCEPT ![a].pc = "mark", ![a].seen[op[a].on] = l]
        <3>1. op' = [op EXCEPT ![a] =
                        [op[a] EXCEPT !.pc = "mark", !.seen = [op[a].seen EXCEPT ![op[a].on] = l]]]
            BY <2>3
        <3> QED
            BY <1>4, <2>1, <2>2, <3>1, OpUpdates DEF EditSave, Pcs
    <2>4. CASE op' = [op EXCEPT ![a] = Idle]
        BY <1>4, <2>1, <2>2, <2>4, NewOps DEF EditSave
    <2> QED
        BY <2>2, <2>3, <2>4
<1>5. ASSUME NEW a \in Actors, EditMark(a) PROVE TypeOK'
    BY <1>5, NewOps, MarkedTyped DEF EditMark, OpsOK, OpOK, End
<1>6. ASSUME NEW a \in Actors, EditFail(a) PROVE TypeOK'
    BY <1>6, NewOps DEF EditFail, OpsOK, OpOK, End, store
<1>7. CASE Import
    <2> DEFINE Imported(C, bundle) ==
            /\ look' = [s \in Subjects |-> IF s \in C THEN bundle[s]
                                           ELSE IF s = Environment THEN None ELSE look[s]]
            /\ asset' = [i \in Assets |->
                            IF asset[i].of \in Changed(C, bundle)
                            THEN Marked(asset, asset[i].of, bundle[asset[i].of])[i]
                            ELSE asset[i]]
    <2>0. PICK C \in SUBSET Characters : \E bundle \in [C -> Look] : Imported(C, bundle)
        BY <1>7 DEF Import
    <2>1. PICK bundle \in [C -> Look] : Imported(C, bundle)
        BY <2>0
    <2>2. look' \in [Subjects -> Look]
        BY <2>1 DEF Look
    <2>3. asset' \in [Assets -> Asset]
        <3>1. \A i \in Assets : Marked(asset, asset[i].of, bundle[asset[i].of])[i] \in Asset
            BY MarkedTyped
        <3> QED
            BY <2>1, <3>1
    <2> QED
        BY <1>7, <2>2, <2>3, BoundAssumption DEF Import, Subjects
<1>8. ASSUME NEW a \in Actors, EnrichSave(a) PROVE TypeOK'
    BY <1>8, NewOps DEF EnrichSave, End, Deficient, Look
<1>9. ASSUME NEW a \in Actors, Submit(a) PROVE TypeOK'
    <2>1. op' = [op EXCEPT ![a] = [op[a] EXCEPT !.pc = "render"]]
        BY <1>9 DEF Submit, Go
    <2>2. exec' \in [Runs -> Exec]
        BY <1>9, ExecUpdates DEF Submit, RunStatus
    <2>3. [op[a] EXCEPT !.pc = "render"] \in Op
        BY OpUpdates DEF Pcs
    <2>4. op' \in [Actors -> Op]
        BY <2>1, <2>3, OpsUpdate
    <2> QED
        BY <1>9, <2>2, <2>4 DEF Submit, Go, history
<1>10. ASSUME NEW a \in Actors, Download(a) PROVE TypeOK'
    <2>1. PICK i \in Assets, img \in Images :
             /\ files' = files \cup {i}
             /\ op' = [op EXCEPT ![a].pc = "check", ![a].asset = i, ![a].image = img]
        BY <1>10 DEF Download, Free
    <2>2. op' = [op EXCEPT ![a] = [op[a] EXCEPT !.pc = "check", !.asset = i, !.image = img]]
        BY <2>1
    <2>3. [op[a] EXCEPT !.pc = "check", !.asset = i, !.image = img] \in Op
        BY OpUpdates DEF Pcs
    <2>4. op' \in [Actors -> Op]
        BY <2>2, <2>3, OpsUpdate
    <2> QED
        BY <1>10, <2>1, <2>4 DEF Download, history
<1>23. ASSUME NEW a \in Actors, Copy(a) PROVE TypeOK'
    <2>1. PICK i \in Assets : /\ files' = files \cup {i}
                              /\ op' = [op EXCEPT ![a].pc = "copy", ![a].asset = i]
        BY <1>23 DEF Copy, Free
    <2>2. op' = [op EXCEPT ![a] = [op[a] EXCEPT !.pc = "copy", !.asset = i]]
        BY <2>1
    <2>3. [op[a] EXCEPT !.pc = "copy", !.asset = i] \in Op
        BY OpUpdates DEF Pcs
    <2>4. op' \in [Actors -> Op]
        BY <2>2, <2>3, OpsUpdate
    <2> QED
        BY <1>23, <2>1, <2>4 DEF Copy, history
<1>11. ASSUME NEW a \in Actors, CheckRendered(a) PROVE TypeOK'
    <2>1. \/ op' = [op EXCEPT ![a] = [op[a] EXCEPT !.pc = "save", !.late = FALSE]]
          \/ \E i \in Assets : op' = [op EXCEPT ![a] = [op[a] EXCEPT !.pc = "reuse", !.asset = i]]
        BY <1>11 DEF CheckRendered, SameImage, Present
    <2>3. /\ [op[a] EXCEPT !.pc = "save", !.late = FALSE] \in Op
          /\ \A i \in Assets : [op[a] EXCEPT !.pc = "reuse", !.asset = i] \in Op
        BY OpUpdates DEF Pcs
    <2>2. op' \in [Actors -> Op]
        BY <2>1, <2>3, OpsUpdate
    <2> QED
        BY <1>11, <2>2 DEF CheckRendered, Discarded, history
<1>12. ASSUME NEW a \in Actors, Reuse(a) PROVE TypeOK'
    <2>1. exec' \in [Runs -> Exec]
        BY <1>12, ExecUpdates DEF Reuse, RunStatus, Op
    <2> QED
        BY <1>12, <2>1, NewOps DEF Reuse, End, history
<1>13. ASSUME NEW a \in Actors, SaveRendered(a) PROVE TypeOK'
    <2>1. op[a].on \in Subjects /\ op[a].asset \in Assets /\ op[a].image \in Images
        BY <1>13 DEF SaveRendered, OpsOK, OpOK, Drawing, Holding, Present
    <2>2. op[a].seen[op[a].on] \in Look
        BY <2>1 DEF Op
    <2>3. Rendered(a) \in Asset
        BY <2>1, <2>2 DEF Rendered, NoAsset, Asset, Maker, Review
    <2>4. exec' \in [Runs -> Exec]
        BY <1>13, <2>1, ExecUpdates DEF SaveRendered, RunStatus
    <2>5. op' \in [Actors -> Op]
        BY <1>13, SavedTyped DEF SaveRendered
    <2> QED
        BY <1>13, <2>1, <2>3, <2>4, <2>5 DEF SaveRendered, Unseen, Saved
<1>14. ASSUME NEW a \in Actors, CharacterFail(a) PROVE TypeOK'
    <2>1. op[a].run \in Runs
        BY <1>14 DEF CharacterFail, OpsOK, OpOK, Drawing
    <2>2. exec' \in [Runs -> Exec]
        <3>1. exec' = Settled(a, "failed", None) \/ exec' = exec
            BY <1>14 DEF CharacterFail, FailedRun
        <3>2. Settled(a, "failed", None) \in [Runs -> Exec]
            BY ExecUpdates DEF RunStatus
        <3> QED
            BY <3>1, <3>2
    <2> QED
        BY <1>14, <2>1, <2>2, NewOps DEF CharacterFail, LeftBroken, Free, End, Discarded
<1>15. ASSUME NEW a \in Actors, EnvironmentFail(a) PROVE TypeOK'
    BY <1>15, NewOps DEF EnvironmentFail, LeftBroken, Free, End, Discarded, Owned
<1>16. ASSUME NEW a \in Actors, SaveUploaded(a) PROVE TypeOK'
    <2>1. op[a].on \in Subjects /\ op[a].asset \in Assets /\ op[a].image \in Images
        BY <1>16 DEF SaveUploaded, OpsOK, OpOK, Holding, Present
    <2>2. [NoAsset EXCEPT !.of = op[a].on, !.image = op[a].image] \in Asset
        BY <2>1 DEF NoAsset, Asset, Maker, Review, Look
    <2>3. op' \in [Actors -> Op]
        BY <1>16, SavedTyped DEF SaveUploaded
    <2> QED
        BY <1>16, <2>1, <2>2, <2>3 DEF SaveUploaded, Unseen, Saved
<1>17. ASSUME NEW a \in Actors, RegisterFail(a) PROVE TypeOK'
    BY <1>17, NewOps DEF RegisterFail, LeftBroken, End, Free
<1>18. CASE Decide \/ Unpin
    <2>1. asset' \in [Assets -> Asset]
        <3>1. PICK i \in Assets : \/ \E st \in Review : asset' = [asset EXCEPT ![i] = [asset[i] EXCEPT !.status = st]]
                                 \/ asset' = [asset EXCEPT ![i] = [asset[i] EXCEPT !.pinned = FALSE]]
            BY <1>18 DEF Decide, Unpin, Present
        <3>2. asset[i] \in Asset
            OBVIOUS
        <3> QED
            BY <3>1, <3>2, AssetUpdates
    <2> QED
        BY <1>18, <2>1, BoundAssumption DEF Decide, Unpin, history
<1>19. ASSUME NEW a \in Actors, PinSave(a) PROVE TypeOK'
    BY <1>19, NewOps DEF PinSave, End, Asset, history
<1>20. ASSUME NEW a \in Actors, GiveUp(a) PROVE TypeOK'
    BY <1>20, NewOps DEF GiveUp, End, store, history
<1>21. CASE Crash
    BY <1>21, NewOps DEF Crash, At, Busy, Owned, Live, Free, OpsOK, OpOK
<1>22. CASE UNCHANGED vars
    BY <1>22 DEF vars, store, history
<1> QED
    BY <1>1, <1>2, <1>3, <1>4, <1>5, <1>6, <1>7, <1>8, <1>9, <1>10, <1>11, <1>12, <1>13, <1>14,
       <1>15, <1>16, <1>17, <1>18, <1>19, <1>20, <1>21, <1>22, <1>23 DEF Next, Step, Fail

-----------------------------------------------------------------------------
(* What a step leaves alone *)

Act(a) ==
    \/ EditCharacter(a) \/ EditEnvironment(a) \/ Enrich(a)
    \/ GenerateCharacter(a) \/ GenerateEnvironment(a) \/ Register(a) \/ Pin(a)
    \/ Step(a) \/ Fail(a)

\* An execution keeps its character, an image what it shows and, once stale, that.
RunsKept == \A r \in Runs : exec[r].of # None => exec'[r].of = exec[r].of

Kept(i) ==
    /\ asset'[i].of = asset[i].of /\ asset'[i].by = asset[i].by
    /\ asset'[i].fp = asset[i].fp /\ asset'[i].image = asset[i].image
    /\ asset[i].stale => asset'[i].stale

\* The image a saves, if it saves one.
Saving(a) == IF op[a].pc \in {"save", "copy"} THEN {op[a].asset} ELSE {}

Same(c) ==
    /\ op'[c].pc = op[c].pc /\ op'[c].on = op[c].on /\ op'[c].seen = op[c].seen
    /\ op'[c].asset = op[c].asset /\ op'[c].run = op[c].run /\ op'[c].image = op[c].image
    /\ op[c].late => op'[c].late

\* A file leaves the store only by the hands of who holds it.
FilesKept(a) == \A i \in files : i \in files' \/ (op[a].pc \in Holding /\ op[a].asset = i)

LEMMA MarkedKeeps ==
    ASSUME TypeOK, NEW s, NEW l, asset' = Marked(asset, s, l), NEW i \in Assets
    PROVE  Kept(i)
BY DEF Marked, Kept, TypeOK, Asset

LEMMA SettledKeeps ==
    ASSUME TypeOK, NEW a, NEW st, NEW out, exec' = Settled(a, st, out)
    PROVE  RunsKept
BY DEF Settled, RunsKept, TypeOK, Exec

LEMMA RunsAreKept == ASSUME TypeOK, [Next]_vars PROVE RunsKept
<1>1. ASSUME NEW a \in Actors, GenerateCharacter(a) PROVE RunsKept
    BY <1>1 DEF GenerateCharacter, RunsKept, NoExec, TypeOK
<1>2. ASSUME NEW a \in Actors, Submit(a) \/ Reuse(a) \/ SaveRendered(a) \/ CharacterFail(a)
      PROVE RunsKept
    <2>1. \/ exec' = exec
          \/ \E st \in RunStatus : \E out : exec' = Settled(a, st, out)
        BY <1>2 DEF Submit, Reuse, SaveRendered, CharacterFail, FailedRun, RunStatus
    <2> QED
        BY <2>1, SettledKeeps DEF RunsKept
<1>3. CASE exec' = exec
    BY <1>3 DEF RunsKept
<1>4. ASSUME NEW a \in Actors, Act(a) PROVE RunsKept
    BY <1>1, <1>2, <1>3, <1>4
       DEF Act, Step, Fail, EditCharacter, EditEnvironment, Enrich, GenerateEnvironment, Register,
           Pin, EditSave, EditMark, EnrichSave, Download, CheckRendered, Copy, SaveUploaded,
           PinSave, EditFail, EnvironmentFail, RegisterFail, GiveUp, store
<1> QED
    BY <1>3, <1>4 DEF Next, Act, Import, Decide, Unpin, Crash, store, vars

LEMMA ImageSaved ==
    ASSUME TypeOK, OpsOK, NEW a \in Actors, SaveRendered(a) \/ SaveUploaded(a)
    PROVE  /\ op[a].pc \in {"save", "copy"}
           /\ op[a].asset \in Assets /\ op[a].asset \in files \ Present /\ op[a].on \in Subjects
           /\ \A i \in Assets : i # op[a].asset => asset'[i] = asset[i]
           /\ asset'[op[a].asset].of = op[a].on /\ asset'[op[a].asset].image = op[a].image
<1>1. op[a].pc \in {"save", "copy"}
    BY DEF SaveRendered, SaveUploaded
<1>2. op[a].asset \in Assets /\ op[a].asset \in files \ Present /\ op[a].on \in Subjects
    BY <1>1 DEF OpsOK, OpOK, Holding, Drawing, TypeOK
<1>3. CASE SaveRendered(a)
    <2>1. /\ asset' = [asset EXCEPT ![op[a].asset] = Rendered(a)]
          /\ Rendered(a).of = op[a].on /\ Rendered(a).image = op[a].image
        BY <1>3 DEF SaveRendered, Rendered, NoAsset
    <2> QED
        BY <1>1, <1>2, <2>1 DEF TypeOK
<1>4. CASE SaveUploaded(a)
    <2> DEFINE n == [NoAsset EXCEPT !.of = op[a].on, !.image = op[a].image]
    <2>1. /\ asset' = [asset EXCEPT ![op[a].asset] = n]
          /\ n.of = op[a].on /\ n.image = op[a].image
        BY <1>4 DEF SaveUploaded, NoAsset
    <2> HIDE DEF n
    <2> QED
        BY <1>1, <1>2, <2>1 DEF TypeOK
<1> QED
    BY <1>3, <1>4

LEMMA AssetsAreKept ==
    ASSUME TypeOK, OpsOK, [Next]_vars
    PROVE  /\ \A i \in Present : Kept(i)
           /\ Present \subseteq Present'
<1> SUFFICES \A i \in Present : Kept(i)
    BY DEF Present, Kept, TypeOK
<1>1. CASE asset' = asset
    BY <1>1 DEF Kept
<1>2. CASE Import
    <2>1. PICK C \in SUBSET Characters : \E bundle \in [C -> Look] :
             asset' = [i \in Assets |-> IF asset[i].of \in Changed(C, bundle)
                                        THEN Marked(asset, asset[i].of, bundle[asset[i].of])[i]
                                        ELSE asset[i]]
        BY <1>2 DEF Import
    <2>2. PICK bundle \in [C -> Look] :
             asset' = [i \in Assets |-> IF asset[i].of \in Changed(C, bundle)
                                        THEN Marked(asset, asset[i].of, bundle[asset[i].of])[i]
                                        ELSE asset[i]]
        BY <2>1
    <2>3. \A i \in Assets : Kept(i)
        BY <2>2 DEF Marked, Kept, TypeOK, Asset
    <2> QED
        BY <1>2, <2>3 DEF Import, Present
<1>3. CASE Decide \/ Unpin
    <2>1. \A i \in Assets : Kept(i)
        BY <1>3 DEF Decide, Unpin, Kept, Present, TypeOK, Asset
    <2> QED
        BY <1>3, <2>1 DEF Decide, Unpin, Present
<1>4. ASSUME NEW a \in Actors, Act(a) PROVE \A i \in Present : Kept(i)
    <2>1. CASE EditMark(a)
        BY <2>1, MarkedKeeps DEF EditMark, Present
    <2>2. CASE SaveRendered(a) \/ SaveUploaded(a)
        BY <2>2, ImageSaved DEF Kept, Present
    <2>3. CASE PinSave(a)
        BY <2>3 DEF PinSave, Kept, Present, TypeOK, Asset
    <2> QED
        BY <1>1, <1>4, <2>1, <2>2, <2>3
           DEF Act, Step, Fail, EditCharacter, EditEnvironment, Enrich, GenerateCharacter,
               GenerateEnvironment, Register, Pin, EditSave, EnrichSave, Submit, Download,
               CheckRendered, Reuse, Copy, EditFail, CharacterFail, EnvironmentFail, RegisterFail,
               GiveUp, store
<1> QED
    BY <1>1, <1>2, <1>3, <1>4 DEF Next, Act, Crash, vars, store

\* Who becomes present: the image that the actor of the step saves, if any.
LEMMA NewPresent ==
    ASSUME TypeOK, OpsOK, NEW a \in Actors, Act(a)
    PROVE  Present' \subseteq Present \cup Saving(a)
<1>1. CASE asset' = asset
    BY <1>1 DEF Present
<1>2. CASE EditMark(a)
    <2>1. \A i \in Assets : Kept(i)
        BY <1>2, MarkedKeeps DEF EditMark
    <2> QED
        BY <2>1 DEF Present, Kept
<1>3. CASE SaveRendered(a) \/ SaveUploaded(a)
    BY <1>3, ImageSaved DEF Saving, Present
<1>4. CASE PinSave(a)
    BY <1>4 DEF PinSave, Present, TypeOK, Asset
<1> QED
    BY <1>1, <1>2, <1>3, <1>4
       DEF Act, Step, Fail, EditCharacter, EditEnvironment, Enrich, GenerateCharacter,
           GenerateEnvironment, Register, Pin, EditSave, EnrichSave, Submit, Download,
           CheckRendered, Reuse, Copy, EditFail, CharacterFail, EnvironmentFail, RegisterFail,
           GiveUp, store

LEMMA NoNewPresent ==
    ASSUME TypeOK, Import \/ Decide \/ Unpin PROVE Present' \subseteq Present
<1>1. CASE Import
    <2>1. PICK C \in SUBSET Characters : \E bundle \in [C -> Look] :
             asset' = [i \in Assets |-> IF asset[i].of \in Changed(C, bundle)
                                        THEN Marked(asset, asset[i].of, bundle[asset[i].of])[i]
                                        ELSE asset[i]]
        BY <1>1 DEF Import
    <2> QED
        BY <2>1 DEF Marked, Present, TypeOK, Asset
<1>2. CASE Decide \/ Unpin
    BY <1>2 DEF Decide, Unpin, Present, TypeOK, Asset
<1> QED
    BY <1>1, <1>2

\* The others go on with what they had.
LEMMA OthersSame ==
    ASSUME TypeOK, NEW a \in Actors, Act(a), NEW c \in Actors, c # a
    PROVE  Same(c)
<1>1. CASE op'[c] = op[c]
    BY <1>1 DEF Same
<1>2. ASSUME NEW s, Saved(a, s) PROVE Same(c)
    <2>1. op'[c] = [op[c] EXCEPT !.late = @ \/ op[c].on = s]
        BY <1>2 DEF Saved
    <2> QED
        BY <2>1 DEF Same, TypeOK, Op
<1>3. CASE \E o : op' = [op EXCEPT ![a] = o]
    BY <1>1, <1>3 DEF TypeOK
<1>4. CASE SaveRendered(a) \/ SaveUploaded(a)
    BY <1>2, <1>4 DEF SaveRendered, SaveUploaded
<1>5. CASE EditSave(a)
    BY <1>1, <1>5 DEF EditSave, TypeOK
<1>6. CASE Submit(a) \/ Download(a) \/ CheckRendered(a) \/ Copy(a)
    BY <1>1, <1>6 DEF Submit, Go, Download, CheckRendered, Copy, TypeOK
<1> QED
    BY <1>3, <1>4, <1>5, <1>6
       DEF Act, Step, Fail, Begin, End, EditCharacter, EditEnvironment, Enrich, GenerateCharacter,
           GenerateEnvironment, Register, Pin, EditMark, EnrichSave, Reuse, PinSave, EditFail,
           CharacterFail, EnvironmentFail, RegisterFail, GiveUp

LEMMA FilesAreKept ==
    ASSUME TypeOK, OpsOK, NEW a \in Actors, Act(a) PROVE FilesKept(a)
<1>1. CASE files \subseteq files'
    BY <1>1 DEF FilesKept
<1>2. CASE files' = files \ Discarded(a) /\ op[a].pc \in Holding
    BY <1>2 DEF FilesKept, Discarded
<1>3. CASE CharacterFail(a) \/ EnvironmentFail(a) \/ CheckRendered(a)
    BY <1>1, <1>2, <1>3 DEF CharacterFail, EnvironmentFail, LeftBroken, CheckRendered, Holding
<1>4. CASE RegisterFail(a)
    BY <1>1, <1>2, <1>4 DEF RegisterFail, LeftBroken, Discarded, Holding
<1> QED
    BY <1>1, <1>3, <1>4
       DEF Act, Step, Fail, EditCharacter, EditEnvironment, Enrich, GenerateCharacter,
           GenerateEnvironment, Register, Pin, EditMark, EditSave, EnrichSave, Submit, Download,
           Reuse, Copy, SaveRendered, SaveUploaded, PinSave, EditFail, GiveUp, store

\* What another operation knows stays true.
LEMMA OthersOK ==
    ASSUME TypeOK, OpsOK, Distinct, [Next]_vars, NEW a \in Actors, Act(a),
           NEW c \in Actors, c # a
    PROVE  OpOK(c)'
<1>1. OpOK(c) /\ Same(c) /\ RunsKept
    BY OthersSame, RunsAreKept DEF OpsOK
<1>2. \A i \in Present : i \in Present' /\ asset'[i].of = asset[i].of
    BY AssetsAreKept DEF Kept
<1>3. op[c].pc \in Holding => op[c].asset \in files' \ Present'
    <2>1. SUFFICES ASSUME op[c].pc \in Holding PROVE op[c].asset \in files' \ Present'
        OBVIOUS
    <2>2. op[c].asset \in files /\ op[c].asset \notin Present
        BY <1>1, <2>1 DEF OpOK
    <2>3. op[a].pc \in Holding => op[a].asset # op[c].asset
        BY <2>1 DEF Distinct
    <2>4. op[c].asset \notin Saving(a)
        BY <2>3 DEF Saving, Holding
    <2> QED
        BY <2>2, <2>3, <2>4, FilesAreKept, NewPresent DEF FilesKept
<1>4. op[c].pc \in Drawing /\ op[c].on \in Characters => exec'[op[c].run].of = op[c].on
    BY <1>1, NoneAssumption DEF OpOK, RunsKept, Subjects
<1> QED
    BY <1>1, <1>2, <1>3, <1>4 DEF OpOK, Same

-----------------------------------------------------------------------------
(* What an operation knows after its own step *)

\* An execution or a file that is new to a is new to everyone.
FreshOnly(a) ==
    /\ \/ op'[a].run = None \/ op'[a].run = op[a].run
       \/ op'[a].run \in Runs /\ exec[op'[a].run] = NoExec
    /\ op'[a].pc \in Holding =>
          \/ op[a].pc \in Holding /\ op'[a].asset = op[a].asset
          \/ op'[a].asset \notin files

OwnOK(a) == OpOK(a)' /\ FreshOnly(a)

LEMMA EndsOK ==
    ASSUME TypeOK, NEW a \in Actors, op'[a] = Idle PROVE OwnOK(a)
BY DEF OwnOK, FreshOnly, OpOK, Idle, Doing, Drawing, Holding

LEMMA OwnStep ==
    ASSUME TypeOK, OpsOK, [Next]_vars, NEW a \in Actors, Act(a) PROVE OwnOK(a)
<1> USE DEF OwnOK, FreshOnly, Drawing, Holding
<1>0. OpOK(a) /\ \A i \in Present : i \in Present' /\ asset'[i].of = asset[i].of
    BY AssetsAreKept DEF OpsOK, Kept
<1>1. CASE End(a)
    BY <1>1, EndsOK DEF End, TypeOK
<1>2. CASE EditCharacter(a) \/ EditEnvironment(a) \/ Enrich(a)
    <2>1. \E pc \in {"edit", "enrich"}, s \in Subjects \cup {None} :
             /\ op'[a] = Doing(pc, s, look)
             /\ pc = "edit" => s \in Subjects
        BY <1>2 DEF EditCharacter, EditEnvironment, Enrich, Begin, Subjects, TypeOK
    <2> QED
        BY <2>1 DEF OpOK, Doing
<1>3. CASE GenerateCharacter(a)
    <2>1. PICK s \in Characters, r \in Runs :
             /\ look[s] # None
             /\ exec[r] = NoExec
             /\ exec' = [exec EXCEPT ![r] = [NoExec EXCEPT !.st = "pending", !.of = s]]
             /\ op'[a] = [Doing("submit", s, look) EXCEPT !.run = r]
        BY <1>3 DEF GenerateCharacter, Begin, TypeOK, Described
    <2>2. exec'[r].of = s
        BY <2>1 DEF TypeOK, NoExec
    <2> QED
        BY <2>1, <2>2 DEF OpOK, Doing, Subjects
<1>4. CASE GenerateEnvironment(a)
    <2>1. op'[a] = Doing("submit", Environment, look) /\ look[Environment] # None
        BY <1>4 DEF GenerateEnvironment, Begin, TypeOK, Described
    <2> QED
        BY <2>1, SubjectsAssumption DEF OpOK, Doing, Subjects
<1>5. CASE Register(a)
    <2>1. PICK s \in Subjects, img \in Images :
             op'[a] = [Doing("register", s, look) EXCEPT !.image = img]
        BY <1>5 DEF Register, Begin, TypeOK
    <2> QED
        BY <2>1 DEF OpOK, Doing
<1>6. CASE Pin(a)
    <2>1. PICK i \in Present : op'[a] = [Doing("pin", None, look) EXCEPT !.asset = i]
        BY <1>6 DEF Pin, Begin, TypeOK
    <2> QED
        BY <1>0, <2>1 DEF OpOK, Doing
<1>7. CASE EditSave(a)
    <2>1. \/ op'[a] = Idle
          \/ /\ op[a].pc = "edit" /\ op'[a].pc = "mark" /\ op'[a].on = op[a].on
             /\ op'[a].run = op[a].run /\ op'[a].asset = op[a].asset
        BY <1>7 DEF EditSave, TypeOK, Op
    <2> QED
        BY <1>0, <2>1, EndsOK DEF OpOK
<1>8. CASE Submit(a)
    <2>1. /\ op[a].pc = "submit" /\ op'[a].pc = "render" /\ op'[a].on = op[a].on
          /\ op'[a].seen = op[a].seen /\ op'[a].run = op[a].run /\ op'[a].asset = op[a].asset
        BY <1>8 DEF Submit, Go, TypeOK, Op
    <2> QED
        BY <1>0, <2>1, RunsAreKept, NoneAssumption DEF OpOK, RunsKept, Subjects
<1>9. CASE Download(a)
    <2>1. PICK i \in Free, img \in Images :
             /\ files' = files \cup {i}
             /\ op' = [op EXCEPT ![a].pc = "check", ![a].asset = i, ![a].image = img]
        BY <1>9 DEF Download
    <2>2. /\ op'[a].pc = "check" /\ op'[a].asset = i /\ op'[a].image = img
          /\ op'[a].on = op[a].on /\ op'[a].seen = op[a].seen /\ op'[a].run = op[a].run
        BY <2>1 DEF TypeOK, Op
    <2>3. op[a].pc = "render" /\ asset' = asset /\ exec' = exec
        BY <1>9 DEF Download
    <2> QED
        BY <1>0, <2>1, <2>2, <2>3 DEF OpOK, Free, Present
<1>12. CASE Copy(a)
    <2>1. PICK i \in Free : /\ files' = files \cup {i}
                            /\ op' = [op EXCEPT ![a].pc = "copy", ![a].asset = i]
        BY <1>12 DEF Copy
    <2>2. /\ op'[a].pc = "copy" /\ op'[a].asset = i /\ op'[a].image = op[a].image
          /\ op'[a].on = op[a].on /\ op'[a].seen = op[a].seen /\ op'[a].run = op[a].run
        BY <2>1 DEF TypeOK, Op
    <2>3. op[a].pc = "register" /\ asset' = asset /\ exec' = exec
        BY <1>12 DEF Copy
    <2> QED
        BY <1>0, <2>1, <2>2, <2>3 DEF OpOK, Free, Present
<1>10. CASE CheckRendered(a)
    <2>1. /\ op[a].pc = "check" /\ asset' = asset /\ exec' = exec
          /\ op'[a].on = op[a].on /\ op'[a].seen = op[a].seen /\ op'[a].run = op[a].run
          /\ op'[a].image = op[a].image
          /\ \/ op'[a].pc = "save" /\ op'[a].asset = op[a].asset /\ files' = files
             \/ op'[a].pc = "reuse" /\ op'[a].asset \in SameImage(op[a].on, op[a].image)
        BY <1>10 DEF CheckRendered, TypeOK, Op
    <2>2. CASE op'[a].pc = "save"
        BY <1>0, <2>1, <2>2 DEF OpOK, Present
    <2>3. CASE op'[a].pc = "reuse"
        <3>1. /\ op'[a].asset \in Present /\ asset[op'[a].asset].of = op[a].on
              /\ op[a].on # Environment
            BY <2>1, <2>3 DEF SameImage
        <3> QED
            BY <1>0, <2>1, <2>3, <3>1 DEF OpOK, Present, Subjects
    <2> QED
        BY <2>1, <2>2, <2>3
<1>11. CASE SaveRendered(a) \/ SaveUploaded(a)
    BY <1>11, EndsOK DEF SaveRendered, SaveUploaded, Saved
<1> QED
    BY <1>1, <1>2, <1>3, <1>4, <1>5, <1>6, <1>7, <1>8, <1>9, <1>10, <1>11, <1>12
       DEF Act, Step, Fail, EditMark, EnrichSave, Reuse, PinSave, EditFail, CharacterFail,
           EnvironmentFail, RegisterFail, GiveUp

LEMMA StepKnows ==
    ASSUME TypeOK, OpsOK, Distinct, [Next]_vars PROVE OpsOK' /\ Distinct'
<1>1. ASSUME NEW a \in Actors, Act(a) PROVE OpsOK' /\ Distinct'
    <2>1. OpsOK'
        BY <1>1, OwnStep, OthersOK DEF OpsOK, OwnOK
    <2>2. \A c \in Actors \ {a} : Same(c)
        BY <1>1, OthersSame
    <2>3. FreshOnly(a)
        BY <1>1, OwnStep DEF OwnOK
    <2>4. ASSUME NEW c \in Actors, c # a
          PROVE  /\ op'[c].run # None => op'[a].run # op'[c].run
                 /\ op'[a].pc \in Holding /\ op'[c].pc \in Holding => op'[a].asset # op'[c].asset
        <3>1. op[c].run # None => op[c].run \in Runs /\ exec[op[c].run] # NoExec
            BY NoneAssumption DEF OpsOK, OpOK, NoExec, Subjects
        <3>2. op[c].pc \in Holding => op[c].asset \in files
            BY DEF OpsOK, OpOK
        <3>3. Same(c)
            BY <2>2, <2>4
        <3> QED
            BY <2>3, <2>4, <3>1, <3>2, <3>3 DEF FreshOnly, Same, Distinct
    <2>5. Distinct'
        BY <2>2, <2>4 DEF Distinct, Same
    <2> QED
        BY <2>1, <2>5
<1>2. CASE op' = op /\ (\A i \in Present' : i \in Present) /\ files' = files
    <2>1. \A i \in Present : i \in Present' /\ asset'[i].of = asset[i].of
        BY AssetsAreKept DEF Kept
    <2>2. \A c \in Actors : op[c].pc \in Drawing /\ op[c].on \in Characters
                                => exec'[op[c].run].of = op[c].on
        BY RunsAreKept, NoneAssumption DEF OpsOK, OpOK, RunsKept, Subjects
    <2>3. OpsOK'
        BY <1>2, <2>1, <2>2 DEF OpsOK, OpOK
    <2> QED
        BY <1>2, <2>3 DEF Distinct
<1>3. CASE Crash
    <2>1. \A a \in Actors : op'[a] = Idle
        BY <1>3 DEF Crash
    <2>2. OpsOK'
        BY <2>1, EndsOK DEF OpsOK, OwnOK
    <2>3. Distinct'
        BY <2>1 DEF Distinct, Idle, Doing, Holding
    <2> QED
        BY <2>2, <2>3
<1>4. CASE Import
    BY <1>2, <1>4, NoNewPresent DEF Import
<1>5. CASE Decide \/ Unpin
    BY <1>2, <1>5, NoNewPresent DEF Decide, Unpin
<1>6. CASE UNCHANGED vars
    BY <1>2, <1>6 DEF vars, store, Present
<1> QED
    BY <1>1, <1>3, <1>4, <1>5, <1>6 DEF Next, Act

-----------------------------------------------------------------------------
(* Executions *)

\* What a step makes of an execution: nothing, or it is begun by the actor, or
\* it is the actor's own.
ExecMove(a, r) ==
    \/ /\ exec'[r] = exec[r]
       /\ op[a].run = r => r \in abandoned' \/ op'[a].run = r
    \/ exec'[r].st = "pending" /\ op'[a].run = r
    \/ /\ op[a].run = r /\ exec'[r].of = exec[r].of
       /\ \/ exec'[r].st = "running" /\ op'[a].run = r
          \/ exec'[r].st = "failed"
          \/ /\ exec'[r].st = "succeeded" /\ exec'[r].out \in Present'
             /\ asset'[exec'[r].out].of = exec'[r].of

LEMMA StepExec ==
    ASSUME TypeOK, OpsOK, [Next]_vars, NEW a \in Actors, Act(a), NEW r \in Runs
    PROVE  ExecMove(a, r)
<1>0. OpOK(a) /\ None \notin Runs /\ exec \in [Runs -> Exec]
    BY NoneAssumption DEF OpsOK, TypeOK
<1>1. CASE exec' = exec /\ op[a].run = None
    BY <1>0, <1>1 DEF ExecMove
<1>2. CASE GenerateCharacter(a)
    <2>1. PICK s \in Characters, q \in Runs :
             /\ exec' = [exec EXCEPT ![q] = [NoExec EXCEPT !.st = "pending", !.of = s]]
             /\ op'[a] = [Doing("submit", s, look) EXCEPT !.run = q]
        BY <1>2 DEF GenerateCharacter, Begin, TypeOK
    <2>2. op[a].run = None
        BY <1>0, <1>2 DEF GenerateCharacter, Begin, OpOK, Drawing
    <2> QED
        BY <1>0, <2>1, <2>2 DEF ExecMove, NoExec, Doing
<1>3. CASE Submit(a)
    <2>1. op'[a].run = op[a].run
        BY <1>3 DEF Submit, Go, TypeOK, Op
    <2> QED
        BY <1>0, <1>3, <2>1 DEF Submit, Settled, ExecMove, Exec
<1>4. CASE Download(a) \/ CheckRendered(a)
    <2>1. CASE Download(a)
        <3>1. \E i, img : op' = [op EXCEPT ![a].pc = "check", ![a].asset = i, ![a].image = img]
            BY <2>1 DEF Download
        <3> QED
            BY <2>1, <3>1 DEF Download, ExecMove, TypeOK, Op
    <2>2. CASE CheckRendered(a)
        BY <2>2 DEF CheckRendered, ExecMove, TypeOK, Op
    <2> QED
        BY <1>4, <2>1, <2>2
<1>5. CASE Reuse(a)
    <2>1. op[a].asset \in Present /\ asset[op[a].asset].of = op[a].on /\ op[a].on \in Characters
        BY <1>0, <1>5 DEF Reuse, OpOK
    <2>2. op[a].run \in Runs /\ exec[op[a].run].of = op[a].on
        BY <1>0, <1>5, <2>1 DEF Reuse, OpOK, Drawing
    <2>3. asset' = asset /\ exec' = Settled(a, "succeeded", op[a].asset)
        BY <1>5 DEF Reuse
    <2> QED
        BY <1>0, <2>1, <2>2, <2>3 DEF Settled, ExecMove, Exec, Present
<1>6. CASE SaveRendered(a)
    <2>1. /\ op[a].asset \in Assets /\ op[a].on \in Subjects
          /\ asset'[op[a].asset].of = op[a].on
        BY <1>6, ImageSaved
    <2>2. op[a].asset \in Present'
        BY <2>1, NoneAssumption DEF Present
    <2>3. exec' = Settled(a, "succeeded", op[a].asset) /\ op[a].pc = "save"
        BY <1>6 DEF SaveRendered
    <2>4. CASE op[a].run = r
        <3>1. exec[r].of = op[a].on
            BY <1>0, <2>3, <2>4 DEF OpOK, Drawing
        <3> QED
            BY <1>0, <2>1, <2>2, <2>3, <2>4, <3>1 DEF Settled, ExecMove, Exec
    <2>5. CASE op[a].run # r
        BY <2>3, <2>5 DEF Settled, ExecMove
    <2> QED
        BY <2>4, <2>5
<1>7. CASE CharacterFail(a)
    <2>1. CASE exec' = FailedRun(a)
        BY <1>0, <2>1 DEF FailedRun, Settled, ExecMove, Exec
    <2>2. CASE exec' = exec /\ abandoned' = abandoned \cup {op[a].run}
        BY <2>2 DEF ExecMove
    <2> QED
        BY <1>7, <2>1, <2>2 DEF CharacterFail
<1>8. CASE EditCharacter(a) \/ EditEnvironment(a) \/ Enrich(a) \/ GenerateEnvironment(a)
           \/ Register(a) \/ Pin(a)
    BY <1>0, <1>1, <1>8
       DEF EditCharacter, EditEnvironment, Enrich, GenerateEnvironment, Register, Pin, Begin,
           OpOK, Drawing, store
<1>9. CASE EditSave(a) \/ EditMark(a) \/ EnrichSave(a) \/ Copy(a) \/ SaveUploaded(a)
           \/ PinSave(a) \/ EditFail(a) \/ RegisterFail(a) \/ GiveUp(a)
    BY <1>0, <1>1, <1>9
       DEF EditSave, EditMark, EnrichSave, Copy, SaveUploaded, PinSave, EditFail, RegisterFail,
           GiveUp, OpOK, Drawing, store
<1>10. CASE EnvironmentFail(a)
    BY <1>0, <1>1, <1>10, SubjectsAssumption DEF EnvironmentFail, OpOK
<1> QED
    BY <1>2, <1>3, <1>4, <1>5, <1>6, <1>7, <1>8, <1>9, <1>10 DEF Act, Step, Fail

LEMMA StepOwners ==
    ASSUME TypeOK, OpsOK, LiveHasOwner, [Next]_vars PROVE LiveHasOwner'
<1>1. ASSUME NEW a \in Actors, Act(a) PROVE LiveHasOwner'
    <2>1. abandoned \subseteq abandoned'
        BY <1>1
           DEF Act, Step, Fail, EditCharacter, EditEnvironment, Enrich, GenerateCharacter,
               GenerateEnvironment, Register, Pin, EditSave, EditMark, EnrichSave, Submit, Download,
               CheckRendered, Reuse, SaveRendered, SaveUploaded, PinSave, Copy, EditFail,
               CharacterFail, EnvironmentFail, RegisterFail, GiveUp, store, history
    <2>2. ASSUME NEW r \in Live' PROVE r \in abandoned' \/ \E b \in Actors : op'[b].run = r
        <3>1. r \in Runs /\ ExecMove(a, r) /\ exec'[r].st \in {"pending", "running"}
            BY <1>1, <2>2, StepExec DEF Live
        <3>2. CASE exec'[r] = exec[r]
            <4>1. r \in abandoned \/ \E b \in Actors : op[b].run = r
                BY <3>1, <3>2 DEF LiveHasOwner, Live
            <4>2. \A b \in Actors \ {a} : op'[b].run = op[b].run
                BY <1>1, OthersSame DEF Same
            <4> QED
                BY <2>1, <3>1, <4>1, <4>2 DEF ExecMove
        <3> QED
            BY <3>1, <3>2 DEF ExecMove
    <2> QED
        BY <2>2 DEF LiveHasOwner
<1>2. CASE Crash
    BY <1>2 DEF Crash, LiveHasOwner, Live, store
<1> QED
    BY <1>1, <1>2 DEF Next, Act, Import, Decide, Unpin, vars, store, history, LiveHasOwner, Live

LEMMA StepSucceeded ==
    ASSUME TypeOK, OpsOK, SucceededHasAsset, [Next]_vars PROVE SucceededHasAsset'
<1>1. \A i \in Present : i \in Present' /\ asset'[i].of = asset[i].of
    BY AssetsAreKept DEF Kept
<1>2. ASSUME NEW a \in Actors, Act(a) PROVE SucceededHasAsset'
    BY <1>1, <1>2, StepExec DEF ExecMove, SucceededHasAsset
<1>3. CASE exec' = exec
    BY <1>1, <1>3 DEF SucceededHasAsset
<1> QED
    BY <1>2, <1>3 DEF Next, Act, Import, Decide, Unpin, Crash, vars, store

-----------------------------------------------------------------------------
(* Files *)

\* What an operation holds when it does not hold a file of its own is present.
LEMMA HeldOrPresent ==
    ASSUME TypeOK, OpsOK, NEW a \in Actors, op[a].pc \notin Holding
    PROVE  Owned(a) \subseteq Present
BY NoneAssumption DEF OpsOK, OpOK, Owned, TypeOK

LEMMA StepFiles ==
    ASSUME TypeOK, OpsOK, Distinct, FilesAccounted, [Next]_vars PROVE FilesAccounted'
<1>1. ASSUME NEW a \in Actors, Act(a) PROVE FilesAccounted'
    <2>0. /\ FilesKept(a) /\ Present' \subseteq Present \cup Saving(a)
          /\ Present \subseteq Present' /\ OpOK(a) /\ OwnOK(a)
        BY <1>1, FilesAreKept, NewPresent, AssetsAreKept, OwnStep DEF OpsOK
    <2>1. Present' \subseteq files'
        <3>1. op[a].pc \in {"save", "copy"} /\ Present' # Present => files' = files
            BY <1>1
               DEF Act, Step, Fail, EditCharacter, EditEnvironment, Enrich, GenerateCharacter,
                   GenerateEnvironment, Register, Pin, EditSave, EditMark, EnrichSave, Submit,
                   Download, CheckRendered, Reuse, SaveRendered, SaveUploaded, PinSave, Copy,
                   EditFail, CharacterFail, EnvironmentFail, RegisterFail, GiveUp, Begin, Present
        <3> QED
            BY <2>0, <3>1 DEF FilesKept, FilesAccounted, Saving, OpOK, Holding
    <2>2. lost \subseteq lost'
        BY <1>1
           DEF LeftBroken, Act, Step, Fail, EditCharacter, EditEnvironment, Enrich, GenerateCharacter,
               GenerateEnvironment, Register, Pin, EditSave, EditMark, EnrichSave, Submit, Download,
               CheckRendered, Reuse, SaveRendered, SaveUploaded, PinSave, Copy, EditFail,
               CharacterFail, EnvironmentFail, RegisterFail, GiveUp, store, history
    \* The file of the actor itself.
    <2>3. op[a].pc \in Holding =>
             \/ op[a].asset \notin files' \/ op[a].asset \in Present' \cup lost'
             \/ op'[a].pc \in Holding /\ op'[a].asset = op[a].asset
        <3>1. CASE SaveRendered(a) \/ SaveUploaded(a)
            BY <3>1, ImageSaved, NoneAssumption DEF Present
        <3>2. CASE CheckRendered(a)
            <4>1. \/ op'[a].pc = "save" /\ op'[a].asset = op[a].asset
                  \/ files' = files \ {op[a].asset}
                BY <3>2 DEF CheckRendered, Discarded, TypeOK, Op
            <4> QED
                BY <4>1 DEF Holding
        <3>3. CASE CharacterFail(a) \/ EnvironmentFail(a) \/ RegisterFail(a)
            BY <2>0, <3>3
               DEF CharacterFail, EnvironmentFail, RegisterFail, Discarded, Owned, OpOK, Holding
        <3> QED
            BY <1>1, <3>1, <3>2, <3>3
               DEF Act, Step, Fail, EditCharacter, EditEnvironment, Enrich, GenerateCharacter,
                   GenerateEnvironment, Register, Pin, Begin, EditSave, EditMark, EnrichSave,
                   Submit, Download, Reuse, Copy, PinSave, EditFail, GiveUp, Holding
    \* A new file is the actor's, or lost at once.
    <2>4. \A i \in files' \ files : i \in lost' \/ (op'[a].pc # "idle" /\ op'[a].asset = i)
        <3>1. CASE Download(a)
            BY <3>1 DEF Download, TypeOK, Op
        <3>2. CASE Copy(a)
            BY <3>2 DEF Copy, TypeOK, Op
        <3>3. CASE CharacterFail(a) \/ EnvironmentFail(a) \/ RegisterFail(a)
            BY <3>3 DEF CharacterFail, EnvironmentFail, RegisterFail, LeftBroken
        <3> QED
            BY <1>1, <3>1, <3>2, <3>3
               DEF Act, Step, Fail, EditCharacter, EditEnvironment, Enrich, GenerateCharacter,
                   GenerateEnvironment, Register, Pin, EditSave, EditMark, EnrichSave, Submit,
                   CheckRendered, Reuse, SaveRendered, SaveUploaded, PinSave, EditFail, GiveUp, store
    <2>5. ASSUME NEW i \in files' \ Present', i \notin lost'
          PROVE  \E b \in Actors : op'[b].pc # "idle" /\ op'[b].asset = i
        <3>1. CASE i \notin files
            BY <2>4, <2>5, <3>1
        <3>2. CASE i \in files
            <4>1. PICK b \in Actors : op[b].pc # "idle" /\ op[b].asset = i /\ i \notin Present
                BY <2>0, <2>2, <2>5, <3>2 DEF FilesAccounted, Busy, Owned
            <4>2. op[b].pc \in Holding
                BY <4>1, <3>2, HeldOrPresent DEF Owned
            <4>3. CASE b = a
                BY <2>3, <2>5, <4>1, <4>2, <4>3 DEF Holding
            <4>4. CASE b # a
                BY <1>1, <4>1, <4>4, OthersSame DEF Same
            <4> QED
                BY <4>3, <4>4
        <3> QED
            BY <3>1, <3>2
    <2> QED
        BY <2>1, <2>5 DEF FilesAccounted, Busy, Owned
<1>2. CASE Crash
    <2>1. Present' = Present /\ files \subseteq files' /\ files' \ files \subseteq lost'
        BY <1>2 DEF Crash, Present
    <2>2. ASSUME NEW i \in files \ Present PROVE i \in lost'
        <3>1. CASE i \in lost
            BY <1>2, <3>1 DEF Crash
        <3>2. CASE i \notin lost
            <4>1. PICK b \in Busy : i \in Owned(b)
                BY <2>2, <3>2 DEF FilesAccounted
            <4>2. op[b].pc \in Holding
                BY <2>2, <4>1, HeldOrPresent DEF Busy
            <4> QED
                BY <1>2, <4>1, <4>2 DEF Crash, At, Busy, Holding
        <3> QED
            BY <3>1, <3>2
    <2> QED
        BY <2>1, <2>2 DEF FilesAccounted
<1>3. CASE files' = files /\ Present' = Present /\ op' = op /\ lost' = lost
    BY <1>3 DEF FilesAccounted, Busy, Owned
<1>4. CASE Import \/ Decide \/ Unpin
    <2>1. Present \subseteq Present' /\ files' = files /\ op' = op /\ lost' = lost
        BY <1>4, AssetsAreKept DEF Import, Decide, Unpin, history
    <2>2. Present' \subseteq Present
        BY <1>4, NoNewPresent
    <2> QED
        BY <1>3, <2>1, <2>2
<1> QED
    BY <1>1, <1>2, <1>3, <1>4 DEF Next, Act, vars, store, history, Present

-----------------------------------------------------------------------------
(* Duplicates *)

\* Who is about to save an image, and was not overtaken since it looked, saves
\* the first of its kind.
Looked(a) ==
    op[a].pc \in {"save", "register", "copy"} /\ ~op[a].late => SameImage(op[a].on, op[a].image) = {}

LookedAll == \A a \in Actors : Looked(a)

\* The images of a kind after a step of a.
LEMMA SameImageGrows ==
    ASSUME TypeOK, OpsOK, [Next]_vars, NEW a \in Actors, Act(a), NEW s \in Subjects, NEW img
    PROVE  \/ SameImage(s, img)' = SameImage(s, img)
           \/ Saved(a, op[a].on) /\ s = op[a].on
<1>1. CASE \A i \in Present' : i \in Present
    BY <1>1, AssetsAreKept DEF SameImage, Kept
<1>2. CASE SaveRendered(a) \/ SaveUploaded(a)
    <2>1. Saved(a, op[a].on)
        BY <1>2 DEF SaveRendered, SaveUploaded
    <2>2. CASE s # op[a].on
        BY <1>2, <2>2, ImageSaved DEF SameImage, Present
    <2> QED
        BY <2>1, <2>2
<1>3. CASE asset' = asset
    BY <1>1, <1>3 DEF Present
<1>4. CASE EditMark(a) \/ PinSave(a)
    BY <1>1, <1>4, NewPresent DEF EditMark, PinSave, Saving
<1> QED
    BY <1>2, <1>3, <1>4
       DEF Act, Step, Fail, EditCharacter, EditEnvironment, Enrich, GenerateCharacter,
           GenerateEnvironment, Register, Pin, EditSave, EnrichSave, Submit, Download,
           CheckRendered, Reuse, Copy, EditFail, CharacterFail, EnvironmentFail, RegisterFail,
           GiveUp, store

LEMMA StepLooked ==
    ASSUME TypeOK, OpsOK, LookedAll, [Next]_vars PROVE LookedAll'
<1>1. ASSUME NEW a \in Actors, Act(a), NEW c \in Actors, c # a PROVE Looked(c)'
    <2>0. Same(c)
        BY <1>1, OthersSame
    <2>1. SUFFICES ASSUME op[c].pc \in {"save", "register", "copy"}, ~op'[c].late
                   PROVE  Looked(c)'
        BY <2>0 DEF Looked, Same
    <2>2. SameImage(op[c].on, op[c].image) = {} /\ op[c].on \in Subjects
        BY <2>0, <2>1 DEF LookedAll, Looked, Same, OpsOK, OpOK, Drawing
    <2>4. PICK s \in Subjects, img \in {op[c].image} : s = op[c].on /\ img = op[c].image
        BY <2>2
    <2>5. op'[c].on = s /\ op'[c].image = img
        BY <2>0, <2>4 DEF Same
    <2>3. Saved(a, op[a].on) => op[c].on # op[a].on
        <3>1. SUFFICES ASSUME Saved(a, op[a].on), op[c].on = op[a].on PROVE FALSE
            OBVIOUS
        <3>2. op'[c] = [op[c] EXCEPT !.late = @ \/ op[c].on = op[a].on]
            BY <1>1, <3>1 DEF Saved
        <3>3. op'[c].late
            BY <3>1, <3>2 DEF TypeOK, Op
        <3> QED
            BY <2>1, <3>3
    <2>6. SameImage(s, img)' = {}
        BY <1>1, <2>2, <2>3, <2>4, SameImageGrows
    <2> QED
        BY <2>5, <2>6 DEF Looked
<1>2. ASSUME NEW a \in Actors, Act(a) PROVE Looked(a)'
    <2>1. CASE op'[a].pc \notin {"save", "register", "copy"}
        BY <2>1 DEF Looked
    <2>2. CASE CheckRendered(a)
        <3>1. \/ op'[a].pc = "reuse"
              \/ /\ SameImage(op[a].on, op[a].image) = {} /\ op'[a].on = op[a].on
                 /\ op'[a].image = op[a].image
            BY <2>2 DEF CheckRendered, TypeOK, Op
        <3> QED
            BY <2>2, <3>1 DEF CheckRendered, Looked, SameImage, Present
    <2>3. CASE Register(a)
        <3>1. PICK s \in Subjects, img \in Images :
                 /\ SameImage(s, img) = {}
                 /\ op'[a] = [Doing("register", s, look) EXCEPT !.image = img]
            BY <2>3 DEF Register, Begin, TypeOK
        <3> QED
            BY <2>3, <3>1 DEF Register, Looked, Doing, SameImage, Present, store
    <2>4. CASE Copy(a)
        <3>1. \E i : op' = [op EXCEPT ![a].pc = "copy", ![a].asset = i]
            BY <2>4 DEF Copy
        <3>2. op'[a].on = op[a].on /\ op'[a].image = op[a].image /\ op'[a].late = op[a].late
            BY <3>1 DEF TypeOK, Op
        <3> QED
            BY <2>4, <3>2 DEF Copy, Looked, LookedAll, SameImage, Present
    <2>5. CASE op'[a] = Idle
        BY <2>1, <2>5 DEF Idle, Doing
    <2>6. CASE EditCharacter(a) \/ EditEnvironment(a) \/ Enrich(a)
               \/ GenerateCharacter(a) \/ GenerateEnvironment(a) \/ Pin(a)
        <3>1. PICK o : Begin(a, o) /\ o.pc \in {"edit", "enrich", "submit", "pin"}
            <4>1. CASE EditCharacter(a) \/ EditEnvironment(a) \/ Enrich(a)
                <5>1. PICK t : Begin(a, Doing("edit", t, look)) \/ Begin(a, Doing("enrich", t, look))
                    BY <4>1 DEF EditCharacter, EditEnvironment, Enrich
                <5> QED
                    BY <5>1 DEF Doing
            <4>2. CASE GenerateCharacter(a)
                <5>1. PICK t, r : Begin(a, [Doing("submit", t, look) EXCEPT !.run = r])
                    BY <4>2 DEF GenerateCharacter
                <5> QED
                    BY <5>1 DEF Doing
            <4>3. CASE GenerateEnvironment(a)
                BY <4>3 DEF GenerateEnvironment, Doing
            <4>4. CASE Pin(a)
                <5>1. PICK i : Begin(a, [Doing("pin", None, look) EXCEPT !.asset = i])
                    BY <4>4 DEF Pin
                <5> QED
                    BY <5>1 DEF Doing
            <4> QED
                BY <2>6, <4>1, <4>2, <4>3, <4>4
        <3> QED
            BY <2>1, <3>1 DEF Begin, TypeOK
    <2>7. CASE EditSave(a) \/ Submit(a)
        BY <2>1, <2>5, <2>7 DEF EditSave, Submit, Go, TypeOK, Op
    <2>8. CASE Download(a)
        <3>1. \E i, img : op' = [op EXCEPT ![a].pc = "check", ![a].asset = i, ![a].image = img]
            BY <2>8 DEF Download
        <3> QED
            BY <2>1, <3>1 DEF TypeOK, Op
    <2>9. CASE End(a) \/ SaveRendered(a) \/ SaveUploaded(a)
        BY <2>5, <2>9 DEF End, SaveRendered, SaveUploaded, Saved, TypeOK
    <2> QED
        BY <1>2, <2>2, <2>3, <2>4, <2>6, <2>7, <2>8, <2>9
           DEF Act, Step, Fail, EditMark, EnrichSave, Reuse, PinSave, EditFail, CharacterFail,
               EnvironmentFail, RegisterFail, GiveUp
<1>3. CASE op' = op /\ Present' \subseteq Present
    <2>1. \A i \in Present : asset'[i].of = asset[i].of /\ asset'[i].image = asset[i].image
        BY AssetsAreKept DEF Kept
    <2> QED
        BY <1>3, <2>1 DEF LookedAll, Looked, SameImage
<1>4. CASE Import \/ Decide \/ Unpin
    BY <1>3, <1>4, NoNewPresent DEF Import, Decide, Unpin
<1>5. CASE Crash
    BY <1>5 DEF Crash, LookedAll, Looked, Idle, Doing
<1> QED
    BY <1>1, <1>2, <1>3, <1>4, <1>5 DEF Next, Act, LookedAll, vars, store, Present

LEMMA StepDuplicates ==
    ASSUME TypeOK, OpsOK, LookedAll, NoDuplicates, [Next]_vars PROVE NoDuplicates'
<1>1. \A i \in Present : i \in Present' /\ asset'[i].of = asset[i].of /\ asset'[i].image = asset[i].image
    BY AssetsAreKept DEF Kept
<1>2. raced \subseteq raced'
    BY DEF Next, Step, Fail, EditCharacter, EditEnvironment, Enrich, GenerateCharacter,
           GenerateEnvironment, Register, Pin, EditSave, EditMark, EnrichSave, Submit, Download,
           CheckRendered, Reuse, SaveRendered, SaveUploaded, PinSave, Copy, EditFail,
           CharacterFail, EnvironmentFail, RegisterFail, GiveUp, Import, Decide, Unpin, Crash,
           Unseen, vars, store, history
<1>3. CASE Present' \subseteq Present
    BY <1>1, <1>2, <1>3 DEF NoDuplicates
<1>4. ASSUME NEW a \in Actors, SaveRendered(a) \/ SaveUploaded(a) PROVE NoDuplicates'
    <2> DEFINE n == op[a].asset
    <2>1. /\ op[a].pc \in {"save", "copy"} /\ op[a].on \in Subjects
          /\ asset'[n].of = op[a].on /\ asset'[n].image = op[a].image
          /\ Present' \subseteq Present \cup {n}
        BY <1>4, ImageSaved DEF Present
    <2>2. n \in raced' \/ SameImage(op[a].on, op[a].image) = {}
        BY <1>4, <2>1 DEF SaveRendered, SaveUploaded, Unseen, LookedAll, Looked
    <2>3. ASSUME NEW j \in Present, asset'[j].of = asset'[n].of, asset'[n].of # Environment,
                 asset'[j].image = asset'[n].image
          PROVE  n \in raced'
        BY <1>1, <2>1, <2>2, <2>3 DEF SameImage
    <2> QED
        BY <1>1, <1>2, <2>1, <2>3 DEF NoDuplicates
<1>5. CASE asset' = asset
    BY <1>3, <1>5 DEF Present
<1>6. ASSUME NEW a \in Actors, EditMark(a) \/ PinSave(a) PROVE NoDuplicates'
    BY <1>3, <1>6, NewPresent DEF EditMark, PinSave, Saving, Act, Step
<1>7. CASE Import \/ Decide \/ Unpin
    BY <1>3, <1>7, NoNewPresent
<1> QED
    BY <1>4, <1>5, <1>6, <1>7
       DEF Next, Step, Fail, EditCharacter, EditEnvironment, Enrich, GenerateCharacter,
           GenerateEnvironment, Register, Pin, EditSave, EnrichSave, Submit, Download,
           CheckRendered, Reuse, Copy, EditFail, CharacterFail, EnvironmentFail, RegisterFail,
           GiveUp, Crash, vars, store

-----------------------------------------------------------------------------
(* Generated images and looks *)

\* Nothing is drawn that has no description.
Drawn == \A i \in Present : asset[i].by = "generated" => asset[i].fp # None

Current(i) == i \in Present /\ asset[i].by = "generated" /\ ~asset[i].stale

Matches(s) == \A i \in Assets : Current(i) /\ asset[i].of = s => asset[i].fp = look[s]

\* b is about to mark the images of s, and will mark all that do not match.
Marks(b, s) ==
    op[b].pc = "mark" /\ op[b].on = s /\ op[b].seen[s] \in {look[s], None}

\* The look was replaced unmarked, or someone is about to mark for the look
\* that is the one, or for none at all (when nothing stays unmarked), or
\* nothing needs marking.
Followed(s) == s \in drifted \/ (\E b \in Actors : Marks(b, s)) \/ Matches(s)

FollowedAll == \A s \in Subjects : Followed(s)

\* Why the invariant is inductive: whose marking is for another look counts for
\* nothing, since someone else has replaced that look, and follows it.
LEMMA FollowedMatches ==
    ASSUME TypeOK, FollowedAll PROVE GeneratedMatches
BY DEF TypeOK, Asset, FollowedAll, Followed, Marks, Matches, Current, Marking, GeneratedMatches,
       Present

LEMMA StepDrawn == ASSUME TypeOK, OpsOK, Drawn, [Next]_vars PROVE Drawn'
<1>1. \A i \in Present : Kept(i)
    BY AssetsAreKept
<1>2. CASE Present' \subseteq Present
    BY <1>1, <1>2 DEF Drawn, Kept
<1>3. ASSUME NEW a \in Actors, SaveRendered(a) \/ SaveUploaded(a) PROVE Drawn'
    <2> DEFINE n == op[a].asset
    <2>1. n \in Assets /\ op[a].on \in Subjects /\ Present' \subseteq Present \cup {n}
        BY <1>3, ImageSaved DEF Present
    <2>2. asset'[n].by = "generated" => asset'[n].fp # None
        <3>1. CASE SaveRendered(a)
            <4>1. asset'[n].fp = op[a].seen[op[a].on]
                BY <2>1, <3>1 DEF SaveRendered, Rendered, NoAsset, TypeOK
            <4> QED
                BY <3>1, <4>1 DEF SaveRendered, OpsOK, OpOK, Drawing
        <3>2. CASE SaveUploaded(a)
            BY <2>1, <3>2 DEF SaveUploaded, NoAsset, TypeOK
        <3> QED
            BY <1>3, <3>1, <3>2
    <2> QED
        BY <1>1, <2>1, <2>2 DEF Drawn, Kept
<1>4. CASE asset' = asset
    BY <1>2, <1>4 DEF Present
<1>5. ASSUME NEW a \in Actors, EditMark(a) \/ PinSave(a) PROVE Drawn'
    BY <1>2, <1>5, NewPresent DEF EditMark, PinSave, Saving, Act, Step
<1>6. CASE Import \/ Decide \/ Unpin
    BY <1>2, <1>6, NoNewPresent
<1> QED
    BY <1>3, <1>4, <1>5, <1>6
       DEF Next, Step, Fail, EditCharacter, EditEnvironment, Enrich, GenerateCharacter,
           GenerateEnvironment, Register, Pin, EditSave, EnrichSave, Submit, Download,
           CheckRendered, Reuse, Copy, EditFail, CharacterFail, EnvironmentFail, RegisterFail,
           GiveUp, Crash, vars, store

\* No current image comes that was not there, nor changes what it shows.
Quiet == \A i \in Assets : Current(i)' => Current(i) /\ Kept(i)

LEMMA QuietMatches ==
    ASSUME Quiet, NEW s \in Subjects, Matches(s), look'[s] = look[s] PROVE Matches(s)'
BY DEF Quiet, Matches, Kept

LEMMA OthersMark ==
    ASSUME TypeOK, NEW a \in Actors, Act(a), NEW s \in Subjects,
           look'[s] = look[s] \/ (look[s] = None /\ look'[s] # None),
           NEW b \in Actors, b # a, Marks(b, s)
    PROVE  Marks(b, s)'
BY OthersSame DEF Marks, Same

\* The actor is not one who marks, looks stay, no current image comes.
LEMMA QuietFollowed ==
    ASSUME TypeOK, NEW a \in Actors, Act(a), op[a].pc # "mark", Quiet,
           look' = look, drifted \subseteq drifted', FollowedAll
    PROVE  FollowedAll'
<1>1. ASSUME NEW s \in Subjects PROVE Followed(s)'
    <2>1. ASSUME NEW b \in Actors, Marks(b, s) PROVE Marks(b, s)'
        BY <2>1, OthersMark DEF Marks
    <2> QED
        BY <2>1, QuietMatches DEF FollowedAll, Followed
<1> QED
    BY <1>1 DEF FollowedAll

LEMMA EditSaveFollowed ==
    ASSUME TypeOK, OpsOK, FollowedAll, NEW a \in Actors, EditSave(a) PROVE FollowedAll'
<1> DEFINE o == op[a].on
<1>1. o \in Subjects /\ op[a].pc = "edit" /\ asset' = asset
    BY DEF EditSave, OpsOK, OpOK
<1>2. PICK l \in Look :
         /\ look' = [look EXCEPT ![o] = l]
         /\ IF l # op[a].seen[o]
            THEN /\ op' = [op EXCEPT ![a].pc = "mark", ![a].seen[o] = l]
                 /\ drifted' = drifted
            ELSE /\ op' = [op EXCEPT ![a] = Idle]
                 /\ drifted' = IF l # look[o] THEN drifted \cup {o} ELSE drifted
    BY DEF EditSave
<1>3. Quiet /\ drifted \subseteq drifted'
    BY <1>1, <1>2 DEF Quiet, Kept, Current, Present
<1>4. ASSUME NEW s \in Subjects, look'[s] = look[s] PROVE Followed(s)'
    <2>1. ASSUME NEW b \in Actors, Marks(b, s) PROVE Marks(b, s)'
        BY <1>1, <1>4, <2>1, OthersMark DEF Marks, Act, Step
    <2> QED
        BY <1>3, <1>4, <2>1, QuietMatches DEF FollowedAll, Followed
<1>5. ASSUME NEW s \in Subjects, s = o, look'[s] # look[s] PROVE Followed(s)'
    <2>0. look'[s] = l
        BY <1>1, <1>2, <1>5 DEF TypeOK
    <2>1. CASE l # op[a].seen[o]
        <3>1. op' = [op EXCEPT ![a].pc = "mark", ![a].seen[o] = l]
            BY <1>2, <2>1
        <3>2. op'[a].pc = "mark" /\ op'[a].on = s /\ op'[a].seen[s] = l
            BY <1>1, <1>5, <3>1 DEF TypeOK, Op
        <3> QED
            BY <2>0, <3>2 DEF Marks, Followed
    <2>2. CASE l = op[a].seen[o]
        BY <1>2, <1>5, <2>0, <2>2 DEF Followed
    <2> QED
        BY <2>1, <2>2
<1>6. ASSUME NEW s \in Subjects, s # o PROVE look'[s] = look[s]
    BY <1>2, <1>6 DEF TypeOK
<1> QED
    BY <1>4, <1>5, <1>6 DEF FollowedAll

LEMMA EditMarkFollowed ==
    ASSUME TypeOK, OpsOK, Drawn, FollowedAll, NEW a \in Actors, EditMark(a) PROVE FollowedAll'
<1> DEFINE o == op[a].on
           l == op[a].seen[o]
<1>1. /\ o \in Subjects /\ look' = look /\ op'[a] = Idle
      /\ asset' = Marked(asset, o, l)
      /\ drifted' = IF look[o] = l THEN drifted \ {o} ELSE drifted
    BY DEF EditMark, OpsOK, OpOK, End, TypeOK
<1>2. Quiet
    <2>1. \A i \in Assets : Kept(i)
        BY <1>1, MarkedKeeps
    <2> QED
        BY <2>1 DEF Quiet, Current, Kept, Present
<1>3. ASSUME NEW s \in Subjects, NEW b \in Actors, b # a, Marks(b, s) PROVE Marks(b, s)'
    BY <1>1, <1>3, OthersMark DEF Act, Step
<1>4. ASSUME NEW s \in Subjects, s # o PROVE Followed(s)'
    <2>1. ~Marks(a, s)
        BY <1>4 DEF Marks
    <2> QED
        BY <1>1, <1>2, <1>3, <1>4, <2>1, QuietMatches DEF FollowedAll, Followed
<1>5. ASSUME NEW s \in Subjects, s = o PROVE Followed(s)'
    <2>1. \A i \in Assets : Current(i)' /\ asset'[i].of = s => asset'[i].fp = l
        BY <1>1, <1>5 DEF Marked, Current, TypeOK, Asset
    <2>2. CASE l = look[s]
        BY <1>1, <2>1, <2>2 DEF Matches, Followed
    <2>3. CASE l = None
        <3>1. \A i \in Assets : Current(i)' => asset'[i].fp # None
            BY <1>2 DEF Quiet, Current, Drawn, Kept
        <3> QED
            BY <2>1, <2>3, <3>1 DEF Matches, Followed
    <2>4. CASE l # look[s] /\ l # None
        <3>1. ~Marks(a, s) /\ drifted' = drifted
            BY <1>1, <1>5, <2>4 DEF Marks
        <3> QED
            BY <1>1, <1>2, <1>3, <3>1, QuietMatches DEF FollowedAll, Followed
    <2> QED
        BY <2>2, <2>3, <2>4
<1> QED
    BY <1>4, <1>5 DEF FollowedAll

LEMMA ImportFollowed ==
    ASSUME TypeOK, FollowedAll, Import PROVE FollowedAll'
<1> DEFINE Imported(C, bundle) ==
        /\ look' = [s \in Subjects |-> IF s \in C THEN bundle[s]
                                       ELSE IF s = Environment THEN None ELSE look[s]]
        /\ asset' = [i \in Assets |->
                        IF asset[i].of \in Changed(C, bundle)
                        THEN Marked(asset, asset[i].of, bundle[asset[i].of])[i]
                        ELSE asset[i]]
<1>1. PICK C \in SUBSET Characters : \E bundle \in [C -> Look] : Imported(C, bundle)
    BY DEF Import
<1>2. PICK bundle \in [C -> Look] : Imported(C, bundle)
    BY <1>1
<1>3. op' = op /\ drifted \subseteq drifted'
      /\ (look[Environment] # None => Environment \in drifted')
    BY DEF Import
<1>4. Quiet
    BY <1>2 DEF Quiet, Kept, Current, Present, Marked, TypeOK, Asset
<1>5. ASSUME NEW s \in Subjects, look'[s] = look[s] PROVE Followed(s)'
    BY <1>3, <1>4, <1>5, QuietMatches DEF FollowedAll, Followed, Marks
<1>6. ASSUME NEW s \in Subjects, look'[s] # look[s] PROVE Followed(s)'
    <2>1. CASE s \in Changed(C, bundle)
        <3>1. look'[s] = bundle[s]
            BY <1>2, <2>1 DEF Changed
        <3>2. \A i \in Assets : asset[i].of = s => asset'[i] = Marked(asset, s, bundle[s])[i]
            BY <1>2, <2>1
        <3>3. \A i \in Assets : asset[i].of = s /\ Current(i)' => asset'[i].fp = bundle[s]
            BY <3>2 DEF Marked, Current, TypeOK, Asset
        <3>4. \A i \in Assets : Current(i)' => asset'[i].of = asset[i].of
            BY <1>4 DEF Quiet, Kept
        <3> QED
            BY <3>1, <3>3, <3>4 DEF Matches, Followed
    <2>2. CASE s \notin Changed(C, bundle)
        <3>1. s = Environment /\ look[s] # None
            BY <1>2, <1>6, <2>2 DEF Changed
        <3> QED
            BY <1>3, <3>1 DEF Followed
    <2> QED
        BY <2>1, <2>2
<1> QED
    BY <1>5, <1>6 DEF FollowedAll

LEMMA EnrichFollowed ==
    ASSUME TypeOK, OpsOK, Drawn, FollowedAll, NEW a \in Actors, EnrichSave(a) PROVE FollowedAll'
<1> DEFINE Enriched(D, new) ==
        /\ look' = [s \in Subjects |-> IF s \in D THEN new[s] ELSE look[s]]
        /\ drifted' = drifted \cup {s \in D : look[s] # None}
<1>1. PICK D \in SUBSET Deficient(op[a].seen) : \E new \in [D -> Looks] : Enriched(D, new)
    BY DEF EnrichSave
<1>2. PICK new \in [D -> Looks] : Enriched(D, new)
    BY <1>1
<1>3. Quiet /\ op[a].pc = "enrich"
    BY DEF EnrichSave, Quiet, Kept, Current, Present
<1>4. ASSUME NEW s \in Subjects, s \notin drifted' PROVE Followed(s)'
    <2>1. look'[s] = look[s] \/ (s \in D /\ look[s] = None /\ look'[s] # None)
        BY <1>2, <1>4, LooksAssumption
    <2>2. ASSUME NEW b \in Actors, Marks(b, s) PROVE Marks(b, s)'
        BY <1>3, <2>1, <2>2, OthersMark DEF Marks, Act, Step
    <2>3. Matches(s) => Matches(s)'
        <3>1. CASE look'[s] = look[s]
            BY <1>3, <3>1, QuietMatches
        <3>2. CASE look[s] = None
            BY <1>3, <3>2 DEF Quiet, Matches, Current, Drawn, Kept
        <3> QED
            BY <2>1, <3>1, <3>2
    <2>4. s \notin drifted
        BY <1>2, <1>4
    <2> QED
        BY <2>2, <2>3, <2>4 DEF FollowedAll, Followed
<1> QED
    BY <1>4 DEF FollowedAll, Followed

LEMMA SaveFollowed ==
    ASSUME TypeOK, OpsOK, FollowedAll, NEW a \in Actors, SaveRendered(a) PROVE FollowedAll'
<1> DEFINE n == op[a].asset
           o == op[a].on
<1>1. /\ n \in Assets /\ n \notin Present /\ o \in Subjects /\ op[a].pc = "save"
      /\ \A i \in Assets : i # n => asset'[i] = asset[i]
      /\ asset'[n].of = o
    BY ImageSaved DEF SaveRendered
<1>2. asset'[n].fp = op[a].seen[o]
    BY <1>1 DEF SaveRendered, Rendered, NoAsset, TypeOK
<1>3. /\ look' = look
      /\ drifted' = IF op[a].seen[o] # look[o] THEN drifted \cup {o} ELSE drifted
    BY DEF SaveRendered
<1>4. ASSUME NEW s \in Subjects, s \notin drifted' PROVE Followed(s)'
    <2>1. ASSUME NEW b \in Actors, Marks(b, s) PROVE Marks(b, s)'
        BY <1>1, <1>3, <2>1, OthersMark DEF Marks, Act, Step
    <2>2. Matches(s) => Matches(s)'
        BY <1>1, <1>2, <1>3, <1>4 DEF Matches, Current, Present
    <2>3. s \notin drifted
        BY <1>3, <1>4
    <2> QED
        BY <2>1, <2>2, <2>3 DEF FollowedAll, Followed
<1> QED
    BY <1>4 DEF FollowedAll, Followed

LEMMA StepFollowed ==
    ASSUME TypeOK, OpsOK, Drawn, FollowedAll, [Next]_vars PROVE FollowedAll'
<1>1. ASSUME NEW a \in Actors, EditFail(a) PROVE FollowedAll'
    <2>1. Quiet /\ look' = look /\ drifted \subseteq drifted'
        BY <1>1 DEF EditFail, store, Quiet, Kept, Current, Present
    <2>2. ASSUME NEW s \in Subjects, s \notin drifted' PROVE Followed(s)'
        <3>1. ASSUME NEW b \in Actors, Marks(b, s) PROVE Marks(b, s)'
            BY <1>1, <2>1, <2>2, <3>1, OthersMark DEF Marks, EditFail, Act, Fail
        <3> QED
            BY <2>1, <2>2, <3>1, QuietMatches DEF FollowedAll, Followed
    <2> QED
        BY <2>2 DEF FollowedAll, Followed
<1>2. CASE Crash
    <2>1. Quiet /\ look' = look /\ drifted \subseteq drifted'
        BY <1>2 DEF Crash, store, Quiet, Kept, Current, Present
    <2>2. \A s \in Subjects, b \in Actors : Marks(b, s) => s \in drifted'
        BY <1>2 DEF Crash, At, Marks, Busy
    <2> QED
        BY <2>1, <2>2, QuietMatches DEF FollowedAll, Followed
<1>3. CASE Decide \/ Unpin \/ UNCHANGED vars
    <2>1. Quiet
        BY <1>3 DEF Decide, Unpin, vars, store, Quiet, Kept, Current, Present, TypeOK, Asset
    <2>2. look' = look /\ drifted' = drifted /\ op' = op
        BY <1>3 DEF Decide, Unpin, vars, store, history
    <2> QED
        BY <2>1, <2>2, QuietMatches DEF FollowedAll, Followed, Marks
<1>4. ASSUME NEW a \in Actors, SaveUploaded(a) \/ PinSave(a) PROVE FollowedAll'
    <2>1. CASE SaveUploaded(a)
        <3>1. /\ op[a].asset \in Assets
              /\ \A i \in Assets : i # op[a].asset => asset'[i] = asset[i]
            BY <2>1, ImageSaved
        <3>2. asset'[op[a].asset].by = "upload"
            BY <2>1, <3>1 DEF SaveUploaded, NoAsset, TypeOK
        <3>3. Quiet
            BY <3>1, <3>2 DEF Quiet, Kept, Current, Present
        <3> QED
            BY <2>1, <3>3, QuietFollowed DEF SaveUploaded, Act, Step
    <2>2. CASE PinSave(a)
        <3>1. Quiet
            BY <2>2 DEF PinSave, Quiet, Kept, Current, Present, TypeOK, Asset
        <3> QED
            BY <2>2, <3>1, QuietFollowed DEF PinSave, Act, Step, history
    <2> QED
        BY <1>4, <2>1, <2>2
<1>5. ASSUME NEW a \in Actors, Act(a), asset' = asset, look' = look, drifted' = drifted,
             op[a].pc # "mark"
      PROVE  FollowedAll'
    <2>1. Quiet
        BY <1>5 DEF Quiet, Kept, Current, Present
    <2> QED
        BY <1>5, <2>1, QuietFollowed
<1>6. ASSUME NEW a \in Actors, Act(a) PROVE FollowedAll'
    <2>1. CASE EditCharacter(a) \/ EditEnvironment(a) \/ Enrich(a) \/ GenerateCharacter(a)
               \/ GenerateEnvironment(a) \/ Register(a) \/ Pin(a)
        BY <1>5, <1>6, <2>1
           DEF EditCharacter, EditEnvironment, Enrich, GenerateCharacter, GenerateEnvironment,
               Register, Pin, Begin, store, history
    <2>2. CASE Submit(a) \/ Download(a) \/ CheckRendered(a) \/ Reuse(a) \/ Copy(a)
               \/ CharacterFail(a) \/ EnvironmentFail(a) \/ RegisterFail(a) \/ GiveUp(a)
        BY <1>5, <1>6, <2>2
           DEF Submit, Download, CheckRendered, Reuse, Copy, CharacterFail, EnvironmentFail,
               RegisterFail, GiveUp, store, history
    <2> QED
        BY <1>1, <1>4, <1>6, <2>1, <2>2, EditSaveFollowed, EditMarkFollowed, EnrichFollowed,
           SaveFollowed DEF Act, Step, Fail
<1> QED
    BY <1>2, <1>3, <1>6, ImportFollowed DEF Next, Act

-----------------------------------------------------------------------------
(* Pins *)

PinHeld(s, i) ==
    asset[i].pinned =>
        \/ i \in Selected(s)'
        \/ asset'[i].status # asset[i].status \/ ~asset'[i].pinned
        \/ /\ asset[i].by = "generated"
           /\ \/ asset[i].fp # look'[s]
              \/ \E a \in Actors : /\ op[a].pc = "mark" /\ op[a].on = s
                                    /\ op[a].seen[s] # look[s]

LEMMA StepPins ==
    ASSUME TypeOK, OpsOK, [Next]_vars, NEW s \in Characters, NEW i \in Selected(s)
    PROVE  PinHeld(s, i)
<1> SUFFICES ASSUME asset[i].pinned, asset'[i].pinned, asset'[i].status = asset[i].status
             PROVE  PinHeld(s, i)
    BY DEF PinHeld
<1>1. /\ i \in Present /\ i \in Assets /\ asset[i].of = s /\ asset[i].status = "approved"
      /\ ~asset[i].stale /\ i \in Present' /\ asset'[i].of = s
    BY AssetsAreKept DEF Selected, Eligible, Present, Kept
<1>2. CASE ~asset'[i].stale
    BY <1>1, <1>2 DEF PinHeld, Selected, Eligible
<1>3. CASE asset'[i] = asset[i]
    BY <1>1, <1>2, <1>3
<1>4. CASE asset' = asset
    BY <1>3, <1>4
<1>5. ASSUME NEW a \in Actors, EditMark(a) PROVE PinHeld(s, i)
    <2>1. asset' = Marked(asset, op[a].on, op[a].seen[op[a].on]) /\ look' = look
          /\ op[a].pc = "mark"
        BY <1>5 DEF EditMark
    <2>2. CASE op[a].on = s /\ asset[i].by = "generated" /\ asset[i].fp # op[a].seen[s]
        BY <2>1, <2>2 DEF PinHeld
    <2>3. CASE ~(op[a].on = s /\ asset[i].by = "generated" /\ asset[i].fp # op[a].seen[s])
        BY <1>1, <1>3, <2>1, <2>3 DEF Marked
    <2> QED
        BY <2>2, <2>3
<1>6. ASSUME NEW a \in Actors, SaveRendered(a) \/ SaveUploaded(a) PROVE PinHeld(s, i)
    BY <1>1, <1>3, <1>6, ImageSaved
<1>7. ASSUME NEW a \in Actors, PinSave(a) PROVE PinHeld(s, i)
    BY <1>1, <1>2, <1>7 DEF PinSave, TypeOK, Asset
<1>8. CASE Decide \/ Unpin
    BY <1>1, <1>2, <1>8 DEF Decide, Unpin, TypeOK, Asset
<1>9. CASE Import
    <2> DEFINE Imported(C, bundle) ==
            /\ look' = [x \in Subjects |-> IF x \in C THEN bundle[x]
                                           ELSE IF x = Environment THEN None ELSE look[x]]
            /\ asset' = [j \in Assets |->
                            IF asset[j].of \in Changed(C, bundle)
                            THEN Marked(asset, asset[j].of, bundle[asset[j].of])[j]
                            ELSE asset[j]]
    <2>1. PICK C \in SUBSET Characters : \E bundle \in [C -> Look] : Imported(C, bundle)
        BY <1>9 DEF Import
    <2>2. PICK bundle \in [C -> Look] : Imported(C, bundle)
        BY <2>1
    <2>3. CASE s \notin Changed(C, bundle)
        BY <1>1, <1>3, <2>2, <2>3
    <2>4. CASE s \in Changed(C, bundle)
        <3>1. look'[s] = bundle[s] /\ asset'[i] = Marked(asset, s, bundle[s])[i]
            BY <1>1, <2>2, <2>4 DEF Changed, Subjects
        <3>2. CASE asset[i].by = "generated" /\ asset[i].fp # bundle[s]
            BY <3>1, <3>2 DEF PinHeld
        <3>3. CASE ~(asset[i].by = "generated" /\ asset[i].fp # bundle[s])
            BY <1>1, <1>3, <3>1, <3>3 DEF Marked
        <3> QED
            BY <3>2, <3>3
    <2> QED
        BY <2>3, <2>4
<1> QED
    BY <1>4, <1>5, <1>6, <1>7, <1>8, <1>9
       DEF Next, Step, Fail, EditCharacter, EditEnvironment, Enrich, GenerateCharacter,
           GenerateEnvironment, Register, Pin, EditSave, EnrichSave, Submit, Download,
           CheckRendered, Reuse, Copy, EditFail, CharacterFail, EnvironmentFail, RegisterFail,
           GiveUp, Crash, vars, store

-----------------------------------------------------------------------------
(* Theorems *)

Inv ==
    /\ TypeOK /\ OpsOK /\ Distinct /\ Drawn /\ LookedAll /\ FollowedAll
    /\ LiveHasOwner /\ SucceededHasAsset /\ FilesAccounted /\ NoDuplicates

LEMMA InitInv == Init => Inv
<1> SUFFICES ASSUME Init PROVE Inv
    OBVIOUS
<1>1. TypeOK
    BY InitTyped
<1>2. Present = {} /\ Live = {} /\ files = {}
    BY DEF Init, Present, Live, NoAsset, NoExec
<1>3. \A a \in Actors : /\ op[a].pc = "idle" /\ op[a].run = None /\ op[a].asset = None
    BY DEF Init, Idle, Doing
<1>4. OpsOK /\ Distinct /\ LookedAll
    BY <1>3 DEF OpsOK, OpOK, Distinct, LookedAll, Looked, Drawing, Holding
<1>5. Drawn /\ FollowedAll /\ LiveHasOwner /\ FilesAccounted /\ NoDuplicates
    BY <1>2 DEF Drawn, FollowedAll, Followed, Matches, Current, LiveHasOwner, FilesAccounted,
                NoDuplicates
<1>6. SucceededHasAsset
    BY DEF Init, NoExec, SucceededHasAsset
<1> QED
    BY <1>1, <1>4, <1>5, <1>6 DEF Inv

LEMMA StepInv == Inv /\ [Next]_vars => Inv'
BY StepTyped, StepKnows, StepDrawn, StepLooked, StepFollowed, StepOwners, StepSucceeded, StepFiles,
   StepDuplicates DEF Inv

\* The inductive invariant, which the properties below follow from.
THEOREM Invariance == Spec => []Inv
BY InitInv, StepInv, PTL DEF Spec

\* Every variable keeps its type.
THEOREM TypeCorrect == Spec => []TypeOK
<1>1. Inv => TypeOK
    BY DEF Inv
<1> QED
    BY <1>1, Invariance, PTL

\* A generated image that is not stale shows its subject as it is described now,
\* or is about to be marked, or the look was replaced in a way that marks nothing.
THEOREM GeneratedImagesMatch == Spec => []GeneratedMatches
<1>1. Inv => GeneratedMatches
    BY FollowedMatches DEF Inv
<1> QED
    BY <1>1, Invariance, PTL

\* No character has an image twice, unless two requests brought it at a time.
THEOREM ImagesAreUnique == Spec => []NoDuplicates
<1>1. Inv => NoDuplicates
    BY DEF Inv
<1> QED
    BY <1>1, Invariance, PTL

\* Every image has its file, and no file is left behind except by a crash or by
\* the failures that do so.
THEOREM FilesAreAccounted == Spec => []FilesAccounted
<1>1. Inv => FilesAccounted
    BY DEF Inv
<1> QED
    BY <1>1, Invariance, PTL

\* The image a successful execution names is there, and of its character.
THEOREM SuccessHasImage == Spec => []SucceededHasAsset
<1>1. Inv => SucceededHasAsset
    BY DEF Inv
<1> QED
    BY <1>1, Invariance, PTL

\* No execution stays unfinished without someone to finish it, except after a
\* crash or a failure while failing.
THEOREM LiveRunsAreOwned == Spec => []LiveHasOwner
<1>1. Inv => LiveHasOwner
    BY DEF Inv
<1> QED
    BY <1>1, Invariance, PTL

\* A pinned image stays selected until someone decides otherwise or its subject
\* no longer looks like that.
THEOREM PinsHold == Spec => PinHolds
<1>1. ASSUME TypeOK, OpsOK, [Next]_vars
      PROVE  [\A s \in Characters : \A i \in Selected(s) : asset[i].pinned =>
                \/ i \in Selected(s)'
                \/ asset'[i].status # asset[i].status \/ ~asset'[i].pinned
                \/ /\ asset[i].by = "generated"
                   /\ \/ asset[i].fp # look'[s]
                      \/ \E a \in Actors : /\ op[a].pc = "mark" /\ op[a].on = s
                                            /\ op[a].seen[s] # look[s]]_vars
    BY <1>1, StepPins DEF PinHeld
<1>2. Inv => TypeOK /\ OpsOK
    BY DEF Inv
<1> QED
    BY <1>1, <1>2, Invariance, PTL DEF PinHolds, Spec

-----------------------------------------------------------------------------
(* References implements DrawingRun *)

\* The execution of an operation is where the operation is.
RunAt(a) ==
    op[a].run # None =>
        exec[op[a].run].st = IF op[a].pc = "submit" THEN "pending" ELSE "running"

RunsAt == \A a \in Actors : RunAt(a)

\* What DrawingRun sees of the images and of the executions.
Shown == [i \in Assets |-> [of |-> asset[i].of, image |-> asset[i].image]]
Ran   == [r \in Runs |-> [st |-> exec[r].st, of |-> exec[r].of, out |-> exec[r].out]]

LEMMA SettledIs ==
    ASSUME TypeOK, NEW a \in Actors, NEW st, NEW out, exec' = Settled(a, st, out)
    PROVE  /\ op[a].run \in Runs =>
                 Ran' = [Ran EXCEPT ![op[a].run] =
                            [st |-> st, of |-> exec[op[a].run].of, out |-> out]]
           /\ op[a].run \notin Runs => exec' = exec
<1>1. \A r \in Runs : /\ r = op[a].run => /\ exec'[r].st = st /\ exec'[r].out = out
                                          /\ exec'[r].of = exec[r].of
                      /\ r # op[a].run => exec'[r] = exec[r]
    BY DEF Settled, TypeOK, Exec
<1>2. CASE op[a].run \in Runs
    BY <1>1, <1>2 DEF Ran
<1>3. CASE op[a].run \notin Runs
    BY <1>3 DEF Settled, TypeOK
<1> QED
    BY <1>2, <1>3

\* An execution is moved by its own operation only.
LEMMA OnlyOwn ==
    ASSUME TypeOK, NEW a \in Actors, Act(a),
           NEW r \in Runs, exec[r] # NoExec, op[a].run # r
    PROVE  exec'[r] = exec[r]
<1>1. CASE exec' = exec
    BY <1>1
<1>2. CASE GenerateCharacter(a)
    BY <1>2 DEF GenerateCharacter, TypeOK
<1>3. CASE Submit(a) \/ Reuse(a) \/ SaveRendered(a) \/ CharacterFail(a)
    BY <1>1, <1>3 DEF Submit, Reuse, SaveRendered, CharacterFail, FailedRun, Settled
<1> QED
    BY <1>1, <1>2, <1>3
       DEF Act, Step, Fail, EditCharacter, EditEnvironment, Enrich, GenerateEnvironment, Register,
           Pin, EditSave, EditMark, EnrichSave, Download, CheckRendered, Copy, SaveUploaded,
           PinSave, EditFail, EnvironmentFail, RegisterFail, GiveUp, store

LEMMA StepRunsAt ==
    ASSUME TypeOK, OpsOK, Distinct, RunsAt, [Next]_vars PROVE RunsAt'
<1>1. CASE op' = op /\ exec' = exec
    BY <1>1 DEF RunsAt, RunAt
<1>2. CASE Crash
    BY <1>2 DEF Crash, RunsAt, RunAt, Idle, Doing
<1>3. ASSUME NEW a \in Actors, Act(a), NEW c \in Actors, c # a PROVE RunAt(c)'
    <2>1. Same(c)
        BY <1>3, OthersSame
    <2>2. op[c].run # None => op[c].run \in Runs /\ exec[op[c].run] # NoExec
        BY NoneAssumption DEF OpsOK, OpOK, NoExec, Subjects
    <2>3. op[c].run # None => op[a].run # op[c].run
        BY <1>3 DEF Distinct
    <2>4. op[c].run # None => exec'[op[c].run] = exec[op[c].run]
        BY <1>3, <2>2, <2>3, OnlyOwn
    <2> QED
        BY <2>1, <2>4 DEF RunsAt, RunAt, Same
<1>4. ASSUME NEW a \in Actors, Act(a) PROVE RunAt(a)'
    <2>0. OpOK(a) /\ OpOK(a)' /\ RunAt(a)
        BY <1>4, OwnStep DEF OwnOK, OpsOK, RunsAt
    <2> SUFFICES ASSUME op'[a].run # None
                 PROVE  exec'[op'[a].run].st = IF op'[a].pc = "submit" THEN "pending" ELSE "running"
        BY DEF RunAt
    <2>1. op'[a].pc \in Drawing /\ op'[a].on \in Characters
        BY <2>0 DEF OpOK
    <2>2. CASE GenerateCharacter(a)
        <3>1. PICK s \in Characters, r \in Runs :
                 /\ exec' = [exec EXCEPT ![r] = [NoExec EXCEPT !.st = "pending", !.of = s]]
                 /\ op'[a] = [Doing("submit", s, look) EXCEPT !.run = r]
            BY <2>2 DEF GenerateCharacter, Begin, TypeOK
        <3> QED
            BY <3>1 DEF Doing, NoExec, TypeOK
    <2>3. CASE Submit(a)
        <3>1. op'[a].run = op[a].run /\ op'[a].pc = "render"
            BY <2>3 DEF Submit, Go, TypeOK, Op
        <3>2. op[a].run \in Runs
            BY <2>0, <2>3, <3>1 DEF OpOK, Submit, Drawing
        <3> QED
            BY <2>3, <3>1, <3>2 DEF Submit, Settled, TypeOK, Exec
    <2>4. CASE Download(a) \/ CheckRendered(a)
        <3>1. op'[a].run = op[a].run /\ op'[a].pc # "submit" /\ exec' = exec
              /\ op[a].pc \in {"render", "check"}
            <4>1. CASE Download(a)
                <5>1. \E i, img : op' = [op EXCEPT ![a].pc = "check", ![a].asset = i,
                                                   ![a].image = img]
                    BY <4>1 DEF Download
                <5> QED
                    BY <4>1, <5>1 DEF Download, TypeOK, Op
            <4>2. CASE CheckRendered(a)
                BY <4>2 DEF CheckRendered, TypeOK, Op
            <4> QED
                BY <2>4, <4>1, <4>2
        <3> QED
            BY <2>0, <3>1 DEF RunAt
    <2>5. CASE End(a) \/ SaveRendered(a) \/ SaveUploaded(a)
        BY <2>1, <2>5 DEF End, SaveRendered, SaveUploaded, Saved, Idle, Doing, Drawing, TypeOK
    <2>6. CASE EditCharacter(a) \/ EditEnvironment(a) \/ Enrich(a) \/ GenerateEnvironment(a)
        BY <2>6 DEF EditCharacter, EditEnvironment, Enrich, GenerateEnvironment, Begin, Doing, TypeOK
    <2>7. CASE Register(a) \/ Pin(a)
        BY <2>7 DEF Register, Pin, Begin, Doing, TypeOK
    <2>8. CASE EditSave(a) \/ Copy(a)
        BY <2>1, <2>8 DEF EditSave, Copy, Drawing, Idle, Doing, TypeOK, Op
    <2> QED
        BY <1>4, <2>2, <2>3, <2>4, <2>5, <2>6, <2>7, <2>8
           DEF Act, Step, Fail, EditMark, EnrichSave, Reuse, PinSave, EditFail, CharacterFail,
               EnvironmentFail, RegisterFail, GiveUp
<1> QED
    BY <1>1, <1>2, <1>3, <1>4 DEF Next, Act, RunsAt, Import, Decide, Unpin, vars, store

LEMMA ShownKept ==
    ASSUME \A i \in Assets : Kept(i), exec' = exec PROVE UNCHANGED Drawings!vars
BY DEF Kept, Drawings!vars

LEMMA ShownSaved ==
    ASSUME TypeOK, OpsOK, NEW a \in Actors, SaveRendered(a) \/ SaveUploaded(a),
           NEW i, i = op[a].asset, NEW s, s = op[a].on
    PROVE  /\ i \in Assets /\ s \in Subjects
           /\ \A S : s \in S => Drawings!Kept(i, S)
<1>1. /\ i \in Assets /\ i \notin Present /\ s \in Subjects /\ op[a].pc \in Holding
      /\ \A x \in Assets : x # i => asset'[x] = asset[x]
      /\ asset'[i].of = s /\ asset'[i].image = op[a].image
    BY ImageSaved DEF Holding
<1>2. op[a].image \in Images
    BY <1>1 DEF OpsOK, OpOK
<1>3. /\ Shown[i].of = None
      /\ Shown' = [Shown EXCEPT ![i] = Shown'[i]]
      /\ Shown'[i] = [of |-> s, image |-> op[a].image]
    BY <1>1, <1>2 DEF Shown, Present
<1>4. ASSUME NEW S, s \in S PROVE Drawings!Kept(i, S)
    BY <1>2, <1>3, <1>4 DEF Shown, Drawings!Kept
<1> QED
    BY <1>1, <1>4

LEMMA StepDraws ==
    ASSUME TypeOK, OpsOK, RunsAt, [Next]_vars PROVE [Drawings!Next]_(Drawings!vars)
<1> USE DEF Drawings!Becomes
<1>1. CASE asset' = asset /\ exec' = exec
    BY <1>1 DEF Drawings!vars
<1>2. CASE Import
    <2>1. PICK C \in SUBSET Characters : \E bundle \in [C -> Look] :
             asset' = [i \in Assets |-> IF asset[i].of \in Changed(C, bundle)
                                        THEN Marked(asset, asset[i].of, bundle[asset[i].of])[i]
                                        ELSE asset[i]]
        BY <1>2 DEF Import
    <2>2. PICK bundle \in [C -> Look] :
             asset' = [i \in Assets |-> IF asset[i].of \in Changed(C, bundle)
                                        THEN Marked(asset, asset[i].of, bundle[asset[i].of])[i]
                                        ELSE asset[i]]
        BY <2>1
    <2>3. \A i \in Assets : Kept(i)
        BY <2>2 DEF Marked, Kept, TypeOK, Asset
    <2> QED
        BY <1>2, <2>3, ShownKept DEF Import
<1>3. CASE Decide \/ Unpin
    <2>1. \A i \in Assets : Kept(i)
        BY <1>3 DEF Decide, Unpin, Kept, Present, TypeOK, Asset
    <2> QED
        BY <1>3, <2>1, ShownKept DEF Decide, Unpin
<1>4. ASSUME NEW a \in Actors, EditMark(a) \/ PinSave(a) PROVE UNCHANGED Drawings!vars
    <2>1. CASE EditMark(a)
        BY <2>1, MarkedKeeps, ShownKept DEF EditMark
    <2>2. CASE PinSave(a)
        <3>1. \A i \in Assets : Kept(i)
            BY <2>2 DEF PinSave, Kept, TypeOK, Asset
        <3> QED
            BY <2>2, <3>1, ShownKept DEF PinSave
    <2> QED
        BY <1>4, <2>1, <2>2
<1>5. ASSUME NEW a \in Actors, GenerateCharacter(a) PROVE Drawings!Next
    <2>1. PICK s \in Characters, r \in Runs :
             /\ exec[r] = NoExec
             /\ exec' = [exec EXCEPT ![r] = [NoExec EXCEPT !.st = "pending", !.of = s]]
        BY <1>5 DEF GenerateCharacter
    <2>2. asset' = asset
        BY <1>5 DEF GenerateCharacter
    <2>3. Ran' = [Ran EXCEPT ![r] = [st |-> "pending", of |-> s, out |-> None]]
        BY <2>1 DEF Ran, NoExec, TypeOK
    <2>4. Ran[r].st = "absent"
        BY <2>1 DEF Ran, NoExec
    <2>5. Drawings!Open(r, s)
        BY <2>2, <2>3, <2>4 DEF Drawings!Open, Ran
    <2> QED
        BY <2>5 DEF Drawings!Next
<1>6. ASSUME NEW a \in Actors, Submit(a) \/ Reuse(a) \/ SaveRendered(a) \/ CharacterFail(a)
      PROVE  [Drawings!Next]_(Drawings!vars)
    <2> SUFFICES ASSUME NEW r, r = op[a].run, NEW i, i = op[a].asset
                 PROVE  [Drawings!Next]_(Drawings!vars)
        OBVIOUS
    <2>0. /\ OpOK(a) /\ RunAt(a) /\ op[a].pc \in Drawing /\ op[a].on \in Subjects
          /\ r \in Runs => r # None
        BY <1>6, NoneAssumption
           DEF OpsOK, OpOK, RunsAt, Submit, Reuse, SaveRendered, CharacterFail, Drawing
    <2>1. /\ r \in Runs <=> op[a].on \in Characters
          /\ r \in Runs => exec[r].of = op[a].on
        BY <2>0, NoneAssumption DEF OpOK
    <2>2. CASE Submit(a)
        <3>1. exec' = Settled(a, "running", None) /\ asset' = asset /\ op[a].pc = "submit"
            BY <2>2 DEF Submit
        <3>2. CASE r \in Runs
            <4>0. /\ Ran[r].st = "pending" /\ Ran[r].of = exec[r].of
                  /\ Ran' = [Ran EXCEPT ![r] = [st |-> "running", of |-> exec[r].of, out |-> None]]
                BY <2>0, <3>1, <3>2, SettledIs DEF RunAt, Ran
            <4>1. Drawings!Send(r)
                BY <3>1, <4>0 DEF Ran, Drawings!Send
            <4> QED
                BY <3>2, <4>1 DEF Drawings!Next
        <3> QED
            BY <1>1, <3>1, <3>2, SettledIs
    <2>3. CASE CharacterFail(a)
        <3>1. asset' = asset /\ (exec' = Settled(a, "failed", None) \/ exec' = exec)
            BY <2>3 DEF CharacterFail, FailedRun
        <3>2. CASE exec' = Settled(a, "failed", None) /\ r \in Runs
            <4>1. Drawings!Fail(r)
                BY <2>0, <3>1, <3>2, SettledIs DEF RunAt, Ran, Drawings!Fail
            <4> QED
                BY <3>2, <4>1 DEF Drawings!Next
        <3> QED
            BY <1>1, <3>1, <3>2, SettledIs
    <2>4. CASE Reuse(a)
        <3>1. exec' = Settled(a, "succeeded", i) /\ asset' = asset /\ op[a].pc = "reuse"
            BY <2>4 DEF Reuse
        <3>2. op[a].on \in Characters /\ i \in Assets /\ asset[i].of = op[a].on
            BY <2>0, <3>1 DEF OpOK, Present
        <3>3. Shown[i].of = exec[r].of
            BY <2>1, <3>2 DEF Shown
        <3>4. /\ Ran[r].st = "running" /\ Ran[r].of = exec[r].of
              /\ Ran' = [Ran EXCEPT ![r] = [st |-> "succeeded", of |-> exec[r].of, out |-> i]]
            BY <2>0, <2>1, <3>1, <3>2, SettledIs DEF RunAt, Ran
        <3>5. Drawings!Reuse(r, i)
            BY <3>1, <3>3, <3>4 DEF Ran, Shown, Drawings!Reuse
        <3> QED
            BY <2>1, <3>2, <3>5 DEF Drawings!Next
    <2>5. CASE SaveRendered(a)
        <3>1. exec' = Settled(a, "succeeded", i) /\ op[a].pc = "save"
            BY <2>5 DEF SaveRendered
        <3> SUFFICES ASSUME NEW s, s = op[a].on PROVE Drawings!Next
            OBVIOUS
        <3>2. i \in Assets /\ s \in Subjects
            BY <2>5, ShownSaved
        <3>3. Drawings!Kept(i, Subjects) /\ Drawings!Kept(i, {s})
            BY <2>5, <3>2, ShownSaved
        <3>4. CASE r \in Runs
            <4>0. /\ Ran[r].st = "running" /\ Ran[r].of = s
                  /\ Ran' = [Ran EXCEPT ![r] = [st |-> "succeeded", of |-> s, out |-> i]]
                BY <2>0, <2>1, <3>1, <3>4, SettledIs DEF RunAt, Ran
            <4>1. Drawings!Becomes(r, {"running"}, "succeeded", s, i)
                BY <4>0 DEF Ran, Drawings!Becomes
            <4>2. Drawings!Draw(r, i)
                BY <3>3, <4>0, <4>1 DEF Ran, Drawings!Draw, Drawings!Kept, Drawings!Becomes
            <4> QED
                BY <3>2, <3>4, <4>2 DEF Drawings!Next
        <3>5. CASE r \notin Runs
            <4>1. Drawings!Keep(i)
                BY <3>1, <3>3, <3>5, SettledIs DEF Drawings!Keep
            <4> QED
                BY <2>0, <3>2, <4>1 DEF Drawings!Next
        <3> QED
            BY <3>4, <3>5
    <2> QED
        BY <1>6, <2>2, <2>3, <2>4, <2>5
<1>7. ASSUME NEW a \in Actors, SaveUploaded(a) PROVE Drawings!Next
    <2> SUFFICES ASSUME NEW i, i = op[a].asset, NEW s, s = op[a].on PROVE Drawings!Next
        OBVIOUS
    <2>1. i \in Assets /\ s \in Subjects /\ Drawings!Kept(i, Subjects)
        BY <1>7, ShownSaved
    <2>2. Drawings!Keep(i)
        BY <1>7, <2>1 DEF SaveUploaded, Drawings!Keep
    <2> QED
        BY <2>1, <2>2 DEF Drawings!Next
<1>8. ASSUME NEW a \in Actors, Act(a) PROVE [Drawings!Next]_(Drawings!vars)
    BY <1>1, <1>4, <1>5, <1>6, <1>7, <1>8
       DEF Act, Step, Fail, EditCharacter, EditEnvironment, Enrich, GenerateEnvironment, Register,
           Pin, EditSave, EnrichSave, Download, CheckRendered, Copy, EditFail, EnvironmentFail,
           RegisterFail, GiveUp, store
<1> QED
    BY <1>1, <1>2, <1>3, <1>8 DEF Next, Act, Crash, vars, store

\* However requests overlap, fail or die, each execution is drawn, kept and
\* ended as if it were the only one, and no image is lost or changes hands.
THEOREM ImplementsDrawing == Spec => DrawingSpec
<1>1. Init => RunsAt /\ Drawings!Init
    BY DEF Init, RunsAt, RunAt, Idle, Doing, NoExec, NoAsset, Drawings!Init
<1>2. Inv /\ RunsAt /\ [Next]_vars => RunsAt' /\ [Drawings!Next]_(Drawings!vars)
    BY StepRunsAt, StepDraws DEF Inv
<1> QED
    BY <1>1, <1>2, Invariance, PTL DEF Spec, DrawingSpec, Drawings!Spec

-----------------------------------------------------------------------------
(* One request at a time *)

\* No two images of a character are the same.
NeverTwice ==
    \A i, j \in Present : /\ asset[i].of = asset[j].of /\ asset[i].of # Environment
                          /\ asset[i].image = asset[j].image
                          => i = j

NoneLate == raced = {} /\ \A a \in Actors : ~op[a].late

LEMMA StepNotLate ==
    ASSUME \A a, b \in Actors : a = b, TypeOK, NoneLate, [Next]_vars PROVE NoneLate'
<1>1. CASE UNCHANGED <<op, raced>>
    BY <1>1 DEF NoneLate
<1>2. CASE Crash
    BY <1>2 DEF Crash, NoneLate, Idle, Doing
<1>3. ASSUME NEW a \in Actors, Act(a) PROVE raced' = {}
    <2>1. CASE SaveRendered(a) \/ SaveUploaded(a)
        BY <2>1 DEF SaveRendered, SaveUploaded, Unseen, NoneLate
    <2>2. CASE Step(a) /\ ~SaveRendered(a) /\ ~SaveUploaded(a)
        BY <2>2 DEF Step, EditSave, EditMark, EnrichSave, Submit, Download, CheckRendered, Reuse,
                    Copy, PinSave, history, NoneLate
    <2>3. CASE Fail(a)
        BY <2>3 DEF Fail, EditFail, CharacterFail, EnvironmentFail, RegisterFail, GiveUp, history,
                    NoneLate
    <2>4. CASE ~Step(a) /\ ~Fail(a)
        BY <1>3, <2>4 DEF Act, EditCharacter, EditEnvironment, Enrich, GenerateCharacter,
                          GenerateEnvironment, Register, Pin, history, NoneLate
    <2> QED
        BY <2>1, <2>2, <2>3, <2>4
<1>4. ASSUME NEW a \in Actors, Act(a) PROVE ~op'[a].late
    <2>1. CASE op'[a] = Idle
        BY <2>1 DEF Idle, Doing
    <2>2. CASE EditCharacter(a) \/ EditEnvironment(a) \/ Enrich(a) \/ GenerateEnvironment(a)
        BY <2>2 DEF EditCharacter, EditEnvironment, Enrich, GenerateEnvironment, Begin, Doing, TypeOK
    <2>3. CASE GenerateCharacter(a) \/ Register(a) \/ Pin(a)
        <3>0. \A o : Begin(a, o) => op'[a] = o
            BY DEF Begin, TypeOK
        <3>1. CASE GenerateCharacter(a)
            <4>1. PICK s \in Characters, r \in Runs :
                      Begin(a, [Doing("submit", s, look) EXCEPT !.run = r])
                BY <3>1 DEF GenerateCharacter
            <4> QED
                BY <3>0, <4>1 DEF Doing
        <3>2. CASE Register(a)
            <4>1. PICK s, img : Begin(a, [Doing("register", s, look) EXCEPT !.image = img])
                BY <3>2 DEF Register
            <4> QED
                BY <3>0, <4>1 DEF Doing
        <3>3. CASE Pin(a)
            <4>1. PICK i : Begin(a, [Doing("pin", None, look) EXCEPT !.asset = i])
                BY <3>3 DEF Pin
            <4> QED
                BY <3>0, <4>1 DEF Doing
        <3> QED
            BY <2>3, <3>1, <3>2, <3>3
    <2>4. CASE EditSave(a) \/ Submit(a) \/ CheckRendered(a) \/ Copy(a)
        BY <2>1, <2>4 DEF EditSave, Submit, Go, CheckRendered, Copy, NoneLate, TypeOK, Op
    <2>5. CASE Download(a)
        <3>1. PICK i \in Free, img \in Images :
                  op' = [op EXCEPT ![a].pc = "check", ![a].asset = i, ![a].image = img]
            BY <2>5 DEF Download
        <3>2. op'[a].late = op[a].late
            BY <3>1 DEF TypeOK, Op
        <3> QED
            BY <3>2 DEF NoneLate
    <2>6. CASE End(a) \/ SaveRendered(a) \/ SaveUploaded(a)
        BY <2>1, <2>6 DEF End, SaveRendered, SaveUploaded, Saved, TypeOK
    <2> QED
        BY <1>4, <2>2, <2>3, <2>4, <2>5, <2>6
           DEF Act, Step, Fail, EditMark, EnrichSave, Reuse, PinSave, EditFail, CharacterFail,
               EnvironmentFail, RegisterFail, GiveUp
<1> QED
    BY <1>1, <1>2, <1>3, <1>4
       DEF NoneLate, Next, Act, Import, Decide, Unpin, vars, history

\* Where requests come one at a time, no character has an image twice, through
\* any failures and crashes (find_duplicate before each save).
THEOREM AloneIsUnique ==
    ASSUME \A a, b \in Actors : a = b
    PROVE  Spec => []NeverTwice
<1>1. Init => NoneLate
    BY DEF Init, NoneLate, Idle, Doing
<1>2. Inv /\ NoneLate /\ [Next]_vars => NoneLate'
    BY StepNotLate DEF Inv
<1>3. Inv /\ NoneLate => NeverTwice
    BY DEF Inv, NoneLate, NoDuplicates, NeverTwice
<1> QED
    BY <1>1, <1>2, <1>3, Invariance, PTL DEF Spec

=============================================================================
