-------------------------- MODULE Planning_proofs --------------------------
(***************************************************************************)
(* Theorems about Planning, for any scenes, tables, number of actors and   *)
(* bounds.                                                                 *)
(***************************************************************************)
EXTENDS Planning, TLAPS

OnScene == {"direct", "replan", "reenrich"}
OnBeat  == {"editbeat", "newshot", "coverage"}
OnShot  == {"editshot", "newplan", "delete"}

OpOK(a) ==
    LET o == op[a] IN
    /\ o.pc \in OnScene => o.on \in Scenes
    /\ o.pc \in OnBeat  => o.on \in Beats
    /\ o.pc \in OnShot  => o.on \in Shots
    /\ o.pc = "editshot" => o.seen[o.on] < MaxVersion
    /\ o.read # {} => Seen(a) = {}

OpsOK == \A a \in Actors : OpOK(a)

-----------------------------------------------------------------------------
(* Types *)

LEMMA Rows1 ==
    /\ \A st \in Status, sc \in Scenes, by \in Writer : ABeat(st, sc, by) \in BeatRow
    /\ \A st \in Status, b \in Beats, by \in Writer, v \in Version : AShot(st, b, by, v) \in ShotRow
    /\ \A st \in Status, s \in Shots, v \in Version : APlan(st, s, v) \in PlanRow
BY DEF ABeat, AShot, APlan, BeatRow, ShotRow, PlanRow

LEMMA Versions1 ==
    /\ 0 \in Version /\ 1 \in Version
    /\ Nothing \in [Shots -> Version]
    /\ \A S : Marked(S) \in [Shots -> Version]
    /\ TypeOK => \A S : Versions(S) \in [Shots -> Version]
BY BoundAssumption DEF Version, Nothing, Marked, Versions, TypeOK, ShotRow

LEMMA NewOps ==
    /\ \A pc \in Pcs, on \in Scenes \cup Beats \cup Shots \cup {None}, B \in SUBSET Beats,
          seen \in [Shots -> Version], P \in SUBSET Plans : Doing(pc, on, B, seen, P) \in Op
    /\ Idle \in Op
BY Versions1 DEF Doing, Idle, Op, Pcs

LEMMA InitTyped == Init => TypeOK /\ OpsOK
<1> SUFFICES ASSUME Init PROVE TypeOK /\ OpsOK
    OBVIOUS
<1>1. beat \in [Beats -> BeatRow]
    BY DEF Init, ABeat, BeatRow, Status, Writer
<1>2. shot \in [Shots -> ShotRow]
    BY Versions1 DEF Init, AShot, ShotRow, Status, Writer
<1>3. plan \in [Plans -> PlanRow]
    BY Versions1 DEF Init, APlan, PlanRow, Status
<1>4. op \in [Actors -> Op] /\ \A a \in Actors : op[a].pc = "idle" /\ op[a].read = {}
    BY NewOps DEF Init, Idle, Doing
<1> QED
    BY <1>1, <1>2, <1>3, <1>4, BoundAssumption
       DEF Init, TypeOK, OpsOK, OpOK, OnScene, OnBeat, OnShot

LEMMA BeatsTyped ==
    ASSUME TypeOK, NEW old, NEW N \in SUBSET Beats, NEW new \in [N -> BeatRow]
    PROVE  Updated(beat, old, new) \in [Beats -> BeatRow]
<1>1. \A x \in Beats : [beat[x] EXCEPT !.st = "outdated"] \in BeatRow
    BY DEF TypeOK, BeatRow, Status
<1> QED
    BY <1>1 DEF Updated, TypeOK

LEMMA ShotsTyped ==
    ASSUME TypeOK, NEW old, NEW N \in SUBSET Shots, NEW new \in [N -> ShotRow]
    PROVE  Updated(shot, old, new) \in [Shots -> ShotRow]
<1>1. \A x \in Shots : [shot[x] EXCEPT !.st = "outdated"] \in ShotRow
    BY DEF TypeOK, ShotRow, Status
<1> QED
    BY <1>1 DEF Updated, TypeOK

LEMMA PlansTyped ==
    ASSUME TypeOK, NEW old, NEW N \in SUBSET Plans, NEW new \in [N -> PlanRow]
    PROVE  Updated(plan, old, new) \in [Plans -> PlanRow]
<1>1. \A x \in Plans : [plan[x] EXCEPT !.st = "outdated"] \in PlanRow
    BY DEF TypeOK, PlanRow, Status
<1> QED
    BY <1>1 DEF Updated, TypeOK

LEMMA NoRowsTyped ==
    /\ NoRows \in [{} -> BeatRow] /\ NoRows \in [{} -> ShotRow] /\ NoRows \in [{} -> PlanRow]
BY DEF NoRows

LEMMA GeneratedTyped ==
    /\ \A sc \in Scenes, N \in SUBSET Beats : GeneratedBeats(N, sc) \in [N -> BeatRow]
    /\ \A N \in SUBSET Shots : \A on \in [N -> Beats] : GeneratedShots(on) \in [N -> ShotRow]
    /\ \A N \in SUBSET Plans : \A for \in [N -> Shots], ver \in [Shots -> Version] :
          Selected(for, ver) \in [N -> PlanRow]
<1>1. "current" \in Status /\ "generated" \in Writer
    BY DEF Status, Writer
<1> QED
    BY <1>1, Rows1, Versions1 DEF GeneratedBeats, GeneratedShots, Selected

LEMMA OvertakenTyped ==
    ASSUME NEW o \in Op PROVE Overtaken(o) \in Op
<1>1. (o.late \/ o.pc # "idle") \in BOOLEAN
    OBVIOUS
<1> QED
    BY <1>1 DEF Overtaken, Op

LEMMA CommittedTyped ==
    ASSUME TypeOK, NEW a \in Actors, NEW next \in Op, Committed(a, next)
    PROVE  /\ planner' \in BOOLEAN /\ writes' \in 0..MaxWrites /\ takes' \subseteq Shots
           /\ raced' \subseteq Shots /\ op' \in [Actors -> Op]
<1>1. \A c \in Actors : Overtaken(op[c]) \in Op
    BY OvertakenTyped DEF TypeOK
<1> QED
    BY <1>1, BoundAssumption DEF Committed, TypeOK, Written

LEMMA WriteTyped ==
    ASSUME TypeOK, NEW a \in Actors,
           NEW ob, NEW os, NEW ops,
           NEW B \in SUBSET Beats, NEW S \in SUBSET Shots, NEW P \in SUBSET Plans,
           NEW nb \in [B -> BeatRow], NEW ns \in [S -> ShotRow], NEW np \in [P -> PlanRow],
           Write(a, Rows(ob, os, ops), Rows(nb, ns, np))
    PROVE  TypeOK'
<1>1. beat' \in [Beats -> BeatRow] /\ shot' \in [Shots -> ShotRow] /\ plan' \in [Plans -> PlanRow]
    BY BeatsTyped, ShotsTyped, PlansTyped DEF Write, Rows, SavedBeats, SavedShots, SavedPlans
<1>2. Committed(a, Idle) /\ Idle \in Op
    BY NewOps DEF Write
<1> QED
    BY <1>1, <1>2, CommittedTyped DEF TypeOK

LEMMA StartTyped ==
    ASSUME TypeOK, NEW a \in Actors, NEW o \in Op, Start(a, o)
    PROVE  TypeOK' /\ op' = [op EXCEPT ![a] = o]
BY DEF TypeOK, Start, tables

\* What the operations know of their rows is theirs: a step of a leaves what
\* the others know, and sets what a knows.
LEMMA StepKnows ==
    ASSUME TypeOK, OpsOK, NEW a \in Actors,
           \A c \in Actors : c # a => /\ op'[c].pc = op[c].pc /\ op'[c].on = op[c].on
                                      /\ op'[c].seen = op[c].seen /\ op'[c].read = op[c].read,
           OpOK(a)'
    PROVE  OpsOK'
BY DEF OpsOK, OpOK, Seen

LEMMA OvertakenKeeps ==
    ASSUME NEW o \in Op
    PROVE  /\ Overtaken(o).pc = o.pc /\ Overtaken(o).on = o.on /\ Overtaken(o).seen = o.seen
           /\ Overtaken(o).beats = o.beats /\ Overtaken(o).plans = o.plans
           /\ Overtaken(o).force = o.force /\ Overtaken(o).read = o.read
           /\ o.late => Overtaken(o).late
           /\ o.pc # "idle" => Overtaken(o).late
BY DEF Overtaken, Op

LEMMA StartKnows ==
    ASSUME TypeOK, OpsOK, NEW a \in Actors, NEW o \in Op, Start(a, o),
           o.pc \in OnScene => o.on \in Scenes,
           o.pc \in OnBeat  => o.on \in Beats,
           o.pc \in OnShot  => o.on \in Shots,
           o.pc = "editshot" => o.seen[o.on] < MaxVersion, o.read = {}
    PROVE  TypeOK' /\ OpsOK'
<1>1. TypeOK' /\ op' = [op EXCEPT ![a] = o]
    BY StartTyped
<1> QED
    BY <1>1, StepKnows DEF TypeOK, OpOK

LEMMA CommitKnows ==
    ASSUME TypeOK, OpsOK, NEW a \in Actors, NEW o \in Op, Committed(a, o),
           o.pc \in OnScene => o.on \in Scenes,
           o.pc \in OnBeat  => o.on \in Beats,
           o.pc \in OnShot  => o.on \in Shots,
           o.pc # "editshot", o.read = {}
    PROVE  OpsOK'
<1>1. op' = [c \in Actors |-> IF c = a THEN o ELSE Overtaken(op[c])]
    BY DEF Committed
<1>2. \A c \in Actors : c # a => /\ op'[c].pc = op[c].pc /\ op'[c].on = op[c].on
                                 /\ op'[c].seen = op[c].seen /\ op'[c].read = op[c].read
    BY <1>1, OvertakenKeeps DEF TypeOK
<1> QED
    BY <1>1, <1>2, StepKnows DEF OpOK

LEMMA WriteKnows ==
    ASSUME TypeOK, OpsOK, NEW a \in Actors, NEW old, NEW new, Write(a, old, new)
    PROVE  OpsOK'
<1>1. Idle \in Op /\ Idle.pc = "idle" /\ Idle.read = {}
    BY NewOps DEF Idle, Doing
<1> QED
    BY <1>1, CommitKnows DEF Write, OnScene, OnBeat, OnShot

LEMMA ReadTyped ==
    ASSUME TypeOK, OpsOK, NEW a \in Actors, Read(a) PROVE TypeOK' /\ OpsOK'
<1> DEFINE Known(o) ==
        /\ o \in Op
        /\ o.pc \in OnScene => o.on \in Scenes
        /\ o.pc \in OnBeat  => o.on \in Beats
        /\ o.pc \in OnShot  => o.on \in Shots
        /\ o.pc = "editshot" => o.seen[o.on] < MaxVersion
        /\ o.read = {}
<1> SUFFICES \E o : Known(o) /\ Start(a, o)
    BY StartKnows
<1>1. ASSUME NEW pc \in Pcs, NEW on \in Scenes \cup Beats \cup Shots \cup {None},
             NEW B \in SUBSET Beats, NEW seen \in [Shots -> Version], NEW P \in SUBSET Plans,
             pc \in OnScene => on \in Scenes, pc \in OnBeat => on \in Beats,
             pc \in OnShot => on \in Shots, pc = "editshot" => seen[on] < MaxVersion
      PROVE  Known(Doing(pc, on, B, seen, P))
    BY <1>1, NewOps DEF Doing
<1>2. ASSUME NEW o, Known(o), NEW f \in BOOLEAN PROVE Known([o EXCEPT !.force = f])
    BY <1>2 DEF Op
<1> HIDE DEF Known
<1> USE Versions1, PrimaryAssumption DEF OnScene, OnBeat, OnShot, Pcs
<1>3. CASE Enrich(a)
    <2>1. Known(Doing("direct", Primary, {}, Nothing, {}))
        BY <1>1
    <2>2. Known(Doing("legacy", None, CurrentBeats, Nothing, {}))
        BY <1>1 DEF CurrentBeats
    <2>3. Known(Doing("fill", None, {}, Versions(Planless), {}))
        BY <1>1
    <2> QED
        BY <1>3, <2>1, <2>2, <2>3 DEF Enrich
<1>4. CASE Replan(a)
    <2>1. Known(Doing("replan", Primary, {}, Marked(Live), {}))
        BY <1>1
    <2> QED
        BY <1>4, <2>1 DEF Replan
<1>5. CASE ReEnrich(a)
    <2>1. PICK sc \in Scenes, force \in BOOLEAN :
             Start(a, [Doing("reenrich", sc, BeatsOf(sc), Nothing, {}) EXCEPT !.force = force])
        BY <1>5 DEF ReEnrich
    <2>2. Known(Doing("reenrich", sc, BeatsOf(sc), Nothing, {}))
        BY <1>1 DEF BeatsOf, CurrentBeats
    <2> QED
        BY <1>2, <2>1, <2>2
<1>6. CASE Coverage(a)
    <2>1. PICK b \in Beats, force \in BOOLEAN :
             Start(a, [Doing("coverage", b, {}, Marked(CurrentShotsOf({b})), {})
                          EXCEPT !.force = force])
        BY <1>6 DEF Coverage
    <2>2. Known(Doing("coverage", b, {}, Marked(CurrentShotsOf({b})), {}))
        BY <1>1
    <2> QED
        BY <1>2, <2>1, <2>2
<1>7. CASE Assign(a)
    <2>1. PICK P \in Fetched(Live) : Start(a, Doing("assign", None, {}, Versions(Live), P))
        BY <1>7 DEF Assign
    <2>2. P \in SUBSET Plans
        BY DEF Fetched, CurrentPlans
    <2>3. Known(Doing("assign", None, {}, Versions(Live), P))
        BY <1>1, <2>2
    <2> QED
        BY <2>1, <2>3
<1>8. CASE EditBeat(a)
    <2>1. PICK b \in Beats : Start(a, Doing("editbeat", b, {}, Nothing, {}))
        BY <1>8 DEF EditBeat
    <2>2. Known(Doing("editbeat", b, {}, Nothing, {}))
        BY <1>1
    <2> QED
        BY <2>1, <2>2
<1>9. CASE EditShot(a)
    <2>1. PICK s \in Shots : /\ shot[s].ver < MaxVersion
                             /\ Start(a, Doing("editshot", s, {}, Versions({s}), {}))
        BY <1>9 DEF EditShot
    <2>2. Versions({s})[s] = shot[s].ver
        BY DEF Versions
    <2>3. Known(Doing("editshot", s, {}, Versions({s}), {}))
        BY <1>1, <2>1, <2>2
    <2> QED
        BY <2>1, <2>3
<1>10. CASE Delete(a)
    <2>1. PICK s \in Shots : Start(a, Doing("delete", s, {}, Nothing, {}))
        BY <1>10 DEF Delete
    <2>2. Known(Doing("delete", s, {}, Nothing, {}))
        BY <1>1
    <2> QED
        BY <2>1, <2>2
<1> QED
    BY <1>3, <1>4, <1>5, <1>6, <1>7, <1>8, <1>9, <1>10 DEF Read

\* What a replan that looks at another scene adds to what it knows.
LEMMA ReplanReadDoes ==
    ASSUME TypeOK, OpsOK, NEW a \in Actors, ReplanRead(a)
    PROVE  /\ TypeOK' /\ OpsOK'
           /\ tables' = tables /\ takes' = takes /\ raced' = raced
           /\ \A c \in Actors : c # a => op'[c] = op[c]
           /\ op[a].pc = "replan" /\ op'[a].pc = "replan" /\ op'[a].seen = op[a].seen
           /\ op'[a].late = op[a].late
           /\ Seen(a) = {} /\ op[a].beats = {}
           /\ \E sc \in Scenes : /\ op'[a].read = op[a].read \cup {sc}
                                 /\ op'[a].beats = BeatsOf(sc)
<1>1. PICK sc \in Scenes :
         op' = [op EXCEPT ![a].read = @ \cup {sc}, ![a].beats = BeatsOf(sc)]
    BY DEF ReplanRead
<1>2. op \in [Actors -> Op] /\ op[a] \in Op /\ BeatsOf(sc) \in SUBSET Beats
    BY DEF TypeOK, BeatsOf, CurrentBeats
<1>3. op' \in [Actors -> Op]
    BY <1>1, <1>2 DEF Op
<1>4. /\ \A c \in Actors : c # a => op'[c] = op[c]
      /\ op'[a].pc = op[a].pc /\ op'[a].on = op[a].on /\ op'[a].seen = op[a].seen
      /\ op'[a].late = op[a].late
      /\ op'[a].read = op[a].read \cup {sc} /\ op'[a].beats = BeatsOf(sc)
    BY <1>1, <1>2 DEF Op
<1>5. TypeOK'
    BY <1>3 DEF ReplanRead, TypeOK, tables
<1>6. OpsOK'
    <2>1. Seen(a)' = {} /\ op[a].pc = "replan" /\ op[a].on \in Scenes
        BY <1>4 DEF ReplanRead, Seen, OpsOK, OpOK, OnScene
    <2>2. OpOK(a)'
        BY <1>4, <2>1 DEF OpOK, OnScene, OnBeat, OnShot
    <2> QED
        BY <1>4, <2>2, StepKnows
<1> QED
    BY <1>4, <1>5, <1>6 DEF ReplanRead

\* The functions that relate the rows of an answer.
LEMMA AnswerTyped ==
    /\ \A N : Answers(N) \subseteq SUBSET N
    /\ \A A, B : Bijection(A, B) \subseteq [A -> B] /\ Surjection(A, B) \subseteq [A -> B]
BY DEF Answers, Bijection, Injection, Surjection

LEMMA PlanSceneTyped ==
    ASSUME TypeOK, OpsOK, NEW a \in Actors, NEW sc \in Scenes,
           NEW ob, NEW os, NEW opl, PlanScene(a, sc, Rows(ob, os, opl))
    PROVE  TypeOK'
<1>1. PICK B \in SUBSET Beats, S \in SUBSET Shots, P \in SUBSET Plans :
         \E on \in [S -> B], for \in [P -> S] :
             Write(a, Rows(ob, os, opl),
                   Rows(GeneratedBeats(B, sc), GeneratedShots(on), Selected(for, Marked(S))))
    BY AnswerTyped DEF PlanScene
<1>2. PICK on \in [S -> B], for \in [P -> S] :
             Write(a, Rows(ob, os, opl),
                   Rows(GeneratedBeats(B, sc), GeneratedShots(on), Selected(for, Marked(S))))
    BY <1>1
<1>3. on \in [S -> Beats] /\ for \in [P -> Shots]
    OBVIOUS
<1>4. /\ GeneratedBeats(B, sc) \in [B -> BeatRow] /\ GeneratedShots(on) \in [S -> ShotRow]
      /\ Selected(for, Marked(S)) \in [P -> PlanRow]
    BY <1>3, GeneratedTyped, Versions1
<1> QED
    BY <1>2, <1>4, WriteTyped

LEMMA EnrichLegacyTyped ==
    ASSUME TypeOK, OpsOK, NEW a \in Actors, EnrichLegacy(a) PROVE TypeOK'
<1>1. PICK B \in SUBSET Beats, S \in SUBSET Shots, P \in SUBSET Plans :
         \E of \in Surjection(B, {sc \in Scenes : \A b \in op[a].beats : beat[b].scene # sc}),
            on \in Surjection(S, B \cup op[a].beats), for \in Bijection(P, S) :
             Write(a, Rows({}, {}, {}),
                   Rows([b \in B |-> ABeat("current", of[b], "generated")],
                        GeneratedShots(on), Selected(for, Marked(S))))
    BY DEF EnrichLegacy
<1>2. PICK of \in Surjection(B, {sc \in Scenes : \A b \in op[a].beats : beat[b].scene # sc}),
            on \in Surjection(S, B \cup op[a].beats), for \in Bijection(P, S) :
             Write(a, Rows({}, {}, {}),
                   Rows([b \in B |-> ABeat("current", of[b], "generated")],
                        GeneratedShots(on), Selected(for, Marked(S))))
    BY <1>1
<1>3. of \in [B -> Scenes] /\ on \in [S -> Beats] /\ for \in [P -> Shots]
    <2>1. B \cup op[a].beats \subseteq Beats
        BY DEF TypeOK, Op
    <2> QED
        BY <2>1 DEF Surjection, Bijection, Injection
<1>4. [b \in B |-> ABeat("current", of[b], "generated")] \in [B -> BeatRow]
    BY <1>3, Rows1 DEF Status, Writer
<1>5. /\ GeneratedShots(on) \in [S -> ShotRow] /\ Selected(for, Marked(S)) \in [P -> PlanRow]
    BY <1>3, GeneratedTyped, Versions1
<1> QED
    BY <1>2, <1>4, <1>5, WriteTyped

LEMMA CommitTyped ==
    ASSUME TypeOK, OpsOK, NEW a \in Actors, Commit(a) PROVE TypeOK' /\ OpsOK'
<1>0. OpOK(a) /\ op[a] \in Op /\ NoRows \in [{} -> BeatRow] /\ NoRows \in [{} -> ShotRow]
      /\ NoRows \in [{} -> PlanRow] /\ Seen(a) \subseteq Shots /\ op[a].seen \in [Shots -> Version]
    BY NoRowsTyped DEF OpsOK, TypeOK, Op, Seen
<1>1. CASE EnrichDirect(a)
    BY <1>0, <1>1, PlanSceneTyped, WriteKnows DEF EnrichDirect, PlanScene, OpOK, OnScene
<1>2. CASE EnrichLegacy(a)
    BY <1>2, EnrichLegacyTyped, WriteKnows DEF EnrichLegacy
<1>3. CASE ReplanWrite(a)
    BY <1>0, <1>3, PlanSceneTyped, WriteKnows DEF ReplanWrite, PlanScene, OpOK, OnScene
<1>4. CASE EnrichFill(a)
    <2>0. PICK P \in SUBSET Plans : \E for \in [P -> Shots] :
             Write(a, Rows({}, {}, {}), Rows(NoRows, NoRows, Selected(for, op[a].seen)))
        <3>1. PICK P \in SUBSET Plans : \E for \in Bijection(P, Seen(a)) :
                 Write(a, Rows({}, {}, {}), Rows(NoRows, NoRows, Selected(for, op[a].seen)))
            BY <1>4 DEF EnrichFill
        <3>2. Bijection(P, Seen(a)) \subseteq [P -> Shots]
            BY <1>0, AnswerTyped
        <3> QED
            BY <3>1, <3>2
    <2>1. PICK for \in [P -> Shots] :
             Write(a, Rows({}, {}, {}), Rows(NoRows, NoRows, Selected(for, op[a].seen)))
        BY <2>0
    <2>2. Selected(for, op[a].seen) \in [P -> PlanRow]
        BY <1>0, GeneratedTyped
    <2> QED
        BY <1>0, <2>1, <2>2, WriteTyped, WriteKnows
<1>5. CASE ReEnrichWrite(a)
    <2>1. PICK B, os, opl :
             /\ B \in SUBSET Beats
             /\ Write(a, Rows(op[a].beats, os, opl), Rows(GeneratedBeats(B, op[a].on), NoRows, NoRows))
        BY <1>5, AnswerTyped DEF ReEnrichWrite
    <2>2. GeneratedBeats(B, op[a].on) \in [B -> BeatRow]
        BY <1>0, <1>5, <2>1, GeneratedTyped DEF ReEnrichWrite, OpOK, OnScene
    <2> QED
        BY <1>0, <2>1, <2>2, WriteTyped, WriteKnows
<1>6. CASE CoverageWrite(a)
    <2>1. PICK S \in SUBSET Shots :
             Write(a, Rows({}, Seen(a), PlansOf(Seen(a))),
                   Rows(NoRows, GeneratedShots([s \in S |-> op[a].on]), NoRows))
        BY <1>6, AnswerTyped DEF CoverageWrite
    <2>2. [s \in S |-> op[a].on] \in [S -> Beats]
        BY <1>0, <1>6 DEF CoverageWrite, OpOK, OnBeat
    <2>3. GeneratedShots([s \in S |-> op[a].on]) \in [S -> ShotRow]
        BY <2>2, GeneratedTyped
    <2> QED
        BY <1>0, <2>1, <2>3, WriteTyped, WriteKnows
<1>7. CASE AssignWrite(a)
    <2>0. PICK P \in SUBSET Plans : \E for \in [P -> Shots] :
             Write(a, Rows({}, {}, op[a].plans), Rows(NoRows, NoRows, Selected(for, op[a].seen)))
        <3>1. PICK P \in SUBSET Plans : \E for \in Bijection(P, Seen(a)) :
                 Write(a, Rows({}, {}, op[a].plans), Rows(NoRows, NoRows, Selected(for, op[a].seen)))
            BY <1>7 DEF AssignWrite
        <3>2. Bijection(P, Seen(a)) \subseteq [P -> Shots]
            BY <1>0, AnswerTyped
        <3> QED
            BY <3>1, <3>2
    <2>1. PICK for \in [P -> Shots] :
             Write(a, Rows({}, {}, op[a].plans), Rows(NoRows, NoRows, Selected(for, op[a].seen)))
        BY <2>0
    <2>2. Selected(for, op[a].seen) \in [P -> PlanRow]
        BY <1>0, GeneratedTyped
    <2> QED
        BY <1>0, <2>1, <2>2, WriteTyped, WriteKnows
<1>8. CASE EditBeatWrite(a)
    <2> DEFINE b  == op[a].on
               nb == [x \in {b} |-> ABeat("current", beat[b].scene, "human")]
    <2>1. PICK os, P : Write(a, Rows({}, os, P), Rows(nb, NoRows, NoRows))
        BY <1>8 DEF EditBeatWrite
    <2>2. b \in Beats
        BY <1>0, <1>8 DEF EditBeatWrite, OpOK, OnBeat
    <2>3. ABeat("current", beat[b].scene, "human") \in BeatRow
        BY <2>2 DEF ABeat, BeatRow, TypeOK, Status, Writer
    <2>4. nb \in [{b} -> BeatRow] /\ {b} \in SUBSET Beats
        BY <2>2, <2>3
    <2> HIDE DEF nb
    <2> QED
        BY <1>0, <2>1, <2>4, WriteTyped, WriteKnows
<1>9. CASE EditShotWrite(a)
    <2> DEFINE s  == op[a].on
               v  == op[a].seen[s] + 1
               ns == [x \in {s} |-> AShot("current", shot[s].beat, "human", v)]
    <2>1. PICK P : Write(a, Rows({}, {}, P), Rows(NoRows, ns, NoRows))
        BY <1>9 DEF EditShotWrite
    <2>2. s \in Shots /\ v \in Version
        BY <1>0, <1>9, BoundAssumption DEF EditShotWrite, OpOK, OnShot, Version
    <2>3. AShot("current", shot[s].beat, "human", v) \in ShotRow
        BY <2>2 DEF AShot, ShotRow, TypeOK, Status, Writer
    <2>4. ns \in [{s} -> ShotRow] /\ {s} \in SUBSET Shots
        BY <2>2, <2>3
    <2> HIDE DEF ns
    <2> QED
        BY <1>0, <2>1, <2>4, WriteTyped, WriteKnows
<1>10. CASE DeleteWrite(a)
    <2> DEFINE s  == op[a].on
               ns == [x \in {s} |-> [shot[s] EXCEPT !.st = "deleted"]]
               np == [p \in PlansOf({s}) |-> [plan[p] EXCEPT !.st = "deleted"]]
    <2>1. Write(a, Rows({}, {}, {}), Rows(NoRows, ns, np))
        BY <1>10 DEF DeleteWrite
    <2>2. s \in Shots
        BY <1>0, <1>10 DEF DeleteWrite, OpOK, OnShot
    <2>3. [shot[s] EXCEPT !.st = "deleted"] \in ShotRow
        BY <2>2 DEF ShotRow, TypeOK, Status
    <2>4. \A p \in Plans : [plan[p] EXCEPT !.st = "deleted"] \in PlanRow
        BY DEF PlanRow, TypeOK, Status
    <2>5. ns \in [{s} -> ShotRow] /\ {s} \in SUBSET Shots
        BY <2>2, <2>3
    <2>6. np \in [PlansOf({s}) -> PlanRow] /\ PlansOf({s}) \in SUBSET Plans
        BY <2>4 DEF PlansOf
    <2> HIDE DEF ns, np
    <2> QED
        BY <1>0, <2>1, <2>5, <2>6, WriteTyped, WriteKnows
<1>11. CASE CreateShot(a)
    <2>1. PICK b \in Beats, sc \in Scenes :
             /\ beat' = [beat EXCEPT ![b] = ABeat("current", sc, "human")]
             /\ Committed(a, Doing("newshot", b, {}, Nothing, {}))
        BY <1>11 DEF CreateShot
    <2>2. Doing("newshot", b, {}, Nothing, {}) \in Op /\ ABeat("current", sc, "human") \in BeatRow
        BY NewOps, Versions1, Rows1 DEF Pcs, Status, Writer
    <2>3. OpsOK'
        BY <2>1, <2>2, CommitKnows DEF Doing, OnScene, OnBeat, OnShot
    <2> QED
        BY <1>11, <2>1, <2>2, <2>3, CommittedTyped DEF TypeOK, CreateShot
<1>12. CASE CreateShotRow(a)
    <2> DEFINE o(s) == [Doing("newplan", s, {}, Nothing, {}) EXCEPT !.late = op[a].late]
    <2>1. PICK s \in Shots :
             /\ shot' = [shot EXCEPT ![s] = AShot("current", op[a].on, "human", 1)]
             /\ Committed(a, o(s))
        BY <1>12 DEF CreateShotRow
    <2>2. op[a].on \in Beats
        BY <1>0, <1>12 DEF CreateShotRow, OpOK, OnBeat
    <2>3. AShot("current", op[a].on, "human", 1) \in ShotRow
        BY <2>2, Rows1, Versions1 DEF Status, Writer
    <2>4. Doing("newplan", s, {}, Nothing, {}) \in Op
        BY NewOps, Versions1 DEF Pcs
    <2>5. o(s) \in Op /\ o(s).pc = "newplan" /\ o(s).on = s /\ o(s).read = {}
        BY <1>0, <2>4 DEF Op, Doing
    <2> HIDE DEF o
    <2>6. OpsOK'
        BY <2>1, <2>5, CommitKnows DEF OnScene, OnBeat, OnShot
    <2> QED
        BY <1>12, <2>1, <2>3, <2>5, <2>6, CommittedTyped DEF TypeOK, CreateShotRow
<1>13. CASE CreatePlan(a)
    <2> DEFINE np(p) == [x \in {p} |-> APlan("current", op[a].on, 1)]
    <2>1. PICK p \in Plans : Write(a, Rows({}, {}, {}), Rows(NoRows, NoRows, np(p)))
        BY <1>13 DEF CreatePlan
    <2>2. APlan("current", op[a].on, 1) \in PlanRow
        BY <1>0, <1>13, Rows1, Versions1 DEF CreatePlan, OpOK, OnShot, Status
    <2>3. np(p) \in [{p} -> PlanRow] /\ {p} \in SUBSET Plans
        BY <2>2
    <2> HIDE DEF np
    <2> QED
        BY <1>0, <2>1, <2>3, WriteTyped, WriteKnows
<1> QED
    BY <1>1, <1>2, <1>3, <1>4, <1>5, <1>6, <1>7, <1>8, <1>9, <1>10, <1>11, <1>12, <1>13 DEF Commit

LEMMA StepTyped == ASSUME TypeOK, OpsOK, [Next]_vars PROVE TypeOK' /\ OpsOK'
<1>1. ASSUME NEW a \in Actors, GiveUp(a) PROVE TypeOK' /\ OpsOK'
    <2>1. TypeOK' /\ op' = [op EXCEPT ![a] = Idle]
        BY <1>1, NewOps DEF GiveUp, TypeOK, tables
    <2> QED
        BY <2>1, StepKnows DEF TypeOK, OpOK, Idle, Doing, OnScene, OnBeat, OnShot
<1>2. CASE ApplyChanges
    <2>1. PICK ob, os, P : /\ beat' = SavedBeats(ob, NoRows)
                           /\ shot' = SavedShots(os, NoRows)
                           /\ plan' = SavedPlans(P, NoRows)
        BY <1>2 DEF ApplyChanges
    <2>2. /\ beat' \in [Beats -> BeatRow] /\ shot' \in [Shots -> ShotRow]
          /\ plan' \in [Plans -> PlanRow]
        BY <2>1, NoRowsTyped, BeatsTyped, ShotsTyped, PlansTyped
           DEF SavedBeats, SavedShots, SavedPlans
    <2>3. op' \in [Actors -> Op]
        BY <1>2, OvertakenTyped DEF ApplyChanges, Overtaking, TypeOK
    <2>4. OpsOK'
        BY <1>2, OvertakenKeeps DEF ApplyChanges, Overtaking, TypeOK, OpsOK, OpOK, Seen
    <2> QED
        BY <1>2, <2>2, <2>3, <2>4, BoundAssumption DEF ApplyChanges, TypeOK
<1>3. CASE TakeAppears
    <2>1. \A a \in Actors : [op[a] EXCEPT !.late = @ \/ op[a].pc = "replan"] \in Op
        <3>1. \A a \in Actors : (op[a].late \/ op[a].pc = "replan") \in BOOLEAN
            OBVIOUS
        <3> QED
            BY <3>1 DEF TypeOK, Op
    <2>2. TypeOK'
        BY <1>3, <2>1 DEF TakeAppears, TypeOK, tables
    <2>3. OpsOK'
        BY <1>3 DEF TakeAppears, TypeOK, OpsOK, OpOK, Op, Seen
    <2> QED
        BY <2>2, <2>3
<1>4. CASE UNCHANGED vars
    BY <1>4 DEF vars, tables, TypeOK, OpsOK, OpOK, Seen
<1> QED
    BY <1>1, <1>2, <1>3, <1>4, ReadTyped, ReplanReadDoes, CommitTyped DEF Next

-----------------------------------------------------------------------------
(* What a transaction does to the rows: the current ones of ob, os and opl    *)
(* are outdated, B, S and P are new, with what they refer to; nothing else.   *)

BeatsBecome(ob, B) ==
    \A b \in Beats :
        /\ b \in B => beat[b].st = "absent" /\ beat'[b].st = "current"
        /\ b \notin B /\ b \in ob /\ beat[b].st = "current" =>
              beat'[b] = [beat[b] EXCEPT !.st = "outdated"]
        /\ b \notin B /\ ~(b \in ob /\ beat[b].st = "current") => beat'[b] = beat[b]

ShotsBecome(os, S, on) ==
    \A s \in Shots :
        /\ s \in S => /\ shot[s].st = "absent" /\ shot'[s].st = "current"
                      /\ shot'[s].beat = on[s] /\ shot'[s].ver = 1
        /\ s \notin S /\ s \in os /\ shot[s].st = "current" =>
              shot'[s] = [shot[s] EXCEPT !.st = "outdated"]
        /\ s \notin S /\ ~(s \in os /\ shot[s].st = "current") => shot'[s] = shot[s]

PlansBecome(opl, P, for, ver) ==
    \A p \in Plans :
        /\ p \in P => plan[p].st = "absent" /\ plan'[p] = APlan("current", for[p], ver[for[p]])
        /\ p \notin P /\ p \in opl /\ plan[p].st = "current" =>
              plan'[p] = [plan[p] EXCEPT !.st = "outdated"]
        /\ p \notin P /\ ~(p \in opl /\ plan[p].st = "current") => plan'[p] = plan[p]

NoShots == <<>>

LEMMA NewBeatsBecome ==
    ASSUME TypeOK, NEW ob, NEW B \in SUBSET Beats, NEW new, DOMAIN new = B,
           \A b \in B : new[b].st = "current",
           B = {} \/ Fresh(B, beat), beat' = SavedBeats(ob, new)
    PROVE  BeatsBecome(ob, B)
BY DEF TypeOK, Fresh, SavedBeats, Updated, BeatsBecome

LEMMA NewShotsBecome ==
    ASSUME TypeOK, NEW os, NEW S \in SUBSET Shots, NEW on \in [S -> Beats],
           S = {} \/ Fresh(S, shot), shot' = SavedShots(os, GeneratedShots(on))
    PROVE  ShotsBecome(os, S, on)
<1>1. DOMAIN GeneratedShots(on) = S
      /\ \A x \in S : GeneratedShots(on)[x] = AShot("current", on[x], "generated", 1)
    BY DEF GeneratedShots
<1> QED
    BY <1>1 DEF TypeOK, Fresh, SavedShots, Updated, ShotsBecome, AShot

LEMMA NewPlansBecome ==
    ASSUME TypeOK, NEW opl, NEW P \in SUBSET Plans, NEW for \in [P -> Shots],
           NEW ver \in [Shots -> Version],
           P = {} \/ Fresh(P, plan), plan' = SavedPlans(opl, Selected(for, ver))
    PROVE  PlansBecome(opl, P, for, ver)
<1>1. DOMAIN Selected(for, ver) = P
      /\ \A x \in P : Selected(for, ver)[x] = APlan("current", for[x], ver[for[x]])
    BY DEF Selected
<1> QED
    BY <1>1 DEF TypeOK, Fresh, SavedPlans, Updated, PlansBecome

LEMMA NoNewRows ==
    ASSUME TypeOK, NEW old
    PROVE  /\ beat' = SavedBeats(old, NoRows) => BeatsBecome(old, {})
           /\ shot' = SavedShots(old, NoRows) => ShotsBecome(old, {}, NoShots)
           /\ plan' = SavedPlans(old, NoRows) => PlansBecome(old, {}, NoShots, NoShots)
BY DEF TypeOK, NoRows, SavedBeats, SavedShots, SavedPlans, Updated, BeatsBecome, ShotsBecome,
       PlansBecome

\* Field by field.
LEMMA RowFields ==
    /\ \A st, sc, by : ABeat(st, sc, by).st = st
    /\ \A st, b, by, v : /\ AShot(st, b, by, v).st = st /\ AShot(st, b, by, v).beat = b
                         /\ AShot(st, b, by, v).ver = v
    /\ \A st, s, v : /\ APlan(st, s, v).st = st /\ APlan(st, s, v).shot = s
                     /\ APlan(st, s, v).ver = v
BY DEF ABeat, AShot, APlan

LEMMA BeatFields ==
    ASSUME TypeOK, NEW ob, NEW B, BeatsBecome(ob, B), NEW b \in Beats
    PROVE  IF b \in B THEN beat[b].st = "absent" /\ beat'[b].st = "current"
           ELSE beat'[b].st = IF b \in ob /\ beat[b].st = "current" THEN "outdated" ELSE beat[b].st
<1>1. beat[b] \in BeatRow
    BY DEF TypeOK
<1> QED
    BY <1>1 DEF BeatsBecome, BeatRow

LEMMA ShotFields ==
    ASSUME TypeOK, NEW os, NEW S, NEW on, ShotsBecome(os, S, on), NEW s \in Shots
    PROVE  IF s \in S
           THEN /\ shot[s].st = "absent" /\ shot'[s].st = "current"
                /\ shot'[s].beat = on[s] /\ shot'[s].ver = 1
           ELSE /\ shot'[s].st = IF s \in os /\ shot[s].st = "current" THEN "outdated"
                                 ELSE shot[s].st
                /\ shot'[s].beat = shot[s].beat /\ shot'[s].ver = shot[s].ver
<1>1. shot[s] \in ShotRow
    BY DEF TypeOK
<1> QED
    BY <1>1 DEF ShotsBecome, ShotRow

LEMMA PlanFields ==
    ASSUME TypeOK, NEW opl, NEW P, NEW for, NEW ver, PlansBecome(opl, P, for, ver), NEW p \in Plans
    PROVE  IF p \in P
           THEN /\ plan[p].st = "absent" /\ plan'[p].st = "current"
                /\ plan'[p].shot = for[p] /\ plan'[p].ver = ver[for[p]]
           ELSE /\ plan'[p].st = IF p \in opl /\ plan[p].st = "current" THEN "outdated"
                                 ELSE plan[p].st
                /\ plan'[p].shot = plan[p].shot /\ plan'[p].ver = plan[p].ver
<1>1. plan[p] \in PlanRow
    BY DEF TypeOK
<1>2. CASE p \in P
    <2>1. plan[p].st = "absent" /\ plan'[p] = APlan("current", for[p], ver[for[p]])
        BY <1>2 DEF PlansBecome
    <2> QED
        BY <1>2, <2>1, RowFields
<1>3. CASE p \notin P
    BY <1>1, <1>3 DEF PlansBecome, PlanRow
<1> QED
    BY <1>2, <1>3

-----------------------------------------------------------------------------
(* The transactions *)

\* plan_scene and the beat to coverage chain: the shots of old beats, of the new
\* ones or of those read, and one plan for each of them.
PlannedAs(ob, os, opl, T) ==
    \E B \in SUBSET Beats, S \in SUBSET Shots, P \in SUBSET Plans :
        \E on \in [S -> B \cup T], for \in Bijection(P, S) :
            /\ BeatsBecome(ob, B) /\ ShotsBecome(os, S, on)
            /\ PlansBecome(opl, P, for, Marked(S))

LEMMA PlanSceneDoes ==
    ASSUME TypeOK, NEW a \in Actors, NEW sc, NEW ob, NEW os, NEW opl,
           PlanScene(a, sc, Rows(ob, os, opl))
    PROVE  PlannedAs(ob, os, opl, {}) /\ Committed(a, Idle)
<1>1. PICK B \in Answers(Beats), S \in Answers(Shots), P \in Answers(Plans) :
         /\ Fresh(B, beat) /\ Fresh(S, shot) /\ Fresh(P, plan)
         /\ \E on \in Bijection(S, B), for \in Bijection(P, S) :
              Write(a, Rows(ob, os, opl),
                    Rows(GeneratedBeats(B, sc), GeneratedShots(on), Selected(for, Marked(S))))
    BY DEF PlanScene
<1>2. PICK on \in Bijection(S, B), for \in Bijection(P, S) :
              Write(a, Rows(ob, os, opl),
                    Rows(GeneratedBeats(B, sc), GeneratedShots(on), Selected(for, Marked(S))))
    BY <1>1
<1>3. B \in SUBSET Beats /\ S \in SUBSET Shots /\ P \in SUBSET Plans
    BY DEF Answers
<1>4. on \in [S -> B] /\ on \in [S -> Beats] /\ for \in [P -> Shots]
    BY <1>3 DEF Bijection, Injection
<1>5. DOMAIN GeneratedBeats(B, sc) = B /\ \A b \in B : GeneratedBeats(B, sc)[b].st = "current"
    BY DEF GeneratedBeats, ABeat
<1>6. BeatsBecome(ob, B)
    BY <1>1, <1>2, <1>3, <1>5, NewBeatsBecome DEF Write, Rows
<1>7. ShotsBecome(os, S, on)
    BY <1>1, <1>2, <1>3, <1>4, NewShotsBecome DEF Write, Rows
<1>8. PlansBecome(opl, P, for, Marked(S))
    BY <1>1, <1>2, <1>3, <1>4, NewPlansBecome, Versions1 DEF Write, Rows
<1>9. on \in [S -> B \cup {}]
    BY <1>4
<1> QED
    BY <1>2, <1>3, <1>6, <1>7, <1>8, <1>9 DEF PlannedAs, Write

LEMMA EnrichLegacyDoes ==
    ASSUME TypeOK, NEW a \in Actors, EnrichLegacy(a)
    PROVE  PlannedAs({}, {}, {}, op[a].beats) /\ Committed(a, Idle)
<1>1. PICK B \in SUBSET Beats, S \in SUBSET Shots, P \in SUBSET Plans :
         /\ Fresh(B, beat) /\ Fresh(S, shot) /\ Fresh(P, plan)
         /\ \E of \in Surjection(B, {sc \in Scenes : \A b \in op[a].beats : beat[b].scene # sc}),
            on \in Surjection(S, B \cup op[a].beats), for \in Bijection(P, S) :
             Write(a, Rows({}, {}, {}),
                   Rows([b \in B |-> ABeat("current", of[b], "generated")],
                        GeneratedShots(on), Selected(for, Marked(S))))
    BY DEF EnrichLegacy
<1>2. PICK of \in Surjection(B, {sc \in Scenes : \A b \in op[a].beats : beat[b].scene # sc}),
            on \in Surjection(S, B \cup op[a].beats), for \in Bijection(P, S) :
             Write(a, Rows({}, {}, {}),
                   Rows([b \in B |-> ABeat("current", of[b], "generated")],
                        GeneratedShots(on), Selected(for, Marked(S))))
    BY <1>1
<1> DEFINE nb == [b \in B |-> ABeat("current", of[b], "generated")]
<1>3. on \in [S -> B \cup op[a].beats] /\ on \in [S -> Beats] /\ for \in [P -> Shots]
    <2>1. B \cup op[a].beats \subseteq Beats
        BY DEF TypeOK, Op
    <2> QED
        BY <2>1 DEF Surjection, Bijection, Injection
<1>4. DOMAIN nb = B /\ \A b \in B : nb[b].st = "current"
    BY DEF ABeat
<1>5. beat' = SavedBeats({}, nb)
    BY <1>2 DEF Write, Rows
<1> HIDE DEF nb
<1>6. BeatsBecome({}, B)
    BY <1>1, <1>4, <1>5, NewBeatsBecome
<1>7. ShotsBecome({}, S, on)
    BY <1>1, <1>2, <1>3, NewShotsBecome DEF Write, Rows
<1>8. PlansBecome({}, P, for, Marked(S))
    BY <1>1, <1>2, <1>3, NewPlansBecome, Versions1 DEF Write, Rows
<1> QED
    BY <1>2, <1>3, <1>6, <1>7, <1>8 DEF PlannedAs, Write

\* enrich_project for shots without a plan, and assign_strategies.
ReplannedAs(a, opl) ==
    \E P \in SUBSET Plans : \E for \in Bijection(P, Seen(a)) :
        PlansBecome(opl, P, for, op[a].seen)

LEMMA FillDoes ==
    ASSUME TypeOK, NEW a \in Actors, EnrichFill(a) \/ AssignWrite(a)
    PROVE  /\ beat' = beat /\ shot' = shot /\ Committed(a, Idle)
           /\ \A s \in Seen(a) : Exists(s)
           /\ ReplannedAs(a, IF op[a].pc = "assign" THEN op[a].plans ELSE {})
<1> DEFINE opl == IF op[a].pc = "assign" THEN op[a].plans ELSE {}
<1>1. PICK P \in SUBSET Plans : \E for \in Bijection(P, Seen(a)) :
         /\ Fresh(P, plan)
         /\ Write(a, Rows({}, {}, opl), Rows(NoRows, NoRows, Selected(for, op[a].seen)))
    BY DEF EnrichFill, AssignWrite
<1>2. PICK for \in Bijection(P, Seen(a)) :
         /\ Fresh(P, plan)
         /\ Write(a, Rows({}, {}, opl), Rows(NoRows, NoRows, Selected(for, op[a].seen)))
    BY <1>1
<1>3. for \in [P -> Shots] /\ op[a].seen \in [Shots -> Version]
    BY DEF Bijection, Injection, Seen, TypeOK, Op
<1>4. PlansBecome(opl, P, for, op[a].seen)
    BY <1>2, <1>3, NewPlansBecome DEF Write, Rows
<1>5. beat' = beat /\ shot' = shot
    BY <1>2 DEF Write, Rows, SavedBeats, SavedShots, Updated, NoRows, TypeOK
<1>6. \A s \in Seen(a) : Exists(s)
    BY DEF EnrichFill, AssignWrite
<1> QED
    BY <1>2, <1>4, <1>5, <1>6 DEF ReplannedAs, Write

LEMMA ReEnrichDoes ==
    ASSUME TypeOK, NEW a \in Actors, ReEnrichWrite(a)
    PROVE  /\ Committed(a, Idle)
           /\ \E B \in SUBSET Beats : BeatsBecome(op[a].beats, B)
           /\ ShotsBecome({s \in Shots : shot[s].beat \in op[a].beats}, {}, NoShots)
           /\ PlansBecome(PlansOf(CurrentShotsOf(op[a].beats)), {}, NoShots, NoShots)
<1>1. PICK B \in Answers(Beats) :
         /\ Fresh(B, beat)
         /\ Write(a, Rows(op[a].beats, {s \in Shots : shot[s].beat \in op[a].beats},
                          PlansOf(CurrentShotsOf(op[a].beats))),
                  Rows(GeneratedBeats(B, op[a].on), NoRows, NoRows))
    BY DEF ReEnrichWrite
<1>2. /\ DOMAIN GeneratedBeats(B, op[a].on) = B
      /\ \A b \in B : GeneratedBeats(B, op[a].on)[b].st = "current"
    BY DEF GeneratedBeats, ABeat
<1>3. B \in SUBSET Beats
    BY DEF Answers
<1>4. BeatsBecome(op[a].beats, B)
    BY <1>1, <1>2, <1>3, NewBeatsBecome DEF Write, Rows
<1> QED
    BY <1>1, <1>3, <1>4, NoNewRows DEF Write, Rows

LEMMA CoverageDoes ==
    ASSUME TypeOK, OpsOK, NEW a \in Actors, CoverageWrite(a)
    PROVE  /\ Committed(a, Idle) /\ beat' = beat
           /\ \E S \in SUBSET Shots : ShotsBecome(Seen(a), S, [s \in S |-> op[a].on])
           /\ PlansBecome(PlansOf(Seen(a)), {}, NoShots, NoShots)
<1>1. PICK S \in Answers(Shots) :
         /\ Fresh(S, shot)
         /\ Write(a, Rows({}, Seen(a), PlansOf(Seen(a))),
                  Rows(NoRows, GeneratedShots([s \in S |-> op[a].on]), NoRows))
    BY DEF CoverageWrite
<1>2. S \in SUBSET Shots
    BY DEF Answers
<1>3. [s \in S |-> op[a].on] \in [S -> Beats]
    BY DEF CoverageWrite, OpsOK, OpOK, OnBeat
<1>4. ShotsBecome(Seen(a), S, [s \in S |-> op[a].on])
    BY <1>1, <1>2, <1>3, NewShotsBecome DEF Write, Rows
<1>5. beat' = beat
    BY <1>1 DEF Write, Rows, SavedBeats, Updated, NoRows, TypeOK
<1> QED
    BY <1>1, <1>2, <1>4, <1>5, NoNewRows DEF Write, Rows

LEMMA EditBeatDoes ==
    ASSUME TypeOK, OpsOK, NEW a \in Actors, EditBeatWrite(a)
    PROVE  /\ Committed(a, Idle)
           /\ op[a].on \in Beats /\ beat'[op[a].on].st = "current"
           /\ \A b \in Beats : b # op[a].on => beat'[b] = beat[b]
           /\ ShotsBecome({s \in Shots : shot[s].beat = op[a].on}, {}, NoShots)
           /\ \E P \in Fetched(CurrentShotsOf({op[a].on})) : PlansBecome(P, {}, NoShots, NoShots)
<1> DEFINE b  == op[a].on
           nb == [x \in {b} |-> ABeat("current", beat[b].scene, "human")]
<1>1. PICK P \in Fetched(CurrentShotsOf({b})) :
         Write(a, Rows({}, {s \in Shots : shot[s].beat = b}, P), Rows(nb, NoRows, NoRows))
    BY DEF EditBeatWrite
<1>2. b \in Beats
    BY DEF EditBeatWrite, OpsOK, OpOK, OnBeat
<1>3. beat' = Updated(beat, {}, nb)
    BY <1>1 DEF Write, Rows, SavedBeats
<1>4. DOMAIN nb = {b} /\ nb[b].st = "current"
    BY DEF ABeat
<1> HIDE DEF nb
<1>5. beat'[b].st = "current" /\ \A c \in Beats : c # b => beat'[c] = beat[c]
    BY <1>2, <1>3, <1>4 DEF Updated, TypeOK
<1> QED
    BY <1>1, <1>2, <1>5, NoNewRows DEF Write, Rows

LEMMA EditShotDoes ==
    ASSUME TypeOK, OpsOK, NEW a \in Actors, EditShotWrite(a)
    PROVE  /\ Committed(a, Idle) /\ beat' = beat
           /\ op[a].on \in Shots
           /\ shot'[op[a].on] = AShot("current", shot[op[a].on].beat, "human",
                                      op[a].seen[op[a].on] + 1)
           /\ \A s \in Shots : s # op[a].on => shot'[s] = shot[s]
           /\ \E P \in SUBSET Plans : PlansBecome(P, {}, NoShots, NoShots)
<1> DEFINE s  == op[a].on
           v  == op[a].seen[s] + 1
           ns == [x \in {s} |-> AShot("current", shot[s].beat, "human", v)]
<1>1. PICK P \in OneOf({p \in Plans : plan[p] = APlan("current", s, v)}) :
         Write(a, Rows({}, {}, P), Rows(NoRows, ns, NoRows))
    BY DEF EditShotWrite
<1>2. s \in Shots
    BY DEF EditShotWrite, OpsOK, OpOK, OnShot
<1>3. shot' = Updated(shot, {}, ns)
    BY <1>1 DEF Write, Rows, SavedShots
<1>4. DOMAIN ns = {s} /\ ns[s] = AShot("current", shot[s].beat, "human", v)
    OBVIOUS
<1> HIDE DEF ns
<1>5. /\ shot'[s] = AShot("current", shot[s].beat, "human", v)
      /\ \A c \in Shots : c # s => shot'[c] = shot[c]
    BY <1>2, <1>3, <1>4 DEF Updated, TypeOK
<1>6. beat' = beat
    BY <1>1 DEF Write, Rows, SavedBeats, Updated, NoRows, TypeOK
<1>7. P \in SUBSET Plans
    BY DEF OneOf
<1> QED
    BY <1>1, <1>2, <1>5, <1>6, <1>7, NoNewRows DEF Write, Rows

LEMMA DeleteDoes ==
    ASSUME TypeOK, OpsOK, NEW a \in Actors, DeleteWrite(a)
    PROVE  /\ Committed(a, Idle) /\ beat' = beat
           /\ op[a].on \in Shots /\ op[a].on \notin takes
           /\ shot'[op[a].on] = [shot[op[a].on] EXCEPT !.st = "deleted"]
           /\ \A s \in Shots : s # op[a].on => shot'[s] = shot[s]
           /\ \A p \in Plans : IF p \in PlansOf({op[a].on})
                                THEN plan'[p] = [plan[p] EXCEPT !.st = "deleted"]
                                ELSE plan'[p] = plan[p]
<1> DEFINE s  == op[a].on
           ns == [x \in {s} |-> [shot[s] EXCEPT !.st = "deleted"]]
           np == [p \in PlansOf({s}) |-> [plan[p] EXCEPT !.st = "deleted"]]
<1>1. Write(a, Rows({}, {}, {}), Rows(NoRows, ns, np))
    BY DEF DeleteWrite
<1>2. s \in Shots /\ s \notin takes
    BY DEF DeleteWrite, Deletable, OpsOK, OpOK, OnShot
<1>3. shot' = Updated(shot, {}, ns) /\ plan' = Updated(plan, {}, np)
    BY <1>1 DEF Write, Rows, SavedShots, SavedPlans
<1>4. /\ DOMAIN ns = {s} /\ ns[s] = [shot[s] EXCEPT !.st = "deleted"]
      /\ DOMAIN np = PlansOf({s}) /\ PlansOf({s}) \subseteq Plans
      /\ \A p \in PlansOf({s}) : np[p] = [plan[p] EXCEPT !.st = "deleted"]
    BY DEF PlansOf
<1> HIDE DEF ns, np
<1>5. /\ shot'[s] = [shot[s] EXCEPT !.st = "deleted"]
      /\ \A c \in Shots : c # s => shot'[c] = shot[c]
    BY <1>2, <1>3, <1>4 DEF Updated, TypeOK
<1>6. \A p \in Plans : IF p \in PlansOf({s}) THEN plan'[p] = [plan[p] EXCEPT !.st = "deleted"]
                                             ELSE plan'[p] = plan[p]
    BY <1>3, <1>4 DEF Updated, TypeOK
<1>7. beat' = beat
    BY <1>1 DEF Write, Rows, SavedBeats, Updated, NoRows, TypeOK
<1> QED
    BY <1>1, <1>2, <1>5, <1>6, <1>7 DEF Write

LEMMA CreatePlanDoes ==
    ASSUME TypeOK, OpsOK, NEW a \in Actors, CreatePlan(a)
    PROVE  /\ Committed(a, Idle) /\ beat' = beat /\ shot' = shot
           /\ op[a].on \in Shots /\ Exists(op[a].on)
           /\ \E p \in Plans : /\ plan[p].st = "absent"
                               /\ plan'[p] = APlan("current", op[a].on, 1)
                               /\ \A q \in Plans : q # p => plan'[q] = plan[q]
<1>1. PICK p \in Plans :
         /\ Fresh({p}, plan)
         /\ Write(a, Rows({}, {}, {}),
                  Rows(NoRows, NoRows, [x \in {p} |-> APlan("current", op[a].on, 1)]))
    BY DEF CreatePlan
<1>2. op[a].on \in Shots /\ Exists(op[a].on)
    BY DEF CreatePlan, OpsOK, OpOK, OnShot
<1>3. plan' = Updated(plan, {}, [x \in {p} |-> APlan("current", op[a].on, 1)])
    BY <1>1 DEF Write, Rows, SavedPlans
<1>4. plan'[p] = APlan("current", op[a].on, 1) /\ \A q \in Plans : q # p => plan'[q] = plan[q]
    BY <1>3 DEF Updated, TypeOK
<1>5. beat' = beat /\ shot' = shot
    BY <1>1 DEF Write, Rows, SavedBeats, SavedShots, Updated, NoRows, TypeOK
<1> QED
    BY <1>1, <1>2, <1>4, <1>5 DEF Write, Fresh

LEMMA ApplyDoes ==
    ASSUME TypeOK, ApplyChanges
    PROVE  \E SC \in SUBSET Scenes, S \in SUBSET Live :
             /\ BeatsBecome({b \in Beats : beat[b].scene \in SC}, {})
             /\ ShotsBecome(Stale(SC, S), {}, NoShots)
             /\ \E P \in Fetched(Stale(SC, S)) : PlansBecome(P, {}, NoShots, NoShots)
BY NoNewRows DEF ApplyChanges

-----------------------------------------------------------------------------
(* Rows and what they refer to *)

\* A row that is there stays, with what it refers to.
RowsStay ==
    /\ \A b \in Beats : beat[b].st # "absent" => beat'[b].st # "absent"
    /\ \A s \in Shots : shot[s].st # "absent" =>
                           shot'[s].st # "absent" /\ shot'[s].beat = shot[s].beat
    /\ \A p \in Plans : plan[p].st # "absent" =>
                           plan'[p].st # "absent" /\ plan'[p].shot = plan[p].shot

\* No row refers to one that is not there.
RefsOK ==
    /\ \A s \in Shots, b \in Beats : shot[s].beat = b => beat[b].st # "absent" /\ shot[s].st # "absent"
    /\ \A p \in Plans, s \in Shots : plan[p].shot = s => shot[s].st # "absent" /\ plan[p].st # "absent"

OpRefs(a) ==
    /\ op[a].pc \in {"coverage", "newshot"} => beat[op[a].on].st # "absent"
    /\ \A b \in op[a].beats : beat[b].st # "absent"
    /\ op[a].pc = "editshot" => shot[op[a].on].st # "absent"

OpRefsOK == \A a \in Actors : OpRefs(a)

LEMMA BecomeStay ==
    ASSUME TypeOK
    PROVE  /\ \A ob, B : BeatsBecome(ob, B) =>
                 \A b \in Beats : beat[b].st # "absent" => beat'[b].st # "absent"
           /\ \A os, S, on : ShotsBecome(os, S, on) =>
                 \A s \in Shots : shot[s].st # "absent" =>
                     shot'[s].st # "absent" /\ shot'[s].beat = shot[s].beat
           /\ \A opl, P, for, ver : PlansBecome(opl, P, for, ver) =>
                 \A p \in Plans : plan[p].st # "absent" =>
                     plan'[p].st # "absent" /\ plan'[p].shot = plan[p].shot
<1>1. \A b \in Beats : beat[b] \in BeatRow
    BY DEF TypeOK
<1>2. \A s \in Shots : shot[s] \in ShotRow
    BY DEF TypeOK
<1>3. \A p \in Plans : plan[p] \in PlanRow
    BY DEF TypeOK
<1>4. ASSUME NEW ob, NEW B, BeatsBecome(ob, B), NEW b \in Beats, beat[b].st # "absent"
      PROVE  beat'[b].st # "absent"
    BY <1>1, <1>4 DEF BeatsBecome, BeatRow
<1>5. ASSUME NEW os, NEW S, NEW on, ShotsBecome(os, S, on), NEW s \in Shots, shot[s].st # "absent"
      PROVE  shot'[s].st # "absent" /\ shot'[s].beat = shot[s].beat
    BY <1>2, <1>5 DEF ShotsBecome, ShotRow
<1>6. ASSUME NEW opl, NEW P, NEW for, NEW ver, PlansBecome(opl, P, for, ver), NEW p \in Plans,
             plan[p].st # "absent"
      PROVE  plan'[p].st # "absent" /\ plan'[p].shot = plan[p].shot
    BY <1>3, <1>6 DEF PlansBecome, PlanRow
<1> QED
    BY <1>4, <1>5, <1>6

\* The rows of plan_scene and of the beat to coverage chain.
LEMMA PlannedRefs ==
    ASSUME TypeOK, TypeOK', RefsOK, NEW ob, NEW os, NEW opl, NEW T \in SUBSET Beats,
           \A b \in T : beat[b].st # "absent", PlannedAs(ob, os, opl, T)
    PROVE  RowsStay /\ RefsOK'
<1>1. PICK B \in SUBSET Beats, S \in SUBSET Shots, P \in SUBSET Plans :
         \E on \in [S -> B \cup T], for \in Bijection(P, S) :
            /\ BeatsBecome(ob, B) /\ ShotsBecome(os, S, on)
            /\ PlansBecome(opl, P, for, Marked(S))
    BY DEF PlannedAs
<1>2. PICK on \in [S -> B \cup T], for \in Bijection(P, S) :
            /\ BeatsBecome(ob, B) /\ ShotsBecome(os, S, on)
            /\ PlansBecome(opl, P, for, Marked(S))
    BY <1>1
<1>3. RowsStay
    BY <1>2, BecomeStay DEF RowsStay
<1>4. ASSUME NEW s \in Shots, NEW b \in Beats, shot'[s].beat = b
      PROVE  beat'[b].st # "absent" /\ shot'[s].st # "absent"
    <2>1. CASE s \in S
        <3>1. shot'[s].st = "current" /\ on[s] = b
            BY <1>2, <1>4, <2>1 DEF ShotsBecome
        <3>2. b \in B \/ b \in T
            BY <2>1, <3>1
        <3> QED
            BY <1>2, <1>3, <3>1, <3>2 DEF BeatsBecome, RowsStay
    <2>2. CASE s \notin S
        <3>1. shot'[s].beat = shot[s].beat
            BY <1>2, <2>2, ShotFields
        <3> QED
            BY <1>3, <1>4, <3>1 DEF RefsOK, RowsStay
    <2> QED
        BY <2>1, <2>2
<1>5. ASSUME NEW p \in Plans, NEW s \in Shots, plan'[p].shot = s
      PROVE  shot'[s].st # "absent" /\ plan'[p].st # "absent"
    <2>1. CASE p \in P
        <3>1. plan'[p].st = "current" /\ for[p] = s
            BY <1>2, <1>5, <2>1, PlanFields
        <3>2. s \in S
            BY <2>1, <3>1 DEF Bijection, Injection
        <3> QED
            BY <1>2, <3>1, <3>2 DEF ShotsBecome
    <2>2. CASE p \notin P
        <3>1. plan'[p].shot = plan[p].shot
            BY <1>2, <2>2, PlanFields
        <3> QED
            BY <1>3, <1>5, <3>1 DEF RefsOK, RowsStay
    <2> QED
        BY <2>1, <2>2
<1> QED
    BY <1>3, <1>4, <1>5 DEF RefsOK

\* Rows outdated, and nothing new that refers to anything.
LEMMA OutdatedRefs ==
    ASSUME TypeOK, TypeOK', RefsOK, RowsStay,
           \A s \in Shots : shot'[s].beat = shot[s].beat,
           \A p \in Plans : plan'[p].shot = plan[p].shot
    PROVE  RefsOK'
BY DEF RefsOK, RowsStay

LEMMA CommitRefs ==
    ASSUME TypeOK, OpsOK, TypeOK', RefsOK, OpRefsOK, NEW a \in Actors, Commit(a)
    PROVE  RowsStay /\ RefsOK'
<1>0. op[a].beats \in SUBSET Beats /\ \A b \in op[a].beats : beat[b].st # "absent"
    BY DEF TypeOK, Op, OpRefsOK, OpRefs
<1>1. CASE EnrichDirect(a) \/ ReplanWrite(a)
    <2>1. \E ob, os, opl : PlannedAs(ob, os, opl, {})
        BY <1>1, PlanSceneDoes DEF EnrichDirect, ReplanWrite
    <2> QED
        BY <2>1, PlannedRefs
<1>2. CASE EnrichLegacy(a)
    BY <1>0, <1>2, EnrichLegacyDoes, PlannedRefs
<1>3. CASE EnrichFill(a) \/ AssignWrite(a)
    <2>0. PICK opl : ReplannedAs(a, opl)
        BY <1>3, FillDoes
    <2>1. PICK P \in SUBSET Plans : \E for \in Bijection(P, Seen(a)) :
             PlansBecome(opl, P, for, op[a].seen)
        BY <2>0 DEF ReplannedAs
    <2>2. PICK for \in Bijection(P, Seen(a)) : PlansBecome(opl, P, for, op[a].seen)
        BY <2>1
    <2>3. beat' = beat /\ shot' = shot /\ \A s \in Seen(a) : Exists(s)
        BY <1>3, FillDoes
    <2>4. RowsStay
        BY <2>2, <2>3, BecomeStay DEF RowsStay
    <2>5. ASSUME NEW p \in Plans, NEW s \in Shots, plan'[p].shot = s
          PROVE  shot'[s].st # "absent" /\ plan'[p].st # "absent"
        <3>1. CASE p \in P
            <4>1. plan'[p].st = "current" /\ for[p] = s
                BY <2>2, <2>5, <3>1, PlanFields
            <4>2. s \in Seen(a)
                BY <3>1, <4>1 DEF Bijection, Injection
            <4> QED
                BY <2>3, <4>1, <4>2 DEF Exists
        <3>2. CASE p \notin P
            <4>1. plan'[p].shot = plan[p].shot
                BY <2>2, <3>2, PlanFields
            <4> QED
                BY <2>4, <2>5, <4>1 DEF RefsOK, RowsStay
        <3> QED
            BY <3>1, <3>2
    <2> QED
        BY <2>3, <2>4, <2>5 DEF RefsOK
<1>4. CASE ReEnrichWrite(a)
    <2>1. RowsStay
        BY <1>4, ReEnrichDoes, BecomeStay DEF RowsStay
    <2>2. /\ \A s \in Shots : shot'[s].beat = shot[s].beat
          /\ \A p \in Plans : plan'[p].shot = plan[p].shot
        <3>1. /\ ShotsBecome({s \in Shots : shot[s].beat \in op[a].beats}, {}, NoShots)
              /\ PlansBecome(PlansOf(CurrentShotsOf(op[a].beats)), {}, NoShots, NoShots)
            BY <1>4, ReEnrichDoes
        <3> QED
            BY <3>1, ShotFields, PlanFields
    <2> QED
        BY <2>1, <2>2, OutdatedRefs
<1>5. CASE CoverageWrite(a)
    <2>1. PICK S \in SUBSET Shots : ShotsBecome(Seen(a), S, [s \in S |-> op[a].on])
        BY <1>5, CoverageDoes
    <2>2. beat' = beat /\ PlansBecome(PlansOf(Seen(a)), {}, NoShots, NoShots)
        BY <1>5, CoverageDoes
    <2>3. RowsStay
        BY <2>1, <2>2, BecomeStay DEF RowsStay
    <2>4. \A p \in Plans : plan'[p].shot = plan[p].shot
        BY <2>2, PlanFields
    <2>5. ASSUME NEW s \in Shots, NEW b \in Beats, shot'[s].beat = b
          PROVE  beat'[b].st # "absent" /\ shot'[s].st # "absent"
        <3>1. CASE s \in S
            <4>1. shot'[s].st = "current" /\ b = op[a].on
                BY <2>1, <2>5, <3>1 DEF ShotsBecome
            <4> QED
                BY <1>5, <2>2, <4>1 DEF OpRefsOK, OpRefs, CoverageWrite
        <3>2. CASE s \notin S
            <4>1. shot'[s].beat = shot[s].beat
                BY <2>1, <3>2, ShotFields
            <4> QED
                BY <2>3, <2>5, <4>1 DEF RefsOK, RowsStay
        <3> QED
            BY <3>1, <3>2
    <2> QED
        BY <2>3, <2>4, <2>5 DEF RefsOK, RowsStay
<1>6. CASE EditBeatWrite(a)
    <2>1. PICK P : PlansBecome(P, {}, NoShots, NoShots)
        BY <1>6, EditBeatDoes
    <2>2. ShotsBecome({s \in Shots : shot[s].beat = op[a].on}, {}, NoShots)
        BY <1>6, EditBeatDoes
    <2>3. \A b \in Beats : beat[b].st # "absent" => beat'[b].st # "absent"
        BY <1>6, EditBeatDoes
    <2>4. RowsStay
        BY <2>1, <2>2, <2>3, BecomeStay DEF RowsStay
    <2>5. /\ \A s \in Shots : shot'[s].beat = shot[s].beat
          /\ \A p \in Plans : plan'[p].shot = plan[p].shot
        BY <2>1, <2>2, ShotFields, PlanFields
    <2> QED
        BY <2>4, <2>5, OutdatedRefs
<1>7. CASE EditShotWrite(a)
    <2>1. PICK P : PlansBecome(P, {}, NoShots, NoShots)
        BY <1>7, EditShotDoes
    <2>2. /\ op[a].on \in Shots /\ shot'[op[a].on].st = "current"
          /\ shot'[op[a].on].beat = shot[op[a].on].beat
          /\ \A s \in Shots : s # op[a].on => shot'[s] = shot[s]
          /\ beat' = beat
        BY <1>7, EditShotDoes, RowFields
    <2>3. RowsStay
        BY <2>1, <2>2, BecomeStay DEF RowsStay
    <2>4. \A p \in Plans : plan'[p].shot = plan[p].shot
        BY <2>1, PlanFields
    <2> QED
        BY <2>2, <2>3, <2>4, OutdatedRefs
<1>8. CASE DeleteWrite(a)
    <2>1. /\ op[a].on \in Shots /\ shot'[op[a].on].st = "deleted"
          /\ shot'[op[a].on].beat = shot[op[a].on].beat
          /\ \A s \in Shots : s # op[a].on => shot'[s] = shot[s]
          /\ beat' = beat
        <3>1. op[a].on \in Shots /\ shot[op[a].on] \in ShotRow
            BY <1>8, DeleteDoes DEF TypeOK
        <3>2. /\ shot'[op[a].on] = [shot[op[a].on] EXCEPT !.st = "deleted"]
              /\ \A s \in Shots : s # op[a].on => shot'[s] = shot[s]
              /\ beat' = beat
            BY <1>8, DeleteDoes
        <3> QED
            BY <3>1, <3>2 DEF ShotRow
    <2>2. \A p \in Plans : /\ plan'[p].shot = plan[p].shot
                           /\ plan[p].st # "absent" => plan'[p].st # "absent"
        <3>1. \A p \in Plans : \/ plan'[p] = [plan[p] EXCEPT !.st = "deleted"]
                               \/ plan'[p] = plan[p]
            BY <1>8, DeleteDoes
        <3>2. \A p \in Plans : plan[p] \in PlanRow
            BY DEF TypeOK
        <3> QED
            BY <3>1, <3>2 DEF PlanRow
    <2> QED
        BY <2>1, <2>2, OutdatedRefs DEF RowsStay
<1>9. CASE CreateShot(a)
    <2>1. PICK b \in Beats : /\ beat'[b].st = "current"
                             /\ \A c \in Beats : c # b => beat'[c] = beat[c]
        BY <1>9 DEF CreateShot, ABeat, TypeOK
    <2> QED
        BY <1>9, <2>1 DEF CreateShot, RowsStay, RefsOK
<1>10. CASE CreateShotRow(a)
    <2>1. PICK s \in Shots : /\ shot[s].st = "absent" /\ shot'[s].st = "current"
                             /\ shot'[s].beat = op[a].on
                             /\ \A c \in Shots : c # s => shot'[c] = shot[c]
        BY <1>10 DEF CreateShotRow, AShot, TypeOK, Fresh
    <2>2. beat[op[a].on].st # "absent"
        BY <1>10 DEF CreateShotRow, OpRefsOK, OpRefs
    <2> QED
        BY <1>10, <2>1, <2>2 DEF CreateShotRow, RowsStay, RefsOK
<1>11. CASE CreatePlan(a)
    <2>1. PICK p \in Plans : /\ plan[p].st = "absent" /\ plan'[p].st = "current"
                             /\ plan'[p].shot = op[a].on
                             /\ \A q \in Plans : q # p => plan'[q] = plan[q]
        BY <1>11, CreatePlanDoes, RowFields
    <2>2. beat' = beat /\ shot' = shot /\ shot[op[a].on].st # "absent"
        BY <1>11, CreatePlanDoes DEF Exists
    <2> QED
        BY <2>1, <2>2 DEF RowsStay, RefsOK
<1> QED
    BY <1>1, <1>2, <1>3, <1>4, <1>5, <1>6, <1>7, <1>8, <1>9, <1>10, <1>11 DEF Commit

-----------------------------------------------------------------------------
(* Who is overtaken *)

\* What an operation that was not overtaken has read is still so.
Snap(a) ==
    LET o == op[a] IN
    /\ o.pc = "direct" => Live = {}
    /\ o.pc = "legacy" => Live = {} /\ o.beats = CurrentBeats
    /\ o.pc \in {"fill", "assign"} =>
          \A s \in Seen(a) : s \in Live /\ o.seen[s] = shot[s].ver
    /\ o.pc = "fill" => \A s \in Seen(a) : CurrentPlans(s) = {}
    /\ o.pc = "assign" =>
          \A s \in Seen(a) : CurrentPlans(s) # {} => o.plans \cap CurrentPlans(s) # {}
    /\ o.pc = "replan" =>
          /\ Seen(a) = Live /\ Live \cap takes = {}
          /\ o.beats = {b \in CurrentBeats : beat[b].scene \in o.read}
    /\ o.pc = "reenrich" /\ ~o.force =>
          \A b \in o.beats : beat[b].by # "human"
    /\ o.pc = "coverage" /\ ~o.force =>
          \A s \in Seen(a) : shot[s].by # "human"
    /\ o.pc = "editbeat" => beat[o.on].st = "current"
    /\ o.pc = "editshot" => shot[o.on].st = "current" /\ o.seen[o.on] = shot[o.on].ver
    /\ o.pc = "newshot" => beat[o.on].st = "current"
    /\ o.pc = "newplan" => o.on \in Live /\ shot[o.on].ver = 1 /\ CurrentPlans(o.on) = {}

SnapsOK == \A a \in Actors : ~op[a].late => Snap(a)

LEMMA IdleFacts ==
    Idle.pc = "idle" /\ Idle.late = FALSE /\ Idle.beats = {}
BY DEF Idle, Doing

\* A transaction overtakes all the others.
LEMMA CommitOvertakes ==
    ASSUME TypeOK, NEW a \in Actors, NEW o, Committed(a, o)
    PROVE  /\ op'[a] = o
           /\ \A c \in Actors : c # a => /\ op'[c].pc = op[c].pc /\ op'[c].on = op[c].on
                                         /\ op'[c].beats = op[c].beats
                                         /\ op[c].pc # "idle" => op'[c].late
           /\ takes' = takes /\ raced \subseteq raced'
           /\ op[a].late => raced' = raced \cup Written
<1>1. \A c \in Actors : op'[c] = IF c = a THEN o ELSE Overtaken(op[c])
    BY DEF Committed
<1> QED
    BY <1>1, OvertakenKeeps DEF Committed, TypeOK

\* Who is idle knows nothing that could be wrong.
LEMMA IdleSnap ==
    ASSUME NEW a \in Actors, op[a].pc = "idle" PROVE Snap(a)
BY DEF Snap

LEMMA IdleSnapNext ==
    ASSUME NEW a \in Actors, op'[a].pc = "idle" PROVE Snap(a)'
BY DEF Snap

\* What an operation knows when it starts.
LEMMA SeenAll ==
    ASSUME TypeOK, NEW a \in Actors
    PROVE  /\ \A S \in SUBSET Shots : op'[a].seen = Marked(S) => Seen(a)' = S
           /\ \A S \in SUBSET Shots : op'[a].seen = Versions(S) =>
                 /\ Seen(a)' \subseteq S
                 /\ \A s \in Seen(a)' : op'[a].seen[s] = shot[s].ver
BY DEF Seen, Marked, Versions

LEMMA SameTables ==
    ASSUME tables' = tables
    PROVE  /\ Live' = Live /\ CurrentBeats' = CurrentBeats
           /\ \A s : CurrentPlans(s)' = CurrentPlans(s)
BY DEF tables, Live, CurrentShotsOf, CurrentBeats, CurrentPlans

\* Nothing is written: what was read is still so.
LEMMA SnapStays ==
    ASSUME TypeOK, NEW c \in Actors, tables' = tables, takes' = takes \/ op[c].pc # "replan",
           op'[c].pc = op[c].pc, op'[c].on = op[c].on, op'[c].beats = op[c].beats,
           op'[c].seen = op[c].seen, op'[c].plans = op[c].plans, op'[c].force = op[c].force,
           op'[c].read = op[c].read, Snap(c)
    PROVE  Snap(c)'
<1>1. beat' = beat /\ shot' = shot /\ Seen(c)' = Seen(c)
    BY DEF tables, Seen
<1> QED
    BY <1>1, SameTables DEF Snap

LEMMA ReadSnap ==
    ASSUME TypeOK, OpsOK, NEW a \in Actors, Read(a) PROVE Snap(a)' /\ OpRefs(a)'
<1>0. \A o : Start(a, o) => op'[a] = o /\ tables' = tables /\ takes' = takes
    BY DEF Start, TypeOK
<1> USE DEF Snap, OpRefs
<1>1. ASSUME NEW o, op'[a] = o, tables' = tables, takes' = takes, o.beats = {},
             o.pc = "direct" /\ Live = {}
      PROVE  Snap(a)' /\ OpRefs(a)'
    BY <1>1, SameTables
<1>2. ASSUME Start(a, Doing("legacy", None, CurrentBeats, Nothing, {})), Live = {}
      PROVE  Snap(a)' /\ OpRefs(a)'
    <2>1. op'[a].pc = "legacy" /\ op'[a].beats = CurrentBeats /\ tables' = tables
        BY <1>0, <1>2 DEF Doing
    <2> QED
        BY <1>2, <2>1, SameTables DEF CurrentBeats, tables
<1>3. ASSUME Start(a, Doing("fill", None, {}, Versions(Planless), {}))
      PROVE  Snap(a)' /\ OpRefs(a)'
    <2>1. /\ op'[a].pc = "fill" /\ op'[a].beats = {} /\ op'[a].seen = Versions(Planless)
          /\ tables' = tables
        BY <1>0, <1>3 DEF Doing
    <2>2. Planless \in SUBSET Shots /\ \A s \in Planless : s \in Live /\ CurrentPlans(s) = {}
        BY DEF Planless, Live, CurrentShotsOf
    <2>3. Seen(a)' \subseteq Planless /\ \A s \in Seen(a)' : op'[a].seen[s] = shot[s].ver
        BY <2>1, <2>2, SeenAll
    <2> QED
        BY <2>1, <2>2, <2>3, SameTables DEF tables
<1>4. CASE Enrich(a)
    <2>1. CASE NothingPlanned
        <3>1. CASE Start(a, Doing("direct", Primary, {}, Nothing, {}))
            <4>1. op'[a].pc = "direct" /\ op'[a].beats = {} /\ tables' = tables
                BY <1>0, <3>1 DEF Doing
            <4> QED
                BY <2>1, <4>1, SameTables DEF NothingPlanned
        <3> QED
            BY <1>2, <1>4, <2>1, <3>1 DEF Enrich, NothingPlanned
    <2> QED
        BY <1>3, <1>4, <2>1 DEF Enrich
<1>5. CASE Replan(a)
    <2>1. /\ op'[a].pc = "replan" /\ op'[a].beats = {} /\ op'[a].seen = Marked(Live)
          /\ op'[a].read = {} /\ tables' = tables /\ takes' = takes /\ Live \cap takes = {}
        BY <1>0, <1>5 DEF Replan, Replannable, Doing
    <2>2. Seen(a)' = Live
        BY <2>1, SeenAll DEF Live, CurrentShotsOf
    <2> QED
        BY <2>1, <2>2, SameTables
<1>6. CASE ReEnrich(a)
    <2>1. PICK sc \in Scenes, force \in BOOLEAN :
             /\ Replaceable({beat[b] : b \in BeatsOf(sc)}, force)
             /\ Start(a, [Doing("reenrich", sc, BeatsOf(sc), Nothing, {}) EXCEPT !.force = force])
        BY <1>6 DEF ReEnrich
    <2>2. /\ op'[a].pc = "reenrich" /\ op'[a].beats = BeatsOf(sc) /\ op'[a].force = force
          /\ tables' = tables
        BY <1>0, <2>1 DEF Doing
    <2>3. ~force => \A b \in BeatsOf(sc) : beat[b].by # "human"
        BY <2>1 DEF Replaceable
    <2> QED
        BY <2>2, <2>3 DEF BeatsOf, CurrentBeats, tables
<1>7. CASE Coverage(a)
    <2>1. PICK b \in Beats, force \in BOOLEAN :
             /\ beat[b].st # "absent"
             /\ Replaceable({shot[s] : s \in CurrentShotsOf({b})}, force)
             /\ Start(a, [Doing("coverage", b, {}, Marked(CurrentShotsOf({b})), {})
                             EXCEPT !.force = force])
        BY <1>7 DEF Coverage
    <2>2. /\ op'[a].pc = "coverage" /\ op'[a].on = b /\ op'[a].beats = {}
          /\ op'[a].force = force /\ op'[a].seen = Marked(CurrentShotsOf({b}))
          /\ tables' = tables
        BY <1>0, <2>1 DEF Doing
    <2>3. ~force => \A s \in CurrentShotsOf({b}) : shot[s].by # "human"
        BY <2>1 DEF Replaceable
    <2>4. Seen(a)' = CurrentShotsOf({b})
        BY <2>2, SeenAll DEF CurrentShotsOf
    <2> QED
        BY <2>1, <2>2, <2>3, <2>4 DEF tables
<1>8. CASE Assign(a)
    <2>1. PICK P \in Fetched(Live) : Start(a, Doing("assign", None, {}, Versions(Live), P))
        BY <1>8 DEF Assign
    <2>2. /\ op'[a].pc = "assign" /\ op'[a].beats = {} /\ op'[a].seen = Versions(Live)
          /\ op'[a].plans = P /\ tables' = tables
        BY <1>0, <2>1 DEF Doing
    <2>0. Live \in SUBSET Shots
        BY DEF Live, CurrentShotsOf
    <2>3. Seen(a)' \subseteq Live /\ \A s \in Seen(a)' : op'[a].seen[s] = shot[s].ver
        BY <2>0, <2>2, SeenAll
    <2>4. \A s \in Live : CurrentPlans(s) # {} => P \cap CurrentPlans(s) # {}
        BY DEF Fetched
    <2> QED
        BY <2>2, <2>3, <2>4, SameTables DEF tables
<1>9. CASE EditBeat(a)
    <2>1. PICK b \in Beats : /\ beat[b].st = "current"
                             /\ Start(a, Doing("editbeat", b, {}, Nothing, {}))
        BY <1>9 DEF EditBeat, Editable
    <2>2. op'[a].pc = "editbeat" /\ op'[a].on = b /\ op'[a].beats = {} /\ tables' = tables
        BY <1>0, <2>1 DEF Doing
    <2> QED
        BY <2>1, <2>2 DEF tables
<1>10. CASE EditShot(a)
    <2>1. PICK s \in Shots : /\ shot[s].st = "current"
                             /\ Start(a, Doing("editshot", s, {}, Versions({s}), {}))
        BY <1>10 DEF EditShot, Editable
    <2>2. /\ op'[a].pc = "editshot" /\ op'[a].on = s /\ op'[a].beats = {}
          /\ op'[a].seen = Versions({s}) /\ tables' = tables
        BY <1>0, <2>1 DEF Doing
    <2>3. Versions({s})[s] = shot[s].ver
        BY DEF Versions
    <2> QED
        BY <2>1, <2>2, <2>3 DEF tables
<1>11. CASE Delete(a)
    <2>1. op'[a].pc = "delete" /\ op'[a].beats = {}
        BY <1>0, <1>11 DEF Delete, Doing
    <2> QED
        BY <2>1
<1> QED
    BY <1>4, <1>5, <1>6, <1>7, <1>8, <1>9, <1>10, <1>11 DEF Read

LEMMA ReadKeeps ==
    ASSUME TypeOK, OpsOK, RefsOK, OpRefsOK, SnapsOK, NEW a \in Actors, Read(a)
    PROVE  RefsOK' /\ OpRefsOK' /\ SnapsOK'
<1>1. /\ tables' = tables /\ takes' = takes /\ \A c \in Actors : c # a => op'[c] = op[c]
    BY DEF Read, Enrich, Replan, ReEnrich, Coverage, Assign, EditBeat, EditShot, Delete, Start,
           TypeOK
<1>2. Snap(a)' /\ OpRefs(a)'
    BY ReadSnap
<1>3. \A c \in Actors : c # a => (~op'[c].late => Snap(c)')
    BY <1>1, SnapStays DEF SnapsOK
<1>4. \A c \in Actors : c # a => OpRefs(c)'
    BY <1>1 DEF OpRefsOK, OpRefs, tables
<1> QED
    BY <1>1, <1>2, <1>3, <1>4 DEF RefsOK, OpRefsOK, SnapsOK, tables

LEMMA ReplanReadKeeps ==
    ASSUME TypeOK, OpsOK, RefsOK, OpRefsOK, SnapsOK, NEW a \in Actors, ReplanRead(a)
    PROVE  RefsOK' /\ OpRefsOK' /\ SnapsOK'
<1>1. /\ tables' = tables /\ takes' = takes /\ \A c \in Actors : c # a => op'[c] = op[c]
      /\ op[a].pc = "replan" /\ op'[a].pc = "replan" /\ op'[a].seen = op[a].seen
      /\ op'[a].late = op[a].late /\ op[a].beats = {}
    BY ReplanReadDoes
<1>2. PICK sc \in Scenes : op'[a].read = op[a].read \cup {sc} /\ op'[a].beats = BeatsOf(sc)
    BY ReplanReadDoes
<1>3. beat' = beat /\ shot' = shot /\ Seen(a)' = Seen(a)
    BY <1>1 DEF tables, Seen
<1>4. ~op'[a].late => Snap(a)'
    <2> SUFFICES ASSUME ~op[a].late PROVE Snap(a)'
        BY <1>1
    <2>1. /\ Seen(a) = Live /\ Live \cap takes = {}
          /\ {} = {b \in CurrentBeats : beat[b].scene \in op[a].read}
        BY <1>1 DEF SnapsOK, Snap
    <2>2. BeatsOf(sc) = {b \in CurrentBeats : beat[b].scene \in op[a].read \cup {sc}}
        BY <2>1 DEF BeatsOf
    <2>3. Live' = Live /\ CurrentBeats' = CurrentBeats
        BY <1>1, SameTables
    <2> QED
        BY <1>1, <1>2, <1>3, <2>1, <2>2, <2>3 DEF Snap
<1>5. \A c \in Actors : c # a => (~op'[c].late => Snap(c)')
    BY <1>1, SnapStays DEF SnapsOK
<1>6. \A c \in Actors : OpRefs(c)'
    BY <1>1, <1>2, <1>3 DEF OpRefsOK, OpRefs, BeatsOf, CurrentBeats
<1>7. RefsOK'
    BY <1>1 DEF RefsOK, tables
<1> QED
    BY <1>4, <1>5, <1>6, <1>7 DEF OpRefsOK, SnapsOK

LEMMA CommitSnap ==
    ASSUME TypeOK, OpsOK, TypeOK', OpsOK', RefsOK, OpRefsOK, SnapsOK, NEW a \in Actors, Commit(a)
    PROVE  OpRefsOK' /\ SnapsOK'
<1>1. RowsStay
    BY CommitRefs
<1>2. PICK o : Committed(a, o)
    BY DEF Commit, EnrichDirect, EnrichLegacy, EnrichFill, ReplanWrite, PlanScene, ReEnrichWrite,
           CoverageWrite, AssignWrite, EditBeatWrite, EditShotWrite, DeleteWrite, CreateShot,
           CreateShotRow, CreatePlan, Write
<1>3. \A c \in Actors : c # a => Snap(c)' \/ op'[c].late
    BY <1>2, CommitOvertakes, IdleSnapNext
<1>4. ASSUME NEW c \in Actors, c # a PROVE OpRefs(c)'
    <2>1. op'[c].pc = op[c].pc /\ op'[c].on = op[c].on /\ op'[c].beats = op[c].beats
        BY <1>2, <1>4, CommitOvertakes
    <2>2. OpRefs(c) /\ op[c].beats \subseteq Beats
        BY DEF OpRefsOK, TypeOK, Op
    <2>3. /\ op[c].pc \in {"coverage", "newshot"} => op[c].on \in Beats
          /\ op[c].pc = "editshot" => op[c].on \in Shots
        BY DEF OpsOK, OpOK, OnBeat, OnShot
    <2> QED
        BY <1>1, <2>1, <2>2, <2>3 DEF OpRefs, RowsStay
<1>5. OpRefs(a)' /\ (op'[a].late \/ Snap(a)')
    <2>1. CASE op'[a] = Idle
        BY <2>1, IdleFacts, IdleSnapNext DEF OpRefs
    <2>2. CASE CreateShot(a)
        <3>1. PICK b \in Beats : \E sc \in Scenes :
                 /\ beat' = [beat EXCEPT ![b] = ABeat("current", sc, "human")]
                 /\ Committed(a, Doing("newshot", b, {}, Nothing, {}))
            BY <2>2 DEF CreateShot
        <3>2. op'[a] = Doing("newshot", b, {}, Nothing, {})
            BY <3>1, CommitOvertakes
        <3>3. op'[a].pc = "newshot" /\ op'[a].on = b /\ op'[a].beats = {}
            BY <3>2 DEF Doing
        <3>4. beat'[b].st = "current"
            BY <3>1, RowFields DEF TypeOK
        <3> QED
            BY <3>3, <3>4 DEF Snap, OpRefs
    <2>3. CASE CreateShotRow(a)
        <3> DEFINE n(s) == [Doing("newplan", s, {}, Nothing, {}) EXCEPT !.late = op[a].late]
        <3>1. PICK s \in Shots :
                 /\ shot[s].st = "absent"
                 /\ shot' = [shot EXCEPT ![s] = AShot("current", op[a].on, "human", 1)]
                 /\ Committed(a, n(s))
            BY <2>3 DEF CreateShotRow, Fresh
        <3>2. op'[a].pc = "newplan" /\ op'[a].on = s /\ op'[a].beats = {}
              /\ op'[a].late = op[a].late
            BY <3>1, CommitOvertakes DEF Doing
        <3>3. shot'[s].st = "current" /\ shot'[s].beat = op[a].on /\ shot'[s].ver = 1
            BY <3>1, RowFields DEF TypeOK
        <3>4. beat' = beat /\ plan' = plan /\ op[a].pc = "newshot"
            BY <2>3 DEF CreateShotRow
        <3>5. ~op[a].late => op[a].on \in CurrentBeats
            BY <3>4 DEF SnapsOK, Snap, CurrentBeats, OpsOK, OpOK, OnBeat
        <3>6. \A p \in Plans : plan[p].shot # s
            BY <3>1 DEF RefsOK
        <3>7. ~op[a].late => s \in Live' /\ CurrentPlans(s)' = {}
            BY <3>3, <3>4, <3>5, <3>6 DEF Live, CurrentShotsOf, CurrentBeats, CurrentPlans
        <3> QED
            BY <3>2, <3>3, <3>7 DEF Snap, OpRefs
    <2> QED
        BY <2>1, <2>2, <2>3, CommitOvertakes
           DEF Commit, EnrichDirect, EnrichLegacy, EnrichFill, ReplanWrite, PlanScene,
               ReEnrichWrite, CoverageWrite, AssignWrite, EditBeatWrite, EditShotWrite,
               DeleteWrite, CreatePlan, Write
<1> QED
    BY <1>3, <1>4, <1>5 DEF OpRefsOK, SnapsOK

\* What is known of the rows, of what the operations hold, and of what those
\* not overtaken have read.
Base == TypeOK /\ OpsOK /\ RefsOK /\ OpRefsOK /\ SnapsOK

LEMMA InitBase == Init => Base
<1>1. ASSUME Init PROVE RefsOK /\ OpRefsOK /\ SnapsOK
    <2>1. \A a \in Actors : op[a].pc = "idle" /\ op[a].beats = {}
        BY <1>1, IdleFacts DEF Init
    <2>2. \A s \in Shots : shot[s].beat = None
        BY <1>1, RowFields DEF Init
    <2>3. \A p \in Plans : plan[p].shot = None
        BY <1>1, RowFields DEF Init
    <2> QED
        BY <2>1, <2>2, <2>3, IdleSnap, NoneAssumption DEF RefsOK, OpRefsOK, OpRefs, SnapsOK
<1> QED
    BY <1>1, InitTyped DEF Base

LEMMA ApplyKeeps ==
    ASSUME Base, TypeOK', ApplyChanges
    PROVE  RowsStay /\ RefsOK' /\ OpRefsOK' /\ SnapsOK'
<1>1. PICK ob, os, P : /\ BeatsBecome(ob, {}) /\ ShotsBecome(os, {}, NoShots)
                       /\ PlansBecome(P, {}, NoShots, NoShots)
    BY ApplyDoes DEF Base
<1>2. RowsStay
    BY <1>1, BecomeStay DEF RowsStay, Base
<1>3. RefsOK'
    <2>1. /\ \A s \in Shots : shot'[s].beat = shot[s].beat
          /\ \A p \in Plans : plan'[p].shot = plan[p].shot
        BY <1>1, ShotFields, PlanFields DEF Base
    <2> QED
        BY <1>2, <2>1, OutdatedRefs DEF Base
<1>4. ASSUME NEW c \in Actors PROVE OpRefs(c)' /\ (op'[c].late \/ Snap(c)')
    <2>1. /\ op'[c].pc = op[c].pc /\ op'[c].on = op[c].on /\ op'[c].beats = op[c].beats
          /\ op[c].pc # "idle" => op'[c].late
        BY OvertakenKeeps DEF ApplyChanges, Overtaking, TypeOK, Base
    <2>2. OpRefs(c) /\ op[c].beats \subseteq Beats
        BY DEF OpRefsOK, TypeOK, Op, Base
    <2>3. /\ op[c].pc \in {"coverage", "newshot"} => op[c].on \in Beats
          /\ op[c].pc = "editshot" => op[c].on \in Shots
        BY DEF OpsOK, OpOK, OnBeat, OnShot, Base
    <2>4. OpRefs(c)'
        BY <1>2, <2>1, <2>2, <2>3 DEF OpRefs, RowsStay
    <2> QED
        BY <2>1, <2>4, IdleSnapNext
<1> QED
    BY <1>2, <1>3, <1>4 DEF OpRefsOK, SnapsOK

LEMMA StillKeeps ==
    ASSUME Base, TakeAppears \/ (\E a \in Actors : GiveUp(a)) \/ UNCHANGED vars
    PROVE  RefsOK' /\ OpRefsOK' /\ SnapsOK'
<1>1. tables' = tables
    BY DEF TakeAppears, GiveUp, vars
<1>2. RefsOK'
    BY <1>1 DEF RefsOK, tables, Base
<1>4. CASE TakeAppears
    <2>1. ASSUME NEW c \in Actors PROVE OpRefs(c)' /\ (~op'[c].late => Snap(c)')
        <3>1. op[c] \in Op /\ op'[c] = [op[c] EXCEPT !.late = @ \/ op[c].pc = "replan"]
            BY <1>4 DEF TakeAppears, Base, TypeOK
        <3>2. /\ op'[c].pc = op[c].pc /\ op'[c].on = op[c].on /\ op'[c].beats = op[c].beats
              /\ op'[c].seen = op[c].seen /\ op'[c].plans = op[c].plans
              /\ op'[c].force = op[c].force /\ op'[c].read = op[c].read
              /\ (op[c].late \/ op[c].pc = "replan") => op'[c].late
            BY <3>1 DEF Op
        <3>3. OpRefs(c)'
            BY <1>1, <3>2 DEF OpRefs, OpRefsOK, Base, tables
        <3>4. ~op'[c].late => Snap(c)'
            BY <1>1, <3>2, SnapStays DEF SnapsOK, Base
        <3> QED
            BY <3>3, <3>4
    <2> QED
        BY <1>2, <2>1 DEF OpRefsOK, SnapsOK
<1>5. CASE \E a \in Actors : GiveUp(a)
    <2>1. PICK a \in Actors : GiveUp(a)
        BY <1>5
    <2>2. op'[a] = Idle /\ takes' = takes /\ \A c \in Actors : c # a => op'[c] = op[c]
        BY <2>1 DEF GiveUp, Base, TypeOK
    <2>3. OpRefs(a)' /\ Snap(a)'
        BY <2>2, IdleFacts, IdleSnapNext DEF OpRefs
    <2>4. \A c \in Actors : c # a => OpRefs(c)'
        BY <1>1, <2>2 DEF OpRefs, OpRefsOK, Base, tables
    <2>5. \A c \in Actors : c # a => (~op'[c].late => Snap(c)')
        BY <1>1, <2>2, SnapStays DEF SnapsOK, Base
    <2> QED
        BY <1>2, <2>3, <2>4, <2>5 DEF OpRefsOK, SnapsOK
<1>6. CASE UNCHANGED vars
    <2>1. takes' = takes /\ op' = op
        BY <1>6 DEF vars
    <2>2. \A c \in Actors : OpRefs(c)'
        BY <1>1, <2>1 DEF OpRefs, OpRefsOK, Base, tables
    <2>3. \A c \in Actors : ~op'[c].late => Snap(c)'
        BY <1>1, <2>1, SnapStays DEF SnapsOK, Base
    <2> QED
        BY <1>2, <2>2, <2>3 DEF OpRefsOK, SnapsOK
<1> QED
    BY <1>4, <1>5, <1>6

LEMMA StepBase == ASSUME Base, [Next]_vars PROVE Base'
<1>1. TypeOK' /\ OpsOK'
    BY StepTyped DEF Base
<1>2. ASSUME NEW a \in Actors, Read(a) PROVE RefsOK' /\ OpRefsOK' /\ SnapsOK'
    BY <1>2, ReadKeeps DEF Base
<1>3. ASSUME NEW a \in Actors, Commit(a) PROVE RefsOK' /\ OpRefsOK' /\ SnapsOK'
    BY <1>1, <1>3, CommitRefs, CommitSnap DEF Base
<1>4. ASSUME NEW a \in Actors, ReplanRead(a) PROVE RefsOK' /\ OpRefsOK' /\ SnapsOK'
    BY <1>4, ReplanReadKeeps DEF Base
<1> QED
    BY <1>1, <1>2, <1>3, <1>4, ApplyKeeps, StillKeeps DEF Next, Base

-----------------------------------------------------------------------------
(* Plans *)

\* A shot has plans of its version or older ones; at most one is current, and
\* only if the shot counts.
Good(s) ==
    /\ \A p \in Plans : plan[p].shot = s => plan[p].ver <= shot[s].ver
    /\ \A p, q \in CurrentPlans(s) : p = q
    /\ CurrentPlans(s) # {} => s \in Live

PlansOK == \A s \in Shots \ raced : Good(s)

\* A shot that is not written stays as good as it was.
LEMMA UnwrittenGood ==
    ASSUME TypeOK, TypeOK', NEW s \in Shots, s \notin Written, Good(s)
    PROVE  Good(s)'
<1>1. shot'[s] = shot[s]
    BY DEF Written
<1>2. \A b \in Beats : shot[s].beat = b => beat'[b] = beat[b]
    BY <1>1 DEF Written
<1>3. \A p \in Plans : (plan[p].shot = s \/ plan'[p].shot = s) => plan'[p] = plan[p]
    BY DEF Written
<1>4. CurrentPlans(s)' = CurrentPlans(s)
    BY <1>1, <1>3 DEF CurrentPlans
<1>5. s \in Live => s \in Live'
    BY <1>1, <1>2 DEF Live, CurrentShotsOf, CurrentBeats
<1>6. \A p \in Plans : plan'[p].shot = s => plan'[p].ver <= shot'[s].ver
    BY <1>1, <1>3 DEF Good
<1> QED
    BY <1>4, <1>5, <1>6 DEF Good

\* A shot that was there, of which plans are outdated and none is new.
LEMMA OldGood ==
    ASSUME TypeOK, TypeOK', NEW s \in Shots, Good(s), shot'[s].ver = shot[s].ver,
           NEW opl, NEW P, NEW for, NEW ver, PlansBecome(opl, P, for, ver),
           \A p \in P : for[p] # s,
           s \in Live => s \in Live' \/ CurrentPlans(s) \subseteq opl
    PROVE  Good(s)'
<1>1. \A p \in Plans : plan'[p].shot = s =>
         /\ plan[p].shot = s /\ plan'[p].ver = plan[p].ver
         /\ plan'[p].st = "current" => plan[p].st = "current" /\ p \notin opl
    BY PlanFields
<1>2. CurrentPlans(s)' \subseteq CurrentPlans(s) \ opl
    BY <1>1 DEF CurrentPlans
<1>3. \A p \in Plans : plan'[p].shot = s => plan'[p].ver <= shot'[s].ver
    BY <1>1 DEF Good
<1> QED
    BY <1>2, <1>3 DEF Good

\* A new shot, with a plan of its own or none.
LEMMA NewGood ==
    ASSUME TypeOK, TypeOK', RefsOK, NEW s \in Shots, shot[s].st = "absent", shot'[s].ver = 1,
           NEW opl, NEW P, NEW for, NEW ver, PlansBecome(opl, P, for, ver),
           \A p \in P : for[p] = s => ver[s] = 1,
           \A p, q \in P : for[p] = s /\ for[q] = s => p = q,
           (\E p \in P : for[p] = s) => s \in Live'
    PROVE  Good(s)'
<1>1. \A p \in Plans : plan[p].shot # s
    BY DEF RefsOK
<1>2. \A p \in Plans : plan'[p].shot = s => p \in P /\ for[p] = s /\ plan'[p].ver = 1
    BY <1>1, PlanFields
<1>3. CurrentPlans(s)' \subseteq {p \in P : for[p] = s}
    BY <1>2 DEF CurrentPlans
<1> QED
    BY <1>2, <1>3 DEF Good

\* The answer of the language model, where no shot that counts and keeps a
\* current plan loses its row or its beat.
LEMMA PlannedGood ==
    ASSUME TypeOK, TypeOK', RefsOK, NEW ob, NEW os, NEW opl, NEW T \in SUBSET Beats,
           PlannedAs(ob, os, opl, T),
           \A b \in T : beat[b].st = "current" /\ b \notin ob,
           NEW s \in Shots, Good(s),
           s \in Live /\ (s \in os \/ shot[s].beat \in ob) => CurrentPlans(s) \subseteq opl
    PROVE  Good(s)'
<1>1. PICK B \in SUBSET Beats, S \in SUBSET Shots, P \in SUBSET Plans :
         \E on \in [S -> B \cup T], for \in Bijection(P, S) :
            /\ BeatsBecome(ob, B) /\ ShotsBecome(os, S, on)
            /\ PlansBecome(opl, P, for, Marked(S))
    BY DEF PlannedAs
<1>2. PICK on \in [S -> B \cup T], for \in Bijection(P, S) :
            /\ BeatsBecome(ob, B) /\ ShotsBecome(os, S, on)
            /\ PlansBecome(opl, P, for, Marked(S))
    BY <1>1
<1>3. for \in [P -> S] /\ \A p, q \in P : for[p] = for[q] => p = q
    BY DEF Bijection, Injection, IsInjective
<1>4. CASE s \in S
    <2>1. shot[s].st = "absent" /\ shot'[s].st = "current" /\ shot'[s].ver = 1
          /\ shot'[s].beat = on[s]
        BY <1>2, <1>4, ShotFields
    <2>2. on[s] \in Beats /\ beat'[on[s]].st = "current"
        BY <1>2, <1>4, BeatFields
    <2>3. s \in Live'
        BY <2>1, <2>2 DEF Live, CurrentShotsOf, CurrentBeats
    <2>4. Marked(S)[s] = 1
        BY <1>4 DEF Marked
    <2> QED
        BY <1>2, <1>3, <2>1, <2>3, <2>4, NewGood
<1>5. CASE s \notin S
    <2>1. /\ shot'[s].ver = shot[s].ver /\ shot'[s].beat = shot[s].beat
          /\ s \notin os => shot'[s].st = shot[s].st
        BY <1>2, <1>5, ShotFields
    <2>2. \A b \in CurrentBeats : b \notin ob => b \in CurrentBeats'
        BY <1>2, BeatFields DEF CurrentBeats
    <2>3. s \in Live => s \in Live' \/ s \in os \/ shot[s].beat \in ob
        BY <2>1, <2>2 DEF Live, CurrentShotsOf
    <2>4. \A p \in P : for[p] # s
        BY <1>3, <1>5
    <2> QED
        BY <1>2, <2>1, <2>3, <2>4, OldGood
<1> QED
    BY <1>4, <1>5

\* Missing plans filled in, and strategies assigned anew.
LEMMA ReplannedGood ==
    ASSUME Base, TypeOK', NEW a \in Actors, ~op[a].late, EnrichFill(a) \/ AssignWrite(a),
           NEW s \in Shots, Good(s)
    PROVE  Good(s)'
<1> DEFINE opl == IF op[a].pc = "assign" THEN op[a].plans ELSE {}
<1>1. /\ beat' = beat /\ shot' = shot /\ ReplannedAs(a, opl) /\ Snap(a)
      /\ op[a].pc \in {"fill", "assign"}
    BY FillDoes DEF Base, SnapsOK, EnrichFill, AssignWrite
<1>2. PICK P \in SUBSET Plans : \E for \in Bijection(P, Seen(a)) :
         PlansBecome(opl, P, for, op[a].seen)
    BY <1>1 DEF ReplannedAs
<1>3. PICK for \in Bijection(P, Seen(a)) : PlansBecome(opl, P, for, op[a].seen)
    BY <1>2
<1>4. for \in [P -> Seen(a)] /\ \A p, q \in P : for[p] = for[q] => p = q
    BY DEF Bijection, Injection, IsInjective
<1>5. Live' = Live
    BY <1>1 DEF Live, CurrentShotsOf, CurrentBeats
<1>6. CASE s \in Seen(a)
    <2>1. s \in Live /\ op[a].seen[s] = shot[s].ver
        BY <1>1, <1>6 DEF Snap
    <2>2. CurrentPlans(s) \subseteq opl
        <3>1. CASE op[a].pc = "fill"
            BY <1>1, <1>6, <3>1 DEF Snap
        <3>2. CASE op[a].pc = "assign"
            BY <1>1, <1>6, <3>2 DEF Snap, Good
        <3> QED
            BY <1>1, <3>1, <3>2
    <2> HIDE DEF opl
    <2>3. \A p \in Plans : plan'[p].shot = s =>
             IF p \in P THEN for[p] = s /\ plan'[p].ver = shot[s].ver
             ELSE /\ plan[p].shot = s /\ plan'[p].ver = plan[p].ver
                  /\ plan'[p].st = "current" => plan[p].st = "current" /\ p \notin opl
        BY <1>3, <2>1, PlanFields DEF Base
    <2>4. CurrentPlans(s)' \subseteq {p \in P : for[p] = s}
        BY <1>1, <2>2, <2>3 DEF CurrentPlans
    <2>5. \A p \in Plans : plan'[p].shot = s => plan'[p].ver <= shot'[s].ver
        <3>1. shot[s].ver \in Nat
            BY DEF Base, TypeOK, ShotRow, Version
        <3> QED
            BY <1>1, <2>3, <3>1 DEF Good
    <2> QED
        BY <1>4, <1>5, <2>1, <2>4, <2>5 DEF Good
<1>7. CASE s \notin Seen(a)
    <2>1. \A p \in P : for[p] # s
        BY <1>4, <1>7
    <2> QED
        BY <1>1, <1>3, <1>5, <2>1, OldGood DEF Base
<1> QED
    BY <1>6, <1>7

\* A cascade that fetches a current plan of each of its shots.
LEMMA FetchedGood ==
    ASSUME NEW S \in SUBSET Shots, NEW P \in Fetched(S), NEW s \in S, Good(s)
    PROVE  CurrentPlans(s) \subseteq P
BY DEF Fetched, Good

LEMMA ApplyGood ==
    ASSUME Base, TypeOK', ApplyChanges, NEW s \in Shots, Good(s)
    PROVE  Good(s)'
<1>1. PICK SC \in SUBSET Scenes, S \in SUBSET Live :
         /\ BeatsBecome({b \in Beats : beat[b].scene \in SC}, {})
         /\ ShotsBecome(Stale(SC, S), {}, NoShots)
         /\ \E P \in Fetched(Stale(SC, S)) : PlansBecome(P, {}, NoShots, NoShots)
    BY ApplyDoes DEF Base
<1>2. PICK P \in Fetched(Stale(SC, S)) : PlansBecome(P, {}, NoShots, NoShots)
    BY <1>1
<1>3. Stale(SC, S) \in SUBSET Shots
    BY DEF Stale, CurrentShotsOf, Live
<1>4. CASE s \in Stale(SC, S)
    <2>1. CurrentPlans(s) \subseteq P
        BY <1>3, <1>4, FetchedGood
    <2>2. shot'[s].ver = shot[s].ver
        BY <1>1, ShotFields DEF Base
    <2> QED
        BY <1>2, <2>1, <2>2, OldGood DEF Base
<1>5. CASE s \notin Stale(SC, S)
    <2>1. /\ shot'[s].ver = shot[s].ver /\ shot'[s].beat = shot[s].beat
          /\ shot'[s].st = shot[s].st
        BY <1>1, <1>5, ShotFields DEF Base
    <2>2. s \in Live => s \in Live'
        <3>1. ASSUME s \in Live PROVE shot[s].beat \in CurrentBeats'
            <4>1. shot[s].beat \in CurrentBeats /\ beat[shot[s].beat].scene \notin SC
                BY <1>5, <3>1 DEF Live, CurrentShotsOf, Stale, CurrentBeats
            <4> QED
                BY <1>1, <4>1, BeatFields DEF CurrentBeats, Base
        <3> QED
            BY <2>1, <3>1 DEF Live, CurrentShotsOf
    <2> QED
        BY <1>2, <2>1, <2>2, OldGood DEF Base
<1> QED
    BY <1>4, <1>5

\* An operation that was not overtaken leaves every shot as good as it was.
LEMMA CommitGood ==
    ASSUME Base, TypeOK', NEW a \in Actors, Commit(a), ~op[a].late, NEW s \in Shots, Good(s)
    PROVE  Good(s)'
<1>0. TypeOK /\ OpsOK /\ RefsOK /\ Snap(a)
    BY DEF Base, SnapsOK
<1>1. CASE EnrichDirect(a)
    <2>1. PlannedAs({}, {}, {}, {})
        BY <1>0, <1>1, PlanSceneDoes DEF EnrichDirect
    <2> QED
        BY <1>0, <2>1, PlannedGood
<1>2. CASE EnrichLegacy(a)
    <2>1. PlannedAs({}, {}, {}, op[a].beats)
        BY <1>0, <1>2, EnrichLegacyDoes
    <2>2. op[a].beats \in SUBSET Beats /\ \A b \in op[a].beats : beat[b].st = "current"
        BY <1>0, <1>2 DEF Snap, EnrichLegacy, CurrentBeats
    <2> QED
        BY <1>0, <2>1, <2>2, PlannedGood
<1>3. CASE EnrichFill(a) \/ AssignWrite(a)
    BY <1>3, ReplannedGood
<1>4. CASE ReplanWrite(a)
    <2>1. PlannedAs(Replaced(a), Seen(a), PlansOf(Seen(a)), {})
        BY <1>0, <1>4, PlanSceneDoes DEF ReplanWrite
    <2>2. s \in Live => CurrentPlans(s) \subseteq PlansOf(Seen(a))
        BY <1>0, <1>4 DEF Snap, ReplanWrite, CurrentPlans, PlansOf
    <2> QED
        BY <1>0, <2>1, <2>2, PlannedGood
<1>5. CASE ReEnrichWrite(a)
    <2> DEFINE os  == {x \in Shots : shot[x].beat \in op[a].beats}
               opl == PlansOf(CurrentShotsOf(op[a].beats))
    <2>1. PICK B \in SUBSET Beats : BeatsBecome(op[a].beats, B)
        BY <1>0, <1>5, ReEnrichDoes
    <2>2. ShotsBecome(os, {}, NoShots) /\ PlansBecome(opl, {}, NoShots, NoShots)
        BY <1>0, <1>5, ReEnrichDoes
    <2>3. /\ shot'[s].ver = shot[s].ver /\ shot'[s].beat = shot[s].beat
          /\ s \notin os => shot'[s].st = shot[s].st
        BY <1>0, <2>2, ShotFields
    <2>4. s \in Live /\ s \in os => CurrentPlans(s) \subseteq opl
        BY DEF Live, CurrentShotsOf, CurrentPlans, PlansOf
    <2>5. s \in Live /\ s \notin os => s \in Live'
        <3>1. \A b \in CurrentBeats : b \notin op[a].beats => b \in CurrentBeats'
            BY <1>0, <2>1, BeatFields DEF CurrentBeats
        <3> QED
            BY <2>3, <3>1 DEF Live, CurrentShotsOf
    <2> HIDE DEF os, opl
    <2> QED
        BY <1>0, <2>2, <2>3, <2>4, <2>5, OldGood
<1>6. CASE CoverageWrite(a)
    <2>1. PICK S \in SUBSET Shots : ShotsBecome(Seen(a), S, [x \in S |-> op[a].on])
        BY <1>0, <1>6, CoverageDoes
    <2>2. beat' = beat /\ PlansBecome(PlansOf(Seen(a)), {}, NoShots, NoShots)
        BY <1>0, <1>6, CoverageDoes
    <2>3. CASE s \in S
        <3>1. shot[s].st = "absent" /\ shot'[s].ver = 1
            BY <1>0, <2>1, <2>3, ShotFields
        <3> QED
            BY <1>0, <2>2, <3>1, NewGood
    <2>4. CASE s \notin S
        <3>1. /\ shot'[s].ver = shot[s].ver /\ shot'[s].beat = shot[s].beat
              /\ s \notin Seen(a) => shot'[s].st = shot[s].st
            BY <1>0, <2>1, <2>4, ShotFields
        <3>2. s \in Live => s \in Live' \/ CurrentPlans(s) \subseteq PlansOf(Seen(a))
            BY <2>2, <3>1 DEF Live, CurrentShotsOf, CurrentBeats, CurrentPlans, PlansOf
        <3> QED
            BY <1>0, <2>2, <3>1, <3>2, OldGood
    <2> QED
        BY <2>3, <2>4
<1>7. CASE EditBeatWrite(a)
    <2> DEFINE b == op[a].on
    <2>1. PICK P \in Fetched(CurrentShotsOf({b})) : PlansBecome(P, {}, NoShots, NoShots)
        BY <1>0, <1>7, EditBeatDoes
    <2>2. /\ b \in Beats /\ beat'[b].st = "current"
          /\ \A c \in Beats : c # b => beat'[c] = beat[c]
          /\ ShotsBecome({x \in Shots : shot[x].beat = b}, {}, NoShots)
        BY <1>0, <1>7, EditBeatDoes
    <2>3. /\ shot'[s].ver = shot[s].ver /\ shot'[s].beat = shot[s].beat
          /\ shot[s].beat # b => shot'[s].st = shot[s].st
        BY <1>0, <2>2, ShotFields
    <2>4. s \in Live /\ shot[s].beat = b => CurrentPlans(s) \subseteq P
        <3>1. CurrentShotsOf({b}) \in SUBSET Shots
            BY DEF CurrentShotsOf
        <3>2. s \in Live /\ shot[s].beat = b => s \in CurrentShotsOf({b})
            BY DEF Live, CurrentShotsOf
        <3> QED
            BY <3>1, <3>2, FetchedGood
    <2>5. s \in Live /\ shot[s].beat # b => s \in Live'
        BY <2>2, <2>3 DEF Live, CurrentShotsOf, CurrentBeats
    <2> QED
        BY <1>0, <2>1, <2>3, <2>4, <2>5, OldGood
<1>8. CASE EditShotWrite(a)
    <2>1. PICK P \in SUBSET Plans : PlansBecome(P, {}, NoShots, NoShots)
        BY <1>0, <1>8, EditShotDoes
    <2>2. /\ beat' = beat /\ op[a].on \in Shots /\ shot'[op[a].on].st = "current"
          /\ shot'[op[a].on].ver = op[a].seen[op[a].on] + 1
          /\ \A x \in Shots : x # op[a].on => shot'[x] = shot[x]
        BY <1>0, <1>8, EditShotDoes, RowFields
    <2>3. CASE s = op[a].on
        <3>1. shot'[s].ver = shot[s].ver + 1 /\ shot[s].ver \in Nat
            BY <1>0, <1>8, <2>2, <2>3
               DEF Snap, EditShotWrite, TypeOK, ShotRow, Version
        <3>2. \A p \in Plans : plan'[p].shot = s =>
                 plan'[p].ver = plan[p].ver /\ plan[p].ver <= shot[s].ver
            BY <1>0, <2>1, PlanFields DEF Good
        <3>3. \A p \in Plans : plan[p].ver \in Nat
            BY <1>0 DEF TypeOK, PlanRow, Version
        <3>4. \A p \in Plans : plan'[p].shot = s => plan'[p].ver < shot'[s].ver
            BY <3>1, <3>2, <3>3
        <3>5. \A p \in Plans : plan'[p].shot = s =>
                 plan'[p].ver <= shot'[s].ver /\ plan'[p].ver # shot'[s].ver
            BY <3>1, <3>2, <3>3, <3>4
        <3>6. CurrentPlans(s)' = {}
            BY <3>5 DEF CurrentPlans
        <3> QED
            BY <3>5, <3>6 DEF Good
    <2>4. CASE s # op[a].on
        <3>1. shot'[s] = shot[s]
            BY <2>2, <2>4
        <3>2. s \in Live => s \in Live'
            BY <2>2, <3>1 DEF Live, CurrentShotsOf, CurrentBeats
        <3> QED
            BY <1>0, <2>1, <3>1, <3>2, OldGood
    <2> QED
        BY <2>3, <2>4
<1>9. CASE DeleteWrite(a)
    <2> DEFINE d == op[a].on
    <2>1. /\ beat' = beat /\ d \in Shots
          /\ shot'[d] = [shot[d] EXCEPT !.st = "deleted"]
          /\ \A x \in Shots : x # d => shot'[x] = shot[x]
          /\ \A p \in Plans : IF p \in PlansOf({d})
                               THEN plan'[p] = [plan[p] EXCEPT !.st = "deleted"]
                               ELSE plan'[p] = plan[p]
        BY <1>0, <1>9, DeleteDoes
    <2>2. shot'[s].ver = shot[s].ver
        BY <1>0, <2>1 DEF TypeOK, ShotRow
    <2>3. \A p \in Plans : /\ plan'[p].shot = plan[p].shot /\ plan'[p].ver = plan[p].ver
                           /\ plan'[p].st = "current" =>
                                 plan[p].st = "current" /\ plan[p].shot # d
        <3>1. \A p \in Plans : plan[p] \in PlanRow
            BY <1>0 DEF TypeOK
        <3> QED
            BY <2>1, <3>1 DEF PlanRow, PlansOf
    <2>4. CurrentPlans(s)' \subseteq CurrentPlans(s) /\ (s = d => CurrentPlans(s)' = {})
        BY <2>2, <2>3 DEF CurrentPlans
    <2>5. s # d /\ s \in Live => s \in Live'
        BY <2>1 DEF Live, CurrentShotsOf, CurrentBeats
    <2>6. \A p \in Plans : plan'[p].shot = s => plan'[p].ver <= shot'[s].ver
        BY <2>2, <2>3 DEF Good
    <2> QED
        BY <2>4, <2>5, <2>6 DEF Good
<1>10. CASE CreateShot(a)
    <2>1. PICK b \in Beats : \E sc \in Scenes :
             beat' = [beat EXCEPT ![b] = ABeat("current", sc, "human")]
        BY <1>10 DEF CreateShot
    <2>2. \A c \in CurrentBeats : c \in CurrentBeats'
        BY <1>0, <2>1, RowFields DEF CurrentBeats, TypeOK
    <2>3. shot' = shot /\ plan' = plan
        BY <1>10 DEF CreateShot
    <2> QED
        BY <2>2, <2>3 DEF Good, CurrentPlans, Live, CurrentShotsOf
<1>11. CASE CreateShotRow(a)
    <2>1. PICK x \in Shots : /\ shot[x].st = "absent" /\ shot'[x].ver = 1
                             /\ \A c \in Shots : c # x => shot'[c] = shot[c]
        BY <1>0, <1>11, RowFields DEF CreateShotRow, TypeOK, Fresh
    <2>2. beat' = beat /\ plan' = plan
        BY <1>11 DEF CreateShotRow
    <2>3. CASE s = x
        <3>1. \A p \in Plans : plan[p].shot # s
            BY <1>0, <2>1, <2>3 DEF RefsOK
        <3> QED
            BY <2>2, <3>1 DEF Good, CurrentPlans
    <2>4. CASE s # x
        BY <2>1, <2>2, <2>4 DEF Good, CurrentPlans, Live, CurrentShotsOf, CurrentBeats
    <2> QED
        BY <2>3, <2>4
<1>12. CASE CreatePlan(a)
    <2>1. PICK p \in Plans : /\ plan[p].st = "absent"
                             /\ plan'[p].shot = op[a].on /\ plan'[p].ver = 1
                             /\ \A q \in Plans : q # p => plan'[q] = plan[q]
        BY <1>0, <1>12, CreatePlanDoes, RowFields
    <2>2. beat' = beat /\ shot' = shot
        BY <1>0, <1>12, CreatePlanDoes
    <2>3. /\ op[a].on \in Live /\ shot[op[a].on].ver = 1 /\ CurrentPlans(op[a].on) = {}
        BY <1>0, <1>12 DEF CreatePlan, Snap
    <2>4. Live' = Live
        BY <2>2 DEF Live, CurrentShotsOf, CurrentBeats
    <2>5. CASE s = op[a].on
        <3>1. CurrentPlans(s)' \subseteq {p}
            BY <2>1, <2>2, <2>3, <2>5 DEF CurrentPlans
        <3>2. \A q \in Plans : plan'[q].shot = s => plan'[q].ver <= shot'[s].ver
            BY <2>1, <2>2, <2>3, <2>5 DEF Good
        <3> QED
            BY <2>3, <2>4, <2>5, <3>1, <3>2 DEF Good
    <2>6. CASE s # op[a].on
        <3>1. CurrentPlans(s)' \subseteq CurrentPlans(s)
            BY <2>1, <2>2, <2>6 DEF CurrentPlans
        <3>2. \A q \in Plans : plan'[q].shot = s => plan'[q].ver <= shot'[s].ver
            BY <2>1, <2>2, <2>6 DEF Good
        <3> QED
            BY <2>4, <3>1, <3>2 DEF Good
    <2> QED
        BY <2>5, <2>6
<1> QED
    BY <1>1, <1>2, <1>3, <1>4, <1>5, <1>6, <1>7, <1>8, <1>9, <1>10, <1>11, <1>12 DEF Commit

LEMMA StepPlans == ASSUME Base, PlansOK, [Next]_vars PROVE PlansOK'
<1>0. TypeOK /\ TypeOK'
    BY StepBase DEF Base
<1> SUFFICES ASSUME NEW s \in Shots, s \notin raced' PROVE Good(s)'
    BY DEF PlansOK
<1>1. ASSUME NEW a \in Actors, Commit(a) PROVE Good(s)'
    <2>1. \E o : Committed(a, o)
        BY <1>1 DEF Commit, EnrichDirect, EnrichLegacy, EnrichFill, ReplanWrite, PlanScene,
                    ReEnrichWrite, CoverageWrite, AssignWrite, EditBeatWrite, EditShotWrite,
                    DeleteWrite, CreateShot, CreateShotRow, CreatePlan, Write
    <2>2. raced \subseteq raced' /\ (op[a].late => raced' = raced \cup Written)
        BY <1>0, <2>1, CommitOvertakes
    <2>3. Good(s)
        BY <2>2 DEF PlansOK
    <2> QED
        BY <1>0, <1>1, <2>2, <2>3, UnwrittenGood, CommitGood
<1>2. CASE ApplyChanges
    BY <1>0, <1>2, ApplyGood DEF PlansOK, ApplyChanges
<1>3. ASSUME tables' = tables, raced' = raced PROVE Good(s)'
    BY <1>3, SameTables DEF Good, PlansOK, tables
<1>4. (\E a \in Actors : Read(a) \/ ReplanRead(a) \/ GiveUp(a)) \/ TakeAppears \/ UNCHANGED vars
         => tables' = tables /\ raced' = raced
    BY DEF ReplanRead, Read, Enrich, Replan, ReEnrich, Coverage, Assign, EditBeat, EditShot, Delete, Start,
           GiveUp, TakeAppears, vars
<1> QED
    BY <1>1, <1>2, <1>3, <1>4 DEF Next

-----------------------------------------------------------------------------
(* What becomes of a shot that was there *)

LEMMA ShotsKeep ==
    ASSUME TypeOK, NEW os, NEW S, NEW on, ShotsBecome(os, S, on), NEW s \in Shots
    PROVE  /\ Exists(s) => Exists(s)'
           /\ shot[s].st \in {"outdated", "deleted"} => shot'[s].st = shot[s].st
BY ShotFields DEF Exists

\* Only delete_shot removes one, only edit_shot brings one back.
LEMMA CommitShots ==
    ASSUME Base, NEW a \in Actors, Commit(a), NEW s \in Shots
    PROVE  /\ Exists(s) => Exists(s)' \/ (DeleteWrite(a) /\ s = op[a].on)
           /\ shot[s].st \in {"outdated", "deleted"} =>
                 shot'[s].st = shot[s].st \/ (EditShotWrite(a) /\ s = op[a].on)
                                          \/ (DeleteWrite(a) /\ shot'[s].st = "deleted")
<1>0. TypeOK /\ OpsOK
    BY DEF Base
<1>1. CASE EnrichDirect(a) \/ EnrichLegacy(a) \/ ReplanWrite(a)
    <2>1. \E ob, os, opl, T : PlannedAs(ob, os, opl, T)
        BY <1>0, <1>1, PlanSceneDoes, EnrichLegacyDoes DEF EnrichDirect, ReplanWrite
    <2>2. \E os, S, on : ShotsBecome(os, S, on)
        BY <2>1 DEF PlannedAs
    <2> QED
        BY <1>0, <2>2, ShotsKeep
<1>2. CASE shot' = shot
    BY <1>2 DEF Exists
<1>3. CASE EnrichFill(a) \/ AssignWrite(a) \/ CreateShot(a) \/ CreatePlan(a)
    <2>1. shot' = shot
        BY <1>0, <1>3, FillDoes, CreatePlanDoes DEF CreateShot
    <2> QED
        BY <1>2, <2>1
<1>4. CASE ReEnrichWrite(a) \/ CoverageWrite(a) \/ EditBeatWrite(a)
    <2>1. \E os, S, on : ShotsBecome(os, S, on)
        BY <1>0, <1>4, ReEnrichDoes, CoverageDoes, EditBeatDoes
    <2> QED
        BY <1>0, <2>1, ShotsKeep
<1>5. CASE EditShotWrite(a)
    <2>1. /\ op[a].on \in Shots /\ shot'[op[a].on].st = "current"
          /\ \A x \in Shots : x # op[a].on => shot'[x] = shot[x]
        BY <1>0, <1>5, EditShotDoes, RowFields
    <2> QED
        BY <1>5, <2>1 DEF Exists
<1>6. CASE DeleteWrite(a)
    <2>0. op[a].on \in Shots /\ shot[op[a].on] \in ShotRow
        BY <1>0, <1>6, DeleteDoes DEF TypeOK
    <2>1. /\ shot'[op[a].on].st = "deleted"
          /\ \A x \in Shots : x # op[a].on => shot'[x] = shot[x]
        BY <1>0, <1>6, <2>0, DeleteDoes DEF ShotRow
    <2> QED
        BY <1>6, <2>0, <2>1 DEF Exists
<1>7. CASE CreateShotRow(a)
    <2>1. PICK x \in Shots : /\ shot[x].st = "absent"
                             /\ \A c \in Shots : c # x => shot'[c] = shot[c]
        BY <1>0, <1>7 DEF CreateShotRow, TypeOK, Fresh
    <2> QED
        BY <2>1 DEF Exists
<1> QED
    BY <1>1, <1>3, <1>4, <1>5, <1>6, <1>7 DEF Commit

LEMMA CommitHistory ==
    ASSUME TypeOK, NEW a \in Actors, Commit(a)
    PROVE  /\ takes' = takes
           /\ op[a].late => raced' = raced \cup Written
           /\ \A c \in Actors : c # a => op'[c].pc = op[c].pc
<1>1. \E o : Committed(a, o)
    BY DEF Commit, EnrichDirect, EnrichLegacy, EnrichFill, ReplanWrite, PlanScene,
           ReEnrichWrite, CoverageWrite, AssignWrite, EditBeatWrite, EditShotWrite,
           DeleteWrite, CreateShot, CreateShotRow, CreatePlan, Write
<1> QED
    BY <1>1, CommitOvertakes

\* What is no transaction of an actor writes no shot, or outdates some.
LEMMA OtherShots ==
    ASSUME Base, [Next]_vars, ~(\E a \in Actors : Commit(a)), NEW s \in Shots
    PROVE  /\ Exists(s) => Exists(s)'
           /\ shot[s].st \in {"outdated", "deleted"} => shot'[s].st = shot[s].st
           /\ takes' \subseteq takes \cup {x \in Shots : Exists(x)}
<1>0. TypeOK
    BY DEF Base
<1>1. CASE ApplyChanges
    <2>1. \E os, S, on : ShotsBecome(os, S, on)
        BY <1>0, <1>1, ApplyDoes
    <2> QED
        BY <1>0, <1>1, <2>1, ShotsKeep DEF ApplyChanges
<1>2. CASE TakeAppears \/ (\E a \in Actors : Read(a) \/ ReplanRead(a) \/ GiveUp(a)) \/ UNCHANGED vars
    <2>1. shot' = shot /\ takes' \subseteq takes \cup {x \in Shots : Exists(x)}
        BY <1>2 DEF ReplanRead, Read, Enrich, Replan, ReEnrich, Coverage, Assign, EditBeat, EditShot,
                    Delete, Start, GiveUp, TakeAppears, vars, tables
    <2> QED
        BY <2>1 DEF Exists
<1> QED
    BY <1>1, <1>2 DEF Next

LEMMA StepTakes == ASSUME Base, TakenShotsStay, [Next]_vars PROVE TakenShotsStay'
<1>0. TypeOK /\ OpsOK
    BY DEF Base
<1>1. CASE \E a \in Actors : Commit(a)
    <2>1. PICK a \in Actors : Commit(a)
        BY <1>1
    <2>2. takes' = takes /\ takes \subseteq Shots
        BY <1>0, <2>1, CommitHistory DEF TypeOK
    <2>3. DeleteWrite(a) => op[a].on \notin takes
        BY <1>0, DeleteDoes
    <2> QED
        BY <2>1, <2>2, <2>3, CommitShots DEF TakenShotsStay
<1>2. CASE ~(\E a \in Actors : Commit(a))
    <2>0. takes' \subseteq Shots
        BY StepBase DEF Base, TypeOK
    <2>1. \A s \in takes' : Exists(s)
        BY <1>2, <2>0, OtherShots DEF TakenShotsStay
    <2> QED
        BY <1>2, <2>0, <2>1, OtherShots DEF TakenShotsStay
<1> QED
    BY <1>1, <1>2

-----------------------------------------------------------------------------
(* Steps *)

\* A transaction that ends an operation is that operation's.
LEMMA EndsCommit ==
    ASSUME TypeOK, [Next]_vars, NEW a \in Actors, NEW pcs, "idle" \notin pcs, Ends(a, pcs)
    PROVE  Commit(a)
<1>1. op[a].pc \in pcs /\ op'[a].pc = "idle" /\ op'[a].pc # op[a].pc /\ tables' # tables
    BY DEF Ends
<1>2. ~ApplyChanges
    BY <1>1, OvertakenKeeps DEF ApplyChanges, Overtaking, TypeOK
<1>3. PICK c \in Actors : Commit(c)
    BY <1>1, <1>2 DEF Next, ReplanRead, Read, Enrich, Replan, ReEnrich, Coverage, Assign, EditBeat,
                      EditShot, Delete, Start, GiveUp, TakeAppears, vars
<1> QED
    BY <1>1, <1>3, CommitHistory

\* The transaction of an operation that writes at its end ends it.
LEMMA CommitEnds ==
    ASSUME TypeOK, NEW a \in Actors, Commit(a), op[a].pc \notin {"idle", "newshot"}, tables' # tables
    PROVE  Ends(a, {op[a].pc})
<1>1. Committed(a, Idle)
    BY DEF Commit, EnrichDirect, EnrichLegacy, EnrichFill, ReplanWrite, PlanScene,
           ReEnrichWrite, CoverageWrite, AssignWrite, EditBeatWrite, EditShotWrite,
           DeleteWrite, CreateShot, CreateShotRow, CreatePlan, Write
<1> QED
    BY <1>1, CommitOvertakes, IdleFacts DEF Ends

\* Only an edit of the row that was overtaken makes a row return.
LEMMA StepShotFinal ==
    ASSUME Base, [Next]_vars, NEW s \in Shots, Returns(shot[s], shot'[s])
    PROVE  \E a \in Actors : Ends(a, {"editshot"}) /\ op[a].on = s /\ op[a].late
<1>0. TypeOK /\ OpsOK
    BY DEF Base
<1>1. PICK a \in Actors : Commit(a)
    BY OtherShots DEF Returns
<1>2. EditShotWrite(a) /\ s = op[a].on
    BY <1>1, CommitShots DEF Returns
<1>3. op[a].pc = "editshot" /\ op[a].late
    BY <1>2 DEF Base, SnapsOK, Snap, EditShotWrite, Returns
<1>4. tables' # tables
    BY DEF Returns, tables
<1> QED
    BY <1>0, <1>1, <1>2, <1>3, <1>4, CommitEnds

LEMMA StepBeatFinal ==
    ASSUME Base, [Next]_vars, NEW b \in Beats, Returns(beat[b], beat'[b])
    PROVE  \E a \in Actors : Ends(a, {"editbeat"}) /\ op[a].on = b /\ op[a].late
<1>0. TypeOK /\ OpsOK
    BY DEF Base
<1>1. beat[b].st \in {"outdated", "deleted"} /\ beat'[b].st = "current" /\ beat' # beat
    BY DEF Returns
<1>2. ASSUME NEW ob, NEW B, BeatsBecome(ob, B) PROVE FALSE
    BY <1>0, <1>1, <1>2, BeatFields
<1>3. PICK a \in Actors : EditBeatWrite(a)
    <2>1. ~ApplyChanges
        BY <1>0, <1>2, ApplyDoes
    <2>2. PICK a \in Actors : Commit(a)
        BY <1>1, <2>1 DEF Next, ReplanRead, Read, Enrich, Replan, ReEnrich, Coverage, Assign,
                          EditBeat, EditShot, Delete, Start, GiveUp, TakeAppears, vars, tables
    <2>3. ~EnrichDirect(a) /\ ~ReplanWrite(a) /\ ~EnrichLegacy(a)
        <3>1. ASSUME NEW ob, NEW os, NEW opl, NEW T, PlannedAs(ob, os, opl, T) PROVE FALSE
            BY <1>2, <3>1 DEF PlannedAs
        <3> QED
            BY <1>0, <3>1, PlanSceneDoes, EnrichLegacyDoes DEF EnrichDirect, ReplanWrite
    <2>4. ~EnrichFill(a) /\ ~AssignWrite(a) /\ ~CoverageWrite(a)
        BY <1>0, <1>1, FillDoes, CoverageDoes
    <2>5. ~EditShotWrite(a) /\ ~DeleteWrite(a) /\ ~CreatePlan(a) /\ ~CreateShotRow(a)
        BY <1>0, <1>1, EditShotDoes, DeleteDoes, CreatePlanDoes DEF CreateShotRow
    <2>6. ~ReEnrichWrite(a)
        BY <1>0, <1>2, ReEnrichDoes
    <2>7. ~CreateShot(a)
        <3>1. \A x \in Beats : Fresh({x}, beat) => beat[x].st = "absent"
            BY DEF Fresh
        <3> QED
            BY <1>0, <1>1, <3>1 DEF CreateShot, TypeOK
    <2> QED
        BY <2>2, <2>3, <2>4, <2>5, <2>6, <2>7 DEF Commit
<1>4. op[a].on = b /\ op[a].pc = "editbeat"
    BY <1>0, <1>1, <1>3, EditBeatDoes DEF EditBeatWrite
<1>5. op[a].late
    BY <1>1, <1>4 DEF Base, SnapsOK, Snap
<1>6. Commit(a) /\ tables' # tables
    BY <1>1, <1>3 DEF Commit, tables
<1> QED
    BY <1>0, <1>4, <1>5, <1>6, CommitEnds

LEMMA StepPlanFinal ==
    ASSUME Base, [Next]_vars, NEW p \in Plans PROVE ~Returns(plan[p], plan'[p])
<1>0. TypeOK /\ OpsOK
    BY DEF Base
<1> SUFFICES ASSUME plan[p].st \in {"outdated", "deleted"}, plan'[p].st = "current" PROVE FALSE
    BY DEF Returns
<1>1. ASSUME NEW opl, NEW P, NEW for, NEW ver, PlansBecome(opl, P, for, ver) PROVE FALSE
    BY <1>0, <1>1, PlanFields
<1>2. ~ApplyChanges
    BY <1>0, <1>1, ApplyDoes
<1>3. PICK a \in Actors : Commit(a)
    BY <1>2 DEF Next, ReplanRead, Read, Enrich, Replan, ReEnrich, Coverage, Assign,
                EditBeat, EditShot, Delete, Start, GiveUp, TakeAppears, vars, tables
<1>4. ~EnrichDirect(a) /\ ~ReplanWrite(a) /\ ~EnrichLegacy(a)
    <2>1. ASSUME NEW ob, NEW os, NEW opl, NEW T, PlannedAs(ob, os, opl, T) PROVE FALSE
        BY <1>1, <2>1 DEF PlannedAs
    <2> QED
        BY <1>0, <2>1, PlanSceneDoes, EnrichLegacyDoes DEF EnrichDirect, ReplanWrite
<1>5. ~EnrichFill(a) /\ ~AssignWrite(a)
    BY <1>0, <1>1, FillDoes DEF ReplannedAs
<1>6. ~ReEnrichWrite(a) /\ ~CoverageWrite(a) /\ ~EditBeatWrite(a) /\ ~EditShotWrite(a)
    BY <1>0, <1>1, ReEnrichDoes, CoverageDoes, EditBeatDoes, EditShotDoes
<1>7. ~DeleteWrite(a)
    <2>1. plan[p] \in PlanRow
        BY <1>0 DEF TypeOK
    <2> QED
        BY <1>0, <2>1, DeleteDoes DEF PlanRow
<1>8. ~CreateShot(a) /\ ~CreateShotRow(a)
    BY DEF CreateShot, CreateShotRow
<1>9. ~CreatePlan(a)
    BY <1>0, CreatePlanDoes
<1> QED
    BY <1>3, <1>4, <1>5, <1>6, <1>7, <1>8, <1>9 DEF Commit

\* What stays of the shots of before a replan hangs from beats it did not see.
LEMMA StepReplan ==
    ASSUME Base, NEW a \in Actors, Commit(a), op[a].pc = "replan", NEW s \in Live \cap Live'
    PROVE  /\ Seen(a) = {} /\ op[a].late
           /\ beat[shot[s].beat].scene \in op[a].read
           /\ shot[s].beat \notin op[a].beats
<1>0. TypeOK /\ RefsOK /\ (~op[a].late => Snap(a))
    BY DEF Base, SnapsOK
<1>1. ReplanWrite(a)
    BY DEF Commit, EnrichDirect, EnrichLegacy, EnrichFill, ReEnrichWrite, CoverageWrite,
           AssignWrite, EditBeatWrite, EditShotWrite, DeleteWrite, CreateShot, CreateShotRow,
           CreatePlan
<1>2. PlannedAs(Replaced(a), Seen(a), PlansOf(Seen(a)), {})
    BY <1>0, <1>1, PlanSceneDoes DEF ReplanWrite
<1>3. PICK B \in SUBSET Beats, S \in SUBSET Shots : \E on :
         BeatsBecome(Replaced(a), B) /\ ShotsBecome(Seen(a), S, on)
    BY <1>2 DEF PlannedAs
<1>4. /\ s \in Shots /\ shot[s].st = "current" /\ shot[s].beat \in CurrentBeats
      /\ shot'[s].st = "current" /\ shot'[s].beat \in CurrentBeats'
    BY DEF Live, CurrentShotsOf
<1>5. shot'[s].beat = shot[s].beat /\ s \notin Seen(a)
    BY <1>0, <1>3, <1>4, ShotFields
<1>6. shot[s].beat \notin Replaced(a)
    BY <1>0, <1>3, <1>4, <1>5, BeatFields DEF CurrentBeats
<1>7. beat[shot[s].beat].scene \in op[a].read /\ shot[s].beat \notin op[a].beats
    BY <1>4, <1>6 DEF Replaced
<1>8. op[a].late
    BY <1>0, <1>5 DEF Snap
<1>9. Seen(a) = {}
    BY <1>7 DEF Base, OpsOK, OpOK
<1> QED
    BY <1>7, <1>8, <1>9

\* The shots and the beats a transaction withdraws.
LEMMA CommitWithdraws ==
    ASSUME Base, NEW a \in Actors, Commit(a), NEW s \in Shots, Withdrawn(shot[s], shot'[s])
    PROVE  \/ op[a].pc \in {"replan", "coverage"} /\ s \in Seen(a)
           \/ op[a].pc \in {"reenrich", "editbeat"}
           \/ op[a].pc = "delete" /\ op[a].on = s /\ s \notin takes
<1>0. TypeOK /\ OpsOK /\ shot[s].st = "current" /\ shot'[s].st # "current"
    BY DEF Base, Withdrawn
<1>1. ASSUME NEW os, NEW S, NEW on, ShotsBecome(os, S, on) PROVE s \in os
    BY <1>0, <1>1, ShotFields
<1>2. CASE EnrichDirect(a) \/ EnrichLegacy(a) \/ ReplanWrite(a)
    <2>1. ASSUME NEW ob, NEW os, NEW opl, NEW T, PlannedAs(ob, os, opl, T) PROVE s \in os
        BY <1>1, <2>1 DEF PlannedAs
    <2>2. ~EnrichDirect(a) /\ ~EnrichLegacy(a)
        BY <1>0, <2>1, PlanSceneDoes, EnrichLegacyDoes DEF EnrichDirect
    <2> QED
        BY <1>0, <1>2, <2>1, <2>2, PlanSceneDoes DEF ReplanWrite
<1>3. ~EnrichFill(a) /\ ~AssignWrite(a) /\ ~CreateShot(a) /\ ~CreatePlan(a)
    BY <1>0, FillDoes, CreatePlanDoes DEF CreateShot
<1>4. CASE CoverageWrite(a)
    BY <1>0, <1>1, <1>4, CoverageDoes DEF CoverageWrite
<1>5. CASE ReEnrichWrite(a) \/ EditBeatWrite(a)
    BY <1>5 DEF ReEnrichWrite, EditBeatWrite
<1>6. ~EditShotWrite(a)
    BY <1>0, EditShotDoes, RowFields
<1>7. CASE DeleteWrite(a)
    BY <1>0, <1>7, DeleteDoes DEF DeleteWrite
<1>8. ~CreateShotRow(a)
    <2>1. \A x \in Shots : Fresh({x}, shot) => shot[x].st = "absent"
        BY DEF Fresh
    <2> QED
        BY <1>0, <2>1 DEF CreateShotRow, TypeOK
<1> QED
    BY <1>2, <1>3, <1>4, <1>5, <1>6, <1>7, <1>8 DEF Commit

LEMMA CommitWithdrawsBeats ==
    ASSUME Base, NEW a \in Actors, Commit(a), NEW b \in Beats, Withdrawn(beat[b], beat'[b])
    PROVE  op[a].pc = "replan" \/ (op[a].pc = "reenrich" /\ b \in op[a].beats)
<1>0. TypeOK /\ OpsOK /\ beat[b].st = "current" /\ beat'[b].st # "current"
    BY DEF Base, Withdrawn
<1>1. ASSUME NEW ob, NEW B, BeatsBecome(ob, B) PROVE b \in ob
    BY <1>0, <1>1, BeatFields
<1>2. ~EnrichDirect(a) /\ ~EnrichLegacy(a)
    <2>1. ASSUME NEW ob, NEW os, NEW opl, NEW T, PlannedAs(ob, os, opl, T) PROVE b \in ob
        BY <1>1, <2>1 DEF PlannedAs
    <2> QED
        BY <1>0, <2>1, PlanSceneDoes, EnrichLegacyDoes DEF EnrichDirect
<1>3. CASE ReplanWrite(a)
    BY <1>3 DEF ReplanWrite
<1>4. ~EnrichFill(a) /\ ~AssignWrite(a) /\ ~CoverageWrite(a)
    BY <1>0, FillDoes, CoverageDoes
<1>5. ~EditShotWrite(a) /\ ~DeleteWrite(a) /\ ~CreatePlan(a) /\ ~CreateShotRow(a)
    BY <1>0, EditShotDoes, DeleteDoes, CreatePlanDoes DEF CreateShotRow
<1>6. CASE ReEnrichWrite(a)
    BY <1>0, <1>1, <1>6, ReEnrichDoes DEF ReEnrichWrite
<1>7. ~EditBeatWrite(a)
    BY <1>0, EditBeatDoes, RowFields
<1>8. ~CreateShot(a)
    <2>1. \A x \in Beats : Fresh({x}, beat) => beat[x].st = "absent"
        BY DEF Fresh
    <2> QED
        BY <1>0, <2>1 DEF CreateShot, TypeOK
<1> QED
    BY <1>2, <1>3, <1>4, <1>5, <1>6, <1>7, <1>8 DEF Commit

\* Rows change by the transaction of a request or by a change of the source.
LEMMA WhoWrites ==
    ASSUME TypeOK, [Next]_vars, tables' # tables, ~SourceChanged
    PROVE  \E a \in Actors : Commit(a)
<1>1. ~ApplyChanges
    BY OvertakenKeeps DEF ApplyChanges, Overtaking, TypeOK, SourceChanged
<1> QED
    BY <1>1 DEF Next, ReplanRead, Read, Enrich, Replan, ReEnrich, Coverage, Assign,
                EditBeat, EditShot, Delete, Start, GiveUp, TakeAppears, vars

-----------------------------------------------------------------------------
(* The theorems *)

Inv == Base /\ PlansOK /\ TakenShotsStay

LEMMA InitInv == Init => Inv
<1>1. ASSUME Init PROVE PlansOK /\ TakenShotsStay
    <2>1. \A p \in Plans : plan[p].shot = None /\ plan[p].st = "absent"
        BY <1>1, RowFields DEF Init
    <2>2. \A s \in Shots : s # None
        BY NoneAssumption
    <2>3. \A s \in Shots : Good(s)
        BY <2>1, <2>2 DEF Good, CurrentPlans
    <2> QED
        BY <1>1, <2>3 DEF PlansOK, TakenShotsStay, Init
<1> QED
    BY <1>1, InitBase DEF Inv

LEMMA StepInv == Inv /\ [Next]_vars => Inv'
BY StepBase, StepPlans, StepTakes DEF Inv

\* What is known of the rows and of the operations holds in every state.
THEOREM Invariance == Spec => []Inv
BY InitInv, StepInv, PTL DEF Spec

\* Every variable keeps its type.
THEOREM TypeCorrect == Spec => []TypeOK
<1>1. Inv => TypeOK
    BY DEF Inv, Base
<1> QED
    BY <1>1, Invariance, PTL

\* get_current_plan_by_shot has one row to find, unless a write was overtaken.
THEOREM PlansAreUnique == Spec => []OneCurrentPlan
<1>1. Inv => OneCurrentPlan
    BY DEF Inv, PlansOK, Good, OneCurrentPlan
<1> QED
    BY <1>1, Invariance, PTL

\* A shot that does not count has no current plan, unless a write was overtaken.
THEOREM CascadeReachesPlans == Spec => []CascadeComplete
<1>1. Inv => CascadeComplete
    BY DEF Inv, PlansOK, Good, CascadeComplete
<1> QED
    BY <1>1, Invariance, PTL

\* delete_shot never removes a shot with a take, however the two overlap.
THEOREM TakesKeepTheirShot == Spec => []TakenShotsStay
<1>1. Inv => TakenShotsStay
    BY DEF Inv
<1> QED
    BY <1>1, Invariance, PTL

\* Only an overtaken edit of that very row brings a replaced shot or beat back,
\* and nothing a replaced plan.
THEOREM ReplacedStayReplaced == Spec => ReplacedIsFinal
<1> DEFINE Final ==
        /\ \A p \in Plans : ~Returns(plan[p], plan'[p])
        /\ \A s \in Shots : Returns(shot[s], shot'[s]) =>
              \E a \in Actors : Ends(a, {"editshot"}) /\ op[a].on = s /\ op[a].late
        /\ \A b \in Beats : Returns(beat[b], beat'[b]) =>
              \E a \in Actors : Ends(a, {"editbeat"}) /\ op[a].on = b /\ op[a].late
<1>1. Inv /\ [Next]_vars => [Final]_vars
    BY StepPlanFinal, StepShotFinal, StepBeatFinal DEF Inv
<1> QED
    BY <1>1, Invariance, PTL DEF Spec, ReplacedIsFinal

\* Of the shots of before a replan only those stay whose beat another request
\* added while the replan of an empty project was reading.
THEOREM ReplanReplacesAll == Spec => ReplanReplaces
<1> DEFINE Replaces(a) ==
        Ends(a, {"replan"}) =>
            \A s \in Live \cap Live' :
               /\ Seen(a) = {} /\ op[a].late
               /\ beat[shot[s].beat].scene \in op[a].read
               /\ shot[s].beat \notin op[a].beats
<1>1. ASSUME Inv, [Next]_vars, NEW a \in Actors PROVE Replaces(a)
    <2> SUFFICES ASSUME Ends(a, {"replan"}), NEW s \in Live \cap Live'
                 PROVE  /\ Seen(a) = {} /\ op[a].late
                        /\ beat[shot[s].beat].scene \in op[a].read
                        /\ shot[s].beat \notin op[a].beats
        OBVIOUS
    <2>1. Commit(a) /\ op[a].pc = "replan"
        BY <1>1, EndsCommit DEF Inv, Base, Ends
    <2> QED
        BY <1>1, <2>1, StepReplan DEF Inv
<1>2. Inv /\ [Next]_vars => [\A a \in Actors : Replaces(a)]_vars
    BY <1>1
<1> QED
    BY <1>2, Invariance, PTL DEF Spec, ReplanReplaces

\* Shots with a take and what a person wrote are withdrawn only by a change of
\* the source, by a request that does not look for them, or by one that was
\* forced or overtaken.
THEOREM WorkIsSafe == Spec => WorkIsKept
<1> DEFINE Taken(s) ==
        Withdrawn(shot[s], shot'[s]) =>
           \/ SourceChanged
           \/ \E a \in Actors : \/ Ends(a, {"coverage", "reenrich", "editbeat"})
                                \/ Ends(a, {"replan"}) /\ op[a].late
           HumanShot(s) ==
        shot[s].by = "human" /\ Withdrawn(shot[s], shot'[s]) =>
           \/ SourceChanged
           \/ \E a \in Actors : \/ Ends(a, {"replan", "reenrich", "editbeat"})
                                \/ Ends(a, {"delete"}) /\ op[a].on = s
                                \/ Ends(a, {"coverage"}) /\ (op[a].force \/ op[a].late)
           HumanBeat(b) ==
        beat[b].by = "human" /\ Withdrawn(beat[b], beat'[b]) =>
           \/ SourceChanged
           \/ \E a \in Actors : \/ Ends(a, {"replan"})
                                \/ Ends(a, {"reenrich"}) /\ (op[a].force \/ op[a].late)
<1>1. ASSUME Inv, [Next]_vars, NEW s \in Shots PROVE (s \in takes => Taken(s)) /\ HumanShot(s)
    <2> SUFFICES ASSUME Withdrawn(shot[s], shot'[s]), ~SourceChanged
                 PROVE  /\ s \in takes => Taken(s)
                        /\ HumanShot(s)
        OBVIOUS
    <2>0. Base /\ TypeOK /\ tables' # tables
        BY <1>1 DEF Inv, Base, Withdrawn, tables
    <2>1. PICK a \in Actors : Commit(a)
        BY <1>1, <2>0, WhoWrites
    <2>2. \/ op[a].pc \in {"replan", "coverage"} /\ s \in Seen(a)
          \/ op[a].pc \in {"reenrich", "editbeat"}
          \/ op[a].pc = "delete" /\ op[a].on = s /\ s \notin takes
        BY <2>0, <2>1, CommitWithdraws
    <2>3. Ends(a, {op[a].pc})
        BY <2>0, <2>1, <2>2, CommitEnds
    <2>4. ~op[a].late => Snap(a)
        BY <2>0 DEF Base, SnapsOK
    <2>5. CASE op[a].pc = "replan" /\ s \in Seen(a)
        <3>1. Ends(a, {"replan"}) /\ Ends(a, {"replan", "reenrich", "editbeat"})
            BY <2>3, <2>5 DEF Ends
        <3>2. s \in takes => op[a].late
            BY <2>4, <2>5 DEF Snap
        <3> QED
            BY <3>1, <3>2
    <2>6. CASE op[a].pc = "coverage" /\ s \in Seen(a)
        <3>1. Ends(a, {"coverage"}) /\ Ends(a, {"coverage", "reenrich", "editbeat"})
            BY <2>3, <2>6 DEF Ends
        <3>2. ~op[a].late /\ ~op[a].force => shot[s].by # "human"
            BY <2>4, <2>6 DEF Snap
        <3> QED
            BY <3>1, <3>2
    <2>7. CASE op[a].pc \in {"reenrich", "editbeat"}
        <3>1. /\ Ends(a, {"coverage", "reenrich", "editbeat"})
              /\ Ends(a, {"replan", "reenrich", "editbeat"})
            BY <2>3, <2>7 DEF Ends
        <3> QED
            BY <3>1
    <2>8. CASE op[a].pc = "delete" /\ op[a].on = s /\ s \notin takes
        BY <2>3, <2>8
    <2> QED
        BY <2>2, <2>5, <2>6, <2>7, <2>8
<1>2. ASSUME Inv, [Next]_vars, NEW b \in Beats PROVE HumanBeat(b)
    <2> SUFFICES ASSUME beat[b].by = "human", Withdrawn(beat[b], beat'[b]), ~SourceChanged
                 PROVE  \E a \in Actors : \/ Ends(a, {"replan"})
                                          \/ Ends(a, {"reenrich"}) /\ (op[a].force \/ op[a].late)
        OBVIOUS
    <2>0. Base /\ TypeOK /\ tables' # tables
        BY <1>2 DEF Inv, Base, Withdrawn, tables
    <2>1. PICK a \in Actors : Commit(a)
        BY <1>2, <2>0, WhoWrites
    <2>2. op[a].pc = "replan" \/ (op[a].pc = "reenrich" /\ b \in op[a].beats)
        BY <2>0, <2>1, CommitWithdrawsBeats
    <2>3. Ends(a, {op[a].pc})
        BY <2>0, <2>1, <2>2, CommitEnds
    <2>4. op[a].pc = "reenrich" => op[a].force \/ op[a].late
        BY <2>0, <2>2 DEF Base, SnapsOK, Snap
    <2> QED
        BY <2>2, <2>3, <2>4
<1>3. Inv /\ [Next]_vars =>
        [/\ \A s \in takes : Taken(s)
         /\ \A s \in Shots : HumanShot(s)
         /\ \A b \in Beats : HumanBeat(b)]_vars
    <2>1. Inv => takes \subseteq Shots
        BY DEF Inv, Base, TypeOK
    <2> QED
        BY <1>1, <1>2, <2>1
<1> QED
    BY <1>3, Invariance, PTL DEF Spec, WorkIsKept

-----------------------------------------------------------------------------
(* One request at a time *)

\* No shot has plans of a version to come, nor two that are current.
Single(s) ==
    /\ \A p \in Plans : plan[p].shot = s => plan[p].ver <= shot[s].ver
    /\ \A p, q \in CurrentPlans(s) : p = q

\* What a request has read of versions and plans is still so, or there are fewer
\* plans: a change of the source, which may overtake it, writes no others.
Held(a) ==
    LET o == op[a] IN
    /\ o.pc \in {"fill", "assign"} =>
          \A s \in Seen(a) : /\ o.seen[s] = shot[s].ver
                             /\ CurrentPlans(s) \subseteq IF o.pc = "assign" THEN o.plans ELSE {}
    /\ o.pc = "editshot" => o.seen[o.on] = shot[o.on].ver
    /\ o.pc = "newplan" => shot[o.on].ver = 1 /\ CurrentPlans(o.on) = {}

Settled == (\A s \in Shots : Single(s)) /\ (\A a \in Actors : Held(a))

\* A shot keeps its version and gets no plan.
Fewer(s) ==
    /\ shot'[s].ver = shot[s].ver
    /\ \A p \in Plans : plan'[p].shot = s =>
          /\ plan[p].shot = s /\ plan'[p].ver = plan[p].ver
          /\ plan'[p].st = "current" => plan[p].st = "current"

LEMMA FewerSingle ==
    ASSUME NEW s \in Shots, Fewer(s)
    PROVE  CurrentPlans(s)' \subseteq CurrentPlans(s) /\ (Single(s) => Single(s)')
<1>1. CurrentPlans(s)' \subseteq CurrentPlans(s)
    BY DEF Fewer, CurrentPlans
<1>2. Single(s) => \A p \in Plans : plan'[p].shot = s => plan'[p].ver <= shot'[s].ver
    BY DEF Fewer, Single
<1> QED
    BY <1>1, <1>2 DEF Single

LEMMA BecomeFewer ==
    ASSUME TypeOK, NEW os, NEW S, NEW on, ShotsBecome(os, S, on),
           NEW opl, NEW P, NEW for, NEW ver, PlansBecome(opl, P, for, ver),
           NEW s \in Shots, s \notin S, \A p \in P : for[p] # s
    PROVE  Fewer(s)
<1>1. shot'[s].ver = shot[s].ver
    BY ShotFields
<1>2. \A p \in Plans : plan'[p].shot = s =>
         /\ plan[p].shot = s /\ plan'[p].ver = plan[p].ver
         /\ plan'[p].st = "current" => plan[p].st = "current"
    BY PlanFields
<1> QED
    BY <1>1, <1>2 DEF Fewer

\* A new shot, with one plan or none.
LEMMA NewSingle ==
    ASSUME TypeOK, RefsOK, NEW s \in Shots, shot[s].st = "absent", shot'[s].ver = 1,
           NEW opl, NEW P, NEW for, NEW ver, PlansBecome(opl, P, for, ver),
           \A p \in P : for[p] = s => ver[s] = 1,
           \A p, q \in P : for[p] = s /\ for[q] = s => p = q
    PROVE  Single(s)'
<1>1. \A p \in Plans : plan[p].shot # s
    BY DEF RefsOK
<1>2. \A p \in Plans : plan'[p].shot = s => p \in P /\ for[p] = s /\ plan'[p].ver = 1
    BY <1>1, PlanFields
<1>3. CurrentPlans(s)' \subseteq {p \in P : for[p] = s}
    BY <1>2 DEF CurrentPlans
<1> QED
    BY <1>2, <1>3 DEF Single

LEMMA PlannedSingle ==
    ASSUME TypeOK, RefsOK, NEW ob, NEW os, NEW opl, NEW T, PlannedAs(ob, os, opl, T),
           NEW s \in Shots, Single(s)
    PROVE  Single(s)'
<1>1. PICK B \in SUBSET Beats, S \in SUBSET Shots, P \in SUBSET Plans :
         \E on \in [S -> B \cup T], for \in Bijection(P, S) :
            /\ ShotsBecome(os, S, on) /\ PlansBecome(opl, P, for, Marked(S))
    BY DEF PlannedAs
<1>2. PICK on \in [S -> B \cup T], for \in Bijection(P, S) :
            /\ ShotsBecome(os, S, on) /\ PlansBecome(opl, P, for, Marked(S))
    BY <1>1
<1>3. for \in [P -> S] /\ \A p, q \in P : for[p] = for[q] => p = q
    BY DEF Bijection, Injection, IsInjective
<1>4. CASE s \in S
    <2>1. shot[s].st = "absent" /\ shot'[s].ver = 1 /\ Marked(S)[s] = 1
        BY <1>2, <1>4, ShotFields DEF Marked
    <2> QED
        BY <1>2, <1>3, <2>1, NewSingle
<1>5. CASE s \notin S
    BY <1>2, <1>3, <1>5, BecomeFewer, FewerSingle
<1> QED
    BY <1>4, <1>5

LEMMA ReplannedSingle ==
    ASSUME TypeOK, NEW a \in Actors, Held(a), EnrichFill(a) \/ AssignWrite(a),
           NEW s \in Shots, Single(s)
    PROVE  Single(s)'
<1> DEFINE opl == IF op[a].pc = "assign" THEN op[a].plans ELSE {}
<1>1. shot' = shot /\ ReplannedAs(a, opl) /\ op[a].pc \in {"fill", "assign"}
    BY FillDoes DEF EnrichFill, AssignWrite
<1>2. PICK P \in SUBSET Plans : \E for \in Bijection(P, Seen(a)) :
         PlansBecome(opl, P, for, op[a].seen)
    BY <1>1 DEF ReplannedAs
<1>3. PICK for \in Bijection(P, Seen(a)) : PlansBecome(opl, P, for, op[a].seen)
    BY <1>2
<1>4. for \in [P -> Seen(a)] /\ \A p, q \in P : for[p] = for[q] => p = q
    BY DEF Bijection, Injection, IsInjective
<1>5. s \in Seen(a) => op[a].seen[s] = shot[s].ver /\ CurrentPlans(s) \subseteq opl
    BY <1>1 DEF Held
<1> HIDE DEF opl
<1>6. \A p \in Plans : plan'[p].shot = s =>
         IF p \in P THEN for[p] = s /\ plan'[p].ver = shot[s].ver
         ELSE /\ plan[p].shot = s /\ plan'[p].ver = plan[p].ver
              /\ plan'[p].st = "current" => plan[p].st = "current" /\ p \notin opl
    BY <1>3, <1>4, <1>5, PlanFields
<1>7. CASE s \in Seen(a)
    <2>1. CurrentPlans(s)' \subseteq {p \in P : for[p] = s}
        BY <1>1, <1>5, <1>6, <1>7 DEF CurrentPlans
    <2>2. shot[s].ver \in Nat
        BY DEF TypeOK, ShotRow, Version
    <2>3. \A p \in Plans : plan'[p].shot = s => plan'[p].ver <= shot'[s].ver
        BY <1>1, <1>6, <2>2 DEF Single
    <2> QED
        BY <1>4, <2>1, <2>3 DEF Single
<1>8. CASE s \notin Seen(a)
    <2>1. Fewer(s)
        BY <1>1, <1>4, <1>6, <1>8 DEF Fewer
    <2> QED
        BY <2>1, FewerSingle
<1> QED
    BY <1>7, <1>8

LEMMA CommitSingle ==
    ASSUME TypeOK, OpsOK, RefsOK, NEW a \in Actors, Held(a), Commit(a),
           NEW s \in Shots, Single(s)
    PROVE  Single(s)'
<1>1. CASE EnrichDirect(a)
    BY <1>1, PlanSceneDoes, PlannedSingle DEF EnrichDirect
<1>2. CASE EnrichLegacy(a)
    BY <1>2, EnrichLegacyDoes, PlannedSingle
<1>3. CASE EnrichFill(a) \/ AssignWrite(a)
    BY <1>3, ReplannedSingle
<1>4. CASE ReplanWrite(a)
    BY <1>4, PlanSceneDoes, PlannedSingle DEF ReplanWrite
<1>5. ASSUME NEW os, ShotsBecome(os, {}, NoShots),
             NEW opl, PlansBecome(opl, {}, NoShots, NoShots)
      PROVE  Single(s)'
    BY <1>5, BecomeFewer, FewerSingle
<1>6. CASE ReEnrichWrite(a)
    BY <1>5, <1>6, ReEnrichDoes
<1>7. CASE CoverageWrite(a)
    <2>1. PICK S \in SUBSET Shots : ShotsBecome(Seen(a), S, [x \in S |-> op[a].on])
        BY <1>7, CoverageDoes
    <2>2. PlansBecome(PlansOf(Seen(a)), {}, NoShots, NoShots)
        BY <1>7, CoverageDoes
    <2>3. CASE s \in S
        <3>1. shot[s].st = "absent" /\ shot'[s].ver = 1
            BY <2>1, <2>3, ShotFields
        <3> QED
            BY <2>2, <3>1, NewSingle
    <2>4. CASE s \notin S
        BY <2>1, <2>2, <2>4, BecomeFewer, FewerSingle
    <2> QED
        BY <2>3, <2>4
<1>8. CASE EditBeatWrite(a)
    BY <1>5, <1>8, EditBeatDoes
<1>9. CASE EditShotWrite(a)
    <2>1. PICK P \in SUBSET Plans : PlansBecome(P, {}, NoShots, NoShots)
        BY <1>9, EditShotDoes
    <2>2. /\ op[a].on \in Shots
          /\ shot'[op[a].on].ver = op[a].seen[op[a].on] + 1
          /\ \A x \in Shots : x # op[a].on => shot'[x] = shot[x]
        BY <1>9, EditShotDoes, RowFields
    <2>3. \A p \in Plans : plan'[p].shot = s =>
             /\ plan[p].shot = s /\ plan'[p].ver = plan[p].ver /\ plan[p].ver \in Nat
             /\ plan'[p].st = "current" => plan[p].st = "current"
        BY <2>1, PlanFields DEF TypeOK, PlanRow, Version
    <2>4. CASE s = op[a].on
        <3>1. shot'[s].ver = shot[s].ver + 1 /\ shot[s].ver \in Nat
            BY <1>9, <2>2, <2>4 DEF Held, EditShotWrite, TypeOK, ShotRow, Version
        <3>2. \A p \in Plans : plan'[p].shot = s =>
                 plan'[p].ver <= shot'[s].ver /\ plan'[p].ver # shot'[s].ver
            BY <2>3, <3>1 DEF Single
        <3>3. CurrentPlans(s)' = {}
            BY <3>2 DEF CurrentPlans
        <3> QED
            BY <3>2, <3>3 DEF Single
    <2>5. CASE s # op[a].on
        BY <2>2, <2>3, <2>5, FewerSingle DEF Fewer
    <2> QED
        BY <2>4, <2>5
<1>10. CASE DeleteWrite(a)
    <2> DEFINE d == op[a].on
    <2>1. /\ shot'[d] = [shot[d] EXCEPT !.st = "deleted"]
          /\ \A x \in Shots : x # d => shot'[x] = shot[x]
          /\ \A p \in Plans : IF p \in PlansOf({d}) THEN plan'[p] = [plan[p] EXCEPT !.st = "deleted"]
                              ELSE plan'[p] = plan[p]
        BY <1>10, DeleteDoes
    <2>2. shot[s] \in ShotRow /\ \A p \in Plans : plan[p] \in PlanRow
        BY DEF TypeOK
    <2> HIDE DEF d
    <2>3. shot'[s].ver = shot[s].ver
        BY <2>1, <2>2 DEF ShotRow
    <2>4. \A p \in Plans : /\ plan'[p].shot = plan[p].shot /\ plan'[p].ver = plan[p].ver
                           /\ plan'[p].st = "current" => plan[p].st = "current"
        BY <2>1, <2>2 DEF PlanRow
    <2> QED
        BY <2>3, <2>4, FewerSingle DEF Fewer
<1>11. CASE CreateShot(a)
    BY <1>11, FewerSingle DEF CreateShot, Fewer
<1>12. CASE CreateShotRow(a)
    <2>1. PICK x \in Shots : /\ shot[x].st = "absent" /\ shot'[x].ver = 1
                             /\ \A c \in Shots : c # x => shot'[c] = shot[c]
        BY <1>12, RowFields DEF CreateShotRow, TypeOK, Fresh
    <2>2. plan' = plan
        BY <1>12 DEF CreateShotRow
    <2>3. s = x => \A p \in Plans : plan[p].shot # s
        BY <2>1 DEF RefsOK
    <2> QED
        BY <2>1, <2>2, <2>3 DEF Single, CurrentPlans
<1>13. CASE CreatePlan(a)
    <2>1. PICK p \in Plans : /\ plan'[p].shot = op[a].on /\ plan'[p].ver = 1
                             /\ \A q \in Plans : q # p => plan'[q] = plan[q]
        BY <1>13, CreatePlanDoes, RowFields
    <2>2. shot' = shot
        BY <1>13, CreatePlanDoes
    <2>3. shot[op[a].on].ver = 1 /\ CurrentPlans(op[a].on) = {}
        BY <1>13 DEF CreatePlan, Held
    <2>4. s = op[a].on => CurrentPlans(s)' \subseteq {p}
        BY <2>1, <2>2, <2>3 DEF CurrentPlans
    <2>5. s # op[a].on => CurrentPlans(s)' \subseteq CurrentPlans(s)
        BY <2>1, <2>2 DEF CurrentPlans
    <2>6. \A q \in Plans : plan'[q].shot = s => plan'[q].ver <= shot'[s].ver
        BY <2>1, <2>2, <2>3 DEF Single
    <2> QED
        BY <2>4, <2>5, <2>6 DEF Single
<1> QED
    BY <1>1, <1>2, <1>3, <1>4, <1>6, <1>7, <1>8, <1>9, <1>10, <1>11, <1>12, <1>13 DEF Commit

\* What is held of versions and plans stays true while shots keep their version
\* and get no plan.
LEMMA HeldStays ==
    ASSUME OpsOK, NEW a \in Actors, Held(a), \A s \in Shots : Fewer(s),
           op'[a].pc = op[a].pc, op'[a].on = op[a].on, op'[a].seen = op[a].seen,
           op'[a].plans = op[a].plans
    PROVE  Held(a)'
<1>1. \A s \in Shots : /\ shot'[s].ver = shot[s].ver
                       /\ CurrentPlans(s)' \subseteq CurrentPlans(s)
    BY FewerSingle DEF Fewer
<1>2. Seen(a)' = Seen(a) /\ Seen(a) \subseteq Shots
    BY DEF Seen
<1>3. op[a].pc \in {"editshot", "newplan"} => op[a].on \in Shots
    BY DEF OpsOK, OpOK, OnShot
<1>4. op'[a].pc \in {"fill", "assign"} =>
         \A s \in Seen(a)' : /\ op'[a].seen[s] = shot'[s].ver
                             /\ CurrentPlans(s)' \subseteq
                                   IF op'[a].pc = "assign" THEN op'[a].plans ELSE {}
    BY <1>1, <1>2 DEF Held
<1>5. /\ op'[a].pc = "editshot" => op'[a].seen[op'[a].on] = shot'[op'[a].on].ver
      /\ op'[a].pc = "newplan" => shot'[op'[a].on].ver = 1
    BY <1>1, <1>3 DEF Held
<1>6. op'[a].pc = "newplan" => CurrentPlans(op[a].on)' = {}
    <2> SUFFICES ASSUME op[a].pc = "newplan", NEW s, s = op[a].on PROVE CurrentPlans(op[a].on)' = {}
        OBVIOUS
    <2>1. CurrentPlans(s) = {} /\ s \in Shots
        BY <1>3 DEF Held
    <2>2. CurrentPlans(s)' = {}
        BY <1>1, <2>1
    <2> QED
        BY <2>2 DEF CurrentPlans
<1> QED
    BY <1>4, <1>5, <1>6 DEF Held

\* What an operation has read that was not overtaken is enough.
LEMMA SnapHeld ==
    ASSUME NEW a \in Actors, Snap(a)', \A s \in Shots : Single(s)'
    PROVE  Held(a)'
<1>1. Seen(a)' \subseteq Shots
    BY DEF Seen
<1>2. op'[a].pc = "assign" => \A s \in Seen(a)' : CurrentPlans(s)' \subseteq op'[a].plans
    BY <1>1 DEF Snap, Single
<1> QED
    BY <1>2 DEF Snap, Held

LEMMA CommitHeld ==
    ASSUME TypeOK, OpsOK, RefsOK, NEW a \in Actors, Commit(a)
    PROVE  Held(a)'
<1>1. CASE op'[a] = Idle
    BY <1>1, IdleFacts DEF Held
<1>2. CASE CreateShot(a)
    <2>1. op'[a].pc = "newshot"
        BY <1>2, CommitOvertakes DEF CreateShot, Doing
    <2> QED
        BY <2>1 DEF Held
<1>3. CASE CreateShotRow(a)
    <2> DEFINE n(s) == [Doing("newplan", s, {}, Nothing, {}) EXCEPT !.late = op[a].late]
    <2>1. PICK s \in Shots :
             /\ shot[s].st = "absent"
             /\ shot' = [shot EXCEPT ![s] = AShot("current", op[a].on, "human", 1)]
             /\ Committed(a, n(s))
        BY <1>3 DEF CreateShotRow, Fresh
    <2>2. op'[a].pc = "newplan" /\ op'[a].on = s
        BY <2>1, CommitOvertakes DEF Doing
    <2>3. shot'[s].ver = 1
        BY <2>1, RowFields DEF TypeOK
    <2>4. CurrentPlans(s)' = {}
        <3>1. \A p \in Plans : plan[p].shot # s
            BY <2>1 DEF RefsOK
        <3>2. plan' = plan
            BY <1>3 DEF CreateShotRow
        <3> QED
            BY <3>1, <3>2 DEF CurrentPlans
    <2> QED
        BY <2>2, <2>3, <2>4 DEF Held
<1>4. ASSUME ~CreateShot(a), ~CreateShotRow(a) PROVE Committed(a, Idle)
    <2>1. CASE EnrichDirect(a) \/ ReplanWrite(a)
        BY <2>1, PlanSceneDoes DEF EnrichDirect, ReplanWrite
    <2>2. CASE EnrichLegacy(a) \/ EnrichFill(a) \/ AssignWrite(a)
        BY <2>2, EnrichLegacyDoes, FillDoes
    <2>3. CASE ReEnrichWrite(a) \/ CoverageWrite(a) \/ EditBeatWrite(a)
        BY <2>3, ReEnrichDoes, CoverageDoes, EditBeatDoes
    <2>4. CASE EditShotWrite(a) \/ DeleteWrite(a) \/ CreatePlan(a)
        BY <2>4, EditShotDoes, DeleteDoes, CreatePlanDoes
    <2> QED
        BY <1>4, <2>1, <2>2, <2>3, <2>4 DEF Commit
<1> QED
    BY <1>1, <1>2, <1>3, <1>4, CommitOvertakes

LEMMA StepSettled ==
    ASSUME \A a, b \in Actors : a = b, Base, Settled, [Next]_vars PROVE Settled'
<1>0. TypeOK /\ OpsOK /\ RefsOK /\ TypeOK'
    BY StepBase DEF Base
<1>1. ASSUME tables' = tables PROVE \A s \in Shots : Fewer(s)
    BY <1>1 DEF tables, Fewer
<1>2. ASSUME \A s \in Shots : Fewer(s) PROVE \A s \in Shots : Single(s)'
    BY <1>2, FewerSingle DEF Settled
<1>3. CASE ApplyChanges
    <2>0. PICK os, P : ShotsBecome(os, {}, NoShots) /\ PlansBecome(P, {}, NoShots, NoShots)
        BY <1>0, <1>3, ApplyDoes
    <2>1. \A s \in Shots : Fewer(s)
        BY <1>0, <2>0, BecomeFewer
    <2>2. \A a \in Actors : /\ op'[a].pc = op[a].pc /\ op'[a].on = op[a].on
                            /\ op'[a].seen = op[a].seen /\ op'[a].plans = op[a].plans
        BY <1>0, <1>3, OvertakenKeeps DEF ApplyChanges, Overtaking, TypeOK
    <2> QED
        BY <1>0, <1>2, <2>1, <2>2, HeldStays DEF Settled
<1>4. CASE TakeAppears
    <2>1. \A a \in Actors : /\ op'[a].pc = op[a].pc /\ op'[a].on = op[a].on
                            /\ op'[a].seen = op[a].seen /\ op'[a].plans = op[a].plans
        BY <1>0, <1>4 DEF TakeAppears, TypeOK, Op
    <2>2. \A s \in Shots : Fewer(s)
        BY <1>1, <1>4 DEF TakeAppears
    <2> QED
        BY <1>0, <1>2, <2>1, <2>2, HeldStays DEF Settled
<1>5. ASSUME NEW a \in Actors, Read(a) PROVE Settled'
    <2>1. tables' = tables
        BY <1>5 DEF Read, Enrich, Replan, ReEnrich, Coverage, Assign, EditBeat, EditShot,
                               Delete, Start
    <2>2. \A s \in Shots : Single(s)'
        BY <1>1, <1>2, <2>1
    <2>3. Snap(a)'
        BY <1>0, <1>5, ReadSnap
    <2> QED
        BY <2>2, <2>3, SnapHeld DEF Settled
<1>9. ASSUME NEW a \in Actors, ReplanRead(a) PROVE Settled'
    <2>1. tables' = tables /\ op'[a].pc = "replan"
        BY <1>0, <1>9, ReplanReadDoes
    <2>2. \A s \in Shots : Single(s)'
        BY <1>1, <1>2, <2>1
    <2>3. Held(a)'
        BY <2>1 DEF Held
    <2> QED
        BY <2>2, <2>3 DEF Settled
<1>6. ASSUME NEW a \in Actors, Commit(a) PROVE Settled'
    <2>1. \A s \in Shots : Single(s)'
        BY <1>0, <1>6, CommitSingle DEF Settled
    <2>2. Held(a)'
        BY <1>0, <1>6, CommitHeld
    <2> QED
        BY <2>1, <2>2 DEF Settled
<1>7. ASSUME NEW a \in Actors, GiveUp(a) PROVE Settled'
    <2>1. tables' = tables /\ op'[a].pc = "idle"
        BY <1>0, <1>7, IdleFacts DEF GiveUp, TypeOK
    <2>2. \A s \in Shots : Single(s)'
        BY <1>1, <1>2, <2>1
    <2>3. Held(a)'
        BY <2>1 DEF Held
    <2> QED
        BY <2>2, <2>3 DEF Settled
<1>8. CASE UNCHANGED vars
    <2>1. tables' = tables /\ op' = op
        BY <1>8 DEF vars
    <2>2. \A s \in Shots : Fewer(s)
        BY <1>1, <2>1
    <2> QED
        BY <1>0, <1>2, <2>1, <2>2, HeldStays DEF Settled
<1> QED
    BY <1>3, <1>4, <1>5, <1>6, <1>7, <1>8, <1>9 DEF Next

LEMMA InitSettled == Init => Settled
<1> SUFFICES ASSUME Init PROVE Settled
    OBVIOUS
<1>1. \A s \in Shots, p \in Plans : plan[p].shot # s
    BY RowFields, NoneAssumption DEF Init
<1>2. \A s \in Shots : Single(s)
    BY <1>1 DEF Single, CurrentPlans
<1>3. \A a \in Actors : Held(a)
    BY IdleFacts DEF Init, Held
<1> QED
    BY <1>2, <1>3 DEF Settled

\* Every shot, written by an overtaken request or not, has at most one current
\* plan to generate from.
PlansUnique == \A s \in Shots : \A p, q \in CurrentPlans(s) : p = q

\* Where requests come one at a time, a shot never has two current plans, even if
\* the source changes while one waits for the language model: the cascade of
\* apply_source_changes takes plans away and raises no version.
THEOREM AloneHasOnePlan ==
    ASSUME \A a, b \in Actors : a = b
    PROVE  Spec => []PlansUnique
<1>1. Inv /\ Settled /\ [Next]_vars => Settled'
    BY StepSettled DEF Inv
<1>2. Settled => PlansUnique
    BY DEF Settled, Single, PlansUnique
<1> QED
    BY <1>1, <1>2, InitSettled, Invariance, PTL DEF Spec

\* What a request that waits knows of the shots that count is still so, or there
\* are fewer.
Empty(a) ==
    LET o == op[a] IN
    /\ o.pc \in {"direct", "legacy"} => Live = {}
    /\ o.pc = "replan" /\ Seen(a) = {} => Live = {}

\* A change of the source makes no shot count.
LEMMA ApplyFewer == ASSUME Base, ApplyChanges PROVE Live' \subseteq Live
<1>1. PICK ob, os, P : /\ BeatsBecome(ob, {}) /\ ShotsBecome(os, {}, NoShots)
                       /\ PlansBecome(P, {}, NoShots, NoShots)
    BY ApplyDoes DEF Base
<1>2. \A s \in Shots : shot'[s].beat = shot[s].beat
                       /\ (shot'[s].st = "current" => shot[s].st = "current")
    BY <1>1, ShotFields DEF Base
<1>3. \A b \in Beats : beat'[b].st = "current" => beat[b].st = "current"
    BY <1>1, BeatFields DEF Base
<1> QED
    BY <1>2, <1>3 DEF Live, CurrentShotsOf, CurrentBeats

LEMMA StepEmpty ==
    ASSUME \A a, b \in Actors : a = b, Base, \A a \in Actors : Empty(a), [Next]_vars
    PROVE  \A a \in Actors : Empty(a)'
<1>0. TypeOK /\ OpsOK /\ TypeOK'
    BY StepBase DEF Base
<1>1. ASSUME NEW a \in Actors, Live' \subseteq Live, op'[a].pc = op[a].pc, op'[a].seen = op[a].seen
      PROVE  Empty(a)'
    BY <1>1 DEF Empty, Seen
<1>2. CASE ApplyChanges
    <2>1. \A a \in Actors : op'[a].pc = op[a].pc /\ op'[a].seen = op[a].seen
        BY <1>0, <1>2, OvertakenKeeps DEF ApplyChanges, Overtaking, TypeOK
    <2> QED
        BY <1>1, <1>2, <2>1, ApplyFewer
<1>3. CASE TakeAppears \/ UNCHANGED vars
    <2>1. \A a \in Actors : op'[a].pc = op[a].pc /\ op'[a].seen = op[a].seen
        BY <1>0, <1>3 DEF TakeAppears, TypeOK, Op, vars
    <2>2. tables' = tables
        BY <1>3 DEF TakeAppears, vars
    <2> QED
        BY <1>1, <2>1, <2>2, SameTables
<1>4. ASSUME NEW a \in Actors, Read(a) PROVE Empty(a)'
    BY <1>0, <1>4, ReadSnap DEF Snap, Empty
<1>5. ASSUME NEW a \in Actors, ReplanRead(a) PROVE Empty(a)'
    <2>1. tables' = tables /\ op'[a].pc = op[a].pc /\ op'[a].seen = op[a].seen
        BY <1>0, <1>5, ReplanReadDoes
    <2> QED
        BY <1>1, <2>1, SameTables
<1>6. ASSUME NEW a \in Actors, Commit(a) \/ GiveUp(a) PROVE Empty(a)'
    <2>1. CASE op'[a] = Idle
        BY <2>1, IdleFacts DEF Empty
    <2>2. CASE CreateShot(a)
        <3>1. op'[a].pc = "newshot"
            BY <1>0, <2>2, CommitOvertakes DEF CreateShot, Doing
        <3> QED
            BY <3>1 DEF Empty
    <2>3. CASE CreateShotRow(a)
        <3>1. op'[a].pc = "newplan"
            BY <1>0, <2>3, CommitOvertakes DEF CreateShotRow, Doing
        <3> QED
            BY <3>1 DEF Empty
    <2>4. CASE GiveUp(a)
        BY <1>0, <2>1, <2>4 DEF GiveUp, TypeOK
    <2> QED
        BY <1>0, <1>6, <2>1, <2>2, <2>3, <2>4, CommitOvertakes
           DEF Commit, EnrichDirect, EnrichLegacy, EnrichFill, ReplanWrite, PlanScene,
               ReEnrichWrite, CoverageWrite, AssignWrite, EditBeatWrite, EditShotWrite,
               DeleteWrite, CreatePlan, Write
<1> QED
    BY <1>2, <1>3, <1>4, <1>5, <1>6 DEF Next

\* An enrichment or a replan leaves none of the shots of before beside its own.
NeverAppends ==
    [][\A a \in Actors : Ends(a, {"direct", "legacy", "replan"}) => Live \cap Live' = {}]_vars

\* Where requests come one at a time, neither enrichment nor replanning appends
\* to a shot plan, even if the source changes while one waits for the language
\* model.
THEOREM AloneNeverAppends ==
    ASSUME \A a, b \in Actors : a = b
    PROVE  Spec => NeverAppends
<1>1. Inv /\ (\A a \in Actors : Empty(a)) /\ [Next]_vars => (\A a \in Actors : Empty(a))'
    BY StepEmpty DEF Inv
<1>2. Init => \A a \in Actors : Empty(a)
    BY IdleFacts DEF Init, Empty
<1>3. ASSUME Inv, \A a \in Actors : Empty(a), [Next]_vars, NEW a \in Actors,
             Ends(a, {"direct", "legacy", "replan"})
      PROVE  Live \cap Live' = {}
    <2>1. Commit(a)
        BY <1>3, EndsCommit DEF Inv, Base
    <2>2. op[a].pc \in {"direct", "legacy"} => Live = {}
        BY <1>3 DEF Empty
    <2>3. ASSUME op[a].pc = "replan", NEW s \in Live \cap Live' PROVE FALSE
        BY <1>3, <2>1, <2>3, StepReplan DEF Inv, Empty
    <2> QED
        BY <1>3, <2>2, <2>3 DEF Ends
<1>4. Inv /\ (\A a \in Actors : Empty(a)) /\ [Next]_vars =>
        [\A a \in Actors : Ends(a, {"direct", "legacy", "replan"}) => Live \cap Live' = {}]_vars
    BY <1>3
<1> QED
    BY <1>1, <1>2, <1>4, Invariance, PTL DEF Spec, NeverAppends

=============================================================================
