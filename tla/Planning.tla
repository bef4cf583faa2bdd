------------------------------ MODULE Planning ------------------------------
(***************************************************************************)
(* The shot plan of one project: beats of its scenes, shots of the beats   *)
(* and generation plans of the shots.  Enrichment, replanning, coverage,   *)
(* strategy assignment, human edits, the stale cascade after a change of   *)
(* the source and the shot endpoints all rewrite these three tables.       *)
(*                                                                         *)
(* Every operation first reads, then often waits for a language model, and *)
(* writes in one transaction that does not look again at what was read:    *)
(* reading and writing are two steps, and other requests run in between.   *)
(* A row is never removed except by delete_shot: replaced rows are kept    *)
(* with the status outdated.                                               *)
(***************************************************************************)
EXTENDS Naturals, FiniteSets, Functions

CONSTANTS
    Scenes,         \* scenes of the project
    Primary,        \* scenes[0]
    Beats, Shots, Plans,    \* rows that may be inserted, numbers allotted in order
    Actors,         \* requests in progress
    MaxNew,         \* bound on the rows of one answer of the language model
    MaxWrites,      \* bound on the number of transactions
    MaxVersion,     \* bound on shots.version
    None

ASSUME PrimaryAssumption == Primary \in Scenes
ASSUME RowsAssumption    == Beats \subseteq Nat /\ Shots \subseteq Nat /\ Plans \subseteq Nat
ASSUME NoneAssumption    == None \notin Scenes \cup Beats \cup Shots
ASSUME BoundAssumption   == MaxNew \in Nat /\ MaxWrites \in Nat /\ MaxVersion \in Nat \ {0}

VARIABLES
    planner,    \* whether a ShotPlanner is configured
    beat, shot, plan,   \* the three tables
    takes,      \* shots with a take
    op,         \* the operation of each actor, with what it read
    writes,     \* number of transactions so far
    raced       \* shots written by an operation that was overtaken (history)

tables == <<beat, shot, plan>>
vars   == <<planner, tables, takes, op, writes, raced>>

-----------------------------------------------------------------------------

Status  == {"absent", "current", "outdated", "deleted"}
Writer  == {"generated", "human"}
Version == 0..MaxVersion

BeatRow == [st : Status, scene : Scenes \cup {None}, by : Writer]
ShotRow == [st : Status, beat : Beats \cup {None}, by : Writer, ver : Version]
PlanRow == [st : Status, shot : Shots \cup {None}, ver : Version]

ABeat(st, sc, by)   == [st |-> st, scene |-> sc, by |-> by]
AShot(st, b, by, v) == [st |-> st, beat |-> b, by |-> by, ver |-> v]
APlan(st, s, v)     == [st |-> st, shot |-> s, ver |-> v]

Pcs == {"idle", "direct", "legacy", "fill", "replan", "reenrich", "coverage", "assign",
        "editbeat", "editshot", "newshot", "newplan", "delete"}

\* seen: the version of each shot that was read, 0 if it was not.
\* read: the scenes whose beats a replan read before its transaction began.
\* late: another transaction came after what was read.
Op == [pc : Pcs, on : Scenes \cup Beats \cup Shots \cup {None}, beats : SUBSET Beats,
       seen : [Shots -> Version], plans : SUBSET Plans, read : SUBSET Scenes,
       force : BOOLEAN, late : BOOLEAN]

Nothing == [s \in Shots |-> 0]

Doing(pc, on, bs, seen, ps) ==
    [pc |-> pc, on |-> on, beats |-> bs, seen |-> seen, plans |-> ps, read |-> {},
     force |-> FALSE, late |-> FALSE]
Idle == Doing("idle", None, {}, Nothing, {})

TypeOK ==
    /\ planner \in BOOLEAN
    /\ beat \in [Beats -> BeatRow]
    /\ shot \in [Shots -> ShotRow]
    /\ plan \in [Plans -> PlanRow]
    /\ writes \in 0..MaxWrites
    /\ takes \subseteq Shots /\ raced \subseteq Shots
    /\ op \in [Actors -> Op]

Init ==
    /\ planner \in BOOLEAN
    /\ beat = [b \in Beats |-> ABeat("absent", None, "generated")]
    /\ shot = [s \in Shots |-> AShot("absent", None, "generated", 0)]
    /\ plan = [p \in Plans |-> APlan("absent", None, 0)]
    /\ takes = {} /\ raced = {} /\ writes = 0
    /\ op = [a \in Actors |-> Idle]

-----------------------------------------------------------------------------
(* Queries *)

CurrentBeats == {b \in Beats : beat[b].st = "current"}
BeatsOf(sc)  == {b \in CurrentBeats : beat[b].scene = sc}

\* get_current_shots_by_beat, for several beats.
CurrentShotsOf(B) == {s \in Shots : shot[s].st = "current" /\ shot[s].beat \in B}

\* get_current_shots_by_project: shots on outdated beats do not count.
Live == CurrentShotsOf(CurrentBeats)

Exists(s)  == shot[s].st \in {"current", "outdated"}
PlansOf(S) == {p \in Plans : plan[p].shot \in S /\ plan[p].st \in {"current", "outdated"}}

\* The rows get_current_plan_by_shot may return: it fetches one of them.
CurrentPlans(s) == {p \in Plans : /\ plan[p].st = "current" /\ plan[p].shot = s
                                  /\ plan[p].ver = shot[s].ver}

\* Mutant: the stale cascade stops at the shots.
Fetched_None(S) == {{}}

\* One current plan of each shot of S that has one.
Fetched(S) == {P \in SUBSET UNION {CurrentPlans(s) : s \in S} :
                  \A s \in S : /\ CurrentPlans(s) # {} => P \cap CurrentPlans(s) # {}
                               /\ \A p, q \in P \cap CurrentPlans(s) : p = q}

OneOf(P) == IF P = {} THEN {{}} ELSE {{p} : p \in P}

\* Mutant: the version is raised when the row is read, and again when it is saved.
Versions_Raised(S) == [s \in Shots |-> IF s \in S THEN shot[s].ver + 1 ELSE 0]

Versions(S) == [s \in Shots |-> IF s \in S THEN shot[s].ver ELSE 0]

Marked(S)   == [s \in Shots |-> IF s \in S THEN 1 ELSE 0]
Seen(a)     == {s \in Shots : op[a].seen[s] # 0}

-----------------------------------------------------------------------------
(* Writing *)

\* Rows are allotted in the order of their numbers.
Fresh(N, table) ==
    /\ \A x \in N : table[x].st = "absent"
    /\ \A x \in N, y \in DOMAIN table : y < x => y \in N \/ table[y].st # "absent"

\* A table in which the rows of old are outdated and those of new saved.
Updated(table, old, new) ==
    [x \in DOMAIN table |->
        IF x \in DOMAIN new THEN new[x]
        ELSE IF x \in old /\ table[x].st = "current" THEN [table[x] EXCEPT !.st = "outdated"]
        ELSE table[x]]

\* save_beat, save_shot and save_plan write whole rows under their ids, and
\* mark_outdated and its bulk forms change the status of rows.
SavedBeats(old, new) == Updated(beat, old, new)
SavedShots(old, new) == Updated(shot, old, new)
SavedPlans(old, new) == Updated(plan, old, new)

NoRows == [x \in {} |-> None]

\* Shots one of whose rows (its own, its beat's, its plans') changes.
Written ==
    {s \in Shots :
        \/ shot'[s] # shot[s]
        \/ \E b \in Beats : shot'[s].beat = b /\ beat'[b] # beat[b]
        \/ \E p \in Plans : (s = plan[p].shot \/ s = plan'[p].shot) /\ plan'[p] # plan[p]}

Overtaken(o) == [o EXCEPT !.late = @ \/ o.pc # "idle"]

\* Whatever was read before a transaction is old after it.
Overtaking == op' = [c \in Actors |-> Overtaken(op[c])]

\* The end of a transaction of actor a.
Committed(a, next) ==
    /\ op' = [c \in Actors |-> IF c = a THEN next ELSE Overtaken(op[c])]
    /\ writes < MaxWrites /\ writes' = writes + 1
    /\ raced' = IF op[a].late THEN raced \cup Written ELSE raced
    /\ UNCHANGED <<planner, takes>>

Rows(ofBeats, ofShots, ofPlans) == [beat |-> ofBeats, shot |-> ofShots, plan |-> ofPlans]

Write(a, old, new) ==
    /\ beat' = SavedBeats(old.beat, new.beat)
    /\ shot' = SavedShots(old.shot, new.shot)
    /\ plan' = SavedPlans(old.plan, new.plan)
    /\ Committed(a, Idle)

\* Every operation in progress can still commit within the bound.
Room == writes + Cardinality({c \in Actors : op[c].pc # "idle"}) < MaxWrites

Start(a, o) ==
    /\ op[a].pc = "idle"
    /\ Room
    /\ op' = [op EXCEPT ![a] = o]
    /\ UNCHANGED <<planner, tables, takes, writes, raced>>

\* What the language model may answer with.
Answers(N) == {A \in SUBSET N : A # {} /\ Cardinality(A) <= MaxNew}

GeneratedBeats(N, sc) == [b \in N |-> ABeat("current", sc, "generated")]
GeneratedShots(on)    == [s \in DOMAIN on |-> AShot("current", on[s], "generated", 1)]

\* select_strategy for each shot: a plan of the version that was read.
Selected(for, ver) == [p \in DOMAIN for |-> APlan("current", for[p], ver[for[p]])]

-----------------------------------------------------------------------------
(* enrich_project *)

\* No current shots anywhere in the project.
NothingPlanned == Live = {}

\* Mutant: every shot gets a plan, whether it has one or not.
Planless_All == Live

\* Shots missing their plan.
Planless == {s \in Live : CurrentPlans(s) = {}}

Enrich(a) ==
    \/ /\ NothingPlanned
       /\ Start(a, IF planner THEN Doing("direct", Primary, {}, Nothing, {})
                    ELSE Doing("legacy", None, CurrentBeats, Nothing, {}))
    \/ /\ ~NothingPlanned
       /\ Planless # {}
       /\ Start(a, Doing("fill", None, {}, Versions(Planless), {}))

\* plan_scene: new beats of a scene, one shot for each of them and one plan for
\* each of these; the rows of old give way to them.
PlanScene(a, sc, old) ==
    \E B \in Answers(Beats), S \in Answers(Shots), P \in Answers(Plans) :
        /\ Fresh(B, beat) /\ Fresh(S, shot) /\ Fresh(P, plan)
        /\ \E on \in Bijection(S, B), for \in Bijection(P, S) :
              Write(a, old, Rows(GeneratedBeats(B, sc), GeneratedShots(on),
                                 Selected(for, Marked(S))))

EnrichDirect(a) ==
    /\ op[a].pc = "direct"
    /\ PlanScene(a, op[a].on, Rows({}, {}, {}))

\* The beat to coverage chain: scenes without beats get some, and every beat
\* gets shots with a plan.  (The code reads the beats scene by scene, here they
\* are read when it starts; an answer is not bounded by MaxNew.)
EnrichLegacy(a) ==
    /\ op[a].pc = "legacy"
    /\ \E B \in SUBSET Beats, S \in SUBSET Shots, P \in SUBSET Plans :
        /\ Fresh(B, beat) /\ Fresh(S, shot) /\ Fresh(P, plan)
        /\ \E of \in Surjection(B, {sc \in Scenes : \A b \in op[a].beats : beat[b].scene # sc}),
              on \in Surjection(S, B \cup op[a].beats), for \in Bijection(P, S) :
                  Write(a, Rows({}, {}, {}),
                        Rows([b \in B |-> ABeat("current", of[b], "generated")],
                             GeneratedShots(on), Selected(for, Marked(S))))

\* The plans refer to the shots: none may have been deleted.
EnrichFill(a) ==
    /\ op[a].pc = "fill"
    /\ \A s \in Seen(a) : Exists(s)
    /\ \E P \in SUBSET Plans : \E for \in Bijection(P, Seen(a)) :
          /\ Fresh(P, plan)
          /\ Write(a, Rows({}, {}, {}), Rows(NoRows, NoRows, Selected(for, op[a].seen)))

-----------------------------------------------------------------------------
(* replan_project *)

\* Mutant: takes are not looked at.
Replannable_Always(S) == TRUE

\* No take of the shots that would go.
Replannable(S) == S \cap takes = {}

Replan(a) ==
    /\ planner
    /\ Replannable(Live)
    /\ Start(a, Doing("replan", Primary, {}, Marked(Live), {}))

\* Mutant: only the beats of the shots that were read give way.
Replaced_Read(a) == {b \in Beats : \E s \in Seen(a) : shot[s].beat = b}

\* sqlite3 begins the transaction at the first write.  Without shots to outdate
\* that is the first beat found: the scenes up to it, scenes[0] first, are read
\* one by one before any lock is held.
ReplanRead(a) ==
    /\ op[a].pc = "replan"
    /\ Seen(a) = {} /\ op[a].beats = {}
    /\ \E sc \in Scenes \ op[a].read :
          /\ sc = Primary \/ Primary \in op[a].read
          /\ op' = [op EXCEPT ![a].read = @ \cup {sc}, ![a].beats = BeatsOf(sc)]
    /\ UNCHANGED <<planner, tables, takes, writes, raced>>

\* The beats of the other scenes are read inside the transaction.
Replaced(a) == op[a].beats \cup {b \in CurrentBeats : beat[b].scene \notin op[a].read}

ReplanWrite(a) ==
    /\ op[a].pc = "replan"
    /\ Seen(a) # {} \/ op[a].beats # {} \/ op[a].read = Scenes
    /\ PlanScene(a, op[a].on, Rows(Replaced(a), Seen(a), PlansOf(Seen(a))))

-----------------------------------------------------------------------------
(* enrich_scene_beats and plan_beat_coverage *)

\* Rows a person wrote are only replaced by force (and force matters only then).
Replaceable(rows, force) == force <=> \E r \in rows : r.by = "human"

ReEnrich(a) ==
    \E sc \in Scenes, force \in BOOLEAN :
        /\ Replaceable({beat[b] : b \in BeatsOf(sc)}, force)
        /\ Start(a, [Doing("reenrich", sc, BeatsOf(sc), Nothing, {}) EXCEPT !.force = force])

\* Every shot of the beats goes, and the plans of those that were current.
ReEnrichWrite(a) ==
    /\ op[a].pc = "reenrich"
    /\ \E B \in Answers(Beats) :
          /\ Fresh(B, beat)
          /\ Write(a, Rows(op[a].beats, {s \in Shots : shot[s].beat \in op[a].beats},
                           PlansOf(CurrentShotsOf(op[a].beats))),
                   Rows(GeneratedBeats(B, op[a].on), NoRows, NoRows))

\* The status of the beat is not looked at.
Coverage(a) ==
    \E b \in Beats, force \in BOOLEAN :
        /\ beat[b].st # "absent"
        /\ Replaceable({shot[s] : s \in CurrentShotsOf({b})}, force)
        /\ Start(a, [Doing("coverage", b, {}, Marked(CurrentShotsOf({b})), {})
                        EXCEPT !.force = force])

\* The new shots get no plan.
CoverageWrite(a) ==
    /\ op[a].pc = "coverage"
    /\ \E S \in Answers(Shots) :
          /\ Fresh(S, shot)
          /\ Write(a, Rows({}, Seen(a), PlansOf(Seen(a))),
                   Rows(NoRows, GeneratedShots([s \in S |-> op[a].on]), NoRows))

-----------------------------------------------------------------------------
(* assign_strategies *)

Assign(a) ==
    /\ Live # {}
    /\ \E P \in Fetched(Live) : Start(a, Doing("assign", None, {}, Versions(Live), P))

AssignWrite(a) ==
    /\ op[a].pc = "assign"
    /\ \A s \in Seen(a) : Exists(s)
    /\ \E P \in SUBSET Plans : \E for \in Bijection(P, Seen(a)) :
          /\ Fresh(P, plan)
          /\ Write(a, Rows({}, {}, op[a].plans),
                   Rows(NoRows, NoRows, Selected(for, op[a].seen)))

-----------------------------------------------------------------------------
(* apply_source_changes.  The change is found before, but the cascade reads    *)
(* and writes in one transaction, so the finding is no step here.             *)

\* Scenes SC are stale (all of them when the project changed or anything was
\* added): every shot of every beat of theirs is.  S are the current shots in
\* which a stale character appears.
Stale(SC, S) == CurrentShotsOf({b \in Beats : beat[b].scene \in SC}) \cup S

ApplyChanges ==
    \E SC \in SUBSET Scenes, S \in SUBSET Live :
        \E P \in Fetched(Stale(SC, S)) :
            /\ beat' = SavedBeats({b \in Beats : beat[b].scene \in SC}, NoRows)
            /\ shot' = SavedShots(Stale(SC, S), NoRows)
            /\ plan' = SavedPlans(P, NoRows)
            /\ Overtaking
            /\ writes < MaxWrites /\ writes' = writes + 1
            /\ UNCHANGED <<planner, takes, raced>>

-----------------------------------------------------------------------------
(* edit_beat and edit_shot: the whole row that was read is saved again, so   *)
(* a row outdated, or deleted, meanwhile comes back.                         *)

\* Mutant: outdated rows may be edited.
Editable_Any(row) == row.st # "absent"

Editable(row) == row.st = "current"

EditBeat(a) == \E b \in Beats : Editable(beat[b]) /\ Start(a, Doing("editbeat", b, {}, Nothing, {}))

EditBeatWrite(a) ==
    LET b == op[a].on IN
    /\ op[a].pc = "editbeat"
    /\ \E P \in Fetched(CurrentShotsOf({b})) :
          Write(a, Rows({}, {s \in Shots : shot[s].beat = b}, P),
                Rows([x \in {b} |-> ABeat("current", beat[b].scene, "human")], NoRows, NoRows))

EditShot(a) ==
    \E s \in Shots : /\ Editable(shot[s]) /\ shot[s].ver < MaxVersion
                     /\ Start(a, Doing("editshot", s, {}, Versions({s}), {}))

\* The cascade looks for the plan of the new version.
EditShotWrite(a) ==
    LET s == op[a].on
        v == op[a].seen[s] + 1
    IN
    /\ op[a].pc = "editshot"
    /\ \E P \in OneOf({p \in Plans : plan[p] = APlan("current", s, v)}) :
          Write(a, Rows({}, {}, P),
                Rows(NoRows, [x \in {s} |-> AShot("current", shot[s].beat, "human", v)], NoRows))

-----------------------------------------------------------------------------
(* create_shot: a beat, a shot and a plan in three transactions *)

CreateShot(a) ==
    /\ op[a].pc = "idle"
    /\ UNCHANGED <<shot, plan>>
    /\ \E b \in Beats, sc \in Scenes :
          /\ Fresh({b}, beat)
          /\ beat' = [beat EXCEPT ![b] = ABeat("current", sc, "human")]
          /\ Committed(a, Doing("newshot", b, {}, Nothing, {}))

CreateShotRow(a) ==
    /\ op[a].pc = "newshot"
    /\ UNCHANGED <<beat, plan>>
    /\ \E s \in Shots :
          /\ Fresh({s}, shot)
          /\ shot' = [shot EXCEPT ![s] = AShot("current", op[a].on, "human", 1)]
          /\ Committed(a, [Doing("newplan", s, {}, Nothing, {}) EXCEPT !.late = op[a].late])

CreatePlan(a) ==
    /\ op[a].pc = "newplan"
    /\ Exists(op[a].on)
    /\ \E p \in Plans :
          /\ Fresh({p}, plan)
          /\ Write(a, Rows({}, {}, {}),
                   Rows(NoRows, NoRows, [x \in {p} |-> APlan("current", op[a].on, 1)]))

-----------------------------------------------------------------------------
(* delete_shot looks for takes first; when one appears after that, the foreign *)
(* key of its request keeps the shot.                                        *)

Delete(a) ==
    \E s \in Shots : /\ Exists(s) /\ s \notin takes
                     /\ Start(a, Doing("delete", s, {}, Nothing, {}))

\* Mutant: no foreign keys.
Deletable_Unchecked(s) == TRUE

Deletable(s) == s \notin takes

DeleteWrite(a) ==
    LET s == op[a].on IN
    /\ op[a].pc = "delete"
    /\ Deletable(s)
    /\ Write(a, Rows({}, {}, {}),
             Rows(NoRows, [x \in {s} |-> [shot[s] EXCEPT !.st = "deleted"]],
                  [p \in PlansOf({s}) |-> [plan[p] EXCEPT !.st = "deleted"]]))

-----------------------------------------------------------------------------
(* Generation, as planning sees it *)

\* The take of a generation asked for earlier appears, whatever has become of
\* the shot; a replan that looked for takes before has been overtaken.
TakeAppears ==
    /\ writes < MaxWrites
    /\ \E s \in Shots \ takes : Exists(s) /\ takes' = takes \cup {s}
    /\ op' = [a \in Actors |-> [op[a] EXCEPT !.late = @ \/ op[a].pc = "replan"]]
    /\ UNCHANGED <<planner, tables, writes, raced>>

\* The language model fails twice, a row that is referred to has gone, the
\* database is busy, the process dies: nothing is written.
GiveUp(a) ==
    /\ op[a].pc # "idle"
    /\ op' = [op EXCEPT ![a] = Idle]
    /\ UNCHANGED <<planner, tables, takes, writes, raced>>

-----------------------------------------------------------------------------

Read(a) ==
    \/ Enrich(a) \/ Replan(a) \/ ReEnrich(a) \/ Coverage(a) \/ Assign(a)
    \/ EditBeat(a) \/ EditShot(a) \/ Delete(a)

Commit(a) ==
    \/ EnrichDirect(a) \/ EnrichLegacy(a) \/ EnrichFill(a) \/ ReplanWrite(a)
    \/ ReEnrichWrite(a) \/ CoverageWrite(a) \/ AssignWrite(a)
    \/ EditBeatWrite(a) \/ EditShotWrite(a) \/ DeleteWrite(a)
    \/ CreateShot(a) \/ CreateShotRow(a) \/ CreatePlan(a)

Next ==
    \/ ApplyChanges \/ TakeAppears
    \/ \E a \in Actors : Read(a) \/ ReplanRead(a) \/ Commit(a) \/ GiveUp(a)

Spec == Init /\ [][Next]_vars

-----------------------------------------------------------------------------
(* Properties *)

\* get_current_plan_by_shot fetches one row and takes it for the only one:
\* a shot has two current plans only if a write to it was overtaken.
OneCurrentPlan ==
    \A s \in Shots \ raced : \A p, q \in CurrentPlans(s) : p = q

\* The stale cascade reaches the plans: a shot that no longer counts, or
\* whose beat no longer does, has no plan to generate from, unless a write to
\* it was overtaken.
CascadeComplete ==
    \A s \in Shots \ raced : CurrentPlans(s) # {} => s \in Live

\* Who is ending a transaction in this step.
Ends(a, pcs) == op[a].pc \in pcs /\ op'[a].pc = "idle" /\ tables' # tables

Returns(row, rowNext) == row.st \in {"outdated", "deleted"} /\ rowNext.st = "current"

\* A row once outdated or deleted does not return: no plan ever does, and a
\* shot or a beat only by an edit of that very row that was overtaken and saves
\* what it had read.
ReplacedIsFinal ==
    [][/\ \A p \in Plans : ~Returns(plan[p], plan'[p])
       /\ \A s \in Shots : Returns(shot[s], shot'[s]) =>
             \E a \in Actors : Ends(a, {"editshot"}) /\ op[a].on = s /\ op[a].late
       /\ \A b \in Beats : Returns(beat[b], beat'[b]) =>
             \E a \in Actors : Ends(a, {"editbeat"}) /\ op[a].on = b /\ op[a].late]_vars

\* Replanning leaves nothing of the old shot plan in the project, even if it
\* was overtaken, with one exception: a replan that found no shots reads the
\* beats before its transaction begins, and what another request added to a
\* scene after it was read stays current beside the new plan.
ReplanReplaces ==
    [][\A a \in Actors : Ends(a, {"replan"}) =>
         \A s \in Live \cap Live' :
            /\ Seen(a) = {} /\ op[a].late
            /\ beat[shot[s].beat].scene \in op[a].read
            /\ shot[s].beat \notin op[a].beats]_vars

Withdrawn(row, rowNext) == row.st = "current" /\ rowNext.st # "current"

\* No request ends in this step: if rows change, the source has changed.
SourceChanged == \A a \in Actors : op'[a].pc = op[a].pc

\* Which requests withdraw a person's work or a shot with a take, apart from a
\* change of the source.  Replanning looks for takes, coverage for human shots
\* and re-enrichment for human beats, and each withdraws what it looks for only
\* if it was overtaken (or, the latter two, forced).  None looks for the rest:
\* replanning withdraws human rows without being forced, coverage withdraws
\* taken shots, and re-enriching a scene or editing a beat withdraws every shot
\* below.  No other request withdraws anything but the shot it deletes.
WorkIsKept ==
    [][/\ \A s \in takes : Withdrawn(shot[s], shot'[s]) =>
             \/ SourceChanged
             \/ \E a \in Actors : \/ Ends(a, {"coverage", "reenrich", "editbeat"})
                                  \/ Ends(a, {"replan"}) /\ op[a].late
       /\ \A s \in Shots : shot[s].by = "human" /\ Withdrawn(shot[s], shot'[s]) =>
             \/ SourceChanged
             \/ \E a \in Actors : \/ Ends(a, {"replan", "reenrich", "editbeat"})
                                  \/ Ends(a, {"delete"}) /\ op[a].on = s
                                  \/ Ends(a, {"coverage"}) /\ (op[a].force \/ op[a].late)
       /\ \A b \in Beats : beat[b].by = "human" /\ Withdrawn(beat[b], beat'[b]) =>
             \/ SourceChanged
             \/ \E a \in Actors : \/ Ends(a, {"replan"})
                                  \/ Ends(a, {"reenrich"}) /\ (op[a].force \/ op[a].late)]_vars

\* A shot with a take keeps its row.
TakenShotsStay == \A s \in takes : Exists(s)

=============================================================================
