----------------------------- MODULE References -----------------------------
(***************************************************************************)
(* The reference images of one project's characters and of its             *)
(* environment, and the descriptions (here: looks) they are generated      *)
(* from.  People edit the looks, a reimport replaces them, enrichment      *)
(* fills in those that say too little; images are uploaded, or generated   *)
(* by ComfyUI over minutes; whoever changes a look must mark the images    *)
(* generated from another look stale.                                      *)
(*                                                                         *)
(* Requests run concurrently.  Each step below is one transaction or one   *)
(* change of the file store; between two of them other requests run, the   *)
(* process may die, and the next step may fail.                            *)
(***************************************************************************)
EXTENDS Naturals, FiniteSets

CONSTANTS
    Characters,
    Environment,    \* director_context["environment_description"]
    Looks,          \* descriptions that are not blank
    Thin,           \* those too short to be kept under a template name
    Images,         \* contents of image files
    Assets,         \* ids of reference images
    Runs,           \* ids of reference generation executions
    Actors,         \* requests in progress
    MaxOps,         \* bound on the number of operations
    None

Subjects == Characters \cup {Environment}

ASSUME SubjectsAssumption == Environment \notin Characters
ASSUME LooksAssumption    == Thin \subseteq Looks /\ None \notin Looks
ASSUME NoneAssumption     == None \notin Subjects \cup Assets \cup Runs \cup Images
ASSUME BoundAssumption    == MaxOps \in Nat

VARIABLES
    look,       \* appearance of the characters, description of the environment
    asset,      \* reference_assets
    exec,       \* reference_generation_executions
    files,      \* assets with a file in the managed storage
    op,         \* the operation of each actor
    ops,        \* number of operations begun
    drifted,    \* subjects whose look was replaced unmarked (history)
    raced,      \* assets saved after another was, unseen (history)
    lost,       \* files left behind by a failure or a crash (history)
    abandoned   \* executions no one will finish (history)

store   == <<look, asset, exec, files>>
history == <<drifted, raced, lost, abandoned>>
vars    == <<store, op, ops, history>>

-----------------------------------------------------------------------------

Look  == Looks \cup {None}      \* None: blank
Maker == {"generated", "upload"}
Review == {"candidate", "approved", "rejected", "archived"}
RunStatus == {"absent", "pending", "running", "succeeded", "failed"}

Asset == [of : Subjects \cup {None}, by : Maker, fp : Look, image : Images \cup {None},
          status : Review, stale : BOOLEAN, pinned : BOOLEAN]
Exec  == [st : RunStatus, of : Characters \cup {None}, out : Assets \cup {None}]

Pcs == {"idle", "edit", "mark", "enrich", "submit", "render", "check", "reuse", "save",
        "register", "copy", "pin"}

\* on, asset, run: what the operation is about; seen: the looks it read; image:
\* the image it brings; late: another image of the subject came since it looked.
Op == [pc : Pcs, on : Subjects \cup {None}, seen : [Subjects -> Look],
       asset : Assets \cup {None}, run : Runs \cup {None}, image : Images \cup {None},
       late : BOOLEAN]

NoAsset == [of |-> None, by |-> "upload", fp |-> None, image |-> None,
            status |-> "candidate", stale |-> FALSE, pinned |-> FALSE]
NoExec  == [st |-> "absent", of |-> None, out |-> None]

Doing(pc, s, seen) == [pc |-> pc, on |-> s, seen |-> seen, asset |-> None, run |-> None,
                       image |-> None, late |-> FALSE]
Idle == Doing("idle", None, [s \in Subjects |-> None])

TypeOK ==
    /\ look \in [Subjects -> Look]
    /\ asset \in [Assets -> Asset]
    /\ exec \in [Runs -> Exec]
    /\ files \subseteq Assets
    /\ op \in [Actors -> Op]
    /\ ops \in 0..MaxOps
    /\ drifted \subseteq Subjects /\ raced \subseteq Assets
    /\ lost \subseteq Assets /\ abandoned \subseteq Runs

\* The project is imported: the characters have the looks of Wind Comic.
Init ==
    /\ look \in [Subjects -> Look] /\ look[Environment] = None
    /\ asset = [i \in Assets |-> NoAsset]
    /\ exec = [r \in Runs |-> NoExec]
    /\ files = {} /\ ops = 0
    /\ op = [a \in Actors |-> Idle]
    /\ drifted = {} /\ raced = {} /\ lost = {} /\ abandoned = {}

-----------------------------------------------------------------------------
(* Queries *)

Present    == {i \in Assets : asset[i].of # None}
Live       == {r \in Runs : exec[r].st \in {"pending", "running"}}
Busy       == {a \in Actors : op[a].pc # "idle"}
Owned(a)   == {op[a].asset} \cap files

\* Mutant: the owner is not part of the query.
SameImage_AnyOwner(s, img) == {i \in Present : asset[i].image = img}

\* Mutant: the query is never asked.
SameImage_None(s, img) == {}

\* find_duplicate; for the environment it has no query and finds nothing.
SameImage(s, img) ==
    {i \in Present : s # Environment /\ asset[i].of = s /\ asset[i].image = img}

\* _is_character_deficient; the environment only when it has no description.
Deficient(seen) ==
    {s \in Subjects : seen[s] = None \/ (s # Environment /\ seen[s] \in Thin)}

\* ReferenceSelector: what it may choose from for a character, and what it
\* prefers.  (For the environment, generation takes the first one it finds.)
Eligible(s) == {i \in Present : asset[i].of = s /\ asset[i].status = "approved" /\ ~asset[i].stale}

Selected(s) ==
    LET pins == {i \in Eligible(s) : asset[i].pinned}
    IN  IF pins # {} THEN pins ELSE Eligible(s)

-----------------------------------------------------------------------------
(* Steps *)

\* Mutant: what is already approved is spared.
Marked_Candidates(table, s, l) ==
    [i \in Assets |-> IF table[i].of = s /\ table[i].by = "generated" /\ table[i].fp # l
                         /\ table[i].status = "candidate"
                      THEN [table[i] EXCEPT !.stale = TRUE] ELSE table[i]]

\* Mutant: uploads are marked as well.
Marked_Uploads(table, s, l) ==
    [i \in Assets |-> IF table[i].of = s /\ table[i].fp # l
                      THEN [table[i] EXCEPT !.stale = TRUE] ELSE table[i]]

\* mark_generated_stale_for_character, ..._for_environment.
Marked(table, s, l) ==
    [i \in Assets |-> IF table[i].of = s /\ table[i].by = "generated" /\ table[i].fp # l
                      THEN [table[i] EXCEPT !.stale = TRUE] ELSE table[i]]

Begin(a, o) ==
    /\ op[a].pc = "idle"
    /\ ops < MaxOps /\ ops' = ops + 1
    /\ op' = [op EXCEPT ![a] = o]

Go(a, pc) == op' = [op EXCEPT ![a].pc = pc] /\ UNCHANGED ops
End(a)    == op' = [op EXCEPT ![a] = Idle] /\ UNCHANGED ops

\* The new image i of s is seen by no one who looked before.
Saved(a, s) ==
    /\ op' = [c \in Actors |-> IF c = a THEN Idle
                               ELSE [op[c] EXCEPT !.late = @ \/ op[c].on = s]]
    /\ UNCHANGED ops

\* An id that was drawn but not yet used.
Free == {i \in Assets : i \notin files /\ i \notin Present}

\* A file that was opened, but not written to its end, stays where it is.
LeftBroken == \E i \in Free : files' = files \cup {i} /\ lost' = lost \cup {i}

-----------------------------------------------------------------------------
(* edit_character and edit_environment_description: the row is read, saved   *)
(* whole, and the references are marked in another transaction if the text   *)
(* differs from the one read (an edit of the name alone saves that one).     *)

EditCharacter(a) ==
    /\ \E s \in Characters : Begin(a, Doing("edit", s, look))
    /\ UNCHANGED <<store, history>>

EditEnvironment(a) ==
    /\ Begin(a, Doing("edit", Environment, look))
    /\ UNCHANGED <<store, history>>

EditSave(a) ==
    LET s == op[a].on IN
    /\ op[a].pc = "edit"
    /\ \E l \in Look :
          /\ look' = [look EXCEPT ![s] = l]
          /\ IF l # op[a].seen[s]
             THEN /\ op' = [op EXCEPT ![a].pc = "mark", ![a].seen[s] = l]
                  /\ UNCHANGED drifted
             ELSE /\ op' = [op EXCEPT ![a] = Idle]
                  /\ drifted' = IF l # look[s] THEN drifted \cup {s} ELSE drifted
    /\ UNCHANGED <<asset, exec, files, ops, raced, lost, abandoned>>

EditMark(a) ==
    LET s == op[a].on IN
    /\ op[a].pc = "mark"
    /\ asset' = Marked(asset, s, op[a].seen[s])
    /\ drifted' = IF look[s] = op[a].seen[s] THEN drifted \ {s} ELSE drifted
    /\ End(a)
    /\ UNCHANGED <<look, exec, files, raced, lost, abandoned>>

\* The process dies between the two transactions, or the second one fails.
EditFail(a) ==
    /\ op[a].pc \in {"edit", "mark"}
    /\ drifted' = IF op[a].pc = "mark" THEN drifted \cup {op[a].on} ELSE drifted
    /\ End(a)
    /\ UNCHANGED <<store, raced, lost, abandoned>>

-----------------------------------------------------------------------------
(* import_project: one transaction.  The director context is built anew, and *)
(* the description of the environment is not part of it.                     *)

Changed(C, bundle) == {s \in C : bundle[s] # look[s]}

Import ==
    /\ ops < MaxOps /\ ops' = ops + 1
    /\ \E C \in SUBSET Characters : \E bundle \in [C -> Look] :
          /\ look' = [s \in Subjects |-> IF s \in C THEN bundle[s]
                                         ELSE IF s = Environment THEN None ELSE look[s]]
          /\ asset' = [i \in Assets |->
                          IF asset[i].of \in Changed(C, bundle)
                          THEN Marked(asset, asset[i].of, bundle[asset[i].of])[i]
                          ELSE asset[i]]
    /\ drifted' = IF look[Environment] # None THEN drifted \cup {Environment} ELSE drifted
    /\ UNCHANGED <<exec, files, op, raced, lost, abandoned>>

-----------------------------------------------------------------------------
(* enrich_project: the rows are read, the language model is asked, the rows  *)
(* that were deficient are saved whole (what it answers may be thin again).  *)
(* Nothing is marked.                                                        *)

Enrich(a) ==
    /\ Deficient(look) # {}
    /\ Begin(a, Doing("enrich", None, look))
    /\ UNCHANGED <<store, history>>

EnrichSave(a) ==
    /\ op[a].pc = "enrich"
    /\ \E D \in SUBSET Deficient(op[a].seen) : \E new \in [D -> Looks] :
          /\ look' = [s \in Subjects |-> IF s \in D THEN new[s] ELSE look[s]]
          /\ drifted' = drifted \cup {s \in D : look[s] # None}
    /\ End(a)
    /\ UNCHANGED <<asset, exec, files, raced, lost, abandoned>>

-----------------------------------------------------------------------------
(* generate_character_reference and generate_environment_reference           *)

\* What has no description is not drawn.
Described(s) == look[s] # None

\* The request and its execution are saved before anything is sent.
GenerateCharacter(a) ==
    /\ \E s \in Characters, r \in Runs :
          /\ Described(s)
          /\ exec[r] = NoExec
          /\ exec' = [exec EXCEPT ![r] = [NoExec EXCEPT !.st = "pending", !.of = s]]
          /\ Begin(a, [Doing("submit", s, look) EXCEPT !.run = r])
    /\ UNCHANGED <<look, asset, files, history>>

\* The environment has neither.
GenerateEnvironment(a) ==
    /\ Described(Environment)
    /\ Begin(a, Doing("submit", Environment, look))
    /\ UNCHANGED <<store, history>>

\* Mutant: an execution ends with the status of a generation job.
Settled_Completed(a, st, out) ==
    [r \in Runs |-> IF r = op[a].run
                    THEN [exec[r] EXCEPT !.st = IF st = "failed" THEN st ELSE "completed",
                                         !.out = out] ELSE exec[r]]

\* The execution of a, if it has one, is over or goes on as given.
Settled(a, st, out) ==
    [r \in Runs |-> IF r = op[a].run THEN [exec[r] EXCEPT !.st = st, !.out = out] ELSE exec[r]]

Submit(a) ==
    /\ op[a].pc = "submit"
    /\ exec' = Settled(a, "running", None)
    /\ Go(a, "render")
    /\ UNCHANGED <<look, asset, files, history>>

\* The image is rendered, and its file downloaded under a new id.
Download(a) ==
    /\ op[a].pc = "render"
    /\ \E i \in Free, img \in Images :
          /\ files' = files \cup {i}
          /\ op' = [op EXCEPT ![a].pc = "check", ![a].asset = i, ![a].image = img]
    /\ UNCHANGED <<look, asset, exec, ops, history>>

\* Mutant: the file is left where it is.
Discarded_None(a) == {}

\* The file that was downloaded.
Discarded(a) == {op[a].asset}

\* A copy of an image we have is removed again.
CheckRendered(a) ==
    LET same == SameImage(op[a].on, op[a].image) IN
    /\ op[a].pc = "check"
    /\ IF same = {}
       THEN /\ op' = [op EXCEPT ![a].pc = "save", ![a].late = FALSE]
            /\ UNCHANGED files
       ELSE /\ \E i \in same : op' = [op EXCEPT ![a].pc = "reuse", ![a].asset = i]
            /\ files' = files \ Discarded(a)
    /\ UNCHANGED <<look, asset, exec, ops, history>>

Reuse(a) ==
    /\ op[a].pc = "reuse"
    /\ exec' = Settled(a, "succeeded", op[a].asset)
    /\ End(a)
    /\ UNCHANGED <<look, asset, files, history>>

Rendered(a) == [NoAsset EXCEPT !.of = op[a].on, !.by = "generated", !.image = op[a].image,
                               !.fp = op[a].seen[op[a].on]]

Unseen(a) == IF op[a].late THEN raced \cup {op[a].asset} ELSE raced

\* One transaction for the image and the execution.
SaveRendered(a) ==
    LET s == op[a].on IN
    /\ op[a].pc = "save"
    /\ asset' = [asset EXCEPT ![op[a].asset] = Rendered(a)]
    /\ exec' = Settled(a, "succeeded", op[a].asset)
    /\ drifted' = IF op[a].seen[s] # look[s] THEN drifted \cup {s} ELSE drifted
    /\ raced' = Unseen(a)
    /\ Saved(a, s)
    /\ UNCHANGED <<look, files, lost, abandoned>>

\* Mutant: the handler for a bad image forgets the execution.
FailedRun_Kept(a) == exec

FailedRun(a) == Settled(a, "failed", None)

\* Something fails.  The execution is marked failed, unless that fails in its
\* turn, or what failed is the making of the directory, which nothing catches.
\* A file that was downloaded is removed, the rest of a broken download is not.
CharacterFail(a) ==
    /\ op[a].on \in Characters
    /\ op[a].pc \in {"submit", "render", "check", "reuse", "save"}
    /\ \/ exec' = FailedRun(a) /\ UNCHANGED abandoned
       \/ exec' = exec /\ abandoned' = abandoned \cup {op[a].run}
    /\ \/ /\ files' = IF op[a].pc \in {"check", "save"} THEN files \ Discarded(a) ELSE files
          /\ UNCHANGED lost
       \/ op[a].pc = "render" /\ LeftBroken
    /\ End(a)
    /\ UNCHANGED <<look, asset, drifted, raced>>

\* A bad image is removed, a broken download or a good one whose row is not
\* saved stays.
EnvironmentFail(a) ==
    /\ op[a].on = Environment
    /\ \/ op[a].pc \in {"submit", "render"} /\ UNCHANGED <<files, lost>>
       \/ op[a].pc = "render" /\ LeftBroken
       \/ op[a].pc = "check" /\ files' = files \ Discarded(a) /\ UNCHANGED lost
       \/ op[a].pc = "save"  /\ lost' = lost \cup Owned(a) /\ UNCHANGED files
    /\ End(a)
    /\ UNCHANGED <<look, asset, exec, drifted, raced, abandoned>>

-----------------------------------------------------------------------------
(* register_user_reference, through _ingest_from_file                        *)

\* Nothing is copied if we have the image.
Register(a) ==
    /\ \E s \in Subjects, img \in Images :
          /\ SameImage(s, img) = {}
          /\ Begin(a, [Doing("register", s, look) EXCEPT !.image = img])
    /\ UNCHANGED <<store, history>>

Copy(a) ==
    /\ op[a].pc = "register"
    /\ \E i \in Free : /\ files' = files \cup {i}
                       /\ op' = [op EXCEPT ![a].pc = "copy", ![a].asset = i]
    /\ UNCHANGED <<look, asset, exec, ops, history>>

SaveUploaded(a) ==
    /\ op[a].pc = "copy"
    /\ asset' = [asset EXCEPT ![op[a].asset] =
                    [NoAsset EXCEPT !.of = op[a].on, !.image = op[a].image]]
    /\ raced' = Unseen(a)
    /\ Saved(a, op[a].on)
    /\ UNCHANGED <<look, exec, files, drifted, lost, abandoned>>

\* A broken copy stays where it is, a good one whose row is not saved does not.
RegisterFail(a) ==
    /\ \/ /\ op[a].pc = "register"
          /\ UNCHANGED <<files, lost>>
       \/ op[a].pc = "register" /\ LeftBroken
       \/ /\ op[a].pc = "copy"
          /\ files' = files \ {op[a].asset}
          /\ UNCHANGED lost
    /\ End(a)
    /\ UNCHANGED <<look, asset, exec, drifted, raced, abandoned>>

-----------------------------------------------------------------------------
(* ReferenceLifecycleService *)

\* approve, reject and archive look at nothing.
Decide ==
    /\ ops < MaxOps /\ ops' = ops + 1
    /\ \E i \in Present, st \in Review \ {"candidate"} :
          asset' = [asset EXCEPT ![i].status = st]
    /\ UNCHANGED <<look, exec, files, op, history>>

Pinnable(row) == row.status = "approved" /\ ~row.stale

\* pin looks and then writes.
Pin(a) ==
    /\ \E i \in Present :
          /\ Pinnable(asset[i])
          /\ Begin(a, [Doing("pin", None, look) EXCEPT !.asset = i])
    /\ UNCHANGED <<store, history>>

PinSave(a) ==
    /\ op[a].pc = "pin"
    /\ asset' = [asset EXCEPT ![op[a].asset].pinned = TRUE]
    /\ End(a)
    /\ UNCHANGED <<look, exec, files, history>>

Unpin ==
    /\ ops < MaxOps /\ ops' = ops + 1
    /\ \E i \in Present : asset' = [asset EXCEPT ![i].pinned = FALSE]
    /\ UNCHANGED <<look, exec, files, op, history>>

-----------------------------------------------------------------------------

\* The language model, or a database that is busy, fails an operation that has
\* done nothing yet.
GiveUp(a) ==
    /\ op[a].pc \in {"enrich", "pin"}
    /\ End(a)
    /\ UNCHANGED <<store, history>>

At(pcs) == {a \in Busy : op[a].pc \in pcs}

\* Who downloads or copies may leave a part of the file.  Nothing looks for
\* unfinished executions or for files when it starts again.
Crash ==
    /\ Busy # {}
    /\ op' = [a \in Actors |-> Idle]
    /\ \E F \in SUBSET Free :
          /\ Cardinality(F) <= Cardinality(At({"render", "register"}))
          /\ files' = files \cup F
          /\ lost' = lost \cup F \cup UNION {Owned(a) : a \in At({"check", "save", "copy"})}
    /\ abandoned' = abandoned \cup Live
    /\ drifted' = drifted \cup {op[a].on : a \in At({"mark"})}
    /\ UNCHANGED <<look, asset, exec, ops, raced>>

Step(a) ==
    \/ EditSave(a) \/ EditMark(a) \/ EnrichSave(a)
    \/ Submit(a) \/ Download(a) \/ CheckRendered(a) \/ Reuse(a) \/ SaveRendered(a)
    \/ Copy(a) \/ SaveUploaded(a) \/ PinSave(a)

Fail(a) == EditFail(a) \/ CharacterFail(a) \/ EnvironmentFail(a) \/ RegisterFail(a) \/ GiveUp(a)

Next ==
    \/ Import \/ Decide \/ Unpin \/ Crash
    \/ \E a \in Actors :
          \/ EditCharacter(a) \/ EditEnvironment(a) \/ Enrich(a)
          \/ GenerateCharacter(a) \/ GenerateEnvironment(a) \/ Register(a) \/ Pin(a)
          \/ Step(a) \/ Fail(a)

Spec == Init /\ [][Next]_vars

-----------------------------------------------------------------------------
(* Properties *)

Marking(s) == \E a \in Actors : op[a].pc = "mark" /\ op[a].on = s

\* A generated image that counts as current shows its subject as it is
\* described now, unless someone is about to mark it, or the look was replaced
\* in one of the ways that mark nothing (drifted); an edit repairs that.
GeneratedMatches ==
    \A i \in Present : asset[i].by = "generated" /\ ~asset[i].stale =>
        \/ asset[i].fp = look[asset[i].of]
        \/ asset[i].of \in drifted
        \/ Marking(asset[i].of)

\* A character has an image twice only if two requests brought it at a time.
NoDuplicates ==
    \A i, j \in Present : /\ asset[i].of = asset[j].of /\ asset[i].of # Environment
                          /\ asset[i].image = asset[j].image /\ i # j
                          => i \in raced \/ j \in raced

\* Every image has its file, and every other file belongs to a request that is
\* running, or was left behind.
FilesAccounted ==
    /\ Present \subseteq files
    /\ files \ Present \subseteq lost \cup UNION {Owned(a) : a \in Busy}

\* A successful execution names an image of its own character.
SucceededHasAsset ==
    \A r \in Runs : exec[r].st = "succeeded" =>
        exec[r].out \in Present /\ asset[exec[r].out].of = exec[r].of

\* An execution that is not over is someone's, unless it was abandoned.
LiveHasOwner ==
    \A r \in Live : r \in abandoned \/ \E a \in Actors : op[a].run = r

Drawings == INSTANCE DrawingRun WITH
                run   <- [r \in Runs |-> [st |-> exec[r].st, of |-> exec[r].of, out |-> exec[r].out]],
                image <- [i \in Assets |-> [of |-> asset[i].of, image |-> asset[i].image]]

\* However requests overlap, fail or die, an execution ends at most once, and
\* succeeds in the transaction that keeps its image, or with an image its own
\* character has; no image is ever lost, changed or given to another subject.
DrawingSpec == Drawings!Spec

\* A pinned image of a character that is chosen stays so until someone decides otherwise:
\* no new image, edit, reimport or enrichment displaces it, except, if it was
\* generated, a marking when its subject no longer looks like that (or an edit
\* that was overtaken by another marks for a look that is no longer the one).
PinHolds ==
    [][\A s \in Characters : \A i \in Selected(s) : asset[i].pinned =>
          \/ i \in Selected(s)'
          \/ asset'[i].status # asset[i].status \/ ~asset'[i].pinned
          \/ /\ asset[i].by = "generated"
             /\ \/ asset[i].fp # look'[s]
                \/ \E a \in Actors : /\ op[a].pc = "mark" /\ op[a].on = s
                                      /\ op[a].seen[s] # look[s]]_vars

=============================================================================
