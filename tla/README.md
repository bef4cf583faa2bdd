# TLA+ models of the local AI film director

This directory specifies the stateful core of the program under `src/src/film_director/`
(line numbers below are into those files): a single-host service that imports a story,
plans shots with a language model, and renders every shot through ComfyUI by way of a
durable SQLite queue. The specifications are checked with TLC on small instances; the
theorems in `*_proofs.tla` and `H3Parameters` are checked with TLAPS for all values of the constants.

1. [Inventory](#1-inventory-of-the-system) - 2. [Modules](#2-modules-and-how-they-follow-the-code) -
3. [Runs](#3-what-is-model-checked) - 4. [Proofs](#4-what-is-proved) -
5. [Findings](#5-findings) - 6. [What is left out](#6-abstractions-and-what-is-left-out) - 7. [Plan](#7-plan)

## 1. Inventory of the system

One process (the FastAPI server) handles requests in a thread pool and runs an *embedded
worker* in a daemon thread. `queue_runner` is a second kind of process. They share one SQLite
database, one storage directory and one ComfyUI server. Python's `sqlite3` opens a
transaction at the first *write* of a connection, so what a handler reads before its first
write, on the same connection or an earlier one, may be stale when it writes.

| Component | State | Operations | Interacts with | Hard behaviours | Correct when |
|---|---|---|---|---|---|
| **Queue worker** `generation/queue_worker.py`, `queue_runner.py`, `main.py` | claimed jobs, thread pool, worker lock file, stop flag | recover, claim, execute, finalize, poll, start, stop | queue table, GenerationService (callback), ComfyUI | crash at any point, timeout that races completion, two processes, pool threads that share a callback | at most one submission per job; job, request and take end together; a job that ended stays ended; every job ends |
| **Generation pipeline** `generation/generation_service.py`, `media_utils.py` | generation_requests, takes, final directories | generate_take, finalize_from_result | worker, ComfyUI, continuity, references | files moved before the transaction, failing cleanup, error handlers that fail | no take without media, no succeeded job without its take |
| **ComfyUI adapter** `generation/comfyui_adapter.py` | an HTTP client, a socket per wait | submit, monitor, check_prompt_status, get_result, download | ComfyUI, recovery | lost answers, event sent before the socket opens, two requests for one answer | a live prompt is never taken for lost |
| **Queue service and API** `generation/queue_service.py`, `queue_models.py`, `api/routes.py` | queue_batches, generation_queue | enqueue shot or scene, /generate, cancel | worker (rows), UI | retries and overlapping requests under one key, check before write, cancel against claim | take numbers dense, batches whole, one answer per key |
| **Take review** `services/take_service.py` | takes.status, favorite, one approved take per shot | approve, reject, favorite, replace_approved | continuity | two reviewers; invalidation of later shots | at most one approved take per shot; replacing it leaves no later state built on the old one current |
| **Continuity chain** `continuity/*.py` | continuity_states (current or invalidated, revision) | resolve, persist, rebuild, invalidate | take review, generation | resolve, minutes of rendering and persist are apart; order of shots changes | a current state names the approved take of the present predecessor |
| **Reference assets** `services/reference_*.py`, `generation/reference_generator.py`, `h3_reference_resolver.py` | status, source state, pinned; executions; image files | upload, generate, approve, reject, archive, pin, stale, select | planning (appearance edits, enrichment), import, generation | an appearance edited while its image renders; duplicate check before insert; a crash between file and row | a current generated asset has today's fingerprint; no image twice; files and executions have an owner; a pin holds |
| **Conditioning and packs** `generation/conditioning.py` | capability states, in memory and in SQLite | register, transition, probe | nothing: no part of the program calls it | stale persisted state against a new fingerprint | no production run of an unverified profile |
| **Wind Comic import** `services/import_service.py`, `adapters/wind_comic.py` | provenance, source facts | import, check, apply changes | planning | overlapping imports; source read before the transaction | reimport converges on the source, keeps identities |
| **Enrichment and planning** `services/enrichment_service.py`, `enrichment/*.py` | beats, shots, plans with current / outdated marks | enrich, replan, re-enrich, coverage, edit, stale cascade | LLM, import, takes | LLM calls of minutes between read and write; human edits meanwhile | one current plan; no current plan below an outdated beat; a shot with a take and a human edit survive |
| **Parameters and workflows** `generation/parameter_resolver.py`, `workflow_registry.py`, `h3_*.py` | none (a prompt is kept in `h3_prompts`) | seeds, frame grid, injections, slots, prompt | generation | rounding at the ends of ranges, a kept prompt against new images | frames on the grid and in range; a slot for each image; the prompt names the pictures that are sent |
| **Preproduction** `services/preproduction_service.py` | none | a sequence of the above | all | - | - |
| **Scene assembly** `services/scene_assembly.py` | manifest, file | ffmpeg | takes | - | only approved takes |
| **Activity, cleanup, LLM providers, UI, config** | a status record | HTTP calls | - | - | - |

`PROJECT.json` lists the hazards of each at the line where they bite.

## 2. Modules and how they follow the code

| Module | Models |
|---|---|
| `JobLifecycle` | the abstract promise about one queue row: the state machine of `queue_models.py:80-83`, and that a take appears in the step that makes its job succeeded |
| `EnqueueLedger` | the abstract promise of enqueueing under a key: entered once, in one instant, with the next numbers of its shots; every answer is the entry |
| `SceneReview` | the abstract promise of reviewing the takes of a scene: single decisions, each exchange with the outdating of the later shots |
| `DrawingRun` | the abstract promise of drawing an image: an execution ends once, and succeeds in the step that keeps its image |
| `QueueWorker` | the worker processes, their threads, recovery, ComfyUI, crashes (implements `JobLifecycle` through `Lifecycle == INSTANCE ...`) |
| `QueueWorker_proofs` | its theorems about types and submissions |
| `Finalization_proofs` | its theorems about who holds a job and how it ends, and that it implements `JobLifecycle` |
| `GenQueue` | the API side of the same table: enqueue, /generate, cancel, retries, with the worker reduced to the claim and the end of a job (implements `EnqueueLedger` through `Ledger`) |
| `GenQueue_proofs` | its theorems |
| `Continuity` | the review of takes and the continuity chain of one scene, under generations, rebuilds, reviews and reorderings (implements `SceneReview` through `Review`) |
| `Continuity_proofs` | its theorems |
| `Planning` | beats, shots and plans under enrichment, replanning, coverage, strategies, human edits, source changes, and shots created and deleted |
| `Planning_proofs` | its theorems |
| `References` | descriptions, the images drawn from them, their executions and files, under edits, reimports, enrichment, generation, uploads, reviews, pins and crashes (implements `DrawingRun` through `Drawings`) |
| `References_proofs` | its theorems |
| `H3Parameters` | frame grid, workflows and their slots, pictures named by a prompt: operators and theorems about them |
| `MCQueueWorker`, `MCGenQueue`, `MCContinuity`, `MCPlanning`, `MCReferences` | values for `Rank`, `ShotsOf`, `Of`, `Orders`, the symmetry sets |

**QueueWorker.** One action is one database transaction, one ComfyUI call or one step on the staging
and final directories, which processes share; a crash or another process can come between any two.

| Model | Code |
|---|---|
| `job` | `generation_queue`: status, attempt_count, take_id |
| `req` | `generation_requests`: status, and whether comfyui_prompt_id is set |
| `takes` | rows of `takes` |
| `staged`, `dirs`, `media` | the staging directory of a job (none, empty, with the video); its final directory; whether the video is in it |
| `shared` | history: jobs whose directories two executions worked in at once |
| `prompt`, `submits` | what ComfyUI knows of the prompt of a job; how many it accepted (history) |
| `main[p]` | the loop of a process: `list` `recover` `inspect` `queue` `fetch` `download` ... `commit` `tidy` `fail` (the recovery pass), `claim` `wait` (a round), `idle`, `down`; `made` are the directories its variables name |
| `thread[t]` | `_execute_job` and the `generate_take` it calls: `install` ... `restore`, with the pending exception in `err`, the callback found in `saved` and the directories its handler removes in `made` |
| `callback[p]` | `GenerationService._finalize_callback`, one attribute per process |
| `lock` | the worker lock of `queue_runner.py` |

The straight path of a thread is `InstallCallback` - `CreateRequest` - `Submit` - `RecordPrompt` -
`MarkRunning` - `MonitorSucceeds` - `FetchResult` - `Download` - `VerifyMedia` - `CheckFinal` - `MakeFinal` -
`MoveToFinal` - `Commit` - `EmptyStaging`, `Tidy` - `RestoreCallback`. Each step has its failing twin: a failed transaction
goes through `RemoveFinal` and `UndoRequest`, the rest throws to `abort` and `report`, the handler of
`generate_take` (`AbortRequest`, `CleanStaging`, `CleanFinal`) and then that of `_execute_job` (`ReportFailure`).
The recovery matrix of `_recover_one` is `RecoverWithoutPrompt` (states 2, 3, 12), `RecoverSucceededRequest` (8 to
10) and, for a request with a prompt id (4 to 7, 12b), `AskHistory`, `AskQueue` and the steps of
`finalize_from_result`: `RecoverFetch` to `RecoverTidy`, or `RecoverCleanStaging`, `RecoverCleanFinal`, `RecoverFail`.

Nothing in the file system excludes anybody. The staging directory is named by the request and taken if it is there;
`make_final_dir` looks, and then makes the directory with `exist_ok=True`; `move_to_final` moves what it finds. So two
executions of one job can be in the same directories, and the handler of either removes them. `shared` is set where the second of
them comes in (`CreateStaging`).

A pass lists the claimed jobs once and does not read a job again, as the code does.

**GenQueue.** A request is a record that walks through the reads of its handler: `seed`
(the first read of the batch), `key` (the second), `write` (the transaction, in which the
highest take number is read under the write lock), or `cancel` (between the read and the
write of `cancel_job`). `answers` is a history of the job sets that were answered for a key.
`Drop` ends a request at any point; the client may repeat it with the same key.

**Continuity.** An actor is a worker thread or a request. Every read on a connection that has not
written yet is a step; the writes of a transaction, with their `WHERE` clauses and the
unique index, are one step.

| Model | Code |
|---|---|
| `order` | the shots of the scene that are not outdated, as `get_scene_shot_order` sorts them |
| `take` | `takes.status` |
| `cs` | `continuity_states`: state, upstream take, revision |
| `op[a]` | the local variables of the handler: `shot`, `pred` (predecessor id), `take` (upstream take, or the take under review), `old` (take to be replaced), `rev` (expected revision) |
| `raced` | history: shots an operation was at work on when the take it held was replaced, and shots whose predecessor changed |

| Handler | Steps |
|---|---|
| `generate_take` (`resolve_for_generation`, `persist_state`, commit of the take) | `Generate` - `ReadTake` - `ReadState` - `CheckState` - `SaveState` - `Deliver` |
| `rebuild_for_shot` | `Rebuild` - `ReadTake` - `ReadPredState` - `ReadOwnState` - `CreateState` or `CasState` |
| `approve`, `reject`, `replace_approved` | `Approve` - `ApproveWrite`, `Reject` - `RejectWrite`, `Replace` - `ReplaceWrite` |
| create, delete, reorder or outdate shots | `Rearrange` |
| any failure | `GiveUp` |

`QueueWorker` and `Continuity` meet in `Deliver`: the take that a queue job commits there is the
take that is reviewed here. What else a job does has no effect on the chain.

**Planning.** An actor is a request. What a handler reads, on whatever connections, is one
step; the language model answers, or not (`GiveUp`), at any later time; what it writes is one
transaction, which does not look again, with one exception: `replan_project` reads the beats when it writes, and
when it has no shot to outdate, it reads those of the first scenes before that write begins its transaction (`ReplanRead`, one scene
at a time). In between any other request may commit. `late` of an operation says that
one did, and `raced` (history) collects the shots that such an overtaken operation wrote.

| Model | Code |
|---|---|
| `beat`, `shot`, `plan` | the rows of `beats`, `shots`, `generation_plans`: status, parent, writer, version |
| `takes` | shots that have a take (`TakeAppears`: a generation ends) |
| `planner` | whether a `ShotPlanner` is configured, which chooses the direct or the legacy path |
| `op[a]` | the local variables of a handler: the beats, the shots with their versions, the plans and (a replan) the scenes it read |

| Handler | Steps |
|---|---|
| `enrich_project` | `Enrich` - `EnrichDirect`, or `EnrichLegacy`, or `EnrichFill` for shots without a plan |
| `replan_project` | `Replan` - `ReplanRead` ... - `ReplanWrite` |
| `enrich_scene_beats`, `plan_beat_coverage`, `assign_strategies` | `ReEnrich`, `Coverage`, `Assign` and their `...Write` |
| `edit_beat`, `edit_shot`, `delete_shot` | `EditBeat`, `EditShot`, `Delete` and their `...Write` |
| `create_shot` | `CreateShot` - `CreateShotRow` - `CreatePlan`, three transactions |
| `apply_source_changes` with the cascade of `StalePropagator` | `ApplyChanges`, one transaction |

Rows get numbers in order, so that the model does not tell apart which free id a row was given;
the code draws random ids. Reads and writes name rows through the operators of the repositories
(`CurrentBeats`, `CurrentShotsOf`, `Live`, `CurrentPlans`, `Fetched`, `Saved...`).
`get_current_plan_by_shot` fetches one row, so `Fetched` is any set with one plan for each shot that has some:
this is why a second current plan would survive a cascade.

**References.** A step is one transaction or one change in the storage directory.

| Model | Code |
|---|---|
| `look` | `characters.appearance`; `environment_description` in the director context. `None` is blank; a value in `Thin` is too short for a character to count as described |
| `asset` | `reference_assets`: owner, source, fingerprint, image (its SHA-256), status, source state, pinned |
| `exec` | `reference_generation_executions` |
| `files` | `references/<project>/<asset id>/` |
| `drifted` | history: subjects whose description was replaced by a path that marks nothing |
| `raced`, `lost`, `abandoned` | history: images saved after another request saved one unseen; files and executions that a failure or a crash left behind |

| Handler | Steps |
|---|---|
| `edit_character`, `edit_environment_description` | `EditCharacter` or `EditEnvironment` - `EditSave` - `EditMark` |
| `import_project` | `Import` |
| `enrich_characters` in `enrich_project` | `Enrich` - `EnrichSave` |
| `generate_character_reference`, `generate_environment_reference` | `GenerateCharacter` or `GenerateEnvironment` - `Submit` - `Download` - `CheckRendered` - `SaveRendered` or `Reuse`; `CharacterFail`, `EnvironmentFail` |
| `_ingest_from_file` | `Register` - `Copy` - `SaveUploaded`; `RegisterFail` |
| `approve`, `reject`, `archive`; `pin`, `unpin` | `Decide`; `Pin` - `PinSave`, `Unpin` |
| the process dies | `Crash` |

The two modules share the characters only: an enrichment of `Planning` is the one of `References`, which
models the other half of its transaction. No row of one is read by the other.

**H3Parameters** has no state. `GridFrames` is `_seconds_to_grid_frames` of `r = round(seconds * 24)`, `Workflow` the
three branches of `generate_take` that choose a workflow, `Bindings` and `Picture` the images each of them
sends and their places, `Named` what the prompt built there says of them.

## 3. What is model-checked

| Run | Instance | Question | Result |
|---|---|---|---|
| `worker` | one API server, one thread, two jobs, 2 faults | `TypeOK`, `AtMostOneSubmission`, `AtomicFinalization`, `LivePromptKeepsJob`, `LifecycleSpec` (refinement), `EveryJobEnds` (liveness) | holds |
| `fleet` | one API server and two runners, one job, 2 faults | `AtMostOneSubmission`, `SucceededHasTake`, `MediaKept`, `RunnersExclusive` | holds |
| `queue` | two requests at a time, two shots and their scene, one client key and one UI key, 1 or 2 takes, two seeds | `TypeOK`, `NumbersDense`, `BatchWhole`, `OneAnswer`, `LedgerSpec` (refinement) | holds |
| `continuity` | a scene of three shots in two arrangements, two takes of the first shot and one of the second, two actors | `TypeOK`, `OneApproved`, `CurrentUnlessRaced`, `ApprovalKept`, `ReviewFinal`, `ReviewSpec` (refinement) | holds |
| `planning` | one scene, two beats, two shots, two plans, two actors, answers of one row, four transactions | `TypeOK`, `OneCurrentPlan`, `CascadeComplete`, `TakenShotsStay`, `ReplacedIsFinal`, `ReplanReplaces`, `WorkIsKept` | holds |
| `references` | one character and the environment, two descriptions (one thin), two image contents, two assets, two executions, two actors, four operations | `TypeOK`, `GeneratedMatches`, `NoDuplicates`, `FilesAccounted`, `SucceededHasAsset`, `LiveHasOwner`, `PinHolds`, `DrawingSpec` (refinement) | holds |
| `closed_client` | as `worker`, one job, no fault, the client the adapter makes | `LivePromptKeepsJob` | violated |
| `pool_callback` | one API server, two threads, two jobs, no fault | `AtomicFinalization` | violated |
| `two_workers` | one API server and one runner, one job, no fault | `LifecycleSpec` | violated |
| `dup_generate` | two requests, one shot | `DuplicateProtection` | violated |
| `cancel_race` | two requests and a worker, one shot | `CancelledNeverRan` | violated |
| `late_persist` | as `continuity`, one arrangement | `CurrentIsApproved` | violated |

What the properties say is in the comments above them. Each property of a passing run has a
*mutant*: a definition of the module (`Claimable_Reclaim`, `Finalized_Later`, ...) that
changes one operator as a plausible bug would, under which TLC finds the property violated.

**Bounds.** `MaxFaults` counts crashes, lost or refused ComfyUI calls, ComfyUI restarts and
transient disk or database errors. Two allow every pair: an answer lost and then a crash in the recovery
of it, a failing transaction and a failing handler, a crash and a ComfyUI restart. Two jobs are the
fewest with which a callback, a request or a take can be another job's; one job suffices for
the question of who may work on it, which needs more processes instead (`fleet`: two
runners, so that the lock is contended, and the worker that ignores it). `MaxTakes` bounds
the take numbers of a shot; 2 lets a request of two fill it and two requests of one meet
behind each other. `queue` uses symmetry in clients, keys and seeds; it checks
safety only, of which no part compares them. `CHECK_DEADLOCK FALSE` in the `GenQueue` runs: take numbers run out there,
while a real queue goes on. The `QueueWorker` runs check deadlock.
`continuity` needs two takes of the first shot (to replace one), one of the second (so that the
third has a chain behind it), and two actors: one to hold a take and one to replace it. The two
arrangements drop the third shot and swap the first two. Revisions stay small since a rebuild needs a
replacement before it, and takes run out: this is also why deadlock is not checked there. Actors are symmetric.

`planning` has two beats and two shots so that an old and a new plan of a scene can stand side by side, two plans so that a
shot can have two, and four transactions: one that plans, two that overlap, one that sees what they left.
`MaxVersion` bounds the edits of a shot, `MaxNew` the rows of an answer; rows are never removed, so tables
fill up and deadlock is not checked. `references` has four operations: one to have an image,
one that changes what it shows, and two that overlap on it. Two files of one image are enough for a duplicate,
and the second asset is that of another request. Assets, executions and actors are symmetric: no step compares
them. Deadlock is not checked there either: `MaxOps` ends the behaviours. Both runs check safety
only; nothing in either component is bound to happen, since every operation is a
request of a user that may fail. The proofs of section 4 show the same properties without these bounds.

**The abstract specifications.** Each maps the tables and forgets the requests: `JobLifecycle` sees `job` and `takes`,
`EnqueueLedger` the key of each row of the queue and the answers given, `SceneReview` the status of the takes and state and take of
each continuity row, `DrawingRun` the status, owner and result of executions and the owner and content of images. Where the code
reads, waits, fails or is refused, the abstract one stutters; where a step of the code shows, it is one of its actions. So a refinement
says that requests which overlap leave what some order of single decisions would leave, and it is broken by any write that does half of a
decision, which an invariant about states may not notice (`ReviewSpec`: a replacement that outdates the shots after the next one only). What
the overlap does break is left to the mapping to forget: the revision of a continuity state, and that the take a state names is
still approved (finding 6), which `Provide` does not promise.

**The histories.** `SucceededHasTake` and `MediaKept` except the jobs in `shared`, `OneCurrentPlan` and `CascadeComplete` the shots
in `raced`, `GeneratedMatches` the subjects in `drifted`, and so on. An exception is a behaviour the code has (two requests that overlap, a reimport
that drops a description) and no more: each history grows only in the actions that show it, and
the properties claim that nothing else ever breaks the rule. They do not catch what they except: section 5 lists these
behaviours, `PROJECT.json` has them as hazards with no property, and the theorems called `Alone...`, and `LockKeepsMedia`, say
under which condition there is nothing to except.

**Constant `InjectedClient`.** TRUE is the adapter with a client handed to it, as all tests
build it; FALSE is the adapter that makes its own, as the program does. The passing runs use TRUE, since
FALSE breaks `LivePromptKeepsJob` (finding 1). The theorems hold for both.

**Fairness** (`Fairness` of `QueueWorker`). A started process is scheduled (weak fairness of
its loop and of each thread: they are OS threads that never block on each other, and each
wait has a deadline); the API server is restarted after a crash
(weak fairness of `Start` for `Embedded`, not for runners); ComfyUI works its queue.
Nothing is assumed of enqueues, faults, stops or runners starting. `EveryJobEnds` needs the restart: a
crash leaves jobs claimed, and only a later recovery pass ends them. Faults are finitely many by
`MaxFaults`; under an endless outage of ComfyUI a claimed job rightly stays claimed.

## 4. What is proved

`QueueWorker_proofs`, from the assumptions on the constants and nothing else, so for
any sets of jobs, processes and slots, any number of faults and either client:

* **`TypesHold`**: `Spec => []TypeOK`. `TypeOK` alone is not inductive: a thread writes
  `job[thread[t].job]`, and `thread[t].job` may be `None` by type. `TypeInv` adds `HoldersOK`:
  a thread past `free` and `done`, and a main loop between `inspect` and `fail`, holds a job. The
  proof has a lemma per action group (`MainStepTypeInv`, `ThreadStepTypeInv`), and lemmas for
  the ways the code writes state (`SetJobType`, `FinalizedType`, `MovesType`, ...).
* **`SubmittedAtMostOnce`**: `Spec => []AtMostOneSubmission`. A submit looks at no history,
  so the invariant has to say why no second thread can come to it. `OnceInv`: a job that is
  absent or pending has no submission and no thread; a thread that has still to submit holds
  a job without submissions; no two threads, of any processes, hold one job. It is
  preserved because nothing puts a job back to pending (`SetJobKeeps`, `FinalizedKeeps`),
  only a claim hands a job to a thread, and a claim takes it out of pending in the same
  transaction. Most steps are settled by one lemma, `QuietStep`; `SubmitOnce` and the claim
  have proofs of their own. Recovery and other processes may meanwhile change the status of
  a claimed job as they like (they do, see finding 3): this is why the property survives
  two unsynchronised workers when the state machine of the job does not.

`Finalization_proofs`, from the same assumptions (that a process is either embedded or a runner among them), for any number of
jobs and faults. Two conditions are hypotheses of theorems, not assumptions of the model, because the code
misbehaves without them: `OneSlot` (`queue_worker_concurrency` is 1, the default; finding 2) and `OneWorker`
(the embedded worker or any number of runners, not both; finding 3).

* **`LockExcludes`**: `RunnersExclusive`. `PhaseInv`: a process recovers or runs jobs, never both at a time; a
  runner that is up holds the lock. With `OnceInv` (no two threads hold one job) no other holder is left.
* **`SuccessIsReal`**: `SucceededHasTake`, under `OneSlot` and with any mix of processes: the callback installed is that of
  the only thread (`CallbackOK`), so a job succeeds with its own take. That it has its media too is `MediaInv`, next.
* **`MediaStays`**: `MediaKept`, under neither. The directories are no lock, so this speaks of the jobs outside `shared`
  and says that nothing else makes a take lose its media: no failure, crash, stale recovery, or thread with the wrong callback. `MediaInv`:
  of the jobs outside `shared`, one execution at most is in the directories (`Apart`); who makes, holds or fills the
  final directory has no take yet, and who is about to commit has moved the video there (`UsersOK`); so the handler that removes
  a directory never finds a take's in it (`DisksOK`). And whichever callback is called, a job becomes succeeded only with
  a take that is there (`JobsShow`): with several threads it can be the wrong one (finding 2), never one that does not exist.
* **`LockKeepsMedia`**: under `OneWorker`, with any number of threads, `shared` stays empty and every take has its
  media: here it is the worker lock (`PhaseInv`), not the file system, that keeps executions apart.
* **`EndsTogether`**: `AtomicFinalization`, under both. `SoleInv` says that what a pass has listed, and what a thread runs, is still
  claimed: nobody else is at work (`RunAlone`, `RecoverAlone`). `NextWrites` then leaves six ways to write the
  tables (`Added`, `Begun`, `Noted`, `GivenUp`, `Delivered`, or not at all).
* **`ImplementsLifecycle`**: `Spec => LifecycleSpec`: each of those six ways is a step of `JobLifecycle` or a stutter.
* **`OnlyTimeoutsGiveUp`**, under both and with either client: before the first fault, a job is failed while ComfyUI
  still has its prompt only by a recovery after a monitoring timeout that could not see the queue, which is finding 1 and nothing
  else; with an injected client never, which is `LivePromptKeepsJob`. `Calm`: before the first fault every claimed job without a
  thread timed out with a recorded prompt, and whoever is about to give a job up has an answer of ComfyUI, or comes after a timeout.

`GenQueue_proofs`, from the assumptions on the constants, for any clients, keys, shots, scopes and counts: **every property of the run**.

* The invariant adds to the properties that a job which is cancelled, or run, exists, that a seed was drawn before the
  batch is written (`ClientsOK`, `RunningOK`), that the take numbers of a shot are those up to the highest (`Dense`), and that
  a batch is `Whole`: its jobs of a shot are as many consecutive numbers as were asked for, and an unwritten batch has no jobs and no answers.
* `WriteKeeps` is the core: numbers above the highest extend a dense set and are in no other batch, and a key whose
  batch exists is never written again.
* **`NumbersAreDense`**, **`BatchesAreWhole`**, **`AnswersAgree`** and **`TypeCorrect`** follow.
* **`ImplementsLedger`**: `Spec => LedgerSpec`. `KeptOrWritten` reduces each step to three: no row gets another key, a request is told the
  rows of its key (`Told`), or a batch is written. Of the last, `WriteEnters` shows that the numbers written are those the ledger
  gives: since the numbers of a shot are dense, the highest is the last.
* **`AloneIsProtected`**: `DuplicateProtection` (finding 4), if no two requests are handled at a time, whatever the worker and
  earlier cancellations do. `OneActive` is what the check of `/generate` sees; `Checked` says that it still holds when
  the batch is written, since no step but a request makes a job active again (`NoneWakes`).

`Continuity_proofs`, from `OfAssumption` (each take row belongs to a shot) and `OrdersAssumption` (an
arrangement is a sequence of shots), for any scene, any takes and any number of actors:

* **`SingleApproval`**, **`ApprovalIsKept`**, **`FinalStaysFinal`**: `OneApproved`, `ApprovalKept`,
  `ReviewFinal`. `StepMoves` reduces every step to one of five moves of the review state machine (nothing,
  insert, first approval, rejection, replacement); the three properties are then lemmas about moves.
  `MoveKeepsApproval` is where both updates of `replace_approved` have to succeed or none.
* **`ChainCurrent`**: `CurrentUnlessRaced`. It is not inductive, because what is written was read
  before. `OpsOK` says what an operation knows meanwhile: as long as its shot is not in `raced`, its
  predecessor is still the one before and its upstream take still approved. The core is
  `LostApproval` (a take loses its approval only by `ReplaceWrite`, which puts every holder into
  `raced` and outdates every state after its shot) and `BeforeAfter` (the predecessor of a shot is
  one of those whose downstream contains it).
* **`TypeCorrect`**: `TypeOK`, together with `OpsOK`, which says which fields an operation has filled.
* **`ImplementsReview`**: `Spec => ReviewSpec`. `Known` adds that the take an operation holds was approved when it was read, and so
  is approved or superseded ever after: that is what `Provide` asks for. `ReplaceReviews`, `SaveProvides` and `TakeReviews` are the
  steps that show; all others stutter.
* **`AloneIsCurrent`**: `CurrentIsApproved` (finding 6), if operations run one at a time and the scene keeps one arrangement: then
  nothing is ever put into `raced` (`StepUnraced`), and `CurrentUnlessRaced` speaks of every shot. The finding needs overlap.

`Planning_proofs`, from the assumptions on the constants (rows are numbers, `None` is no row, bounds are numbers), for
any scenes, rows, bounds and number of actors: **every property of the run**.

* The invariant is `Base /\ PlansOK /\ TakenShotsStay`. `Base` has what the code relies on
  without a foreign key or a second look: no row refers to an absent one (`RefsOK`), no operation does
  (`OpRefsOK`), and what an operation has read is still so if nothing overtook it (`SnapsOK`).
  `PlansOK` says of every shot outside `raced` that it is `Good`: at most one current plan, no plan above the
  version of the shot, and a current plan only if the shot and its beat are current. The
  version bound is needed because a cascade looks a plan up by the version of the shot.
* `PlansAreUnique`, `CascadeReachesPlans`, `TakesKeepTheirShot` and `TypeCorrect` follow from it. Every write
  is first reduced to what becomes of each row (the `...Does` lemmas); `CommitRefs`, `CommitSnap` and `CommitGood`
  then take the parts of the invariant one at a time.
* `ReplacedStayReplaced`, `ReplanReplacesAll` and `WorkIsSafe` are action properties: the
  invariant, and `SnapsOK` above all, holds before the step, and `EndsCommit` finds the one transaction the step ends.
  `ReplanReplaces` allows a shot of before to stay only if the replan had found no shots, was overtaken, and had read the scene
  of the shot before its beat was there. `WorkIsKept` is the full list of the requests that withdraw shots with takes,
  human shots and human beats; it does not say that none are lost (section 5).
* **`AloneNeverAppends`**: if requests come one at a time, neither an enrichment nor a replan leaves a shot of before
  beside its own. The enrichment looked at an empty project, and it stays empty (`Empty`), since a source change adds no shot.
* **`AloneHasOnePlan`**: if requests come one at a time, every shot has at most one current plan (`PlansUnique`), so
  the exception `raced` of `OneCurrentPlan` is due to overlapping requests only. `SnapsOK` is of no use here:
  the source may change while a request waits, and then it counts as overtaken. The invariant is `Settled`: every shot is
  `Single` (no plan above its version, one current plan at most), and the versions and plans a request has read are
  the ones there (`Held`), or there are fewer plans now, since a source change takes plans away and raises no version.

`References_proofs`, from the assumptions on the constants, for any characters, descriptions, images and number of
actors and operations: **every property of the run**.

* The invariant adds to the properties what the operations know: `OpsOK` and `Distinct` (two operations
  share neither an execution nor a file, since ids are drawn anew), `LookedAll` (who has found
  no copy of an image, and was not overtaken by a save, still finds none), `Drawn` (an image has a fingerprint of a description that
  was one) and `FollowedAll` (what `GeneratedMatches` says, and the same of the image a request is still rendering and of the
  mark an edit has yet to make).
* `GeneratedImagesMatch`, `ImagesAreUnique` (of characters: the environment has no duplicate check), `FilesAreAccounted` (the part
  of an image that a failed or interrupted download leaves included), `SuccessHasImage`, `LiveRunsAreOwned` and `TypeCorrect` follow. `PinsHold` is an action property: each way to displace a pinned image is one action.
* **`ImplementsDrawing`**: `Spec => DrawingSpec`. `RunsAt` says at which status the execution of a request is at each of its steps
  (`RunAt`), so that what is written is a step of that execution and never revives one; with `Distinct` no other request writes it.
* **`AloneIsUnique`**: if requests come one at a time, a character never has one image twice (`NeverTwice`): `raced`
  stays empty (`NoneLate`), and `NoDuplicates` holds without its exception. Crashes and failures are allowed.

`H3Parameters`, for every number of frames and of characters:

* **`GridIsLeast`**: the frames asked for are the first number 5, 22, 39, ... that the shot fits in.
* **`AcceptedRange`**: what `resolve_duration` accepts is 108 to 362 frames, not 124 to 362.
* **`EveryImageHasASlot`**, **`EnvironmentTakesASlot`**: a chosen workflow has a slot for each image; approving an environment image
  stops exactly the continued shots of three or more characters.
* **`PicturesAreCharacters`**, **`KeptPrompt`**: a prompt that is built names one picture per character, never the
  environment or the frame; a prompt that was kept is right for new images exactly if neither the environment nor the
  frame came or went, or if there is one character and both workflows take pictures.

Only model-checked: `EveryJobEnds` (liveness is outside TLAPS's reach here). Every other property of the passing runs is
proved, those of `QueueWorker` that need it under `OneSlot` and `OneWorker`; `LivePromptKeepsJob` as a case of
`OnlyTimeoutsGiveUp`, which holds for the client of the program too.

## 5. Findings

1. **`closed_client`** (`comfyui_adapter.py:346`): `check_prompt_status` closes its client
   after `GET /history` and then uses it for `GET /queue`; recovery gets "unknown" for a
   prompt that is queued or running and fails its job, contrary to `docs/ARCHITECTURE.md:187`.
2. **`pool_callback`** (`queue_worker.py:143`): pool threads overwrite each other's callback; with
   a concurrency above 1 (it is 1 by default) a job can be finalized with another's take.
3. **`two_workers`** (`main.py:313`): the embedded worker takes no lock, so it "recovers" the
   jobs a runner is executing; they fail and then succeed.
4. **`dup_generate`** (`routes.py:752`): check, then enqueue, on two connections.
5. **`cancel_race`** (`queue_service.py:356`): cancel writes by id; a job claimed in between runs, and may succeed after it was cancelled.
6. **`late_persist`** (`continuity_service.py:310`): a generation reads the approved take of the shot
   before; `replace_approved` commits, with no state row of the shot to mark outdated; then
   the generation writes its row: current, with the superseded take. From then on
   `resolve_for_generation` (line 118) and `rebuild_for_shot` (line 216) both refuse the shot
   until an earlier take is replaced once more. The same can come from the unconditional
   upsert after the `SELECT` of the CAS (`repositories.py:1900`), and from a rebuild, whose
   CAS compares a revision that `mark_outdated` does not change.

Observed and not listed as a finding: a prompt that completes between `GET /history` and
`GET /queue` is in neither answer, and its job is failed. `AskHistory` and `AskQueue` are two steps,
so the model has this behaviour, which finding 1 hides in the program.

Behaviours that contradict what a document says, or would surprise its reader, and that no run shows as a violation; the properties
except or list them:

* With the embedded worker beside a runner (the situation of finding 3), the recovery of one and the execution of the other work in
  the same directories. One can remove the final directory of the take the other has committed (`media_utils.py:42-50`,
  `generation_service.py:561-564`, 647-651), or empty the staging directory before `move_to_final`, which then moves nothing and
  lets a take without media be committed (`media_utils.py:134-140`). `MediaKept` without `shared` is violated with one
  worker of each kind and no fault at all.
* Two enrichments that overlap both see an empty project and both write a full plan (`enrichment_service.py:132`), although
  `docs/ARCHITECTURE.md:76` says enrichment "Does NOT duplicate or append shots to an existing plan". Overlapping writes can
  also leave a shot with two current plans, and the cascade then marks the one it fetches. `AloneNeverAppends`
  and `AloneHasOnePlan`: only overlap does this.
* A replan that finds no shots reads the beats before its transaction begins (`enrichment_service.py:314-319`): what an enrichment
  or a `create_shot` commits in between stays current beside the new plan.
* Rule 4 at the top of `enrichment_service.py` (line 10) promises a `HumanEditConflictError` for human content without `force`.
  `replan_project` outdates human shots and beats without asking, `enrich_scene_beats` looks for human beats but not
  for human shots below the others. `plan_beat_coverage` and `enrich_scene_beats` outdate shots that have takes.
  `WorkIsKept` lists who withdraws what.
* `edit_beat` and `edit_shot` save the whole row they read: an edit that was overtaken makes a replaced row current again
  (`ReplacedIsFinal` excepts it). `edit_shot` saves version + 1 and then lets the cascade look the plan up
  by the new version, so the old plan is not marked (`stale_propagator.py:79`); no reader finds it either.
* `plan_beat_coverage` does not look at the status of the beat; the shots it creates get no plan until an enrichment fills them in.
* `import_project` builds the director context anew, without `environment_description`, and marks no image
  of the environment; the write-back of `enrich_project` marks no image either (`drifted`).
* A generated environment image has no duplicate check and no execution, and its file stays if its row
  cannot be saved (`reference_generator.py:638`). A download that fails or is interrupted leaves a part of the image
  (`comfyui_adapter.py:484-485`), which no handler removes (`lost`). No start of the server looks for executions that a crash left running.
* `generate_take` takes the first approved environment image, pinned or not (`generation_service.py:167-173`).
* A workflow states a shortest duration of 0.21 s, the resolver refuses what is shorter than 4.5 s (`AcceptedRange`).
* A prompt is looked up by the versions of shot and plan only (`generation_service.py:259`, 304, 388), and nothing
  marks one stale: after an environment image is approved, the second character of a shot is still
  `<Picture 2>`, which is now the environment (`KeptPrompt`).

## 6. Abstractions and what is left out

* A request and a take are named by the job whose execution made them (one at most each). The
  code finds the request of a job in recovery by shot, take number and seed; these determine
  the job as long as the numbers are dense, which `GenQueue` checks.
* Phase 1 of `generate_take` (plan, references, prompt, continuity, upload) is one step that
  succeeds or fails before a request exists.
* The video and `last_frame.png` are verified, extracted and moved together. `cleanup_dir` empties the staging directory and then removes
  it, or not, another process in between; it removes a final directory in one step that succeeds. `_release_idle_gpu` keeps no state.
* Database errors outside the transactions of a generation (a claim, a report, a mark of the recovery) are
  not modelled: they end the round, the job stays claimed, and the next pass
  finds it, as after a crash at that point.
* `claim_next` reads its row back by time stamp; two claims in one microsecond are left out.
* `PromptState`, `PromptStarts`, `PromptEnds`, `ComfyAccepts`, `ComfyRestarts` model ComfyUI,
  which is not in the repository, as the adapter uses it (external in the map).
* `GenQueue`: one project; priorities and overrides change no property and are left out; UI keys
  are fresh (uuid4); the numbers in `takes` never exceed those in the queue, whose rows are
  never deleted. The eligibility of a scene's shots is a free choice, as plans change concurrently.
* The worker in `GenQueue` and the absence of cancel in `QueueWorker` split one table
  between two modules: `QueueWorker` never sees a cancelled job, which no action of it
  would touch once cancelled; `cancel_race` shows the race in `GenQueue`, where both writes are.
* `Continuity`: one scene. The upstream take determines the predecessor and the frame hash that a
  state also stores. Files of takes do not change after delivery; a missing or invalid one is a `GiveUp`. State
  `unresolved` is declared by the model class and written by no code. A take is inserted as
  succeeded. The favorite flag is left out. Which shots are eligible for generation is a free
  choice. `Rearrange` may change the order at any time to any of `Orders`: it stands for every
  handler that creates, deletes, renumbers or outdates shots and beats.
* `Planning`: one project. What a beat, shot or plan says is left out, with the validation of the language model's answer,
  which accepts it or is a `GiveUp`. Scenes do not change; `ApplyChanges` marks any set of scenes and source shots. The
  order of shots is in `Continuity`. A take appears for any current shot: its generation is in `QueueWorker`.
* `References`: one project and one kind of image per character, as every query has the kind as a
  key. Fingerprints and hashes are injective. The monitoring of a prompt is in `QueueWorker`; here it succeeds or fails.
  `ingest_wc_reference` has no caller. A failing removal of a file is left out.
* `Import` covers what a reimport does to descriptions and images; the upsert of scenes and source shots, `check_for_changes`, whose
  marks no code reads, and the foreign database are left out.
* `H3Parameters`: `round(seconds * 24)` is given as a number, so floating point is left out. The strategy of a plan, which stops
  a first shot without environment unless it is `REFERENCE_TO_VIDEO`, is taken to be that. Seeds are hashes masked to 63 bits.
* **Not modelled**: `generation/conditioning.py` (capability registry, visual packs, Ideogram provider): no part of
  the program imports it, only tests do, so there is no caller whose steps could interleave. Reading it, two things do not agree with its comments: registering
  a changed profile again in the same process keeps the state `APPROVED`, and a failed write of a state is swallowed.
  Scene assembly (one ffmpeg call), activity and resource cleanup (a record behind a lock, best-effort calls), language model
  providers (stateless clients), configuration and UI, preproduction (a fixed sequence of calls of the other components).

## 7. Plan

Done, in this order: `QueueWorker` with `JobLifecycle`, `GenQueue`, `Continuity`, `Planning`, `References`,
`H3Parameters`, and the proofs of section 4. What remains:

| # | Module | Content |
|---|---|---|
| 1 | `References` | several kinds of image, if `ingest_wc_reference` gets a caller |
| 2 | a module for `conditioning.py` | states and approval of a pack, once the generation pipeline uses it |
