----------------------------- MODULE QueueWorker -----------------------------
(***************************************************************************)
(* The generation queue workers: claim a job, run it through               *)
(* GenerationService against ComfyUI, finalize its Take, and recover the   *)
(* claimed jobs a crash or a monitoring timeout left behind.               *)
(*                                                                         *)
(* A process is the API server with its embedded worker thread (Embedded)  *)
(* or a standalone queue_runner (Runners, which take the OS-level worker   *)
(* lock; the embedded worker does not).  The main loop of a process        *)
(* alternates a recovery pass and rounds of claims; every claimed job runs *)
(* in a thread of the pool (Slots; one slot is the sequential loop).       *)
(* One action is one database transaction, one ComfyUI call or one step on *)
(* the staging and final directories, which processes share: a crash, or   *)
(* another process, may come between any two of them.                      *)
(*                                                                         *)
(* A GenerationRequest and a Take are named by the job whose execution     *)
(* created them: an execution creates at most one of each.                 *)
(***************************************************************************)
EXTENDS Integers

CONSTANTS
    Jobs,           \* the rows of generation_queue
    Rank,           \* [Jobs -> Int]: position in ORDER BY priority DESC, created_at, id
    Embedded,       \* API server processes with the embedded worker
    Runners,        \* queue_runner processes
    Slots,          \* queue_worker_concurrency threads per process
    InjectedClient, \* TRUE when the adapter was given an httpx client (tests)
    MaxFaults,      \* bound on crashes, lost calls and ComfyUI restarts
    None

Procs   == Embedded \cup Runners
Threads == Procs \X Slots

ASSUME NoneAssumption   == None \notin Jobs \cup Procs
ASSUME ProcsAssumption  == Embedded \cap Runners = {}
ASSUME RankAssumption   == Rank \in [Jobs -> Int]
ASSUME FaultsAssumption == MaxFaults \in Nat
ASSUME ClientAssumption == InjectedClient \in BOOLEAN

VARIABLES
    job,        \* generation_queue: status, attempt_count, take_id
    req,        \* generation_requests: status and whether comfyui_prompt_id is set
    takes,      \* requests with a row in takes
    staged,     \* the staging directory of each job: none, empty or with the video
    dirs,       \* jobs whose final take directory exists on disk
    media,      \* jobs whose video is in that directory
    shared,     \* jobs whose directories two actors worked in at once (history)
    prompt,     \* what ComfyUI knows about the prompt of each job
    submits,    \* how often ComfyUI accepted a prompt for each job (history)
    main,       \* the main loop of each process
    thread,     \* the worker threads of each process
    callback,   \* GenerationService._finalize_callback: the job it finalizes
    lock,       \* holder of the worker lock file
    faults      \* faults so far

dbVars   == <<job, req, takes>>
diskVars == <<staged, dirs, media, shared>>
envVars  == <<prompt, submits>>
procVars == <<main, thread, callback, lock>>
vars     == <<job, req, takes, staged, dirs, media, shared, prompt, submits,
              main, thread, callback, lock, faults>>

-----------------------------------------------------------------------------
(* Types and initial state *)

JobStatus    == {"absent", "pending", "claimed", "succeeded", "failed"}
RequestState == {"none", "pending", "queued", "running", "succeeded", "failed"}
PromptState  == {"none", "queued", "running", "success", "error", "gone"}
StagingState == {"none", "empty", "video"}
MainPc       == {"down", "list", "recover", "inspect", "queue", "fetch",
                 "download", "verify", "check", "look", "make", "move", "commit",
                 "tidy", "fail", "claim", "wait", "idle"}
ThreadPc     == {"free", "install", "resolve", "submit", "record", "running",
                 "monitor", "fetch", "download", "verify", "check", "make", "move",
                 "commit", "tidy", "unmake", "undo", "abort", "report",
                 "restore", "done"}

Errors       == {"none", "timeout", "other"}

Request == [status : RequestState, prompt : BOOLEAN]

NoRequest  == [status |-> "none", prompt |-> FALSE]
MainDown   == [pc |-> "down", boot |-> FALSE, todo |-> {}, job |-> None,
               seen |-> NoRequest, made |-> {}]
ThreadFree == [pc |-> "free", job |-> None, saved |-> None, err |-> "none", made |-> {}]

\* The directories an execution has set its variables to: its handler removes them.
Made == SUBSET {"staging", "final"}

Job    == [status : JobStatus, attempts : Nat, take : Jobs \cup {None}]
Main   == [pc : MainPc, boot : BOOLEAN, todo : SUBSET Jobs,
           job : Jobs \cup {None}, seen : Request, made : Made]
Thread == [pc : ThreadPc, job : Jobs \cup {None}, saved : Jobs \cup {None},
           err : Errors, made : Made]

TypeOK ==
    /\ job \in [Jobs -> Job]
    /\ req \in [Jobs -> Request]
    /\ takes \subseteq Jobs
    /\ staged \in [Jobs -> StagingState]
    /\ dirs \subseteq Jobs
    /\ media \subseteq Jobs
    /\ shared \subseteq Jobs
    /\ prompt \in [Jobs -> PromptState]
    /\ submits \in [Jobs -> Nat]
    /\ main \in [Procs -> Main]
    /\ thread \in [Threads -> Thread]
    /\ callback \in [Procs -> Jobs \cup {None}]
    /\ lock \in Runners \cup {None}
    /\ faults \in Nat

Init ==
    /\ job = [j \in Jobs |-> [status |-> "absent", attempts |-> 0, take |-> None]]
    /\ req = [j \in Jobs |-> NoRequest]
    /\ takes = {}
    /\ staged = [j \in Jobs |-> "none"]
    /\ dirs = {}
    /\ media = {}
    /\ shared = {}
    /\ prompt = [j \in Jobs |-> "none"]
    /\ submits = [j \in Jobs |-> 0]
    /\ main = [p \in Procs |-> MainDown]
    /\ thread = [t \in Threads |-> ThreadFree]
    /\ callback = [p \in Procs |-> None]
    /\ lock = None
    /\ faults = 0

Fault == /\ faults < MaxFaults
         /\ faults' = faults + 1

\* A failure that the state c explains, or a fault does.
FaultUnless(c) == /\ c \/ faults < MaxFaults
                  /\ faults' = IF c THEN faults ELSE faults + 1

-----------------------------------------------------------------------------
(* The queue table *)

MaxAttempts == 1

\* Mutant: the claim also takes back rows left claimed.
Claimable_Reclaim(j) == job[j].status \in {"pending", "claimed"}

\* The WHERE clause of the claim.
Claimable(j) == job[j].status = "pending" /\ job[j].attempts < MaxAttempts

\* The row the ORDER BY ... LIMIT 1 of the claim picks.
Best(j) == Claimable(j) /\ \A k \in Jobs : Claimable(k) => Rank[j] <= Rank[k]

\* Mutant: a failed job goes back to the queue.
SetJob_Requeue(j, st) ==
    [job EXCEPT ![j].status = IF st = "failed" THEN "pending" ELSE st]

\* update_status writes by id only: it never looks at the status it replaces.
SetJob(j, st) == [job EXCEPT ![j].status = st]

\* Mutant: the job is left to a later transaction.
Finalized_Later(cb, take) == job

\* Mutant: the status the takes table uses for a finished generation.
Finalized_WrongStatus(cb, take) ==
    IF cb = None THEN job
    ELSE [job EXCEPT ![cb].status = "completed", ![cb].take = take]

\* The finalization transaction's callback: the job it was built for becomes
\* succeeded with the Take just inserted.
Finalized(cb, take) ==
    IF cb = None THEN job
    ELSE [job EXCEPT ![cb].status = "succeeded", ![cb].take = take]

Enqueue(j) ==
    /\ job[j].status = "absent"
    /\ job' = SetJob(j, "pending")
    /\ UNCHANGED <<req, takes, diskVars, envVars, main, thread, callback, lock, faults>>

-----------------------------------------------------------------------------
(* The directories of a job: .staging/<request id> and takes/.../take_<n>.     *)
(* Both are named by the job's request, for every process alike.               *)

\* Somebody works in the directories of j.
InUse(j) ==
    \/ \E t \in Threads : thread[t].job = j /\ thread[t].made # {}
    \/ \E p \in Procs : main[p].job = j /\ main[p].made # {}

\* create_staging_dir takes a directory that exists.
CreateStaging(j) ==
    /\ staged' = [staged EXCEPT ![j] = IF @ = "none" THEN "empty" ELSE @]
    /\ shared' = IF InUse(j) THEN shared \cup {j} ELSE shared
    /\ UNCHANGED <<dirs, media>>

SetStaged(j, s) == staged' = [staged EXCEPT ![j] = s] /\ UNCHANGED <<dirs, media, shared>>

\* Mutant: the directory is made without a look at what is there.
FinalFree_Ignored(j) == TRUE

\* The test of make_final_dir and of the recovery; makedirs(exist_ok=True), a
\* step later, takes a directory that another process made in between.
FinalFree(j) == j \notin dirs

MakeDir(j) == dirs' = dirs \cup {j} /\ UNCHANGED <<staged, media, shared>>

\* move_to_final moves what it finds: nothing when another process is removing
\* the staging directory and has removed the files.
Movable(j) == staged[j] = "video" /\ j \in dirs

MoveVideo(j) ==
    \/ /\ Movable(j)
       /\ staged' = [staged EXCEPT ![j] = "empty"]
       /\ media' = media \cup {j}
       /\ UNCHANGED <<dirs, shared>>
    \/ staged[j] = "empty" /\ UNCHANGED diskVars

\* cleanup_dir removes the directory, or logs the error that stops it: files of
\* another process may have come in.
RemoveStaging(j) == \E s \in {"none", staged[j]} : SetStaged(j, s)

RemoveFinalDir(j) ==
    /\ dirs' = dirs \ {j}
    /\ media' = media \ {j}
    /\ UNCHANGED <<staged, shared>>

-----------------------------------------------------------------------------
(* Worker threads: _execute_job and the generate_take it calls *)

\* The thread of t moves to pc, its process's main loop and the environment stay.
Goto(t, pc) == thread' = [thread EXCEPT ![t].pc = pc]

\* It moves to pc with these directories to its name.
GotoWith(t, pc, made) == thread' = [thread EXCEPT ![t].pc = pc, ![t].made = made]

\* An exception leaves the happy path; a message with "timeout" in it is what
\* keeps the job claimed in the end.  Handlers start at "abort" once a request
\* exists, at "report" before that.
Throw(t, handler, errs) ==
    \E e \in errs : thread' = [thread EXCEPT ![t].pc = handler, ![t].err = e]

ComfyErrors == {"timeout", "other"}

\* The finalize callback of this job replaces whatever is installed.
InstallCallback(t) ==
    /\ thread[t].pc = "install"
    /\ thread' = [thread EXCEPT ![t].pc = "resolve", ![t].saved = callback[t[1]]]
    /\ callback' = [callback EXCEPT ![t[1]] = thread[t].job]
    /\ UNCHANGED <<dbVars, diskVars, envVars, main, lock, faults>>

\* Phase 1 succeeded: the request row is written before anything is submitted.
CreateRequest(t) ==
    LET j == thread[t].job IN
    /\ thread[t].pc = "resolve"
    /\ req' = [req EXCEPT ![j].status = "pending"]
    /\ Goto(t, "submit")
    /\ UNCHANGED <<job, takes, diskVars, envVars, main, callback, lock, faults>>

\* A reference, prompt, continuity or upload error: no request row is left.
ResolveFails(t) ==
    /\ thread[t].pc = "resolve"
    /\ Fault
    /\ Throw(t, "report", ComfyErrors)
    /\ UNCHANGED <<dbVars, diskVars, envVars, main, callback, lock>>

ComfyAccepts(j) ==
    /\ prompt' = [prompt EXCEPT ![j] = "queued"]
    /\ submits' = [submits EXCEPT ![j] = @ + 1]

\* POST /prompt: accepted and answered; accepted with the answer lost; refused.
Submit(t) ==
    /\ thread[t].pc = "submit"
    /\ ComfyAccepts(thread[t].job)
    /\ Goto(t, "record")
    /\ UNCHANGED <<dbVars, diskVars, main, callback, lock, faults>>

SubmitAnswerLost(t) ==
    /\ thread[t].pc = "submit"
    /\ Fault
    /\ ComfyAccepts(thread[t].job)
    /\ Throw(t, "abort", ComfyErrors)
    /\ UNCHANGED <<dbVars, diskVars, main, callback, lock>>

SubmitRefused(t) ==
    /\ thread[t].pc = "submit"
    /\ Fault
    /\ Throw(t, "abort", ComfyErrors)
    /\ UNCHANGED <<dbVars, diskVars, envVars, main, callback, lock>>

RecordPrompt(t) ==
    LET j == thread[t].job IN
    /\ thread[t].pc = "record"
    /\ req' = [req EXCEPT ![j] = [status |-> "queued", prompt |-> TRUE]]
    /\ Goto(t, "running")
    /\ UNCHANGED <<job, takes, diskVars, envVars, main, callback, lock, faults>>

MarkRunning(t) ==
    LET j == thread[t].job IN
    /\ thread[t].pc = "running"
    /\ req' = [req EXCEPT ![j].status = "running"]
    /\ Goto(t, "monitor")
    /\ UNCHANGED <<job, takes, diskVars, envVars, main, callback, lock, faults>>

\* The execution_success event arrived.
MonitorSucceeds(t) ==
    /\ thread[t].pc = "monitor"
    /\ prompt[thread[t].job] = "success"
    /\ Goto(t, "fetch")
    /\ UNCHANGED <<dbVars, diskVars, envVars, main, callback, lock, faults>>

\* The execution_error event arrived.
MonitorErrors(t) ==
    /\ thread[t].pc = "monitor"
    /\ prompt[thread[t].job] = "error"
    /\ Throw(t, "abort", {"other"})
    /\ UNCHANGED <<dbVars, diskVars, envVars, main, callback, lock, faults>>

\* The deadline passes at any moment, the event of a finished prompt included:
\* the socket is opened after the submit and may miss it.
MonitorTimesOut(t) ==
    /\ thread[t].pc = "monitor"
    /\ Throw(t, "abort", {"timeout"})
    /\ UNCHANGED <<dbVars, diskVars, envVars, main, callback, lock, faults>>

MonitorLosesSocket(t) ==
    /\ thread[t].pc = "monitor"
    /\ Fault
    /\ Throw(t, "abort", ComfyErrors)
    /\ UNCHANGED <<dbVars, diskVars, envVars, main, callback, lock>>

\* get_result answers, and the staging directory is there.
FetchResult(t) ==
    /\ thread[t].pc = "fetch"
    /\ prompt[thread[t].job] = "success"
    /\ CreateStaging(thread[t].job)
    /\ GotoWith(t, "download", {"staging"})
    /\ UNCHANGED <<dbVars, envVars, main, callback, lock, faults>>

FetchFails(t) ==
    /\ thread[t].pc = "fetch"
    /\ FaultUnless(prompt[thread[t].job] # "success")
    /\ Throw(t, "abort", ComfyErrors)
    /\ UNCHANGED <<dbVars, diskVars, envVars, main, callback, lock>>

Download(t) ==
    /\ thread[t].pc = "download"
    /\ staged[thread[t].job] # "none"
    /\ SetStaged(thread[t].job, "video")
    /\ Goto(t, "verify")
    /\ UNCHANGED <<dbVars, envVars, main, callback, lock, faults>>

\* The staging directory is gone, or the video is not all there.
DownloadFails(t) ==
    /\ thread[t].pc = "download"
    /\ FaultUnless(staged[thread[t].job] = "none")
    /\ Throw(t, "abort", ComfyErrors)
    /\ UNCHANGED <<dbVars, diskVars, envVars, main, callback, lock>>

\* verify_media, extract_last_frame.
VerifyMedia(t) ==
    /\ thread[t].pc = "verify"
    /\ staged[thread[t].job] = "video"
    /\ Goto(t, "check")
    /\ UNCHANGED <<dbVars, diskVars, envVars, main, callback, lock, faults>>

\* make_final_dir tests the directory, then makes it.
CheckFinal(t) ==
    /\ thread[t].pc = "check"
    /\ FinalFree(thread[t].job)
    /\ Goto(t, "make")
    /\ UNCHANGED <<dbVars, diskVars, envVars, main, callback, lock, faults>>

MakeFinal(t) ==
    /\ thread[t].pc = "make"
    /\ MakeDir(thread[t].job)
    /\ GotoWith(t, "move", {"staging", "final"})
    /\ UNCHANGED <<dbVars, envVars, main, callback, lock, faults>>

MoveToFinal(t) ==
    /\ thread[t].pc = "move"
    /\ MoveVideo(thread[t].job)
    /\ Goto(t, "commit")
    /\ UNCHANGED <<dbVars, envVars, main, callback, lock, faults>>

\* What makes a step on the directories raise, short of a fault.
Blocked(pc, j) ==
    \/ pc = "verify" /\ staged[j] # "video"
    \/ pc = "check" /\ ~FinalFree(j)
    \/ pc = "move" /\ staged[j] # "empty" /\ ~Movable(j)

\* A move that fails may leave a file; without a Take nobody looks at it.
PlaceFails(t) ==
    /\ thread[t].pc \in {"verify", "check", "make", "move"}
    /\ FaultUnless(Blocked(thread[t].pc, thread[t].job))
    /\ Throw(t, "abort", {"other"})
    /\ UNCHANGED <<dbVars, diskVars, envVars, main, callback, lock>>

\* One transaction: the Take (UNIQUE on its request), the request, the callback.
Commit(t) ==
    LET j == thread[t].job IN
    /\ thread[t].pc = "commit"
    /\ j \notin takes
    /\ takes' = takes \cup {j}
    /\ req' = [req EXCEPT ![j].status = "succeeded"]
    /\ job' = Finalized(callback[t[1]], j)
    /\ GotoWith(t, "tidy", {"staging"})
    /\ UNCHANGED <<diskVars, envVars, main, callback, lock, faults>>

CommitFails(t) ==
    /\ thread[t].pc = "commit"
    /\ FaultUnless(thread[t].job \in takes)
    /\ Throw(t, "unmake", {"other"})
    /\ UNCHANGED <<dbVars, diskVars, envVars, main, callback, lock>>

\* The final directory is removed before the request is marked failed; the
\* staging directory stays.
RemoveFinal(t) ==
    /\ thread[t].pc = "unmake"
    /\ RemoveFinalDir(thread[t].job)
    /\ Goto(t, "undo")
    /\ UNCHANGED <<dbVars, envVars, main, callback, lock, faults>>

FailRequest(j) == req' = [req EXCEPT ![j].status = "failed"] /\ UNCHANGED <<job, takes>>

UndoRequest(t) ==
    /\ thread[t].pc = "undo"
    /\ FailRequest(thread[t].job)
    /\ GotoWith(t, "report", {})
    /\ UNCHANGED <<diskVars, envVars, main, callback, lock, faults>>

\* A second database error gets to the other handler.
UndoFails(t) ==
    /\ thread[t].pc = "undo"
    /\ Fault
    /\ Goto(t, "abort")
    /\ UNCHANGED <<dbVars, diskVars, envVars, main, callback, lock>>

\* rmtree removes the files first, and then the directory.
EmptyStaging(t) ==
    /\ \/ thread[t].pc = "tidy"
       \/ thread[t].pc = "report" /\ "staging" \in thread[t].made
    /\ staged[thread[t].job] = "video"
    /\ SetStaged(thread[t].job, "empty")
    /\ UNCHANGED <<dbVars, envVars, procVars, faults>>

Tidy(t) ==
    /\ thread[t].pc = "tidy"
    /\ RemoveStaging(thread[t].job)
    /\ GotoWith(t, "restore", {})
    /\ UNCHANGED <<dbVars, envVars, main, callback, lock, faults>>

\* The handler of generate_take: the request fails ...
AbortRequest(t) ==
    /\ thread[t].pc = "abort"
    /\ FailRequest(thread[t].job)
    /\ Goto(t, "report")
    /\ UNCHANGED <<diskVars, envVars, main, callback, lock, faults>>

\* (a second database error here is logged and swallowed)
AbortRequestFails(t) ==
    /\ thread[t].pc = "abort"
    /\ Fault
    /\ Goto(t, "report")
    /\ UNCHANGED <<dbVars, diskVars, envVars, main, callback, lock>>

\* ... and the directories are removed, the final one when this execution made it.
CleanStaging(t) ==
    /\ thread[t].pc = "report"
    /\ "staging" \in thread[t].made
    /\ RemoveStaging(thread[t].job)
    /\ GotoWith(t, "report", thread[t].made \ {"staging"})
    /\ UNCHANGED <<dbVars, envVars, main, callback, lock, faults>>

CleanFinal(t) ==
    /\ thread[t].pc = "report"
    /\ thread[t].made = {"final"}
    /\ RemoveFinalDir(thread[t].job)
    /\ GotoWith(t, "report", {})
    /\ UNCHANGED <<dbVars, envVars, main, callback, lock, faults>>

\* The handler of _execute_job.
LeavesClaimed(t) == thread[t].err = "timeout"

ReportFailure(t) ==
    /\ thread[t].pc = "report"
    /\ thread[t].made = {}
    /\ job' = IF LeavesClaimed(t) THEN job ELSE SetJob(thread[t].job, "failed")
    /\ Goto(t, "restore")
    /\ UNCHANGED <<req, takes, diskVars, envVars, main, callback, lock, faults>>

\* The finally clause puts back what this thread found installed.
RestoreCallback(t) ==
    /\ thread[t].pc = "restore"
    /\ callback' = [callback EXCEPT ![t[1]] = thread[t].saved]
    /\ thread' = [thread EXCEPT ![t] = [ThreadFree EXCEPT !.pc = "done"]]
    /\ UNCHANGED <<dbVars, diskVars, envVars, main, lock, faults>>

ThreadStep(t) ==
    \/ InstallCallback(t) \/ CreateRequest(t) \/ ResolveFails(t)
    \/ Submit(t) \/ SubmitAnswerLost(t) \/ SubmitRefused(t)
    \/ RecordPrompt(t) \/ MarkRunning(t)
    \/ MonitorSucceeds(t) \/ MonitorErrors(t) \/ MonitorTimesOut(t) \/ MonitorLosesSocket(t)
    \/ FetchResult(t) \/ FetchFails(t) \/ Download(t) \/ DownloadFails(t)
    \/ VerifyMedia(t) \/ CheckFinal(t) \/ MakeFinal(t) \/ MoveToFinal(t) \/ PlaceFails(t)
    \/ Commit(t) \/ CommitFails(t) \/ RemoveFinal(t) \/ UndoRequest(t) \/ UndoFails(t)
    \/ EmptyStaging(t) \/ Tidy(t)
    \/ AbortRequest(t) \/ AbortRequestFails(t) \/ CleanStaging(t) \/ CleanFinal(t)
    \/ ReportFailure(t) \/ RestoreCallback(t)

-----------------------------------------------------------------------------
(* The main loop: start, recovery pass, rounds of claims, poll *)

Step(p, pc) == main' = [main EXCEPT ![p].pc = pc]

StepWith(p, pc, made) == main' = [main EXCEPT ![p].pc = pc, ![p].made = made]

\* Mutant: a runner goes on without the lock.
LockFree_Ignored == TRUE

LockFree == lock = None

\* The embedded worker starts with the API server; a runner must get the lock.
Start(p) ==
    /\ main[p].pc = "down"
    /\ \/ p \in Embedded /\ UNCHANGED lock
       \/ p \in Runners /\ LockFree /\ lock' = p
    /\ main' = [main EXCEPT ![p].pc = "list", ![p].boot = TRUE]
    /\ UNCHANGED <<dbVars, diskVars, envVars, thread, callback, faults>>

RecoverList(p) ==
    /\ main[p].pc = "list"
    /\ main' = [main EXCEPT ![p].pc = "recover",
                            ![p].todo = {j \in Jobs : job[j].status = "claimed"}]
    /\ UNCHANGED <<dbVars, diskVars, envVars, thread, callback, lock, faults>>

\* _recover_one reads the request of a job listed as claimed; it does not read
\* the job again.
RecoverNext(p) ==
    /\ main[p].pc = "recover"
    /\ \E j \in main[p].todo :
          main' = [main EXCEPT ![p].pc = "inspect", ![p].todo = @ \ {j},
                               ![p].job = j, ![p].seen = req[j]]
    /\ UNCHANGED <<dbVars, diskVars, envVars, thread, callback, lock, faults>>

\* The pass run at start-up is followed by the one of the first run_available.
RecoverEnd(p) ==
    /\ main[p].pc = "recover"
    /\ main[p].todo = {}
    /\ main' = [main EXCEPT ![p].pc = IF main[p].boot THEN "list" ELSE "claim",
                            ![p].boot = FALSE]
    /\ UNCHANGED <<dbVars, diskVars, envVars, thread, callback, lock, faults>>

\* Back to the list of claimed jobs, this one handled or left for later.
Resume(p) == main' = [main EXCEPT ![p].pc = "recover", ![p].job = None,
                                  ![p].seen = NoRequest, ![p].made = {}]

\* States 2, 3 and 12: no request, or one that never got a prompt id.
WithoutPrompt(r) == r.status # "succeeded" /\ ~r.prompt

RecoverWithoutPrompt(p) ==
    /\ main[p].pc = "inspect"
    /\ WithoutPrompt(main[p].seen)
    /\ job' = SetJob(main[p].job, "failed")
    /\ Resume(p)
    /\ UNCHANGED <<req, takes, diskVars, envVars, thread, callback, lock, faults>>

\* States 8 to 10: reconcile with the Take, which must exist with its video.
TakeIntact(j) == j \in takes /\ j \in media

RecoverSucceededRequest(p) ==
    LET j == main[p].job IN
    /\ main[p].pc = "inspect"
    /\ main[p].seen.status = "succeeded"
    /\ job' = IF TakeIntact(j) THEN Finalized(j, j) ELSE SetJob(j, "failed")
    /\ Resume(p)
    /\ UNCHANGED <<req, takes, diskVars, envVars, thread, callback, lock, faults>>

\* States 4 to 7 and 12b: check_prompt_status asks GET /history first ...
HasPrompt(r) == r.status # "succeeded" /\ r.prompt

AskHistory(p) ==
    /\ main[p].pc = "inspect"
    /\ HasPrompt(main[p].seen)
    /\ Step(p, CASE prompt[main[p].job] = "success" -> "fetch"
                 [] prompt[main[p].job] = "error"   -> "fail"
                 [] OTHER                           -> "queue")
    /\ UNCHANGED <<dbVars, diskVars, envVars, thread, callback, lock, faults>>

\* ... which may be unreachable (the job is left claimed) or answer something
\* other than 200 and JSON ("unknown").
AskHistoryFails(p) ==
    /\ main[p].pc = "inspect"
    /\ HasPrompt(main[p].seen)
    /\ Fault
    /\ Resume(p) \/ Step(p, "fail")
    /\ UNCHANGED <<dbVars, diskVars, envVars, thread, callback, lock>>

\* Mutant: a prompt that is not in the history is taken for queued.
InQueue_ByDefault(j) == TRUE

\* Mutant: only queue_running is searched.
InQueue_RunningOnly(j) == InjectedClient /\ prompt[j] = "running"

\* ... then, for a prompt not in the history, GET /queue.  The adapter's own
\* client was closed after the first request, so the second one raises, which
\* is swallowed: the answer is "unknown".
InQueue(j) == InjectedClient /\ prompt[j] \in {"queued", "running"}

AskQueue(p) ==
    /\ main[p].pc = "queue"
    /\ IF InQueue(main[p].job) THEN Resume(p) ELSE Step(p, "fail")
    /\ UNCHANGED <<dbVars, diskVars, envVars, thread, callback, lock, faults>>

AskQueueFails(p) ==
    /\ main[p].pc = "queue"
    /\ Fault
    /\ Step(p, "fail")
    /\ UNCHANGED <<dbVars, diskVars, envVars, thread, callback, lock>>

\* finalize_from_result takes the same steps as generate_take, with the same
\* directories.
RecoverFetch(p) ==
    /\ main[p].pc = "fetch"
    /\ prompt[main[p].job] = "success"
    /\ CreateStaging(main[p].job)
    /\ StepWith(p, "download", {"staging"})
    /\ UNCHANGED <<dbVars, envVars, thread, callback, lock, faults>>

RecoverFetchFails(p) ==
    /\ main[p].pc = "fetch"
    /\ FaultUnless(prompt[main[p].job] # "success")
    /\ Step(p, "fail")
    /\ UNCHANGED <<dbVars, diskVars, envVars, thread, callback, lock>>

RecoverDownload(p) ==
    /\ main[p].pc = "download"
    /\ staged[main[p].job] # "none"
    /\ SetStaged(main[p].job, "video")
    /\ Step(p, "verify")
    /\ UNCHANGED <<dbVars, envVars, thread, callback, lock, faults>>

RecoverVerify(p) ==
    /\ main[p].pc = "verify"
    /\ staged[main[p].job] = "video"
    /\ Step(p, "check")
    /\ UNCHANGED <<dbVars, diskVars, envVars, thread, callback, lock, faults>>

\* A final directory that exists is an error, unless the Take is there too: then
\* that Take is returned, without the callback.
RecoverCheck(p) ==
    /\ main[p].pc = "check"
    /\ Step(p, IF FinalFree(main[p].job) THEN "make" ELSE "look")
    /\ UNCHANGED <<dbVars, diskVars, envVars, thread, callback, lock, faults>>

RecoverLook(p) ==
    /\ main[p].pc = "look"
    /\ Step(p, IF main[p].job \in takes THEN "tidy" ELSE "fail")
    /\ UNCHANGED <<dbVars, diskVars, envVars, thread, callback, lock, faults>>

RecoverMake(p) ==
    /\ main[p].pc = "make"
    /\ MakeDir(main[p].job)
    /\ StepWith(p, "move", {"staging", "final"})
    /\ UNCHANGED <<dbVars, envVars, thread, callback, lock, faults>>

RecoverMove(p) ==
    /\ main[p].pc = "move"
    /\ MoveVideo(main[p].job)
    /\ Step(p, "commit")
    /\ UNCHANGED <<dbVars, envVars, thread, callback, lock, faults>>

\* make_final_dir tests the directory a second time.
RecoverPlaceFails(p) ==
    LET j == main[p].job IN
    /\ main[p].pc \in {"download", "verify", "look", "make", "move"}
    /\ FaultUnless(\/ main[p].pc = "download" /\ staged[j] = "none"
                   \/ main[p].pc = "make" /\ j \in dirs
                   \/ Blocked(main[p].pc, j))
    /\ Step(p, "fail")
    /\ UNCHANGED <<dbVars, diskVars, envVars, thread, callback, lock>>

\* The threads of the process are idle during a pass, so the callback the
\* recovery installs is the one the transaction calls.
RecoverCommit(p) ==
    LET j == main[p].job IN
    /\ main[p].pc = "commit"
    /\ j \notin takes
    /\ takes' = takes \cup {j}
    /\ req' = [req EXCEPT ![j].status = "succeeded"]
    /\ job' = Finalized(j, j)
    /\ StepWith(p, "tidy", {"staging"})
    /\ UNCHANGED <<diskVars, envVars, thread, callback, lock, faults>>

RecoverCommitFails(p) ==
    /\ main[p].pc = "commit"
    /\ FaultUnless(main[p].job \in takes)
    /\ Step(p, "fail")
    /\ UNCHANGED <<dbVars, diskVars, envVars, thread, callback, lock>>

RecoverEmptyStaging(p) ==
    /\ \/ main[p].pc = "tidy"
       \/ main[p].pc = "fail" /\ "staging" \in main[p].made
    /\ staged[main[p].job] = "video"
    /\ SetStaged(main[p].job, "empty")
    /\ UNCHANGED <<dbVars, envVars, procVars, faults>>

RecoverTidy(p) ==
    /\ main[p].pc = "tidy"
    /\ RemoveStaging(main[p].job)
    /\ Resume(p)
    /\ UNCHANGED <<dbVars, envVars, thread, callback, lock, faults>>

\* The handler removes the directories before the job is marked failed.
RecoverCleanStaging(p) ==
    /\ main[p].pc = "fail"
    /\ "staging" \in main[p].made
    /\ RemoveStaging(main[p].job)
    /\ StepWith(p, "fail", main[p].made \ {"staging"})
    /\ UNCHANGED <<dbVars, envVars, thread, callback, lock, faults>>

RecoverCleanFinal(p) ==
    /\ main[p].pc = "fail"
    /\ main[p].made = {"final"}
    /\ RemoveFinalDir(main[p].job)
    /\ StepWith(p, "fail", {})
    /\ UNCHANGED <<dbVars, envVars, thread, callback, lock, faults>>

RecoverFail(p) ==
    /\ main[p].pc = "fail"
    /\ main[p].made = {}
    /\ job' = SetJob(main[p].job, "failed")
    /\ Resume(p)
    /\ UNCHANGED <<req, takes, diskVars, envVars, thread, callback, lock, faults>>

\* claim_next: one UPDATE of the best row, handed to a thread of the pool.
Claim(p) ==
    /\ main[p].pc = "claim"
    /\ \E j \in Jobs, s \in Slots :
          /\ Best(j)
          /\ thread[<<p, s>>].pc = "free"
          /\ job' = [job EXCEPT ![j].status = "claimed", ![j].attempts = @ + 1]
          /\ thread' = [thread EXCEPT ![<<p, s>>].pc = "install", ![<<p, s>>].job = j]
    /\ UNCHANGED <<req, takes, diskVars, envVars, main, callback, lock, faults>>

SlotsIn(p, pcs) == \A s \in Slots : thread[<<p, s>>].pc \in pcs

\* The round has as many claims as there are threads, or the queue is empty;
\* an empty round ends run_available.
RoundClaimed(p) ==
    /\ main[p].pc = "claim"
    /\ \/ \A s \in Slots : thread[<<p, s>>].pc # "free"
       \/ \A j \in Jobs : ~Claimable(j)
    /\ Step(p, IF SlotsIn(p, {"free"}) THEN "idle" ELSE "wait")
    /\ UNCHANGED <<dbVars, diskVars, envVars, thread, callback, lock, faults>>

RoundDone(p) ==
    /\ main[p].pc = "wait"
    /\ SlotsIn(p, {"free", "done"})
    /\ Step(p, "claim")
    /\ thread' = [t \in Threads |-> IF t[1] = p THEN ThreadFree ELSE thread[t]]
    /\ UNCHANGED <<dbVars, diskVars, envVars, callback, lock, faults>>

Poll(p) ==
    /\ main[p].pc = "idle"
    /\ Step(p, "list")
    /\ UNCHANGED <<dbVars, diskVars, envVars, thread, callback, lock, faults>>

MainStep(p) ==
    \/ RecoverList(p) \/ RecoverNext(p) \/ RecoverEnd(p)
    \/ RecoverWithoutPrompt(p) \/ RecoverSucceededRequest(p)
    \/ AskHistory(p) \/ AskHistoryFails(p) \/ AskQueue(p) \/ AskQueueFails(p)
    \/ RecoverFetch(p) \/ RecoverFetchFails(p) \/ RecoverDownload(p) \/ RecoverVerify(p)
    \/ RecoverCheck(p) \/ RecoverLook(p) \/ RecoverMake(p) \/ RecoverMove(p)
    \/ RecoverPlaceFails(p) \/ RecoverCommit(p) \/ RecoverCommitFails(p) \/ RecoverTidy(p)
    \/ RecoverEmptyStaging(p) \/ RecoverCleanStaging(p) \/ RecoverCleanFinal(p)
    \/ RecoverFail(p)
    \/ Claim(p) \/ RoundClaimed(p) \/ RoundDone(p) \/ Poll(p)

Down(p) ==
    /\ main' = [main EXCEPT ![p] = MainDown]
    /\ thread' = [t \in Threads |-> IF t[1] = p THEN ThreadFree ELSE thread[t]]
    /\ callback' = [callback EXCEPT ![p] = None]
    /\ lock' = IF lock = p THEN None ELSE lock
    /\ UNCHANGED <<dbVars, diskVars, envVars>>

\* SIGTERM to a runner: no new claims, the jobs in progress finish first.
Stop(p) ==
    /\ p \in Runners
    /\ \/ main[p].pc = "idle"
       \/ main[p].pc = "claim" /\ SlotsIn(p, {"free"})
    /\ Down(p)
    /\ UNCHANGED faults

\* A crash loses everything the process holds; the operating system drops its
\* lock.  The end of the API server is a crash of the daemon thread.
Crash(p) ==
    /\ main[p].pc # "down"
    /\ Fault
    /\ Down(p)

-----------------------------------------------------------------------------
(* ComfyUI *)

PromptStarts(j) ==
    /\ prompt[j] = "queued"
    /\ prompt' = [prompt EXCEPT ![j] = "running"]
    /\ UNCHANGED <<dbVars, diskVars, submits, procVars, faults>>

PromptEnds(j) ==
    /\ prompt[j] = "running"
    /\ \E r \in {"success", "error"} : prompt' = [prompt EXCEPT ![j] = r]
    /\ UNCHANGED <<dbVars, diskVars, submits, procVars, faults>>

\* ComfyUI keeps its queue and its history in memory.
ComfyRestarts ==
    /\ \E j \in Jobs : prompt[j] \notin {"none", "gone"}
    /\ Fault
    /\ prompt' = [j \in Jobs |-> IF prompt[j] = "none" THEN "none" ELSE "gone"]
    /\ UNCHANGED <<dbVars, diskVars, submits, procVars>>

-----------------------------------------------------------------------------

Next ==
    \/ \E j \in Jobs : Enqueue(j) \/ PromptStarts(j) \/ PromptEnds(j)
    \/ \E p \in Procs : Start(p) \/ MainStep(p) \/ Stop(p) \/ Crash(p)
    \/ \E t \in Threads : ThreadStep(t)
    \/ ComfyRestarts

\* A process that was started is scheduled, the API server is restarted after a
\* crash, and ComfyUI works through its queue.
Fairness ==
    /\ \A p \in Procs : WF_vars(MainStep(p))
    /\ \A p \in Embedded : WF_vars(Start(p))
    /\ \A t \in Threads : WF_vars(ThreadStep(t))
    /\ \A j \in Jobs : WF_vars(PromptStarts(j)) /\ WF_vars(PromptEnds(j))

Spec == Init /\ [][Next]_vars /\ Fairness

-----------------------------------------------------------------------------
(* Safety *)

\* ComfyUI never gets two prompts for one job, whatever crashes, timeouts,
\* recoveries and competing workers do: a claim is the only way to a submit
\* ("resume exact prompt_id, NEVER submit").
AtMostOneSubmission == \A j \in Jobs : submits[j] <= 1

\* The job, its request and its Take end together: there is a Take exactly for
\* the succeeded jobs, linked to it, its request succeeded and its video in place.
AtomicFinalization ==
    \A j \in Jobs :
        /\ j \in takes <=> job[j].status = "succeeded"
        /\ job[j].status = "succeeded" =>
              /\ job[j].take = j
              /\ req[j].status = "succeeded"
              /\ j \in media

\* Even when an embedded worker and a runner work on the same queue, a job is
\* reported succeeded only once its own Take exists, and unless two of them were
\* in its directories at once, the video of that Take.
SucceededHasTake ==
    \A j \in Jobs : job[j].status = "succeeded" =>
        j \in takes /\ job[j].take = j /\ (j \in media \/ j \in shared)

\* However processes, pool threads and their callback get mixed up, a job that is
\* reported succeeded shows some Take; and a handler removes the video of a Take
\* only when two processes were in its directories at once, which no lock
\* prevents: the embedded worker takes none.
MediaKept ==
    /\ \A j \in Jobs : job[j].status = "succeeded" => job[j].take \in takes
    /\ takes \subseteq media \cup shared

\* The actors of these processes that hold a job: threads running it and main
\* loops recovering it.
HoldersIn(procs, j) == {t \in procs \X Slots : thread[t].job = j}
                          \cup {p \in procs : main[p].job = j}

\* Whatever crashes, no two runners hold a job at a time: recovery in one never
\* works on what another still runs.  This is what the worker lock is for.
RunnersExclusive == \A j \in Jobs : \A a, b \in HoldersIn(Runners, j) : a = b

\* As long as nothing fails, a job is not given up while ComfyUI still has its
\* prompt in the queue ("If ComfyUI is still running, job stays claimed").
LivePromptKeepsJob ==
    \A j \in Jobs : faults = 0 /\ job[j].status = "failed"
                      => prompt[j] \notin {"queued", "running"}

(* Refinement *)

Lifecycle == INSTANCE JobLifecycle WITH
                 state <- [j \in Jobs |-> job[j].status],
                 delivered <- takes

\* Every step of the workers is a step of the job state machine: a Take is
\* inserted exactly when its job succeeds, and a job that ended stays as it is.
LifecycleSpec == Lifecycle!Spec

(* Liveness *)

\* Every job that was enqueued ends: no crash, timeout or outage leaves it
\* pending or claimed for ever, once the faults are over.
EveryJobEnds ==
    \A j \in Jobs : job[j].status = "pending" ~> job[j].status \in {"succeeded", "failed"}

=============================================================================
