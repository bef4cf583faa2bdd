------------------------- MODULE QueueWorker_proofs -------------------------
(***************************************************************************)
(* Theorems about QueueWorker for every set of jobs, processes and threads *)
(* and every bound on the faults.                                          *)
(***************************************************************************)
EXTENDS QueueWorker, TLAPS

-----------------------------------------------------------------------------
(* What the updates of the specification return *)

LEMMA Words ==
    /\ {"absent", "pending", "claimed", "succeeded", "failed"} \subseteq JobStatus
    /\ {"none", "pending", "queued", "running", "succeeded", "failed"} \subseteq RequestState
    /\ {"none", "queued", "running", "success", "error", "gone"} \subseteq PromptState
    /\ {"none", "empty", "video"} \subseteq StagingState
    /\ {"down", "list", "recover", "inspect", "queue", "fetch", "download", "verify",
        "check", "look", "make", "move", "commit", "tidy", "fail",
        "claim", "wait", "idle"} \subseteq MainPc
    /\ {"free", "install", "resolve", "submit", "record", "running", "monitor",
        "fetch", "download", "verify", "check", "make", "move", "commit", "tidy",
        "unmake", "undo", "abort", "report", "restore", "done"} \subseteq ThreadPc
    /\ {"none", "timeout", "other"} \subseteq Errors
    /\ {{}, {"staging"}, {"staging", "final"}} \subseteq Made
  BY DEF JobStatus, RequestState, PromptState, StagingState, MainPc, ThreadPc, Errors, Made

LEMMA IdleRecords ==
    NoRequest \in Request /\ MainDown \in Main /\ ThreadFree \in Thread
  BY Words DEF NoRequest, MainDown, ThreadFree, Request, Main, Thread

LEMMA SetJobType ==
    ASSUME TypeOK, NEW j, NEW st \in JobStatus
    PROVE  SetJob(j, st) \in [Jobs -> Job]
  BY DEF TypeOK, SetJob, Job

LEMMA FinalizedType ==
    ASSUME TypeOK, NEW cb, NEW take \in Jobs
    PROVE  Finalized(cb, take) \in [Jobs -> Job]
  BY Words DEF TypeOK, Finalized, Job

LEMMA SetRequestType ==
    ASSUME TypeOK, NEW j, NEW st \in RequestState
    PROVE  /\ [req EXCEPT ![j].status = st] \in [Jobs -> Request]
           /\ [req EXCEPT ![j] = [status |-> st, prompt |-> TRUE]] \in [Jobs -> Request]
  BY DEF TypeOK, Request

\* What a step does to the directories of a job.
DiskStep(j) ==
    \/ UNCHANGED diskVars
    \/ CreateStaging(j) \/ MakeDir(j) \/ MoveVideo(j) \/ RemoveFinalDir(j)
    \/ \E s \in StagingState : SetStaged(j, s)
    \/ RemoveStaging(j)

LEMMA DiskType ==
    ASSUME TypeOK, NEW j \in Jobs, DiskStep(j)
    PROVE  /\ staged' \in [Jobs -> StagingState] /\ dirs' \subseteq Jobs
           /\ media' \subseteq Jobs /\ shared' \subseteq Jobs
<1> USE DEF TypeOK, diskVars
<1>1. CASE UNCHANGED diskVars \/ MakeDir(j) \/ RemoveFinalDir(j)
  BY <1>1 DEF MakeDir, RemoveFinalDir
<1>2. CASE CreateStaging(j)
  <2>1. staged' \in [Jobs -> StagingState]
    BY <1>2, Words DEF CreateStaging
  <2>2. QED
    BY <1>2, <2>1 DEF CreateStaging
<1>3. CASE MoveVideo(j)
  <2>1. staged' \in [Jobs -> StagingState]
    BY <1>3, Words DEF MoveVideo
  <2>2. QED
    BY <1>3, <2>1 DEF MoveVideo
<1>4. CASE \E s \in StagingState : SetStaged(j, s)
  BY <1>4 DEF SetStaged
<1>5. CASE RemoveStaging(j)
  <2>1. \E s \in StagingState : SetStaged(j, s)
    BY <1>5, Words DEF RemoveStaging
  <2>2. QED
    BY <1>4, <2>1
<1>6. QED
  BY <1>1, <1>2, <1>3, <1>4, <1>5 DEF DiskStep

\* The ways a main loop goes on with its job, or puts it down.
Steps(p, pc) == Step(p, pc) \/ \E made \in Made : StepWith(p, pc, made)

\* Who stays where it is goes to where it is.
LEMMA StayForm ==
    ASSUME TypeOK
    PROVE  /\ \A p \in Procs : main' = main => Step(p, main[p].pc)
           /\ \A t \in Threads : thread' = thread => Goto(t, thread[t].pc)
<1>1. \A r \in Main : r = [r EXCEPT !.pc = r.pc]
  BY DEF Main
<1>2. \A r \in Thread : r = [r EXCEPT !.pc = r.pc]
  BY DEF Thread
<1>3. QED
  BY <1>1, <1>2 DEF TypeOK, Step, Goto

LEMMA StepType ==
    ASSUME TypeOK, NEW p, NEW pc \in MainPc, Steps(p, pc)
    PROVE  main' \in [Procs -> Main]
<1>1. CASE Step(p, pc)
  BY <1>1 DEF TypeOK, Step, Main
<1>2. CASE \E made \in Made : StepWith(p, pc, made)
  <2>1. PICK made \in Made : main' = [main EXCEPT ![p].pc = pc, ![p].made = made]
    BY <1>2 DEF StepWith
  <2>2. \A r \in Main : [r EXCEPT !.pc = pc, !.made = made] \in Main
    BY DEF Main
  <2>3. main' = [main EXCEPT ![p] = [main[p] EXCEPT !.pc = pc, !.made = made]]
    BY <2>1
  <2>4. QED
    BY <2>2, <2>3 DEF TypeOK
<1>3. QED
  BY <1>1, <1>2 DEF Steps

LEMMA ResumeType ==
    ASSUME TypeOK, NEW p, Resume(p)
    PROVE  main' \in [Procs -> Main]
  BY Words, IdleRecords DEF TypeOK, Resume, Main

\* The ways a thread goes on with its job.
Moves(t, pc) == \/ Goto(t, pc)
                \/ \E made \in Made : GotoWith(t, pc, made)
                \/ \E errs \in SUBSET Errors : Throw(t, pc, errs)

LEMMA MovesType ==
    ASSUME TypeOK, NEW t, NEW pc \in ThreadPc, Moves(t, pc)
    PROVE  thread' \in [Threads -> Thread]
<1>1. CASE Goto(t, pc)
  BY <1>1 DEF TypeOK, Goto, Thread
<1>2. CASE \E made \in Made : GotoWith(t, pc, made)
  <2>1. PICK made \in Made :
            thread' = [thread EXCEPT ![t].pc = pc, ![t].made = made]
    BY <1>2 DEF GotoWith
  <2>2. \A r \in Thread : [r EXCEPT !.pc = pc, !.made = made] \in Thread
    BY DEF Thread
  <2>3. thread' = [thread EXCEPT ![t] = [thread[t] EXCEPT !.pc = pc, !.made = made]]
    BY <2>1 DEF TypeOK
  <2>4. QED
    BY <2>2, <2>3 DEF TypeOK
<1>3. CASE \E errs \in SUBSET Errors : Throw(t, pc, errs)
  <2>1. PICK e \in Errors : thread' = [thread EXCEPT ![t].pc = pc, ![t].err = e]
    BY <1>3 DEF Throw
  <2>2. QED
    BY <2>1 DEF TypeOK, Thread
<1>4. QED
  BY <1>1, <1>2, <1>3 DEF Moves

-----------------------------------------------------------------------------
(* Type correctness *)

\* An actor that works on a job has one: the types of the updates rest on it.
Working == {"inspect", "queue", "fetch", "download", "verify", "check", "look", "make",
            "move", "commit", "tidy", "fail"}

HoldersOK ==
    /\ \A p \in Procs : main[p].pc \in Working => main[p].job \in Jobs
    /\ \A t \in Threads : thread[t].job \in Jobs <=> thread[t].pc \notin {"free", "done"}

TypeInv == TypeOK /\ HoldersOK

LEMMA InitTypeInv == Init => TypeInv
<1>1. Init => TypeOK
  BY Words, IdleRecords DEF Init, TypeOK, Job
<1>2. Init => HoldersOK
  BY NoneAssumption DEF Init, HoldersOK, MainDown, ThreadFree, Working
<1>3. QED
  BY <1>1, <1>2 DEF TypeInv

LEMMA DownTypeInv ==
    ASSUME TypeInv, NEW p \in Procs, Down(p), faults' \in Nat
    PROVE  TypeInv'
<1>1. TypeOK'
  BY IdleRecords DEF TypeInv, TypeOK, Down, dbVars, diskVars, envVars
<1>2. HoldersOK'
  BY NoneAssumption DEF TypeInv, TypeOK, HoldersOK, Down, MainDown, ThreadFree, Working
<1>3. QED
  BY <1>1, <1>2 DEF TypeInv

\* A main loop that goes on with its job, or puts it down, keeps HoldersOK.
LEMMA StepHolders ==
    ASSUME TypeInv, NEW p \in Procs, NEW pc, Steps(p, pc),
           main[p].job \in Jobs \/ pc \notin Working, thread' = thread
    PROVE  HoldersOK'
<1>1. CASE Step(p, pc)
  BY <1>1 DEF TypeInv, TypeOK, HoldersOK, Step, Main
<1>2. CASE \E made \in Made : StepWith(p, pc, made)
  <2>1. PICK made \in Made : main' = [main EXCEPT ![p].pc = pc, ![p].made = made]
    BY <1>2 DEF StepWith
  <2>2. /\ main'[p].pc = pc /\ main'[p].job = main[p].job
        /\ \A q \in Procs : q # p => main'[q] = main[q]
    BY <2>1 DEF TypeInv, TypeOK, Main
  <2>3. QED
    BY <2>2 DEF TypeInv, HoldersOK
<1>3. QED
  BY <1>1, <1>2 DEF Steps

LEMMA ResumeHolders ==
    ASSUME TypeInv, NEW p \in Procs, Resume(p), thread' = thread
    PROVE  HoldersOK'
  BY DEF TypeInv, TypeOK, HoldersOK, Resume, Working, Main

\* A step of a pass on the job that it inspects.
PassStep(p) ==
    \/ RecoverWithoutPrompt(p) \/ RecoverSucceededRequest(p)
    \/ AskHistory(p) \/ AskHistoryFails(p) \/ AskQueue(p) \/ AskQueueFails(p)
    \/ RecoverFetch(p) \/ RecoverFetchFails(p) \/ RecoverDownload(p) \/ RecoverVerify(p)
    \/ RecoverCheck(p) \/ RecoverLook(p) \/ RecoverMake(p) \/ RecoverMove(p)
    \/ RecoverPlaceFails(p) \/ RecoverCommit(p) \/ RecoverCommitFails(p) \/ RecoverTidy(p)
    \/ RecoverEmptyStaging(p) \/ RecoverCleanStaging(p) \/ RecoverCleanFinal(p)
    \/ RecoverFail(p)

LEMMA MainSteps ==
    ASSUME NEW p, MainStep(p)
    PROVE  \/ PassStep(p) \/ RecoverList(p) \/ RecoverNext(p) \/ RecoverEnd(p)
           \/ Claim(p) \/ RoundClaimed(p) \/ RoundDone(p) \/ Poll(p)
  BY DEF MainStep, PassStep

\* Where a step of a pass leaves its process, and what it does to the tables.
LEMMA PassForm ==
    ASSUME TypeOK, NEW p \in Procs, PassStep(p)
    PROVE  /\ main[p].pc \in Working
           /\ UNCHANGED <<thread, callback, lock, prompt, submits>>
           /\ Resume(p) \/ \E pc \in Working : Steps(p, pc)
           /\ DiskStep(main[p].job)
           /\ faults' = faults \/ faults' = faults + 1
<1> USE DEF dbVars, diskVars, envVars, Working
<1>1. CASE \/ RecoverWithoutPrompt(p) \/ RecoverSucceededRequest(p)
           \/ AskHistory(p) \/ AskHistoryFails(p) \/ AskQueue(p) \/ AskQueueFails(p)
           \/ RecoverFetchFails(p) \/ RecoverVerify(p) \/ RecoverCheck(p) \/ RecoverLook(p)
           \/ RecoverPlaceFails(p) \/ RecoverCommitFails(p) \/ RecoverFail(p)
  <2>1. /\ main[p].pc \in Working
        /\ UNCHANGED <<thread, callback, lock, prompt, submits>>
        /\ UNCHANGED diskVars
        /\ Resume(p) \/ \E pc \in Working : Step(p, pc)
        /\ faults' = faults \/ faults' = faults + 1
    BY <1>1 DEF RecoverWithoutPrompt, RecoverSucceededRequest, AskHistory, AskHistoryFails,
       AskQueue, AskQueueFails, RecoverFetchFails, RecoverVerify, RecoverCheck, RecoverLook,
       RecoverPlaceFails, RecoverCommitFails, RecoverFail, Fault, FaultUnless
  <2>2. QED
    BY <2>1 DEF DiskStep, Steps
<1>2. CASE RecoverCommit(p)
  <2>1. StepWith(p, "tidy", {"staging"})
    BY <1>2 DEF RecoverCommit
  <2>2. QED
    BY <1>2, <2>1, Words DEF RecoverCommit, DiskStep, Steps
<1>3. CASE RecoverFetch(p)
  <2>1. StepWith(p, "download", {"staging"})
    BY <1>3 DEF RecoverFetch
  <2>2. QED
    BY <1>3, <2>1, Words DEF RecoverFetch, DiskStep, Steps
<1>4. CASE RecoverMake(p)
  <2>1. StepWith(p, "move", {"staging", "final"})
    BY <1>4 DEF RecoverMake
  <2>2. QED
    BY <1>4, <2>1, Words DEF RecoverMake, DiskStep, Steps
<1>5. CASE RecoverDownload(p) \/ RecoverMove(p) \/ RecoverTidy(p)
  <2>1. Resume(p) \/ \E pc \in Working : Step(p, pc)
    BY <1>5 DEF RecoverDownload, RecoverMove, RecoverTidy
  <2>2. DiskStep(main[p].job)
    BY <1>5, Words DEF RecoverDownload, RecoverMove, RecoverTidy, DiskStep
  <2>3. QED
    BY <1>5, <2>1, <2>2 DEF RecoverDownload, RecoverMove, RecoverTidy, Steps
<1>6. CASE RecoverCleanStaging(p) \/ RecoverCleanFinal(p)
  <2>1. \E made \in Made : StepWith(p, "fail", made)
    BY <1>6, Words DEF RecoverCleanStaging, RecoverCleanFinal, TypeOK, Main, Made
  <2>2. DiskStep(main[p].job)
    BY <1>6, Words DEF RecoverCleanStaging, RecoverCleanFinal, DiskStep
  <2>3. QED
    BY <1>6, <2>1, <2>2 DEF RecoverCleanStaging, RecoverCleanFinal, Steps
<1>7. CASE RecoverEmptyStaging(p)
  <2>1. Step(p, main[p].pc) /\ main[p].pc \in {"tidy", "fail"}
    BY <1>7, StayForm DEF RecoverEmptyStaging, procVars
  <2>2. DiskStep(main[p].job)
    BY <1>7, Words DEF RecoverEmptyStaging, DiskStep
  <2>3. QED
    BY <1>7, <2>1, <2>2 DEF RecoverEmptyStaging, Steps, procVars
<1>8. QED
  BY <1>1, <1>2, <1>3, <1>4, <1>5, <1>6, <1>7 DEF PassStep

LEMMA PassTables ==
    ASSUME NEW p, PassStep(p)
    PROVE  \/ /\ RecoverWithoutPrompt(p) \/ RecoverFail(p)
              /\ job' = SetJob(main[p].job, "failed") /\ UNCHANGED <<req, takes>>
           \/ RecoverSucceededRequest(p) \/ RecoverCommit(p)
           \/ UNCHANGED <<job, req, takes>>
  BY DEF PassStep, dbVars, RecoverWithoutPrompt, AskHistory, AskHistoryFails, AskQueue,
     AskQueueFails, RecoverFetch, RecoverFetchFails, RecoverDownload, RecoverVerify,
     RecoverCheck, RecoverLook, RecoverMake, RecoverMove, RecoverPlaceFails,
     RecoverCommitFails, RecoverTidy, RecoverEmptyStaging, RecoverCleanStaging,
     RecoverCleanFinal, RecoverFail

LEMMA MainStepTypeInv ==
    ASSUME TypeInv, NEW p \in Procs, MainStep(p)
    PROVE  TypeInv'
<1> USE DEF dbVars, diskVars, envVars
<1>a. TypeOK /\ HoldersOK
  BY DEF TypeInv
<1>b. main[p] \in Main
  BY <1>a DEF TypeOK
<1>c. main[p].pc \in Working => main[p].job \in Jobs
  BY <1>a DEF HoldersOK
<1>1. CASE RecoverList(p)
  <2>0. main' \in [Procs -> Main]
    <3>1. main' = [main EXCEPT ![p] = [main[p] EXCEPT !.pc = "recover",
                        !.todo = {j \in Jobs : job[j].status = "claimed"}]]
      BY <1>1, <1>a DEF TypeOK, RecoverList
    <3>2. {j \in Jobs : job[j].status = "claimed"} \in SUBSET Jobs /\ "recover" \in MainPc
      BY Words
    <3>3. [main[p] EXCEPT !.pc = "recover",
               !.todo = {j \in Jobs : job[j].status = "claimed"}] \in Main
      BY <1>b, <3>2 DEF Main
    <3>4. QED
      BY <1>a, <3>1, <3>3 DEF TypeOK
  <2>1. TypeOK'
    BY <1>1, <1>a, <2>0 DEF TypeOK, RecoverList
  <2>2. QED
    BY <1>1, <1>a, <2>1 DEF TypeInv, TypeOK, HoldersOK, RecoverList, Working
<1>2. CASE RecoverNext(p)
  <2>1. TypeOK'
    BY <1>2, <1>a, Words DEF TypeOK, RecoverNext, Main
  <2>2. QED
    BY <1>2, <1>a, <2>1 DEF TypeInv, TypeOK, HoldersOK, RecoverNext, Working, Main
<1>3. CASE RecoverEnd(p)
  <2>1. PICK pc \in {"list", "claim"} :
            main' = [main EXCEPT ![p].pc = pc, ![p].boot = FALSE]
    <3>1. CASE main[p].boot
      BY <1>3, <3>1 DEF RecoverEnd
    <3>2. CASE ~main[p].boot
      BY <1>3, <3>2 DEF RecoverEnd
    <3>3. QED
      BY <3>1, <3>2
  <2>2. pc \in MainPc /\ pc \notin Working
    BY Words DEF Working
  <2>3. main' \in [Procs -> Main]
    BY <1>a, <2>1, <2>2 DEF TypeOK, Main
  <2>4. TypeOK'
    BY <1>3, <1>a, <2>3 DEF TypeOK, RecoverEnd
  <2>5. \A q \in Procs : main'[q].job = main[q].job
                         /\ (main'[q].pc = main[q].pc \/ main'[q].pc \notin Working)
    BY <1>a, <2>1, <2>2 DEF TypeOK, Main
  <2>6. HoldersOK'
    BY <1>3, <1>a, <2>5 DEF HoldersOK, RecoverEnd
  <2>7. QED
    BY <2>4, <2>6 DEF TypeInv
<1>4. CASE PassStep(p)
  <2>1. /\ main[p].job \in Jobs
        /\ UNCHANGED <<thread, callback, lock, prompt, submits>>
        /\ Resume(p) \/ \E pc \in Working : Steps(p, pc)
        /\ DiskStep(main[p].job)
        /\ faults' = faults \/ faults' = faults + 1
    BY <1>4, <1>a, <1>c, PassForm
  <2>2. /\ staged' \in [Jobs -> StagingState] /\ dirs' \subseteq Jobs
        /\ media' \subseteq Jobs /\ shared' \subseteq Jobs
    BY <1>a, <2>1, DiskType
  <2>3. Working \subseteq MainPc
    BY Words DEF Working
  <2>4. main' \in [Procs -> Main]
    BY <1>a, <2>1, <2>3, StepType, ResumeType
  <2>5. /\ job' \in [Jobs -> Job] /\ takes' \subseteq Jobs
        /\ req' \in [Jobs -> Request]
    <3>1. CASE RecoverCommit(p)
      BY <1>a, <2>1, <3>1, Words, FinalizedType, SetRequestType DEF RecoverCommit, TypeOK
    <3>2. CASE RecoverSucceededRequest(p)
      BY <1>a, <2>1, <3>2, Words, FinalizedType, SetJobType
         DEF RecoverSucceededRequest, TypeOK
    <3>3. CASE job' = SetJob(main[p].job, "failed") /\ UNCHANGED <<req, takes>>
      BY <1>a, <3>3, Words, SetJobType DEF TypeOK
    <3>4. CASE UNCHANGED <<job, req, takes>>
      BY <1>a, <3>4 DEF TypeOK
    <3>5. QED
      BY <1>4, <3>1, <3>2, <3>3, <3>4, PassTables
  <2>6. TypeOK'
    BY <1>a, <2>1, <2>2, <2>4, <2>5 DEF TypeOK
  <2>7. HoldersOK'
    BY <2>1, StepHolders, ResumeHolders
  <2>8. QED
    BY <2>6, <2>7 DEF TypeInv
<1>5. CASE Claim(p)
  <2>1. PICK j \in Jobs, s \in Slots :
            /\ thread[<<p, s>>].pc = "free"
            /\ job' = [job EXCEPT ![j].status = "claimed", ![j].attempts = @ + 1]
            /\ thread' = [thread EXCEPT ![<<p, s>>].pc = "install", ![<<p, s>>].job = j]
    BY <1>5 DEF Claim
  <2>2. <<p, s>> \in Threads
    BY DEF Threads
  <2>3. job' \in [Jobs -> Job]
    <3>1. job[j] \in Job
      BY <1>a DEF TypeOK
    <3>2. [job[j] EXCEPT !.status = "claimed", !.attempts = @ + 1] \in Job
      <4>1. job[j].attempts + 1 \in Nat
        BY <3>1 DEF Job
      <4>2. "claimed" \in JobStatus
        BY Words
      <4>3. QED
        BY <3>1, <4>1, <4>2 DEF Job
    <3>3. job' = [job EXCEPT ![j] = [job[j] EXCEPT !.status = "claimed", !.attempts = @ + 1]]
      BY <1>a, <2>1 DEF TypeOK
    <3>4. QED
      BY <1>a, <3>2, <3>3 DEF TypeOK
  <2>4. thread' \in [Threads -> Thread]
    <3>1. \A r \in Thread : [r EXCEPT !.pc = "install", !.job = j] \in Thread
      BY Words DEF Thread
    <3>2. thread' = [thread EXCEPT ![<<p, s>>] =
                        [thread[<<p, s>>] EXCEPT !.pc = "install", !.job = j]]
      BY <1>a, <2>1, <2>2 DEF TypeOK
    <3>3. QED
      BY <1>a, <2>2, <3>1, <3>2 DEF TypeOK
  <2>5. TypeOK'
    BY <1>5, <1>a, <2>3, <2>4 DEF TypeOK, Claim
  <2>6. HoldersOK'
    <3>1. \A t \in Threads : t # <<p, s>> => thread'[t] = thread[t]
      BY <1>a, <2>1 DEF TypeOK
    <3>2. thread'[<<p, s>>].job = j /\ thread'[<<p, s>>].pc = "install"
      BY <1>a, <2>1, <2>2 DEF TypeOK, Thread
    <3>3. main' = main
      BY <1>5 DEF Claim
    <3>4. QED
      BY <1>a, <3>1, <3>2, <3>3 DEF HoldersOK
  <2>7. QED
    BY <2>5, <2>6 DEF TypeInv
<1>6. CASE RoundClaimed(p) \/ Poll(p)
  <2>1. PICK pc \in MainPc : pc \notin Working /\ Steps(p, pc)
    BY <1>6, Words DEF RoundClaimed, Poll, Working, Steps
  <2>2. TypeOK'
    BY <1>6, <1>a, <2>1, StepType DEF TypeOK, RoundClaimed, Poll
  <2>3. QED
    BY <1>6, <2>1, <2>2, StepHolders DEF TypeInv, RoundClaimed, Poll
<1>7. CASE RoundDone(p)
  <2>1. TypeOK'
    BY <1>7, <1>a, Words, IdleRecords, StepType DEF TypeOK, RoundDone, Steps
  <2>2. HoldersOK'
    BY <1>7, <1>a, NoneAssumption
       DEF TypeOK, HoldersOK, RoundDone, Step, ThreadFree, Working, Main
  <2>3. QED
    BY <2>1, <2>2 DEF TypeInv
<1>8. QED
  BY <1>1, <1>2, <1>3, <1>4, <1>5, <1>6, <1>7, MainSteps

Idle == {"free", "done"}

PreSubmit == {"install", "resolve", "submit"}

LEMMA MovesEffect ==
    ASSUME TypeInv, NEW t \in Threads, NEW pc, Moves(t, pc)
    PROVE  /\ thread'[t].pc = pc /\ thread'[t].job = thread[t].job
           /\ \A u \in Threads : u # t => thread'[u] = thread[u]
<1>1. CASE Goto(t, pc)
  BY <1>1 DEF TypeInv, TypeOK, Thread, Goto
<1>2. CASE \E made \in Made : GotoWith(t, pc, made)
  BY <1>2 DEF TypeInv, TypeOK, Thread, GotoWith
<1>3. CASE \E errs \in SUBSET Errors : Throw(t, pc, errs)
  BY <1>3 DEF TypeInv, TypeOK, Thread, Throw
<1>4. QED
  BY <1>1, <1>2, <1>3 DEF Moves

\* A step of a thread on the directories of its job.
PlaceStep(t) ==
    \/ FetchResult(t) \/ Download(t) \/ MakeFinal(t) \/ MoveToFinal(t)
    \/ RemoveFinal(t) \/ EmptyStaging(t) \/ Tidy(t) \/ CleanStaging(t) \/ CleanFinal(t)

\* A step of a thread that raises.
RaiseStep(t) ==
    \/ ResolveFails(t) \/ SubmitRefused(t) \/ MonitorErrors(t) \/ MonitorTimesOut(t)
    \/ MonitorLosesSocket(t) \/ FetchFails(t) \/ DownloadFails(t) \/ PlaceFails(t)
    \/ CommitFails(t)

\* A step of a thread that writes its request.
RequestStep(t) ==
    \/ CreateRequest(t) \/ RecordPrompt(t) \/ MarkRunning(t)
    \/ UndoRequest(t) \/ AbortRequest(t)

\* A step of a thread that changes nothing but where it is.
QuietMove(t) ==
    \/ MonitorSucceeds(t) \/ VerifyMedia(t) \/ CheckFinal(t)
    \/ UndoFails(t) \/ AbortRequestFails(t)

LEMMA ThreadSteps ==
    ASSUME NEW t, ThreadStep(t)
    PROVE  \/ InstallCallback(t) \/ RestoreCallback(t)
           \/ Submit(t) \/ SubmitAnswerLost(t) \/ Commit(t) \/ ReportFailure(t)
           \/ PlaceStep(t) \/ RaiseStep(t) \/ RequestStep(t) \/ QuietMove(t)
  BY DEF ThreadStep, PlaceStep, RaiseStep, RequestStep, QuietMove

LEMMA PlaceForm ==
    ASSUME TypeOK, NEW t \in Threads, PlaceStep(t)
    PROVE  /\ thread[t].pc \notin Idle \cup PreSubmit
           /\ UNCHANGED <<job, req, takes, prompt, submits, main, callback, lock, faults>>
           /\ \E pc \in ThreadPc \ (Idle \cup PreSubmit) : Moves(t, pc)
           /\ DiskStep(thread[t].job)
<1> USE DEF dbVars, envVars, Idle, PreSubmit
<1>1. CASE FetchResult(t) \/ MakeFinal(t) \/ Tidy(t) \/ CleanStaging(t) \/ CleanFinal(t)
  <2>1. \E pc \in {"download", "move", "restore", "report"} : \E made \in Made :
            GotoWith(t, pc, made)
    BY <1>1, Words
       DEF FetchResult, MakeFinal, Tidy, CleanStaging, CleanFinal, TypeOK, Thread, Made
  <2>2. DiskStep(thread[t].job)
    BY <1>1, Words DEF FetchResult, MakeFinal, Tidy, CleanStaging, CleanFinal, DiskStep
  <2>3. QED
    BY <1>1, <2>1, <2>2, Words
       DEF FetchResult, MakeFinal, Tidy, CleanStaging, CleanFinal, Moves
<1>2. CASE Download(t) \/ MoveToFinal(t) \/ RemoveFinal(t)
  <2>1. \E pc \in {"verify", "commit", "undo"} : Goto(t, pc)
    BY <1>2 DEF Download, MoveToFinal, RemoveFinal
  <2>2. DiskStep(thread[t].job)
    BY <1>2, Words DEF Download, MoveToFinal, RemoveFinal, DiskStep
  <2>3. QED
    BY <1>2, <2>1, <2>2, Words DEF Download, MoveToFinal, RemoveFinal, Moves
<1>3. CASE EmptyStaging(t)
  <2>1. Goto(t, thread[t].pc) /\ thread[t].pc \in {"tidy", "report"}
    BY <1>3, StayForm DEF EmptyStaging, procVars
  <2>2. DiskStep(thread[t].job)
    BY <1>3, Words DEF EmptyStaging, DiskStep
  <2>3. QED
    BY <1>3, <2>1, <2>2, Words DEF EmptyStaging, Moves, procVars
<1>4. QED
  BY <1>1, <1>2, <1>3 DEF PlaceStep

LEMMA RaiseForm ==
    ASSUME TypeOK, NEW t \in Threads, RaiseStep(t)
    PROVE  /\ thread[t].pc \notin Idle
           /\ UNCHANGED <<job, req, takes, diskVars, prompt, submits, main, callback, lock>>
           /\ \E pc \in {"abort", "report", "unmake"} : \E errs \in SUBSET Errors : Throw(t, pc, errs)
           /\ \E pc \in ThreadPc \ (Idle \cup PreSubmit) : Moves(t, pc)
           /\ faults' = faults \/ faults' = faults + 1
<1> USE DEF dbVars, envVars, Idle, PreSubmit
<1>1. ComfyErrors \subseteq Errors /\ {"timeout"} \subseteq Errors /\ {"other"} \subseteq Errors
  BY Words DEF ComfyErrors
<1>2. \E pc \in {"abort", "report", "unmake"} : \E errs \in SUBSET Errors : Throw(t, pc, errs)
  BY <1>1 DEF RaiseStep, ResolveFails, SubmitRefused, MonitorErrors, MonitorTimesOut,
     MonitorLosesSocket, FetchFails, DownloadFails, PlaceFails, CommitFails
<1>3. \E pc \in ThreadPc \ (Idle \cup PreSubmit) : Moves(t, pc)
  BY <1>2, Words DEF Moves
<1>4. /\ thread[t].pc \notin Idle
      /\ UNCHANGED <<job, req, takes, diskVars, prompt, submits, main, callback, lock>>
      /\ faults' = faults \/ faults' = faults + 1
  BY DEF RaiseStep, ResolveFails, SubmitRefused, MonitorErrors, MonitorTimesOut,
     MonitorLosesSocket, FetchFails, DownloadFails, PlaceFails, CommitFails, Fault, FaultUnless
<1>5. QED
  BY <1>2, <1>3, <1>4

LEMMA RequestForm ==
    ASSUME NEW t \in Threads, RequestStep(t)
    PROVE  /\ thread[t].pc \notin Idle
           /\ UNCHANGED <<job, takes, diskVars, prompt, submits, main, callback, lock, faults>>
           /\ \/ \E st \in RequestState \ {"succeeded"} : req' = [req EXCEPT ![thread[t].job].status = st]
              \/ req' = [req EXCEPT ![thread[t].job] = [status |-> "queued", prompt |-> TRUE]]
           /\ \/ CreateRequest(t) /\ Moves(t, "submit")
              \/ \E pc \in ThreadPc \ (Idle \cup PreSubmit) : Moves(t, pc)
<1> USE DEF envVars, Idle, PreSubmit
<1>1. CASE CreateRequest(t)
  BY <1>1, Words DEF CreateRequest, Moves
<1>2. CASE RecordPrompt(t) \/ MarkRunning(t) \/ AbortRequest(t)
  <2>1. \E pc \in {"running", "monitor", "report"} : Goto(t, pc)
    BY <1>2 DEF RecordPrompt, MarkRunning, AbortRequest
  <2>2. QED
    BY <1>2, <2>1, Words DEF RecordPrompt, MarkRunning, AbortRequest, FailRequest, Moves
<1>3. CASE UndoRequest(t)
  <2>1. GotoWith(t, "report", {})
    BY <1>3 DEF UndoRequest
  <2>2. QED
    BY <1>3, <2>1, Words DEF UndoRequest, FailRequest, Moves
<1>4. QED
  BY <1>1, <1>2, <1>3 DEF RequestStep

LEMMA QuietForm ==
    ASSUME NEW t \in Threads, QuietMove(t)
    PROVE  /\ thread[t].pc \notin Idle
           /\ UNCHANGED <<job, req, takes, diskVars, prompt, submits, main, callback, lock>>
           /\ \E pc \in {"fetch", "check", "make", "abort", "report"} : Goto(t, pc)
           /\ \E pc \in ThreadPc \ (Idle \cup PreSubmit) : Moves(t, pc)
           /\ faults' = faults \/ faults' = faults + 1
<1> USE DEF dbVars, envVars, Idle, PreSubmit
<1>1. \E pc \in {"fetch", "check", "make", "abort", "report"} : Goto(t, pc)
  BY DEF QuietMove, MonitorSucceeds, VerifyMedia, CheckFinal, UndoFails, AbortRequestFails
<1>2. QED
  BY <1>1, Words DEF QuietMove, MonitorSucceeds, VerifyMedia, CheckFinal, UndoFails,
     AbortRequestFails, Fault, Moves

\* Where a step of a thread leaves it, and what it leaves alone.
LEMMA ThreadForm ==
    ASSUME TypeOK, NEW t \in Threads, ThreadStep(t)
    PROVE  /\ thread[t].pc \notin Idle /\ UNCHANGED <<main, lock>>
           /\ \/ InstallCallback(t) \/ RestoreCallback(t)
              \/ /\ callback' = callback
                 /\ \/ CreateRequest(t) /\ Moves(t, "submit")
                    \/ \E pc \in ThreadPc \ (Idle \cup PreSubmit) : Moves(t, pc)
           /\ \/ Submit(t) \/ SubmitAnswerLost(t)
              \/ UNCHANGED <<prompt, submits>>
           /\ DiskStep(thread[t].job)
           /\ faults' = faults \/ faults' = faults + 1
<1> USE DEF Idle, PreSubmit
<1>1. CASE InstallCallback(t) \/ RestoreCallback(t)
  BY <1>1 DEF InstallCallback, RestoreCallback, DiskStep, envVars
<1>2. CASE Submit(t) \/ SubmitAnswerLost(t)
  <2>1. \E pc \in {"record", "abort"} : Goto(t, pc) \/ \E errs \in SUBSET Errors : Throw(t, pc, errs)
    BY <1>2, Words DEF Submit, SubmitAnswerLost, ComfyErrors
  <2>2. QED
    BY <1>2, <2>1, Words DEF Submit, SubmitAnswerLost, DiskStep, Fault, Moves
<1>3. CASE Commit(t) \/ ReportFailure(t)
  <2>1. \E pc \in {"tidy", "restore"} : Moves(t, pc)
    BY <1>3, Words DEF Commit, ReportFailure, Moves
  <2>2. QED
    BY <1>3, <2>1, Words DEF Commit, ReportFailure, DiskStep, envVars
<1>4. CASE PlaceStep(t)
  BY <1>4, PlaceForm
<1>5. CASE RaiseStep(t)
  BY <1>5, RaiseForm DEF DiskStep
<1>6. CASE RequestStep(t)
  BY <1>6, RequestForm DEF DiskStep
<1>7. CASE QuietMove(t)
  BY <1>7, QuietForm DEF DiskStep
<1>8. QED
  BY <1>1, <1>2, <1>3, <1>4, <1>5, <1>6, <1>7, ThreadSteps

LEMMA ThreadTables ==
    ASSUME TypeOK, NEW t \in Threads, ThreadStep(t)
    PROVE  \/ Commit(t)
           \/ ReportFailure(t)
           \/ RequestStep(t) /\ UNCHANGED <<job, takes>>
           \/ UNCHANGED <<job, req, takes>>
<1>1. CASE \/ InstallCallback(t) \/ RestoreCallback(t) \/ Submit(t) \/ SubmitAnswerLost(t)
  BY <1>1 DEF InstallCallback, RestoreCallback, Submit, SubmitAnswerLost, dbVars
<1>2. QED
  BY <1>1, ThreadSteps, PlaceForm, RaiseForm, RequestForm, QuietForm

LEMMA ThreadStepTypeInv ==
    ASSUME TypeInv, NEW t \in Threads, ThreadStep(t)
    PROVE  TypeInv'
<1> USE DEF dbVars, diskVars, envVars
<1>a. TypeOK /\ HoldersOK
  BY DEF TypeInv
<1>b. thread[t] \in Thread
  BY <1>a DEF TypeOK
<1>c. thread[t].pc \notin Idle /\ thread[t].job \in Jobs
  BY <1>a, ThreadForm DEF HoldersOK, Idle
<1>d. t[1] \in Procs
  BY DEF Threads
<1>f. "resolve" \in ThreadPc
  BY Words
<1>1. CASE InstallCallback(t)
  <2>1. thread' \in [Threads -> Thread]
    <3>1. callback[t[1]] \in Jobs \cup {None} /\ "resolve" \in ThreadPc
      BY <1>a, <1>d, <1>f DEF TypeOK
    <3>2. thread' = [thread EXCEPT ![t] =
                        [thread[t] EXCEPT !.pc = "resolve", !.saved = callback[t[1]]]]
      BY <1>1, <1>a DEF TypeOK, InstallCallback
    <3>3. [thread[t] EXCEPT !.pc = "resolve", !.saved = callback[t[1]]] \in Thread
      BY <1>b, <3>1 DEF Thread
    <3>4. QED
      BY <1>a, <3>2, <3>3 DEF TypeOK
  <2>2. callback' \in [Procs -> Jobs \cup {None}]
    BY <1>1, <1>a, <1>b DEF TypeOK, InstallCallback, Thread
  <2>3. TypeOK'
    BY <1>1, <1>a, <2>1, <2>2 DEF TypeOK, InstallCallback
  <2>4. \A u \in Threads : u # t => thread'[u] = thread[u]
    BY <1>1, <1>a DEF TypeOK, InstallCallback
  <2>5. thread'[t].job = thread[t].job /\ thread'[t].pc = "resolve"
    BY <1>1, <1>a DEF TypeOK, Thread, InstallCallback
  <2>6. HoldersOK'
    BY <1>1, <1>a, <2>4, <2>5 DEF HoldersOK, InstallCallback
  <2>7. QED
    BY <2>3, <2>6 DEF TypeInv
<1>2. CASE RestoreCallback(t)
  <2>1. [ThreadFree EXCEPT !.pc = "done"] \in Thread
    BY Words, IdleRecords DEF Thread, ThreadFree
  <2>2. callback' \in [Procs -> Jobs \cup {None}]
    BY <1>2, <1>a, <1>b DEF TypeOK, RestoreCallback, Thread
  <2>3. TypeOK'
    BY <1>2, <1>a, <2>1, <2>2 DEF TypeOK, RestoreCallback
  <2>4. thread'[t].job = None /\ thread'[t].pc = "done"
    BY <1>2, <1>a DEF TypeOK, RestoreCallback, ThreadFree
  <2>5. \A u \in Threads : u # t => thread'[u] = thread[u]
    BY <1>2, <1>a DEF TypeOK, RestoreCallback
  <2>6. HoldersOK'
    BY <1>2, <1>a, <2>4, <2>5, NoneAssumption DEF HoldersOK, RestoreCallback
  <2>7. QED
    BY <2>3, <2>6 DEF TypeInv
<1>3. CASE ~InstallCallback(t) /\ ~RestoreCallback(t)
  <2>1. PICK pc \in ThreadPc \ Idle : Moves(t, pc)
    BY <1>3, <1>a, Words, ThreadForm DEF Idle
  <2>2. UNCHANGED <<main, lock, callback>>
    BY <1>3, <1>a, ThreadForm
  <2>3. faults' \in Nat
    BY <1>a, ThreadForm DEF TypeOK
  <2>4. /\ staged' \in [Jobs -> StagingState] /\ dirs' \subseteq Jobs
        /\ media' \subseteq Jobs /\ shared' \subseteq Jobs
    BY <1>a, <1>c, ThreadForm, DiskType
  <2>5. prompt' \in [Jobs -> PromptState] /\ submits' \in [Jobs -> Nat]
    <3>1. CASE ComfyAccepts(thread[t].job)
      <4>1. \A j \in Jobs : submits[j] + 1 \in Nat
        BY <1>a DEF TypeOK
      <4>2. submits' \in [Jobs -> Nat]
        BY <1>a, <3>1, <4>1 DEF TypeOK, ComfyAccepts
      <4>3. prompt' \in [Jobs -> PromptState]
        BY <1>a, <3>1, Words DEF TypeOK, ComfyAccepts
      <4>4. QED
        BY <4>2, <4>3
    <3>2. CASE UNCHANGED <<prompt, submits>>
      BY <1>a, <3>2 DEF TypeOK
    <3>3. QED
      BY <1>a, <3>1, <3>2, ThreadForm DEF Submit, SubmitAnswerLost
  <2>6. /\ job' \in [Jobs -> Job] /\ takes' \subseteq Jobs
        /\ req' \in [Jobs -> Request]
    <3>1. CASE Commit(t)
      BY <1>a, <1>c, <3>1, Words, FinalizedType, SetRequestType DEF Commit, TypeOK
    <3>2. CASE ReportFailure(t)
      BY <1>a, <3>2, Words, SetJobType DEF ReportFailure, TypeOK
    <3>3. CASE RequestStep(t) /\ UNCHANGED <<job, takes>>
      <4>1. "queued" \in RequestState
        BY Words
      <4>2. PICK st \in RequestState :
                \/ req' = [req EXCEPT ![thread[t].job].status = st]
                \/ req' = [req EXCEPT ![thread[t].job] = [status |-> st, prompt |-> TRUE]]
        BY <3>3, <4>1, RequestForm
      <4>3. req' \in [Jobs -> Request]
        BY <1>a, <4>2, SetRequestType
      <4>4. QED
        BY <1>a, <3>3, <4>3 DEF TypeOK
    <3>4. CASE UNCHANGED <<job, req, takes>>
      BY <1>a, <3>4 DEF TypeOK
    <3>5. QED
      BY <1>a, <3>1, <3>2, <3>3, <3>4, ThreadTables
  <2>7. thread' \in [Threads -> Thread]
    BY <1>a, <2>1, MovesType
  <2>8. TypeOK'
    BY <1>a, <2>2, <2>3, <2>4, <2>5, <2>6, <2>7 DEF TypeOK
  <2>9. HoldersOK'
    BY <1>a, <1>c, <2>1, <2>2, MovesEffect DEF HoldersOK, Idle
  <2>10. QED
    BY <2>8, <2>9 DEF TypeInv
<1>4. QED
  BY <1>1, <1>2, <1>3

\* One action at a time keeps every variable in its type, and every actor that
\* works on a job holding one.
LEMMA NextTypeInv == TypeInv /\ [Next]_vars => TypeInv'
<1> SUFFICES ASSUME TypeInv, [Next]_vars PROVE TypeInv'
  OBVIOUS
<1> USE DEF dbVars, diskVars, envVars, procVars
<1>a. TypeOK /\ HoldersOK
  BY DEF TypeInv
<1>1. ASSUME NEW j \in Jobs, Enqueue(j) PROVE TypeInv'
  <2>1. TypeOK'
    BY <1>1, <1>a, Words, SetJobType DEF TypeOK, Enqueue
  <2>2. QED
    BY <1>1, <1>a, <2>1 DEF TypeInv, HoldersOK, Enqueue
<1>2. ASSUME NEW j \in Jobs, PromptStarts(j) \/ PromptEnds(j) PROVE TypeInv'
  <2>1. prompt' \in [Jobs -> PromptState]
    BY <1>2, <1>a, Words DEF TypeOK, PromptStarts, PromptEnds
  <2>2. QED
    BY <1>2, <1>a, <2>1 DEF TypeInv, TypeOK, HoldersOK, PromptStarts, PromptEnds
<1>3. CASE ComfyRestarts
  <2>1. prompt' \in [Jobs -> PromptState]
    BY <1>3, Words DEF ComfyRestarts
  <2>2. QED
    BY <1>3, <1>a, <2>1 DEF TypeInv, TypeOK, HoldersOK, ComfyRestarts, Fault
<1>4. ASSUME NEW p \in Procs, Start(p) PROVE TypeInv'
  <2>1. main' \in [Procs -> Main]
    <3>1. \A r \in Main : [r EXCEPT !.pc = "list", !.boot = TRUE] \in Main
      BY Words DEF Main
    <3>2. main' = [main EXCEPT ![p] = [main[p] EXCEPT !.pc = "list", !.boot = TRUE]]
      BY <1>4, <1>a DEF TypeOK, Start
    <3>3. QED
      BY <1>a, <3>1, <3>2 DEF TypeOK
  <2>2. lock' \in Runners \cup {None}
    BY <1>4, <1>a DEF TypeOK, Start
  <2>3. TypeOK'
    BY <1>4, <1>a, <2>1, <2>2 DEF TypeOK, Start
  <2>4. HoldersOK'
    BY <1>4, <1>a DEF TypeOK, HoldersOK, Start, Main, Working
  <2>5. QED
    BY <2>3, <2>4 DEF TypeInv
<1>5. ASSUME NEW p \in Procs, Stop(p) \/ Crash(p) PROVE TypeInv'
  <2>1. Down(p) /\ faults' \in Nat
    BY <1>5, <1>a DEF TypeOK, Stop, Crash, Fault
  <2>2. QED
    BY <2>1, DownTypeInv
<1>6. ASSUME NEW p \in Procs, MainStep(p) PROVE TypeInv'
  BY <1>6, MainStepTypeInv
<1>7. ASSUME NEW t \in Threads, ThreadStep(t) PROVE TypeInv'
  BY <1>7, ThreadStepTypeInv
<1>8. CASE UNCHANGED vars
  BY <1>8, <1>a DEF TypeInv, TypeOK, HoldersOK, vars
<1>9. QED
  BY <1>1, <1>2, <1>3, <1>4, <1>5, <1>6, <1>7, <1>8 DEF Next

\* Every variable keeps its type, and an actor that works on a job holds one.
THEOREM TypeCorrect == Spec => []TypeInv
<1>1. Init => TypeInv
  BY InitTypeInv
<1>2. TypeInv /\ [Next]_vars => TypeInv'
  BY NextTypeInv
<1>3. QED
  BY <1>1, <1>2, PTL DEF Spec

\* Every variable of the workers keeps its type in every reachable state.
THEOREM TypesHold == Spec => []TypeOK
<1>1. TypeInv => TypeOK
  BY DEF TypeInv
<1>2. QED
  BY <1>1, TypeCorrect, PTL

-----------------------------------------------------------------------------
(* One submission per job *)

Unclaimed == {"absent", "pending"}

\* AtMostOneSubmission is not inductive: a job must be known to have no prompt
\* yet when its only thread reaches the submit.
OnceInv ==
    /\ \A j \in Jobs : job[j].status \in Unclaimed =>
          submits[j] = 0 /\ \A t \in Threads : thread[t].job # j
    /\ \A t \in Threads : thread[t].pc \in PreSubmit => submits[thread[t].job] = 0
    /\ \A t, u \in Threads :
          thread[t].job \in Jobs /\ thread[t].job = thread[u].job => t = u
    /\ AtMostOneSubmission

\* What a step does to job when it neither inserts nor claims a row.
LEMMA SetJobKeeps ==
    ASSUME TypeOK, NEW k, NEW st \in JobStatus \ Unclaimed
    PROVE  \A j \in Jobs : SetJob(k, st)[j].status \in Unclaimed => job[j].status \in Unclaimed
  BY DEF TypeOK, SetJob, Job

LEMMA FinalizedKeeps ==
    ASSUME TypeOK, NEW cb, NEW take \in Jobs
    PROVE  \A j \in Jobs : Finalized(cb, take)[j].status \in Unclaimed
                           => job[j].status \in Unclaimed
  BY DEF TypeOK, Finalized, Job, Unclaimed

\* The steps that submit nothing and give no thread a job.
LEMMA QuietStep ==
    ASSUME TypeInv, TypeInv', OnceInv, submits' = submits,
           \A j \in Jobs : job'[j].status \in Unclaimed => job[j].status \in Unclaimed,
           \A t \in Threads : thread'[t].job \in Jobs =>
               /\ thread'[t].job = thread[t].job
               /\ thread'[t].pc \in PreSubmit => thread[t].pc \in PreSubmit
    PROVE  OnceInv'
<1>1. \A t \in Threads : thread'[t].pc \in PreSubmit => thread'[t].job \in Jobs
  BY DEF TypeInv, HoldersOK, PreSubmit
<1>2. \A j \in Jobs : job'[j].status \in Unclaimed =>
          submits'[j] = 0 /\ \A t \in Threads : thread'[t].job # j
  BY DEF OnceInv
<1>3. \A t \in Threads : thread'[t].pc \in PreSubmit => submits'[thread'[t].job] = 0
  BY <1>1 DEF OnceInv
<1>4. \A t, u \in Threads :
          thread'[t].job \in Jobs /\ thread'[t].job = thread'[u].job => t = u
  BY DEF OnceInv
<1>5. QED
  BY <1>2, <1>3, <1>4 DEF OnceInv, AtMostOneSubmission

LEMMA MainStepOnce ==
    ASSUME TypeInv, TypeInv', OnceInv, NEW p \in Procs, MainStep(p)
    PROVE  OnceInv'
<1> USE DEF dbVars, diskVars, envVars
<1>a. TypeOK /\ HoldersOK
  BY DEF TypeInv
<1>b. main[p].pc \in Working => main[p].job \in Jobs
  BY <1>a DEF HoldersOK
<1>c. {"succeeded", "failed", "claimed"} \subseteq JobStatus \ Unclaimed
  BY Words DEF Unclaimed
<1>1. CASE RecoverList(p) \/ RecoverNext(p) \/ RecoverEnd(p) \/ RoundClaimed(p) \/ Poll(p)
  <2>1. UNCHANGED <<job, submits, thread>>
    BY <1>1 DEF RecoverList, RecoverNext, RecoverEnd, RoundClaimed, Poll
  <2>2. QED
    BY <2>1, QuietStep
<1>2. CASE PassStep(p)
  <2>1. UNCHANGED <<submits, thread>> /\ main[p].job \in Jobs
    BY <1>2, <1>a, <1>b, PassForm
  <2>2. \/ job' = job \/ job' = SetJob(main[p].job, "failed")
        \/ job' = Finalized(main[p].job, main[p].job)
    BY <1>2, PassTables DEF RecoverSucceededRequest, RecoverCommit
  <2>3. \A j \in Jobs : job'[j].status \in Unclaimed => job[j].status \in Unclaimed
    BY <1>a, <1>c, <2>1, <2>2, SetJobKeeps, FinalizedKeeps
  <2>4. QED
    BY <2>1, <2>3, QuietStep
<1>4. CASE Claim(p)
  <2>1. PICK k \in Jobs, s \in Slots :
            /\ job[k].status = "pending"
            /\ thread[<<p, s>>].pc = "free"
            /\ job' = [job EXCEPT ![k].status = "claimed", ![k].attempts = @ + 1]
            /\ thread' = [thread EXCEPT ![<<p, s>>].pc = "install", ![<<p, s>>].job = k]
            /\ submits' = submits
    BY <1>4 DEF Claim, Best, Claimable
  <2>2. <<p, s>> \in Threads
    BY DEF Threads
  <2>3. \A t \in Threads : t # <<p, s>> => thread'[t] = thread[t]
    BY <1>a, <2>1 DEF TypeOK
  <2>4. thread'[<<p, s>>].job = k
    BY <1>a, <2>1, <2>2 DEF TypeOK, Thread
  <2>5. submits[k] = 0 /\ \A t \in Threads : thread[t].job # k
    BY <2>1 DEF OnceInv, Unclaimed
  <2>6. \A j \in Jobs : job'[j].status \in Unclaimed => j # k /\ job[j].status \in Unclaimed
    BY <1>a, <2>1 DEF TypeOK, Job, Unclaimed
  <2>7. \A j \in Jobs : job'[j].status \in Unclaimed =>
            submits'[j] = 0 /\ \A t \in Threads : thread'[t].job # j
    BY <2>1, <2>3, <2>4, <2>6 DEF OnceInv
  <2>8. \A t \in Threads : thread'[t].pc \in PreSubmit => submits'[thread'[t].job] = 0
    BY <2>1, <2>3, <2>4, <2>5 DEF OnceInv
  <2>9. \A t, u \in Threads :
            thread'[t].job \in Jobs /\ thread'[t].job = thread'[u].job => t = u
    BY <2>3, <2>4, <2>5 DEF OnceInv
  <2>10. QED
    BY <2>1, <2>7, <2>8, <2>9 DEF OnceInv, AtMostOneSubmission
<1>5. CASE RoundDone(p)
  <2>1. \A t \in Threads : thread'[t].job \in Jobs => thread'[t] = thread[t]
    BY <1>5, <1>a, NoneAssumption DEF RoundDone, ThreadFree
  <2>2. UNCHANGED <<job, submits>>
    BY <1>5 DEF RoundDone
  <2>3. QED
    BY <2>1, <2>2, QuietStep
<1>6. QED
  BY <1>1, <1>2, <1>4, <1>5, MainSteps

\* A thread that reaches the submit is the only one that holds its job, and no
\* prompt was accepted for that job before.
LEMMA SubmitOnce ==
    ASSUME TypeInv, TypeInv', OnceInv, NEW t \in Threads,
           Submit(t) \/ SubmitAnswerLost(t)
    PROVE  OnceInv'
<1> USE DEF dbVars, diskVars, envVars
<1>a. TypeOK /\ HoldersOK
  BY DEF TypeInv
<1> DEFINE k == thread[t].job
<1>1. k \in Jobs /\ thread[t].pc = "submit" /\ submits[k] = 0
  BY <1>a DEF Submit, SubmitAnswerLost, HoldersOK, OnceInv, PreSubmit
<1>2. job' = job /\ submits' = [submits EXCEPT ![k] = @ + 1]
  BY DEF Submit, SubmitAnswerLost, ComfyAccepts
<1>3. \A u \in Threads : u # t => thread'[u] = thread[u]
  BY <1>a DEF Submit, SubmitAnswerLost, Goto, Throw, TypeOK
<1>4. thread'[t].job = k /\ thread'[t].pc \notin PreSubmit
  BY <1>a DEF Submit, SubmitAnswerLost, Goto, Throw, TypeOK, Thread, PreSubmit
<1>5. \A j \in Jobs : submits'[j] = IF j = k THEN 1 ELSE submits[j]
  BY <1>a, <1>1, <1>2 DEF TypeOK
<1>6. \A u \in Threads : u # t => thread[u].job # k
  BY <1>1 DEF OnceInv
<1>7. \A u \in Threads : thread'[u].job = thread[u].job
  BY <1>3, <1>4
<1>8. \A j \in Jobs : job'[j].status \in Unclaimed =>
          submits'[j] = 0 /\ \A u \in Threads : thread'[u].job # j
  BY <1>1, <1>2, <1>5, <1>7 DEF OnceInv
<1>9. \A u \in Threads : thread'[u].pc \in PreSubmit => submits'[thread'[u].job] = 0
  <2> SUFFICES ASSUME NEW u \in Threads, thread'[u].pc \in PreSubmit
               PROVE  submits'[thread'[u].job] = 0
    OBVIOUS
  <2>1. u # t /\ thread[u].pc \in PreSubmit
    BY <1>3, <1>4
  <2>2. thread[u].job \in Jobs /\ submits[thread[u].job] = 0
    BY <1>a, <2>1 DEF OnceInv, HoldersOK, PreSubmit
  <2>3. QED
    BY <1>5, <1>6, <1>7, <2>1, <2>2
<1>10. \A u, v \in Threads :
           thread'[u].job \in Jobs /\ thread'[u].job = thread'[v].job => u = v
  BY <1>7 DEF OnceInv
<1>11. AtMostOneSubmission'
  BY <1>5 DEF OnceInv, AtMostOneSubmission
<1>12. QED
  BY <1>8, <1>9, <1>10, <1>11 DEF OnceInv

LEMMA ThreadStepOnce ==
    ASSUME TypeInv, TypeInv', OnceInv, NEW t \in Threads, ThreadStep(t)
    PROVE  OnceInv'
<1> USE DEF dbVars, diskVars, envVars
<1>a. TypeOK /\ HoldersOK
  BY DEF TypeInv
<1>b. {"succeeded", "failed", "claimed"} \subseteq JobStatus \ Unclaimed
  BY Words DEF Unclaimed
<1>1. CASE Submit(t) \/ SubmitAnswerLost(t)
  BY <1>1, SubmitOnce
<1>2. CASE InstallCallback(t) \/ CreateRequest(t)
  <2>1. UNCHANGED <<job, submits>> /\ thread[t].pc \in PreSubmit
    BY <1>2 DEF InstallCallback, CreateRequest, PreSubmit
  <2>2. \A u \in Threads : u # t => thread'[u] = thread[u]
    BY <1>2, <1>a DEF InstallCallback, CreateRequest, Goto, TypeOK
  <2>3. thread'[t].job = thread[t].job
    BY <1>2, <1>a DEF InstallCallback, CreateRequest, Goto, TypeOK, Thread
  <2>4. QED
    BY <2>1, <2>2, <2>3, QuietStep
<1>3. CASE /\ ~Submit(t) /\ ~SubmitAnswerLost(t)
           /\ ~InstallCallback(t) /\ ~CreateRequest(t) /\ ~RestoreCallback(t)
  <2>1. /\ submits' = submits /\ thread[t].job \in Jobs
        /\ \E pc \in ThreadPc \ (Idle \cup PreSubmit) : Moves(t, pc)
    BY <1>3, <1>a, ThreadForm DEF HoldersOK, Idle
  <2>2. /\ \A u \in Threads : u # t => thread'[u] = thread[u]
        /\ thread'[t].job = thread[t].job /\ thread'[t].pc \notin PreSubmit
    BY <2>1, MovesEffect
  <2>3. \A j \in Jobs : job'[j].status \in Unclaimed => job[j].status \in Unclaimed
    <3>1. CASE Commit(t)
      BY <1>a, <2>1, <3>1, FinalizedKeeps DEF Commit
    <3>2. CASE ReportFailure(t)
      BY <1>a, <1>b, <3>2, SetJobKeeps DEF ReportFailure
    <3>3. CASE job' = job
      BY <3>3
    <3>4. QED
      BY <1>a, <3>1, <3>2, <3>3, ThreadTables
  <2>4. QED
    BY <2>1, <2>2, <2>3, QuietStep
<1>4. CASE RestoreCallback(t)
  <2>1. \A u \in Threads : u # t => thread'[u] = thread[u]
    BY <1>4, <1>a DEF RestoreCallback, TypeOK
  <2>2. thread'[t].job = None
    BY <1>4, <1>a DEF RestoreCallback, TypeOK, ThreadFree
  <2>3. UNCHANGED <<job, submits>>
    BY <1>4 DEF RestoreCallback
  <2>4. QED
    BY <2>1, <2>2, <2>3, NoneAssumption, QuietStep
<1>5. QED
  BY <1>1, <1>2, <1>3, <1>4

LEMMA NextOnce == TypeInv /\ TypeInv' /\ OnceInv /\ [Next]_vars => OnceInv'
<1> SUFFICES ASSUME TypeInv, TypeInv', OnceInv, [Next]_vars PROVE OnceInv'
  OBVIOUS
<1> USE DEF dbVars, diskVars, envVars, procVars
<1>a. TypeOK
  BY DEF TypeInv
<1>1. ASSUME NEW j \in Jobs, Enqueue(j) PROVE OnceInv'
  <2>1. \A k \in Jobs : job'[k].status \in Unclaimed => job[k].status \in Unclaimed
    BY <1>1, <1>a DEF Enqueue, SetJob, TypeOK, Job, Unclaimed
  <2>2. UNCHANGED <<submits, thread>>
    BY <1>1 DEF Enqueue
  <2>3. QED
    BY <2>1, <2>2, QuietStep
<1>2. CASE \/ \E j \in Jobs : PromptStarts(j) \/ PromptEnds(j)
           \/ \E p \in Procs : Start(p)
           \/ ComfyRestarts
           \/ UNCHANGED vars
  <2>1. UNCHANGED <<job, submits, thread>>
    BY <1>2 DEF PromptStarts, PromptEnds, Start, ComfyRestarts, vars
  <2>2. QED
    BY <2>1, QuietStep
<1>3. ASSUME NEW p \in Procs, Stop(p) \/ Crash(p) PROVE OnceInv'
  <2>1. Down(p)
    BY <1>3 DEF Stop, Crash
  <2>2. \A t \in Threads : thread'[t].job \in Jobs => thread'[t] = thread[t]
    BY <1>a, <2>1, NoneAssumption DEF Down, ThreadFree
  <2>3. UNCHANGED <<job, submits>>
    BY <2>1 DEF Down
  <2>4. QED
    BY <2>2, <2>3, QuietStep
<1>4. ASSUME NEW p \in Procs, MainStep(p) PROVE OnceInv'
  BY <1>4, MainStepOnce
<1>5. ASSUME NEW t \in Threads, ThreadStep(t) PROVE OnceInv'
  BY <1>5, ThreadStepOnce
<1>6. QED
  BY <1>1, <1>2, <1>3, <1>4, <1>5 DEF Next

\* However many processes and threads compete, crash and recover, ComfyUI
\* accepts at most one prompt for each job.
THEOREM SubmittedAtMostOnce == Spec => []AtMostOneSubmission
<1>1. Init => OnceInv
  BY NoneAssumption
     DEF Init, OnceInv, AtMostOneSubmission, ThreadFree, PreSubmit
<1>2. TypeInv /\ TypeInv' /\ OnceInv /\ [Next]_vars => OnceInv'
  BY NextOnce
<1>3. OnceInv => AtMostOneSubmission
  BY DEF OnceInv
<1>4. QED
  BY <1>1, <1>2, <1>3, TypeCorrect, PTL DEF Spec
=============================================================================
