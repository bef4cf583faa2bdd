------------------------- MODULE Finalization_proofs -------------------------
(***************************************************************************)
(* Theorems about QueueWorker: who holds a job, and what its end leaves    *)
(* behind.  For every number of jobs, processes and faults; the theorems   *)
(* that assume OneSlot are about queue_worker_concurrency = 1, its         *)
(* default, and those that assume OneWorker about either the embedded      *)
(* worker or any number of runners, but not both.                          *)
(***************************************************************************)
EXTENDS QueueWorker_proofs

-----------------------------------------------------------------------------
(* Where a step of an actor leaves it *)

LEMMA StepEffect ==
    ASSUME TypeInv, NEW p \in Procs, NEW pc, Steps(p, pc)
    PROVE  /\ main'[p].pc = pc /\ main'[p].job = main[p].job
           /\ main'[p].todo = main[p].todo /\ main'[p].seen = main[p].seen
           /\ \A q \in Procs : q # p => main'[q] = main[q]
<1>1. CASE Step(p, pc)
  BY <1>1 DEF TypeInv, TypeOK, Main, Step
<1>2. CASE \E made \in Made : StepWith(p, pc, made)
  <2>1. PICK made \in Made : main' = [main EXCEPT ![p].pc = pc, ![p].made = made]
    BY <1>2 DEF StepWith
  <2>2. QED
    BY <2>1 DEF TypeInv, TypeOK, Main
<1>3. QED
  BY <1>1, <1>2 DEF Steps

LEMMA ResumeEffect ==
    ASSUME TypeInv, NEW p \in Procs, Resume(p)
    PROVE  /\ main'[p].pc = "recover" /\ main'[p].job = None
           /\ main'[p].todo = main[p].todo /\ main'[p].made = {}
           /\ \A q \in Procs : q # p => main'[q] = main[q]
BY DEF TypeInv, TypeOK, Main, Resume

-----------------------------------------------------------------------------
(* Who holds a job *)

Claiming == {"claim", "wait"}

SlotsFree(p) == \A s \in Slots : thread[<<p, s>>].pc = "free"

\* A process runs jobs, or recovers them, never both; a runner that is up
\* holds the lock.
PhaseInv ==
    /\ \A p \in Procs : main[p].pc \notin Claiming => SlotsFree(p)
    /\ \A p \in Procs : main[p].pc \notin Working => main[p].job = None
    /\ \A p \in Procs : main[p].pc \notin Working \cup {"recover"} => main[p].todo = {}
    /\ \A p \in Runners : main[p].pc # "down" => lock = p

LEMMA InitPhase == Init => PhaseInv
<1> SUFFICES ASSUME Init PROVE PhaseInv
  OBVIOUS
<1>1. \A p \in Procs : SlotsFree(p) /\ main[p] = MainDown
  BY DEF Init, SlotsFree, ThreadFree, Threads
<1>2. QED
  BY <1>1 DEF PhaseInv, MainDown, Working, Procs

\* A step of the main loop of p that leaves its threads alone.
LEMMA LoopPhase ==
    ASSUME TypeInv, PhaseInv, NEW p \in Procs, main[p].pc # "down",
           UNCHANGED <<thread, lock>>,
           \A q \in Procs : q # p => main'[q] = main[q],
           main'[p].pc \notin Claiming => main[p].pc \notin Claiming \/ SlotsFree(p),
           main'[p].pc \notin Working => main'[p].job = None,
           main'[p].pc \notin Working \cup {"recover"} => main'[p].todo = {}
    PROVE  PhaseInv'
<1>1. \A q \in Procs : main'[q].pc \notin Claiming => SlotsFree(q)'
  BY DEF PhaseInv, SlotsFree
<1>2. \A q \in Procs : main'[q].pc \notin Working => main'[q].job = None
  BY DEF PhaseInv
<1>3. \A q \in Procs : main'[q].pc \notin Working \cup {"recover"} => main'[q].todo = {}
  BY DEF PhaseInv
<1>4. \A q \in Runners : main'[q].pc # "down" => lock' = q
  BY DEF PhaseInv, Procs
<1>5. QED
  BY <1>1, <1>2, <1>3, <1>4 DEF PhaseInv

LEMMA MainStepPhase ==
    ASSUME TypeInv, PhaseInv, NEW p \in Procs, MainStep(p)
    PROVE  PhaseInv'
<1> USE DEF dbVars, diskVars, envVars
<1>a. main \in [Procs -> Main] /\ thread \in [Threads -> Thread] /\ main[p] \in Main
  BY DEF TypeInv, TypeOK
<1>1. CASE PassStep(p)
  <2>1. /\ main[p].pc \in Working /\ UNCHANGED <<thread, lock>>
        /\ Resume(p) \/ \E pc \in Working : Steps(p, pc)
    BY <1>1, PassForm DEF TypeInv
  <2>2. /\ \/ main'[p].pc = "recover" /\ main'[p].job = None
           \/ main'[p].pc \in Working
        /\ \A q \in Procs : q # p => main'[q] = main[q]
    BY <2>1, StepEffect, ResumeEffect
  <2>3. QED
    BY <2>1, <2>2, LoopPhase DEF Working, Claiming
<1>2. CASE RecoverList(p) \/ RecoverNext(p) \/ RecoverEnd(p) \/ Poll(p) \/ RoundClaimed(p)
  <2>1. main[p].pc \notin Working \cup {"down"} /\ UNCHANGED <<thread, lock>>
    BY <1>2 DEF Working, RecoverList, RecoverNext, RecoverEnd, Poll, RoundClaimed
  <2>2. \A q \in Procs : q # p => main'[q] = main[q]
    BY <1>2, <1>a DEF RecoverList, RecoverNext, RecoverEnd, Poll, RoundClaimed, Step
  <2>3. main[p].job = None
    BY <2>1 DEF PhaseInv
  <2>4. CASE RecoverList(p)
    <3>1. main'[p].pc = "recover" /\ main'[p].job = None /\ main[p].pc = "list"
      BY <1>a, <2>3, <2>4 DEF RecoverList, Main
    <3>2. QED
      BY <2>1, <2>2, <3>1, LoopPhase DEF Working, Claiming
  <2>5. CASE RecoverNext(p)
    <3>1. main'[p].pc = "inspect" /\ main[p].pc = "recover"
      BY <1>a, <2>5 DEF RecoverNext, Main
    <3>2. QED
      BY <2>1, <2>2, <3>1, LoopPhase DEF Working, Claiming
  <2>6. CASE RecoverEnd(p)
    <3>1. /\ main'[p].pc \in {"list", "claim"} /\ main'[p].job = None
          /\ main'[p].todo = {} /\ main[p].pc = "recover"
      BY <1>a, <2>3, <2>6 DEF RecoverEnd, Main
    <3>2. QED
      BY <2>1, <2>2, <3>1, LoopPhase DEF Working, Claiming
  <2>7. CASE Poll(p)
    <3>1. main[p].todo = {} /\ main[p].pc = "idle"
      BY <2>7 DEF PhaseInv, Poll, Working
    <3>2. main'[p].pc = "list" /\ main'[p].job = None /\ main'[p].todo = {}
      BY <1>a, <2>3, <2>7, <3>1 DEF Poll, Step, Main
    <3>3. QED
      BY <2>1, <2>2, <3>1, <3>2, LoopPhase DEF Working, Claiming
  <2>8. CASE RoundClaimed(p)
    <3>1. main[p].todo = {} /\ main[p].pc = "claim"
      BY <2>8 DEF PhaseInv, RoundClaimed, Working
    <3>2. PICK pc \in {"idle", "wait"} : Step(p, pc) /\ (pc = "idle" => SlotsFree(p))
      BY <2>8 DEF RoundClaimed, SlotsIn, SlotsFree
    <3>3. main'[p].pc = pc /\ main'[p].job = None /\ main'[p].todo = {}
      BY <1>a, <2>3, <3>1, <3>2 DEF Step, Main
    <3>4. QED
      BY <2>1, <2>2, <3>1, <3>2, <3>3, LoopPhase DEF Working, Claiming
  <2>9. QED
    BY <1>2, <2>4, <2>5, <2>6, <2>7, <2>8
<1>3. CASE Claim(p)
  <2>1. UNCHANGED <<main, lock>> /\ main[p].pc = "claim"
    BY <1>3 DEF Claim
  <2>2. \A q \in Procs, s \in Slots : q # p => thread'[<<q, s>>] = thread[<<q, s>>]
    BY <1>3, <1>a DEF Claim, Threads
  <2>3. \A q \in Procs : main'[q].pc \notin Claiming => SlotsFree(q)'
    BY <2>1, <2>2 DEF PhaseInv, SlotsFree, Claiming
  <2>4. QED
    BY <2>1, <2>3 DEF PhaseInv
<1>4. CASE RoundDone(p)
  <2>1. main[p].job = None /\ main[p].todo = {} /\ main[p].pc = "wait"
    BY <1>4 DEF PhaseInv, RoundDone, Working
  <2>2. main'[p].pc = "claim" /\ main'[p].job = None /\ main'[p].todo = {} /\ lock' = lock
    BY <1>4, <1>a, <2>1 DEF RoundDone, Step, Main
  <2>3. \A q \in Procs : q # p => main'[q] = main[q]
    BY <1>4, <1>a DEF RoundDone, Step
  <2>4. \A q \in Procs, s \in Slots : q # p => thread'[<<q, s>>] = thread[<<q, s>>]
    BY <1>4 DEF RoundDone, Threads
  <2>5. \A q \in Procs : main'[q].pc \notin Claiming => SlotsFree(q)'
    BY <2>2, <2>3, <2>4 DEF PhaseInv, SlotsFree, Claiming
  <2>6. QED
    BY <2>1, <2>2, <2>3, <2>5 DEF PhaseInv, Working, Procs
<1>5. QED
  BY <1>1, <1>2, <1>3, <1>4, MainSteps

\* A thread step touches no other thread.
LEMMA ThreadStepLocal ==
    ASSUME TypeInv, NEW t \in Threads, ThreadStep(t)
    PROVE  \A u \in Threads : u # t => thread'[u] = thread[u]
<1>1. CASE InstallCallback(t) \/ RestoreCallback(t)
  BY <1>1 DEF TypeInv, TypeOK, InstallCallback, RestoreCallback
<1>2. CASE \E pc : Moves(t, pc)
  BY <1>2, MovesEffect
<1>3. QED
  BY <1>1, <1>2, ThreadForm DEF TypeInv

LEMMA ThreadStepPhase ==
    ASSUME TypeInv, PhaseInv, NEW t \in Threads, ThreadStep(t)
    PROVE  PhaseInv'
<1> USE DEF dbVars, diskVars, envVars
<1>1. UNCHANGED <<main, lock>> /\ thread[t].pc # "free"
  BY ThreadForm DEF TypeInv, Idle
<1>2. \A u \in Threads : u # t => thread'[u] = thread[u]
  BY ThreadStepLocal
<1>3. PICK p \in Procs, r \in Slots : t = <<p, r>>
  BY DEF Threads
<1>4. main[p].pc \in Claiming
  BY <1>1, <1>3 DEF PhaseInv, SlotsFree
<1>5. \A q \in Procs : main'[q].pc \notin Claiming => SlotsFree(q)'
  BY <1>1, <1>2, <1>3, <1>4 DEF PhaseInv, SlotsFree, Threads
<1>6. QED
  BY <1>1, <1>5 DEF PhaseInv

LEMMA DownEffect ==
    ASSUME TypeInv, NEW p \in Procs, Down(p)
    PROVE  /\ main'[p] = MainDown /\ \A q \in Procs : q # p => main'[q] = main[q]
           /\ \A s \in Slots : thread'[<<p, s>>] = ThreadFree
           /\ \A q \in Procs, s \in Slots : q # p => thread'[<<q, s>>] = thread[<<q, s>>]
BY DEF TypeInv, TypeOK, Down, Threads

LEMMA NextPhase == TypeInv /\ PhaseInv /\ [Next]_vars => PhaseInv'
<1> SUFFICES ASSUME TypeInv, PhaseInv, [Next]_vars PROVE PhaseInv'
  OBVIOUS
<1> USE DEF dbVars, diskVars, envVars, procVars
<1>a. main \in [Procs -> Main] /\ lock \in Runners \cup {None}
  BY DEF TypeInv, TypeOK
<1>1. CASE \/ \E j \in Jobs : Enqueue(j) \/ PromptStarts(j) \/ PromptEnds(j)
           \/ ComfyRestarts
           \/ UNCHANGED vars
  <2>1. UNCHANGED <<main, thread, lock>>
    BY <1>1 DEF Enqueue, PromptStarts, PromptEnds, ComfyRestarts, vars
  <2>2. QED
    BY <2>1 DEF PhaseInv, SlotsFree
<1>2. ASSUME NEW p \in Procs, Start(p) PROVE PhaseInv'
  <2>1. /\ main[p].pc = "down" /\ thread' = thread
        /\ \/ p \in Embedded /\ UNCHANGED lock
           \/ p \in Runners /\ lock = None /\ lock' = p
    BY <1>2 DEF Start, LockFree
  <2>2. main[p].todo = {} /\ main[p].job = None
    BY <2>1 DEF PhaseInv, Working
  <2>3. /\ main'[p].pc = "list" /\ main'[p].todo = {} /\ main'[p].job = None
        /\ \A q \in Procs : q # p => main'[q] = main[q]
    BY <1>2, <1>a, <2>2 DEF Start, Main
  <2>4. \A q \in Procs : main'[q].pc \notin Claiming => SlotsFree(q)'
    BY <2>1, <2>3 DEF PhaseInv, SlotsFree, Claiming
  <2>5. \A q \in Runners : main'[q].pc # "down" => lock' = q
    <3>1. CASE p \in Embedded
      BY <2>1, <2>3, <3>1, ProcsAssumption, NoneAssumption DEF PhaseInv, Procs
    <3>2. CASE p \notin Embedded
      BY <2>1, <2>3, <3>2, NoneAssumption DEF PhaseInv, Procs
    <3>3. QED
      BY <3>1, <3>2
  <2>6. QED
    BY <2>2, <2>3, <2>4, <2>5 DEF PhaseInv
<1>3. ASSUME NEW p \in Procs, Stop(p) \/ Crash(p) PROVE PhaseInv'
  <2>1. Down(p) /\ lock' = IF lock = p THEN None ELSE lock
    BY <1>3 DEF Stop, Crash, Down
  <2>2. \A q \in Procs : main'[q].pc \notin Claiming => SlotsFree(q)'
    BY <2>1, DownEffect DEF PhaseInv, SlotsFree, ThreadFree
  <2>3. \A q \in Runners : main'[q].pc # "down" => lock' = q
    BY <2>1, DownEffect DEF PhaseInv, MainDown, Procs
  <2>4. QED
    BY <2>1, <2>2, <2>3, DownEffect DEF PhaseInv, MainDown
<1>4. ASSUME NEW p \in Procs, MainStep(p) PROVE PhaseInv'
  BY <1>4, MainStepPhase
<1>5. ASSUME NEW t \in Threads, ThreadStep(t) PROVE PhaseInv'
  BY <1>5, ThreadStepPhase
<1>6. QED
  BY <1>1, <1>2, <1>3, <1>4, <1>5 DEF Next

LEMMA Phases == Spec => [](TypeInv /\ OnceInv /\ PhaseInv)
<1>1. Init => OnceInv
  BY NoneAssumption
     DEF Init, OnceInv, AtMostOneSubmission, ThreadFree, PreSubmit
<1>2. TypeInv /\ TypeInv' /\ OnceInv /\ [Next]_vars => OnceInv'
  BY NextOnce
<1>3. Init => PhaseInv
  BY InitPhase
<1>4. TypeInv /\ PhaseInv /\ [Next]_vars => PhaseInv'
  BY NextPhase
<1>5. QED
  BY <1>1, <1>2, <1>3, <1>4, TypeCorrect, PTL DEF Spec

\* A job that a thread or a recovery pass works on makes its process busy.
LEMMA HoldersAreUp ==
    ASSUME TypeInv, PhaseInv, NEW p \in Procs, NEW j \in Jobs
    PROVE  /\ main[p].job = j => main[p].pc \in Working
           /\ \A s \in Slots : thread[<<p, s>>].job = j => main[p].pc \in Claiming
<1>1. main[p].job = j => main[p].pc \in Working
  BY NoneAssumption DEF PhaseInv
<1>2. \A s \in Slots : thread[<<p, s>>].job = j => main[p].pc \in Claiming
  BY DEF PhaseInv, SlotsFree, TypeInv, HoldersOK, Threads
<1>3. QED
  BY <1>1, <1>2

\* However many runners are started, stopped and crash, no two of them hold a
\* job at a time, nor do two threads of one.
THEOREM LockExcludes == Spec => []RunnersExclusive
<1>1. TypeInv /\ OnceInv /\ PhaseInv => RunnersExclusive
  <2> SUFFICES ASSUME TypeInv, OnceInv, PhaseInv, NEW j \in Jobs,
                      NEW a \in HoldersIn(Runners, j), NEW b \in HoldersIn(Runners, j)
               PROVE  a = b
    BY DEF RunnersExclusive
  <2>1. PICK p \in Runners : \/ \E s \in Slots : a = <<p, s>> /\ thread[a].job = j
                             \/ a = p /\ main[p].job = j
    BY DEF HoldersIn
  <2>2. PICK q \in Runners : \/ \E s \in Slots : b = <<q, s>> /\ thread[b].job = j
                             \/ b = q /\ main[q].job = j
    BY DEF HoldersIn
  <2>3. main[p].pc \in Working \cup Claiming /\ main[q].pc \in Working \cup Claiming
    BY <2>1, <2>2, HoldersAreUp DEF Procs
  <2>4. p = q
    BY <2>3 DEF PhaseInv, Working, Claiming
  <2>5. CASE main[p].job = j
    <3>1. \A s \in Slots : thread[<<p, s>>].job # j
      BY <2>5, HoldersAreUp DEF Working, Claiming, Procs
    <3>2. QED
      BY <2>1, <2>2, <2>4, <3>1
  <2>6. CASE main[p].job # j
    <3>1. a \in Threads /\ b \in Threads /\ thread[a].job = j /\ thread[b].job = j
      BY <2>1, <2>2, <2>4, <2>6 DEF Threads, Procs
    <3>2. QED
      BY <3>1 DEF OnceInv
  <2>7. QED
    BY <2>5, <2>6
<1>2. QED
  BY <1>1, Phases, PTL

-----------------------------------------------------------------------------
(* Who works in the directories of a job *)

\* An execution is somewhere between making its staging directory and being
\* done with it.
Placing == {"download", "verify", "check", "look", "make", "move", "commit", "tidy",
            "unmake", "undo"}

Handling == {"abort", "report", "fail"}

\* What an actor with record r can rely on, unless another one shares the
\* directories of its job: it removes a final directory only where no Take is,
\* and it commits a Take only with the video in place.
UserOK(r, tk, md, sh, st) ==
    /\ r.pc \in Placing => r.made # {}
    /\ r.pc \in {"move", "commit", "unmake"} => "final" \in r.made
    /\ r.pc \notin Placing \cup Handling => r.made = {}
    /\ r.job \notin sh =>
          /\ r.pc = "make" \/ "final" \in r.made => r.job \notin tk
          /\ r.pc \in {"check", "make", "move"} => st[r.job] = "video"
          /\ r.pc = "commit" => r.job \in md

UsersOK ==
    /\ \A t \in Threads : UserOK(thread[t], takes, media, shared, staged)
    /\ \A p \in Procs : UserOK(main[p], takes, media, shared, staged)

Uses(r, j) == r.job = j /\ r.made # {}

\* Two actors in the directories of a job leave a mark; two threads never hold
\* the same job.
Apart ==
    \A j \in Jobs \ shared :
        /\ \A p, q \in Procs : Uses(main[p], j) /\ Uses(main[q], j) => p = q
        /\ \A p \in Procs, t \in Threads : ~(Uses(main[p], j) /\ Uses(thread[t], j))

DisksOK == takes \subseteq media \cup shared /\ media \subseteq dirs

MediaInv == UsersOK /\ Apart /\ DisksOK

\* A step on the directories of j disturbs nobody who is elsewhere.
LEMMA OtherUser ==
    ASSUME NEW r, NEW j, NEW tk, NEW md, NEW sh, NEW st,
           NEW tk2, NEW md2, NEW sh2, NEW st2,
           UserOK(r, tk, md, sh, st), sh \subseteq sh2,
           r.job # j => /\ r.job \in tk2 => r.job \in tk
                        /\ r.job \in md => r.job \in md2
                        /\ st[r.job] = "video" => st2[r.job] = "video",
           r.job = j => r.made = {} \/ j \in sh2
    PROVE  UserOK(r, tk2, md2, sh2, st2)
BY DEF UserOK, Placing

\* An actor outside: nothing is asked of it.
Outside(r) == r.made = {} /\ r.pc \notin Placing

LEMMA OutsideOK ==
    ASSUME NEW r, NEW tk, NEW md, NEW sh, NEW st, Outside(r)
    PROVE  UserOK(r, tk, md, sh, st)
BY DEF Outside, UserOK, Placing

\* What changes of the tables and the disk, if anything, concerns j.
Concerns(j) ==
    /\ \A k \in Jobs : k # j => /\ k \in takes' <=> k \in takes
                                /\ k \in media' <=> k \in media
                                /\ k \in dirs' <=> k \in dirs
                                /\ staged'[k] = staged[k]

DisksKept == UNCHANGED <<takes, staged, dirs, media, shared>>

\* A step of a thread in the directories of its job, or elsewhere.
LEMMA ThreadWorks ==
    ASSUME TypeInv, TypeInv', OnceInv, MediaInv, NEW t \in Threads, NEW j \in Jobs,
           thread[t].job = j, main' = main,
           \A u \in Threads : u # t => thread'[u] = thread[u],
           shared' = shared, (thread[t].made # {} /\ Concerns(j)) \/ DisksKept,
           thread'[t].job = j \/ thread'[t].made = {},
           thread'[t].made # {} => thread[t].made # {},
           UserOK(thread'[t], takes', media', shared', staged'),
           j \in takes' => j \in media' \/ j \in shared, j \in media' => j \in dirs'
    PROVE  MediaInv'
<1>1. \A u \in Threads : UserOK(thread'[u], takes', media', shared', staged')
  <2> SUFFICES ASSUME NEW u \in Threads, u # t
               PROVE  UserOK(thread'[u], takes', media', shared', staged')
    OBVIOUS
  <2>1. CASE DisksKept
    BY <2>1 DEF DisksKept, MediaInv, UsersOK
  <2>2. CASE Concerns(j)
    <3>1. thread[u].job # j
      BY DEF OnceInv
    <3>2. CASE thread[u].job \in Jobs
      BY <2>2, <3>1, <3>2, OtherUser DEF Concerns, MediaInv, UsersOK
    <3>3. CASE thread[u].job \notin Jobs
      <4>1. Outside(thread[u])
        BY <3>3 DEF TypeInv, HoldersOK, MediaInv, UsersOK, UserOK, Outside, Placing, Handling
      <4>2. QED
        BY <4>1, OutsideOK
    <3>4. QED
      BY <3>2, <3>3
  <2>3. QED
    BY <2>1, <2>2
<1>2. \A p \in Procs : UserOK(main'[p], takes', media', shared', staged')
  <2> SUFFICES ASSUME NEW p \in Procs
               PROVE  UserOK(main[p], takes', media', shared', staged')
    OBVIOUS
  <2>1. CASE DisksKept
    BY <2>1 DEF DisksKept, MediaInv, UsersOK
  <2>2. CASE thread[t].made # {} /\ Concerns(j)
    <3>1. main[p].job = j => main[p].made = {} \/ j \in shared
      BY <2>2 DEF MediaInv, Apart, Uses
    <3>2. CASE main[p].job \in Jobs
      BY <2>2, <3>1, <3>2, OtherUser DEF Concerns, MediaInv, UsersOK
    <3>3. CASE main[p].job \notin Jobs
      <4>1. Outside(main[p])
        BY <3>3 DEF TypeInv, HoldersOK, TypeOK, Main, MainPc, Working, MediaInv, UsersOK,
           UserOK, Outside, Placing, Handling
      <4>2. QED
        BY <4>1, OutsideOK
    <3>4. QED
      BY <3>2, <3>3
  <2>3. QED
    BY <2>1, <2>2
<1>3. Apart'
  BY DEF MediaInv, Apart, Uses
<1>4. DisksOK'
  <2>1. takes' \subseteq Jobs /\ media' \subseteq Jobs
    BY DEF TypeInv, TypeOK
  <2>2. QED
    BY <2>1 DEF MediaInv, DisksOK, Concerns, DisksKept
<1>5. QED
  BY <1>1, <1>2, <1>3, <1>4 DEF MediaInv, UsersOK

\* A step of a pass in the directories of its job, or elsewhere.
LEMMA PassWorks ==
    ASSUME TypeInv, TypeInv', MediaInv, NEW p \in Procs, NEW j \in Jobs,
           main[p].job = j, thread' = thread,
           \A q \in Procs : q # p => main'[q] = main[q],
           shared' = shared, (main[p].made # {} /\ Concerns(j)) \/ DisksKept,
           main'[p].job = j \/ main'[p].made = {},
           main'[p].made # {} => main[p].made # {},
           UserOK(main'[p], takes', media', shared', staged'),
           j \in takes' => j \in media' \/ j \in shared, j \in media' => j \in dirs'
    PROVE  MediaInv'
<1>1. \A t \in Threads : UserOK(thread'[t], takes', media', shared', staged')
  <2> SUFFICES ASSUME NEW t \in Threads
               PROVE  UserOK(thread[t], takes', media', shared', staged')
    OBVIOUS
  <2>1. CASE DisksKept
    BY <2>1 DEF DisksKept, MediaInv, UsersOK
  <2>2. CASE main[p].made # {} /\ Concerns(j)
    <3>1. thread[t].job = j => thread[t].made = {} \/ j \in shared
      BY <2>2 DEF MediaInv, Apart, Uses
    <3>2. CASE thread[t].job \in Jobs
      BY <2>2, <3>1, <3>2, OtherUser DEF Concerns, MediaInv, UsersOK
    <3>3. CASE thread[t].job \notin Jobs
      <4>1. Outside(thread[t])
        BY <3>3 DEF TypeInv, HoldersOK, MediaInv, UsersOK, UserOK, Outside, Placing, Handling
      <4>2. QED
        BY <4>1, OutsideOK
    <3>4. QED
      BY <3>2, <3>3
  <2>3. QED
    BY <2>1, <2>2
<1>2. \A q \in Procs : UserOK(main'[q], takes', media', shared', staged')
  <2> SUFFICES ASSUME NEW q \in Procs, q # p
               PROVE  UserOK(main[q], takes', media', shared', staged')
    OBVIOUS
  <2>1. CASE DisksKept
    BY <2>1 DEF DisksKept, MediaInv, UsersOK
  <2>2. CASE main[p].made # {} /\ Concerns(j)
    <3>1. main[q].job = j => main[q].made = {} \/ j \in shared
      BY <2>2 DEF MediaInv, Apart, Uses
    <3>2. CASE main[q].job \in Jobs
      <4>1. UserOK(main[q], takes, media, shared, staged)
        BY DEF MediaInv, UsersOK
      <4>2. main[q].job # j => /\ main[q].job \in takes' => main[q].job \in takes
                               /\ main[q].job \in media => main[q].job \in media'
                               /\ staged[main[q].job] = "video" => staged'[main[q].job] = "video"
        BY <2>2, <3>2 DEF Concerns
      <4>3. QED
        BY <3>1, <4>1, <4>2, OtherUser
    <3>3. CASE main[q].job \notin Jobs
      <4>1. Outside(main[q])
        BY <3>3 DEF TypeInv, HoldersOK, TypeOK, Main, MainPc, Working, MediaInv, UsersOK,
           UserOK, Outside, Placing, Handling
      <4>2. QED
        BY <4>1, OutsideOK
    <3>4. QED
      BY <3>2, <3>3
  <2>3. QED
    BY <2>1, <2>2
<1>3. Apart'
  BY DEF MediaInv, Apart, Uses
<1>4. DisksOK'
  <2>1. takes' \subseteq Jobs /\ media' \subseteq Jobs
    BY DEF TypeInv, TypeOK
  <2>2. QED
    BY <2>1 DEF MediaInv, DisksOK, Concerns, DisksKept
<1>5. QED
  BY <1>1, <1>2, <1>3, <1>4 DEF MediaInv, UsersOK

\* An actor that begins: whoever is already in the directories is noted.
LEMMA Begins ==
    ASSUME TypeInv, TypeInv', OnceInv, MediaInv, NEW j \in Jobs, CreateStaging(j), takes' = takes,
           \A t \in Threads : \/ thread'[t] = thread[t]
                              \/ /\ thread[t].job = j /\ thread'[t].job = j
                                 /\ thread'[t].pc = "download"
                                 /\ thread'[t].made = {"staging"},
           \A p \in Procs : \/ main'[p] = main[p]
                            \/ /\ main'[p].job = j
                               /\ main'[p].pc = "download" /\ main'[p].made = {"staging"},
           (\A t \in Threads : thread'[t] = thread[t]) \/ main' = main,
           \A p, q \in Procs : main'[p] # main[p] /\ main'[q] # main[q] => p = q
    PROVE  MediaInv'
<1>1. /\ shared \subseteq shared' /\ UNCHANGED <<takes, dirs, media>>
      /\ \A k : k # j => (k \in shared' => k \in shared)
      /\ \A k \in Jobs : staged[k] = "video" => staged'[k] = "video"
      /\ InUse(j) => j \in shared'
  BY DEF CreateStaging, TypeInv, TypeOK
<1>2. ASSUME NEW r, UserOK(r, takes, media, shared, staged), r.job \in Jobs \/ Outside(r)
      PROVE  UserOK(r, takes', media', shared', staged')
  <2>1. CASE Outside(r)
    BY <2>1, OutsideOK
  <2>2. CASE r.job \in Jobs
    BY <1>1, <1>2, <2>2 DEF UserOK
  <2>3. QED
    BY <1>2, <2>1, <2>2
<1>3. ASSUME NEW r, r.pc = "download", r.made = {"staging"}
      PROVE  UserOK(r, takes', media', shared', staged')
  BY <1>3 DEF UserOK, Placing
<1>4. \A t \in Threads : thread[t].job \in Jobs \/ Outside(thread[t])
  BY DEF TypeInv, HoldersOK, MediaInv, UsersOK, UserOK, Outside, Placing, Handling
<1>5. \A p \in Procs : main[p].job \in Jobs \/ Outside(main[p])
  BY DEF TypeInv, HoldersOK, TypeOK, Main, MainPc, Working, MediaInv, UsersOK,
     UserOK, Outside, Placing, Handling
<1>6. UsersOK'
  <2>1. \A t \in Threads : UserOK(thread'[t], takes', media', shared', staged')
    <3> SUFFICES ASSUME NEW t \in Threads
                 PROVE  UserOK(thread'[t], takes', media', shared', staged')
      OBVIOUS
    <3>1. UserOK(thread[t], takes, media, shared, staged)
      BY DEF MediaInv, UsersOK
    <3>2. QED
      BY <1>2, <1>3, <1>4, <3>1
  <2>2. \A p \in Procs : UserOK(main'[p], takes', media', shared', staged')
    <3> SUFFICES ASSUME NEW p \in Procs
                 PROVE  UserOK(main'[p], takes', media', shared', staged')
      OBVIOUS
    <3>1. UserOK(main[p], takes, media, shared, staged)
      BY DEF MediaInv, UsersOK
    <3>2. QED
      BY <1>2, <1>3, <1>5, <3>1
  <2>3. QED
    BY <2>1, <2>2 DEF UsersOK
<1>7. Apart'
  <2> SUFFICES ASSUME NEW k \in Jobs, k \notin shared'
               PROVE  /\ \A p, q \in Procs : Uses(main'[p], k) /\ Uses(main'[q], k) => p = q
                      /\ \A p \in Procs, t \in Threads :
                            ~(Uses(main'[p], k) /\ Uses(thread'[t], k))
    BY DEF Apart
  <2>1. CASE k # j
    <3>1. k \notin shared
      BY <1>1
    <3>2. \A p \in Procs : Uses(main'[p], k) => Uses(main[p], k)
      BY <2>1 DEF Uses
    <3>3. \A t \in Threads : Uses(thread'[t], k) => Uses(thread[t], k)
      BY <2>1 DEF Uses
    <3>4. QED
      BY <3>1, <3>2, <3>3 DEF MediaInv, Apart
  <2>2. CASE k = j
    <3>1. ~InUse(j)
      BY <1>1, <2>2
    <3>2. (\A p \in Procs : ~Uses(main[p], j)) /\ \A t \in Threads : ~Uses(thread[t], j)
      BY <3>1 DEF InUse, Uses
    <3>3. QED
      BY <2>2, <3>2
  <2>3. QED
    BY <2>1, <2>2
<1>8. DisksOK'
  BY <1>1 DEF MediaInv, DisksOK
<1>9. QED
  BY <1>6, <1>7, <1>8 DEF MediaInv

\* The steps that leave the disk alone and let nobody begin.
LEMMA NobodyWorks ==
    ASSUME MediaInv, DisksKept,
           \A t \in Threads : thread'[t] = thread[t] \/ Outside(thread'[t]),
           \A p \in Procs : main'[p] = main[p] \/ Outside(main'[p])
    PROVE  MediaInv'
<1>1. UsersOK'
  BY OutsideOK DEF MediaInv, UsersOK, DisksKept
<1>2. Apart'
  BY DEF MediaInv, Apart, Uses, Outside, DisksKept
<1>3. DisksOK'
  BY DEF MediaInv, DisksOK, DisksKept
<1>4. QED
  BY <1>1, <1>2, <1>3 DEF MediaInv

LEMMA GotoKeeps ==
    ASSUME TypeInv, NEW t \in Threads, NEW pc, Goto(t, pc) \/ \E errs : Throw(t, pc, errs)
    PROVE  /\ thread'[t].pc = pc /\ thread'[t].job = thread[t].job
           /\ thread'[t].made = thread[t].made
BY DEF TypeInv, TypeOK, Thread, Goto, Throw

LEMMA GotoWithSets ==
    ASSUME TypeInv, NEW t \in Threads, NEW pc, NEW made, GotoWith(t, pc, made)
    PROVE  /\ thread'[t].pc = pc /\ thread'[t].job = thread[t].job
           /\ thread'[t].made = made
BY DEF TypeInv, TypeOK, Thread, GotoWith

LEMMA StepKeeps ==
    ASSUME TypeInv, NEW p \in Procs, NEW pc, Step(p, pc)
    PROVE  /\ main'[p].pc = pc /\ main'[p].job = main[p].job
           /\ main'[p].made = main[p].made
BY DEF TypeInv, TypeOK, Main, Step

LEMMA StepWithSets ==
    ASSUME TypeInv, NEW p \in Procs, NEW pc, NEW made, StepWith(p, pc, made)
    PROVE  /\ main'[p].pc = pc /\ main'[p].job = main[p].job
           /\ main'[p].made = made
BY DEF TypeInv, TypeOK, Main, StepWith

LEMMA SetStagedConcerns ==
    ASSUME TypeInv, NEW j \in Jobs, NEW s, SetStaged(j, s), takes' = takes
    PROVE  Concerns(j) /\ staged'[j] = s /\ UNCHANGED <<dirs, media, shared>>
BY DEF TypeInv, TypeOK, SetStaged, Concerns

LEMMA RemoveStagingConcerns ==
    ASSUME TypeInv, NEW j \in Jobs, RemoveStaging(j), takes' = takes
    PROVE  Concerns(j) /\ UNCHANGED <<dirs, media, shared>>
BY SetStagedConcerns DEF RemoveStaging

LEMMA MoveVideoConcerns ==
    ASSUME TypeInv, NEW j \in Jobs, MoveVideo(j), takes' = takes
    PROVE  /\ Concerns(j) /\ UNCHANGED <<dirs, shared>> /\ media \subseteq media'
           /\ staged[j] = "video" => j \in media'
           /\ j \in media' => j \in media \/ j \in dirs
<1>1. CASE Movable(j) /\ staged' = [staged EXCEPT ![j] = "empty"] /\ media' = media \cup {j}
           /\ UNCHANGED <<dirs, shared>>
  BY <1>1 DEF TypeInv, TypeOK, Concerns, Movable
<1>2. CASE staged[j] = "empty" /\ UNCHANGED diskVars
  BY <1>2 DEF Concerns, diskVars
<1>3. QED
  BY <1>1, <1>2 DEF MoveVideo

\* Every step of a thread keeps to its own directories.
LEMMA ThreadMedia ==
    ASSUME TypeInv, TypeInv', OnceInv, MediaInv, NEW t \in Threads, ThreadStep(t)
    PROVE  MediaInv'
<1> USE DEF dbVars, envVars
<1> DEFINE j == thread[t].job
           r == thread'[t]
<1>a. TypeOK /\ thread[t] \in Thread
  BY DEF TypeInv, TypeOK
<1>b. j \in Jobs /\ main' = main
  BY <1>a, ThreadForm DEF TypeInv, HoldersOK, Idle
<1>c. \A u \in Threads : u # t => thread'[u] = thread[u]
  BY ThreadStepLocal
<1>d. UserOK(thread[t], takes, media, shared, staged)
  BY DEF MediaInv, UsersOK
<1>e. (j \in takes => j \in media \/ j \in shared) /\ (j \in media => j \in dirs)
  BY DEF MediaInv, DisksOK
<1>1. CASE FetchResult(t)
  <2>1. /\ r.pc = "download" /\ r.job = j /\ r.made = {"staging"}
        /\ CreateStaging(j) /\ takes' = takes
    BY <1>1, GotoWithSets DEF FetchResult
  <2>2. QED
    BY <1>b, <1>c, <2>1, Begins
<1>2. CASE Download(t) \/ EmptyStaging(t) \/ Tidy(t) \/ CleanStaging(t)
  <2>1. /\ thread[t].made # {} /\ takes' = takes
        /\ RemoveStaging(j) \/ \E s : SetStaged(j, s)
    BY <1>2, <1>d DEF Download, EmptyStaging, Tidy, CleanStaging, UserOK, Placing
  <2>2. Concerns(j) /\ UNCHANGED <<dirs, media, shared>>
    BY <1>b, <2>1, SetStagedConcerns, RemoveStagingConcerns
  <2>3. CASE Download(t)
    <3>1. r.pc = "verify" /\ r.job = j /\ r.made = thread[t].made
      BY <2>3, GotoKeeps DEF Download
    <3>2. UserOK(r, takes', media', shared', staged')
      BY <1>d, <2>1, <2>2, <3>1 DEF UserOK, Placing
    <3>3. QED
      BY <1>b, <1>c, <1>e, <2>1, <2>2, <3>1, <3>2, ThreadWorks
  <2>4. CASE Tidy(t)
    <3>1. r.pc = "restore" /\ r.job = j /\ r.made = {}
      BY <2>4, GotoWithSets DEF Tidy
    <3>2. UserOK(r, takes', media', shared', staged')
      BY <3>1, OutsideOK DEF Outside, Placing
    <3>3. QED
      BY <1>b, <1>c, <1>e, <2>1, <2>2, <3>1, <3>2, ThreadWorks
  <2>5. CASE CleanStaging(t)
    <3>1. r.pc = "report" /\ r.job = j /\ r.made = thread[t].made \ {"staging"}
      BY <2>5, GotoWithSets DEF CleanStaging
    <3>2. UserOK(r, takes', media', shared', staged')
      BY <1>d, <2>1, <2>2, <3>1 DEF UserOK, Placing, Handling
    <3>3. QED
      BY <1>b, <1>c, <1>e, <2>1, <2>2, <3>1, <3>2, ThreadWorks
  <2>6. CASE EmptyStaging(t)
    <3>1. r = thread[t] /\ thread[t].pc \in {"tidy", "report"}
      BY <2>6 DEF EmptyStaging, procVars
    <3>2. UserOK(r, takes', media', shared', staged')
      BY <1>d, <2>1, <2>2, <3>1 DEF UserOK, Placing, Handling
    <3>3. QED
      BY <1>b, <1>c, <1>e, <2>1, <2>2, <3>1, <3>2, ThreadWorks
  <2>7. QED
    BY <1>2, <2>3, <2>4, <2>5, <2>6
<1>3. CASE MakeFinal(t)
  <2>1. /\ r.pc = "move" /\ r.job = j /\ r.made = {"staging", "final"}
        /\ thread[t].pc = "make" /\ takes' = takes /\ dirs' = dirs \cup {j}
        /\ UNCHANGED <<staged, media, shared>>
    BY <1>3, GotoWithSets DEF MakeFinal, MakeDir
  <2>2. thread[t].made # {} /\ Concerns(j)
    BY <1>d, <2>1 DEF UserOK, Placing, Concerns
  <2>3. UserOK(r, takes', media', shared', staged')
    BY <1>d, <2>1 DEF UserOK, Placing
  <2>4. QED
    BY <1>b, <1>c, <1>e, <2>1, <2>2, <2>3, ThreadWorks
<1>4. CASE MoveToFinal(t)
  <2>1. /\ r.pc = "commit" /\ r.job = j /\ r.made = thread[t].made
        /\ thread[t].pc = "move" /\ takes' = takes /\ MoveVideo(j)
    BY <1>4, GotoKeeps DEF MoveToFinal
  <2>2. /\ Concerns(j) /\ UNCHANGED <<dirs, shared>> /\ media \subseteq media'
        /\ staged[j] = "video" => j \in media'
        /\ j \in media' => j \in dirs'
    BY <1>b, <1>e, <2>1, MoveVideoConcerns
  <2>3. thread[t].made # {}
    BY <1>d, <2>1 DEF UserOK, Placing
  <2>4. UserOK(r, takes', media', shared', staged')
    BY <1>d, <2>1, <2>2 DEF UserOK, Placing
  <2>5. QED
    BY <1>b, <1>c, <1>e, <2>1, <2>2, <2>3, <2>4, ThreadWorks
<1>5. CASE RemoveFinal(t) \/ CleanFinal(t)
  <2>1. /\ r.job = j /\ "final" \in thread[t].made /\ takes' = takes
        /\ dirs' = dirs \ {j} /\ media' = media \ {j} /\ UNCHANGED <<staged, shared>>
        /\ \/ r.pc = "undo" /\ r.made = thread[t].made
           \/ r.pc = "report" /\ r.made = {}
    <3>1. CASE RemoveFinal(t)
      <4>1. "final" \in thread[t].made
        BY <1>d, <3>1 DEF RemoveFinal, UserOK
      <4>2. QED
        BY <3>1, <4>1, GotoKeeps DEF RemoveFinal, RemoveFinalDir
    <3>2. CASE CleanFinal(t)
      BY <3>2, GotoWithSets DEF CleanFinal, RemoveFinalDir
    <3>3. QED
      BY <1>5, <3>1, <3>2
  <2>2. j \notin shared => j \notin takes
    BY <1>d, <2>1 DEF UserOK
  <2>3. Concerns(j)
    BY <2>1 DEF Concerns
  <2>4. UserOK(r, takes', media', shared', staged')
    BY <2>1, <2>2 DEF UserOK, Placing, Handling
  <2>5. QED
    BY <1>b, <1>c, <2>1, <2>2, <2>3, <2>4, ThreadWorks
<1>6. CASE Commit(t)
  <2>1. /\ r.pc = "tidy" /\ r.job = j /\ r.made = {"staging"}
        /\ thread[t].pc = "commit" /\ takes' = takes \cup {j} /\ UNCHANGED diskVars
    BY <1>6, GotoWithSets DEF Commit
  <2>2. thread[t].made # {} /\ (j \in media \/ j \in shared)
    BY <1>d, <2>1 DEF UserOK, Placing
  <2>3. Concerns(j) /\ UNCHANGED <<staged, dirs, media, shared>>
    BY <2>1 DEF Concerns, diskVars
  <2>4. UserOK(r, takes', media', shared', staged')
    BY <2>1 DEF UserOK, Placing
  <2>5. QED
    BY <1>b, <1>c, <1>e, <2>1, <2>2, <2>3, <2>4, ThreadWorks
<1>7. ASSUME DisksKept, r.job = j \/ r.made = {}, r.made # {} => thread[t].made # {},
             UserOK(r, takes, media, shared, staged)
      PROVE  MediaInv'
  BY <1>b, <1>c, <1>e, <1>7, ThreadWorks DEF DisksKept
<1>8. CASE RaiseStep(t)
  <2>1. DisksKept
    BY <1>8, <1>a, RaiseForm DEF DisksKept, diskVars
  <2>2. PICK pc \in {"abort", "report", "unmake"} :
            /\ \E errs : Throw(t, pc, errs)
            /\ pc = "unmake" => thread[t].pc = "commit"
    BY <1>8 DEF RaiseStep, ResolveFails, SubmitRefused, MonitorErrors, MonitorTimesOut,
       MonitorLosesSocket, FetchFails, DownloadFails, PlaceFails, CommitFails
  <2>3. r.pc = pc /\ r.job = j /\ r.made = thread[t].made
    BY <2>2, GotoKeeps
  <2>4. UserOK(r, takes, media, shared, staged)
    BY <1>d, <2>2, <2>3 DEF UserOK, Placing, Handling
  <2>5. QED
    BY <1>7, <2>1, <2>3, <2>4
<1>9. CASE QuietMove(t)
  <2>1. DisksKept
    BY <1>9, <1>a, QuietForm DEF DisksKept, diskVars
  <2>2. PICK pc \in {"fetch", "check", "make", "abort", "report"} :
            /\ Goto(t, pc)
            /\ pc = "fetch" => thread[t].pc = "monitor"
            /\ pc = "check" => thread[t].pc = "verify" /\ staged[j] = "video"
            /\ pc = "make" => thread[t].pc = "check" /\ j \notin dirs
    BY <1>9 DEF QuietMove, MonitorSucceeds, VerifyMedia, CheckFinal, FinalFree, UndoFails,
       AbortRequestFails
  <2>3. r.pc = pc /\ r.job = j /\ r.made = thread[t].made
    BY <2>2, GotoKeeps
  <2>4. UserOK(r, takes, media, shared, staged)
    BY <1>d, <1>e, <2>2, <2>3 DEF UserOK, Placing, Handling
  <2>5. QED
    BY <1>7, <2>1, <2>3, <2>4
<1>10. CASE RequestStep(t)
  <2>1. DisksKept
    BY <1>10, RequestForm DEF DisksKept, diskVars
  <2>2. CASE UndoRequest(t)
    <3>1. r.pc = "report" /\ r.job = j /\ r.made = {}
      BY <2>2, GotoWithSets DEF UndoRequest
    <3>2. QED
      BY <1>7, <2>1, <3>1, OutsideOK DEF Outside, Placing
  <2>3. CASE ~UndoRequest(t)
    <3>1. PICK pc \in {"submit", "running", "monitor", "report"} :
              Goto(t, pc) /\ thread[t].pc \in {"resolve", "record", "running", "abort"}
              /\ (pc # "report" => thread[t].pc # "abort")
      BY <1>10, <2>3 DEF RequestStep, CreateRequest, RecordPrompt, MarkRunning, AbortRequest
    <3>2. r.pc = pc /\ r.job = j /\ r.made = thread[t].made
      BY <3>1, GotoKeeps
    <3>3. UserOK(r, takes, media, shared, staged)
      BY <1>d, <3>1, <3>2 DEF UserOK, Placing, Handling
    <3>4. QED
      BY <1>7, <2>1, <3>2, <3>3
  <2>4. QED
    BY <2>2, <2>3
<1>11. CASE Submit(t) \/ SubmitAnswerLost(t) \/ InstallCallback(t) \/ RestoreCallback(t)
            \/ ReportFailure(t)
  <2>1. DisksKept /\ thread[t].made = {}
    BY <1>11, <1>d DEF DisksKept, diskVars, Submit, SubmitAnswerLost, InstallCallback,
       RestoreCallback, ReportFailure, UserOK, Placing, Handling
  <2>2. r.made = {} /\ r.pc \in {"record", "abort", "resolve", "done", "restore"}
    <3>1. CASE Submit(t) \/ SubmitAnswerLost(t) \/ ReportFailure(t)
      BY <2>1, <3>1, GotoKeeps DEF Submit, SubmitAnswerLost, ReportFailure
    <3>2. CASE InstallCallback(t)
      BY <1>a, <2>1, <3>2 DEF InstallCallback, TypeOK, Thread
    <3>3. CASE RestoreCallback(t)
      BY <1>a, <3>3 DEF RestoreCallback, TypeOK, ThreadFree
    <3>4. QED
      BY <1>11, <3>1, <3>2, <3>3
  <2>3. QED
    BY <1>7, <2>1, <2>2, OutsideOK DEF Outside, Placing
<1>12. QED
  BY <1>1, <1>2, <1>3, <1>4, <1>5, <1>6, <1>8, <1>9, <1>10, <1>11, ThreadSteps DEF PlaceStep

\* So does every step of a recovery pass.
LEMMA PassMedia ==
    ASSUME TypeInv, TypeInv', OnceInv, MediaInv, NEW p \in Procs, PassStep(p)
    PROVE  MediaInv'
<1> USE DEF dbVars, envVars
<1> DEFINE j == main[p].job
           r == main'[p]
<1>a. TypeOK /\ main[p] \in Main
  BY DEF TypeInv, TypeOK
<1>b. j \in Jobs /\ thread' = thread
  BY <1>a, PassForm DEF TypeInv, HoldersOK
<1>c. \A q \in Procs : q # p => main'[q] = main[q]
  BY <1>a, PassForm, StepEffect, ResumeEffect
<1>d. UserOK(main[p], takes, media, shared, staged)
  BY DEF MediaInv, UsersOK
<1>e. (j \in takes => j \in media \/ j \in shared) /\ (j \in media => j \in dirs)
  BY DEF MediaInv, DisksOK
<1>1. CASE RecoverFetch(p)
  <2>1. /\ r.pc = "download" /\ r.job = j /\ r.made = {"staging"}
        /\ CreateStaging(j) /\ takes' = takes
    BY <1>1, StepWithSets DEF RecoverFetch
  <2>2. QED
    BY <1>b, <1>c, <2>1, Begins
<1>2. CASE RecoverDownload(p) \/ RecoverEmptyStaging(p) \/ RecoverTidy(p) \/ RecoverCleanStaging(p)
  <2>1. /\ main[p].made # {} /\ takes' = takes
        /\ RemoveStaging(j) \/ \E s : SetStaged(j, s)
    BY <1>2, <1>d DEF RecoverDownload, RecoverEmptyStaging, RecoverTidy, RecoverCleanStaging, UserOK, Placing
  <2>2. Concerns(j) /\ UNCHANGED <<dirs, media, shared>>
    BY <1>b, <2>1, SetStagedConcerns, RemoveStagingConcerns
  <2>3. CASE RecoverDownload(p)
    <3>1. r.pc = "verify" /\ r.job = j /\ r.made = main[p].made
      BY <2>3, StepKeeps DEF RecoverDownload
    <3>2. UserOK(r, takes', media', shared', staged')
      BY <1>d, <2>1, <2>2, <3>1 DEF UserOK, Placing
    <3>3. QED
      BY <1>b, <1>c, <1>e, <2>1, <2>2, <3>1, <3>2, PassWorks
  <2>4. CASE RecoverTidy(p)
    <3>1. r.pc = "recover" /\ r.made = {}
      BY <2>4, ResumeEffect DEF RecoverTidy
    <3>2. UserOK(r, takes', media', shared', staged')
      BY <3>1, OutsideOK DEF Outside, Placing
    <3>3. QED
      BY <1>b, <1>c, <1>e, <2>1, <2>2, <3>1, <3>2, PassWorks
  <2>5. CASE RecoverCleanStaging(p)
    <3>1. r.pc = "fail" /\ r.job = j /\ r.made = main[p].made \ {"staging"}
      BY <2>5, StepWithSets DEF RecoverCleanStaging
    <3>2. UserOK(r, takes', media', shared', staged')
      BY <1>d, <2>1, <2>2, <3>1 DEF UserOK, Placing, Handling
    <3>3. QED
      BY <1>b, <1>c, <1>e, <2>1, <2>2, <3>1, <3>2, PassWorks
  <2>6. CASE RecoverEmptyStaging(p)
    <3>1. r = main[p] /\ main[p].pc \in {"tidy", "fail"}
      BY <2>6 DEF RecoverEmptyStaging, procVars
    <3>2. UserOK(r, takes', media', shared', staged')
      BY <1>d, <2>1, <2>2, <3>1 DEF UserOK, Placing, Handling
    <3>3. QED
      BY <1>b, <1>c, <1>e, <2>1, <2>2, <3>1, <3>2, PassWorks DEF RecoverEmptyStaging, procVars
  <2>7. QED
    BY <1>2, <2>3, <2>4, <2>5, <2>6
<1>3. CASE RecoverMake(p)
  <2>1. /\ r.pc = "move" /\ r.job = j /\ r.made = {"staging", "final"}
        /\ main[p].pc = "make" /\ takes' = takes /\ dirs' = dirs \cup {j}
        /\ UNCHANGED <<staged, media, shared>>
    BY <1>3, StepWithSets DEF RecoverMake, MakeDir
  <2>2. main[p].made # {} /\ Concerns(j)
    BY <1>d, <2>1 DEF UserOK, Placing, Concerns
  <2>3. UserOK(r, takes', media', shared', staged')
    BY <1>d, <2>1 DEF UserOK, Placing
  <2>4. QED
    BY <1>b, <1>c, <1>e, <2>1, <2>2, <2>3, PassWorks
<1>4. CASE RecoverMove(p)
  <2>1. /\ r.pc = "commit" /\ r.job = j /\ r.made = main[p].made
        /\ main[p].pc = "move" /\ takes' = takes /\ MoveVideo(j)
    BY <1>4, StepKeeps DEF RecoverMove
  <2>2. /\ Concerns(j) /\ UNCHANGED <<dirs, shared>> /\ media \subseteq media'
        /\ staged[j] = "video" => j \in media'
        /\ j \in media' => j \in dirs'
    BY <1>b, <1>e, <2>1, MoveVideoConcerns
  <2>3. main[p].made # {}
    BY <1>d, <2>1 DEF UserOK, Placing
  <2>4. UserOK(r, takes', media', shared', staged')
    BY <1>d, <2>1, <2>2 DEF UserOK, Placing
  <2>5. QED
    BY <1>b, <1>c, <1>e, <2>1, <2>2, <2>3, <2>4, PassWorks
<1>5. CASE RecoverCleanFinal(p)
  <2>1. /\ r.job = j /\ "final" \in main[p].made /\ takes' = takes
        /\ dirs' = dirs \ {j} /\ media' = media \ {j} /\ UNCHANGED <<staged, shared>>
        /\ r.pc = "fail" /\ r.made = {}
    BY <1>5, StepWithSets DEF RecoverCleanFinal, RemoveFinalDir
  <2>2. j \notin shared => j \notin takes
    BY <1>d, <2>1 DEF UserOK
  <2>3. Concerns(j)
    BY <2>1 DEF Concerns
  <2>4. UserOK(r, takes', media', shared', staged')
    BY <2>1, OutsideOK DEF Outside, Placing
  <2>5. QED
    BY <1>b, <1>c, <2>1, <2>2, <2>3, <2>4, PassWorks
<1>6. CASE RecoverCommit(p)
  <2>1. /\ r.pc = "tidy" /\ r.job = j /\ r.made = {"staging"}
        /\ main[p].pc = "commit" /\ takes' = takes \cup {j} /\ UNCHANGED diskVars
    BY <1>6, StepWithSets DEF RecoverCommit
  <2>2. main[p].made # {} /\ (j \in media \/ j \in shared)
    BY <1>d, <2>1 DEF UserOK, Placing
  <2>3. Concerns(j) /\ UNCHANGED <<staged, dirs, media, shared>>
    BY <2>1 DEF Concerns, diskVars
  <2>4. UserOK(r, takes', media', shared', staged')
    BY <2>1 DEF UserOK, Placing
  <2>5. QED
    BY <1>b, <1>c, <1>e, <2>1, <2>2, <2>3, <2>4, PassWorks
<1>7. ASSUME DisksKept, r.job = j \/ r.made = {}, r.made # {} => main[p].made # {},
             UserOK(r, takes, media, shared, staged)
      PROVE  MediaInv'
  BY <1>b, <1>c, <1>e, <1>7, PassWorks DEF DisksKept
<1>8. ASSUME Resume(p), DisksKept PROVE MediaInv'
  <2>1. r.pc = "recover" /\ r.made = {}
    BY <1>8, ResumeEffect
  <2>2. QED
    BY <1>7, <1>8, <2>1, OutsideOK DEF Outside, Placing
<1>9. CASE \/ RecoverWithoutPrompt(p) \/ RecoverSucceededRequest(p) \/ RecoverFail(p)
  BY <1>8, <1>9 DEF DisksKept, diskVars, RecoverWithoutPrompt, RecoverSucceededRequest,
     RecoverFail
<1>10. CASE \/ AskHistory(p) \/ AskHistoryFails(p) \/ AskQueue(p) \/ AskQueueFails(p)
            \/ RecoverFetchFails(p) \/ RecoverPlaceFails(p) \/ RecoverCommitFails(p)
  <2>1. DisksKept
    BY <1>10 DEF DisksKept, diskVars, AskHistory, AskHistoryFails, AskQueue, AskQueueFails,
       RecoverFetchFails, RecoverPlaceFails, RecoverCommitFails
  <2>2. \/ Resume(p)
        \/ \E pc \in {"fail", "fetch", "queue"} :
               Step(p, pc) /\ (pc # "fail" => main[p].pc = "inspect")
    BY <1>10 DEF AskHistory, AskHistoryFails, AskQueue, AskQueueFails, RecoverFetchFails,
       RecoverPlaceFails, RecoverCommitFails
  <2>3. ASSUME NEW pc \in {"fail", "fetch", "queue"}, Step(p, pc),
               pc # "fail" => main[p].pc = "inspect"
        PROVE  MediaInv'
    <3>1. r.pc = pc /\ r.job = j /\ r.made = main[p].made
      BY <2>3, StepKeeps
    <3>2. UserOK(r, takes, media, shared, staged)
      BY <1>d, <2>3, <3>1 DEF UserOK, Placing, Handling
    <3>3. QED
      BY <1>7, <2>1, <3>1, <3>2
  <2>4. QED
    BY <1>8, <2>1, <2>2, <2>3
<1>11. CASE RecoverVerify(p) \/ RecoverCheck(p) \/ RecoverLook(p)
  <2>1. DisksKept
    BY <1>11 DEF DisksKept, diskVars, RecoverVerify, RecoverCheck, RecoverLook
  <2>2. PICK pc \in {"check", "make", "look", "tidy", "fail"} :
            /\ Step(p, pc) /\ main[p].pc \in Placing
            /\ pc = "check" => staged[j] = "video"
            /\ pc = "make" => main[p].pc = "check" /\ j \notin dirs
    BY <1>11 DEF RecoverVerify, RecoverCheck, RecoverLook, FinalFree, Placing
  <2>3. r.pc = pc /\ r.job = j /\ r.made = main[p].made
    BY <2>2, StepKeeps
  <2>4. UserOK(r, takes, media, shared, staged)
    BY <1>d, <1>e, <2>2, <2>3 DEF UserOK, Placing, Handling
  <2>5. QED
    BY <1>7, <2>1, <2>3, <2>4
<1>12. QED
  BY <1>1, <1>2, <1>3, <1>4, <1>5, <1>6, <1>9, <1>10, <1>11 DEF PassStep

LEMMA LoopMedia ==
    ASSUME TypeInv, MediaInv, NEW p \in Procs,
           \/ RecoverList(p) \/ RecoverNext(p) \/ RecoverEnd(p)
           \/ Claim(p) \/ RoundClaimed(p) \/ RoundDone(p) \/ Poll(p)
    PROVE  MediaInv'
<1> USE DEF dbVars, diskVars, envVars
<1>a. /\ main \in [Procs -> Main] /\ thread \in [Threads -> Thread]
      /\ UserOK(main[p], takes, media, shared, staged)
  BY DEF TypeInv, TypeOK, MediaInv, UsersOK
<1>1. DisksKept
  BY DEF DisksKept, RecoverList, RecoverNext, RecoverEnd, Claim, RoundClaimed, RoundDone, Poll
<1>2. main[p].made = {}
  BY <1>a DEF UserOK, Placing, Handling, RecoverList, RecoverNext, RecoverEnd, Claim,
     RoundClaimed, RoundDone, Poll
<1>3. \A q \in Procs : main'[q] = main[q] \/ Outside(main'[q])
  <2>1. CASE Claim(p)
    BY <2>1 DEF Claim
  <2>2. CASE RoundClaimed(p) \/ RoundDone(p) \/ Poll(p)
    <3>1. PICK pc \in {"idle", "wait", "claim", "list"} : Step(p, pc)
      BY <2>2 DEF RoundClaimed, RoundDone, Poll
    <3>2. main'[p].pc = pc /\ main'[p].made = {} /\ \A q \in Procs : q # p => main'[q] = main[q]
      BY <1>2, <3>1, StepKeeps, StepEffect DEF Steps
    <3>3. QED
      BY <3>2 DEF Outside, Placing
  <2>3. CASE RecoverList(p) \/ RecoverEnd(p)
    <3>1. \E todo, boot : \E pc \in {"recover", "list", "claim"} :
              main' = [main EXCEPT ![p].pc = pc, ![p].todo = todo, ![p].boot = boot]
      <4>1. CASE RecoverList(p)
        <5>1. main' = [main EXCEPT ![p].pc = "recover",
                                   ![p].todo = {j \in Jobs : job[j].status = "claimed"},
                                   ![p].boot = main[p].boot]
          BY <1>a, <4>1 DEF RecoverList, Main
        <5>2. QED
          BY <5>1
      <4>2. CASE RecoverEnd(p)
        <5>1. main' = [main EXCEPT ![p].pc = IF main[p].boot THEN "list" ELSE "claim",
                                   ![p].todo = main[p].todo, ![p].boot = FALSE]
          BY <1>a, <4>2 DEF RecoverEnd, Main
        <5>2. QED
          BY <5>1
      <4>3. QED
        BY <2>3, <4>1, <4>2
    <3>2. main'[p].pc \in {"recover", "list", "claim"} /\ main'[p].made = {}
          /\ \A q \in Procs : q # p => main'[q] = main[q]
      BY <1>a, <1>2, <3>1 DEF Main
    <3>3. QED
      BY <3>2 DEF Outside, Placing
  <2>4. CASE RecoverNext(p)
    <3>1. PICK j \in main[p].todo :
              main' = [main EXCEPT ![p].pc = "inspect", ![p].todo = @ \ {j},
                                   ![p].job = j, ![p].seen = req[j]]
      BY <2>4 DEF RecoverNext
    <3>2. /\ main'[p].pc = "inspect" /\ main'[p].made = {}
          /\ \A q \in Procs : q # p => main'[q] = main[q]
      BY <1>a, <1>2, <3>1 DEF Main
    <3>3. QED
      BY <3>2 DEF Outside, Placing
  <2>5. QED
    BY <2>1, <2>2, <2>3, <2>4
<1>4. \A t \in Threads : thread'[t] = thread[t] \/ Outside(thread'[t])
  <2>1. CASE Claim(p)
    <3>1. PICK j \in Jobs, s \in Slots :
              /\ thread[<<p, s>>].pc = "free"
              /\ thread' = [thread EXCEPT ![<<p, s>>].pc = "install", ![<<p, s>>].job = j]
      BY <2>1 DEF Claim
    <3>2. <<p, s>> \in Threads
      BY DEF Threads
    <3>3. thread[<<p, s>>].made = {}
      BY <3>1, <3>2 DEF MediaInv, UsersOK, UserOK, Placing, Handling
    <3>4. thread'[<<p, s>>].pc = "install" /\ thread'[<<p, s>>].made = {}
          /\ \A t \in Threads : t # <<p, s>> => thread'[t] = thread[t]
      BY <1>a, <3>1, <3>2, <3>3 DEF Thread
    <3>5. QED
      BY <3>4 DEF Outside, Placing
  <2>2. CASE RoundDone(p)
    BY <2>2 DEF RoundDone, ThreadFree, Outside, Placing
  <2>3. CASE ~Claim(p) /\ ~RoundDone(p)
    BY <2>3 DEF RecoverList, RecoverNext, RecoverEnd, RoundClaimed, Poll
  <2>4. QED
    BY <2>1, <2>2, <2>3
<1>5. QED
  BY <1>1, <1>3, <1>4, NobodyWorks

\* The steps of neither a thread nor a main loop leave the disk alone.
LEMMA NextMedia == TypeInv /\ TypeInv' /\ OnceInv /\ MediaInv /\ [Next]_vars => MediaInv'
<1> SUFFICES ASSUME TypeInv, TypeInv', OnceInv, MediaInv, [Next]_vars PROVE MediaInv'
  OBVIOUS
<1> USE DEF dbVars, diskVars, envVars, procVars
<1>1. CASE \/ \E j \in Jobs : Enqueue(j) \/ PromptStarts(j) \/ PromptEnds(j)
           \/ ComfyRestarts
           \/ UNCHANGED vars
  <2>1. UNCHANGED <<main, thread>> /\ DisksKept
    BY <1>1 DEF Enqueue, PromptStarts, PromptEnds, ComfyRestarts, vars, DisksKept
  <2>2. QED
    BY <2>1, NobodyWorks
<1>2. ASSUME NEW p \in Procs, Start(p) PROVE MediaInv'
  <2>1. thread' = thread /\ DisksKept /\ main[p].pc = "down"
    BY <1>2 DEF Start, DisksKept
  <2>2. main[p].made = {}
    BY <2>1 DEF MediaInv, UsersOK, UserOK, Placing, Handling
  <2>3. main'[p].pc = "list" /\ main'[p].made = {} /\ \A q \in Procs : q # p => main'[q] = main[q]
    BY <1>2, <2>2 DEF Start, TypeInv, TypeOK, Main
  <2>4. QED
    BY <2>1, <2>3, NobodyWorks DEF Outside, Placing
<1>3. ASSUME NEW p \in Procs, Stop(p) \/ Crash(p) PROVE MediaInv'
  <2>1. Down(p) /\ DisksKept
    BY <1>3 DEF Stop, Crash, Down, DisksKept
  <2>2. \A t \in Threads : thread'[t] = thread[t] \/ Outside(thread'[t])
    BY <2>1 DEF Down, ThreadFree, Outside, Placing
  <2>3. \A q \in Procs : main'[q] = main[q] \/ Outside(main'[q])
    BY <2>1, DownEffect DEF MainDown, Outside, Placing
  <2>4. QED
    BY <2>1, <2>2, <2>3, NobodyWorks
<1>4. ASSUME NEW p \in Procs, MainStep(p) PROVE MediaInv'
  BY <1>4, MainSteps, PassMedia, LoopMedia
<1>5. ASSUME NEW t \in Threads, ThreadStep(t) PROVE MediaInv'
  BY <1>5, ThreadMedia
<1>6. QED
  BY <1>1, <1>2, <1>3, <1>4, <1>5 DEF Next

LEMMA InitMedia == Init => MediaInv
<1> SUFFICES ASSUME Init PROVE MediaInv
  OBVIOUS
<1>1. \A t \in Threads : Outside(thread[t])
  BY DEF Init, ThreadFree, Outside, Placing
<1>2. \A p \in Procs : Outside(main[p])
  BY DEF Init, MainDown, Outside, Placing
<1>3. UsersOK
  BY <1>1, <1>2, OutsideOK DEF UsersOK
<1>4. QED
  BY <1>1, <1>2, <1>3 DEF Init, MediaInv, Apart, Uses, Outside, DisksOK

LEMMA Medias == Spec => [](TypeInv /\ OnceInv /\ PhaseInv /\ MediaInv)
<1>1. Init => MediaInv
  BY InitMedia
<1>2. TypeInv /\ TypeInv' /\ OnceInv /\ MediaInv /\ [Next]_vars => MediaInv'
  BY NextMedia
<1>3. QED
  BY <1>1, <1>2, Phases, PTL DEF Spec

-----------------------------------------------------------------------------
(* A succeeded job has its Take *)

OneSlot == \A s, u \in Slots : s = u

\* The callback installed is the one of the only thread.
CallbackOK ==
    \A t \in Threads : thread[t].pc \notin {"free", "install", "done"}
                          => callback[t[1]] = thread[t].job

FinalInv == CallbackOK /\ SucceededHasTake

\* A step of a main loop that runs no round: what it does to the threads.
LEMMA LoopThreads ==
    ASSUME TypeInv, NEW p \in Procs, MainStep(p), ~Claim(p), ~RoundDone(p)
    PROVE  UNCHANGED <<thread, callback, lock, prompt, submits>>
<1>1. CASE PassStep(p)
  BY <1>1, PassForm DEF TypeInv
<1>2. QED
  BY <1>1, MainSteps DEF envVars, RecoverList, RecoverNext, RecoverEnd, RoundClaimed, Poll

LEMMA NextCallback ==
    ASSUME OneSlot, TypeInv, CallbackOK, [Next]_vars
    PROVE  CallbackOK'
<1> USE DEF dbVars, diskVars, envVars, procVars
<1>a. callback \in [Procs -> Jobs \cup {None}] /\ thread \in [Threads -> Thread]
  BY DEF TypeInv, TypeOK
<1>b. \A t, u \in Threads : t[1] = u[1] => t = u
  BY DEF OneSlot, Threads
<1>1. CASE /\ UNCHANGED callback
           /\ \A t \in Threads : thread'[t].pc \notin {"free", "install", "done"}
                                    => thread'[t] = thread[t]
  BY <1>1 DEF CallbackOK
<1>2. CASE \/ \E j \in Jobs : Enqueue(j) \/ PromptStarts(j) \/ PromptEnds(j)
           \/ \E p \in Procs : Start(p)
           \/ ComfyRestarts
           \/ UNCHANGED vars
  BY <1>1, <1>2 DEF Enqueue, PromptStarts, PromptEnds, Start, ComfyRestarts, vars
<1>3. ASSUME NEW p \in Procs, Stop(p) \/ Crash(p) PROVE CallbackOK'
  <2>1. Down(p)
    BY <1>3 DEF Stop, Crash
  <2>2. QED
    BY <1>a, <2>1 DEF CallbackOK, Down, ThreadFree
<1>4. ASSUME NEW p \in Procs, MainStep(p) PROVE CallbackOK'
  <2>2. CASE Claim(p)
    <3>1. \A t \in Threads : thread'[t].pc # "install" => thread'[t] = thread[t]
      BY <1>a, <2>2 DEF Claim, Threads, Thread
    <3>2. QED
      BY <1>1, <2>2, <3>1 DEF Claim
  <2>3. CASE RoundDone(p)
    <3>1. \A t \in Threads : thread'[t].pc # "free" => thread'[t] = thread[t]
      BY <2>3 DEF RoundDone, ThreadFree
    <3>2. QED
      BY <1>1, <2>3, <3>1 DEF RoundDone
  <2>4. CASE ~Claim(p) /\ ~RoundDone(p)
    BY <1>1, <1>4, <2>4, LoopThreads
  <2>5. QED
    BY <2>2, <2>3, <2>4
<1>5. ASSUME NEW t \in Threads, ThreadStep(t) PROVE CallbackOK'
  <2>1. \A u \in Threads : u # t => thread'[u] = thread[u]
    BY <1>5, ThreadStepLocal
  <2>2. t[1] \in Procs
    BY DEF Threads
  <2>3. \A u \in Threads : u # t => callback'[u[1]] = callback[u[1]]
    <3>1. \/ UNCHANGED callback
          \/ \E x : callback' = [callback EXCEPT ![t[1]] = x]
      BY <1>5, ThreadForm DEF TypeInv, InstallCallback, RestoreCallback
    <3>2. \A u \in Threads : u # t => u[1] \in Procs /\ u[1] # t[1]
      BY <1>b DEF Threads
    <3>3. QED
      BY <1>a, <3>1, <3>2
  <2>4. thread'[t].pc \notin {"free", "install", "done"} => callback'[t[1]] = thread'[t].job
    <3>1. CASE InstallCallback(t)
      BY <1>a, <2>2, <3>1 DEF InstallCallback, Thread
    <3>2. CASE RestoreCallback(t)
      BY <1>a, <3>2 DEF RestoreCallback, ThreadFree
    <3>3. CASE ~InstallCallback(t) /\ ~RestoreCallback(t)
      <4>1. UNCHANGED callback /\ thread[t].pc \notin Idle /\ \E pc : Moves(t, pc)
        BY <1>5, <3>3, ThreadForm DEF TypeInv
      <4>2. thread'[t].job = thread[t].job
        BY <4>1, MovesEffect
      <4>3. thread[t].pc # "install"
        BY <1>5, <3>3 DEF ThreadStep, CreateRequest, ResolveFails, Submit, SubmitAnswerLost,
           SubmitRefused, RecordPrompt, MarkRunning, MonitorSucceeds, MonitorErrors,
           MonitorTimesOut, MonitorLosesSocket, FetchResult, FetchFails, Download,
           DownloadFails, VerifyMedia, CheckFinal, MakeFinal, MoveToFinal, PlaceFails,
           Commit, CommitFails, RemoveFinal, UndoRequest, UndoFails, EmptyStaging, Tidy,
           AbortRequest, AbortRequestFails, CleanStaging, CleanFinal, ReportFailure
      <4>4. QED
        BY <4>1, <4>2, <4>3 DEF CallbackOK, Idle
    <3>4. QED
      BY <3>1, <3>2, <3>3
  <2>5. QED
    BY <2>1, <2>3, <2>4 DEF CallbackOK
<1>6. QED
  BY <1>2, <1>3, <1>4, <1>5 DEF Next

\* What a step does to the queue and to the takes: one of a few things.
LEMMA JobWrites ==
    ASSUME TypeInv, [Next]_vars
    PROVE  \/ UNCHANGED <<job, takes>>
           \/ \E k : \E st \in {"pending", "failed"} : job' = SetJob(k, st) /\ takes' = takes
           \/ \E k \in Jobs : /\ job' = [job EXCEPT ![k].status = "claimed", ![k].attempts = @ + 1]
                              /\ takes' = takes
           \/ \E k \in Jobs : /\ job' = Finalized(k, k)
                              /\ takes \subseteq takes' /\ k \in takes'
           \/ \E t \in Threads : Commit(t)
<1> USE DEF dbVars, diskVars, envVars, procVars
<1>1. CASE \/ \E j \in Jobs : PromptStarts(j) \/ PromptEnds(j)
           \/ \E p \in Procs : Start(p) \/ Stop(p) \/ Crash(p)
           \/ ComfyRestarts
           \/ UNCHANGED vars
  BY <1>1 DEF PromptStarts, PromptEnds, Start, Stop, Crash, Down, ComfyRestarts, vars
<1>2. CASE \E j \in Jobs : Enqueue(j)
  BY <1>2 DEF Enqueue
<1>3. ASSUME NEW p \in Procs, PassStep(p)
      PROVE  \/ UNCHANGED <<job, takes>>
             \/ \E k : job' = SetJob(k, "failed") /\ takes' = takes
             \/ \E k \in Jobs : /\ job' = Finalized(k, k)
                                /\ takes \subseteq takes' /\ k \in takes'
  <2>1. main[p].job \in Jobs
    BY <1>3, PassForm DEF TypeInv, HoldersOK
  <2>2. QED
    BY <1>3, <2>1, PassTables DEF RecoverSucceededRequest, RecoverCommit, TakeIntact
<1>4. ASSUME NEW p \in Procs, Claim(p)
      PROVE  \E k \in Jobs : /\ job' = [job EXCEPT ![k].status = "claimed", ![k].attempts = @ + 1]
                             /\ takes' = takes
  BY <1>4 DEF Claim
<1>5. ASSUME NEW p \in Procs, MainStep(p), ~PassStep(p), ~Claim(p)
      PROVE  UNCHANGED <<job, takes>>
  BY <1>5, MainSteps DEF RecoverList, RecoverNext, RecoverEnd, RoundClaimed, RoundDone, Poll
<1>6. ASSUME NEW t \in Threads, ThreadStep(t), ~Commit(t)
      PROVE  \/ UNCHANGED <<job, takes>>
             \/ \E k : job' = SetJob(k, "failed") /\ takes' = takes
  <2>1. ReportFailure(t) \/ UNCHANGED <<job, takes>>
    BY <1>6, ThreadTables DEF TypeInv
  <2>2. QED
    BY <2>1 DEF ReportFailure
<1>7. QED
  BY <1>1, <1>2, <1>3, <1>4, <1>5, <1>6 DEF Next

\* A step takes no Take away, and a job that is succeeded after it shows one.
LEMMA JobsShow ==
    ASSUME TypeInv, \A j \in Jobs : job[j].status = "succeeded" => job[j].take \in takes,
           [Next]_vars
    PROVE  /\ takes \subseteq takes'
           /\ \A j \in Jobs : job'[j].status = "succeeded" => job'[j].take \in takes'
<1>a. job \in [Jobs -> Job] /\ HoldersOK
  BY DEF TypeInv, TypeOK
<1>1. ASSUME NEW k, NEW st \in {"pending", "failed"}, job' = SetJob(k, st), takes' = takes
      PROVE  \A j \in Jobs : job'[j].status = "succeeded" => job'[j].take \in takes'
  BY <1>a, <1>1 DEF SetJob, Job
<1>2. ASSUME NEW cb, NEW k \in Jobs, job' = Finalized(cb, k), takes \subseteq takes', k \in takes'
      PROVE  \A j \in Jobs : job'[j].status = "succeeded" => job'[j].take \in takes'
  BY <1>a, <1>2 DEF Finalized, Job
<1>3. ASSUME NEW k \in Jobs, takes' = takes,
             job' = [job EXCEPT ![k].status = "claimed", ![k].attempts = @ + 1]
      PROVE  \A j \in Jobs : job'[j].status = "succeeded" => job'[j].take \in takes'
  <2>1. \A j \in Jobs : job'[j].status = "succeeded" => job'[j] = job[j]
    BY <1>a, <1>3 DEF Job
  <2>2. takes' = takes
    BY <1>3
  <2>3. QED
    BY <2>1, <2>2
<1>4. ASSUME NEW t \in Threads, Commit(t)
      PROVE  /\ takes \subseteq takes'
             /\ \A j \in Jobs : job'[j].status = "succeeded" => job'[j].take \in takes'
  <2>1. thread[t].job \in Jobs
    BY <1>a, <1>4 DEF Commit, HoldersOK
  <2>2. QED
    BY <1>2, <1>4, <2>1 DEF Commit
<1>5. QED
  BY <1>1, <1>2, <1>3, <1>4, JobWrites

\* For any number of threads and processes: what is reported succeeded shows a
\* Take, and the video of a Take is only ever removed when two processes were in
\* its directories at once.
THEOREM MediaStays == Spec => []MediaKept
<1> DEFINE Shown == \A j \in Jobs : job[j].status = "succeeded" => job[j].take \in takes
<1>1. Init => Shown
  BY DEF Init
<1>2. TypeInv /\ Shown /\ [Next]_vars => Shown'
  BY JobsShow
<1>3. Shown /\ MediaInv => MediaKept
  BY DEF MediaInv, DisksOK, MediaKept
<1> HIDE DEF Shown
<1>4. QED
  BY <1>1, <1>2, <1>3, Medias, PTL DEF Spec

\* What a step does to a job that is succeeded after it.
EndsWithTake(j) == \/ job[j].status = "succeeded" /\ job'[j].take = job[j].take
                   \/ j \in takes' /\ job'[j].take = j

LEMMA JobsEnd ==
    ASSUME TypeInv, CallbackOK, [Next]_vars
    PROVE  /\ takes \subseteq takes'
           /\ \A j \in Jobs : job'[j].status = "succeeded" => EndsWithTake(j)
<1>a. job \in [Jobs -> Job] /\ HoldersOK
  BY DEF TypeInv, TypeOK
<1>1. CASE UNCHANGED <<job, takes>>
  BY <1>1 DEF EndsWithTake
<1>2. ASSUME NEW k, NEW st \in {"pending", "failed"}, job' = SetJob(k, st), takes' = takes
      PROVE  \A j \in Jobs : job'[j].status = "succeeded" => EndsWithTake(j)
  BY <1>a, <1>2 DEF SetJob, Job, EndsWithTake
<1>3. ASSUME NEW k \in Jobs, job' = Finalized(k, k), takes \subseteq takes', k \in takes'
      PROVE  \A j \in Jobs : job'[j].status = "succeeded" => EndsWithTake(j)
  <2>1. \A j \in Jobs :
          Finalized(k, k)[j].status = "succeeded" =>
              \/ job[j].status = "succeeded" /\ Finalized(k, k)[j].take = job[j].take
              \/ j = k /\ Finalized(k, k)[j].take = k
    BY <1>a, NoneAssumption DEF Finalized, Job
  <2>2. QED
    BY <1>3, <2>1 DEF EndsWithTake
<1>4. ASSUME NEW k \in Jobs,
             job' = [job EXCEPT ![k].status = "claimed", ![k].attempts = @ + 1]
      PROVE  \A j \in Jobs : job'[j].status = "succeeded" => EndsWithTake(j)
  <2>1. \A j \in Jobs : job'[j].status = "succeeded" => job'[j] = job[j]
    BY <1>a, <1>4 DEF Job
  <2>2. QED
    BY <2>1 DEF EndsWithTake
<1>5. ASSUME NEW t \in Threads, Commit(t)
      PROVE  /\ takes \subseteq takes'
             /\ \A j \in Jobs : job'[j].status = "succeeded" => EndsWithTake(j)
  <2>1. thread[t].job \in Jobs /\ callback[t[1]] = thread[t].job
    BY <1>a, <1>5 DEF Commit, HoldersOK, CallbackOK
  <2>2. QED
    BY <1>3, <1>5, <2>1 DEF Commit
<1>6. QED
  BY <1>1, <1>2, <1>3, <1>4, <1>5, JobWrites

LEMMA Finals ==
    ASSUME OneSlot
    PROVE  Spec => [](TypeInv /\ OnceInv /\ PhaseInv /\ MediaInv /\ FinalInv)
<1>1. Init => FinalInv
  BY DEF Init, FinalInv, CallbackOK, SucceededHasTake, ThreadFree
<1>2. TypeInv /\ MediaInv' /\ FinalInv /\ [Next]_vars => FinalInv'
  <2> SUFFICES ASSUME TypeInv, MediaInv', FinalInv, [Next]_vars PROVE FinalInv'
    OBVIOUS
  <2>1. CallbackOK'
    BY NextCallback DEF FinalInv
  <2>2. /\ takes \subseteq takes'
        /\ \A j \in Jobs : job'[j].status = "succeeded" => EndsWithTake(j)
    BY JobsEnd DEF FinalInv
  <2>3. SucceededHasTake'
    BY <2>1, <2>2 DEF FinalInv, MediaInv, DisksOK, SucceededHasTake, EndsWithTake
  <2>4. QED
    BY <2>1, <2>3 DEF FinalInv
<1>3. QED
  BY <1>1, <1>2, Medias, PTL DEF Spec

\* With one thread per process, whatever processes work on the queue, a job that
\* is reported succeeded has its own Take, and the video of that Take is there
\* unless two processes were in its directories at once.
THEOREM SuccessIsReal == ASSUME OneSlot PROVE Spec => []SucceededHasTake
<1>1. FinalInv => SucceededHasTake
  BY DEF FinalInv
<1>2. QED
  BY <1>1, Finals, PTL

-----------------------------------------------------------------------------
(* With one worker, a job, its request and its Take end together *)

OneWorker == Embedded = {} \/ (Runners = {} /\ \A p, q \in Embedded : p = q)

Claimed(j) == job[j].status = "claimed"

\* What a recovery pass knows of the jobs it has listed, from nobody but itself.
RecoveryOK ==
    \A p \in Procs :
        /\ \A j \in main[p].todo : Claimed(j)
        /\ main[p].pc \in Working => /\ main[p].pc # "tidy" => Claimed(main[p].job)
                                     /\ main[p].job \notin main[p].todo
                                     /\ main[p].seen.status # "succeeded"

RunsOK == \A t \in Threads : thread[t].pc \notin {"free", "done", "tidy", "restore"}
                                => Claimed(thread[t].job)

TakesOK == \A j \in Jobs : /\ j \in takes <=> job[j].status = "succeeded"
                           /\ j \in takes <=> req[j].status = "succeeded"

SoleInv == RecoveryOK /\ RunsOK /\ TakesOK

\* Nobody else is at work while a thread runs, or a pass recovers, a job.
LEMMA OneUp ==
    ASSUME OneWorker, PhaseInv, NEW p \in Procs, NEW q \in Procs,
           main[p].pc # "down", main[q].pc # "down"
    PROVE  p = q
BY DEF OneWorker, PhaseInv, Procs

LEMMA RunAlone ==
    ASSUME OneSlot, OneWorker, TypeInv, PhaseInv, NEW p \in Procs, main[p].pc \in Claiming
    PROVE  /\ \A q \in Procs : main[q].todo = {} /\ main[q].pc \notin Working
           /\ \A t, u \in Threads : thread[t].pc # "free" /\ u # t => thread[u].pc = "free"
<1>1. \A q \in Procs : q # p => main[q].pc = "down"
  BY OneUp DEF Claiming
<1>2. \A q \in Procs : main[q].todo = {} /\ main[q].pc \notin Working
  BY <1>1 DEF PhaseInv, Working, Claiming
<1>3. \A q \in Procs, s \in Slots : q # p => thread[<<q, s>>].pc = "free"
  BY <1>1 DEF PhaseInv, SlotsFree, Claiming
<1>4. \A t, u \in Threads : thread[t].pc # "free" /\ u # t => thread[u].pc = "free"
  BY <1>3 DEF OneSlot, Threads
<1>5. QED
  BY <1>2, <1>4

LEMMA RecoverAlone ==
    ASSUME OneWorker, PhaseInv, NEW p \in Procs, main[p].pc \notin Claiming \cup {"down"}
    PROVE  /\ \A q \in Procs : q # p => main[q].todo = {} /\ main[q].pc \notin Working
           /\ \A t \in Threads : thread[t].pc = "free"
<1>1. \A q \in Procs : q # p => main[q].pc = "down"
  BY OneUp
<1>2. \A q \in Procs : main[q].pc \notin Claiming
  BY <1>1 DEF Claiming
<1>3. QED
  BY <1>1, <1>2 DEF PhaseInv, SlotsFree, Working, Threads

LEMMA BusyThread ==
    ASSUME PhaseInv, NEW t \in Threads, thread[t].pc # "free"
    PROVE  t[1] \in Procs /\ main[t[1]].pc \in Claiming
BY DEF PhaseInv, SlotsFree, Threads

\* Nobody is in the directories of a job that an execution begins with.
LEMMA BeginsAlone ==
    ASSUME OneWorker, TypeInv, OnceInv, PhaseInv, MediaInv, NEW j \in Jobs, CreateStaging(j),
           \/ \E t \in Threads : thread[t].pc = "fetch" /\ thread[t].job = j
           \/ \E p \in Procs : main[p].pc = "fetch" /\ main[p].job = j
    PROVE  shared' = shared
<1>1. \A t \in Threads : thread[t].job = j => main[t[1]].pc \in Claiming /\ t[1] \in Procs
  BY BusyThread DEF TypeInv, HoldersOK
<1>2. \A p \in Procs : main[p].job = j => main[p].pc \in Working
  BY HoldersAreUp
<1>3. \A p, q \in Procs : main[p].pc \in Working \cup Claiming
                              /\ main[q].pc \in Working \cup Claiming => p = q
  BY OneUp DEF Working, Claiming
<1>4. CASE \E t \in Threads : thread[t].pc = "fetch" /\ thread[t].job = j
  <2>1. PICK t \in Threads : thread[t].pc = "fetch" /\ thread[t].job = j
    BY <1>4
  <2>2. thread[t].made = {}
    BY <2>1 DEF MediaInv, UsersOK, UserOK, Placing, Handling
  <2>3. \A u \in Threads : thread[u].job = j => u = t
    BY <2>1 DEF OnceInv
  <2>4. \A p \in Procs : main[p].job # j
    BY <1>1, <1>2, <1>3, <2>1 DEF Working, Claiming
  <2>5. ~InUse(j)
    BY <2>2, <2>3, <2>4 DEF InUse
  <2>6. QED
    BY <2>5 DEF CreateStaging
<1>5. CASE \E p \in Procs : main[p].pc = "fetch" /\ main[p].job = j
  <2>1. PICK p \in Procs : main[p].pc = "fetch" /\ main[p].job = j
    BY <1>5
  <2>2. main[p].made = {}
    BY <2>1 DEF MediaInv, UsersOK, UserOK, Placing, Handling
  <2>3. \A q \in Procs : main[q].job = j => q = p
    BY <1>2, <1>3, <2>1
  <2>4. \A t \in Threads : thread[t].job # j
    BY <1>1, <1>2, <1>3, <2>1 DEF Working, Claiming
  <2>5. ~InUse(j)
    BY <2>2, <2>3, <2>4 DEF InUse
  <2>6. QED
    BY <2>5 DEF CreateStaging
<1>6. QED
  BY <1>4, <1>5

LEMMA NextShares ==
    ASSUME OneWorker, TypeInv, OnceInv, PhaseInv, MediaInv, [Next]_vars
    PROVE  shared' = shared
<1> USE DEF dbVars, diskVars, envVars, procVars
<1>1. CASE \/ \E j \in Jobs : Enqueue(j) \/ PromptStarts(j) \/ PromptEnds(j)
           \/ \E p \in Procs : Start(p) \/ Stop(p) \/ Crash(p)
           \/ ComfyRestarts
           \/ UNCHANGED vars
  BY <1>1 DEF Enqueue, PromptStarts, PromptEnds, Start, Stop, Crash, Down, ComfyRestarts, vars
<1>2. ASSUME NEW p \in Procs, PassStep(p) PROVE shared' = shared
  <2>1. CASE RecoverFetch(p)
    <3>1. main[p].job \in Jobs
      BY <1>2, PassForm DEF TypeInv, HoldersOK
    <3>2. QED
      BY <2>1, <3>1, BeginsAlone DEF RecoverFetch
  <2>2. CASE ~RecoverFetch(p)
    BY <1>2, <2>2 DEF PassStep, RecoverWithoutPrompt, RecoverSucceededRequest, AskHistory,
       AskHistoryFails, AskQueue, AskQueueFails, RecoverFetchFails, RecoverDownload,
       RecoverVerify, RecoverCheck, RecoverLook, RecoverMake, RecoverMove, RecoverPlaceFails,
       RecoverCommit, RecoverCommitFails, RecoverTidy, RecoverEmptyStaging,
       RecoverCleanStaging, RecoverCleanFinal, RecoverFail, SetStaged, RemoveStaging, MakeDir,
       MoveVideo, RemoveFinalDir
  <2>3. QED
    BY <2>1, <2>2
<1>3. ASSUME NEW p \in Procs, MainStep(p), ~PassStep(p) PROVE shared' = shared
  BY <1>3, MainSteps
     DEF RecoverList, RecoverNext, RecoverEnd, Claim, RoundClaimed, RoundDone, Poll
<1>4. ASSUME NEW t \in Threads, ThreadStep(t) PROVE shared' = shared
  <2>1. CASE FetchResult(t)
    <3>1. thread[t].job \in Jobs
      BY <1>4, ThreadForm DEF TypeInv, HoldersOK, Idle
    <3>2. QED
      BY <2>1, <3>1, BeginsAlone DEF FetchResult
  <2>2. CASE PlaceStep(t) /\ ~FetchResult(t)
    BY <2>2 DEF PlaceStep, Download, MakeFinal, MoveToFinal, RemoveFinal, EmptyStaging, Tidy,
       CleanStaging, CleanFinal, SetStaged, RemoveStaging, MakeDir, MoveVideo, RemoveFinalDir
  <2>3. CASE RaiseStep(t) \/ RequestStep(t) \/ QuietMove(t)
    BY <2>3, RaiseForm, RequestForm, QuietForm DEF TypeInv
  <2>4. CASE \/ InstallCallback(t) \/ RestoreCallback(t) \/ Submit(t) \/ SubmitAnswerLost(t)
             \/ Commit(t) \/ ReportFailure(t)
    BY <2>4 DEF InstallCallback, RestoreCallback, Submit, SubmitAnswerLost, Commit,
       ReportFailure
  <2>5. QED
    BY <1>4, <2>1, <2>2, <2>3, <2>4, ThreadSteps
<1>5. QED
  BY <1>1, <1>2, <1>3, <1>4 DEF Next

Unshared == shared = {}

LEMMA Alones == ASSUME OneWorker PROVE Spec => []Unshared
<1>1. Init => Unshared
  BY DEF Init, Unshared
<1>2. TypeInv /\ OnceInv /\ PhaseInv /\ MediaInv /\ Unshared /\ [Next]_vars => Unshared'
  BY NextShares DEF Unshared
<1>3. QED
  BY <1>1, <1>2, Medias, PTL DEF Spec

\* Where only the embedded worker or only runners, which share a lock, work on
\* the queue, with any number of threads: no two executions are ever in the
\* directories of one job, and so no handler removes the video of a Take.
THEOREM LockKeepsMedia ==
    ASSUME OneWorker
    PROVE  Spec => [](Unshared /\ takes \subseteq media)
<1>1. MediaInv /\ Unshared => takes \subseteq media
  BY DEF MediaInv, DisksOK, Unshared
<1>2. QED
  BY <1>1, Alones, Medias, PTL

\* What a step does to the tables.
Kept         == UNCHANGED <<job, takes, req>>
Added(j)     == /\ job[j].status = "absent" /\ job' = SetJob(j, "pending")
                /\ UNCHANGED <<takes, req>>
Begun(j)     == /\ job[j].status = "pending"
                /\ job' = [job EXCEPT ![j].status = "claimed", ![j].attempts = @ + 1]
                /\ UNCHANGED <<takes, req>>
Noted(j)     == /\ Claimed(j) /\ UNCHANGED <<job, takes>>
                /\ \E r : req' = [req EXCEPT ![j] = r] /\ r.status # "succeeded"
GivenUp(j)   == Claimed(j) /\ job' = SetJob(j, "failed") /\ UNCHANGED <<takes, req>>
Delivered(j) == /\ Claimed(j) /\ job' = Finalized(j, j) /\ takes' = takes \cup {j}
                /\ req' = [req EXCEPT ![j].status = "succeeded"]

OneWrite == Kept \/ \E j \in Jobs : \/ Added(j) \/ Begun(j) \/ Noted(j)
                                    \/ GivenUp(j) \/ Delivered(j)

LEMMA ThreadWrites ==
    ASSUME TypeInv, CallbackOK, RunsOK, NEW t \in Threads, ThreadStep(t)
    PROVE  OneWrite
<1> USE DEF dbVars, diskVars, envVars
<1>a. HoldersOK /\ req \in [Jobs -> Request] /\ TypeOK
  BY DEF TypeInv, TypeOK
<1> DEFINE j == thread[t].job
<1>1. CASE RequestStep(t)
  <2>1. thread[t].pc \notin {"free", "done", "tidy", "restore"}
    BY <1>1 DEF RequestStep, CreateRequest, RecordPrompt, MarkRunning, UndoRequest, AbortRequest
  <2>2. /\ j \in Jobs /\ Claimed(j) /\ UNCHANGED <<job, takes>>
        /\ \/ \E st \in RequestState \ {"succeeded"} : req' = [req EXCEPT ![j].status = st]
           \/ req' = [req EXCEPT ![j] = [status |-> "queued", prompt |-> TRUE]]
    BY <1>1, <1>a, <2>1, RequestForm DEF HoldersOK, RunsOK
  <2>3. CASE \E st \in RequestState \ {"succeeded"} : req' = [req EXCEPT ![j].status = st]
    <3>1. PICK st \in RequestState \ {"succeeded"} : req' = [req EXCEPT ![j].status = st]
      BY <2>3
    <3>2. req' = [req EXCEPT ![j] = [req[j] EXCEPT !.status = st]]
      BY <3>1
    <3>3. [req[j] EXCEPT !.status = st].status = st
      BY <1>a, <2>2 DEF Request
    <3>4. QED
      BY <2>2, <3>2, <3>3 DEF OneWrite, Noted
  <2>4. CASE req' = [req EXCEPT ![j] = [status |-> "queued", prompt |-> TRUE]]
    <3>1. [status |-> "queued", prompt |-> TRUE].status # "succeeded"
      OBVIOUS
    <3>2. Noted(j)
      BY <2>2, <2>4, <3>1, Zenon DEF Noted
    <3>3. QED
      BY <2>2, <3>2 DEF OneWrite
  <2>5. QED
    BY <2>2, <2>3, <2>4
<1>2. CASE Commit(t)
  BY <1>2, <1>a DEF Commit, HoldersOK, RunsOK, CallbackOK, OneWrite, Delivered
<1>3. CASE ReportFailure(t)
  BY <1>3, <1>a DEF ReportFailure, HoldersOK, RunsOK, OneWrite, GivenUp, Kept
<1>4. CASE UNCHANGED <<job, req, takes>>
  BY <1>4 DEF OneWrite, Kept
<1>5. QED
  BY <1>a, <1>1, <1>2, <1>3, <1>4, ThreadTables

LEMMA LoopWrites ==
    ASSUME TypeInv, RecoveryOK, NEW p \in Procs, MainStep(p)
    PROVE  OneWrite
<1> USE DEF dbVars, diskVars, envVars
<1>a. main[p].pc \in Working => /\ main[p].job \in Jobs
                                /\ main[p].pc # "tidy" => Claimed(main[p].job)
                                /\ main[p].seen.status # "succeeded"
  BY DEF TypeInv, HoldersOK, RecoveryOK
<1>1. CASE RecoverWithoutPrompt(p) \/ RecoverFail(p)
  BY <1>1, <1>a DEF RecoverWithoutPrompt, RecoverFail, Working, OneWrite, GivenUp
<1>2. CASE RecoverCommit(p)
  BY <1>2, <1>a DEF RecoverCommit, Working, OneWrite, Delivered
<1>3. CASE RecoverSucceededRequest(p)
  BY <1>3, <1>a DEF RecoverSucceededRequest, Working
<1>4. CASE Claim(p)
  BY <1>4 DEF Claim, Best, Claimable, OneWrite, Begun
<1>5. CASE UNCHANGED <<job, req, takes>>
  BY <1>5 DEF OneWrite, Kept
<1>6. QED
  BY <1>1, <1>2, <1>3, <1>4, <1>5, MainSteps, PassTables
     DEF RecoverList, RecoverNext, RecoverEnd, RoundClaimed, RoundDone, Poll

LEMMA NextWrites ==
    ASSUME TypeInv, CallbackOK, RecoveryOK, RunsOK, [Next]_vars
    PROVE  OneWrite
<1> USE DEF dbVars, diskVars, envVars, procVars
<1>1. CASE \/ \E j \in Jobs : PromptStarts(j) \/ PromptEnds(j)
           \/ \E p \in Procs : Start(p) \/ Stop(p) \/ Crash(p)
           \/ ComfyRestarts
           \/ UNCHANGED vars
  BY <1>1 DEF OneWrite, Kept, PromptStarts, PromptEnds, Start, Stop, Crash, Down,
     ComfyRestarts, vars
<1>2. CASE \E j \in Jobs : Enqueue(j)
  BY <1>2 DEF Enqueue, OneWrite, Added
<1>3. QED
  BY <1>1, <1>2, ThreadWrites, LoopWrites DEF Next

LEMMA WritesKeepTakes ==
    ASSUME TypeInv, TakesOK, OneWrite
    PROVE  TakesOK'
<1>a. job \in [Jobs -> Job] /\ req \in [Jobs -> Request]
  BY DEF TypeInv, TypeOK
<1>1. CASE Kept
  BY <1>1 DEF Kept, TakesOK
<1>2. ASSUME NEW j \in Jobs, Added(j) \/ Begun(j) \/ GivenUp(j) PROVE TakesOK'
  <2>1. /\ UNCHANGED <<takes, req>> /\ job[j].status # "succeeded"
        /\ \A k \in Jobs : job'[k].status = "succeeded" <=> job[k].status = "succeeded"
    BY <1>2, <1>a DEF Added, Begun, GivenUp, Claimed, SetJob, Job
  <2>2. QED
    BY <2>1 DEF TakesOK
<1>3. ASSUME NEW j \in Jobs, Noted(j) PROVE TakesOK'
  BY <1>3, <1>a DEF Noted, Claimed, TakesOK
<1>4. ASSUME NEW j \in Jobs, Delivered(j) PROVE TakesOK'
  <2>1. \A k \in Jobs : job'[k].status = IF k = j THEN "succeeded" ELSE job[k].status
    BY <1>4, <1>a, NoneAssumption DEF Delivered, Finalized, Job
  <2>2. \A k \in Jobs : req'[k].status = IF k = j THEN "succeeded" ELSE req[k].status
    BY <1>4, <1>a DEF Delivered, Request
  <2>3. QED
    BY <1>4, <2>1, <2>2 DEF Delivered, TakesOK
<1>5. QED
  BY <1>1, <1>2, <1>3, <1>4 DEF OneWrite

\* A step of a thread: it is alone, and no pass is under way.
LEMMA ThreadSole ==
    ASSUME OneSlot, OneWorker, TypeInv, PhaseInv, RecoveryOK, RunsOK,
           NEW t \in Threads, ThreadStep(t)
    PROVE  RecoveryOK' /\ RunsOK'
<1> USE DEF dbVars, diskVars, envVars
<1>a. thread[t] \in Thread /\ thread \in [Threads -> Thread] /\ HoldersOK
      /\ job \in [Jobs -> Job]
  BY DEF TypeInv, TypeOK
<1>b. main' = main /\ thread[t].pc \notin {"free", "done"}
  BY ThreadForm DEF TypeInv, Idle
<1>c. \A q \in Procs : main[q].todo = {} /\ main[q].pc \notin Working
  BY <1>b, BusyThread, RunAlone
<1>d. \A u \in Threads : u # t => thread[u].pc = "free" /\ thread'[u] = thread[u]
  BY <1>b, BusyThread, RunAlone, ThreadStepLocal
<1>1. RecoveryOK'
  BY <1>b, <1>c DEF RecoveryOK
<1>2. thread'[t].pc \notin {"free", "done", "tidy", "restore"}
          => job'[thread'[t].job].status = "claimed"
  <2>1. CASE Commit(t) \/ ReportFailure(t) \/ Tidy(t) \/ RestoreCallback(t)
    <3>1. thread'[t].pc \in {"tidy", "restore", "done"}
      <4>1. CASE RestoreCallback(t)
        BY <1>a, <4>1 DEF RestoreCallback, ThreadFree
      <4>2. QED
        BY <2>1, <4>1, GotoKeeps, GotoWithSets DEF Commit, ReportFailure, Tidy
    <3>2. QED
      BY <3>1
  <2>2. CASE EmptyStaging(t)
    BY <1>a, <1>b, <2>2 DEF EmptyStaging, procVars, RunsOK, Claimed
  <2>3. CASE /\ ~Commit(t) /\ ~ReportFailure(t) /\ ~Tidy(t) /\ ~EmptyStaging(t)
             /\ ~RestoreCallback(t)
    <3>1. job' = job
      BY <2>3, ThreadTables DEF TypeInv
    <3>2. thread[t].pc \notin {"free", "done", "tidy", "restore"}
      BY <2>3 DEF ThreadStep, InstallCallback, CreateRequest, ResolveFails, Submit,
         SubmitAnswerLost, SubmitRefused, RecordPrompt, MarkRunning, MonitorSucceeds,
         MonitorErrors, MonitorTimesOut, MonitorLosesSocket, FetchResult, FetchFails,
         Download, DownloadFails, VerifyMedia, CheckFinal, MakeFinal, MoveToFinal,
         PlaceFails, CommitFails, RemoveFinal, UndoRequest, UndoFails, AbortRequest,
         AbortRequestFails, CleanStaging, CleanFinal
    <3>3. thread'[t].job = thread[t].job
      <4>1. CASE InstallCallback(t)
        BY <1>a, <4>1 DEF InstallCallback, Thread
      <4>2. CASE \E pc : Moves(t, pc)
        BY <4>2, MovesEffect
      <4>3. QED
        BY <2>3, <4>1, <4>2, ThreadForm DEF TypeInv
    <3>4. QED
      BY <3>1, <3>2, <3>3 DEF RunsOK, Claimed
  <2>4. QED
    BY <2>1, <2>2, <2>3
<1>3. QED
  BY <1>1, <1>2, <1>d DEF RunsOK, Claimed

\* A step of a pass: it is alone, and no thread runs.
LEMMA PassSole ==
    ASSUME OneSlot, OneWorker, TypeInv, PhaseInv, RecoveryOK, RunsOK, TakesOK,
           NEW p \in Procs, MainStep(p), main[p].pc \notin Claiming
    PROVE  RecoveryOK' /\ RunsOK'
<1> USE DEF dbVars, diskVars, envVars
<1>a. /\ main \in [Procs -> Main] /\ main[p] \in Main /\ HoldersOK
      /\ job \in [Jobs -> Job] /\ req \in [Jobs -> Request]
  BY DEF TypeInv, TypeOK
<1>b. main[p].pc # "down" /\ thread' = thread
  <2>1. ~Claim(p) /\ ~RoundDone(p)
    BY DEF Claiming, Claim, RoundDone
  <2>2. CASE PassStep(p)
    BY <2>2, PassForm DEF TypeInv, Working
  <2>3. CASE ~PassStep(p)
    BY <2>1, <2>3, MainSteps DEF RecoverList, RecoverNext, RecoverEnd, RoundClaimed, Poll
  <2>4. QED
    BY <2>2, <2>3
<1>m. \A q \in Procs : q # p => main'[q] = main[q]
  <2>1. CASE PassStep(p)
    BY <2>1, PassForm, StepEffect, ResumeEffect DEF TypeInv
  <2>2. CASE ~PassStep(p)
    BY <2>2, <1>a, MainSteps DEF RecoverList, RecoverNext, RecoverEnd, Claim, RoundClaimed,
       RoundDone, Poll, Step
  <2>3. QED
    BY <2>1, <2>2
<1>c. /\ \A q \in Procs : q # p => main'[q].todo = {} /\ main'[q].pc \notin Working
      /\ \A t \in Threads : thread'[t].pc = "free"
  BY <1>b, <1>m, RecoverAlone
<1>1. RunsOK'
  BY <1>c DEF RunsOK
<1>2. SUFFICES /\ \A j \in main'[p].todo : job'[j].status = "claimed"
               /\ main'[p].pc \in Working =>
                     /\ main'[p].pc # "tidy" => job'[main'[p].job].status = "claimed"
                     /\ main'[p].job \notin main'[p].todo
                     /\ main'[p].seen.status # "succeeded"
  BY <1>1, <1>c DEF RecoveryOK, Claimed
<1>3. CASE RecoverList(p)
  <2>1. job' = job /\ main'[p].pc = "recover"
        /\ main'[p].todo = {j \in Jobs : job[j].status = "claimed"}
    BY <1>3, <1>a DEF RecoverList, Main
  <2>2. QED
    BY <2>1 DEF Working
<1>4. CASE RecoverNext(p)
  <2>1. PICK j \in main[p].todo :
            main' = [main EXCEPT ![p].pc = "inspect", ![p].todo = @ \ {j},
                                 ![p].job = j, ![p].seen = req[j]]
    BY <1>4 DEF RecoverNext
  <2>2. /\ main'[p].todo = main[p].todo \ {j} /\ main'[p].job = j
        /\ main'[p].seen = req[j] /\ job' = job
    BY <1>4, <1>a, <2>1 DEF RecoverNext, Main
  <2>3. j \in Jobs /\ Claimed(j)
    BY <1>a, <2>1 DEF RecoveryOK, Main
  <2>4. req[j].status # "succeeded"
    BY <2>3 DEF TakesOK, Claimed
  <2>5. QED
    BY <2>2, <2>3, <2>4 DEF RecoveryOK, Claimed
<1>5. CASE RecoverEnd(p)
  <2>1. main'[p].todo = {} /\ main'[p].pc \in {"list", "claim"}
    BY <1>5, <1>a DEF RecoverEnd, Main
  <2>2. QED
    BY <2>1 DEF Working
<1>6. CASE Poll(p)
  <2>1. job' = job /\ main'[p].pc = "list" /\ main'[p].todo = main[p].todo
    BY <1>6, StepEffect DEF Poll, Steps
  <2>2. QED
    BY <2>1 DEF RecoveryOK, Claimed, Working
<1>7. CASE PassStep(p)
  <2>1. /\ main[p].pc \in Working /\ main[p].job \in Jobs
        /\ Resume(p) \/ \E pc \in Working : Steps(p, pc)
    BY <1>7, <1>a, PassForm DEF TypeInv, HoldersOK
  <2>2. /\ main'[p].todo = main[p].todo /\ main[p].job \notin main[p].todo
        /\ main[p].todo \subseteq Jobs
        /\ main'[p].pc \in Working => main'[p].job = main[p].job /\ main'[p].seen = main[p].seen
    BY <1>a, <2>1, StepEffect, ResumeEffect DEF RecoveryOK, Main, Working
  <2>3. \A j \in Jobs : j # main[p].job => job'[j] = job[j]
    BY <1>7, <1>a, PassTables DEF RecoverSucceededRequest, RecoverCommit, SetJob, Finalized
  <2>4. main'[p].pc \in Working /\ main'[p].pc # "tidy" => job' = job /\ main[p].pc # "tidy"
    <3>1. CASE \/ RecoverWithoutPrompt(p) \/ RecoverFail(p) \/ RecoverSucceededRequest(p)
               \/ RecoverTidy(p)
      BY <3>1, ResumeEffect DEF RecoverWithoutPrompt, RecoverFail, RecoverSucceededRequest,
         RecoverTidy, Working
    <3>2. CASE RecoverCommit(p)
      BY <3>2, StepWithSets DEF RecoverCommit
    <3>3. CASE /\ ~RecoverWithoutPrompt(p) /\ ~RecoverFail(p) /\ ~RecoverSucceededRequest(p)
               /\ ~RecoverTidy(p) /\ ~RecoverEmptyStaging(p) /\ ~RecoverCommit(p)
      <4>1. job' = job
        BY <1>7, <3>3, PassTables
      <4>2. main[p].pc # "tidy"
        BY <1>7, <3>3 DEF PassStep, AskHistory, AskHistoryFails, AskQueue, AskQueueFails,
           RecoverFetch, RecoverFetchFails, RecoverDownload, RecoverVerify, RecoverCheck,
           RecoverLook, RecoverMake, RecoverMove, RecoverPlaceFails, RecoverCommitFails,
           RecoverCleanStaging, RecoverCleanFinal
      <4>3. QED
        BY <4>1, <4>2
    <3>4. CASE RecoverEmptyStaging(p)
      BY <3>4 DEF RecoverEmptyStaging, procVars
    <3>5. QED
      BY <3>1, <3>2, <3>3, <3>4
  <2>5. \A j \in main'[p].todo : job'[j].status = "claimed"
    BY <2>2, <2>3 DEF RecoveryOK, Claimed
  <2>6. QED
    BY <2>1, <2>2, <2>4, <2>5 DEF RecoveryOK, Claimed
<1>9. QED
  BY <1>3, <1>4, <1>5, <1>6, <1>7, MainSteps DEF Claiming, Claim, RoundClaimed, RoundDone

\* A step of a round: no pass is under way, and only a claimed job is run.
LEMMA RoundSole ==
    ASSUME OneSlot, OneWorker, TypeInv, PhaseInv, RecoveryOK, RunsOK,
           NEW p \in Procs, MainStep(p), main[p].pc \in Claiming
    PROVE  RecoveryOK' /\ RunsOK'
<1> USE DEF dbVars, diskVars, envVars
<1>a. /\ main \in [Procs -> Main] /\ thread \in [Threads -> Thread] /\ HoldersOK
      /\ job \in [Jobs -> Job]
  BY DEF TypeInv, TypeOK
<1>b. \A q \in Procs : main[q].todo = {} /\ main[q].pc \notin Working
  BY RunAlone
<1>0. Claim(p) \/ RoundClaimed(p) \/ RoundDone(p)
  <2>1. ~PassStep(p)
    BY PassForm DEF TypeInv, Claiming, Working
  <2>2. QED
    BY <2>1, MainSteps DEF Claiming, RecoverList, RecoverNext, RecoverEnd, Poll
<1>1. RecoveryOK'
  <2>1. CASE Claim(p)
    BY <1>b, <2>1 DEF Claim, RecoveryOK
  <2>2. CASE RoundClaimed(p) \/ RoundDone(p)
    <3>1. PICK pc \in {"idle", "wait", "claim"} : Step(p, pc)
      BY <2>2 DEF RoundClaimed, RoundDone
    <3>2. \A q \in Procs : main'[q].todo = {} /\ main'[q].pc \notin Working
      BY <1>a, <1>b, <3>1, StepEffect DEF Step, Steps, Working
    <3>3. QED
      BY <3>2 DEF RecoveryOK
  <2>3. QED
    BY <1>0, <2>1, <2>2
<1>2. RunsOK'
  <2>1. CASE Claim(p)
    <3>1. PICK k \in Jobs, s \in Slots :
              /\ thread[<<p, s>>].pc = "free"
              /\ job' = [job EXCEPT ![k].status = "claimed", ![k].attempts = @ + 1]
              /\ thread' = [thread EXCEPT ![<<p, s>>].pc = "install", ![<<p, s>>].job = k]
      BY <2>1 DEF Claim
    <3>2. <<p, s>> \in Threads
      BY DEF Threads
    <3>3. thread'[<<p, s>>].job = k /\ job'[k].status = "claimed"
          /\ \A j \in Jobs : Claimed(j) => job'[j].status = "claimed"
      BY <1>a, <3>1, <3>2 DEF Thread, Job, Claimed
    <3>4. \A u \in Threads : u # <<p, s>> => thread'[u] = thread[u]
      BY <1>a, <3>1
    <3>5. QED
      BY <1>a, <3>3, <3>4 DEF RunsOK, HoldersOK, Claimed
  <2>2. CASE RoundClaimed(p) \/ RoundDone(p)
    <3>1. job' = job /\ \A t \in Threads : thread'[t].pc # "free" => thread'[t] = thread[t]
      BY <2>2 DEF RoundClaimed, RoundDone, ThreadFree
    <3>2. QED
      BY <3>1 DEF RunsOK, Claimed
  <2>3. QED
    BY <1>0, <2>1, <2>2
<1>3. QED
  BY <1>1, <1>2

LEMMA NextSole ==
    ASSUME OneSlot, OneWorker, TypeInv, PhaseInv, CallbackOK, SoleInv, [Next]_vars
    PROVE  SoleInv'
<1> USE DEF dbVars, diskVars, envVars, procVars
<1>a. main \in [Procs -> Main] /\ thread \in [Threads -> Thread] /\ job \in [Jobs -> Job]
      /\ HoldersOK
  BY DEF TypeInv, TypeOK
<1>b. RecoveryOK /\ RunsOK /\ TakesOK
  BY DEF SoleInv
<1>1. TakesOK'
  BY <1>b, NextWrites, WritesKeepTakes
<1>2. CASE \/ \E j \in Jobs : PromptStarts(j) \/ PromptEnds(j)
           \/ ComfyRestarts
           \/ UNCHANGED vars
  <2>1. UNCHANGED <<main, thread, job>>
    BY <1>2 DEF PromptStarts, PromptEnds, ComfyRestarts, vars
  <2>2. QED
    BY <1>1, <1>b, <2>1 DEF SoleInv, RecoveryOK, RunsOK, Claimed
<1>3. ASSUME NEW j \in Jobs, Enqueue(j) PROVE SoleInv'
  <2>1. \A k : Claimed(k) /\ k \in Jobs => job'[k].status = "claimed"
    BY <1>3, <1>a DEF Enqueue, SetJob, Claimed, Job
  <2>2. UNCHANGED <<main, thread>>
    BY <1>3 DEF Enqueue
  <2>3. RecoveryOK'
    BY <1>a, <1>b, <2>1, <2>2 DEF RecoveryOK, Claimed, Main, HoldersOK
  <2>4. RunsOK'
    BY <1>a, <1>b, <2>1, <2>2 DEF RunsOK, Claimed, HoldersOK
  <2>5. QED
    BY <1>1, <2>3, <2>4 DEF SoleInv
<1>4. ASSUME NEW p \in Procs, Start(p) PROVE SoleInv'
  <2>1. UNCHANGED <<thread, job>> /\ main[p].pc = "down"
    BY <1>4 DEF Start
  <2>2. main[p].todo = {}
    BY <2>1 DEF PhaseInv, Working
  <2>3. /\ main'[p].pc = "list" /\ main'[p].todo = {}
        /\ \A q \in Procs : q # p => main'[q] = main[q]
    BY <1>4, <1>a, <2>2 DEF Start, Main
  <2>4. RecoveryOK' /\ RunsOK'
    BY <1>b, <2>1, <2>3 DEF RecoveryOK, RunsOK, Claimed, Working
  <2>5. QED
    BY <1>1, <2>4 DEF SoleInv
<1>5. ASSUME NEW p \in Procs, Stop(p) \/ Crash(p) PROVE SoleInv'
  <2>1. Down(p) /\ job' = job
    BY <1>5 DEF Stop, Crash, Down
  <2>2. RecoveryOK'
    BY <1>b, <2>1, DownEffect DEF RecoveryOK, Claimed, MainDown, Working
  <2>3. \A t \in Threads : thread'[t].pc # "free" => thread'[t] = thread[t]
    BY <2>1 DEF Down, ThreadFree
  <2>4. RunsOK'
    BY <1>b, <2>1, <2>3 DEF RunsOK, Claimed
  <2>5. QED
    BY <1>1, <2>2, <2>4 DEF SoleInv
<1>6. ASSUME NEW p \in Procs, MainStep(p) PROVE SoleInv'
  BY <1>1, <1>b, <1>6, PassSole, RoundSole DEF SoleInv
<1>7. ASSUME NEW t \in Threads, ThreadStep(t) PROVE SoleInv'
  BY <1>1, <1>b, <1>7, ThreadSole DEF SoleInv
<1>8. QED
  BY <1>2, <1>3, <1>4, <1>5, <1>6, <1>7 DEF Next

LEMMA Soles ==
    ASSUME OneSlot, OneWorker
    PROVE  Spec => [](TypeInv /\ OnceInv /\ PhaseInv /\ MediaInv /\ FinalInv /\ SoleInv)
<1>1. Init => SoleInv
  BY DEF Init, SoleInv, RecoveryOK, RunsOK, TakesOK, ThreadFree, MainDown, NoRequest, Working
<1>2. TypeInv /\ PhaseInv /\ FinalInv /\ SoleInv /\ [Next]_vars => SoleInv'
  BY NextSole DEF FinalInv
<1>3. QED
  BY <1>1, <1>2, Finals, PTL DEF Spec

\* With one worker and one thread, a job is succeeded exactly when it has a
\* Take, and then the Take is linked to it, its request is succeeded and its
\* video in place, whatever crashes, timeouts, lost calls and recoveries come.
THEOREM EndsTogether == ASSUME OneSlot, OneWorker PROVE Spec => []AtomicFinalization
<1>1. FinalInv /\ SoleInv /\ Unshared => AtomicFinalization
  BY DEF FinalInv, SoleInv, TakesOK, SucceededHasTake, AtomicFinalization, Unshared
<1>2. QED
  BY <1>1, Soles, Alones, PTL

-----------------------------------------------------------------------------
(* QueueWorker implements JobLifecycle *)

LEMMA WritesRefine ==
    ASSUME TypeInv, TakesOK, OneWrite
    PROVE  [Lifecycle!Next]_(Lifecycle!vars)
<1> DEFINE state == [j \in Jobs |-> job[j].status]
<1>a. job \in [Jobs -> Job]
  BY DEF TypeInv, TypeOK
<1>1. CASE Kept
  BY <1>1 DEF Kept, Lifecycle!vars
<1>2. ASSUME NEW j \in Jobs, Noted(j) PROVE UNCHANGED Lifecycle!vars
  BY <1>2 DEF Noted, Lifecycle!vars
<1>3. ASSUME NEW j \in Jobs, Added(j) PROVE Lifecycle!Enqueue(j)
  <2>1. state' = [state EXCEPT ![j] = "pending"]
    BY <1>3, <1>a DEF Added, SetJob, Job
  <2>2. QED
    BY <1>3, <2>1 DEF Added, Lifecycle!Enqueue
<1>4. ASSUME NEW j \in Jobs, Begun(j) PROVE Lifecycle!Claim(j)
  <2>1. state' = [state EXCEPT ![j] = "claimed"]
    BY <1>4, <1>a DEF Begun, Job
  <2>2. QED
    BY <1>4, <2>1 DEF Begun, Lifecycle!Claim
<1>5. ASSUME NEW j \in Jobs, GivenUp(j) PROVE Lifecycle!Fail(j)
  <2>1. state' = [state EXCEPT ![j] = "failed"]
    BY <1>5, <1>a DEF GivenUp, SetJob, Job
  <2>2. QED
    BY <1>5, <2>1 DEF GivenUp, Claimed, Lifecycle!Fail
<1>6. ASSUME NEW j \in Jobs, Delivered(j) PROVE Lifecycle!Succeed(j)
  <2>1. state' = [state EXCEPT ![j] = "succeeded"]
    BY <1>6, <1>a, NoneAssumption DEF Delivered, Finalized, Job
  <2>2. QED
    BY <1>6, <2>1 DEF Delivered, Claimed, Lifecycle!Succeed
<1>7. QED
  BY <1>1, <1>2, <1>3, <1>4, <1>5, <1>6 DEF OneWrite, Lifecycle!Next

\* With one worker and one thread, every step is a step of the job state
\* machine of queue_models.py or changes nothing it shows: an ended job stays as
\* it is, and a job succeeds in the step that inserts its Take.
THEOREM ImplementsLifecycle == ASSUME OneSlot, OneWorker PROVE Spec => LifecycleSpec
<1>1. Init => Lifecycle!Init
  BY DEF Init, Lifecycle!Init
<1>2. TypeInv /\ FinalInv /\ SoleInv /\ [Next]_vars => [Lifecycle!Next]_(Lifecycle!vars)
  BY NextWrites, WritesRefine DEF FinalInv, SoleInv
<1>3. QED
  BY <1>1, <1>2, Soles, PTL DEF Spec, LifecycleSpec, Lifecycle!Spec

-----------------------------------------------------------------------------
(* A job is not given up while ComfyUI has its prompt *)

Ended == {"success", "error"}

\* The request of a job whose monitoring timed out.
TimedOut(j) == req[j].prompt /\ req[j].status = "failed"

Live(j) == prompt[j] \in {"queued", "running"}

PromptsCalm ==
    \A j \in Jobs :
        /\ prompt[j] # "gone"
        /\ req[j].prompt => prompt[j] # "none"
        /\ Claimed(j) /\ (\A t \in Threads : thread[t].job # j) => TimedOut(j)
        /\ job[j].status = "failed" /\ Live(j) => ~InjectedClient /\ TimedOut(j)

\* The thread still runs its prompt, or has the video.
Monitoring == {"running", "monitor"}
Delivering == {"fetch", "download", "verify", "check", "make", "move", "commit", "tidy",
               "unmake", "undo"}

ThreadCalm(t) ==
    LET j == thread[t].job IN
    /\ thread[t].pc \in Monitoring \cup Delivering \cup {"abort", "report", "restore"}
          => req[j].prompt
    /\ thread[t].pc = "record" => prompt[j] # "none"
    /\ thread[t].pc \in Delivering => prompt[j] = "success"
    /\ thread[t].pc \in {"abort", "report"} => thread[t].err = "timeout" \/ prompt[j] \in Ended
    /\ thread[t].pc = "report" => req[j].status = "failed"
    /\ thread[t].pc = "restore" /\ Claimed(j) => req[j].status = "failed"
    /\ thread[t].pc = "tidy" => ~Claimed(j)

PassCalm(p) ==
    LET j == main[p].job IN
    /\ main[p].pc \in Working => main[p].seen.prompt /\ prompt[j] # "none"
    /\ main[p].pc \in Placing \cup {"fetch"} => prompt[j] = "success"
    /\ main[p].pc = "fail" => prompt[j] \in Ended \/ (~InjectedClient /\ TimedOut(j))

\* As long as nothing fails, whoever holds a job knows its prompt, and has an
\* answer of ComfyUI or saw the deadline pass before giving the job up.
Calm == /\ PromptsCalm
        /\ \A t \in Threads : ThreadCalm(t)
        /\ \A p \in Procs : PassCalm(p)

CalmInv == faults = 0 => Calm

\* As long as nothing fails, a job is given up while ComfyUI has its prompt only
\* by the adapter that closed its client, and only when its monitoring had timed
\* out before: a prompt in the queue is never lost for another reason.
OnlyTimedOutGivenUp ==
    \A j \in Jobs : faults = 0 /\ job[j].status = "failed" /\ Live(j)
                       => ~InjectedClient /\ TimedOut(j)

\* A pass never undoes: its directories are in use where it works.
LEMMA PlacingPass ==
    ASSUME TypeInv, NEW p \in Procs
    PROVE  main[p].pc \in Placing => main[p].pc \in Working
BY DEF TypeInv, TypeOK, Main, MainPc, Placing, Working

LEMMA NoFault ==
    ASSUME TypeInv, faults' = 0
    PROVE  ~Fault /\ \A c \in BOOLEAN : FaultUnless(c) => c /\ faults = 0
BY DEF TypeInv, TypeOK, Fault, FaultUnless

\* The faults are never forgotten.
LEMMA NextNoFault ==
    ASSUME TypeInv, [Next]_vars, faults' = 0
    PROVE  faults = 0
<1> USE DEF procVars
<1>1. faults' = faults \/ faults' = faults + 1
  <2>1. ASSUME NEW p \in Procs, MainStep(p)
        PROVE  faults' = faults \/ faults' = faults + 1
    BY <2>1, MainSteps, PassForm
       DEF TypeInv, RecoverList, RecoverNext, RecoverEnd, Poll, RoundClaimed, Claim, RoundDone
  <2>2. ASSUME NEW t \in Threads, ThreadStep(t)
        PROVE  faults' = faults \/ faults' = faults + 1
    BY <2>2, ThreadForm DEF TypeInv
  <2>3. QED
    BY <2>1, <2>2 DEF Next, Start, Stop, Crash, Enqueue, PromptStarts, PromptEnds,
       ComfyRestarts, Fault, vars
<1>2. QED
  BY <1>1 DEF TypeInv, TypeOK

LEMMA ThrowEffect ==
    ASSUME TypeInv, NEW t \in Threads, NEW pc, NEW errs, Throw(t, pc, errs)
    PROVE  thread'[t].pc = pc /\ thread'[t].job = thread[t].job /\ thread'[t].err \in errs
BY DEF TypeInv, TypeOK, Thread, Throw

LEMMA GotoError ==
    ASSUME TypeInv, NEW t \in Threads, NEW pc,
           Goto(t, pc) \/ \E made : GotoWith(t, pc, made)
    PROVE  thread'[t].pc = pc /\ thread'[t].job = thread[t].job /\ thread'[t].err = thread[t].err
<1>1. CASE Goto(t, pc)
  BY <1>1 DEF TypeInv, TypeOK, Thread, Goto
<1>2. CASE \E made : GotoWith(t, pc, made)
  <2>1. PICK made : thread' = [thread EXCEPT ![t].pc = pc, ![t].made = made]
    BY <1>2 DEF GotoWith
  <2>2. QED
    BY <2>1 DEF TypeInv, TypeOK, Thread
<1>3. QED
  BY <1>1, <1>2

\* A step of a thread concerns one job, and nobody else works.
LEMMA OneThreadCalm ==
    ASSUME OneSlot, OneWorker, TypeInv, PhaseInv, Calm, NEW t \in Threads, ThreadStep(t),
           NEW j \in Jobs, thread[t].job = j,
           \A k \in Jobs : k # j => /\ job'[k] = job[k] /\ req'[k] = req[k]
                                    /\ prompt'[k] = prompt[k],
           prompt'[j] # "gone", req'[j].prompt => prompt'[j] # "none",
           thread'[t].job = j \/ (Claimed(j)' => TimedOut(j)'),
           job'[j].status = "failed" /\ Live(j)' => ~InjectedClient /\ TimedOut(j)',
           ThreadCalm(t)'
    PROVE  Calm'
<1>a. main' = main /\ thread[t].pc \notin {"free", "done"}
  BY ThreadForm DEF TypeInv, Idle
<1>b. \A u \in Threads : u # t => thread[u].pc = "free" /\ thread'[u] = thread[u]
  BY <1>a, BusyThread, RunAlone, ThreadStepLocal
<1>c. \A p \in Procs : main'[p].pc \notin Working
  BY <1>a, BusyThread, RunAlone
<1>1. PromptsCalm'
  <2> SUFFICES ASSUME NEW k \in Jobs
               PROVE  /\ prompt'[k] # "gone"
                      /\ req'[k].prompt => prompt'[k] # "none"
                      /\ Claimed(k)' /\ (\A u \in Threads : thread'[u].job # k) => TimedOut(k)'
                      /\ job'[k].status = "failed" /\ Live(k)'
                             => ~InjectedClient /\ TimedOut(k)'
    BY DEF PromptsCalm
  <2>1. CASE k = j
    BY <2>1
  <2>2. CASE k # j
    <3>1. (\A u \in Threads : thread'[u].job # k) => \A u \in Threads : thread[u].job # k
      BY <1>b, <2>2
    <3>2. QED
      BY <2>2, <3>1 DEF Calm, PromptsCalm, Claimed, TimedOut, Live
  <2>3. QED
    BY <2>1, <2>2
<1>2. \A u \in Threads : ThreadCalm(u)'
  BY <1>b DEF ThreadCalm, Monitoring, Delivering
<1>3. \A p \in Procs : PassCalm(p)'
  <2>1. \A p \in Procs : main'[p].pc \notin Placing \cup {"fetch", "fail"}
    BY <1>a, <1>c, PlacingPass DEF Working
  <2>2. QED
    BY <1>c, <2>1 DEF PassCalm
<1>4. QED
  BY <1>1, <1>2, <1>3 DEF Calm

LEMMA ThreadKeepsCalm ==
    ASSUME OneSlot, OneWorker, TypeInv, PhaseInv, RunsOK, CalmInv, faults' = 0,
           NEW t \in Threads, ThreadStep(t), CallbackOK
    PROVE  Calm'
<1> USE DEF dbVars, envVars
<1> SUFFICES ASSUME NEW j \in Jobs, thread[t].job = j PROVE Calm'
  BY ThreadForm DEF TypeInv, HoldersOK, Idle
<1> DEFINE r == thread'[t]
<1>a. /\ thread \in [Threads -> Thread] /\ thread[t] \in Thread /\ HoldersOK
      /\ job \in [Jobs -> Job] /\ req \in [Jobs -> Request] /\ prompt \in [Jobs -> PromptState]
  BY DEF TypeInv, TypeOK
<1>b. faults = 0
  BY NextNoFault DEF Next
<1>d. Calm /\ PromptsCalm /\ ThreadCalm(t)
  BY <1>b DEF CalmInv, Calm
<1>e. /\ prompt[j] # "gone" /\ (req[j].prompt => prompt[j] # "none")
      /\ job[j].status = "failed" /\ Live(j) => ~InjectedClient /\ TimedOut(j)
  BY <1>b, <1>d DEF PromptsCalm
<1>c. thread[t].pc \notin {"free", "done", "tidy", "restore"} => job[j].status = "claimed"
  BY DEF RunsOK, Claimed
<1>1. ASSUME UNCHANGED <<job, req, prompt>>, r.job = j, ThreadCalm(t)'
      PROVE  Calm'
  BY <1>1, <1>b, <1>d, <1>e, OneThreadCalm DEF TimedOut, Live
<1>2. CASE InstallCallback(t)
  <2>1. r.job = j /\ r.pc = "resolve" /\ UNCHANGED <<job, req, prompt>>
    BY <1>2, <1>a DEF InstallCallback, Thread
  <2>2. QED
    BY <1>1, <2>1 DEF ThreadCalm, Monitoring, Delivering
<1>3. CASE \/ FetchResult(t) \/ Download(t) \/ MakeFinal(t) \/ MoveToFinal(t)
           \/ RemoveFinal(t) \/ MonitorSucceeds(t) \/ VerifyMedia(t) \/ CheckFinal(t)
  <2>1. /\ UNCHANGED <<job, req, prompt>> /\ prompt[j] = "success" /\ req[j].prompt
        /\ \E pc \in Delivering \ {"tidy"} : Goto(t, pc) \/ \E made : GotoWith(t, pc, made)
    BY <1>3, <1>d DEF FetchResult, Download, MakeFinal, MoveToFinal, RemoveFinal,
       MonitorSucceeds, VerifyMedia, CheckFinal, ThreadCalm, Monitoring, Delivering
  <2>2. r.job = j /\ r.pc \in Delivering \ {"tidy"}
    BY <2>1, GotoError
  <2>3. QED
    BY <1>1, <2>1, <2>2 DEF ThreadCalm, Delivering
<1>4. CASE Tidy(t)
  <2>1. UNCHANGED <<job, req, prompt>> /\ req[j].prompt /\ ~Claimed(j)
    BY <1>4, <1>d DEF Tidy, ThreadCalm, Delivering
  <2>2. r.job = j /\ r.pc = "restore"
    BY <1>4, GotoError DEF Tidy
  <2>3. QED
    BY <1>1, <2>1, <2>2 DEF ThreadCalm, Claimed, Monitoring, Delivering
<1>5. CASE CleanStaging(t) \/ CleanFinal(t)
  <2>1. UNCHANGED <<job, req, prompt>> /\ thread[t].pc = "report"
        /\ \E made : GotoWith(t, "report", made)
    BY <1>5 DEF CleanStaging, CleanFinal
  <2>2. r.job = j /\ r.pc = "report" /\ r.err = thread[t].err
    BY <2>1, GotoError
  <2>3. QED
    BY <1>1, <1>d, <2>1, <2>2 DEF ThreadCalm, Monitoring, Delivering
<1>6. CASE RaiseStep(t)
  <2>1. UNCHANGED <<job, req, prompt>>
    BY <1>6, RaiseForm DEF TypeInv
  <2>2. ~ResolveFails(t) /\ ~SubmitRefused(t) /\ ~MonitorLosesSocket(t)
    BY NoFault DEF ResolveFails, SubmitRefused, MonitorLosesSocket
  <2>3. CASE MonitorTimesOut(t)
    <3>1. r.pc = "abort" /\ r.job = j /\ r.err = "timeout" /\ req[j].prompt
      BY <1>d, <2>3, ThrowEffect DEF MonitorTimesOut, ThreadCalm, Monitoring
    <3>2. QED
      BY <1>1, <2>1, <3>1 DEF ThreadCalm, Delivering
  <2>4. CASE MonitorErrors(t)
    <3>1. r.pc = "abort" /\ r.job = j /\ req[j].prompt /\ prompt[j] = "error"
      BY <1>d, <2>4, ThrowEffect DEF MonitorErrors, ThreadCalm, Monitoring
    <3>2. QED
      BY <1>1, <2>1, <3>1 DEF ThreadCalm, Delivering, Ended
  <2>5. CASE FetchFails(t) \/ DownloadFails(t) \/ PlaceFails(t) \/ CommitFails(t)
    <3>1. prompt[j] = "success" /\ req[j].prompt
      BY <1>d, <2>5
         DEF FetchFails, DownloadFails, PlaceFails, CommitFails, ThreadCalm, Delivering
    <3>2. r.pc \in {"abort", "unmake"} /\ r.job = j
      BY <2>5, ThrowEffect DEF FetchFails, DownloadFails, PlaceFails, CommitFails
    <3>3. QED
      BY <1>1, <2>1, <3>1, <3>2 DEF ThreadCalm, Ended
  <2>6. QED
    BY <1>6, <2>2, <2>3, <2>4, <2>5 DEF RaiseStep
<1>7. CASE RequestStep(t)
  <2>1. PICK pc \in {"submit", "running", "monitor", "report"} :
            Goto(t, pc) \/ \E made : GotoWith(t, pc, made)
    BY <1>7 DEF RequestStep, CreateRequest, RecordPrompt, MarkRunning, UndoRequest, AbortRequest
  <2>2. r.pc = pc /\ r.job = j /\ r.err = thread[t].err
    BY <2>1, GotoError
  <2>3. /\ UNCHANGED <<job, prompt>> /\ job[j].status = "claimed"
        /\ \A k \in Jobs : k # j => req'[k] = req[k]
    BY <1>7, <1>a, <1>b, <1>c
       DEF RequestStep, CreateRequest, RecordPrompt, MarkRunning, UndoRequest, AbortRequest,
           FailRequest
  <2>4. ThreadCalm(t)' /\ (req'[j].prompt => prompt[j] # "none")
    <3>1. CASE CreateRequest(t)
      <4>1. r.pc = "submit" /\ req'[j].prompt = req[j].prompt
        BY <3>1, <1>a, <1>b, GotoError DEF CreateRequest, Request
      <4>2. QED
        BY <1>e, <4>1 DEF ThreadCalm, Monitoring, Delivering
    <3>2. CASE RecordPrompt(t)
      <4>1. r.pc = "running" /\ req'[j].prompt /\ prompt[j] # "none"
        BY <3>2, <1>a, <1>b, <1>d, GotoError DEF RecordPrompt, ThreadCalm
      <4>2. QED
        BY <2>2, <4>1 DEF ThreadCalm, Delivering
    <3>3. CASE MarkRunning(t)
      <4>1. r.pc = "monitor" /\ req'[j].prompt /\ req[j].prompt
        BY <3>3, <1>a, <1>b, <1>d, GotoError
           DEF MarkRunning, ThreadCalm, Request, Monitoring
      <4>2. QED
        BY <1>e, <2>2, <4>1 DEF ThreadCalm, Delivering
    <3>4. CASE UndoRequest(t) \/ AbortRequest(t)
      <4>0. r.pc = "report" /\ req' = [req EXCEPT ![j].status = "failed"]
        BY <3>4, GotoError DEF UndoRequest, AbortRequest, FailRequest
      <4>1. /\ r.pc = "report" /\ req'[j].prompt /\ req[j].prompt /\ req'[j].status = "failed"
            /\ thread[t].err = "timeout" \/ prompt[j] \in Ended
        BY <3>4, <4>0, <1>a, <1>d
           DEF UndoRequest, AbortRequest, ThreadCalm, Request, Delivering, Ended
      <4>2. QED
        BY <1>e, <2>2, <2>3, <4>1 DEF ThreadCalm, Delivering
    <3>5. QED
      BY <1>7, <3>1, <3>2, <3>3, <3>4 DEF RequestStep
  <2>5. QED
    BY <1>b, <1>d, <1>e, <2>2, <2>3, <2>4, OneThreadCalm
<1>8. CASE Submit(t)
  <2>1. /\ UNCHANGED <<job, req>> /\ prompt' = [prompt EXCEPT ![j] = "queued"]
        /\ Goto(t, "record") /\ job[j].status = "claimed"
    BY <1>8, <1>c DEF Submit, ComfyAccepts
  <2>2. r.job = j /\ r.pc = "record"
    BY <2>1, GotoError
  <2>3. prompt'[j] = "queued" /\ \A k \in Jobs : k # j => prompt'[k] = prompt[k]
    BY <1>a, <1>b, <2>1
  <2>4. ThreadCalm(t)'
    BY <2>2, <2>3 DEF ThreadCalm, Monitoring, Delivering
  <2>5. QED
    BY <1>b, <1>d, <2>1, <2>2, <2>3, <2>4, OneThreadCalm
<1>9. CASE Commit(t)
  <2>1. /\ req[j].prompt /\ prompt[j] = "success" /\ prompt' = prompt
        /\ req' = [req EXCEPT ![j].status = "succeeded"]
        /\ job' = Finalized(j, j)
    BY <1>9, <1>d DEF Commit, ThreadCalm, CallbackOK, Delivering
  <2>2. /\ req'[j].prompt /\ job'[j].status = "succeeded"
        /\ \A k \in Jobs : k # j => req'[k] = req[k] /\ job'[k] = job[k]
    BY <1>a, <1>b, <2>1, NoneAssumption DEF Request, Finalized, Job
  <2>3. r.job = j /\ r.pc = "tidy"
    BY <1>9, GotoError DEF Commit
  <2>4. ThreadCalm(t)'
    BY <2>1, <2>2, <2>3 DEF ThreadCalm, Claimed
  <2>5. QED
    BY <1>b, <1>d, <1>e, <2>1, <2>2, <2>3, <2>4, OneThreadCalm
<1>10. CASE ReportFailure(t)
  <2>1. /\ req[j].prompt /\ req[j].status = "failed" /\ UNCHANGED <<prompt, req>>
        /\ \/ job' = job
           \/ job' = SetJob(j, "failed") /\ prompt[j] \in Ended
    BY <1>10, <1>d DEF ReportFailure, LeavesClaimed, ThreadCalm
  <2>2. \A k \in Jobs : k # j => job'[k] = job[k]
    BY <1>a, <2>1 DEF SetJob
  <2>3. r.job = j /\ r.pc = "restore"
    BY <1>10, GotoError DEF ReportFailure
  <2>4. ThreadCalm(t)'
    BY <2>1, <2>3 DEF ThreadCalm, Delivering
  <2>5. job'[j].status = "failed" /\ Live(j)' => ~InjectedClient /\ TimedOut(j)'
    BY <1>e, <2>1 DEF Ended, Live, TimedOut
  <2>6. QED
    BY <1>b, <1>d, <1>e, <2>1, <2>2, <2>3, <2>4, <2>5, OneThreadCalm
<1>11. CASE RestoreCallback(t)
  <2>1. /\ UNCHANGED <<job, req, prompt>> /\ r.pc = "done"
        /\ Claimed(j) => TimedOut(j)
    BY <1>11, <1>a, <1>d DEF RestoreCallback, ThreadCalm, ThreadFree, Claimed, TimedOut
  <2>2. ThreadCalm(t)'
    BY <2>1 DEF ThreadCalm, Monitoring, Delivering
  <2>3. job'[j].status = "failed" /\ Live(j)' => ~InjectedClient /\ TimedOut(j)'
    BY <1>e, <2>1 DEF Live, TimedOut
  <2>4. Claimed(j)' => TimedOut(j)'
    BY <2>1 DEF Claimed, TimedOut
  <2>5. QED
    BY <1>b, <1>d, <1>e, <2>1, <2>2, <2>3, <2>4, OneThreadCalm
<1>12. ~SubmitAnswerLost(t) /\ ~UndoFails(t) /\ ~AbortRequestFails(t)
  BY NoFault DEF SubmitAnswerLost, UndoFails, AbortRequestFails
<1>13. CASE EmptyStaging(t)
  <2>1. UNCHANGED <<thread, job, req, prompt>>
    BY <1>13 DEF EmptyStaging, procVars
  <2>2. QED
    BY <1>1, <1>d, <2>1 DEF ThreadCalm, Claimed
<1>14. QED
  BY <1>2, <1>3, <1>4, <1>5, <1>6, <1>7, <1>8, <1>9, <1>10, <1>11, <1>12, <1>13, ThreadSteps
     DEF PlaceStep, QuietMove

\* A step of a pass concerns the job it inspects, and no thread runs.
LEMMA PassKeepsCalm ==
    ASSUME OneSlot, OneWorker, TypeInv, PhaseInv, RecoveryOK, TakesOK,
           Calm, faults' = 0, NEW p \in Procs, MainStep(p), main[p].pc \notin Claiming
    PROVE  Calm'
<1> USE DEF dbVars, envVars
<1>a. /\ main \in [Procs -> Main] /\ main[p] \in Main /\ HoldersOK
      /\ job \in [Jobs -> Job] /\ req \in [Jobs -> Request]
      /\ prompt \in [Jobs -> PromptState]
  BY DEF TypeInv, TypeOK
<1>m. \A q \in Procs : q # p => main'[q] = main[q]
  <2>1. CASE PassStep(p)
    BY <2>1, PassForm, StepEffect, ResumeEffect DEF TypeInv
  <2>2. CASE ~PassStep(p)
    BY <2>2, <1>a, MainSteps DEF RecoverList, RecoverNext, RecoverEnd, Claim, RoundClaimed,
       RoundDone, Poll, Step
  <2>3. QED
    BY <2>1, <2>2
<1>b. main[p].pc # "down" /\ thread' = thread /\ prompt' = prompt
  <2>1. ~Claim(p) /\ ~RoundDone(p)
    BY DEF Claiming, Claim, RoundDone
  <2>2. CASE PassStep(p)
    BY <2>2, PassForm DEF TypeInv, Working
  <2>3. CASE ~PassStep(p)
    BY <2>1, <2>3, MainSteps DEF RecoverList, RecoverNext, RecoverEnd, RoundClaimed, Poll
  <2>4. QED
    BY <2>2, <2>3
<1>c. /\ \A q \in Procs : q # p => main'[q].pc \notin Working
      /\ \A t \in Threads : thread[t].pc = "free"
  BY <1>b, <1>m, RecoverAlone
<1>d. PromptsCalm /\ PassCalm(p)
  BY DEF Calm
<1>e. \A t \in Threads, k \in Jobs : thread[t].job # k
  BY <1>a, <1>c DEF HoldersOK
<1>1. \A t \in Threads : ThreadCalm(t)'
  BY <1>b, <1>c DEF ThreadCalm, Monitoring, Delivering
<1>2. ASSUME PromptsCalm', PassCalm(p)' PROVE Calm'
  <2>1. \A q \in Procs : q # p => PassCalm(q)'
    <3>1. \A q \in Procs : q # p => main'[q].pc \notin Placing \cup {"fetch", "fail"}
      BY <1>c, <1>m, PlacingPass DEF Working
    <3>2. QED
      BY <1>c, <3>1 DEF PassCalm
  <2>2. QED
    BY <1>1, <1>2, <2>1 DEF Calm
<1>3. ASSUME UNCHANGED <<job, req>>, PassCalm(p)' PROVE Calm'
  <2>1. PromptsCalm'
    BY <1>3, <1>b, <1>d DEF PromptsCalm, Claimed, Live, TimedOut
  <2>2. QED
    BY <1>2, <1>3, <2>1
<1>4. ASSUME UNCHANGED <<job, req>>, main'[p].pc \in {"recover", "list", "claim"} PROVE Calm'
  BY <1>3, <1>4 DEF PassCalm, Working, Placing
<1>5. CASE RecoverList(p) \/ RecoverEnd(p) \/ Poll(p)
  <2>1. main'[p].pc \in {"recover", "list", "claim"} /\ UNCHANGED <<job, req>>
    <3>1. CASE RecoverList(p)
      BY <1>a, <3>1 DEF RecoverList, Main
    <3>2. CASE RecoverEnd(p)
      BY <1>a, <3>2 DEF RecoverEnd, Main
    <3>3. CASE Poll(p)
      BY <3>3, StepEffect DEF Poll, Steps
    <3>4. QED
      BY <1>5, <3>1, <3>2, <3>3
  <2>2. QED
    BY <1>4, <2>1
<1>6. CASE RecoverNext(p)
  <2>1. PICK k \in main[p].todo :
            main' = [main EXCEPT ![p].pc = "inspect", ![p].todo = @ \ {k},
                                 ![p].job = k, ![p].seen = req[k]]
    BY <1>6 DEF RecoverNext
  <2>2. main'[p].pc = "inspect" /\ main'[p].job = k /\ main'[p].seen = req[k]
    BY <1>a, <2>1 DEF Main
  <2>3. k \in Jobs /\ req[k].prompt /\ prompt[k] # "none"
    BY <1>a, <1>d, <1>e, <2>1 DEF RecoveryOK, PromptsCalm, TimedOut, Main
  <2>4. QED
    BY <1>3, <1>6, <1>b, <2>2, <2>3 DEF RecoverNext, PassCalm, Placing
<1>7. CASE PassStep(p)
  <2> SUFFICES ASSUME NEW j \in Jobs, main[p].job = j PROVE Calm'
    BY <1>7, <1>a, PassForm DEF TypeInv, HoldersOK
  <2>a. /\ main[p].pc \in Working /\ main[p].seen.prompt /\ main[p].seen.status # "succeeded"
        /\ prompt[j] # "none" /\ prompt[j] # "gone"
    BY <1>7, <1>a, <1>d, PassForm DEF TypeInv, RecoveryOK, PassCalm, PromptsCalm
  <2>b. main[p].pc # "tidy" => Claimed(j) /\ TimedOut(j)
    BY <1>d, <1>e, <2>a DEF RecoveryOK, PromptsCalm
  <2>1. ASSUME UNCHANGED <<job, req>>, Resume(p) PROVE Calm'
    BY <1>4, <2>1, ResumeEffect
  <2>2. ASSUME UNCHANGED <<job, req>>, NEW pc, Steps(p, pc),
               pc \in Placing \cup {"fetch"} => prompt[j] = "success",
               pc = "fail" => prompt[j] \in Ended \/ (~InjectedClient /\ TimedOut(j))
        PROVE  Calm'
    <3>1. main'[p].pc = pc /\ main'[p].job = j /\ main'[p].seen = main[p].seen
      BY <2>2, StepEffect
    <3>2. PassCalm(p)'
      BY <1>b, <2>2, <2>a, <3>1 DEF PassCalm, TimedOut
    <3>3. QED
      BY <1>3, <2>2, <3>2
  <2>3. CASE AskHistory(p)
    <3>1. PICK pc \in {"fetch", "fail", "queue"} :
              /\ Step(p, pc) /\ UNCHANGED <<job, req>>
              /\ pc = "fetch" => prompt[j] = "success"
              /\ pc = "fail" => prompt[j] \in Ended
      BY <2>3 DEF AskHistory, Ended
    <3>2. QED
      BY <2>2, <3>1 DEF Steps, Placing
  <2>4. CASE AskQueue(p)
    <3>1. UNCHANGED <<job, req>> /\ main[p].pc # "tidy"
      BY <2>4 DEF AskQueue
    <3>2. CASE ~Resume(p)
      <4>1. Step(p, "fail") /\ ~InQueue(j)
        BY <2>4, <3>2 DEF AskQueue
      <4>2. prompt[j] \in Ended \/ ~InjectedClient
        BY <1>a, <2>a, <4>1 DEF InQueue, PromptState, Ended
      <4>3. QED
        BY <2>2, <2>b, <3>1, <4>1, <4>2 DEF Steps, Placing
    <3>3. QED
      BY <2>1, <3>1, <3>2
  <2>5. CASE \/ RecoverFetch(p) \/ RecoverFetchFails(p) \/ RecoverDownload(p)
             \/ RecoverVerify(p) \/ RecoverCheck(p) \/ RecoverLook(p) \/ RecoverMake(p)
             \/ RecoverMove(p) \/ RecoverPlaceFails(p) \/ RecoverCommitFails(p)
    <3>1. UNCHANGED <<job, req>> /\ prompt[j] = "success"
      BY <1>d, <2>5 DEF RecoverFetch, RecoverFetchFails, RecoverDownload, RecoverVerify,
         RecoverCheck, RecoverLook, RecoverMake, RecoverMove, RecoverPlaceFails,
         RecoverCommitFails, PassCalm, Placing
    <3>2. PICK pc \in Working : Steps(p, pc)
      <4>1. ~Resume(p)
        <5>1. ASSUME Resume(p) PROVE FALSE
          <6>1. main'[p].pc = "recover"
            BY <5>1, ResumeEffect
          <6>2. \E pc \in Working : Step(p, pc) \/ \E made : StepWith(p, pc, made)
            BY <2>5 DEF RecoverFetch, RecoverFetchFails, RecoverDownload, RecoverVerify,
               RecoverCheck, RecoverLook, RecoverMake, RecoverMove, RecoverPlaceFails,
               RecoverCommitFails, Working
          <6>3. QED
            BY <6>1, <6>2, StepKeeps, StepWithSets DEF Working
        <5>2. QED
          BY <5>1
      <4>2. QED
        BY <1>7, <4>1, PassForm DEF TypeInv
    <3>3. QED
      BY <2>2, <3>1, <3>2 DEF Ended
  <2>6. CASE RecoverTidy(p)
    BY <2>1, <2>6 DEF RecoverTidy
  <2>7. CASE RecoverCleanStaging(p) \/ RecoverCleanFinal(p)
    <3>1. /\ UNCHANGED <<job, req>> /\ main[p].pc = "fail"
          /\ \E made : StepWith(p, "fail", made)
      BY <2>7 DEF RecoverCleanStaging, RecoverCleanFinal
    <3>2. main'[p].pc = "fail"
      BY <3>1, StepWithSets
    <3>3. Steps(p, "fail")
      <4>1. ~Resume(p)
        BY <3>2, ResumeEffect
      <4>2. PICK pc \in Working : Steps(p, pc)
        BY <1>7, <4>1, PassForm DEF TypeInv
      <4>3. QED
        BY <3>2, <4>2, StepEffect
    <3>4. QED
      BY <1>d, <2>2, <3>1, <3>3 DEF PassCalm, Placing
  <2>8. CASE RecoverFail(p)
    <3>1. /\ Resume(p) /\ job' = SetJob(j, "failed") /\ req' = req
          /\ prompt[j] \in Ended \/ (~InjectedClient /\ TimedOut(j))
      BY <1>d, <2>8 DEF RecoverFail, PassCalm
    <3>2. job'[j].status = "failed" /\ \A k \in Jobs : k # j => job'[k] = job[k]
      BY <1>a, <3>1 DEF SetJob, Job
    <3>3. PromptsCalm'
      BY <1>b, <1>d, <3>1, <3>2 DEF PromptsCalm, Claimed, Live, TimedOut, Ended
    <3>4. PassCalm(p)'
      BY <3>1, ResumeEffect DEF PassCalm, Working, Placing
    <3>5. QED
      BY <1>2, <3>3, <3>4
  <2>9. CASE RecoverCommit(p)
    <3>1. /\ StepWith(p, "tidy", {"staging"}) /\ prompt[j] = "success"
          /\ job' = Finalized(j, j) /\ req' = [req EXCEPT ![j].status = "succeeded"]
      BY <1>d, <2>9 DEF RecoverCommit, PassCalm, Placing
    <3>2. job'[j].status = "succeeded" /\ \A k \in Jobs : k # j => job'[k] = job[k]
      BY <1>a, <3>1, NoneAssumption DEF Finalized, Job
    <3>3. /\ \A k \in Jobs : req'[k].prompt = req[k].prompt
          /\ \A k \in Jobs : k # j => req'[k] = req[k]
      BY <1>a, <3>1 DEF Request
    <3>4. PromptsCalm'
      BY <1>b, <1>d, <3>2, <3>3 DEF PromptsCalm, Claimed, Live, TimedOut
    <3>5. main'[p].pc = "tidy" /\ main'[p].job = j /\ main'[p].seen = main[p].seen
      BY <1>a, <3>1 DEF StepWith, Main
    <3>6. PassCalm(p)'
      BY <1>b, <2>a, <3>1, <3>5 DEF PassCalm
    <3>7. QED
      BY <1>2, <3>4, <3>6
  <2>10. ~RecoverWithoutPrompt(p) /\ ~RecoverSucceededRequest(p)
    BY <2>a DEF RecoverWithoutPrompt, WithoutPrompt, RecoverSucceededRequest
  <2>11. ~AskHistoryFails(p) /\ ~AskQueueFails(p)
    BY NoFault DEF AskHistoryFails, AskQueueFails
  <2>12. CASE RecoverEmptyStaging(p)
    <3>1. main' = main /\ UNCHANGED <<job, req>>
      BY <2>12 DEF RecoverEmptyStaging, procVars
    <3>2. Steps(p, main[p].pc)
      BY <3>1, StayForm DEF TypeInv, Steps
    <3>3. QED
      BY <1>d, <2>2, <3>1, <3>2 DEF PassCalm
  <2>13. QED
    BY <1>7, <2>3, <2>4, <2>5, <2>6, <2>7, <2>8, <2>9, <2>10, <2>11, <2>12 DEF PassStep
<1>8. QED
  BY <1>5, <1>6, <1>7, MainSteps DEF Claiming, Claim, RoundClaimed, RoundDone

LEMMA RoundKeepsCalm ==
    ASSUME OneSlot, OneWorker, TypeInv, PhaseInv, Calm,
           NEW p \in Procs, MainStep(p), main[p].pc \in Claiming
    PROVE  Calm'
<1> USE DEF dbVars, envVars
<1>a. /\ main \in [Procs -> Main] /\ thread \in [Threads -> Thread] /\ HoldersOK
      /\ job \in [Jobs -> Job]
  BY DEF TypeInv, TypeOK
<1>b. \A q \in Procs : main[q].pc \notin Working
  BY RunAlone
<1>c. \A q \in Procs : main[q].pc \notin Placing \cup {"fetch", "fail"}
  BY <1>b, PlacingPass DEF Working
<1>0. Claim(p) \/ RoundClaimed(p) \/ RoundDone(p)
  <2>1. ~PassStep(p)
    BY PassForm DEF TypeInv, Claiming, Working
  <2>2. QED
    BY <2>1, MainSteps DEF Claiming, RecoverList, RecoverNext, RecoverEnd, Poll
<1>1. CASE Claim(p)
  <2>1. PICK k \in Jobs, s \in Slots :
            /\ thread[<<p, s>>].pc = "free" /\ job[k].status = "pending"
            /\ job' = [job EXCEPT ![k].status = "claimed", ![k].attempts = @ + 1]
            /\ thread' = [thread EXCEPT ![<<p, s>>].pc = "install", ![<<p, s>>].job = k]
            /\ UNCHANGED <<main, req, prompt>>
    BY <1>1 DEF Claim, Best, Claimable
  <2>2. <<p, s>> \in Threads
    BY DEF Threads
  <2>3. thread'[<<p, s>>].job = k /\ thread'[<<p, s>>].pc = "install"
        /\ \A u \in Threads : u # <<p, s>> => thread'[u] = thread[u]
    BY <1>a, <2>1, <2>2 DEF Thread
  <2>4. job'[k].status = "claimed" /\ \A i \in Jobs : i # k => job'[i] = job[i]
    BY <1>a, <2>1 DEF Job
  <2>5. thread[<<p, s>>].job \notin Jobs
    BY <1>a, <2>1, <2>2 DEF HoldersOK
  <2>6. PromptsCalm'
    <3> SUFFICES ASSUME NEW i \in Jobs
                 PROVE  /\ prompt'[i] # "gone"
                        /\ req'[i].prompt => prompt'[i] # "none"
                        /\ Claimed(i)' /\ (\A u \in Threads : thread'[u].job # i)
                               => TimedOut(i)'
                        /\ job'[i].status = "failed" /\ Live(i)'
                               => ~InjectedClient /\ TimedOut(i)'
      BY DEF PromptsCalm
    <3>1. CASE i = k
      BY <2>1, <2>2, <2>3, <2>4, <3>1 DEF Calm, PromptsCalm
    <3>2. CASE i # k
      <4>1. (\A u \in Threads : thread'[u].job # i) => \A u \in Threads : thread[u].job # i
        BY <2>3, <2>5
      <4>2. QED
        BY <2>1, <2>4, <3>2, <4>1 DEF Calm, PromptsCalm, Claimed, TimedOut, Live
    <3>3. QED
      BY <3>1, <3>2
  <2>7. \A u \in Threads : ThreadCalm(u)'
    <3> SUFFICES ASSUME NEW u \in Threads PROVE ThreadCalm(u)'
      OBVIOUS
    <3>1. CASE u = <<p, s>>
      BY <2>3, <3>1 DEF ThreadCalm, Monitoring, Delivering
    <3>2. CASE u # <<p, s>>
      <4>1. thread[u].pc = "free"
        BY <1>1, <3>2, BusyThread, OneUp DEF OneSlot, Threads, Claiming
      <4>2. QED
        BY <2>3, <3>2, <4>1 DEF ThreadCalm, Monitoring, Delivering
    <3>3. QED
      BY <3>1, <3>2
  <2>8. QED
    BY <1>b, <1>c, <2>1, <2>6, <2>7 DEF Calm, PassCalm
<1>2. CASE RoundClaimed(p) \/ RoundDone(p)
  <2>1. PICK pc \in {"idle", "wait", "claim"} : Step(p, pc)
    BY <1>2 DEF RoundClaimed, RoundDone
  <2>2. main'[p].pc = pc /\ \A q \in Procs : q # p => main'[q] = main[q]
    BY <2>1, StepEffect DEF Steps
  <2>3. \A q \in Procs : main'[q].pc \notin Working /\ main'[q].pc \notin Placing \cup {"fetch", "fail"}
    BY <1>b, <1>c, <2>2 DEF Working, Placing
  <2>4. /\ UNCHANGED <<job, req, prompt>>
        /\ \A t \in Threads : \/ thread'[t] = thread[t]
                              \/ thread'[t] = ThreadFree /\ thread[t].pc \in {"free", "done"}
    BY <1>2 DEF RoundClaimed, RoundDone, SlotsIn, Threads
  <2>5. \A t \in Threads, k \in Jobs : thread[t].job = k => thread'[t].job = k
    BY <1>a, <2>4 DEF HoldersOK
  <2>6. PromptsCalm'
    BY <2>4, <2>5 DEF Calm, PromptsCalm, Claimed, Live, TimedOut
  <2>7. \A t \in Threads : ThreadCalm(t)'
    BY <2>4 DEF Calm, ThreadCalm, ThreadFree, Claimed, Monitoring, Delivering
  <2>8. QED
    BY <2>3, <2>6, <2>7 DEF Calm, PassCalm
<1>3. QED
  BY <1>0, <1>1, <1>2

\* The steps that leave the tables, the prompts and the threads alone.
LEMMA OthersCalm ==
    ASSUME TypeInv, Calm, UNCHANGED <<req, prompt, thread>>,
           \A k \in Jobs : \/ job'[k] = job[k]
                           \/ job'[k].status \notin {"claimed", "failed"},
           \A q \in Procs : main'[q] = main[q] \/ main'[q].pc \in {"list", "down"}
    PROVE  Calm'
<1>1. PromptsCalm'
  BY DEF Calm, PromptsCalm, Claimed, Live, TimedOut
<1>2. \A t \in Threads : ThreadCalm(t)'
  <2> SUFFICES ASSUME NEW t \in Threads PROVE ThreadCalm(t)'
    OBVIOUS
  <2>1. /\ ThreadCalm(t)
        /\ thread[t].pc \notin {"free", "done"} => thread[t].job \in Jobs
    BY DEF Calm, TypeInv, HoldersOK
  <2>2. thread[t].job \in Jobs => (Claimed(thread[t].job)' => Claimed(thread[t].job))
    BY DEF Claimed
  <2>3. QED
    BY <2>1, <2>2 DEF ThreadCalm, Monitoring, Delivering
<1>3. \A q \in Procs : PassCalm(q)'
  BY DEF Calm, PassCalm, Working, Placing, TimedOut
<1>4. QED
  BY <1>1, <1>2, <1>3 DEF Calm

LEMMA NextCalm ==
    ASSUME OneSlot, OneWorker, TypeInv, PhaseInv, FinalInv, SoleInv, CalmInv, [Next]_vars
    PROVE  CalmInv'
<1> USE DEF dbVars, envVars, procVars
<1>0. SUFFICES ASSUME faults' = 0 PROVE Calm'
  BY DEF CalmInv
<1>a. /\ main \in [Procs -> Main] /\ thread \in [Threads -> Thread] /\ HoldersOK
      /\ job \in [Jobs -> Job] /\ prompt \in [Jobs -> PromptState]
  BY DEF TypeInv, TypeOK
<1>b. /\ Calm /\ PromptsCalm /\ CallbackOK /\ RecoveryOK /\ RunsOK /\ TakesOK
  BY <1>0, NextNoFault DEF CalmInv, Calm, FinalInv, SoleInv
<1>1. ASSUME NEW j \in Jobs, Enqueue(j) PROVE Calm'
  <2>1. UNCHANGED <<req, prompt, thread, main>>
    BY <1>1 DEF Enqueue
  <2>2. \A k \in Jobs : job'[k] = job[k] \/ job'[k].status = "pending"
    BY <1>1, <1>a DEF Enqueue, SetJob, Job
  <2>3. QED
    BY <1>b, <2>1, <2>2, OthersCalm
<1>2. ASSUME NEW j \in Jobs, PromptStarts(j) \/ PromptEnds(j) PROVE Calm'
  <2>1. /\ UNCHANGED <<job, req, thread, main>> /\ prompt[j] \in {"queued", "running"}
        /\ prompt'[j] \in {"running", "success", "error"}
        /\ \A k \in Jobs : k # j => prompt'[k] = prompt[k]
    BY <1>2, <1>a DEF PromptStarts, PromptEnds
  <2>2. PromptsCalm'
    BY <1>b, <2>1 DEF PromptsCalm, Claimed, Live, TimedOut
  <2>3. \A t \in Threads : ThreadCalm(t)'
    <3> SUFFICES ASSUME NEW t \in Threads PROVE ThreadCalm(t)'
      OBVIOUS
    <3>1. ThreadCalm(t) /\ (thread[t].pc \notin {"free", "done"} => thread[t].job \in Jobs)
      BY <1>a, <1>b DEF Calm, HoldersOK
    <3>2. CASE thread[t].job = j
      BY <2>1, <3>1, <3>2 DEF ThreadCalm, Ended, Claimed, Monitoring, Delivering
    <3>3. CASE thread[t].job # j
      BY <2>1, <3>1, <3>3 DEF ThreadCalm, Claimed, Monitoring, Delivering
    <3>4. QED
      BY <3>2, <3>3
  <2>4. \A p \in Procs : PassCalm(p)'
    <3> SUFFICES ASSUME NEW p \in Procs PROVE PassCalm(p)'
      OBVIOUS
    <3>1. PassCalm(p) /\ (main[p].pc \in Working => main[p].job \in Jobs)
      BY <1>a, <1>b DEF Calm, HoldersOK
    <3>2. main[p].pc \in Placing \cup {"fetch", "fail"} => main[p].pc \in Working
      BY PlacingPass DEF Working
    <3>3. CASE main[p].job = j
      BY <2>1, <3>1, <3>2, <3>3 DEF PassCalm, Ended, TimedOut
    <3>4. CASE main[p].job # j
      BY <2>1, <3>1, <3>2, <3>4 DEF PassCalm, TimedOut
    <3>5. QED
      BY <3>3, <3>4
  <2>5. QED
    BY <2>2, <2>3, <2>4 DEF Calm
<1>3. ~ComfyRestarts /\ \A p \in Procs : ~Crash(p)
  BY <1>0, NoFault DEF ComfyRestarts, Crash
<1>4. ASSUME NEW p \in Procs, Start(p) PROVE Calm'
  <2>1. UNCHANGED <<job, req, prompt, thread>>
    BY <1>4 DEF Start
  <2>2. main'[p].pc = "list" /\ \A q \in Procs : q # p => main'[q] = main[q]
    BY <1>4, <1>a DEF Start, Main
  <2>3. QED
    BY <1>b, <2>1, <2>2, OthersCalm
<1>5. ASSUME NEW p \in Procs, Stop(p) PROVE Calm'
  <2>1. Down(p) /\ UNCHANGED <<job, req, prompt>> /\ SlotsFree(p)
    BY <1>5 DEF Stop, Down, PhaseInv, SlotsFree, SlotsIn, Claiming
  <2>2. \A t \in Threads : \/ thread'[t] = thread[t]
                           \/ thread'[t] = ThreadFree /\ thread[t].pc = "free"
    BY <2>1 DEF Down, SlotsFree, Threads
  <2>3. \A t \in Threads, k \in Jobs : thread[t].job = k => thread'[t].job = k
    BY <1>a, <2>2 DEF HoldersOK
  <2>4. PromptsCalm'
    BY <1>b, <2>1, <2>3 DEF PromptsCalm, Claimed, Live, TimedOut
  <2>5. \A t \in Threads : ThreadCalm(t)'
    BY <1>b, <2>1, <2>2 DEF Calm, ThreadCalm, ThreadFree, Claimed, Monitoring, Delivering
  <2>6. \A q \in Procs : PassCalm(q)'
    BY <1>b, <2>1, DownEffect DEF Calm, PassCalm, MainDown, Working, Placing, TimedOut
  <2>7. QED
    BY <2>4, <2>5, <2>6 DEF Calm
<1>6. ASSUME NEW p \in Procs, MainStep(p) PROVE Calm'
  BY <1>0, <1>b, <1>6, PassKeepsCalm, RoundKeepsCalm
<1>7. ASSUME NEW t \in Threads, ThreadStep(t) PROVE Calm'
  BY <1>0, <1>b, <1>7, ThreadKeepsCalm
<1>8. CASE UNCHANGED vars
  BY <1>8, <1>b, OthersCalm DEF vars
<1>9. QED
  BY <1>1, <1>2, <1>3, <1>4, <1>5, <1>6, <1>7, <1>8 DEF Next

\* With one worker and one thread, and with either client: as long as nothing
\* fails, a job is given up while its prompt waits or runs only by the adapter
\* that closed its client, and only after the monitoring of that job timed out.
THEOREM OnlyTimeoutsGiveUp ==
    ASSUME OneSlot, OneWorker
    PROVE  Spec => []OnlyTimedOutGivenUp
<1>1. Init => CalmInv
  BY DEF Init, CalmInv, Calm, PromptsCalm, ThreadCalm, PassCalm, Claimed, NoRequest,
     ThreadFree, MainDown, Working, Placing, Monitoring, Delivering, TimedOut, Live
<1>2. TypeInv /\ PhaseInv /\ FinalInv /\ SoleInv /\ CalmInv /\ [Next]_vars => CalmInv'
  BY NextCalm
<1>3. CalmInv => OnlyTimedOutGivenUp
  BY DEF CalmInv, Calm, PromptsCalm, OnlyTimedOutGivenUp
<1>4. QED
  BY <1>1, <1>2, <1>3, Soles, PTL DEF Spec
=============================================================================
