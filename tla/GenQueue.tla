------------------------------ MODULE GenQueue ------------------------------
(***************************************************************************)
(* The front of the generation queue: the API handlers that enqueue takes  *)
(* for a shot or a scene under an idempotency key, the /generate button,   *)
(* and the cancellation of a job, run by concurrent requests.              *)
(*                                                                         *)
(* Python's sqlite3 opens a transaction at the first write of a            *)
(* connection, so the reads a handler makes before it (the active-job      *)
(* check, both reads of the batch, the status a cancel looks at) are steps *)
(* of their own, while the read of the highest take number comes after the *)
(* batch is inserted, under the write lock, and is one step with it.       *)
(*                                                                         *)
(* The worker is the one of QueueWorker.tla, reduced to the two moments at *)
(* which it writes a job of this table: the claim and the end.             *)
(***************************************************************************)
EXTENDS FiniteSetsExt, Integers

CONSTANTS
    Clients,    \* requests the API server handles at a time (its thread pool)
    Keys,       \* Idempotency-Key headers
    UiKeys,     \* keys /generate makes up, one fresh uuid per request
    Shots,
    Scopes,     \* what can be enqueued: a shot, or a scene
    ShotsOf,    \* [Scopes -> SUBSET Shots]
    Counts,     \* takes_count
    Seeds,      \* base_seed
    MaxTakes,   \* bound on the take numbers of a shot
    None

ASSUME KeysAssumption   == Keys \cap UiKeys = {}
ASSUME ShotsAssumption  == ShotsOf \in [Scopes -> SUBSET Shots]
ASSUME CountsAssumption == Counts \subseteq Nat \ {0} /\ 1 \in Counts /\ MaxTakes \in Nat
ASSUME NoneAssumption   == None \notin Seeds \cup Keys \cup UiKeys \cup Scopes

AllKeys == Keys \cup UiKeys
Takes   == 1..MaxTakes
JobIds  == Shots \X Takes      \* UNIQUE(shot_id, take_number)

VARIABLES
    job,        \* generation_queue
    batch,      \* queue_batches, by UNIQUE(project_id, idempotency_key)
    client,     \* the requests being handled
    running,    \* jobs a worker executes
    answers     \* the sets of jobs answered for each key (history)

vars == <<job, batch, client, running, answers>>

-----------------------------------------------------------------------------

JobStatus == {"absent", "pending", "claimed", "succeeded", "failed", "cancelled"}
Active    == {"pending", "claimed"}

Job     == [status : JobStatus, key : AllKeys \cup {None}, claimed : BOOLEAN]
Batch   == [scope : Scopes, count : Counts, seed : Seeds]
Request == [key : AllKeys, scope : Scopes, count : Counts, seed : Seeds \cup {None}]

ASSUME BatchAssumption == None \notin Batch

NoJob   == [status |-> "absent", key |-> None, claimed |-> FALSE]
Idle    == [pc |-> "idle"]

ClientState == {Idle} \cup [pc : {"seed", "key", "write"}, req : Request]
                      \cup [pc : {"cancel"}, job : JobIds]

TypeOK ==
    /\ job \in [JobIds -> Job]
    /\ batch \in [AllKeys -> Batch \cup {None}]
    /\ client \in [Clients -> ClientState]
    /\ running \subseteq JobIds
    /\ answers \in [AllKeys -> SUBSET SUBSET JobIds]

Init ==
    /\ job = [j \in JobIds |-> NoJob]
    /\ batch = [k \in AllKeys |-> None]
    /\ client = [c \in Clients |-> Idle]
    /\ running = {}
    /\ answers = [k \in AllKeys |-> {}]

Exists(j) == job[j].status # "absent"

TakesOf(s) == {n \in Takes : Exists(<<s, n>>)}

JobsOf(k) == {j \in JobIds : Exists(j) /\ job[j].key = k}

-----------------------------------------------------------------------------
(* Enqueue *)

At(c, pc) == client[c].pc = pc

Goto(c, st) == client' = [client EXCEPT ![c] = st]

\* Without a base_seed the handler first looks for the seed of the key's batch.
Handle(c, r) ==
    Goto(c, [pc |-> IF r.seed = None THEN "seed" ELSE "key", req |-> r])

EnqueueRequest(c) ==
    /\ At(c, "idle")
    /\ \E r \in Request : r.key \in Keys /\ Handle(c, r)
    /\ UNCHANGED <<job, batch, running, answers>>

HasActiveJobs(s) == \E n \in Takes : job[<<s, n>>].status \in Active

Unused(k) == batch[k] = None /\ \A c \in Clients : ~At(c, "idle") /\ ~At(c, "cancel")
                                                      => client[c].req.key # k

\* POST /generate: one take of one shot, refused while the shot has active jobs.
GenerateRequest(c) ==
    /\ At(c, "idle")
    /\ \E sc \in Scopes, k \in UiKeys, sd \in Seeds \cup {None} :
          /\ \E s \in Shots : ShotsOf[sc] = {s} /\ ~HasActiveJobs(s)
          /\ Unused(k)
          /\ Handle(c, [key |-> k, scope |-> sc, count |-> 1, seed |-> sd])
    /\ UNCHANGED <<job, batch, running, answers>>

\* The first read of the batch: its seed, or a random one.
ReadSeed(c) ==
    /\ At(c, "seed")
    /\ LET r == client[c].req IN
       \E sd \in IF batch[r.key] # None THEN {batch[r.key].seed} ELSE Seeds :
          Goto(c, [pc |-> "key", req |-> [r EXCEPT !.seed = sd]])
    /\ UNCHANGED <<job, batch, running, answers>>

Fingerprint(r) == [scope |-> r.scope, count |-> r.count, seed |-> r.seed]

\* The second read: the jobs of a batch with this fingerprint are the answer,
\* another fingerprint is a conflict.
CheckKey(c) ==
    LET r == client[c].req IN
    /\ At(c, "key")
    /\ IF batch[r.key] = None
       THEN Goto(c, [client[c] EXCEPT !.pc = "write"]) /\ UNCHANGED answers
       ELSE /\ Goto(c, Idle)
            /\ answers' = IF batch[r.key] = Fingerprint(r)
                          THEN [answers EXCEPT ![r.key] = @ \cup {JobsOf(r.key)}]
                          ELSE answers
    /\ UNCHANGED <<job, batch, running>>

\* Mutant: INSERT OR REPLACE, as the other repositories write.
KeyFree_Replace(k) == TRUE

KeyFree(k) == batch[k] = None

\* Mutant: ended jobs do not count.
Highest_Active(s) == Max({0} \cup {n \in Takes : job[<<s, n>>].status \in Active})

\* Mutant: one number for all the shots of the scene.
Highest_Shared(s) == Max({0} \cup UNION {TakesOf(x) : x \in Shots})

\* The highest take number of the shot, in the queue and in takes (whose
\* numbers come from the queue).
Highest(s) == Max({0} \cup TakesOf(s))

\* Mutant: the status of a generation request.
NewJob_Queued(k) == [status |-> "queued", key |-> k, claimed |-> FALSE]

NewJob(k) == [status |-> "pending", key |-> k, claimed |-> FALSE]

\* The next n take numbers of each shot of E.
NextJobs(E, n) == {<<s, Highest(s) + i>> : s \in E, i \in 1..n}

\* One transaction: the batch, then count jobs for each shot that is eligible
\* (a scene's shots with a current plan).
WriteBatch(c) ==
    LET r == client[c].req IN
    /\ At(c, "write")
    /\ KeyFree(r.key)
    /\ \E eligible \in (SUBSET ShotsOf[r.scope]) \ {{}} :
          LET new == NextJobs(eligible, r.count) IN
          /\ new \subseteq JobIds
          /\ job' = [j \in JobIds |-> IF j \in new THEN NewJob(r.key) ELSE job[j]]
          /\ answers' = [answers EXCEPT ![r.key] = @ \cup {new}]
    /\ batch' = [batch EXCEPT ![r.key] = Fingerprint(r)]
    /\ Goto(c, Idle)
    /\ UNCHANGED running

\* UNIQUE(project_id, idempotency_key) refuses the batch: an internal error.
WriteConflict(c) ==
    /\ At(c, "write")
    /\ ~KeyFree(client[c].req.key)
    /\ Goto(c, Idle)
    /\ UNCHANGED <<job, batch, running, answers>>

-----------------------------------------------------------------------------
(* Cancel *)

\* The read of cancel_job; every other status is an answer without a write.
CancelRequest(c) ==
    /\ At(c, "idle")
    /\ \E j \in JobIds : job[j].status = "pending" /\ Goto(c, [pc |-> "cancel", job |-> j])
    /\ UNCHANGED <<job, batch, running, answers>>

\* update_status, by id only.
CancelWrite(c) ==
    /\ At(c, "cancel")
    /\ job' = [job EXCEPT ![client[c].job].status = "cancelled"]
    /\ Goto(c, Idle)
    /\ UNCHANGED <<batch, running, answers>>

\* The server dies, or the database is busy: nothing is answered, and whoever
\* asked may ask again with the same key.
Drop(c) ==
    /\ ~At(c, "idle")
    /\ Goto(c, Idle)
    /\ UNCHANGED <<job, batch, running, answers>>

-----------------------------------------------------------------------------
(* The worker *)

Claim(j) ==
    /\ job[j].status = "pending"
    /\ job' = [job EXCEPT ![j].status = "claimed", ![j].claimed = TRUE]
    /\ running' = running \cup {j}
    /\ UNCHANGED <<batch, client, answers>>

\* The end of an execution is written by id, whatever the status has become.
End(j) ==
    /\ j \in running
    /\ \E st \in {"succeeded", "failed"} : job' = [job EXCEPT ![j].status = st]
    /\ running' = running \ {j}
    /\ UNCHANGED <<batch, client, answers>>

-----------------------------------------------------------------------------

Next ==
    \/ \E c \in Clients :
          \/ EnqueueRequest(c) \/ GenerateRequest(c) \/ ReadSeed(c) \/ CheckKey(c)
          \/ WriteBatch(c) \/ WriteConflict(c)
          \/ CancelRequest(c) \/ CancelWrite(c) \/ Drop(c)
    \/ \E j \in JobIds : Claim(j) \/ End(j)

Spec == Init /\ [][Next]_vars

-----------------------------------------------------------------------------
(* Safety *)

\* However many batches are enqueued for a shot at a time, its take numbers
\* (and so the seeds derived from them) are 1, 2, ... without gap or repeat.
NumbersDense == \A s \in Shots : TakesOf(s) = 1..Cardinality(TakesOf(s))

\* The rows of a batch stay together: each of its shots got as many as were
\* asked for, numbered consecutively, and no other batch took one of them over.
Consecutive(S) == \A m, n \in S : \A x \in m..n : x \in S

BatchWhole ==
    \A k \in AllKeys :
        LET numbers(s) == {n \in Takes : <<s, n>> \in JobsOf(k)} IN
        IF batch[k] = None THEN JobsOf(k) = {}
        ELSE /\ JobsOf(k) # {}
             /\ \A s \in Shots : numbers(s) # {} =>
                   /\ s \in ShotsOf[batch[k].scope]
                   /\ Cardinality(numbers(s)) = batch[k].count
                   /\ Consecutive(numbers(s))

\* Every successful answer to a key names the same jobs, those of its batch: a
\* retry, even one that overlaps the first try, never enqueues them again.
OneAnswer == \A k \in AllKeys : answers[k] \subseteq {JobsOf(k)}

Ledger == INSTANCE EnqueueLedger WITH
              Keys    <- AllKeys,
              Numbers <- Takes,
              owner   <- [j \in JobIds |-> job[j].key],
              told    <- answers

\* Overlapping enqueues, retries, conflicts, cancels and the worker together do
\* what one enqueue at a time would: a batch is written in one instant, with the
\* next numbers of its shots, is never written again nor changed, and is what
\* every answer to its key names.
LedgerSpec == Ledger!Spec

\* Duplicate protection of /generate: a shot never has two of its jobs active
\* ("prevents concurrent generation for the same shot").
DuplicateProtection ==
    \A s \in Shots :
        Cardinality({n \in Takes : job[<<s, n>>].key \in UiKeys
                                      /\ job[<<s, n>>].status \in Active}) <= 1

\* A cancelled job was never claimed ("user cancels before claim").
CancelledNeverRan ==
    \A j \in JobIds : job[j].status = "cancelled" => ~job[j].claimed

=============================================================================
