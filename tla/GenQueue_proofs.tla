--------------------------- MODULE GenQueue_proofs ---------------------------
(***************************************************************************)
(* Theorems about GenQueue, for any clients, keys, shots, scopes and take  *)
(* numbers.                                                                *)
(***************************************************************************)
EXTENDS GenQueue, FiniteSetTheorems, TLAPS

\* What a handler knows: the job it cancels is there, and the seed of a batch
\* it is going to write has been chosen.
ClientsOK ==
    \A c \in Clients :
        /\ At(c, "cancel") => Exists(client[c].job)
        /\ At(c, "key") \/ At(c, "write") => client[c].req.seed \in Seeds

RunningOK == \A j \in running : Exists(j)

\* The take numbers of a shot are those up to the highest.
Dense == \A s \in Shots : \E n \in 0..MaxTakes : TakesOf(s) = 1..n

Numbers(k, s) == {n \in Takes : <<s, n>> \in JobsOf(k)}

\* A batch has the numbers it was given when it was written.
Whole(k) ==
    /\ JobsOf(k) # {}
    /\ \A s \in Shots : Numbers(k, s) # {} =>
          /\ s \in ShotsOf[batch[k].scope]
          /\ \E n \in Nat : Numbers(k, s) = (n + 1)..(n + batch[k].count)

BatchesOK ==
    \A k \in AllKeys :
        /\ batch[k] = None => JobsOf(k) = {} /\ answers[k] = {}
        /\ batch[k] # None => Whole(k)

Inv == TypeOK /\ ClientsOK /\ RunningOK /\ Dense /\ BatchesOK /\ OneAnswer

-----------------------------------------------------------------------------
(* Types *)

LEMMA ClientStates ==
    ASSUME TypeOK, NEW c \in Clients
    PROVE  /\ client[c].pc \in {"idle", "seed", "key", "write", "cancel"}
           /\ At(c, "seed") \/ At(c, "key") \/ At(c, "write") => client[c].req \in Request
           /\ At(c, "seed") \/ At(c, "key") \/ At(c, "write") =>
                 client[c] = [pc |-> client[c].pc, req |-> client[c].req]
           /\ At(c, "cancel") => client[c].job \in JobIds
BY DEF TypeOK, ClientState, Idle, At

LEMMA GotoTyped ==
    ASSUME TypeOK, NEW c \in Clients, NEW st \in ClientState, Goto(c, st)
    PROVE  /\ client' \in [Clients -> ClientState]
           /\ client'[c] = st /\ \A d \in Clients : d # c => client'[d] = client[d]
BY DEF TypeOK, Goto

LEMMA States ==
    /\ Idle \in ClientState /\ Idle.pc = "idle"
    /\ \A pc \in {"seed", "key", "write"}, r \in Request :
          [pc |-> pc, req |-> r] \in ClientState
    /\ \A j \in JobIds : [pc |-> "cancel", job |-> j] \in ClientState
BY DEF Idle, ClientState

LEMMA InitInv == Init => Inv
<1> SUFFICES ASSUME Init PROVE Inv
    OBVIOUS
<1>1. /\ job \in [JobIds -> Job] /\ \A j \in JobIds : ~Exists(j)
      /\ client \in [Clients -> ClientState] /\ \A c \in Clients : client[c].pc = "idle"
    BY States DEF Init, NoJob, Job, JobStatus, Exists
<1>2. TypeOK
    BY <1>1 DEF Init, TypeOK
<1>3. Dense
    <2>1. \A s \in Shots : TakesOf(s) = {}
        BY <1>1 DEF TakesOf, JobIds
    <2>2. 0 \in 0..MaxTakes /\ 1..0 = {}
        BY CountsAssumption
    <2> QED
        BY <2>1, <2>2 DEF Dense
<1>4. \A k \in AllKeys : JobsOf(k) = {} /\ answers[k] = {} /\ batch[k] = None
    BY <1>1 DEF JobsOf, Init
<1> QED
    BY <1>1, <1>2, <1>3, <1>4 DEF Inv, Init, ClientsOK, RunningOK, BatchesOK, OneAnswer, At

-----------------------------------------------------------------------------
(* Steps that write no new job *)

\* A job keeps its key, and is there as long as it was.
Kept == \A j \in JobIds : job'[j].key = job[j].key /\ (Exists(j)' <=> Exists(j))

LEMMA KeptKeeps ==
    ASSUME Kept
    PROVE  /\ \A s \in Shots : TakesOf(s)' = TakesOf(s)
           /\ \A k \in AllKeys : JobsOf(k)' = JobsOf(k)
BY DEF Kept, TakesOf, JobsOf, JobIds, Exists

LEMMA QuietKeeps ==
    ASSUME Inv, Kept, UNCHANGED batch,
           \A k \in AllKeys : answers'[k] \subseteq answers[k] \cup
                                  (IF batch[k] = None THEN {} ELSE {JobsOf(k)})
    PROVE  Dense' /\ BatchesOK' /\ OneAnswer'
<1>1. /\ \A s \in Shots : TakesOf(s)' = TakesOf(s)
      /\ \A k \in AllKeys : JobsOf(k)' = JobsOf(k)
    BY KeptKeeps
<1>2. Dense'
    BY <1>1 DEF Inv, Dense
<1>3. \A k \in AllKeys, s \in Shots : Numbers(k, s)' = Numbers(k, s)
    BY <1>1 DEF Numbers
<1>4. \A k \in AllKeys : Whole(k) => Whole(k)'
    BY <1>1, <1>3 DEF Whole
<1>5. BatchesOK'
    BY <1>1, <1>4 DEF Inv, BatchesOK
<1>6. OneAnswer'
    BY <1>1 DEF Inv, OneAnswer
<1> QED
    BY <1>2, <1>5, <1>6

\* A handler goes on and no row changes.
LEMMA ReadKeeps ==
    ASSUME Inv, NEW c \in Clients, NEW st \in ClientState, Goto(c, st),
           UNCHANGED <<job, batch, running>>, answers' \in [AllKeys -> SUBSET SUBSET JobIds],
           st.pc = "cancel" => Exists(st.job),
           st.pc \in {"key", "write"} => st.req.seed \in Seeds,
           \A k \in AllKeys : answers'[k] \subseteq answers[k] \cup
                                  (IF batch[k] = None THEN {} ELSE {JobsOf(k)})
    PROVE  Inv'
<1>1. Kept
    BY DEF Kept, Exists
<1>2. /\ client' \in [Clients -> ClientState]
      /\ client'[c] = st /\ \A d \in Clients : d # c => client'[d] = client[d]
    BY GotoTyped DEF Inv
<1>3. TypeOK' /\ RunningOK'
    BY <1>2 DEF Inv, TypeOK, RunningOK, Exists
<1>4. ClientsOK'
    BY <1>2 DEF Inv, ClientsOK, At, Exists
<1> QED
    BY <1>1, <1>3, <1>4, QuietKeeps DEF Inv

LEMMA HandleStates ==
    ASSUME NEW r \in Request
    PROVE  LET st == [pc |-> IF r.seed = None THEN "seed" ELSE "key", req |-> r] IN
           /\ st \in ClientState /\ st.pc # "cancel"
           /\ st.pc \in {"key", "write"} => st.req.seed \in Seeds
<1>1. r.seed \in Seeds \cup {None}
    BY DEF Request
<1> QED
    BY <1>1, States

LEMMA HandlerKeeps ==
    ASSUME Inv, NEW c \in Clients,
           \/ EnqueueRequest(c) \/ GenerateRequest(c) \/ ReadSeed(c) \/ CheckKey(c)
           \/ WriteConflict(c) \/ CancelRequest(c) \/ Drop(c)
    PROVE  Inv'
<1>0. /\ TypeOK /\ ClientsOK
      /\ \A k \in AllKeys : answers[k] \subseteq answers[k] \cup
                                (IF batch[k] = None THEN {} ELSE {JobsOf(k)})
      /\ answers \in [AllKeys -> SUBSET SUBSET JobIds]
    BY DEF Inv, TypeOK
<1>1. CASE EnqueueRequest(c)
    <2>1. PICK r \in Request : Handle(c, r)
        BY <1>1 DEF EnqueueRequest
    <2> QED
        BY <1>0, <1>1, <2>1, HandleStates, ReadKeeps DEF EnqueueRequest, Handle
<1>2. CASE GenerateRequest(c)
    <2>1. PICK sc \in Scopes, k \in UiKeys, sd \in Seeds \cup {None}, s \in Shots :
             /\ ShotsOf[sc] = {s} /\ Handle(c, [key |-> k, scope |-> sc, count |-> 1, seed |-> sd])
        BY <1>2 DEF GenerateRequest
    <2> DEFINE r == [key |-> k, scope |-> sc, count |-> 1, seed |-> sd]
    <2>2. r \in Request
        BY <2>1, CountsAssumption DEF Request, AllKeys
    <2> HIDE DEF r
    <2> QED
        BY <1>0, <1>2, <2>1, <2>2, HandleStates, ReadKeeps DEF GenerateRequest, Handle, r
<1>3. CASE ReadSeed(c)
    <2>1. client[c].req \in Request /\ client[c].req.key \in AllKeys
        BY <1>0, <1>3, ClientStates DEF ReadSeed, Request
    <2>2. PICK sd \in IF batch[client[c].req.key] # None
                      THEN {batch[client[c].req.key].seed} ELSE Seeds :
             Goto(c, [pc |-> "key", req |-> [client[c].req EXCEPT !.seed = sd]])
        BY <1>3 DEF ReadSeed
    <2>3. sd \in Seeds
        BY <1>0, <2>1, <2>2 DEF TypeOK, Batch
    <2> DEFINE r == [client[c].req EXCEPT !.seed = sd]
    <2>4. r \in Request /\ r.seed = sd
        BY <2>1, <2>3 DEF Request
    <2> HIDE DEF r
    <2>5. Goto(c, [pc |-> "key", req |-> r])
        BY <2>2 DEF r
    <2> QED
        BY <1>0, <1>3, <2>3, <2>4, <2>5, States, ReadKeeps DEF ReadSeed
<1>4. CASE CheckKey(c)
    <2> DEFINE r == client[c].req
    <2>1. r \in Request /\ r.key \in AllKeys /\ r.seed \in Seeds
        BY <1>0, <1>4, ClientStates DEF CheckKey, Request, ClientsOK
    <2>2. CASE batch[r.key] = None
        <3> DEFINE st == [client[c] EXCEPT !.pc = "write"]
        <3>1. st = [pc |-> "write", req |-> r]
            <4>1. client[c] = [pc |-> client[c].pc, req |-> r]
                BY <1>0, <1>4, ClientStates DEF CheckKey
            <4> QED
                BY <4>1
        <3>2. Goto(c, [pc |-> "write", req |-> r])
            BY <1>4, <2>2, <3>1 DEF CheckKey
        <3> QED
            BY <1>0, <1>4, <2>1, <2>2, <3>2, States, ReadKeeps DEF CheckKey
    <2>3. CASE batch[r.key] # None
        <3>1. answers' \in [AllKeys -> SUBSET SUBSET JobIds]
            BY <1>0, <1>4, <2>3 DEF CheckKey, JobsOf
        <3>2. \A k \in AllKeys : answers'[k] \subseteq answers[k] \cup
                                    (IF batch[k] = None THEN {} ELSE {JobsOf(k)})
            BY <1>0, <1>4, <2>1, <2>3 DEF CheckKey
        <3> QED
            BY <1>4, <2>3, <3>1, <3>2, States, ReadKeeps DEF CheckKey
    <2> QED
        BY <2>2, <2>3
<1>5. CASE WriteConflict(c)
    BY <1>0, <1>5, States, ReadKeeps DEF WriteConflict
<1>6. CASE CancelRequest(c)
    <2>1. PICK j \in JobIds : job[j].status = "pending" /\ Goto(c, [pc |-> "cancel", job |-> j])
        BY <1>6 DEF CancelRequest
    <2>2. Exists(j)
        BY <2>1 DEF Exists
    <2> QED
        BY <1>0, <1>6, <2>1, <2>2, States, ReadKeeps DEF CancelRequest
<1>7. CASE Drop(c)
    BY <1>0, <1>7, States, ReadKeeps DEF Drop
<1> QED
    BY <1>1, <1>2, <1>3, <1>4, <1>5, <1>6, <1>7

\* The worker, and a cancellation, change the status of a job that is there.
LEMMA StatusKeeps ==
    ASSUME Inv, (\E c \in Clients : CancelWrite(c)) \/ (\E j \in JobIds : Claim(j) \/ End(j))
    PROVE  Inv'
<1> DEFINE Becomes(j, row) ==
           /\ job' = [job EXCEPT ![j] = row] /\ Exists(j)
           /\ row.status # "absent" /\ row.key = job[j].key
           /\ running' \subseteq running \cup {j}
           /\ UNCHANGED <<batch, answers>>
           /\ \/ UNCHANGED client
              \/ \E c \in Clients : Goto(c, Idle)
<1>1. PICK j \in JobIds, row \in Job : Becomes(j, row)
    <2>1. CASE \E c \in Clients : CancelWrite(c)
        <3>1. PICK c \in Clients : CancelWrite(c)
            BY <2>1
        <3>2. client[c].job \in JobIds /\ Exists(client[c].job)
            BY <3>1, ClientStates DEF Inv, ClientsOK, CancelWrite
        <3>3. [job[client[c].job] EXCEPT !.status = "cancelled"] \in Job
            BY <3>2 DEF Inv, TypeOK, Job, JobStatus
        <3> QED
            BY <3>1, <3>2, <3>3 DEF CancelWrite, Inv, TypeOK, Job
    <2>2. ASSUME NEW j \in JobIds, Claim(j) PROVE \E row \in Job : Becomes(j, row)
        <3> DEFINE row == [job[j] EXCEPT !.status = "claimed", !.claimed = TRUE]
        <3>1. job[j] \in Job
            BY DEF Inv, TypeOK
        <3>2. /\ row \in Job /\ row.status # "absent" /\ row.key = job[j].key
              /\ job' = [job EXCEPT ![j] = row]
            BY <2>2, <3>1 DEF Claim, Job, JobStatus
        <3> HIDE DEF row
        <3> QED
            BY <2>2, <3>2 DEF Claim, Exists
    <2>3. ASSUME NEW j \in JobIds, End(j) PROVE \E row \in Job : Becomes(j, row)
        <3>1. \A st \in {"succeeded", "failed"} : [job[j] EXCEPT !.status = st] \in Job
            BY DEF Inv, TypeOK, Job, JobStatus
        <3>2. Exists(j)
            BY <2>3 DEF End, Inv, RunningOK
        <3>3. PICK st \in {"succeeded", "failed"} : job' = [job EXCEPT ![j].status = st]
            BY <2>3 DEF End
        <3> DEFINE row == [job[j] EXCEPT !.status = st]
        <3>4. job[j] \in Job
            BY DEF Inv, TypeOK
        <3>5. /\ row \in Job /\ row.status # "absent" /\ row.key = job[j].key
              /\ job' = [job EXCEPT ![j] = row]
            BY <3>1, <3>3, <3>4 DEF Job
        <3> HIDE DEF row
        <3> QED
            BY <2>3, <3>2, <3>5 DEF End
    <2> QED
        BY <2>1, <2>2, <2>3
<1>2. Kept
    BY <1>1 DEF Kept, Exists, Inv, TypeOK
<1>3. TypeOK' /\ RunningOK'
    <2>1. client' \in [Clients -> ClientState]
        BY <1>1, States, GotoTyped DEF Inv, TypeOK
    <2> QED
        BY <1>1, <1>2, <2>1 DEF Inv, TypeOK, RunningOK, Kept
<1>4. ClientsOK'
    <2>1. ASSUME NEW c \in Clients
          PROVE  client'[c] = client[c] \/ client'[c] = Idle
        BY <1>1, States, GotoTyped DEF Inv
    <2>2. ASSUME NEW c \in Clients, At(c, "cancel")
          PROVE  client[c].job \in JobIds
        BY <2>2, ClientStates DEF Inv
    <2> QED
        BY <1>2, <2>1, <2>2, States DEF Inv, ClientsOK, Kept, At
<1>5. Dense' /\ BatchesOK' /\ OneAnswer'
    BY <1>1, <1>2, QuietKeeps
<1> QED
    BY <1>3, <1>4, <1>5 DEF Inv

-----------------------------------------------------------------------------
(* WriteBatch *)

LEMMA HighestIs ==
    ASSUME Dense, NEW s \in Shots
    PROVE  Highest(s) \in 0..MaxTakes /\ TakesOf(s) = 1..Highest(s)
<1>1. PICK n \in 0..MaxTakes : TakesOf(s) = 1..n
    BY DEF Dense
<1>2. {0} \cup TakesOf(s) = 0..n
    BY <1>1
<1>3. Highest(s) = n
    BY <1>2 DEF Highest, Max
<1> QED
    BY <1>1, <1>3

\* The jobs that are written are new, so that no other batch loses any.
LEMMA WriteKeeps ==
    ASSUME Inv, NEW c \in Clients, WriteBatch(c)
    PROVE  Inv'
<1> SUFFICES ASSUME NEW r, r = client[c].req, NEW key, key = r.key PROVE Inv'
    OBVIOUS
<1>0. /\ r \in Request /\ key \in AllKeys /\ r.scope \in Scopes /\ r.count \in Counts
      /\ r.count \in Nat /\ r.count >= 1 /\ r.seed \in Seeds /\ MaxTakes \in Nat
    <2>1. At(c, "write") /\ r \in Request
        BY ClientStates DEF Inv, WriteBatch
    <2>2. r.seed \in Seeds
        BY <2>1 DEF Inv, ClientsOK
    <2>3. key \in AllKeys /\ r.scope \in Scopes /\ r.count \in Counts
        BY <2>1 DEF Request
    <2>4. MaxTakes \in Nat /\ Counts \subseteq Nat \ {0}
        BY CountsAssumption
    <2>5. r.count \in Nat /\ r.count >= 1
        BY <2>3, <2>4
    <2> QED
        BY <2>1, <2>2, <2>3, <2>4, <2>5
<1> DEFINE News(E) == NextJobs(E, r.count)
           Writes(E) == /\ News(E) \subseteq JobIds
                        /\ job' = [j \in JobIds |-> IF j \in News(E) THEN NewJob(key) ELSE job[j]]
                        /\ answers' = [answers EXCEPT ![key] = @ \cup {News(E)}]
<1>1. PICK eligible \in (SUBSET ShotsOf[r.scope]) \ {{}} : Writes(eligible)
    BY DEF WriteBatch
<1> DEFINE new == News(eligible)
<1>2. /\ new \subseteq JobIds
      /\ job' = [j \in JobIds |-> IF j \in new THEN NewJob(key) ELSE job[j]]
      /\ answers' = [answers EXCEPT ![key] = @ \cup {new}]
      /\ batch' = [batch EXCEPT ![key] = Fingerprint(r)]
      /\ running' = running /\ batch[key] = None
    <2>1. /\ batch' = [batch EXCEPT ![key] = Fingerprint(r)]
          /\ running' = running /\ batch[key] = None
        BY DEF WriteBatch, KeyFree
    <2> QED
        BY <1>1, <2>1
<1>3. /\ eligible \subseteq Shots /\ eligible # {}
      /\ eligible \subseteq ShotsOf[r.scope]
      /\ \A s \in Shots : Highest(s) \in 0..MaxTakes /\ TakesOf(s) = 1..Highest(s)
    <2>1. ShotsOf[r.scope] \subseteq Shots
        BY <1>0, ShotsAssumption
    <2>2. eligible \subseteq ShotsOf[r.scope] /\ eligible # {}
        BY <1>1
    <2> QED
        BY <2>1, <2>2, HighestIs DEF Inv
<1>4. \A s \in Shots, n \in Takes :
         <<s, n>> \in new <=> s \in eligible /\ n \in (Highest(s) + 1)..(Highest(s) + r.count)
    <2>1. ASSUME NEW s \in eligible, NEW n \in (Highest(s) + 1)..(Highest(s) + r.count)
          PROVE  <<s, n>> \in new
        <3>1. n - Highest(s) \in 1..r.count /\ n = Highest(s) + (n - Highest(s))
            BY <1>0, <1>3, <2>1
        <3> QED
            BY <2>1, <3>1 DEF NextJobs
    <2>2. ASSUME NEW s \in Shots, NEW n \in Takes, <<s, n>> \in new
          PROVE  s \in eligible /\ n \in (Highest(s) + 1)..(Highest(s) + r.count)
        <3>1. PICK x \in eligible, i \in 1..r.count : <<s, n>> = <<x, Highest(x) + i>>
            BY <2>2 DEF NextJobs
        <3>2. s = x /\ n = Highest(s) + i
            BY <3>1
        <3>3. Highest(s) \in Nat
            BY <1>3
        <3> QED
            BY <1>0, <3>2, <3>3
    <2> QED
        BY <2>1, <2>2
<1>5. \A s \in eligible : Highest(s) + r.count <= MaxTakes
    <2>1. ASSUME NEW s \in eligible PROVE <<s, Highest(s) + r.count>> \in JobIds
        BY <1>0, <1>2 DEF NextJobs
    <2>2. ASSUME NEW s \in eligible PROVE Highest(s) + r.count \in 1..MaxTakes
        BY <2>1 DEF JobIds, Takes
    <2>3. ASSUME NEW s \in eligible PROVE Highest(s) + r.count <= MaxTakes
        BY <1>0, <2>2
    <2> QED
        BY <2>3
<1>6. NewJob(key) \in Job /\ NewJob(key).key = key /\ NewJob(key).status = "pending"
    BY <1>0 DEF NewJob, Job, JobStatus
<1> HIDE DEF new, News, Writes
<1>7. \A j \in JobIds :
         /\ j \in new => ~Exists(j) /\ Exists(j)' /\ job'[j].key = key
         /\ j \notin new => job'[j] = job[j] /\ (Exists(j)' <=> Exists(j))
    <2>1. ASSUME NEW j \in JobIds, j \in new PROVE ~Exists(j)
        <3>1. PICK s \in Shots, n \in Takes : j = <<s, n>>
            BY DEF JobIds
        <3>2. n \notin TakesOf(s)
            BY <1>0, <1>3, <1>4, <2>1, <3>1
        <3> QED
            BY <3>1, <3>2 DEF TakesOf
    <2> QED
        BY <1>2, <1>6, <2>1 DEF Exists
<1>8. Fingerprint(r) \in Batch /\ Fingerprint(r) # None
      /\ Fingerprint(r).scope = r.scope /\ Fingerprint(r).count = r.count
    BY <1>0, BatchAssumption DEF Fingerprint, Batch
<1>9. client' \in [Clients -> ClientState]
      /\ \A d \in Clients : client'[d] = client[d] \/ client'[d] = Idle
    BY States, GotoTyped DEF Inv, WriteBatch
<1>10. TypeOK'
    <2>1. answers' \in [AllKeys -> SUBSET SUBSET JobIds]
        BY <1>0, <1>2 DEF Inv, TypeOK
    <2> QED
        BY <1>0, <1>2, <1>6, <1>8, <1>9, <2>1 DEF Inv, TypeOK
<1>11. ClientsOK' /\ RunningOK'
    <2>1. ASSUME NEW d \in Clients, At(d, "cancel") PROVE client[d].job \in JobIds
        BY <2>1, ClientStates DEF Inv
    <2>2. ClientsOK'
        BY <1>7, <1>9, <2>1, States DEF Inv, ClientsOK, At
    <2>3. RunningOK'
        BY <1>2, <1>7 DEF Inv, TypeOK, RunningOK
    <2> QED
        BY <2>2, <2>3
<1>12. Dense'
    <2> SUFFICES ASSUME NEW s \in Shots PROVE \E n \in 0..MaxTakes : TakesOf(s)' = 1..n
        BY DEF Dense
    <2>1. \A n \in Takes : <<s, n>> \in JobIds
        BY DEF JobIds
    <2>2. TakesOf(s)' = {n \in Takes : n \in TakesOf(s) \/ <<s, n>> \in new}
        BY <1>7, <2>1 DEF TakesOf
    <2>3. CASE s \in eligible
        <3>0. /\ Highest(s) \in Nat /\ Highest(s) + r.count <= MaxTakes
              /\ \A n \in Takes : n \in TakesOf(s) <=> n <= Highest(s)
            BY <1>0, <1>3, <1>5, <2>3 DEF Takes
        <3>1. TakesOf(s)' = 1..(Highest(s) + r.count)
            <4>1. ASSUME NEW n \in Takes
                  PROVE  n \in TakesOf(s)' <=> n <= Highest(s) + r.count
                BY <1>0, <1>4, <2>2, <2>3, <3>0 DEF Takes
            <4> QED
                BY <1>0, <2>2, <3>0, <4>1 DEF Takes
        <3> QED
            BY <1>0, <1>3, <1>5, <2>3, <3>1
    <2>4. CASE s \notin eligible
        <3>1. TakesOf(s)' = 1..Highest(s)
            BY <1>0, <1>3, <1>4, <2>2, <2>4 DEF Takes
        <3> QED
            BY <1>3, <3>1
    <2> QED
        BY <2>3, <2>4
<1>13. \A k \in AllKeys : JobsOf(k)' = IF k = key THEN new ELSE JobsOf(k)
    <2>1. JobsOf(key) = {}
        BY <1>0, <1>2 DEF Inv, BatchesOK
    <2>2. ASSUME NEW k \in AllKeys, NEW j \in JobIds
          PROVE  j \in JobsOf(k)' <=> (IF k = key THEN j \in new ELSE j \in JobsOf(k))
        BY <1>7, <2>1 DEF JobsOf
    <2> QED
        BY <1>2, <2>2 DEF JobsOf
<1>14. \A k \in AllKeys, s \in Shots :
          Numbers(k, s)' = IF k # key THEN Numbers(k, s)
                           ELSE IF s \in eligible
                           THEN (Highest(s) + 1)..(Highest(s) + r.count) ELSE {}
    <2>1. ASSUME NEW k \in AllKeys, NEW s \in Shots, k # key
          PROVE  Numbers(k, s)' = Numbers(k, s)
        BY <1>13, <2>1 DEF Numbers
    <2>2. ASSUME NEW s \in Shots
          PROVE  Numbers(key, s)' = {n \in Takes : <<s, n>> \in new}
        BY <1>0, <1>13 DEF Numbers
    <2>3. ASSUME NEW s \in eligible
          PROVE  (Highest(s) + 1)..(Highest(s) + r.count) \subseteq Takes
        BY <1>0, <1>3, <1>5 DEF Takes
    <2> QED
        BY <1>0, <1>3, <1>4, <2>1, <2>2, <2>3
<1>15. BatchesOK'
    <2>1. \A k \in AllKeys : /\ k # key => batch'[k] = batch[k] /\ answers'[k] = answers[k]
                             /\ batch'[key] = Fingerprint(r)
        BY <1>0, <1>2 DEF Inv, TypeOK
    <2>2. ASSUME NEW k \in AllKeys, k # key PROVE Whole(k) => Whole(k)'
        BY <1>13, <1>14, <2>1, <2>2 DEF Whole
    <2>3. Whole(key)'
        <3>1. JobsOf(key)' # {}
            <4>1. PICK s \in eligible : TRUE
                BY <1>3
            <4>2. <<s, Highest(s) + 1>> \in new
                BY <1>0, <4>1 DEF new, News, NextJobs
            <4> QED
                BY <1>0, <1>13, <4>2
        <3>2. ASSUME NEW s \in Shots, Numbers(key, s)' # {}
              PROVE  /\ s \in ShotsOf[batch'[key].scope]
                     /\ \E n \in Nat : Numbers(key, s)' = (n + 1)..(n + batch'[key].count)
            <4>1. /\ s \in eligible
                  /\ Numbers(key, s)' = (Highest(s) + 1)..(Highest(s) + r.count)
                BY <1>0, <1>14, <3>2
            <4>2. batch'[key].scope = r.scope /\ batch'[key].count = r.count
                BY <1>0, <1>8, <2>1
            <4>3. s \in ShotsOf[r.scope] /\ Highest(s) \in Nat
                BY <1>3, <4>1
            <4> QED
                BY <4>1, <4>2, <4>3
        <3> QED
            BY <3>1, <3>2 DEF Whole
    <2> QED
        BY <1>8, <1>13, <2>1, <2>2, <2>3 DEF Inv, BatchesOK
<1>16. OneAnswer'
    <2>1. answers[key] = {}
        BY <1>0, <1>2 DEF Inv, BatchesOK
    <2>2. ASSUME NEW k \in AllKeys PROVE answers'[k] \subseteq {JobsOf(k)'}
        BY <1>0, <1>2, <1>13, <2>1 DEF Inv, TypeOK, OneAnswer
    <2> QED
        BY <2>2 DEF OneAnswer
<1> QED
    BY <1>10, <1>11, <1>12, <1>15, <1>16 DEF Inv

-----------------------------------------------------------------------------

LEMMA StepInv == Inv /\ [Next]_vars => Inv'
<1> SUFFICES ASSUME Inv, [Next]_vars PROVE Inv'
    OBVIOUS
<1>1. CASE UNCHANGED vars
    BY <1>1 DEF vars, Inv, TypeOK, ClientsOK, RunningOK, Dense, BatchesOK, OneAnswer, Whole,
               Numbers, JobsOf, TakesOf, Exists, At
<1> QED
    BY <1>1, HandlerKeeps, StatusKeeps, WriteKeeps DEF Next

\* The invariant the theorems below follow from.
THEOREM Invariance == Spec => []Inv
BY InitInv, StepInv, PTL DEF Spec

\* Rows of the queue, batches and requests are well typed.
THEOREM TypeCorrect == Spec => []TypeOK
<1>1. Inv => TypeOK
    BY DEF Inv
<1> QED
    BY <1>1, Invariance, PTL

\* The take numbers of a shot are 1, 2, ..., whoever enqueues at a time.
THEOREM NumbersAreDense == Spec => []NumbersDense
<1>1. Inv => NumbersDense
    <2> SUFFICES ASSUME Inv, NEW s \in Shots PROVE TakesOf(s) = 1..Cardinality(TakesOf(s))
        BY DEF NumbersDense
    <2>1. PICK n \in 0..MaxTakes : TakesOf(s) = 1..n
        BY DEF Inv, Dense
    <2>2. Cardinality(1..n) = n
        BY <2>1, CountsAssumption, FS_Interval
    <2> QED
        BY <2>1, <2>2
<1> QED
    BY <1>1, Invariance, PTL

\* A batch is written whole and no other batch takes a row of it over.
THEOREM BatchesAreWhole == Spec => []BatchWhole
<1>1. Inv => BatchWhole
    <2> SUFFICES ASSUME Inv, NEW k \in AllKeys, batch[k] # None, NEW s \in Shots,
                        Numbers(k, s) # {}
                 PROVE  /\ s \in ShotsOf[batch[k].scope]
                        /\ Cardinality(Numbers(k, s)) = batch[k].count
                        /\ Consecutive(Numbers(k, s))
        BY DEF BatchWhole, Inv, BatchesOK, Whole, Numbers
    <2>1. batch[k].count \in Nat
        BY CountsAssumption DEF Inv, TypeOK, Batch
    <2>2. PICK n \in Nat : Numbers(k, s) = (n + 1)..(n + batch[k].count)
        BY DEF Inv, BatchesOK, Whole
    <2>3. Cardinality((n + 1)..(n + batch[k].count)) = batch[k].count
        <3> DEFINE m == n + batch[k].count
        <3>1. n + 1 \in Int /\ m \in Int
            BY <2>1
        <3>2. Cardinality((n + 1)..m) = IF n + 1 > m THEN 0 ELSE m - (n + 1) + 1
            BY <3>1, FS_Interval
        <3> QED
            BY <2>1, <3>2
    <2>4. Consecutive(Numbers(k, s))
        BY <2>1, <2>2 DEF Consecutive
    <2> QED
        BY <2>2, <2>3, <2>4 DEF Inv, BatchesOK, Whole
<1> QED
    BY <1>1, Invariance, PTL

\* Whatever is answered to a key names the jobs of its one batch.
THEOREM AnswersAgree == Spec => []OneAnswer
<1>1. Inv => OneAnswer
    BY DEF Inv
<1> QED
    BY <1>1, Invariance, PTL

-----------------------------------------------------------------------------
(* GenQueue implements EnqueueLedger *)

\* The rows that are there are those a key was given.
KeysOK == \A j \in JobIds : Exists(j) <=> job[j].key # None

\* What a step other than WriteBatch does to the ledger.
Told ==
    \/ UNCHANGED answers
    \/ \E k \in AllKeys : /\ batch[k] # None
                           /\ answers' = [answers EXCEPT ![k] = @ \cup {JobsOf(k)}]

LEMMA KeptOrWritten ==
    ASSUME Inv, [Next]_vars
    PROVE  (Kept /\ Told) \/ \E c \in Clients : WriteBatch(c)
<1>1. CASE UNCHANGED vars
    BY <1>1 DEF vars, Kept, Told, Exists
<1>2. ASSUME NEW c \in Clients,
             \/ EnqueueRequest(c) \/ GenerateRequest(c) \/ ReadSeed(c)
             \/ WriteConflict(c) \/ CancelRequest(c) \/ Drop(c)
      PROVE  Kept /\ Told
    BY <1>2 DEF EnqueueRequest, GenerateRequest, ReadSeed, WriteConflict, CancelRequest, Drop,
                Kept, Told, Exists
<1>3. ASSUME NEW c \in Clients, CheckKey(c) PROVE Kept /\ Told
    <2>1. client[c].req.key \in AllKeys
        BY <1>3, ClientStates DEF Inv, CheckKey, Request
    <2> QED
        BY <1>3, <2>1 DEF CheckKey, Kept, Told, Exists
<1>4. ASSUME NEW c \in Clients, CancelWrite(c) PROVE Kept /\ Told
    <2>1. client[c].job \in JobIds /\ Exists(client[c].job)
        BY <1>4, ClientStates DEF Inv, ClientsOK, CancelWrite
    <2> QED
        BY <1>4, <2>1 DEF CancelWrite, Kept, Told, Exists, Inv, TypeOK, Job
<1>5. ASSUME NEW j \in JobIds, Claim(j) \/ End(j) PROVE Kept /\ Told
    <2>1. Exists(j)
        BY <1>5 DEF Claim, End, Inv, RunningOK, Exists
    <2> QED
        BY <1>5, <2>1 DEF Claim, End, Kept, Told, Exists, Inv, TypeOK, Job
<1> QED
    BY <1>1, <1>2, <1>3, <1>4, <1>5 DEF Next

LEMMA WriteEnters ==
    ASSUME Inv, KeysOK, NEW c \in Clients, WriteBatch(c)
    PROVE  KeysOK' /\ \E k \in AllKeys : Ledger!Enter(k)
<1> SUFFICES ASSUME NEW r, r = client[c].req, NEW k, k = r.key
             PROVE  KeysOK' /\ k \in AllKeys /\ Ledger!Enter(k)
    OBVIOUS
<1>1. r \in Request /\ k \in AllKeys /\ r.scope \in Scopes /\ r.count \in Counts
    BY ClientStates DEF Inv, WriteBatch, Request
<1>2. PICK S \in (SUBSET ShotsOf[r.scope]) \ {{}} :
         /\ NextJobs(S, r.count) \subseteq JobIds
         /\ job' = [j \in JobIds |-> IF j \in NextJobs(S, r.count) THEN NewJob(k) ELSE job[j]]
         /\ answers' = [answers EXCEPT ![k] = @ \cup {NextJobs(S, r.count)}]
    BY DEF WriteBatch
<1>3. batch[k] = None /\ JobsOf(k) = {} /\ answers[k] = {}
    BY <1>1 DEF WriteBatch, KeyFree, Inv, BatchesOK
<1>4. S \in (SUBSET Shots) \ {{}}
    BY <1>1, <1>2, ShotsAssumption
<1>5. k # None /\ NewJob(k).key = k /\ NewJob(k).status = "pending"
    BY <1>1, NoneAssumption DEF AllKeys, NewJob
<1>6. Ledger!Entry(k) = {}
    <2>1. ASSUME NEW j \in JobIds, job[j].key = k PROVE FALSE
        BY <1>3, <1>5, <2>1 DEF KeysOK, JobsOf
    <2> QED
        BY <2>1 DEF Ledger!Entry, JobIds
<1>7. \A s \in Shots : Ledger!Given(s) = 1..Highest(s) /\ Highest(s) \in {0} \cup Takes
    <2> SUFFICES ASSUME NEW s \in Shots
                 PROVE  Ledger!Given(s) = 1..Highest(s) /\ Highest(s) \in {0} \cup Takes
        OBVIOUS
    <2>1. Ledger!Given(s) = TakesOf(s)
        BY DEF Ledger!Given, TakesOf, KeysOK, JobIds
    <2>2. TakesOf(s) = 1..Highest(s) /\ Highest(s) \in 0..MaxTakes
        BY HighestIs DEF Inv
    <2> QED
        BY <2>1, <2>2, CountsAssumption DEF Takes
<1> SUFFICES ASSUME NEW last, last = [s \in S |-> Highest(s)]
             PROVE  KeysOK' /\ k \in AllKeys /\ Ledger!Enter(k)
    OBVIOUS
<1>8. Ledger!Numbered(S, last, r.count) = NextJobs(S, r.count)
    BY DEF Ledger!Numbered, NextJobs
<1> SUFFICES ASSUME NEW N, N = NextJobs(S, r.count)
             PROVE  KeysOK' /\ k \in AllKeys /\ Ledger!Enter(k)
    OBVIOUS
<1>9. answers' = [answers EXCEPT ![k] = {N}]
    BY <1>2, <1>3
<1>10. \A j \in JobIds : job'[j].key = IF j \in N THEN k ELSE job[j].key
    BY <1>2, <1>5
<1>11. Ledger!Enter(k)
    <2>1. [j \in JobIds |-> job[j].key]' =
          [j \in Shots \X Takes |-> IF j \in N THEN k ELSE [i \in JobIds |-> job[i].key][j]]
        BY <1>10 DEF JobIds
    <2>2. N \subseteq Shots \X Takes
        BY <1>2 DEF JobIds
    <2>3. N = Ledger!Numbered(S, last, r.count)
        BY <1>8
    <2>4. last \in [S -> {0} \cup Takes] /\ \A s \in S : Ledger!Given(s) = 1..last[s]
        BY <1>4, <1>7
    <2>5. /\ \A s \in S : Ledger!Given(s) = 1..last[s]
          /\ Ledger!Numbered(S, last, r.count) \subseteq Shots \X Takes
          /\ answers' = [answers EXCEPT ![k] = {Ledger!Numbered(S, last, r.count)}]
          /\ [j \in JobIds |-> job[j].key]' =
             [j \in Shots \X Takes |-> IF j \in Ledger!Numbered(S, last, r.count) THEN k
                                       ELSE [i \in JobIds |-> job[i].key][j]]
        BY <1>9, <2>1, <2>2, <2>3, <2>4
    <2>6. \E n \in Counts :
          \E f \in [S -> {0} \cup Takes] :
             /\ \A s \in S : Ledger!Given(s) = 1..f[s]
             /\ Ledger!Numbered(S, f, n) \subseteq Shots \X Takes
             /\ answers' = [answers EXCEPT ![k] = {Ledger!Numbered(S, f, n)}]
             /\ [j \in JobIds |-> job[j].key]' =
                [j \in Shots \X Takes |-> IF j \in Ledger!Numbered(S, f, n) THEN k
                                          ELSE [i \in JobIds |-> job[i].key][j]]
        <3>1. r.count \in Counts /\ last \in [S -> {0} \cup Takes]
            BY <1>1, <2>4
        <3> USE <3>1
        <3> WITNESS r.count \in Counts
        <3> WITNESS last \in [S -> {0} \cup Takes]
        <3> QED
            BY <2>5
    <2> QED
        BY <1>4, <1>6, <2>6 DEF Ledger!Enter
<1>12. KeysOK'
    BY <1>2, <1>5 DEF KeysOK, Exists
<1> QED
    BY <1>1, <1>11, <1>12

\* Overlapping requests have the effect of one enqueue at a time.
THEOREM ImplementsLedger == Spec => LedgerSpec
<1>1. Init => KeysOK /\ Ledger!Init
    BY DEF Init, KeysOK, Exists, NoJob, Ledger!Init, JobIds
<1>2. Inv /\ KeysOK /\ [Next]_vars => KeysOK' /\ [Ledger!Next]_(Ledger!vars)
    <2> SUFFICES ASSUME Inv, KeysOK, [Next]_vars PROVE KeysOK' /\ [Ledger!Next]_(Ledger!vars)
        OBVIOUS
    <2>1. CASE Kept /\ Told
        <3>1. KeysOK'
            BY <2>1 DEF KeysOK, Kept
        <3>2. UNCHANGED [j \in JobIds |-> job[j].key]
            BY <2>1 DEF Kept
        <3>3. CASE UNCHANGED answers
            BY <3>1, <3>2, <3>3 DEF Ledger!vars
        <3>4. ASSUME NEW k \in AllKeys, batch[k] # None,
                     answers' = [answers EXCEPT ![k] = @ \cup {JobsOf(k)}]
              PROVE  Ledger!Tell(k)
            <4>1. k # None
                BY NoneAssumption DEF AllKeys
            <4>2. Ledger!Entry(k) = JobsOf(k)
                BY <4>1 DEF Ledger!Entry, JobsOf, KeysOK, JobIds
            <4>3. JobsOf(k) # {}
                BY <3>4 DEF Inv, BatchesOK, Whole
            <4> QED
                BY <3>2, <3>4, <4>2, <4>3 DEF Ledger!Tell
        <3> QED
            BY <2>1, <3>1, <3>3, <3>4 DEF Told, Ledger!Next
    <2>2. CASE \E c \in Clients : WriteBatch(c)
        BY <2>2, WriteEnters DEF Ledger!Next
    <2> QED
        BY <2>1, <2>2, KeptOrWritten
<1> QED
    BY <1>1, <1>2, Invariance, PTL DEF Spec, LedgerSpec, Ledger!Spec

-----------------------------------------------------------------------------
(* One request at a time *)

ActiveUi(j) == job[j].key \in UiKeys /\ job[j].status \in Active

OneActive ==
    \A s \in Shots : \A m, n \in Takes : ActiveUi(<<s, m>>) /\ ActiveUi(<<s, n>>) => m = n

\* What /generate has checked is still so while its request is handled.
Checked(c) ==
    client[c].pc \in {"seed", "key", "write"} /\ client[c].req.key \in UiKeys =>
        /\ client[c].req.count = 1
        /\ \E s \in Shots : /\ ShotsOf[client[c].req.scope] = {s}
                            /\ \A n \in Takes : job[<<s, n>>].status \notin Active

AloneInv == OneActive /\ \A c \in Clients : Checked(c)

\* Only WriteBatch makes a job active.
NoneWakes == \A j \in JobIds : job'[j].status \in Active =>
                 job[j].status \in Active /\ job'[j].key = job[j].key

LEMMA Wakes ==
    ASSUME Inv, [Next]_vars PROVE NoneWakes \/ \E c \in Clients : WriteBatch(c)
<1>1. CASE job' = job
    BY <1>1 DEF NoneWakes
<1>2. ASSUME NEW c \in Clients, CancelWrite(c) PROVE NoneWakes
    BY <1>2, ClientStates DEF CancelWrite, NoneWakes, Active, Inv, TypeOK, Job
<1>3. ASSUME NEW j \in JobIds, Claim(j) \/ End(j) PROVE NoneWakes
    BY <1>3 DEF Claim, End, NoneWakes, Active, Inv, TypeOK, Job
<1> QED
    BY <1>1, <1>2, <1>3
       DEF Next, vars, EnqueueRequest, GenerateRequest, ReadSeed, CheckKey, WriteConflict,
           CancelRequest, Drop

LEMMA WriteAlone ==
    ASSUME Inv, AloneInv, NEW c \in Clients, WriteBatch(c) PROVE OneActive'
<1> SUFFICES ASSUME NEW r, r = client[c].req PROVE OneActive'
    OBVIOUS
<1>1. r \in Request /\ client[c].pc = "write" /\ r.scope \in Scopes
    BY ClientStates DEF Inv, WriteBatch, At, Request
<1>2. PICK S \in (SUBSET ShotsOf[r.scope]) \ {{}} :
         /\ NextJobs(S, r.count) \subseteq JobIds
         /\ job' = [j \in JobIds |-> IF j \in NextJobs(S, r.count) THEN NewJob(r.key) ELSE job[j]]
    BY DEF WriteBatch
<1>3. CASE r.key \notin UiKeys
    <2>1. \A j \in JobIds : ActiveUi(j)' => ActiveUi(j)
        BY <1>2, <1>3 DEF ActiveUi, NewJob
    <2> QED
        BY <2>1 DEF AloneInv, OneActive, JobIds
<1>4. CASE r.key \in UiKeys
    <2>1. PICK s \in Shots : /\ r.count = 1 /\ ShotsOf[r.scope] = {s}
                             /\ \A n \in Takes : job[<<s, n>>].status \notin Active
        BY <1>1, <1>4 DEF AloneInv, Checked
    <2>2. \A j \in NextJobs(S, r.count) : j = <<s, Highest(s) + 1>>
        BY <1>2, <2>1 DEF NextJobs
    <2>3. \A n \in Takes : ActiveUi(<<s, n>>)' => n = Highest(s) + 1
        BY <1>2, <2>1, <2>2 DEF ActiveUi, JobIds
    <2>4. \A x \in Shots, n \in Takes : x # s /\ ActiveUi(<<x, n>>)' => ActiveUi(<<x, n>>)
        BY <1>2, <2>2 DEF ActiveUi, JobIds
    <2> QED
        BY <2>3, <2>4 DEF AloneInv, OneActive
<1> QED
    BY <1>3, <1>4

LEMMA StepAlone ==
    ASSUME \A c, d \in Clients : c = d, Inv, AloneInv, [Next]_vars PROVE AloneInv'
<1>1. OneActive'
    <2>1. CASE NoneWakes
        <3>1. \A j \in JobIds : ActiveUi(j)' => ActiveUi(j)
            BY <2>1 DEF NoneWakes, ActiveUi
        <3> QED
            BY <3>1 DEF AloneInv, OneActive, JobIds
    <2> QED
        BY <2>1, Wakes, WriteAlone
<1>2. ASSUME NEW c \in Clients, client'[c].pc \in {"seed", "key", "write"},
             client'[c].req.key \in UiKeys
      PROVE  /\ client'[c].req.count = 1
             /\ \E s \in Shots : /\ ShotsOf[client'[c].req.scope] = {s}
                                 /\ \A n \in Takes : job'[<<s, n>>].status \notin Active
    <2>1. ASSUME client[c].pc \in {"seed", "key", "write"}, client'[c].req.key = client[c].req.key,
                 client'[c].req.count = client[c].req.count,
                 client'[c].req.scope = client[c].req.scope, NoneWakes
          PROVE  /\ client'[c].req.count = 1
                 /\ \E s \in Shots : /\ ShotsOf[client'[c].req.scope] = {s}
                                     /\ \A n \in Takes : job'[<<s, n>>].status \notin Active
        <3>1. PICK s \in Shots : /\ client[c].req.count = 1
                                 /\ ShotsOf[client[c].req.scope] = {s}
                                 /\ \A n \in Takes : job[<<s, n>>].status \notin Active
            BY <1>2, <2>1 DEF AloneInv, Checked
        <3>2. \A n \in Takes : job'[<<s, n>>].status \notin Active
            BY <2>1, <3>1 DEF NoneWakes, JobIds
        <3> QED
            BY <2>1, <3>1, <3>2
    <2>2. CASE client' = client
        <3>1. NoneWakes
            BY <1>2, <2>2, Wakes DEF WriteBatch, Goto, Idle, Inv, TypeOK, At
        <3> QED
            BY <1>2, <2>1, <2>2, <3>1
    <2>3. CASE EnqueueRequest(c)
        <3>1. \E r \in Request : r.key \in Keys /\ client'[c].req = r
            BY <2>3 DEF EnqueueRequest, Handle, Goto, Inv, TypeOK
        <3> QED
            BY <1>2, <3>1, KeysAssumption
    <2>4. CASE GenerateRequest(c)
        <3>1. PICK sc \in Scopes, k \in UiKeys, sd \in Seeds \cup {None} :
                 /\ \E s \in Shots : ShotsOf[sc] = {s} /\ ~HasActiveJobs(s)
                 /\ Handle(c, [key |-> k, scope |-> sc, count |-> 1, seed |-> sd])
            BY <2>4 DEF GenerateRequest
        <3>2. client'[c].req = [key |-> k, scope |-> sc, count |-> 1, seed |-> sd]
            BY <3>1 DEF Handle, Goto, Inv, TypeOK
        <3>3. job' = job
            BY <2>4 DEF GenerateRequest
        <3> QED
            BY <3>1, <3>2, <3>3 DEF HasActiveJobs
    <2>5. CASE ReadSeed(c)
        <3>1. PICK sd : Goto(c, [pc |-> "key", req |-> [client[c].req EXCEPT !.seed = sd]])
            BY <2>5 DEF ReadSeed
        <3>2. client[c].pc = "seed" /\ client[c].req \in Request
            BY <2>5, ClientStates DEF ReadSeed, At, Inv
        <3>3. client'[c].req = [client[c].req EXCEPT !.seed = sd]
            BY <3>1 DEF Goto, Inv, TypeOK
        <3>4. NoneWakes
            BY <2>5 DEF ReadSeed, NoneWakes
        <3> QED
            BY <2>1, <3>2, <3>3, <3>4 DEF Request
    <2>6. CASE CheckKey(c)
        <3>1. client'[c] = [client[c] EXCEPT !.pc = "write"]
            BY <1>2, <2>6 DEF CheckKey, Goto, Idle, Inv, TypeOK
        <3>2. client[c].pc = "key" /\ client[c] = [pc |-> client[c].pc, req |-> client[c].req]
            BY <2>6, ClientStates DEF CheckKey, At, Inv
        <3>3. client'[c].req = client[c].req
            BY <3>1, <3>2
        <3>4. NoneWakes
            BY <2>6 DEF CheckKey, NoneWakes
        <3> QED
            BY <2>1, <3>2, <3>3, <3>4
    <2>7. CASE WriteBatch(c) \/ WriteConflict(c) \/ CancelWrite(c) \/ Drop(c)
        BY <1>2, <2>7 DEF WriteBatch, WriteConflict, CancelWrite, Drop, Goto, Idle, Inv, TypeOK
    <2>8. CASE CancelRequest(c)
        BY <1>2, <2>8 DEF CancelRequest, Goto, Inv, TypeOK
    <2> QED
        BY <2>2, <2>3, <2>4, <2>5, <2>6, <2>7, <2>8 DEF Next, vars, Claim, End
<1> QED
    BY <1>1, <1>2 DEF AloneInv, Checked

\* The check of /generate fails to protect only because requests overlap: where
\* they are handled one at a time, whatever the worker and the cancellations do
\* meanwhile, a shot never has two of its jobs active.
THEOREM AloneIsProtected ==
    ASSUME \A c, d \in Clients : c = d
    PROVE  Spec => []DuplicateProtection
<1>1. Init => AloneInv
    BY DEF Init, AloneInv, OneActive, ActiveUi, Checked, NoJob, Idle, Active, JobIds
<1>2. Inv /\ AloneInv /\ [Next]_vars => AloneInv'
    BY StepAlone
<1>3. AloneInv => DuplicateProtection
    <2> SUFFICES ASSUME AloneInv, NEW s \in Shots
                 PROVE  Cardinality({n \in Takes : ActiveUi(<<s, n>>)}) <= 1
        BY DEF DuplicateProtection, ActiveUi
    <2> SUFFICES ASSUME NEW U, U = {n \in Takes : ActiveUi(<<s, n>>)} PROVE Cardinality(U) <= 1
        OBVIOUS
    <2>1. CASE U = {}
        <3>1. Cardinality(U) = 0
            BY <2>1, FS_EmptySet
        <3> QED
            BY <3>1
    <2>2. CASE \E n : U = {n}
        <3>1. Cardinality(U) = 1
            BY <2>2, FS_Singleton
        <3> QED
            BY <3>1
    <2> QED
        BY <2>1, <2>2 DEF AloneInv, OneActive
<1> QED
    BY <1>1, <1>2, <1>3, Invariance, PTL DEF Spec

=============================================================================
