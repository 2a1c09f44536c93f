--------------------------- MODULE JobQueueProofs ---------------------------
(***************************************************************************)
(* Proofs about JobQueue, for every number of workers, keys and jobs.      *)
(***************************************************************************)
EXTENDS JobQueue, TLAPS

(***************************************************************************)
(* The inductive invariant.  A worker holds a job exactly while it handles *)
(* it; a row is locked by one claim at most, and stays active as long; a   *)
(* row owned by a worker that still holds the job was claimed by nobody    *)
(* since; a job never claimed is ready from the start, so a claim whose    *)
(* worker has not been notified sees every such job, and comes back empty  *)
(* only when other claims have them locked.                                *)
(***************************************************************************)
Working == {"handle", "finish"}

Holding == \A w \in Workers :
    /\ pc[w] \in Working => task[w].job \in Ids /\ task[w].attempts > 0
    /\ pc[w] \notin Working => task[w].job = NoJob

Locking == \A w \in Workers :
    /\ claim[w].job # NoJob => pc[w] = "claim"
    /\ \A i \in Ids : claim[w].job = i => /\ jobs[i].status \in Active
                                         /\ \A v \in Workers : claim[v].job = i => v = w

Fenced == \A w \in Workers, i \in Ids :
    Owns(w, i) /\ task[w].job = i => task[w].latest

CountedOnce == \A i \in Ids :
    /\ jobs[i].status = "running" => jobs[i].attempts > 0
    /\ Fresh(i) => jobs[i].due <= 0

\* A worker cut off from LISTEN knows it.
Heard == \A w \in Workers : pc[w] \notin {"top", "pause"} /\ ~listening[w] => wakeup[w]

Seen == \A w \in Workers :
    pc[w] = "claim" /\ claim[w].job = NoJob /\ ~wakeup[w]
        => \A i \in Ids : Fresh(i) => i \in claim[w].sees

Woken == \A w \in Workers, i \in Ids :
    ~Awake(w) /\ Fresh(i) => Locked(i) \/ (i \in rolledBack /\ \E v \in Workers : Awake(v))

IInv ==
    /\ TypeOK
    /\ Holding
    /\ Locking
    /\ Fenced
    /\ CountedOnce
    /\ Heard
    /\ Seen
    /\ Woken
    /\ ActiveKeysUnique

---------------------------------------------------------------------------
(* Operators.                                                              *)

\* The delay before a retry (backoff) is a positive number of ticks within the type.
LEMMA BackoffBounded ==
    ASSUME NEW n \in 1 .. AttemptCap, NEW d \in Backoff(n)
    PROVE  d \in 0 .. MaxDelay
<1>1. /\ AttemptCap \in Nat /\ BackoffCap \in Nat \ {0} /\ BackoffBase \in Nat \ {0}
      /\ n - 1 \in 0 .. AttemptCap
  BY AttemptsAssumption, TimesAssumption
<1>2. 2 ^ (n - 1) \in Int /\ 2 ^ (n - 1) > 0
  BY <1>1, PowersAssumption
<1>3. \A p \in Int : p > 0 => BackoffBase * p \in Int /\ BackoffBase * p > 0
  BY <1>1
<1>4. Nominal(n) \in 0 .. BackoffCap
  BY <1>1, <1>2, <1>3 DEF Nominal
<1>5. \A m \in 0 .. BackoffCap : m .. (5 * m) \div 4 \subseteq 0 .. (5 * BackoffCap) \div 4
  BY <1>1
<1> QED
  BY <1>4, <1>5 DEF Backoff, MaxDelay

\* A claim's counting of attempts stays within the cap of the model.
LEMMA CountedInRange ==
    ASSUME NEW n \in 0 .. AttemptCap
    PROVE  Counted(n) \in 1 .. AttemptCap
BY AttemptsAssumption DEF Counted

\* The outcome written for a job keeps its key, ends its run and is of the right
\* type.
LEMMA OutcomesOfRunning ==
    ASSUME NEW r \in Row, NEW t \in Task, t.attempts > 0, NEW o \in Outcomes(r, t)
    PROVE  /\ o \in Row
           /\ o.key = r.key /\ o.attempts = r.attempts /\ o.status # "running"
           /\ o.status = IF t.decision = "retry" THEN "pending" ELSE t.decision
           /\ o.status \in {"pending", "done", "dead", "failed"}
<1>1. CASE t.decision = "retry"
  <2>1. PICK d \in Backoff(t.attempts) :
            o = [r EXCEPT !.status = "pending", !.owner = NoWorker, !.held = 0, !.due = d]
    BY <1>1 DEF Outcomes
  <2>2. t.attempts \in 1 .. AttemptCap
    BY AttemptsAssumption DEF Task
  <2>3. d \in 0 .. MaxDelay
    BY <2>2, BackoffBounded
  <2>4. d \in -OldAge .. MaxDelay
    BY <2>3, TimesAssumption DEF MaxDelay
  <2>5. o = [status |-> "pending", key |-> r.key, due |-> d, attempts |-> r.attempts,
             owner |-> NoWorker, held |-> 0]
    BY <2>1 DEF Row
  <2>6. 0 \in 0 .. Lease + 1
    BY TimesAssumption
  <2> QED
    BY <1>1, <2>4, <2>5, <2>6 DEF Row, Active
<1>2. CASE t.decision # "retry"
  <2>1. o = [r EXCEPT !.status = t.decision, !.owner = NoWorker, !.held = 0]
    BY <1>2 DEF Outcomes
  <2>2. o = [status |-> t.decision, key |-> r.key, due |-> r.due, attempts |-> r.attempts,
             owner |-> NoWorker, held |-> 0]
    BY <2>1 DEF Row
  <2>3. t.decision \in {"done", "dead", "failed"}
    BY <1>2 DEF Task, Decisions
  <2>4. 0 \in 0 .. Lease + 1
    BY TimesAssumption
  <2> QED
    BY <1>2, <2>2, <2>3, <2>4 DEF Row, Terminal
<1> QED
  BY <1>1, <1>2

---------------------------------------------------------------------------
(* How a step changes a row: it is left to the clock, enqueued, claimed, or  *)
(* ended by the worker that owns it.                                       *)

Aged(i) ==
    /\ \A f \in {"status", "key", "attempts", "owner"} : jobs'[i][f] = jobs[i][f]
    /\ jobs'[i].due <= jobs[i].due
    /\ jobs[i].status \notin Active => jobs'[i] = jobs[i]

Enqueued(i) ==
    /\ NextId(i)
    /\ ~ActiveKey(jobs'[i].key)
    /\ jobs'[i] = [Absent(jobs'[i].key) EXCEPT !.status = "pending"]

Claimed(i) ==
    /\ jobs[i].status \in Active
    /\ jobs'[i].status = "running"
    /\ jobs'[i].key = jobs[i].key
    /\ jobs'[i].attempts > 0

SettledBy(w, i) ==
    /\ pc[w] = "finish" /\ task[w].job = i /\ Owns(w, i) /\ ~Locked(i)
    /\ jobs'[i].key = jobs[i].key
    /\ jobs'[i].attempts = jobs[i].attempts
    /\ jobs'[i].status = IF task[w].decision = "retry" THEN "pending" ELSE task[w].decision
    /\ jobs'[i].status \in {"pending", "done", "dead", "failed"}

Settled(i) == \E w \in Workers : SettledBy(w, i)

\* A tick of the database clock ages the rows and changes nothing else of them.
LEMMA TickAges ==
    ASSUME TypeOK, Tick
    PROVE  jobs' \in [Ids -> Row] /\ \A i \in Ids : Aged(i)
<1> SUFFICES ASSUME NEW i \in Ids PROVE jobs'[i] \in Row /\ Aged(i)
  BY DEF Tick
<1>1. jobs[i] \in Row
  BY DEF TypeOK
<1> DEFINE due == IF jobs[i].status \in Active /\ jobs[i].due > -OldAge
                  THEN jobs[i].due - 1 ELSE jobs[i].due
           held == IF jobs[i].status = "running" /\ jobs[i].held <= Lease
                   THEN jobs[i].held + 1 ELSE jobs[i].held
<1>2. jobs'[i] = [jobs[i] EXCEPT !.due = due, !.held = held]
  BY DEF Tick
<1>3. jobs'[i] = [status |-> jobs[i].status, key |-> jobs[i].key, due |-> due,
                  attempts |-> jobs[i].attempts, owner |-> jobs[i].owner, held |-> held]
  BY <1>1, <1>2 DEF Row
<1>4. due \in -OldAge .. MaxDelay /\ due <= jobs[i].due
  BY <1>1, TimesAssumption DEF Row, MaxDelay
<1>5. held \in 0 .. Lease + 1
  BY <1>1, TimesAssumption DEF Row
<1>6. jobs[i].status \notin Active => jobs'[i] = jobs[i]
  BY <1>1, <1>3 DEF Row, Active
<1> HIDE DEF due, held
<1>7. jobs'[i] \in Row
  BY <1>1, <1>3, <1>4, <1>5 DEF Row
<1> QED
  BY <1>3, <1>4, <1>6, <1>7 DEF Aged

\* enqueue adds one pending row, due at once, under a key no active row has.
LEMMA EnqueueInserts ==
    ASSUME TypeOK, NEW k \in Keys, Enqueue(k)
    PROVE  jobs' \in [Ids -> Row] /\ \A i \in Ids : jobs'[i] = jobs[i] \/ Enqueued(i)
<1>1. PICK n \in Ids : /\ NextId(n) /\ ~ActiveKey(k)
                       /\ jobs' = [jobs EXCEPT ![n] = [Absent(k) EXCEPT !.status = "pending"]]
  BY DEF Enqueue
<1>2. [Absent(k) EXCEPT !.status = "pending"] =
         [status |-> "pending", key |-> k, due |-> 0, attempts |-> 0,
          owner |-> NoWorker, held |-> 0]
  BY DEF Absent
<1>3. MaxDelay \in Nat
  BY TimesAssumption DEF MaxDelay
<1>4. 0 \in -OldAge .. MaxDelay /\ 0 \in 0 .. Lease + 1 /\ 0 \in 0 .. AttemptCap
  BY <1>3, TimesAssumption, AttemptsAssumption
<1>5. [Absent(k) EXCEPT !.status = "pending"] \in Row
  BY <1>2, <1>4 DEF Row, Active
<1>6. jobs' \in [Ids -> Row]
  BY <1>1, <1>5 DEF TypeOK
<1>7. jobs'[n] = [Absent(k) EXCEPT !.status = "pending"] /\ jobs'[n].key = k
  BY <1>1, <1>2 DEF TypeOK
<1>8. Enqueued(n)
  BY <1>1, <1>7 DEF Enqueued, NextId
<1> QED
  BY <1>1, <1>6, <1>8 DEF TypeOK

\* CLAIM_SQL makes one ready row running for its worker and leaves the others alone.
LEMMA TakeJobClaims ==
    ASSUME TypeOK, Locking, NEW w \in Workers, NEW n \in Ids, TakeJob(w, n)
    PROVE  /\ jobs' \in [Ids -> Row]
           /\ Claimed(n) /\ jobs'[n].owner = w
           /\ jobs'[n].attempts = Counted(jobs[n].attempts)
           /\ \A i \in Ids \ {n} : jobs'[i] = jobs[i]
<1>1. jobs[n] \in Row
  BY DEF TypeOK
<1>2. jobs'[n] = [jobs[n] EXCEPT !.status = "running", !.owner = w, !.held = claim[w].age,
                                 !.attempts = Counted(jobs[n].attempts)]
  BY DEF TakeJob, TypeOK
<1>3. jobs'[n] = [status |-> "running", key |-> jobs[n].key, due |-> jobs[n].due,
                  attempts |-> Counted(jobs[n].attempts), owner |-> w, held |-> claim[w].age]
  BY <1>1, <1>2 DEF Row
<1>4. Counted(jobs[n].attempts) \in 1 .. AttemptCap
  BY <1>1, CountedInRange DEF Row
<1>5. claim[w].age \in 0 .. Lease + 1 /\ Counted(jobs[n].attempts) \in 0 .. AttemptCap
  BY <1>4 DEF TypeOK, OpenClaim
<1>6. jobs'[n] \in Row
  BY <1>1, <1>3, <1>5 DEF Row, Active
<1>7. \A i \in Ids \ {n} : jobs'[i] = jobs[i]
  BY DEF TakeJob, TypeOK
<1>8. jobs' \in [Ids -> Row]
  BY <1>6, <1>7 DEF TakeJob, TypeOK
<1>9. Claimed(n)
  BY <1>3, <1>4 DEF Claimed, Locking, TakeJob
<1> QED
  BY <1>3, <1>7, <1>8, <1>9

\* An outcome changes at most the row its worker owns, and takes it out of running.
LEMMA WriteOutcomeSettles ==
    ASSUME TypeOK, Holding, Locking, NEW w \in Workers, pc[w] = "finish", WriteOutcome(w)
    PROVE  jobs' \in [Ids -> Row] /\ \A i \in Ids : jobs'[i] = jobs[i] \/ SettledBy(w, i)
<1>1. task[w] \in Task /\ task[w].attempts > 0 /\ task[w].job \in Ids
  BY DEF TypeOK, Holding, Working
<1>2. CASE ~Owns(w, task[w].job)
  BY <1>2 DEF WriteOutcome, TypeOK
<1>3. CASE Owns(w, task[w].job)
  <2> DEFINE n == task[w].job
  <2>1. PICK o \in Outcomes(jobs[n], task[w]) : jobs' = [jobs EXCEPT ![n] = o]
    BY <1>3 DEF WriteOutcome
  <2>1a. ~Locked(n)
    BY <1>3 DEF WriteOutcome
  <2>2. jobs[n] \in Row
    BY <1>1 DEF TypeOK
  <2>3. /\ o \in Row /\ o.key = jobs[n].key /\ o.attempts = jobs[n].attempts
        /\ o.status = IF task[w].decision = "retry" THEN "pending" ELSE task[w].decision
        /\ o.status \in {"pending", "done", "dead", "failed"}
    BY <1>1, <2>2, OutcomesOfRunning
  <2>4. jobs'[n] = o
    BY <1>1, <2>1 DEF TypeOK
  <2>5. SettledBy(w, n)
    BY <1>3, <2>1a, <2>3, <2>4 DEF SettledBy
  <2> QED
    BY <2>1, <2>3, <2>5 DEF TypeOK
<1> QED
  BY <1>2, <1>3

\* A step that leaves the table alone is the ageing by no time.
LEMMA UnchangedAges ==
    ASSUME TypeOK, jobs' = jobs
    PROVE  jobs' \in [Ids -> Row] /\ \A i \in Ids : Aged(i)
<1>1. \A i \in Ids : jobs[i] \in Row
  BY DEF TypeOK
<1>2. \A i \in Ids : jobs[i].due \in Int
  BY <1>1, TimesAssumption DEF Row, MaxDelay
<1> QED
  BY <1>2 DEF Aged, TypeOK

\* What a step of a worker or a fault of it can do to the table: a claim, an outcome,
\* or nothing.
LEMMA WorkerRows ==
    ASSUME TypeOK, Holding, Locking, NEW w \in Workers, WorkerStep(w) \/ Fault(w)
    PROVE  jobs' \in [Ids -> Row] /\ \A i \in Ids : Aged(i) \/ Claimed(i) \/ Settled(i)
<1>1. CASE jobs' = jobs
  BY <1>1, UnchangedAges
<1>2. CASE \E n \in Ids : TakeJob(w, n)
  <2>1. PICK n \in Ids : TakeJob(w, n)
    BY <1>2
  <2>2. /\ jobs' \in [Ids -> Row] /\ Claimed(n)
        /\ \A i \in Ids \ {n} : jobs'[i] = jobs[i]
    BY <2>1, TakeJobClaims
  <2>3. \A i \in Ids : jobs[i].due \in Int
    BY TimesAssumption DEF TypeOK, Row, MaxDelay
  <2>4. \A i \in Ids \ {n} : Aged(i)
    BY <2>2, <2>3 DEF Aged
  <2> QED
    BY <2>2, <2>4
<1>3. CASE pc[w] = "finish" /\ WriteOutcome(w)
  <2>1. jobs' \in [Ids -> Row] /\ \A i \in Ids : jobs'[i] = jobs[i] \/ Settled(i)
    BY <1>3, WriteOutcomeSettles DEF Settled
  <2>2. \A i \in Ids : jobs[i].due \in Int
    BY TimesAssumption DEF TypeOK, Row, MaxDelay
  <2>3. \A i \in Ids : jobs'[i] = jobs[i] => Aged(i)
    BY <2>2 DEF Aged
  <2> QED
    BY <2>1, <2>3
<1> QED
  BY <1>1, <1>2, <1>3
  DEF WorkerStep, Fault, ClaimBegins, LockRow, Claim, ClaimNothing, HandlerEnds, Finish, LoopTop,
      WaitBegins, WaitEnds,
      ClaimLost, ClaimFails, FinishFails, ListenFails, ListenerDrops, Crash

\* What any step can do to the rows: insert one, claim one, settle one, age them all.
LEMMA RowsStep ==
    ASSUME TypeOK, Holding, Locking, [Next]_vars
    PROVE  /\ jobs' \in [Ids -> Row]
           /\ \A i \in Ids : Aged(i) \/ Enqueued(i) \/ Claimed(i) \/ Settled(i)
<1>1. CASE \E k \in Keys : Enqueue(k)
  <2>1. \A i \in Ids : jobs[i].due \in Int
    BY TimesAssumption DEF TypeOK, Row, MaxDelay
  <2>2. \A i \in Ids : jobs'[i] = jobs[i] => Aged(i)
    BY <2>1 DEF Aged
  <2> QED
    BY <1>1, <2>2, EnqueueInserts
<1>2. CASE \E w \in Workers : WorkerStep(w) \/ Fault(w)
  BY <1>2, WorkerRows
<1>3. CASE Tick
  BY <1>3, TickAges
<1>4. CASE UNCHANGED vars
  BY <1>4, UnchangedAges DEF vars
<1> QED
  BY <1>1, <1>2, <1>3, <1>4 DEF Next

---------------------------------------------------------------------------
(* The parts of the invariant.                                             *)

\* An empty queue with its workers at the top of their loops satisfies the invariant.
LEMMA InitIInv == Init => IInv
<1> SUFFICES ASSUME Init PROVE IInv
  OBVIOUS
<1>1. PICK k \in Keys : jobs = [i \in Ids |-> Absent(k)]
  BY DEF Init
<1>2. MaxDelay \in Nat
  BY TimesAssumption DEF MaxDelay
<1>3. 0 \in -OldAge .. MaxDelay /\ 0 \in 0 .. Lease + 1 /\ 0 \in 0 .. AttemptCap
  BY <1>2, TimesAssumption, AttemptsAssumption
<1>4. Absent(k) \in Row /\ Absent(k).status = "absent"
  BY <1>3 DEF Absent, Row
<1>5. Idle \in Task
  BY <1>3 DEF Idle, Task, Decisions
<1>6. NoClaim \in OpenClaim
  BY <1>3 DEF NoClaim, OpenClaim
<1>6a. TypeOK
  BY <1>1, <1>4, <1>5, <1>6 DEF Init, TypeOK
<1>7. \A i \in Ids : jobs[i].status = "absent"
  BY <1>1, <1>4
<1>8. Holding
  BY DEF Init, Holding, Working, Idle
<1>9. Fenced /\ CountedOnce /\ Seen /\ Woken /\ ActiveKeysUnique
  BY <1>7 DEF Fenced, Owns, CountedOnce, Fresh, Seen, Woken, ActiveKeysUnique, Active
<1>10. Locking /\ Heard
  BY IdsAssumption DEF Init, Locking, Heard, NoClaim, NoJob
<1> QED
  BY <1>6a, <1>8, <1>9, <1>10 DEF IInv

\* No step gives two active jobs one key: only enqueue makes a job active, and it
\* looks at the index.
LEMMA UniqueStep ==
    ASSUME TypeOK, Holding, Locking, ActiveKeysUnique, [Next]_vars
    PROVE  ActiveKeysUnique'
<1>1. \A i \in Ids : Aged(i) \/ Enqueued(i) \/ Claimed(i) \/ Settled(i)
  BY RowsStep
<1>2. \A i \in Ids : \/ jobs'[i].status \notin Active
                     \/ jobs[i].status \in Active /\ jobs'[i].key = jobs[i].key
                     \/ Enqueued(i)
  BY <1>1 DEF Aged, Claimed, Settled, SettledBy, Owns, Active
<1>3. \A i, j \in Ids : Enqueued(i) /\ Enqueued(j) => i = j
  BY IdsAssumption DEF Enqueued, NextId
<1>4. \A i, j \in Ids : Enqueued(i) /\ jobs[j].status \in Active => jobs[j].key # jobs'[i].key
  BY DEF Enqueued, ActiveKey
<1> SUFFICES ASSUME NEW i \in Ids, NEW j \in Ids,
                    jobs'[i].status \in Active, jobs'[j].status \in Active,
                    jobs'[i].key = jobs'[j].key
             PROVE  i = j
  BY DEF ActiveKeysUnique, Active
<1>5. CASE Enqueued(i) \/ Enqueued(j)
  BY <1>2, <1>3, <1>4, <1>5
<1>6. CASE ~Enqueued(i) /\ ~Enqueued(j)
  BY <1>2, <1>6 DEF ActiveKeysUnique
<1> QED
  BY <1>5, <1>6

\* Only a job just enqueued has not been claimed yet, and it is due at once.
LEMMA CountedStep ==
    ASSUME TypeOK, Holding, Locking, CountedOnce, [Next]_vars
    PROVE  /\ CountedOnce'
           /\ \A i \in Ids : Fresh(i)' => Fresh(i) \/ Enqueued(i)
<1> SUFFICES ASSUME NEW i \in Ids
             PROVE  /\ jobs'[i].status = "running" => jobs'[i].attempts > 0
                    /\ Fresh(i)' => jobs'[i].due <= 0 /\ (Fresh(i) \/ Enqueued(i))
  BY DEF CountedOnce, Fresh
<1>1. jobs[i] \in Row /\ jobs'[i] \in Row
  BY RowsStep DEF TypeOK
<1>2. /\ jobs[i].due \in Int /\ jobs[i].attempts \in Int
      /\ jobs'[i].due \in Int /\ jobs'[i].attempts \in Int
  BY <1>1, TimesAssumption, AttemptsAssumption DEF Row, MaxDelay
<1>3. CASE Aged(i)
  BY <1>2, <1>3 DEF Aged, CountedOnce, Fresh
<1>4. CASE Enqueued(i)
  <2>1. jobs'[i].status = "pending" /\ jobs'[i].due = 0
    BY <1>4 DEF Enqueued, Absent
  <2> QED
    BY <2>1, <1>4
<1>5. CASE Claimed(i)
  BY <1>2, <1>5 DEF Claimed, Fresh
<1>6. CASE Settled(i)
  BY <1>2, <1>6 DEF Settled, SettledBy, Owns, CountedOnce, Fresh
<1> QED
  BY <1>3, <1>4, <1>5, <1>6, RowsStep

\* A claim marks the memory of the earlier claimants and changes nothing else of it.
LEMMA SupersededTasks ==
    ASSUME TypeOK, NEW n \in Ids
    PROVE  /\ Superseded(n) \in [Workers -> Task]
           /\ \A v \in Workers :
                 /\ Superseded(n)[v].job = task[v].job
                 /\ Superseded(n)[v].attempts = task[v].attempts
                 /\ Superseded(n)[v].decision = task[v].decision
                 /\ task[v].job = n => ~Superseded(n)[v].latest
                 /\ task[v].job # n => Superseded(n)[v] = task[v]
<1>1. \A v \in Workers : task[v] \in Task
  BY DEF TypeOK
<1>2. ASSUME NEW t \in Task
      PROVE  /\ [t EXCEPT !.latest = FALSE] \in Task
             /\ [t EXCEPT !.latest = FALSE].job = t.job
             /\ [t EXCEPT !.latest = FALSE].attempts = t.attempts
             /\ [t EXCEPT !.latest = FALSE].decision = t.decision
             /\ ~[t EXCEPT !.latest = FALSE].latest
  BY DEF Task
<1> QED
  BY <1>1, <1>2 DEF Superseded

\* A worker between claim and outcome holds a job that exists, and so it stays.
LEMMA HoldingStep ==
    ASSUME TypeOK, Holding, Locking, [Next]_vars
    PROVE  task' \in [Workers -> Task] /\ Holding'
<1>1. AttemptCap \in Nat /\ 0 \in 0 .. AttemptCap
  BY AttemptsAssumption
<1>2. Idle \in Task /\ Idle.job = NoJob
  BY <1>1 DEF Idle, Task, Decisions
<1>3. ASSUME UNCHANGED <<pc, task>>
      PROVE  task' \in [Workers -> Task] /\ Holding'
  BY <1>3 DEF TypeOK, Holding
<1>4. ASSUME NEW w \in Workers, WorkerStep(w) \/ Fault(w)
      PROVE  task' \in [Workers -> Task] /\ Holding'
  <2>1. \A v \in Workers : task[v] \in Task
    BY DEF TypeOK
  <2>2. \A v \in Workers \ {w} : pc'[v] = pc[v]
    BY <1>4 DEF WorkerStep, Fault, ClaimBegins, LockRow, Claim, ClaimNothing, HandlerEnds, Finish,
                LoopTop, WaitBegins,
                WaitEnds, ClaimLost, ClaimFails, FinishFails, ListenFails, ListenerDrops, Crash,
                TypeOK
  <2>3. CASE Claim(w)
    <3>1. PICK n \in Ids :
             task' = [Superseded(n) EXCEPT ![w] =
                        [job |-> n, attempts |-> Counted(jobs[n].attempts),
                         decision |-> "done", latest |-> TRUE]]
      BY <2>3 DEF Claim
    <3>2. Counted(jobs[n].attempts) \in 1 .. AttemptCap
      BY CountedInRange DEF TypeOK, Row
    <3>3. [job |-> n, attempts |-> Counted(jobs[n].attempts),
           decision |-> "done", latest |-> TRUE] \in Task
      BY <1>1, <3>2 DEF Task, Decisions
    <3>4. /\ Superseded(n) \in [Workers -> Task]
          /\ \A v \in Workers : /\ Superseded(n)[v].job = task[v].job
                                /\ Superseded(n)[v].attempts = task[v].attempts
      BY SupersededTasks
    <3>5. task' \in [Workers -> Task]
      BY <3>1, <3>3, <3>4
    <3>6. /\ task'[w].job = n /\ task'[w].attempts > 0
          /\ \A v \in Workers \ {w} : /\ task'[v].job = task[v].job
                                      /\ task'[v].attempts = task[v].attempts
      BY <3>1, <3>2, <3>4
    <3>7. pc'[w] = "handle"
      BY <2>3 DEF Claim, TypeOK
    <3> QED
      BY <2>2, <3>5, <3>6, <3>7 DEF Holding, Working
  <2>4. CASE ClaimLost(w)
    <3>1. PICK n \in Ids : task' = Superseded(n)
      BY <2>4 DEF ClaimLost
    <3>2. /\ task' \in [Workers -> Task]
          /\ \A v \in Workers : task'[v].job = task[v].job /\ task'[v].attempts = task[v].attempts
      BY <3>1, SupersededTasks
    <3>3. pc[w] = "claim" /\ pc'[w] = "pause"
      BY <2>4 DEF ClaimLost, TakeJob, TypeOK
    <3> QED
      BY <2>2, <3>2, <3>3 DEF Holding, Working
  <2>5. CASE HandlerEnds(w)
    <3>1. PICK outcome \in {"ok", "nonretryable", "error"} :
             task' = [task EXCEPT ![w].decision = Decide(outcome, task[w].attempts)]
      BY <2>5 DEF HandlerEnds
    <3>2. Decide(outcome, task[w].attempts) \in Decisions
      BY DEF Decide, Decisions
    <3>3. task'[w] = [job |-> task[w].job, attempts |-> task[w].attempts,
                      decision |-> Decide(outcome, task[w].attempts), latest |-> task[w].latest]
      BY <2>1, <3>1 DEF Task, TypeOK
    <3>4. task'[w] \in Task
      BY <2>1, <3>2, <3>3 DEF Task
    <3>5. task' \in [Workers -> Task] /\ \A v \in Workers \ {w} : task'[v] = task[v]
      BY <3>1, <3>4 DEF TypeOK
    <3>6. pc[w] = "handle" /\ pc'[w] = "finish"
      BY <2>5 DEF HandlerEnds, TypeOK
    <3> QED
      BY <2>2, <3>3, <3>5, <3>6 DEF Holding, Working
  <2>6. CASE Finish(w) \/ FinishFails(w) \/ Crash(w)
    <3>1. task' = [task EXCEPT ![w] = Idle] /\ pc'[w] \in {"drain", "pause", "top"}
      BY <2>6 DEF Finish, FinishFails, Crash, TypeOK
    <3>2. task' \in [Workers -> Task] /\ task'[w] = Idle
          /\ \A v \in Workers \ {w} : task'[v] = task[v]
      BY <1>2, <3>1 DEF TypeOK
    <3> QED
      BY <1>2, <2>2, <3>1, <3>2 DEF Holding, Working
  <2>7. CASE \/ ClaimBegins(w) \/ LockRow(w) \/ ClaimNothing(w)
             \/ LoopTop(w) \/ WaitBegins(w) \/ WaitEnds(w)
             \/ ClaimFails(w) \/ ListenFails(w) \/ ListenerDrops(w)
    <3>1. task' = task /\ (pc'[w] = pc[w] \/ {pc[w], pc'[w]} \cap Working = {})
      BY <2>7 DEF ClaimBegins, LockRow, ClaimNothing, LoopTop, WaitBegins, WaitEnds, ClaimFails,
                  ListenFails,
                  ListenerDrops, Working, TypeOK
    <3> QED
      BY <2>2, <3>1 DEF Holding, Working, TypeOK
  <2> QED
    BY <1>4, <2>3, <2>4, <2>5, <2>6, <2>7 DEF WorkerStep, Fault
<1> QED
  BY <1>3, <1>4 DEF Next, vars, Enqueue, Tick

\* What a claim has read and locked, and what was rolled back, are rows of the table.
LEMMA ClaimTypes ==
    ASSUME TypeOK, [Next]_vars
    PROVE  claim' \in [Workers -> OpenClaim] /\ rolledBack' \subseteq Ids
<1>1. 0 \in 0 .. Lease + 1
  BY TimesAssumption
<1>2. \A w \in Workers : claim[w] \in OpenClaim
  BY DEF TypeOK
<1>3. NoClaim \in OpenClaim
  BY <1>1 DEF NoClaim, OpenClaim
<1>4. CASE Tick
  <2>1. \A w \in Workers : claim[w].age <= Lease => claim[w].age + 1 \in 0 .. Lease + 1
    BY <1>2, TimesAssumption DEF OpenClaim
  <2>2. ASSUME NEW w \in Workers PROVE claim'[w] \in OpenClaim
    <3> DEFINE age == IF pc[w] = "claim" /\ claim[w].age <= Lease
                      THEN claim[w].age + 1 ELSE claim[w].age
    <3>1. claim'[w] = [claim[w] EXCEPT !.age = age]
      BY <1>4 DEF Tick
    <3>2. age \in 0 .. Lease + 1
      BY <1>2, <2>1 DEF OpenClaim
    <3> HIDE DEF age
    <3> QED
      BY <1>2, <3>1, <3>2 DEF OpenClaim
  <2>3. claim' \in [Workers -> OpenClaim]
    BY <1>4, <2>2 DEF Tick
  <2> QED
    BY <1>4, <2>3 DEF Tick, TypeOK
<1>5. ASSUME NEW w \in Workers, ClaimBegins(w)
      PROVE  claim' \in [Workers -> OpenClaim] /\ rolledBack' \subseteq Ids
  <2>1. [NoClaim EXCEPT !.sees = {i \in Ids : Ready(i)}] \in OpenClaim
    BY <1>3 DEF OpenClaim
  <2> QED
    BY <1>5, <2>1 DEF ClaimBegins, TypeOK
<1>6. ASSUME NEW w \in Workers, LockRow(w)
      PROVE  claim' \in [Workers -> OpenClaim] /\ rolledBack' \subseteq Ids
  <2>1. PICK i \in Ids : claim' = [claim EXCEPT ![w].job = i]
    BY <1>6 DEF LockRow
  <2>2. [claim[w] EXCEPT !.job = i] \in OpenClaim
    BY <1>2 DEF OpenClaim
  <2> QED
    BY <1>6, <2>1, <2>2 DEF LockRow, TypeOK
<1>7. ASSUME NEW w \in Workers, claim' = [claim EXCEPT ![w] = NoClaim]
      PROVE  claim' \in [Workers -> OpenClaim]
  BY <1>3, <1>7 DEF TypeOK
<1>8. ASSUME NEW w \in Workers, RollBack(w)
      PROVE  claim' \in [Workers -> OpenClaim] /\ rolledBack' \subseteq Ids
  BY <1>2, <1>7, <1>8 DEF RollBack, OpenClaim, TypeOK
<1>9. ASSUME NEW w \in Workers, NEW i \in Ids, TakeJob(w, i)
      PROVE  claim' \in [Workers -> OpenClaim] /\ rolledBack' \subseteq Ids
  BY <1>7, <1>9 DEF TakeJob, TypeOK
<1>10. CASE UNCHANGED <<claim, rolledBack>>
  BY <1>10 DEF TypeOK
<1>11. ASSUME NEW w \in Workers, ClaimNothing(w)
       PROVE  claim' \in [Workers -> OpenClaim] /\ rolledBack' \subseteq Ids
  BY <1>7, <1>11 DEF ClaimNothing, TypeOK
<1> QED
  BY <1>4, <1>5, <1>6, <1>8, <1>9, <1>10, <1>11
  DEF Next, vars, Enqueue, WorkerStep, Fault, Claim, ClaimLost, ClaimFails, Crash, HandlerEnds,
      Finish, FinishFails, LoopTop, ListenFails, WaitBegins, WaitEnds, ListenerDrops

\* A row is locked by one claim at a time; meanwhile nobody writes to it, so that it
\* stays active.
LEMMA LockingStep ==
    ASSUME TypeOK, Holding, Locking, [Next]_vars
    PROVE  Locking'
<1>1. \A i \in Ids : jobs[i].status \in Active /\ Locked(i) => jobs'[i].status \in Active
  BY RowsStep DEF Aged, Enqueued, Absent, Claimed, Settled, SettledBy, Active
<1>2. ASSUME \A v \in Workers :
                \/ claim'[v].job = NoJob
                \/ claim'[v].job = claim[v].job /\ pc'[v] = pc[v]
      PROVE  Locking'
  BY <1>1, <1>2, IdsAssumption DEF Locking, Locked, NoJob
<1>3. \A w \in Workers : claim[w] \in OpenClaim
  BY DEF TypeOK
<1>4. CASE Tick
  BY <1>2, <1>3, <1>4 DEF Tick, OpenClaim
<1>5. ASSUME NEW w \in Workers, LockRow(w)
      PROVE  Locking'
  <2>1. PICK i \in Ids : First(w, i) /\ claim' = [claim EXCEPT ![w].job = i]
    BY <1>5 DEF LockRow
  <2>2. claim'[w].job = i /\ \A v \in Workers \ {w} : claim'[v] = claim[v]
    BY <1>3, <2>1 DEF OpenClaim, TypeOK
  <2>3. jobs[i].status \in Active /\ ~Locked(i)
    BY <2>1 DEF First, Ready, Active
  <2>4. jobs' = jobs /\ pc' = pc /\ pc[w] = "claim"
    BY <1>5 DEF LockRow
  <2> QED
    BY <2>2, <2>3, <2>4 DEF Locking, Locked
<1>6. ASSUME NEW w \in Workers, claim'[w].job = NoJob,
             \A v \in Workers \ {w} : claim'[v] = claim[v] /\ pc'[v] = pc[v]
      PROVE  Locking'
  BY <1>2, <1>6
<1>7. ASSUME NEW w \in Workers, NEW c, claim' = [claim EXCEPT ![w] = c], c.job = NoJob,
             NEW q, pc' = [pc EXCEPT ![w] = q]
      PROVE  Locking'
  BY <1>6, <1>7 DEF TypeOK
<1>8. NoClaim.job = NoJob /\ [NoClaim EXCEPT !.sees = {i \in Ids : Ready(i)}].job = NoJob
  BY DEF NoClaim
<1>9. ASSUME NEW w \in Workers,
             \/ ClaimBegins(w) \/ Claim(w) \/ ClaimLost(w) \/ ClaimNothing(w)
             \/ ClaimFails(w) \/ Crash(w)
      PROVE  Locking'
  BY <1>7, <1>8, <1>9
  DEF ClaimBegins, Claim, ClaimLost, ClaimNothing, ClaimFails, Crash, RollBack, TakeJob
<1>10. CASE claim' = claim /\ \A v \in Workers : pc[v] = "claim" => pc'[v] = "claim"
  BY <1>1, <1>10 DEF Locking, Locked
<1>11. ASSUME NEW w \in Workers,
              \/ HandlerEnds(w) \/ Finish(w) \/ FinishFails(w) \/ LoopTop(w) \/ ListenFails(w)
              \/ WaitBegins(w) \/ WaitEnds(w) \/ ListenerDrops(w)
       PROVE  Locking'
  BY <1>10, <1>11
  DEF HandlerEnds, Finish, FinishFails, LoopTop, ListenFails, WaitBegins, WaitEnds,
      ListenerDrops, TypeOK
<1> QED
  BY <1>4, <1>5, <1>9, <1>10, <1>11 DEF Next, vars, Enqueue, WorkerStep, Fault

\* Every step keeps the types.
LEMMA TypeStep ==
    ASSUME TypeOK, Holding, Locking, [Next]_vars
    PROVE  TypeOK'
<1>1. /\ jobs' \in [Ids -> Row] /\ task' \in [Workers -> Task]
      /\ claim' \in [Workers -> OpenClaim] /\ rolledBack' \subseteq Ids
  BY RowsStep, HoldingStep, ClaimTypes
<1>2. ASSUME NEW w \in Workers, WorkerStep(w) \/ Fault(w)
      PROVE  /\ pc' \in [Workers -> {"top", "drain", "claim", "handle", "finish", "empty",
                                     "wait", "pause"}]
             /\ wakeup' \in [Workers -> BOOLEAN]
             /\ listening' \in [Workers -> BOOLEAN]
  BY <1>2 DEF WorkerStep, Fault, ClaimBegins, LockRow, Claim, ClaimNothing, HandlerEnds, Finish,
              LoopTop, WaitBegins,
              WaitEnds, ClaimLost, ClaimFails, FinishFails, ListenFails, ListenerDrops, Crash,
              TypeOK
<1>3. ASSUME NEW k \in Keys, Enqueue(k)
      PROVE  wakeup' \in [Workers -> BOOLEAN]
  BY <1>3 DEF Enqueue, TypeOK
<1> QED
  BY <1>1, <1>2, <1>3 DEF TypeOK, Next, vars, Enqueue, Tick

\* At every step the row's owner stays the latest claimant, if that one still runs.
LEMMA FencedStep ==
    ASSUME TypeOK, Holding, Locking, Fenced, [Next]_vars
    PROVE  Fenced'
<1>1. ASSUME UNCHANGED task,
             \A i \in Ids : \/ jobs'[i].status # "running"
                            \/ jobs'[i].status = jobs[i].status /\ jobs'[i].owner = jobs[i].owner
      PROVE  Fenced'
  BY <1>1 DEF Fenced, Owns
<1>2. CASE \E k \in Keys : Enqueue(k)
  <2>1. \A i \in Ids : Enqueued(i) => jobs'[i].status = "pending"
    BY DEF Enqueued, Absent
  <2>2. PICK k \in Keys : Enqueue(k)
    BY <1>2
  <2>3. \A i \in Ids : jobs'[i] = jobs[i] \/ Enqueued(i)
    BY <2>2, EnqueueInserts
  <2>4. UNCHANGED task
    BY <2>2 DEF Enqueue
  <2>5. \A i \in Ids : \/ jobs'[i].status # "running"
                       \/ jobs'[i].status = jobs[i].status /\ jobs'[i].owner = jobs[i].owner
    BY <2>1, <2>3
  <2> QED
    BY <2>4, <2>5 DEF Fenced, Owns
<1>3. CASE Tick
  BY <1>1, <1>3, TickAges DEF Tick, Aged
<1>4. CASE UNCHANGED vars
  BY <1>1, <1>4 DEF vars
<1>5. ASSUME NEW w \in Workers, Claim(w) \/ ClaimLost(w)
      PROVE  Fenced'
  <2>1. PICK n \in Ids :
           /\ TakeJob(w, n)
           /\ \/ task' = Superseded(n)
              \/ task' = [Superseded(n) EXCEPT ![w] =
                            [job |-> n, attempts |-> Counted(jobs[n].attempts),
                             decision |-> "done", latest |-> TRUE]]
    BY <1>5 DEF Claim, ClaimLost
  <2>2. jobs'[n].owner = w /\ \A i \in Ids \ {n} : jobs'[i] = jobs[i]
    BY <2>1, TakeJobClaims
  <2>3. pc[w] = "claim" /\ task[w].job = NoJob /\ n # NoJob
    BY <1>5, IdsAssumption DEF Claim, ClaimLost, TakeJob, Holding, Working, NoJob
  <2>4. /\ Superseded(n) \in [Workers -> Task]
        /\ \A v \in Workers : Superseded(n)[v].job = task[v].job
        /\ \A v \in Workers : task[v].job # n => Superseded(n)[v] = task[v]
    BY SupersededTasks
  <2>5. ASSUME NEW v \in Workers, NEW i \in Ids, Owns(v, i)', task'[v].job = i
        PROVE  task'[v].latest
    <3>1. CASE v = w
      <4>1. i # NoJob
        BY IdsAssumption DEF NoJob
      <4> QED
        BY <2>1, <2>3, <2>4, <2>5, <3>1, <4>1
    <3>2. CASE v # w
      <4>1. task'[v] = Superseded(n)[v]
        BY <2>1, <2>4, <3>2
      <4>2. i # n
        BY <2>2, <2>5, <3>2 DEF Owns
      <4>3. task'[v] = task[v] /\ Owns(v, i)
        BY <2>2, <2>4, <2>5, <4>1, <4>2 DEF Owns
      <4> QED
        BY <2>5, <4>3 DEF Fenced
    <3> QED
      BY <3>1, <3>2
  <2> QED
    BY <2>5 DEF Fenced
<1>6. ASSUME NEW w \in Workers, Finish(w) \/ FinishFails(w) \/ Crash(w)
      PROVE  Fenced'
  <2>1. task' = [task EXCEPT ![w] = Idle]
    BY <1>6 DEF Finish, FinishFails, Crash
  <2>2. jobs' = jobs \/ (pc[w] = "finish" /\ WriteOutcome(w))
    BY <1>6 DEF Finish, FinishFails, Crash
  <2>3. \A i \in Ids : jobs'[i] = jobs[i] \/ jobs'[i].status # "running"
    BY <2>2, WriteOutcomeSettles DEF SettledBy
  <2>4. task'[w].job \notin Ids /\ \A v \in Workers \ {w} : task'[v] = task[v]
    BY <2>1, IdsAssumption DEF TypeOK, Idle, NoJob
  <2> QED
    BY <2>3, <2>4 DEF Fenced, Owns
<1>7. ASSUME NEW w \in Workers, HandlerEnds(w)
      PROVE  Fenced'
  <2>1. PICK d : task' = [task EXCEPT ![w].decision = d]
    BY <1>7 DEF HandlerEnds
  <2>2. task[w] \in Task
    BY DEF TypeOK
  <2>3. task'[w].job = task[w].job /\ task'[w].latest = task[w].latest
    BY <2>1, <2>2 DEF Task, TypeOK
  <2>4. \A v \in Workers \ {w} : task'[v] = task[v]
    BY <2>1 DEF TypeOK
  <2> QED
    BY <1>7, <2>3, <2>4 DEF Fenced, Owns, HandlerEnds
<1>8. ASSUME NEW w \in Workers,
             \/ ClaimBegins(w) \/ LockRow(w) \/ ClaimNothing(w)
             \/ LoopTop(w) \/ WaitBegins(w) \/ WaitEnds(w)
             \/ ClaimFails(w) \/ ListenFails(w) \/ ListenerDrops(w)
      PROVE  Fenced'
  BY <1>1, <1>8 DEF ClaimBegins, LockRow, ClaimNothing, LoopTop, WaitBegins, WaitEnds, ClaimFails,
                    ListenFails,
                    ListenerDrops
<1> QED
  BY <1>2, <1>3, <1>4, <1>5, <1>6, <1>7, <1>8 DEF Next, WorkerStep, Fault

\* A worker goes on to its claim only with LISTEN, and the end of its connection sets
\* the event.
LEMMA HeardStep ==
    ASSUME TypeOK, Heard, [Next]_vars
    PROVE  Heard'
<1>1. CASE UNCHANGED vars
  BY <1>1 DEF Heard, vars
<1>2. CASE Tick
  BY <1>2 DEF Heard, Tick
<1>3. ASSUME NEW k \in Keys, Enqueue(k)
      PROVE  Heard'
  BY <1>3 DEF Heard, Enqueue, TypeOK
<1>4. ASSUME NEW w \in Workers, ClaimBegins(w) \/ LockRow(w) \/ ClaimNothing(w)
      PROVE  Heard'
  <2>1. CASE ClaimBegins(w)
    BY <2>1 DEF Heard, TypeOK, ClaimBegins
  <2>2. CASE LockRow(w)
    BY <2>2 DEF Heard, TypeOK, LockRow
  <2>3. CASE ClaimNothing(w)
    BY <2>3 DEF Heard, TypeOK, ClaimNothing
  <2> QED
    BY <1>4, <2>1, <2>2, <2>3
<1>5. ASSUME NEW w \in Workers, Claim(w) \/ ClaimLost(w) \/ ClaimFails(w)
      PROVE  Heard'
  <2>1. CASE Claim(w)
    BY <2>1 DEF Heard, TypeOK, Claim, TakeJob
  <2>2. CASE ClaimLost(w)
    BY <2>2 DEF Heard, TypeOK, ClaimLost
  <2>3. CASE ClaimFails(w)
    BY <2>3 DEF Heard, TypeOK, ClaimFails
  <2> QED
    BY <1>5, <2>1, <2>2, <2>3
<1>6. ASSUME NEW w \in Workers, HandlerEnds(w) \/ Finish(w) \/ FinishFails(w)
      PROVE  Heard'
  <2>1. CASE HandlerEnds(w)
    BY <2>1 DEF Heard, TypeOK, HandlerEnds
  <2>2. CASE Finish(w)
    BY <2>2 DEF Heard, TypeOK, Finish
  <2>3. CASE FinishFails(w)
    BY <2>3 DEF Heard, TypeOK, FinishFails
  <2> QED
    BY <1>6, <2>1, <2>2, <2>3
<1>7. ASSUME NEW w \in Workers, LoopTop(w) \/ WaitBegins(w) \/ WaitEnds(w)
      PROVE  Heard'
  <2>1. CASE LoopTop(w)
    BY <2>1 DEF Heard, TypeOK, LoopTop
  <2>2. CASE WaitBegins(w)
    BY <2>2 DEF Heard, TypeOK, WaitBegins
  <2>3. CASE WaitEnds(w)
    BY <2>3 DEF Heard, TypeOK, WaitEnds
  <2> QED
    BY <1>7, <2>1, <2>2, <2>3
<1>8. ASSUME NEW w \in Workers, ListenFails(w) \/ ListenerDrops(w) \/ Crash(w)
      PROVE  Heard'
  <2>1. CASE ListenFails(w)
    BY <2>1 DEF Heard, TypeOK, ListenFails
  <2>2. CASE ListenerDrops(w)
    BY <2>2 DEF Heard, TypeOK, ListenerDrops
  <2>3. CASE Crash(w)
    BY <2>3 DEF Heard, TypeOK, Crash
  <2> QED
    BY <1>8, <2>1, <2>2, <2>3
<1> QED
  BY <1>1, <1>2, <1>3, <1>4, <1>5, <1>6, <1>7, <1>8 DEF Next, WorkerStep, Fault

\* Of the others a step of a worker changes nothing but their view of a job.
LEMMA OthersStay ==
    ASSUME TypeOK, NEW w \in Workers, WorkerStep(w) \/ Fault(w)
    PROVE  \A v \in Workers \ {w} : /\ pc'[v] = pc[v] /\ wakeup'[v] = wakeup[v]
                                     /\ claim'[v] = claim[v]
<1>1. CASE ClaimBegins(w) \/ LockRow(w) \/ ClaimNothing(w)
  BY <1>1 DEF TypeOK, ClaimBegins, LockRow, ClaimNothing
<1>2. CASE Claim(w) \/ ClaimLost(w) \/ ClaimFails(w)
  BY <1>2 DEF TypeOK, Claim, ClaimLost, ClaimFails, TakeJob, RollBack, Superseded
<1>3. CASE HandlerEnds(w) \/ Finish(w) \/ FinishFails(w)
  BY <1>3 DEF TypeOK, HandlerEnds, Finish, FinishFails
<1>4. CASE LoopTop(w) \/ WaitBegins(w) \/ WaitEnds(w)
  BY <1>4 DEF TypeOK, LoopTop, WaitBegins, WaitEnds
<1>5. CASE ListenFails(w) \/ ListenerDrops(w) \/ Crash(w)
  BY <1>5 DEF TypeOK, ListenFails, ListenerDrops, Crash, RollBack
<1> QED
  BY <1>1, <1>2, <1>3, <1>4, <1>5 DEF WorkerStep, Fault

\* A step of a worker makes no job fresh.
LEMMA FreshStays ==
    ASSUME TypeOK, Holding, Locking, CountedOnce, NEW w \in Workers, WorkerStep(w) \/ Fault(w)
    PROVE  \A i \in Ids : Fresh(i)' => Fresh(i)
<1>1. \A i \in Ids : Fresh(i)' => Fresh(i) \/ Enqueued(i)
  BY CountedStep DEF Next
<1>2. \A i \in Ids : Aged(i) \/ Claimed(i) \/ Settled(i)
  BY WorkerRows
<1>3. \A i \in Ids : Enqueued(i) => jobs[i].status = "absent" /\ jobs'[i].status = "pending"
  BY DEF Enqueued, NextId, Absent
<1> QED
  BY <1>1, <1>2, <1>3 DEF Aged, Claimed, Settled, SettledBy, Owns

\* The snapshot of a claim has every fresh job, because fresh jobs are due; a job
\* enqueued later sets the event of everyone who listens.
LEMMA SeenStep ==
    ASSUME TypeOK, Holding, Locking, CountedOnce, Heard, Seen, [Next]_vars
    PROVE  Seen'
<1>1. CASE \E k \in Keys : Enqueue(k)
  <2>1. /\ pc' = pc /\ claim' = claim
        /\ \A w \in Workers : wakeup'[w] = (wakeup[w] \/ listening[w])
    BY <1>1 DEF Enqueue
  <2> QED
    BY <2>1 DEF Seen, Heard
<1>2. CASE Tick \/ UNCHANGED vars
  <2>1. \A i \in Ids : Fresh(i)' => Fresh(i)
    BY <1>2, TickAges DEF Fresh, Aged, vars
  <2>2. \A w \in Workers : claim'[w].job = claim[w].job /\ claim'[w].sees = claim[w].sees
    <3>1. CASE Tick
      <4>1. \A w \in Workers : claim[w] \in OpenClaim
        BY DEF TypeOK
      <4> QED
        BY <3>1, <4>1 DEF Tick, OpenClaim
    <3>2. CASE UNCHANGED vars
      BY <3>2 DEF vars
    <3> QED
      BY <1>2, <3>1, <3>2
  <2> QED
    BY <1>2, <2>1, <2>2 DEF Seen, Tick, vars
<1>3. ASSUME NEW w \in Workers, WorkerStep(w) \/ Fault(w)
      PROVE  Seen'
  <2>1. \A i \in Ids : Fresh(i)' => Fresh(i)
    BY <1>3, FreshStays
  <2>2. \A v \in Workers \ {w} : /\ pc'[v] = pc[v] /\ wakeup'[v] = wakeup[v]
                                  /\ claim'[v] = claim[v]
    BY <1>3, OthersStay
  <2>3. ASSUME pc'[w] = "claim", claim'[w].job = NoJob, ~wakeup'[w], NEW i \in Ids, Fresh(i)
        PROVE  i \in claim'[w].sees
    <3>1. CASE ClaimBegins(w)
      <4>1. claim'[w].sees = {j \in Ids : Ready(j)}
        BY <3>1 DEF ClaimBegins, NoClaim, TypeOK
      <4> QED
        BY <2>3, <4>1 DEF CountedOnce, Ready, Fresh
    <3>2. CASE LockRow(w)
      <4>1. claim'[w].job \in Ids
        BY <3>2 DEF LockRow, TypeOK, OpenClaim
      <4> QED
        BY <2>3, <4>1, IdsAssumption DEF NoJob
    <3>3. CASE ListenerDrops(w)
      BY <2>3, <3>3 DEF ListenerDrops, TypeOK
    <3>4. CASE ~ClaimBegins(w) /\ ~LockRow(w) /\ ~ListenerDrops(w)
      BY <1>3, <2>3, <3>4
      DEF WorkerStep, Fault, Claim, ClaimNothing, HandlerEnds, Finish, LoopTop, WaitBegins,
          WaitEnds, ClaimLost, ClaimFails, FinishFails, ListenFails, Crash, TypeOK
    <3> QED
      BY <3>1, <3>2, <3>3, <3>4
  <2> QED
    BY <2>1, <2>2, <2>3 DEF Seen
<1> QED
  BY <1>1, <1>2, <1>3 DEF Next

\* A claim that finds nothing has seen every fresh job, locked by another claim; that
\* one takes the job, or rolls back and its worker looks again.
LEMMA WokenStep ==
    ASSUME TypeOK, Holding, Locking, CountedOnce, Heard, Seen, Woken, [Next]_vars
    PROVE  Woken'
<1>1. CASE \E k \in Keys : Enqueue(k)
  <2>1. /\ pc' = pc
        /\ \A w \in Workers : wakeup'[w] = (wakeup[w] \/ listening[w])
    BY <1>1 DEF Enqueue
  <2>2. \A w \in Workers : Awake(w)'
    BY <2>1 DEF Awake, Heard
  <2> QED
    BY <2>2 DEF Woken
<1>2. CASE Tick \/ UNCHANGED vars
  <2>1. \A i \in Ids : Fresh(i)' => Fresh(i)
    BY <1>2, TickAges DEF Fresh, Aged, vars
  <2>2. \A w \in Workers : claim'[w].job = claim[w].job
    <3>1. \A w \in Workers : claim[w] \in OpenClaim
      BY DEF TypeOK
    <3> QED
      BY <1>2, <3>1 DEF Tick, vars, OpenClaim
  <2>3. \A w \in Workers : Awake(w)' <=> Awake(w)
    BY <1>2 DEF Tick, vars, Awake
  <2> QED
    BY <1>2, <2>1, <2>2, <2>3 DEF Woken, Locked, Tick, vars
<1>3. ASSUME NEW v \in Workers, WorkerStep(v) \/ Fault(v),
             NEW w \in Workers, ~Awake(w)', NEW i \in Ids, Fresh(i)'
      PROVE  Locked(i)' \/ (i \in rolledBack' /\ \E u \in Workers : Awake(u)')
  <2>1. Fresh(i)
    BY <1>3, FreshStays
  <2>2. \A u \in Workers \ {v} : /\ pc'[u] = pc[u] /\ wakeup'[u] = wakeup[u]
                                  /\ claim'[u] = claim[u]
    BY <1>3, OthersStay
  <2>3. \A u \in Workers \ {v} : Awake(u)' <=> Awake(u)
    BY <2>2 DEF Awake
  <2>4. CASE ClaimNothing(v) /\ ~wakeup[v]
    <3>1. pc[v] = "claim" /\ claim[v].job = NoJob
      BY <2>4 DEF ClaimNothing
    <3>2. i \in claim[v].sees
      BY <2>1, <2>4, <3>1 DEF Seen
    <3>3. Ready(i) /\ ~Closing(i)
      BY <2>1 DEF CountedOnce, Ready, Fresh, Closing, Owns
    <3>4. PICK u \in Workers : claim[u].job = i
      BY <2>4, <3>2, <3>3 DEF ClaimNothing, Locked
    <3>5. u # v
      BY <3>1, <3>4, IdsAssumption DEF NoJob
    <3> QED
      BY <2>2, <3>4, <3>5 DEF Locked
  <2>5. CASE WaitBegins(v)
    <3>1. /\ pc[v] = "empty" /\ pc'[v] = "wait"
          /\ wakeup' = wakeup /\ claim' = claim /\ rolledBack' = rolledBack
      BY <2>5 DEF WaitBegins, TypeOK
    <3>2. \A u \in Workers : Awake(u)' <=> Awake(u)
      BY <2>3, <3>1 DEF Awake
    <3> QED
      BY <1>3, <2>1, <3>1, <3>2 DEF Woken, Locked
  <2>6. CASE ~WaitBegins(v) /\ ~(ClaimNothing(v) /\ ~wakeup[v])
    <3>1. Awake(v)'
      BY <1>3, <2>6
      DEF Awake, WorkerStep, Fault, ClaimBegins, LockRow, Claim, TakeJob, ClaimNothing,
          HandlerEnds, Finish, LoopTop, WaitEnds, ClaimLost, ClaimFails, FinishFails,
          ListenFails, ListenerDrops, Crash, TypeOK
    <3>2. w # v /\ ~Awake(w)
      BY <1>3, <2>3, <3>1
    <3>3. \A n \in Ids : TakeJob(v, n) => n # i
      BY <1>3, TakeJobClaims DEF Claimed, Fresh
    <3>4. \/ claim' = claim /\ rolledBack' = rolledBack
          \/ claim[v].job = NoJob /\ rolledBack' = rolledBack
          \/ RollBack(v)
          \/ \E n \in Ids : TakeJob(v, n)
          \/ ClaimBegins(v)
      BY <1>3
      DEF WorkerStep, Fault, LockRow, Claim, ClaimNothing, HandlerEnds, Finish, LoopTop,
          WaitBegins, WaitEnds, ClaimLost, ClaimFails, FinishFails, ListenFails, ListenerDrops,
          Crash
    <3>5. ClaimBegins(v) => claim[v].job = NoJob /\ rolledBack' = rolledBack
      BY DEF ClaimBegins, Locking
    <3>6. i \in rolledBack => i \in rolledBack'
      BY <3>3, <3>4, <3>5 DEF RollBack, TakeJob
    <3>7. ASSUME NEW u \in Workers, claim[u].job = i
          PROVE  Locked(i)' \/ i \in rolledBack'
      BY <2>2, <3>3, <3>4, <3>5, <3>7, IdsAssumption DEF Locked, RollBack, TakeJob, NoJob
    <3> QED
      BY <2>1, <3>1, <3>2, <3>6, <3>7 DEF Woken, Locked
  <2> QED
    BY <2>4, <2>5, <2>6
<1> QED
  BY <1>1, <1>2, <1>3 DEF Next, Woken

---------------------------------------------------------------------------
(* Theorems.                                                               *)

\* The invariant is inductive.
LEMMA StepIInv == IInv /\ [Next]_vars => IInv'
BY TypeStep, HoldingStep, LockingStep, FencedStep, CountedStep, HeardStep, SeenStep, WokenStep,
   UniqueStep DEF IInv

\* The inductive invariant of the queue holds always.
THEOREM Invariance == Spec => []IInv
BY InitIInv, StepIInv, PTL DEF Spec

\* Every row, task and program counter keeps its type; in particular no retry is
\* put off by more than the longest backoff.
THEOREM TypeCorrect == Spec => []TypeOK
<1>1. IInv => TypeOK
  BY DEF IInv
<1> QED
  BY <1>1, Invariance, PTL

\* However many workers claim, retry and take over each other's jobs, no two active
\* jobs share an idempotency key.
THEOREM KeysStayUnique == Spec => []ActiveKeysUnique
<1>1. IInv => ActiveKeysUnique
  BY DEF IInv
<1> QED
  BY <1>1, Invariance, PTL

\* No notification is lost between the claim that found nothing and the wait, although
\* the claim skips what others have locked: a worker sleeps past a fresh job only while
\* a claim has it locked or after one of it was rolled back, and then another is awake.
THEOREM WakeupsKept == Spec => []NoLostWakeup
<1>1. IInv => NoLostWakeup
  BY DEF IInv, Woken, NoLostWakeup, Awake
<1> QED
  BY <1>1, Invariance, PTL

\* A running job is ended by its latest claimant only, and an ended job never
\* changes: the row's owner is the fence that keeps zombies out.
THEOREM FinishIsFenced == Spec => FencedFinish
<1> DEFINE FencedStepOf ==
      \A i \in Ids :
        /\ jobs[i].status = "running" /\ jobs'[i].status # "running"
             => \E w \in Workers : task[w].job = i /\ task[w].latest /\ pc[w] = "finish"
        /\ jobs[i].status \in Terminal => jobs'[i] = jobs[i]
<1>1. IInv /\ [Next]_vars => [FencedStepOf]_vars
  <2> SUFFICES ASSUME IInv, [Next]_vars, NEW i \in Ids
               PROVE  /\ jobs[i].status = "running" /\ jobs'[i].status # "running"
                           => \E w \in Workers :
                                 task[w].job = i /\ task[w].latest /\ pc[w] = "finish"
                      /\ jobs[i].status \in Terminal => jobs'[i] = jobs[i]
    OBVIOUS
  <2>1. Aged(i) \/ Enqueued(i) \/ Claimed(i) \/ Settled(i)
    BY RowsStep DEF IInv
  <2>2. Settled(i) => \E w \in Workers :
                         Owns(w, i) /\ task[w].job = i /\ task[w].latest /\ pc[w] = "finish"
    BY DEF Settled, SettledBy, IInv, Fenced
  <2> QED
    BY <2>1, <2>2 DEF Aged, Enqueued, NextId, Claimed, Owns, Active, Terminal
<1> QED
  BY <1>1, Invariance, PTL DEF FencedFinish, Spec
---------------------------------------------------------------------------
(* The refinement of TaskQueue.  Its holder of a task is the worker that      *)
(* holds the job in memory as its latest claimant; that worker owns the row,   *)
(* so there is one at most, and what it decided follows from the attempts that  *)
(* the row still shows.                                                    *)

Holds(w, i) == task[w].job = i /\ task[w].latest

HoldersOwn == \A w \in Workers, i \in Ids :
    Holds(w, i) => Owns(w, i) /\ task[w].attempts = jobs[i].attempts

WithinTries == \A w \in Workers : pc[w] = "finish" =>
    /\ task[w].decision = "dead" => task[w].attempts >= MaxAttempts
    /\ task[w].decision = "retry" => task[w].attempts < MaxAttempts

Unclaimed == \A i \in Ids : jobs[i].status = "absent" => jobs[i].attempts = 0

HInv == IInv /\ HoldersOwn /\ WithinTries /\ Unclaimed

\* What each kind of step of a worker does to the memory of all of them.

\* A worker that claims holds the job, and nobody holds it besides.
LEMMA ClaimTasks ==
    ASSUME TypeOK, Holding, Locking, NEW w \in Workers, NEW n \in Ids, pc[w] = "claim",
           task' = [Superseded(n) EXCEPT ![w] =
                      [job |-> n, attempts |-> Counted(jobs[n].attempts),
                       decision |-> "done", latest |-> TRUE]]
    PROVE  /\ task'[w].job = n /\ task'[w].latest
           /\ task'[w].attempts = Counted(jobs[n].attempts)
           /\ \A v \in Workers \ {w} : ~Holds(v, n)'
           /\ \A v \in Workers, i \in Ids \ {n} :
                 /\ Holds(v, i)' <=> Holds(v, i)
                 /\ Holds(v, i)' => task'[v] = task[v]
           /\ \A v \in Workers \ {w} : /\ task'[v].decision = task[v].decision
                                      /\ task'[v].attempts = task[v].attempts
<1>1. /\ Superseded(n) \in [Workers -> Task]
      /\ \A v \in Workers :
            /\ Superseded(n)[v].job = task[v].job
            /\ Superseded(n)[v].attempts = task[v].attempts
            /\ Superseded(n)[v].decision = task[v].decision
            /\ task[v].job = n => ~Superseded(n)[v].latest
            /\ task[v].job # n => Superseded(n)[v] = task[v]
  BY SupersededTasks
<1>2. task[w].job \notin Ids
  BY IdsAssumption DEF Holding, Working, NoJob
<1>3. \A v \in Workers \ {w} : task'[v] = Superseded(n)[v]
  BY <1>1
<1>4. task'[w] = [job |-> n, attempts |-> Counted(jobs[n].attempts),
                  decision |-> "done", latest |-> TRUE]
  BY <1>1
<1> QED
  BY <1>1, <1>2, <1>3, <1>4 DEF Holds

\* After a claim whose answer is lost nobody holds the job.
LEMMA ClaimLostTasks ==
    ASSUME TypeOK, NEW n \in Ids, task' = Superseded(n)
    PROVE  /\ \A v \in Workers : ~Holds(v, n)'
           /\ \A v \in Workers, i \in Ids \ {n} :
                 /\ Holds(v, i)' <=> Holds(v, i)
                 /\ Holds(v, i)' => task'[v] = task[v]
           /\ \A v \in Workers : /\ task'[v].decision = task[v].decision
                                /\ task'[v].attempts = task[v].attempts
BY SupersededTasks DEF Holds

\* A worker that is done with its job, or dies, holds none.
LEMMA IdleTasks ==
    ASSUME TypeOK, NEW w \in Workers, task' = [task EXCEPT ![w] = Idle]
    PROVE  /\ \A i \in Ids : ~Holds(w, i)'
           /\ \A v \in Workers \ {w} : task'[v] = task[v]
BY IdsAssumption DEF TypeOK, Idle, NoJob, Holds

\* The end of a handler changes the decision and nothing else in memory.
LEMMA HandlerTasks ==
    ASSUME TypeOK, NEW w \in Workers, NEW d,
           task' = [task EXCEPT ![w].decision = d]
    PROVE  /\ task'[w].job = task[w].job /\ task'[w].latest = task[w].latest
           /\ task'[w].attempts = task[w].attempts /\ task'[w].decision = d
           /\ \A v \in Workers \ {w} : task'[v] = task[v]
<1>1. task[w] \in Task
  BY DEF TypeOK
<1> QED
  BY <1>1 DEF Task, TypeOK

\* The worker that holds a job owns its row: a claim sets both, and the next claim or
\* the outcome ends both.
LEMMA HoldersStep ==
    ASSUME IInv, HoldersOwn, [Next]_vars
    PROVE  HoldersOwn'
<1> USE DEF IInv
<1>1. ASSUME UNCHANGED task,
             \A i \in Ids : \/ jobs[i].status # "running"
                            \/ /\ jobs'[i].status = jobs[i].status
                               /\ jobs'[i].owner = jobs[i].owner
                               /\ jobs'[i].attempts = jobs[i].attempts
      PROVE  HoldersOwn'
  BY <1>1 DEF HoldersOwn, Holds, Owns
<1>2. CASE \E k \in Keys : Enqueue(k)
  <2>1. \A i \in Ids : jobs'[i] = jobs[i] \/ jobs[i].status = "absent"
    BY <1>2, EnqueueInserts DEF Enqueued, NextId
  <2> QED
    BY <1>1, <1>2, <2>1 DEF Enqueue
<1>3. CASE Tick
  BY <1>1, <1>3, TickAges DEF Tick, Aged
<1>4. CASE UNCHANGED vars
  BY <1>1, <1>4 DEF vars
<1>5. ASSUME NEW w \in Workers, Claim(w)
      PROVE  HoldersOwn'
  <2>1. PICK n \in Ids :
           /\ TakeJob(w, n)
           /\ task' = [Superseded(n) EXCEPT ![w] =
                         [job |-> n, attempts |-> Counted(jobs[n].attempts),
                          decision |-> "done", latest |-> TRUE]]
    BY <1>5 DEF Claim
  <2>2. /\ jobs'[n].status = "running" /\ jobs'[n].owner = w
        /\ jobs'[n].attempts = Counted(jobs[n].attempts)
        /\ \A i \in Ids \ {n} : jobs'[i] = jobs[i]
    BY <2>1, TakeJobClaims DEF Claimed
  <2>3. pc[w] = "claim"
    BY <1>5 DEF Claim, TakeJob
  <2>4. /\ task'[w].job = n /\ task'[w].attempts = Counted(jobs[n].attempts)
        /\ \A v \in Workers \ {w} : ~Holds(v, n)'
        /\ \A v \in Workers, i \in Ids \ {n} :
              /\ Holds(v, i)' <=> Holds(v, i)
              /\ Holds(v, i)' => task'[v] = task[v]
    BY <2>1, <2>3, ClaimTasks
  <2> QED
    BY <2>2, <2>4 DEF HoldersOwn, Owns
<1>6. ASSUME NEW w \in Workers, ClaimLost(w)
      PROVE  HoldersOwn'
  <2>1. PICK n \in Ids : TakeJob(w, n) /\ task' = Superseded(n)
    BY <1>6 DEF ClaimLost
  <2>2. \A i \in Ids \ {n} : jobs'[i] = jobs[i]
    BY <2>1, TakeJobClaims
  <2>3. /\ \A v \in Workers : ~Holds(v, n)'
        /\ \A v \in Workers, i \in Ids \ {n} :
              /\ Holds(v, i)' <=> Holds(v, i)
              /\ Holds(v, i)' => task'[v] = task[v]
    BY <2>1, ClaimLostTasks
  <2> QED
    BY <2>2, <2>3 DEF HoldersOwn, Owns
<1>7. ASSUME NEW w \in Workers, Finish(w) \/ FinishFails(w) \/ Crash(w)
      PROVE  HoldersOwn'
  <2>1. task' = [task EXCEPT ![w] = Idle]
    BY <1>7 DEF Finish, FinishFails, Crash
  <2>2. jobs' = jobs \/ (pc[w] = "finish" /\ WriteOutcome(w))
    BY <1>7 DEF Finish, FinishFails, Crash
  <2>3. \A i \in Ids : jobs'[i] = jobs[i] \/ Owns(w, i)
    BY <2>2, WriteOutcomeSettles DEF SettledBy
  <2>4. \A v \in Workers, i \in Ids : Owns(v, i) /\ Owns(w, i) => v = w
    BY DEF Owns
  <2>5. /\ \A i \in Ids : ~Holds(w, i)'
        /\ \A v \in Workers \ {w} : task'[v] = task[v]
    BY <2>1, IdleTasks
  <2> QED
    BY <2>3, <2>4, <2>5 DEF HoldersOwn, Holds, Owns
<1>8. ASSUME NEW w \in Workers, HandlerEnds(w)
      PROVE  HoldersOwn'
  <2>1. PICK d : task' = [task EXCEPT ![w].decision = d]
    BY <1>8 DEF HandlerEnds
  <2>2. /\ task'[w].job = task[w].job /\ task'[w].latest = task[w].latest
        /\ task'[w].attempts = task[w].attempts
        /\ \A v \in Workers \ {w} : task'[v] = task[v]
    BY <2>1, HandlerTasks
  <2> QED
    BY <1>8, <2>2 DEF HandlerEnds, HoldersOwn, Holds, Owns
<1>9. ASSUME NEW w \in Workers,
             \/ ClaimBegins(w) \/ LockRow(w) \/ ClaimNothing(w)
             \/ LoopTop(w) \/ WaitBegins(w) \/ WaitEnds(w)
             \/ ClaimFails(w) \/ ListenFails(w) \/ ListenerDrops(w)
      PROVE  HoldersOwn'
  BY <1>1, <1>9 DEF ClaimBegins, LockRow, ClaimNothing, LoopTop, WaitBegins, WaitEnds, ClaimFails,
                    ListenFails,
                    ListenerDrops
<1> QED
  BY <1>2, <1>3, <1>4, <1>5, <1>6, <1>7, <1>8, <1>9 DEF Next, WorkerStep, Fault

\* A worker comes to the end of a job by the end of its handler only, where decide has
\* looked at the attempts that it still has in memory.
LEMMA TriesStep ==
    ASSUME TypeOK, Holding, Locking, WithinTries, [Next]_vars
    PROVE  WithinTries'
<1>1. ASSUME UNCHANGED <<pc, task>>
      PROVE  WithinTries'
  BY <1>1 DEF WithinTries
<1>2. ASSUME NEW w \in Workers, WorkerStep(w) \/ Fault(w)
      PROVE  WithinTries'
  <2>1. \A v \in Workers \ {w} : pc'[v] = pc[v]
    BY <1>2 DEF WorkerStep, Fault, ClaimBegins, LockRow, Claim, ClaimNothing, HandlerEnds, Finish,
                LoopTop, WaitBegins,
                WaitEnds, ClaimLost, ClaimFails, FinishFails, ListenFails, ListenerDrops, Crash,
                TypeOK
  <2>2. CASE HandlerEnds(w)
    <3>1. PICK outcome \in {"ok", "nonretryable", "error"} :
             task' = [task EXCEPT ![w].decision = Decide(outcome, task[w].attempts)]
      BY <2>2 DEF HandlerEnds
    <3>2. /\ task'[w].attempts = task[w].attempts
          /\ task'[w].decision = Decide(outcome, task[w].attempts)
          /\ \A v \in Workers \ {w} : task'[v] = task[v]
      BY <3>1, HandlerTasks
    <3>3. task[w].attempts \in Int /\ MaxAttempts \in Int
      BY AttemptsAssumption DEF TypeOK, Task
    <3>4. /\ Decide(outcome, task[w].attempts) = "dead" => task[w].attempts >= MaxAttempts
          /\ Decide(outcome, task[w].attempts) = "retry" => task[w].attempts < MaxAttempts
      BY <3>3 DEF Decide
    <3> QED
      BY <2>1, <3>2, <3>4 DEF WithinTries
  <2>3. CASE ~HandlerEnds(w)
    <3>1. pc'[w] # "finish" \/ (pc'[w] = pc[w] /\ task' = task)
      BY <1>2, <2>3
      DEF WorkerStep, Fault, ClaimBegins, LockRow, Claim, ClaimNothing, Finish, LoopTop,
          WaitBegins, WaitEnds,
          ClaimLost, ClaimFails, FinishFails, ListenFails, ListenerDrops, Crash, TypeOK
    <3>2. \A v \in Workers \ {w} : /\ task'[v].decision = task[v].decision
                                  /\ task'[v].attempts = task[v].attempts
      <4>1. CASE task' = task
        BY <4>1
      <4>2. CASE task' = [task EXCEPT ![w] = Idle]
        BY <4>2, IdleTasks
      <4>3. CASE Claim(w)
        BY <4>3, ClaimTasks DEF Claim, TakeJob
      <4>4. CASE ClaimLost(w)
        BY <4>4, ClaimLostTasks DEF ClaimLost
      <4> QED
        BY <1>2, <2>3, <4>1, <4>2, <4>3, <4>4
        DEF WorkerStep, Fault, ClaimBegins, LockRow, ClaimNothing, Finish, LoopTop, WaitBegins,
            WaitEnds, ClaimFails,
            FinishFails, ListenFails, ListenerDrops, Crash
    <3> QED
      BY <2>1, <3>1, <3>2 DEF WithinTries
  <2> QED
    BY <2>2, <2>3
<1> QED
  BY <1>1, <1>2 DEF Next, vars, Enqueue, Tick

\* No step makes a job absent, or counts an attempt of one that is.
LEMMA UnclaimedStep ==
    ASSUME TypeOK, Holding, Locking, Unclaimed, [Next]_vars
    PROVE  Unclaimed'
<1>1. \A i \in Ids : Aged(i) \/ Enqueued(i) \/ Claimed(i) \/ Settled(i)
  BY RowsStep
<1>2. \A i \in Ids : Enqueued(i) => jobs'[i].status = "pending"
  BY DEF Enqueued, Absent
<1> QED
  BY <1>1, <1>2 DEF Unclaimed, Aged, Claimed, Settled, SettledBy

\* The invariant that the refinement needs is inductive.
LEMMA InitHInv == Init => HInv
<1> SUFFICES ASSUME Init PROVE HInv
  OBVIOUS
<1>1. PICK k \in Keys : jobs = [i \in Ids |-> Absent(k)]
  BY DEF Init
<1> QED
  BY <1>1, InitIInv
  DEF Init, HInv, Absent, Idle, HoldersOwn, Holds, WithinTries, Unclaimed

\* Every step preserves the invariant of the holders.
LEMMA StepHInv == HInv /\ [Next]_vars => HInv'
BY StepIInv, HoldersStep, TriesStep, UnclaimedStep DEF HInv, IInv

\* The abstract state and the abstract holder of a job.
Phase(i) == CASE jobs[i].status = "absent" -> "unknown"
              [] jobs[i].status = "pending" -> "waiting"
              [] jobs[i].status = "running" -> "taken"
              [] OTHER -> jobs[i].status

Holder(i) == {w \in Workers : Holds(w, i)}

\* A claim is a Take by the worker that learns of it, or by nobody.
LEMMA ClaimTakes ==
    ASSUME HInv, NEW w \in Workers, Claim(w) \/ ClaimLost(w)
    PROVE  \E n \in Ids : \E who \in {{}} \union {{v} : v \in Workers} : Promised!Take(n, who)
<1> USE DEF HInv, IInv
<1>1. PICK n \in Ids :
         /\ TakeJob(w, n)
         /\ \/ Claim(w) /\ task' = [Superseded(n) EXCEPT ![w] =
                 [job |-> n, attempts |-> Counted(jobs[n].attempts),
                  decision |-> "done", latest |-> TRUE]]
            \/ ClaimLost(w) /\ task' = Superseded(n)
  BY DEF Claim, ClaimLost
<1>2. /\ jobs[n].status \in Active /\ jobs'[n].status = "running"
      /\ jobs'[n].key = jobs[n].key
      /\ jobs'[n].attempts = Counted(jobs[n].attempts)
      /\ \A i \in Ids \ {n} : jobs'[i] = jobs[i]
  BY <1>1, TakeJobClaims DEF Claimed
<1>3. \E who \in {{}} \union {{v} : v \in Workers} :
         Holder(n)' = who /\ \A i \in Ids \ {n} : Holder(i)' = Holder(i)
  <2>1. CASE Claim(w) /\ task' = [Superseded(n) EXCEPT ![w] =
                 [job |-> n, attempts |-> Counted(jobs[n].attempts),
                  decision |-> "done", latest |-> TRUE]]
    <3>1. pc[w] = "claim"
      BY <2>1 DEF Claim, TakeJob
    <3>2. /\ task'[w].job = n /\ task'[w].latest
          /\ \A v \in Workers \ {w} : ~Holds(v, n)'
          /\ \A v \in Workers, i \in Ids \ {n} : Holds(v, i)' <=> Holds(v, i)
      BY <2>1, <3>1, ClaimTasks
    <3>3. Holds(w, n)'
      BY <3>2 DEF Holds
    <3>4. Holder(n)' = {w} /\ \A i \in Ids \ {n} : Holder(i)' = Holder(i)
      BY <3>2, <3>3 DEF Holder
    <3> QED
      BY <3>4
  <2>2. CASE ClaimLost(w) /\ task' = Superseded(n)
    <3>1. /\ \A v \in Workers : ~Holds(v, n)'
          /\ \A v \in Workers, i \in Ids \ {n} : Holds(v, i)' <=> Holds(v, i)
      BY <2>2, ClaimLostTasks
    <3>2. Holder(n)' = {} /\ \A i \in Ids \ {n} : Holder(i)' = Holder(i)
      BY <3>1 DEF Holder
    <3> QED
      BY <3>2
  <2> QED
    BY <1>1, <2>1, <2>2
<1>4. PICK who \in {{}} \union {{v} : v \in Workers} :
         Holder(n)' = who /\ \A i \in Ids \ {n} : Holder(i)' = Holder(i)
  BY <1>3
<1>5. /\ Phase(n) \in {"waiting", "taken"} /\ Phase(n)' = "taken"
      /\ \A i \in Ids \ {n} : Phase(i)' = Phase(i)
  BY <1>2 DEF Phase, Active
<1>6. Promised!Take(n, who)
  BY <1>2, <1>4, <1>5
  DEF Promised!Take, Promised!Live, Phase, Holder, Holds, Counted
<1> QED
  BY <1>6

\* The end of a worker's work on a job it holds is a Settle, a GiveBack or an Abandon; a
\* worker that holds no job changes nothing that the abstract queue shows.
LEMMA EndSettles ==
    ASSUME HInv, NEW w \in Workers, Finish(w) \/ FinishFails(w) \/ Crash(w)
    PROVE  Promised!TNext \/ UNCHANGED Promised!tvars
<1> USE DEF HInv, IInv
<1>1. task' = [task EXCEPT ![w] = Idle]
  BY DEF Finish, FinishFails, Crash
<1>2. /\ \A i \in Ids : ~Holds(w, i)'
      /\ \A v \in Workers \ {w} : task'[v] = task[v]
  BY <1>1, IdleTasks
<1>3. \A i \in Ids : jobs'[i] = jobs[i] \/ SettledBy(w, i)
  BY WriteOutcomeSettles DEF Finish, FinishFails, Crash
<1>4. CASE \A i \in Ids : ~Holds(w, i)
  <2>1. \A i \in Ids : ~SettledBy(w, i)
    BY <1>4 DEF SettledBy, Fenced, Holds
  <2>2. \A i \in Ids : jobs'[i] = jobs[i]
    BY <1>3, <2>1
  <2>3. \A v \in Workers, i \in Ids : Holds(v, i)' <=> Holds(v, i)
    BY <1>2, <1>4 DEF Holds
  <2> QED
    BY <2>2, <2>3 DEF Promised!tvars, Holds
<1>5. ASSUME NEW n \in Ids, Holds(w, n)
      PROVE  Promised!TNext
  <2>1. Owns(w, n) /\ task[w].attempts = jobs[n].attempts
    BY <1>5 DEF HoldersOwn
  <2>2. \A v \in Workers : Holds(v, n) => v = w
    BY <2>1 DEF HoldersOwn, Owns
  <2>3. /\ Holder(n) # {} /\ Holder(n)' = {}
        /\ \A i \in Ids \ {n} : Holder(i)' = Holder(i)
    <3>1. \A v \in Workers : ~Holds(v, n)'
      BY <1>2, <2>2 DEF Holds
    <3>2. \A v \in Workers, i \in Ids \ {n} : Holds(v, i)' <=> Holds(v, i)
      BY <1>2, <1>5 DEF Holds
    <3> QED
      BY <1>5, <3>1, <3>2 DEF Holder
  <2>4. \A i \in Ids \ {n} : jobs'[i] = jobs[i]
    BY <1>3, <1>5 DEF SettledBy, Holds
  <2>5. CASE jobs'[n] = jobs[n]
    <3>1. \A i \in Ids : jobs'[i] = jobs[i]
      BY <2>4, <2>5
    <3>2. [i \in Ids |-> Holder(i)]' = [[i \in Ids |-> Holder(i)] EXCEPT ![n] = {}]
      BY <2>3
    <3>3. [i \in Ids |-> Holder(i)][n] # {}
      BY <2>3
    <3>4. UNCHANGED <<[i \in Ids |-> Phase(i)], [i \in Ids |-> jobs[i].key],
                      [i \in Ids |-> jobs[i].attempts]>>
      BY <3>1 DEF Phase
    <3>5. Promised!Abandon(n)
      BY ONLY <3>2, <3>3, <3>4 DEF Promised!Abandon, Holder, Holds, Phase
    <3> QED
      BY <3>5 DEF Promised!TNext
  <2>6. CASE SettledBy(w, n)
    <3>1. /\ jobs[n].status = "running" /\ pc[w] = "finish"
          /\ jobs'[n].key = jobs[n].key /\ jobs'[n].attempts = jobs[n].attempts
      BY <2>6 DEF SettledBy, Owns
    <3>2. /\ task[w].decision = "dead" => jobs[n].attempts >= MaxAttempts
          /\ task[w].decision = "retry" => jobs[n].attempts < MaxAttempts
      BY <2>1, <3>1 DEF WithinTries
    <3>3. CASE task[w].decision = "retry"
      <4>1. jobs'[n].status = "pending"
        BY <2>6, <3>3 DEF SettledBy
      <4>2. Promised!GiveBack(n)
        BY <2>3, <2>4, <3>1, <3>2, <3>3, <4>1 DEF Promised!GiveBack, Phase, Holder, Holds
      <4> QED
        BY <4>2 DEF Promised!TNext
    <3>4. CASE task[w].decision # "retry"
      <4>1. task[w].decision \in Decisions
        BY DEF TypeOK, Task
      <4>2. PICK outcome \in {"done", "failed", "dead"} :
               outcome = task[w].decision /\ jobs'[n].status = outcome
        BY <2>6, <3>4, <4>1 DEF SettledBy, Decisions
      <4>3. outcome = "dead" => jobs[n].attempts >= MaxAttempts
        BY <3>2, <4>2
      <4>4. [i \in Ids |-> Holder(i)]' = [[i \in Ids |-> Holder(i)] EXCEPT ![n] = {}]
        BY <2>3
      <4>5. [i \in Ids |-> Phase(i)]' = [[i \in Ids |-> Phase(i)] EXCEPT ![n] = outcome]
        BY <2>4, <4>2 DEF Phase
      <4>6. UNCHANGED <<[i \in Ids |-> jobs[i].key], [i \in Ids |-> jobs[i].attempts]>>
        BY <2>4, <3>1
      <4>7. /\ [i \in Ids |-> Phase(i)][n] = "taken"
            /\ [i \in Ids |-> Holder(i)][n] # {}
            /\ outcome = "dead" => [i \in Ids |-> jobs[i].attempts][n] >= MaxAttempts
        BY <2>3, <3>1, <4>3 DEF Phase
      <4>8. Promised!Settle(n, outcome)
        BY ONLY <4>4, <4>5, <4>6, <4>7 DEF Promised!Settle, Phase, Holder, Holds
      <4> QED
        BY <4>8 DEF Promised!TNext
    <3> QED
      BY <3>3, <3>4
  <2> QED
    BY <1>3, <2>5, <2>6
<1> QED
  BY <1>4, <1>5

\* enqueue is a Submit of a job that nobody has.
LEMMA EnqueueSubmits ==
    ASSUME HInv, NEW k \in Keys, Enqueue(k)
    PROVE  \E n \in Ids : Promised!Submit(n, k)
<1> USE DEF HInv, IInv
<1>1. PICK n \in Ids : /\ NextId(n) /\ ~ActiveKey(k)
                       /\ jobs' = [jobs EXCEPT ![n] = [Absent(k) EXCEPT !.status = "pending"]]
  BY DEF Enqueue
<1>2. /\ jobs'[n].status = "pending" /\ jobs'[n].key = k /\ jobs'[n].attempts = 0
      /\ \A i \in Ids \ {n} : jobs'[i] = jobs[i]
  BY <1>1 DEF TypeOK, Absent
<1>3. jobs[n].status = "absent" /\ jobs[n].attempts = 0
  BY <1>1 DEF NextId, Unclaimed
<1>4. \A i \in Ids : jobs[i].status \in Active => jobs[i].key # k
  BY <1>1 DEF ActiveKey
<1>5. /\ Phase(n) = "unknown" /\ Phase(n)' = "waiting"
      /\ \A i \in Ids \ {n} : Phase(i)' = Phase(i)
  BY <1>2, <1>3 DEF Phase
<1>6. \A i \in Ids : Phase(i) \in {"waiting", "taken"} => jobs[i].key # k
  BY <1>4 DEF Phase, Active, TypeOK, Row, Terminal
<1>7. task' = task
  BY DEF Enqueue
<1>8. Promised!Submit(n, k)
  BY <1>2, <1>3, <1>5, <1>6, <1>7 DEF Promised!Submit, Promised!Live, Phase
<1> QED
  BY <1>8

\* A step that neither changes what the table says of a job nor who holds it is none of
\* the abstract queue.
LEMMA Unnoticed ==
    ASSUME \A i \in Ids : /\ jobs'[i].status = jobs[i].status
                          /\ jobs'[i].key = jobs[i].key
                          /\ jobs'[i].attempts = jobs[i].attempts,
           \A v \in Workers, i \in Ids : Holds(v, i)' <=> Holds(v, i)
    PROVE  UNCHANGED Promised!tvars
BY DEF Promised!tvars, Holds

\* Every step of the queue is a step of the abstract one, or none.
LEMMA StepRefines == HInv /\ [Next]_vars => [Promised!TNext]_(Promised!tvars)
<1> SUFFICES ASSUME HInv, [Next]_vars PROVE Promised!TNext \/ UNCHANGED Promised!tvars
  OBVIOUS
<1>1. ASSUME NEW k \in Keys, Enqueue(k) PROVE Promised!TNext
  BY <1>1, EnqueueSubmits DEF Promised!TNext
<1>2. ASSUME NEW w \in Workers, Claim(w) \/ ClaimLost(w) PROVE Promised!TNext
  BY <1>2, ClaimTakes DEF Promised!TNext
<1>3. ASSUME NEW w \in Workers, Finish(w) \/ FinishFails(w) \/ Crash(w)
      PROVE  Promised!TNext \/ UNCHANGED Promised!tvars
  BY <1>3, EndSettles
<1>4. ASSUME NEW w \in Workers, HandlerEnds(w) PROVE UNCHANGED Promised!tvars
  <2>1. PICK d : task' = [task EXCEPT ![w].decision = d]
    BY <1>4 DEF HandlerEnds
  <2>2. \A v \in Workers, i \in Ids : Holds(v, i)' <=> Holds(v, i)
    BY <2>1, HandlerTasks DEF HInv, IInv, Holds
  <2>3. jobs' = jobs
    BY <1>4 DEF HandlerEnds
  <2> QED
    BY <2>2, <2>3, Unnoticed
<1>5. ASSUME UNCHANGED <<jobs, task>> PROVE UNCHANGED Promised!tvars
  BY <1>5, Unnoticed DEF Holds
<1>6. CASE Tick
  BY <1>6, TickAges, Unnoticed DEF HInv, IInv, Tick, Aged, Holds
<1> QED
  BY <1>1, <1>2, <1>3, <1>4, <1>5, <1>6
  DEF Next, vars, WorkerStep, Fault, ClaimBegins, LockRow, ClaimNothing, LoopTop, WaitBegins,
      WaitEnds, ClaimFails,
      ListenFails, ListenerDrops

\* The empty table is the empty abstract queue.
LEMMA InitRefines == Init => Promised!TInit
<1> SUFFICES ASSUME Init PROVE Promised!TInit
  OBVIOUS
<1>1. PICK k \in Keys : jobs = [i \in Ids |-> Absent(k)]
  BY DEF Init
<1>2. \A i \in Ids : /\ Phase(i) = "unknown" /\ jobs[i].key = k /\ jobs[i].attempts = 0
                     /\ Holder(i) = {}
  BY <1>1 DEF Init, Absent, Phase, Holder, Holds, Idle
<1> QED
  BY <1>2 DEF Promised!TInit, Phase, Holder, Holds

\* The queue with its leases, its crashes and its lost answers implements the abstract
\* one: only the latest taker settles a job or gives it back, within its tries.
THEOREM Refinement == Spec => ImplementsTaskQueue
<1>1. Spec => []HInv
  BY InitHInv, StepHInv, PTL DEF Spec
<1> QED
  BY <1>1, InitRefines, StepRefines, PTL DEF Spec, ImplementsTaskQueue, Promised!TSpec
=============================================================================
