----------------------------- MODULE JobQueue -----------------------------
(***************************************************************************)
(* One queue of the table `jobs` (app/jobs/queue.py) and the workers that  *)
(* drain it (app/jobs/worker.py).                                          *)
(*                                                                         *)
(* A domain transaction enqueues a job under an idempotency key that is    *)
(* unique among the active jobs; a worker claims the earliest ready job,   *)
(* runs its handler, and writes the outcome under its own name.  A claim   *)
(* is one statement in three steps: it reads the table, locks a row that   *)
(* nobody has locked, and commits; until then another claim skips the row  *)
(* and finds the queue empty.  A worker may die, stall past the lease of   *)
(* its claim, or lose the answer to its claim or to its outcome;           *)
(* LISTEN/NOTIFY wakes idle workers, a poll stands in for lost             *)
(* notifications.                                                          *)
(*                                                                         *)
(* Time is relative: due is run_at - now, held is now - locked_at and age  *)
(* is how long a claim has been under way, all in ticks and all            *)
(* saturating, so that the state space is finite without a last moment.    *)
(***************************************************************************)
EXTENDS Integers, FiniteSets

CONSTANTS
    Workers,        \* the worker processes of the queue
    Keys,           \* idempotency keys
    Ids,            \* serial numbers of jobs: a bound on the jobs ever created
    MaxAttempts,    \* jobs.max_attempts, the same for every job
    AttemptCap,     \* bound: attempts saturates here, above MaxAttempts
    Lease,          \* LEASE, in ticks
    BackoffBase, BackoffCap,   \* BACKOFF_BASE and BACKOFF_CAP, in ticks
    OldAge,         \* bound: a job overdue by more ticks counts as this overdue
    NoWorker        \* locked_by is null

ASSUME WorkersAssumption == NoWorker \notin Workers
ASSUME IdsAssumption == Ids \subseteq Nat \ {0}
ASSUME AttemptsAssumption ==
    /\ MaxAttempts \in Nat \ {0}
    /\ AttemptCap \in Nat
    /\ MaxAttempts < AttemptCap
ASSUME TimesAssumption ==
    /\ Lease \in Nat
    /\ OldAge \in Nat
    /\ BackoffBase \in Nat \ {0}
    /\ BackoffCap \in Nat \ {0}
\* A fact of arithmetic, over the attempts counted, that the provers do not know.
ASSUME PowersAssumption == \A n \in 0 .. AttemptCap : 2 ^ n > 0

VARIABLES
    jobs,       \* the rows of the table, by serial number
    pc,         \* where each worker's loop is
    claim,      \* the claim each worker has under way in the database
    task,       \* the job each worker holds in memory
    wakeup,     \* the worker's asyncio.Event
    listening,  \* the worker's LISTEN connection is up
    rolledBack  \* auxiliary: the jobs whose last claim was rolled back

vars == <<jobs, pc, claim, task, wakeup, listening, rolledBack>>

NoJob == 0
Active == {"pending", "running"}
Terminal == {"done", "failed", "dead"}
Decisions == {"done", "retry", "dead", "failed"}

MaxDelay == (5 * BackoffCap) \div 4

Row == [status : Active \union Terminal \union {"absent"},
        key : Keys,
        due : -OldAge .. MaxDelay,
        attempts : 0 .. AttemptCap,
        owner : Workers \union {NoWorker},
        held : 0 .. Lease + 1]

\* latest is auxiliary: no other worker has claimed the job since.
Task == [job : Ids \union {NoJob},
         attempts : 0 .. AttemptCap,
         decision : Decisions,
         latest : BOOLEAN]

\* sees: the ready rows of the statement's snapshot; job: the row it has locked.
OpenClaim == [sees : SUBSET Ids, job : Ids \union {NoJob}, age : 0 .. Lease + 1]

NoClaim == [sees |-> {}, job |-> NoJob, age |-> 0]

Idle == [job |-> NoJob, attempts |-> 0, decision |-> "done", latest |-> FALSE]

TypeOK ==
    /\ jobs \in [Ids -> Row]
    /\ pc \in [Workers -> {"top", "drain", "claim", "handle", "finish", "empty", "wait", "pause"}]
    /\ claim \in [Workers -> OpenClaim]
    /\ task \in [Workers -> Task]
    /\ wakeup \in [Workers -> BOOLEAN]
    /\ listening \in [Workers -> BOOLEAN]
    /\ rolledBack \subseteq Ids

\* A serial number not given out yet: its row does not exist, its fields mean nothing.
Absent(k) == [status |-> "absent", key |-> k, due |-> 0, attempts |-> 0,
              owner |-> NoWorker, held |-> 0]

Init ==
    /\ \E k \in Keys : jobs = [i \in Ids |-> Absent(k)]
    /\ pc = [w \in Workers |-> "top"]
    /\ task = [w \in Workers |-> Idle]
    /\ wakeup = [w \in Workers |-> FALSE]
    /\ listening = [w \in Workers |-> FALSE]
    /\ claim = [w \in Workers |-> NoClaim]
    /\ rolledBack = {}

---------------------------------------------------------------------------
(* enqueue: INSERT ... ON CONFLICT (key) WHERE active DO NOTHING, and NOTIFY
   when a row was inserted.  It is one step because it commits with the
   transaction of the domain operation.                                    *)

\* Variant: an index over the waiting jobs only.
ActiveKeyWaiting(k) == \E i \in Ids : jobs[i].status = "pending" /\ jobs[i].key = k

ActiveKey(k) == \E i \in Ids : jobs[i].status \in Active /\ jobs[i].key = k

NextId(i) == /\ jobs[i].status = "absent"
             /\ \A h \in Ids : jobs[h].status = "absent" => i <= h

Enqueue(k) ==
    \E i \in Ids :
        /\ NextId(i)
        /\ ~ActiveKey(k)
        /\ jobs' = [jobs EXCEPT ![i] = [Absent(k) EXCEPT !.status = "pending"]]
        /\ wakeup' = [w \in Workers |-> wakeup[w] \/ listening[w]]
        /\ UNCHANGED <<pc, claim, task, listening, rolledBack>>

---------------------------------------------------------------------------
(* claim: CLAIM_SQL, in a transaction of its own.                          *)

\* Variant: a job left running is nobody's to claim.
ReadyPending(i) == jobs[i].status = "pending" /\ jobs[i].due <= 0

Ready(i) == \/ jobs[i].status = "pending" /\ jobs[i].due <= 0
            \/ jobs[i].status = "running" /\ jobs[i].held > Lease

\* order by run_at, id: rows at the saturation bound are not told apart.
NotAfter(i, j) == \/ jobs[i].due < jobs[j].due
                  \/ jobs[i].due = jobs[j].due /\ (i <= j \/ jobs[i].due = -OldAge)

\* The row is locked by a claim that has not committed.
Locked(i) == \E v \in Workers : claim[v].job = i

\* Variant: the outcome is written to whatever runs under this number.
OwnsUnfenced(w, i) == jobs[i].status = "running"

Owns(w, i) == jobs[i].status = "running" /\ jobs[i].owner = w

\* The row may be locked: its owner may be writing the outcome.
Closing(i) == \E v \in Workers : pc[v] = "finish" /\ task[v].job = i /\ Owns(v, i)

\* The statement begins: its snapshot, and now(), which locked_at will be.
ClaimBegins(w) ==
    /\ pc[w] = "drain"
    /\ pc' = [pc EXCEPT ![w] = "claim"]
    /\ claim' = [claim EXCEPT ![w] = [NoClaim EXCEPT !.sees = {i \in Ids : Ready(i)}]]
    /\ UNCHANGED <<jobs, task, wakeup, listening, rolledBack>>

\* for update skip locked, limit 1: the first row of the snapshot that is still
\* ready and that nobody has locked.
First(w, i) ==
    /\ i \in claim[w].sees
    /\ Ready(i) /\ ~Locked(i)
    /\ \A j \in claim[w].sees :
          Ready(j) /\ ~Locked(j) /\ ~Closing(j) => NotAfter(i, j)

LockRow(w) ==
    /\ pc[w] = "claim"
    /\ claim[w].job = NoJob
    /\ \E i \in Ids : First(w, i) /\ claim' = [claim EXCEPT ![w].job = i]
    /\ UNCHANGED <<jobs, pc, task, wakeup, listening, rolledBack>>

\* Every row of the snapshot is no longer ready, or locked by somebody who may
\* still roll back.
ClaimNothing(w) ==
    /\ pc[w] = "claim"
    /\ claim[w].job = NoJob
    /\ \A i \in claim[w].sees : Ready(i) => Locked(i) \/ Closing(i)
    /\ pc' = [pc EXCEPT ![w] = "empty"]
    /\ claim' = [claim EXCEPT ![w] = NoClaim]
    /\ UNCHANGED <<jobs, task, wakeup, listening, rolledBack>>

Counted(n) == IF n < AttemptCap THEN n + 1 ELSE n

\* The update commits: locked_at is the moment its transaction began.
TakeJob(w, i) ==
    /\ pc[w] = "claim"
    /\ claim[w].job = i
    /\ jobs' = [jobs EXCEPT ![i].status = "running", ![i].owner = w, ![i].held = claim[w].age,
                            ![i].attempts = Counted(@)]
    /\ claim' = [claim EXCEPT ![w] = NoClaim]
    /\ rolledBack' = rolledBack \ {i}

\* The tasks of the workers once job i is claimed anew.
Superseded(i) == [v \in Workers |->
                    IF task[v].job = i THEN [task[v] EXCEPT !.latest = FALSE] ELSE task[v]]

Claim(w) ==
    /\ \E i \in Ids :
        /\ TakeJob(w, i)
        /\ task' = [Superseded(i) EXCEPT ![w] =
                        [job |-> i, attempts |-> Counted(jobs[i].attempts),
                         decision |-> "done", latest |-> TRUE]]
    /\ pc' = [pc EXCEPT ![w] = "handle"]
    /\ UNCHANGED <<wakeup, listening>>

\* The claim commits and its answer is lost: the row runs for a worker that
\* does not know of it.
ClaimLost(w) ==
    /\ \E i \in Ids : TakeJob(w, i) /\ task' = Superseded(i)
    /\ pc' = [pc EXCEPT ![w] = "pause"]
    /\ UNCHANGED <<wakeup, listening>>

\* The transaction ends with nothing done, and the row it had locked is free again.
RollBack(w) ==
    /\ claim' = [claim EXCEPT ![w] = NoClaim]
    /\ rolledBack' = rolledBack \union ({claim[w].job} \ {NoJob})

ClaimFails(w) ==
    /\ pc[w] \in {"drain", "claim"}
    /\ RollBack(w)
    /\ pc' = [pc EXCEPT ![w] = "pause"]
    /\ UNCHANGED <<jobs, task, wakeup, listening>>

---------------------------------------------------------------------------
(* process_one: the handler, decide, and the outcome written by the owner. *)

\* Variant: one attempt more than max_attempts.
DecideLate(outcome, attempts) ==
    CASE outcome = "ok" -> "done"
      [] outcome = "nonretryable" -> "failed"
      [] outcome = "error" -> IF attempts > MaxAttempts THEN "dead" ELSE "retry"

\* decide: what becomes of the job after the handler's outcome.
Decide(outcome, attempts) ==
    CASE outcome = "ok" -> "done"
      [] outcome = "nonretryable" -> "failed"
      [] outcome = "error" -> IF attempts >= MaxAttempts THEN "dead" ELSE "retry"

HandlerEnds(w) ==
    /\ pc[w] = "handle"
    /\ \E outcome \in {"ok", "nonretryable", "error"} :
        task' = [task EXCEPT ![w].decision = Decide(outcome, task[w].attempts)]
    /\ pc' = [pc EXCEPT ![w] = "finish"]
    /\ UNCHANGED <<jobs, claim, wakeup, listening, rolledBack>>

\* backoff: doubling from the base up to the cap, then up to a quarter more.
Nominal(attempt) ==
    LET doubled == BackoffBase * 2 ^ (attempt - 1)
    IN  IF doubled < BackoffCap THEN doubled ELSE BackoffCap
\* Variant: the jitter is a factor of up to two.
BackoffDoubled(attempt) == Nominal(attempt) .. 2 * Nominal(attempt)

Backoff(attempt) == Nominal(attempt) .. (5 * Nominal(attempt)) \div 4

\* complete, bury and fail (_finish), and retry: the row after the outcome.
Outcomes(row, t) ==
    IF t.decision = "retry"
    THEN {[row EXCEPT !.status = "pending", !.owner = NoWorker, !.held = 0, !.due = d] :
             d \in Backoff(t.attempts)}
    ELSE {[row EXCEPT !.status = t.decision, !.owner = NoWorker, !.held = 0]}

\* The update waits while a claim has the row locked.
WriteOutcome(w) ==
    LET i == task[w].job IN
    IF Owns(w, i)
    THEN ~Locked(i) /\ \E row \in Outcomes(jobs[i], task[w]) : jobs' = [jobs EXCEPT ![i] = row]
    ELSE jobs' = jobs          \* LookupError: logged, nothing to finish

Finish(w) ==
    /\ pc[w] = "finish"
    /\ WriteOutcome(w)
    /\ pc' = [pc EXCEPT ![w] = "drain"]
    /\ task' = [task EXCEPT ![w] = Idle]
    /\ UNCHANGED <<claim, wakeup, listening, rolledBack>>

\* The write fails, or it commits and its answer is lost.
FinishFails(w) ==
    /\ pc[w] = "finish"
    /\ jobs' = jobs \/ WriteOutcome(w)
    /\ pc' = [pc EXCEPT ![w] = "pause"]
    /\ task' = [task EXCEPT ![w] = Idle]
    /\ UNCHANGED <<claim, wakeup, listening, rolledBack>>

---------------------------------------------------------------------------
(* run: the worker's loop around run_once, with LISTEN and the poll.       *)

LoopTop(w) ==
    /\ pc[w] = "top"
    /\ wakeup' = [wakeup EXCEPT ![w] = FALSE]
    /\ listening' = [listening EXCEPT ![w] = TRUE]
    /\ pc' = [pc EXCEPT ![w] = "drain"]
    /\ UNCHANGED <<jobs, claim, task, rolledBack>>

ListenFails(w) ==
    /\ pc[w] = "top"
    /\ ~listening[w]
    /\ wakeup' = [wakeup EXCEPT ![w] = FALSE]
    /\ pc' = [pc EXCEPT ![w] = "pause"]
    /\ UNCHANGED <<jobs, claim, task, listening, rolledBack>>

\* Variant: the event is cleared before the wait.
WaitBeginsClearing(w) ==
    /\ pc[w] = "empty"
    /\ pc' = [pc EXCEPT ![w] = "wait"]
    /\ wakeup' = [wakeup EXCEPT ![w] = FALSE]
    /\ UNCHANGED <<jobs, claim, task, listening, rolledBack>>

\* run_once found nothing and the loop comes to _wait: jobs may have been enqueued
\* since the claim read the table.
WaitBegins(w) ==
    /\ pc[w] = "empty"
    /\ pc' = [pc EXCEPT ![w] = "wait"]
    /\ UNCHANGED <<jobs, claim, task, wakeup, listening, rolledBack>>

\* _wait returns: the event is set, or the poll interval or the pause is over.
WaitEnds(w) ==
    /\ pc[w] \in {"wait", "pause"}
    /\ pc' = [pc EXCEPT ![w] = "top"]
    /\ UNCHANGED <<jobs, claim, task, wakeup, listening, rolledBack>>

ListenerDrops(w) ==
    /\ listening[w]
    /\ listening' = [listening EXCEPT ![w] = FALSE]
    /\ wakeup' = [wakeup EXCEPT ![w] = TRUE]
    /\ UNCHANGED <<jobs, pc, claim, task, rolledBack>>

\* The process dies and its supervisor starts it again: memory is lost, the
\* row it was running stays as it is, the row it was claiming is free.
Crash(w) ==
    /\ pc' = [pc EXCEPT ![w] = "top"]
    /\ task' = [task EXCEPT ![w] = Idle]
    /\ wakeup' = [wakeup EXCEPT ![w] = FALSE]
    /\ listening' = [listening EXCEPT ![w] = FALSE]
    /\ RollBack(w)
    /\ UNCHANGED jobs

\* One tick of the database clock.
Tick ==
    /\ jobs' = [i \in Ids |->
         [jobs[i] EXCEPT
            !.due = IF jobs[i].status \in Active /\ @ > -OldAge THEN @ - 1 ELSE @,
            !.held = IF jobs[i].status = "running" /\ @ <= Lease THEN @ + 1 ELSE @]]
    /\ claim' = [w \in Workers |->
         [claim[w] EXCEPT !.age = IF pc[w] = "claim" /\ @ <= Lease THEN @ + 1 ELSE @]]
    /\ UNCHANGED <<pc, task, wakeup, listening, rolledBack>>

---------------------------------------------------------------------------
WorkerStep(w) ==
    \/ ClaimBegins(w) \/ LockRow(w) \/ Claim(w) \/ ClaimNothing(w)
    \/ HandlerEnds(w) \/ Finish(w)
    \/ LoopTop(w) \/ WaitBegins(w) \/ WaitEnds(w)

Fault(w) ==
    \/ ClaimLost(w) \/ ClaimFails(w) \/ FinishFails(w)
    \/ ListenFails(w) \/ ListenerDrops(w) \/ Crash(w)

Next ==
    \/ \E k \in Keys : Enqueue(k)
    \/ \E w \in Workers : WorkerStep(w) \/ Fault(w)
    \/ Tick

Spec == Init /\ [][Next]_vars

\* Time passes and a worker that is not hindered takes its next step: the loop
\* is a `while`, its waits are bounded by the poll interval, and a container
\* that exits is started again.
FairSpec ==
    /\ Spec
    /\ WF_vars(Tick)
    /\ \A w \in Workers : WF_vars(WorkerStep(w))

---------------------------------------------------------------------------
(* Properties.                                                             *)

\* The partial unique index and ON CONFLICT: two active jobs never share an
\* idempotency key, although jobs return to pending by retry and to running by
\* reclaiming.
ActiveKeysUnique ==
    \A i, j \in Ids :
        /\ jobs[i].status \in Active
        /\ jobs[j].status \in Active
        /\ jobs[i].key = jobs[j].key
        => i = j

\* Fencing by locked_by: a job stops running only by the outcome of the latest
\* claim.  A worker that stalled past its lease, or whose claim was taken over,
\* neither closes the job of its successor nor returns it to the queue; and
\* a job that is done, failed or dead never changes again.
FencedFinish ==
    [][\A i \in Ids :
        /\ jobs[i].status = "running" /\ jobs'[i].status # "running"
             => \E w \in Workers : task[w].job = i /\ task[w].latest /\ pc[w] = "finish"
        /\ jobs[i].status \in Terminal => jobs'[i] = jobs[i]]_vars

\* The worker will come to its claim without waiting for the poll or the pause
\* of another.
Awake(w) == pc[w] \notin {"empty", "wait"} \/ wakeup[w]

Fresh(i) == jobs[i].status = "pending" /\ jobs[i].attempts = 0

\* A claim that finds nothing may have skipped a row that another claim had locked,
\* and that one may roll back after the notification is spent.  A worker asleep with
\* its event unset leaves a fresh job behind only while a claim has the job locked or
\* after a claim of it was rolled back, and then some worker is awake to look again;
\* only retried and abandoned jobs wait for the poll.
NoLostWakeup ==
    \A w \in Workers :
        /\ pc[w] = "wait" /\ listening[w] /\ ~wakeup[w]
        => \A i \in Ids : Fresh(i) =>
              \/ Locked(i)
              \/ i \in rolledBack /\ \E v \in Workers : Awake(v)

Promised == INSTANCE TaskQueue WITH
    Takers <- Workers,
    Names <- Keys,
    Tasks <- Ids,
    MaxTries <- MaxAttempts,
    TryCap <- AttemptCap,
    state <- [i \in Ids |-> CASE jobs[i].status = "absent" -> "unknown"
                              [] jobs[i].status = "pending" -> "waiting"
                              [] jobs[i].status = "running" -> "taken"
                              [] OTHER -> jobs[i].status],
    name <- [i \in Ids |-> jobs[i].key],
    tries <- [i \in Ids |-> jobs[i].attempts],
    holder <- [i \in Ids |-> {w \in Workers : task[w].job = i /\ task[w].latest}]

\* The table, the leases and the fencing by locked_by implement the abstract
\* queue: whatever stalls, dies or loses its answer, a task is settled or given
\* back by its latest taker alone, gives up only after max_attempts claims and is
\* retried only before them.
ImplementsTaskQueue == Promised!TSpec

\* A handler, or the claim itself, outlives the lease.
Overrun ==
    /\ Tick
    /\ \E w \in Workers :
          \/ /\ pc[w] \in {"handle", "finish"} /\ task[w].latest
             /\ jobs[task[w].job].held = Lease
          \/ pc[w] = "claim" /\ claim[w].age = Lease

\* At-least-once (interfaces.md 5.8): once the faults and the overruns cease,
\* every active job, those a dead worker left running included, is settled
\* within its attempts.
EventuallySettled ==
    <>[][~Overrun /\ \A w \in Workers : ~Fault(w)]_vars
        => \A i \in Ids : [](jobs[i].status \in Active => <>(jobs[i].status \in Terminal))

\* What queue.py:13-17 promises of a job whose worker dies again and again: an
\* attempt is counted at every claim, so the job reaches dead.
DyingJobReachesDead ==
    \A i \in Ids :
        []<><<\E w \in Workers : Crash(w) /\ task[w].job = i>>_vars
            => <>(jobs[i].status \in Terminal)
=============================================================================
