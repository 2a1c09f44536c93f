# TLA+ models of the VPN control plane

This directory holds TLA+ specifications of the control plane
(`control-plane/app`), the TLC configurations that check them and TLAPS proofs.
The specifications follow the Python code and the SQL and Lua it executes. Where
the code differs from a docstring or from `docs/`, the code is what is modelled,
and the difference is a run that is expected to fail (see *Disagreements*).

`PROJECT.json` is the machine-readable index: components, runs, the lines each
definition models (`map`), hazards, mutants and theorems. The operators whose
comment begins with *Variant:* are not part of the model. They are the mistakes
the properties are meant to catch; each stands before the definition it is a
wrong form of, and `mutants` says which property fails when it takes its place.

    tlc -config JobQueueRaces.cfg MCJobQueue.tla
    tlapm JobQueueProofs.tla

## 1. The system

One PostgreSQL database is the only place where the components of the domain meet.
Requests of users, administrators and node agents run in transactions of the API
process; what must happen later is a row of `jobs` written in the same transaction
(an outbox), executed by worker processes. Redis holds sessions, rate counters and
a channel that wakes held agent requests. Agents poll the control plane with a
cursor; nothing is pushed to them.

| component | state | operations | hard behaviour |
|---|---|---|---|
| job queue, worker (`jobs/queue.py`, `jobs/worker.py`) | `jobs`, LISTEN connection, event of the worker | enqueue, claim, complete, retry, fail, bury; the loop | leases, zombies, crashes, lost notifications, retries |
| scheduler (`jobs/scheduler.py`) | advisory lock, slots a leader remembers | run, tick | a leader that lost its lock, a slot placed twice or never |
| composition, writing side (`domain/composition.py`) | `node_user_state`, `node_user_credentials`, `nodes.desired_users_seq`, advisory and row locks | publish_user, publish_node in batches | concurrent publications of one pair, stale reads, deduplicated continuations, a foreign cipher key |
| composition, reading side (`state_for`, `agent_api/state.py`) | cursor of the agent, `nodes.resync_required` | delta, snapshot, 204 | status changes between authentication and answer, lost answers, filtered answers, rows that cannot be opened |
| node statuses (`domain/statuses.py`) | `nodes.status` | transitions, gates | which part of the stream a status lets through |
| enrolment and identities (`domain/nodes.py`, `security/ca.py`) | `bootstrap_tokens`, `node_identities` | issue, enroll, approve, revoke, sign | races of four transactions, replayed tokens, the end of the CA |
| report acceptance (`accounting/service.py`) | `traffic_reports`, `report_intervals` | accept_report | duplicates, reordering, deadlines, caps, a revocation in between |
| subscriptions (`domain/subscriptions.py`) | `subscriptions`, `subscription_periods`, `balance_entries` | activate, renew, change_plan, add_traffic, expire, set_state | read committed: a joined row is as old as the statement |
| billing history (`domain/groups.py`, `domain/multiplier.py`) | `node_billing_assignments`, `billing_group_multipliers`, columns of `nodes` | set_billing_group, set_group_multiplier, delete_billing, resolve | moments that are not in commit order, EXCLUDE as arbiter, a group deleted meanwhile |
| plans, access groups | composition of plans | set_composition, delete_access, archive | what has to be republished |
| users, sessions (`domain/users.py`, `security/sessions.py`, `api/auth.py`) | `users`, `email_tokens`; keys of Redis | register, verify, login, reset; create, get, revoke, revoke_all | create against revoke_all, lifetime of the index, a crash between the two halves of a reset |
| rate limits (`security/ratelimit.py`) | sorted sets of Redis | check, peek, retry_after, reset | scripts in another order than their readings of the clock |
| cipher of a process (`security/crypto.py`) | `settings.field_cipher_check`, the key file, what a process remembers | verify_check, checked_cipher | first use by several processes with different keys |
| gate of the Node API (`body_shape.py`, `agent_api/body.py`) | none | shape_limits, problem | sums over nested types at their bounds |
| redeem codes (`domain/codes.py`) | none | generate_code, checksum_char, checksum_ok | which mistakes are noticed |
| the rest (inbounds, Xray configuration, profile, RBAC, CSRF, TOTP, other routes, CLI) | none of its own | conversions and checks | none that interleaves |

Quota, limits, device limits, reconciliation, aggregation, node commands and the service of
codes are declarations or stubs in the code; there is no behaviour to model yet. The node
agent (Go) and the web applications are skeletons.

**What makes each component correct.** The queue: at most one active job per key,
an outcome only by the holder of the claim, no committed job forgotten. The scheduler: a slot
is placed, and no oftener than leaders overlap. Publication: an idle queue means that every
node has the rows it is due, and the numbers of the rows are usable as cursors. The stream: a
revocation is never skipped, a hidden grant is made good. Enrolment: nobody is served
without an approval, one identity, one exchange. Reports: nothing counted twice, nothing
charged above the link. Subscriptions: the period in force decides. Billing history: it tiles,
and what the past is charged by stays. Sessions: what is live can be found and ended. The limit
limits. One key seals a database. The gate lets every valid body through. One mistake
in a code is noticed.

## 2. The modules

| module | models | abstracted |
|---|---|---|
| `TaskQueue` | what a queue promises: keyed tasks, taken as often as needed, settled once by the latest taker | leases, clocks, notifications |
| `JobQueue` | the table, the claim (snapshot, SKIP LOCKED, commit or rollback), the outcomes, the loop with its event, LISTEN and poll; `ImplementsTaskQueue` maps it to `TaskQueue` | payloads; jitter is a set of delays; time is relative and saturates |
| `Publication` | business operations with their outbox jobs, both publication handlers step by step between their transactions, both locks, the cipher check | the contents of a row; the queue is `JobQueue` seen from a handler: unique keys, reclaimed jobs, any order |
| `UsersStream` | what the rows of a node are to their readers: a log, written one row at a time under the next number of the node; `WritesStreams` maps `Publication` to it, `ReadsStream` the node of `StateStream` | jobs, batches, locks, crashes; keys of a row |
| `NodeStatus` | transition table, gates, effects of revocation and enrolment; no variables | |
| `StateStream` | one node: requests, the status read at authentication, the read of the rows, rows whose keys do not open, the answer, the agent's application | configuration and command channels; the order of operations of the agent is external |
| `Enrollment` | each operation as lock-and-read, then write-and-commit; several at once; the term of the CA | hashes, the contents of certificates, versions |
| `Reports` | one call of `accept_report` per action, since it runs under the row lock of the node: identity and gate looked at again, foreign lines dropped, intervals, caps, charge | online addresses, interface counters |
| `Subscription` | the snapshot, the wait for the row, the writes of every operation | money and volumes; `enqueue_publish_user` (it is `Commit` in `Publication`) |
| `BillingHistory` | begin, check, snapshot and wait of the closing update, insert, commit of a change of either history, with the refusals of the check, of the table's CHECK, of EXCLUDE and of the foreign key; groups created and deleted; `resolve` at every moment | the multiplier's value: it is told by the moment it was set; the audit record |
| `Accounts` | one user: links, logins, resets, and each call of Redis that sessions make | contents of a session, CSRF marks, mail |
| `RateLimit` | one counter: reading of the clock and, later, the script | names of keys |
| `Scheduler` | instances, the lock, slots, on the queue of `TaskQueue` | what a periodic task does |
| `FieldCipher` | the check of a process's key, call by call | the cipher: a container opens with the key it was sealed with |
| `BodyShape` | the limits derived from a model, the types the derivation falls through on included, and as a reference the forms its bodies can have; types stand in a table, each made of earlier ones | bytes: a body is what the gate counts in it, and which of its digits write an integer |
| `Codes` | a code, its control symbol, one mistake in typing it | case, hyphens, prefix |
| `ConcurrentSessions` | the sessions and the free row that `Enrollment`, `Subscription` and `BillingHistory` have in common; no variables | |
| `Transactions` | composition of `Subscription` and `BillingHistory` | |
| `Deployment` | composition of `Enrollment`, `Reports` and the six modules from `Accounts` on | |
| `MC*` | constants for TLC | |
| `JobQueueProofs`, `PublicationProofs`, `StateStreamProofs`, `EnrollmentProofs`, `ReportsProofs`, `SubscriptionProofs`, `BillingHistoryProofs` | theorems about the module of that name | |
| `PartsProofs` | theorems about `Accounts`, `Scheduler`, `RateLimit`, `FieldCipher`, `BodyShape` and `Codes` | |

`StateStream` and `Enrollment` extend `NodeStatus`, so the gate of the stream and the
guards of approval come from one transition table. `Scheduler` uses the actions of
`TaskQueue`, which the `job_queue` run shows `JobQueue` to implement. `Publication` and
`StateStream` each have an instance of `UsersStream`. `Publication` does not
extend `JobQueue`: it takes over the three facts of the queue that its handlers depend on and
leaves out timers and notifications.

`Deployment` and `Transactions` put together parts of which none writes what another writes; what
one reads of another (`trusted` of `Reports`: that the identity is still good) may change at any
moment in its own module. Their product would only multiply states that have nothing to do with each other, so the constant
variable `moving` (`serving`) names the part that takes steps while the others stay where they
begin. Every behaviour of a part alone is a behaviour of the composition (in `Transactions` up to
the name of the group the node begins in), and its properties are those of its parts. Some names
carry the part they belong to (`subTx`, `nodeLock`, `DueToClose`), since the modules are extended
together.

How the code's steps became actions: a statement, or a run of statements whose
intermediate states no other transaction can see or be affected by, is one action.
A statement that waits for a lock is two where it has read something before the wait
(`Ask`/`Lock` of `Subscription`, `CloseBegins`/`Close` of `BillingHistory`) or
holds a row that others pass over (`ClaimBegins`, `LockRow`, `Claim` or `ClaimNothing` of
`JobQueue`); a handler that spans
several transactions is one action per transaction and per read between them
(`LockPublishedUser`, `ReadCandidates`, `TakePair`, `CommitPair`, ... of `Publication`).
A MULTI or a Lua script of Redis is one action; two calls in a row are two
(`Gather`, `RevokeAll` of `Accounts`; `ReadClock`, `Check` of `RateLimit`). A rollback, for
whatever reason, is one action that releases the locks.

## 3. The runs

| run | question | bounds |
|---|---|---|
| `job_queue` | fencing, keys, wake-ups; each step is one of `TaskQueue` | 2 workers, 2 jobs of 1 or 2 keys, 2 attempts, a lease that ends with the next tick: a worker stalls past its lease, its job is taken over, ends, and its key is enqueued again while the first still runs; one claim skips the row another has locked and rolls back |
| `job_queue_settles` | every job settles once faults and overruns cease | 2 workers, 1 job, 2 attempts, lease of 1 tick |
| `job_queue_dying` (expected to fail) | a job that kills its worker becomes dead | 1 worker, 1 job, 2 attempts |
| `publication` | idle queue = published; the rows are the log of `UsersStream`; locks | 2 users, 1 node, 2 plans, 2 workers, 2 operations, 1 fault: two jobs of one pair run against each other, one of them twice |
| `publication_batches` | withheld rows; the queue drains although workers wait for each other | 3 users, 1 node, 2 workers, batches of 1, 1 operation, 1 fault, a foreign key allowed: two continuations in the chain of a node, and a worker that lost its lease holds, or waits for, locks the other one wants |
| `publication_two_chains` (expected to fail) | two chains on two workers | as `publication`, batches of 1 |
| `state_stream` | no skipped revocation, convergence | 2 users, 3 publications, all statuses: grant, revocation and a further change of each order, and a pair spoilt between them |
| `transactions` | two operations of a subscription at once; two changes of a history at once, clock set back, groups deleted | 2 sessions; 3 periods, 2 plans of different length, clock of 2; 1 node, 2 groups, 3 rows of history, clock of 3: a change commits between any two statements of another |
| `subscription_renewal` (expected to fail) | a renewal follows what is in force | as `transactions` |
| `billing_two_changes` (expected to fail) | of two changes at once one is refused | as `transactions`, 4 rows of history |
| `deployment` | the parts that share no rows | see below |
| `deployment_reset` (expected to fail) | nobody is logged in by an earlier password but while a reset is under way | the same |

Bounds of `deployment`. The four operations of enrolment and the end of the CA: 2 sessions, 3
tokens, 3 identities, so that a replacement is replaced again. Reports: 2 epochs, 2 numbers, 2
parts, a clock to 5 with deadline 2 and age 3, and the assignment to a group at 1, so that every
reason to close and every reason to refuse is reached. The parts around the domain: 2 requests
and 2 sessions of one user with 3 links, so that a login and a reset, or two resets, cross; a limit of 2 in 4 ticks with scripts 1 tick late; 2
schedulers, 3 slots and 2 mishaps, so that both lead at once; 3 processes with 2 key files;
six models of bodies with nested lists, optional parts, free text, an empty list, and fractions
and moments beside numbers; 3
codes whose neighbours are alike, near, 16 apart and far, with every mistake of one symbol or
one swap.

Two concurrent actors are enough for the races here: each property concerns a pair of
transactions on one row or one key, and a third only repeats the role of one of them.
Three rows of a kind (periods, tokens, identities, intervals) allow the state after
a race to be raced for again; of the histories of billing the theorems
(`NoGaps`, `FollowsClosed`, `ForGood`) go beyond the two changes the bounds allow. Symmetry is
used for model values in runs without liveness properties only. Runs that check safety of transactions disable the deadlock
check where the bounds, or the lack of further work, let the system stop.

Each module has a type invariant. The run of `JobQueue` checks its own; those of the others
hold in the same configurations when they are named there. Those of `JobQueue`, `Publication`,
`StateStream`, `Enrollment`, `Reports`, `Subscription` and `BillingHistory` are proved
(`TypeCorrect` of each); those of the parts are in the invariants of `PartsProofs`, without the
bounds that only TLC needs.

### Fairness

- `JobQueue!FairSpec`: the clock ticks and a worker that can step does. A process
  loop without a stop event does exactly this; it does not assume that a handler
  succeeds, that a listener stays up or that a crash does not happen: the property
  itself is conditional on the faults, and claims and handlers that outlive the lease, ceasing.
- `Publication!FairSpec` (`publication_batches`): weak fairness of a claim (the loop polls), strong fairness of
  a worker's step. The steps wait for row and advisory locks, which PostgreSQL grants in
  the order of the requests, so a waiter is not overtaken for ever.
- `StateStream!FairSpec`: the agent keeps asking and the service keeps answering; the
  strong conditions say that not every request is lost, which is what a working link is.
- `Deployment!Fairness`: each scheduler goes on with its loop (weak, one condition per
  instance), which is a `while` around bounded waits. Mishaps are bounded by the model;
  nothing is assumed of the clock or the queue.

## 4. Proofs

Every theorem holds for any value of the constants that satisfies the assumptions named in
the modules. A theorem follows from an inductive invariant: `Invariance` of a module proves
`Spec => []IInv`, with one lemma per action, and the properties follow from `IInv`, or, for
an action property, from `IInv` and one step. Hardly any of the properties is inductive by itself;
what was added, and why, is this. Before a proof TLC checked the invariant on the
configuration of the module's run.

`JobQueueProofs`: `TypeOK`, `ActiveKeysUnique`, `NoLostWakeup`, `FencedFinish` and
`ImplementsTaskQueue`. `FencedFinish` needs to know that at most one worker holds the latest
claim of a running job and that the job's owner is that worker; `NoLostWakeup` that a
claim whose worker has not been notified has every fresh job in its snapshot (`Seen`), so that
it comes back empty only past rows that others have locked. `IInv` adds `Holding` (a worker holds
a job exactly while it handles it), `Locking` (a row is locked by one claim at most),
`Fenced` (an owner that still holds the job is its latest claimant), `CountedOnce` (a running
job has been attempted, a fresh one is due) and `Woken`. The refinement (`Refinement`) adds
that who holds a task by the mapping owns its row and knows its attempts (`HoldersOwn`), that
what it decided fits the attempts (`WithinTries`), and that a row not yet there has none
(`Unclaimed`); then each action of `JobQueue` is an action of `TaskQueue` or a stutter.

`PublicationProofs`: `SequenceCoversRows`, `CredentialsFollowRows` and `CommitsInOrder` (no row
is committed at or below a number a reader may hold) for any
number of users, nodes, workers, operations and faults. The run `publication` has one key only:
that credentials follow rows also when workers have different keys rests on the theorem. `IInv` says what a worker remembers
between its steps (`Lists`), which locks it holds then (`Locked`), and that the number it chose
under the lock of the node is still the next one at its commit (`Numbered`).
`PublishedWhenQuiet` and `RevocationsNotWithheld` need more: every pair of a user and a node
either is as it should be, or is covered by a job that has yet to come to it, or is just being
written with the right values (`Guarded`; `Guard` says it once for each aim). A batch that
does not take all users of its node leaves the rest to a continuation, and a chain of them
goes forward: each has only users behind the batch before it, and what is left is behind the
last of its batch (`Chained`). While the node's worker has users behind its batch it answers
for them; when it places the continuation, that one does. With two chains over one node this
is false of the code (`publication_two_chains`): a continuation that another worker runs, and
which is past the users already, is taken for the one to place. The regime is therefore a
hypothesis, in the open: `Published` and `Revoked` are proved of the behaviours of `Spec` in
which no worker runs a continuation of a node while another has a batch of it with users
behind (`[]ChainsApart`). Two theorems give the regime from the constants alone: there is one
worker on the queue, as in the deployment of this repository (`OneWorkerApart`), or no more
users than a batch holds, with any number of workers (`SmallSystemApart`). So for the system as
deployed both properties hold without a hypothesis, for any number of batches
(`OneWorkerPublishes`). The run `publication` (two workers, one batch) is
an instance of the second; `publication_batches` has one operation, whose chain two workers may run
twice after a lease has passed, and so goes beyond both.

`WritersKeepStreams` is the refinement of `UsersStream` by `Publication`: `CommitPair` is a
write of the log, every other step leaves it alone. That the number is the next one is
`Numbered`; that a removal takes away a row that is there is not in `IInv`, because it was
read two steps before: `Removes` says that the row is still there at the commit, since
rows of a node change under its row lock only (`RowsOfOthers`). On the other side
`ReadersAssumeStreams` shows that the publications of `StateStream` are writes of the same log
and that damage to keys does not show in it, and `StreamsArePublished` that none of its writes is
left out below the bound. So the two modules meet in one abstract specification: an
agent of a node that begins without rows reads what the jobs may write, no less and no more.
From end to end: with an idle queue the rows are what each user is due (`OneWorkerPublishes`),
and an agent that has caught up admits exactly the active rows with usable keys
(`CaughtUpAdmits`). That it does catch up is liveness, and stays with TLC (`Converges`).

`DeadlockFree` needs that no lock is left behind: who holds the lock of a node is at the commit
of a pair of that node, and who holds the lock of a user is at a pair of that user
(`NoneLeft`). A holder of a node's lock then waits for nothing, and a holder of a user's
lock waits at most for a node's. What it is to wait (`Waits`) is written out there, not as
`~ENABLED`; in the configurations of both runs TLC confirmed that the two are the same.

`StateStreamProofs`: `RevocationsApplied`, `HiddenGrantsAreOwed` and `CursorFollows` for any
number of users and publications. What makes cursors safe is that the rows of an open
request whose number is not above the one it read are still as they were read, but for
damage to their keys (`SnapshotHolds`), and that an answer on its way leaves the agent, once
applied, with every revocation and every grant it must have up to the cursor it will set
(`AnswerHolds`).

`EnrollmentProofs`: `OnlyApprovedServed`, `OneIdentity`, `OneExchange` and `RevocationHolds` for
any number of sessions, tokens and identities. The strengthening (`LockHeld`, `ApprovalHolds`,
`EnrollingTokens`, `ApprovedOutsidePending`, `Exchanged`, `NoneOutlivesCA`) says what the lock
is for: whoever is between lock and commit holds it, so what was read is still true at
the commit; the tokens older than the last revocation are used up or annulled; and once the
CA has ended no identity is in its term, since a leaf is given no longer than the CA.

`ReportsProofs`: `IntervalsDisjoint`, `ChargedWithinLink`, `OpenBounded`, `PartsRecorded` and
`ClosedIsFinal`, for any rate, deadlines, window and sets of reports. The invariant is one of a
table (`Tabled`), so that each of the three things an acceptance does to it (closing by time,
by succession, adding or replacing a row) is a lemma, and the code's order of them their
composition. That an interval starting after the last one overlaps none follows from the
intervals being finitely many and disjoint, so that there is a last one; that shares of the
ceiling add up is a lemma about `Charge`.

`SubscriptionProofs`: `OneRenewalPerPeriod`, `DeviceFollowsPlan` and `BonusReachesCurrent`. The
current period is the last one (`CurrentIsLast`), a period continues an earlier one, and
the period that a transaction with the row locked has seen is still current (`Rows`). Of the
copy of its plan and its end, joined by the statement's snapshot, the invariant says nothing:
there `subscription_renewal` fails.

`BillingHistoryProofs`: `HistoryTiles`, `FollowsWhatItClosed` and `ResolvedForGood`, for any
number of changes at once and a clock that may be set back. The row a closing update has in its
snapshot is still there, whatever the check saw before it (`Looked`), who closed a row holds it
and closed it after it began, by the table's CHECK (`Holds`), what was inserted and not committed
overlaps no row (`Inserted`), and there is one such insert in a history (`OneInserted`): the
EXCLUDE constraint as the arbiter. `ResolvedForGood` also needs
that the node always has an assignment and its groups are there (`There`): in a tiled
history exactly one row holds a moment, and a commit changes rows only from the moment of the
change on.

`PartsProofs`:

- `Accounts`: `SessionsIndexed` and `ResetEndsEarlierSessions` for any number of requests, sessions
  and links and any lifetime. What keeps a live session from being dropped from the index is
  that a member was opened before (`MembersBorn`, `ReadBorn`) and that a session that has ended
  never comes back (`ReadEnded`). A reset that has read the index has found there every live
  session opened before its password (`ResetsReadEarlier`): what is live is indexed, and what is
  opened later is opened under that password or a later one. Two resets at once need nothing
  more: each answers for its own password.
- `Scheduler`: `SlotPlacedOncePerLeader` for any number of instances, slots and mishaps. The
  invariant counts: the jobs of a slot and the instances that may still place it are together
  no more than its chances (`Accounted`).
- `RateLimit`: `AcceptedWithinLimit` for any count, window, lag and number of callers. An attempt
  let through is in the set with a score at most the lag older (`Remembered`, as prefix
  sums of both), what a script trims is outside the span, and the key outlives what must
  be counted (`Alive`).
- `FieldCipher`: `OneKeyPerDatabase` for any number of processes and keys: the container, once
  written, stays (`ContainerStays`), and what a process is about to open is the container
  (`ComparesWithContainer`: it is read again after the insert).
- `BodyShape`: `RefusedForOtherDigitsOnly`, for any table of types and any models in it. What a type
  allows is a recursive function over the table, and so are the forms of its bodies, and sums are
  folds over finite sets; that such functions exist and satisfy their equations is proved by
  induction (`ShapesDefined`, `FormsDefined`, `SumDefined`). By induction over the table each body
  of a type stays within what is derived for it (`EveryTypeFits`) in braces, commas and the digits
  of integers written as such: parts of an object by fields, the items of a list by their number,
  a union by the branch the body is of, a number by the digits of its bound. With a string among
  the fields digits are not limited, as in the code; digits of fractions, moments and integers
  written otherwise are what the derivation leaves out, and the statement excepts just them.
- `Codes`: of all 32^7 payloads, that a wrong symbol is noticed (`SubstitutionNoticed`), that
  swapped neighbours are unless 16 apart (`TranspositionNoticed`), and `MistakesNoticed`. The
  argument is arithmetic modulo 32: a mistake changes the weighted sum by an odd number times
  the difference of the symbols, or by twice the difference of two neighbours.

Assumptions are those named in the modules. They require distinguished values not to be
members of the sets they complement, bounds to be natural numbers (a limit, a window, a
clock, a number of parts or of open intervals at least 1), and the sets of users
(`Publication`), of the rows of a node (`Reports`) and of scheduler processes to be finite:
each is a table or a group of processes. `TypesAssumption` of `BodyShape` says what the
declaration of a Python class gives: a type is made of types declared before it.
`PowersAssumption` of `JobQueue` is a fact of arithmetic about the finitely many exponents
of the back-off; TLC evaluates it in every run.

Where a proof needs induction over numbers it is by the least element of a set of naturals
(`LeastElement`, or `FromZeroOn` in `PartsProofs`), from the well-foundedness of `<`: the
library's induction theorems take an operator as a parameter and cannot be cited.

Only model-checked: liveness (`EventuallySettled`, `QueueDrains`, `Converges`,
`MovingSlotsGetPlaced`), since the provers have no proof rules for fairness, and hence
ENABLED, here; that `Waits` is the negation of ENABLED; and whether the two properties of
publication hold of some more behaviours than those of `ChainsApart`. `PublishedWhenQuiet`
does not hold of all.

## 5. Disagreements

1. `job_queue_dying`. `jobs/queue.py:13-15` says that a job whose worker dies again and again
   reaches `dead`. Attempts are counted at the claim, but compared with `max_attempts`
   only after the handler has ended: such a job is claimed for ever.
2. `publication_two_chains`. A continuation of a chain of batches is deduplicated against a
   running continuation of an earlier chain that has already read its candidates. With two
   processes on the queue `critical` a change made in between is not published. The
   deployment in this repository runs one such process, and then the run's
   scenario does not arise; the queue itself is written for several.
3. `subscription_renewal`. The locking read of a subscription joins its period by the
   statement's snapshot. A renewal that had to wait for a change of plan renews by the
   plan and the end from before the change.
4. `billing_two_changes`. `domain/groups.py:498-505` says that of two assignments of one node at
   once the second gets a 409, and that no lock is taken so that it is not written over the first
   without a refusal. The check and the closing update are two statements under read
   committed: a change that commits between them is closed by the second one, silently. The
   histories still tile, and what the past is charged by stays (`HistoryTiles`,
   `ResolvedForGood`); what is lost is the refusal.
5. `deployment_reset`. `api/auth.py:277` says that a reset voids the earlier sessions. The
   password and the sessions are changed by two calls; when the process dies between them the old
   sessions live on, and the link is used up. Nor does it take a failure: a login that checked
   the old password before the reset opens its session after the reset was answered. What the
   code does keep is `ResetEndsEarlierSessions`: a reset that was answered ended every session
   that had been opened before its password was set.

Known limits of the code that are not runs of their own:

- `body_shape.py:27-29` says that without text the longest run of digits a model allows is that
  of its greatest integer. `NodeMetrics` (`domain/statuses.py:121-135`) has fractions and a moment:
  the limit is 19, and a valid body with `0.00012345678901234567`, a run of 20, is refused. That no
  valid body is refused is therefore false of `BodyShape`, whose types include such fields;
  `RefusedForOtherDigitsOnly` says that there is no other cause.
- A claim that comes back empty may have passed over a ready row another claim had locked. When
  that one rolls back, the job waits until its worker has paused and looks again, although others
  may be asleep; `NoLostWakeup` says that somebody is awake then.
- A scheduler whose connection drops goes on as a leader beside the next one; a slot may
  get one job per leader (`SlotPlacedOncePerLeader`), not more.
- A window of the rate limit may let through more than its count over its whole length when
  scripts run late; within a window shorter by the lag it does not (`AcceptedWithinLimit`).
  Attempts that were refused stay in the window, so the moment `retry_after` names, when the
  oldest one leaves it, need not be one at which an attempt is let through.
- `delete_billing` names the nodes as the reason of a refusal; rows of past assignments
  refuse it as well. A change that refers to a group deleted meanwhile fails by the
  foreign key, which its operation does not turn into an answer of its own.
- A change of a group's multiplier does not close the hour of a node whose assignment
  to the group commits at the same time (`_close_hours` reads committed columns); `close_hour`
  is a stub. In `Subscription` a plan may be archived between the check and the commit of a
  renewal, and `expire` does not look at the end of the period; its caller is a stub.

## 6. Not modelled

- The restore from a copy and `generation` (a stub in the code); the replacement of the CA.
- The Redis channel that wakes a held agent request: a lost message costs a poll interval.
- FIFO order of claims in `Publication`: any order is allowed, which includes the code's.
- In `Enrollment`, decommissioning and the automatic statuses are external: their writers
  are not in the code. The creation of a node is the initial state; it publishes nothing.
- In `Subscription`, changes of a plan's own columns, and the charging of traffic.
- Operations that answer *not implemented* or only declare an interface: `StatusService`,
  acknowledgements (`ack`), `publish_config`, `set_manual_status`, `decommission`, `CodeService`,
  `close_hour`, quota, limits, device limit, reconciliation, aggregation, signals, node
  commands, TOTP and the login of administrators. Modelling them would be modelling a
  document.
- Documents built from rows (inbounds, Xray configuration, profile), parsing and rendering,
  the checks of PEM and X.509, access rights by role, metrics, the CLI and the start of the
  processes: data without interleaving.
- The tools under `docs/scripts` (`plan_graph.py`, `sweep_stale.py`): they read the
  planning documents of the developers and have no part in the system.

## 7. Plan

Done: `JobQueue`, `TaskQueue` and the refinement between them, `Publication`, `NodeStatus`,
`StateStream`, `UsersStream` and both maps to it, `Enrollment`, `Reports`, `Subscription`,
`BillingHistory` with the resolution, `Accounts`, `RateLimit`, `Scheduler`, `FieldCipher`,
`BodyShape`, `Codes`; the proofs above, which cover every safety and action property of the
passing runs.

Left, in this order:

1. One specification of access from end to end (*what each node will admit follows what each
   user is due*). The two halves meet in `UsersStream`; a module that runs both over the same
   rows, with an agent for each node, is not written.
2. The stubs, as they are written.
