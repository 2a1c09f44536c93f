---------------------------- MODULE Publication ----------------------------
(***************************************************************************)
(* Publication of user access to nodes (app/domain/composition.py).        *)
(*                                                                         *)
(* A business operation changes who may use which node and, in the same    *)
(* transaction, places publication jobs (an outbox).  Workers of the queue *)
(* `critical` execute the jobs: they write the rows node_user_state, each  *)
(* under a new number of the node's sequence desired_users_seq, and the    *)
(* credentials of the pair.  Two locks order them: an advisory lock of the *)
(* user, held by the session, and the row lock of the node, held by the    *)
(* transaction of one pair.                                                *)
(*                                                                         *)
(* The queue is the one of JobQueue reduced to what a publication sees of  *)
(* it: a key is unique while its job is pending or running, a running job  *)
(* may be claimed again (its lease passed), jobs are claimed in any order. *)
(***************************************************************************)
EXTENDS Integers, FiniteSets

CONSTANTS
    Users, Nodes,   \* identifiers, ordered as user_id and node_id are
    Plans,
    Workers,        \* workers of the queue critical
    Nobody,         \* no worker
    Batch,          \* PUBLISH_NODE_BATCH
    MaxAttempts,    \* jobs.max_attempts
    MaxOps,         \* bound: business operations
    MaxFaults,      \* bound: crashes, failures, and leases that pass during the work
    MismatchPossible \* a process may run with a cipher key that is not the database's

\* The rows of two tables: finitely many users, whose last one of a batch is sought.
ASSUME IdentifiersAssumption == /\ Users \subseteq Nat \ {0} /\ IsFiniteSet(Users)
                                /\ Nodes \subseteq Nat \ {0}
ASSUME WorkersAssumption == Nobody \notin Workers
ASSUME BoundsAssumption == /\ Batch \in Nat \ {0}
                           /\ MaxAttempts \in Nat \ {0}
                           /\ MaxOps \in Nat
                           /\ MaxFaults \in Nat
ASSUME MismatchAssumption == MismatchPossible \in BOOLEAN

VARIABLES
    sub,        \* state of each user's subscription
    deleted,    \* users.status = 'deleted'
    plan,       \* plan of the current period of each user
    comp,       \* nodes that share an access group with each plan
    ops,        \* transactions of business operations so far: the xid of the last
    queue,      \* the active job of each key
    buried,     \* the jobs that ended dead, and whether a withheld row was the reason
    row,        \* node_user_state
    creds,      \* node_user_credentials has the pair
    desired,    \* nodes.desired_users_seq
    userLock,   \* advisory publication lock of each user
    nodeLock,   \* row lock of each node
    work,       \* the memory of each worker
    faults      \* faults so far

business == <<sub, deleted, plan, comp, ops>>
store == <<row, creds, desired>>
locks == <<userLock, nodeLock>>
vars == <<business, queue, buried, store, locks, work, faults>>

---------------------------------------------------------------------------
SubState == {"none", "active", "suspended"}
RowState == {"absent", "active", "suspended", "removed"}

\* publish_user:{user}:{xid}, publish_node:{node}:{xid} and
\* publish_node:{node}:after:{user}
\* Variant: one key for all publications of a user.
UserKeyOne(u, x) == [kind |-> "user", user |-> u, node |-> 0, xid |-> 1]

UserKey(u, x) == [kind |-> "user", user |-> u, node |-> 0, xid |-> x]
NodeKey(n, x) == [kind |-> "node", user |-> 0, node |-> n, xid |-> x]
NextKey(n, u) == [kind |-> "next", user |-> u, node |-> n, xid |-> 0]

Key == {UserKey(u, x) : u \in Users, x \in 1 .. MaxOps}
         \union {NodeKey(n, x) : n \in Nodes, x \in 1 .. MaxOps}
         \union {NextKey(n, u) : n \in Nodes, u \in Users}

Job == [status : {"none", "pending", "running"},
        owner : Workers \union {Nobody},
        attempts : 0 .. MaxAttempts]

Gone == [status |-> "none", owner |-> Nobody, attempts |-> 0]

Ended == [kind |-> "", user |-> 0, node |-> 0, xid |-> 0]

Work == [pc : {"idle", "start", "candidates", "pair", "commit", "next", "end", "finish"},
         job : Key \union {Ended},
         attempts : 0 .. MaxAttempts,
         todo : SUBSET (Users \union Nodes),    \* pairs of the job still to write
         rest : BOOLEAN,                        \* users remain behind the batch
         last : Users \union {0},               \* last user of the batch
         state : RowState,                      \* what the open transaction writes
         seq : Nat,                             \* and under which number
         held : BOOLEAN,                        \* an active row was withheld
         failed : BOOLEAN,                      \* the handler raised
         cipher : BOOLEAN]                      \* the process key is the database's

Idle(c) == [pc |-> "idle", job |-> Ended, attempts |-> 0, todo |-> {}, rest |-> FALSE,
            last |-> 0, state |-> "absent", seq |-> 0, held |-> FALSE, failed |-> FALSE,
            cipher |-> c]

Ciphers == IF MismatchPossible THEN BOOLEAN ELSE {TRUE}

TypeOK ==
    /\ sub \in [Users -> SubState]
    /\ deleted \in [Users -> BOOLEAN]
    /\ plan \in [Users -> Plans]
    /\ comp \in [Plans -> SUBSET Nodes]
    /\ ops \in 0 .. MaxOps
    /\ queue \in [Key -> Job]
    /\ buried \subseteq [job : Key, withheld : BOOLEAN]
    /\ row \in [Nodes -> [Users -> [state : RowState, seq : Nat]]]
    /\ creds \in [Nodes -> [Users -> BOOLEAN]]
    /\ desired \in [Nodes -> Nat]
    /\ userLock \in [Users -> Workers \union {Nobody}]
    /\ nodeLock \in [Nodes -> Workers \union {Nobody}]
    /\ work \in [Workers -> Work]
    /\ faults \in 0 .. MaxFaults

\* shares_group of _PAIR
Shares(u, n) == sub[u] # "none" /\ ~deleted[u] /\ n \in comp[plan[u]]

\* Any business state, published: the users of each node were written in the
\* order of their identifiers.
Init ==
    /\ sub \in [Users -> SubState]
    /\ deleted = [u \in Users |-> FALSE]
    /\ plan \in [Users -> Plans]
    /\ comp \in [Plans -> SUBSET Nodes]
    /\ ops = 0
    /\ queue = [k \in Key |-> Gone]
    /\ buried = {}
    /\ row = [n \in Nodes |-> [u \in Users |->
                 IF Shares(u, n) THEN [state |-> sub[u], seq |-> u]
                                 ELSE [state |-> "absent", seq |-> 0]]]
    /\ creds = [n \in Nodes |-> [u \in Users |-> Shares(u, n)]]
    /\ desired \in [Nodes -> Users \union {0}]
    /\ \A n \in Nodes : /\ \A u \in Users : row[n][u].seq <= desired[n]
                        /\ desired[n] # 0 => row[n][desired[n]].seq = desired[n]
    /\ userLock = [u \in Users |-> Nobody]
    /\ nodeLock = [n \in Nodes |-> Nobody]
    /\ work \in [Workers -> {Idle(c) : c \in Ciphers}]
    /\ faults = 0

---------------------------------------------------------------------------
(* Business operations: a change and its jobs in one transaction.          *)

\* _place: a key whose job is pending or running is left as it is.
Placed(q, keys) ==
    [k \in Key |-> IF k \in keys /\ q[k].status = "none" THEN [Gone EXCEPT !.status = "pending"]
                   ELSE q[k]]

Commit(keys) ==
    /\ ops < MaxOps
    /\ ops' = ops + 1
    /\ queue' = Placed(queue, keys)
    /\ UNCHANGED <<buried, store, locks, work, faults>>

\* activate, renew, add_traffic, expire, set_state: none is never entered again.
Transition(u) ==
    /\ \E s \in SubState \ {"none", sub[u]} : sub' = [sub EXCEPT ![u] = s]
    /\ Commit({UserKey(u, ops + 1)})
    /\ UNCHANGED <<deleted, plan, comp>>

ChangePlan(u) ==
    /\ sub[u] # "none"
    /\ \E p \in Plans \ {plan[u]} : plan' = [plan EXCEPT ![u] = p]
    /\ Commit({UserKey(u, ops + 1)})
    /\ UNCHANGED <<sub, deleted, comp>>

RemoveUser(u) ==
    /\ ~deleted[u]
    /\ deleted' = [deleted EXCEPT ![u] = TRUE]
    /\ Commit({UserKey(u, ops + 1)})
    /\ UNCHANGED <<sub, plan, comp>>

\* Nodes that enter or leave a plan.
Moved(new) == {n \in Nodes : \E p \in Plans : (n \in new[p]) # (n \in comp[p])}

\* Every node of a changed group is published, also one that another group keeps
\* in the plan.
Recompose(new) ==
    /\ comp' = new
    /\ \E nodes \in (SUBSET Nodes) \ {{}} :
          Moved(new) \subseteq nodes /\ Commit({NodeKey(n, ops + 1) : n \in nodes})
    /\ UNCHANGED <<sub, deleted, plan>>

\* _set_composition: the groups of one plan are replaced.
SetComposition(p) == \E nodes \in SUBSET Nodes : Recompose([comp EXCEPT ![p] = nodes])

\* delete_access: a group leaves all plans at once.
DeleteAccess ==
    \E new \in [Plans -> SUBSET Nodes] :
        (\A p \in Plans : new[p] \subseteq comp[p]) /\ Recompose(new)

---------------------------------------------------------------------------
(* The work of a job.                                                      *)

Smallest(S) == CHOOSE i \in S : \A j \in S : i <= j

CurUser(w) == IF work[w].job.kind = "user" THEN work[w].job.user ELSE Smallest(work[w].todo)
CurNode(w) == IF work[w].job.kind = "user" THEN Smallest(work[w].todo) ELSE work[w].job.node

HasRow(u, n) == row[n][u].state \notin {"absent", "removed"}

\* _CANDIDATES and _NODE_CANDIDATES: who should have the node, and who has it.
\* The first ignores users.status, the second leaves deleted users out.
UserCandidates(u) ==
    {n \in Nodes : (sub[u] # "none" /\ n \in comp[plan[u]]) \/ HasRow(u, n)}

NodeCandidates(n, after) ==
    {u \in Users : u > after /\ (Shares(u, n) \/ HasRow(u, n))}

FirstOf(S, k) == {i \in S : Cardinality({j \in S : j <= i}) <= k}

\* The last user of the batch, or 0.
LastOf(users, after) == IF users = {} THEN 0
                        ELSE CHOOSE u \in users : \A v \in users : v <= u

\* FOR UPDATE on the row of the node.
\* Variant: the row is read and not locked.
NodeFreeUnlocked(n) == TRUE

NodeFree(n) == nodeLock[n] = Nobody

\* next_users_seq: numbers of a node grow by one under its row lock, which is held
\* until the commit.
NextUsersSeq(n) == desired[n] + 1

Fault == faults < MaxFaults /\ faults' = faults + 1

Goto(w, pc) == work' = [work EXCEPT ![w].pc = pc]

\* A pending job, or a running one whose lease passed: its owner died, or is
\* still at work on it (a fault, bounded).
\* Variant: a running job is never claimed again.
ClaimablePending(k) == queue[k].status = "pending" /\ UNCHANGED faults

Claimable(k) ==
    \/ queue[k].status = "pending" /\ UNCHANGED faults
    \/ /\ queue[k].status = "running"
       /\ IF \E v \in Workers : work[v].job = k THEN Fault ELSE UNCHANGED faults

Claim(w) ==
    /\ work[w].pc = "idle"
    /\ \E k \in Key :
        /\ Claimable(k)
        /\ LET n == IF queue[k].attempts < MaxAttempts THEN queue[k].attempts + 1 ELSE MaxAttempts
           IN  /\ queue' = [queue EXCEPT ![k] = [status |-> "running", owner |-> w, attempts |-> n]]
               /\ work' = [work EXCEPT ![w].pc = "start", ![w].job = k, ![w].attempts = n]
    /\ UNCHANGED <<business, buried, store, locks>>

\* publish_user_on: the lock of the user, then the nodes.
LockPublishedUser(w) ==
    /\ work[w].pc = "start"
    /\ work[w].job.kind = "user"
    /\ userLock[work[w].job.user] = Nobody
    /\ userLock' = [userLock EXCEPT ![work[w].job.user] = w]
    /\ Goto(w, "candidates")
    /\ UNCHANGED <<business, queue, buried, store, nodeLock, faults>>

ReadCandidates(w) ==
    /\ work[w].pc = "candidates"
    /\ work' = [work EXCEPT ![w].pc = "pair", ![w].todo = UserCandidates(work[w].job.user)]
    /\ UNCHANGED <<business, queue, buried, store, locks, faults>>

\* publish_node_on: the users of the batch, read under the row lock of the node
\* in a transaction of its own.
ReadBatch(w) ==
    /\ work[w].pc = "start"
    /\ work[w].job.kind # "user"
    /\ NodeFree(work[w].job.node)
    /\ LET found == NodeCandidates(work[w].job.node, work[w].job.user)
           users == FirstOf(found, Batch)
       IN  work' = [work EXCEPT ![w].pc = "next", ![w].todo = users,
                        ![w].rest = found # users,
                        ![w].last = LastOf(users, work[w].job.user)]
    /\ UNCHANGED <<business, queue, buried, store, locks, faults>>

LockNextUser(w) ==
    /\ work[w].pc = "next"
    /\ work[w].todo # {}
    /\ userLock[CurUser(w)] = Nobody
    /\ userLock' = [userLock EXCEPT ![CurUser(w)] = w]
    /\ Goto(w, "pair")
    /\ UNCHANGED <<business, queue, buried, store, nodeLock, faults>>

\* After a pair: publish_user keeps the lock of its user for the next node,
\* publish_node releases the lock of this one.
PairDone(w, held) ==
    work' = [work EXCEPT
        ![w].pc = IF work[w].job.kind = "user" THEN "pair" ELSE "next",
        ![w].todo = @ \ {Smallest(@)}, ![w].held = @ \/ held,
        ![w].state = "absent", ![w].seq = 0]

\* Variant: publish_node keeps the locks of its users.
ReleasePairKeeps(w) == UNCHANGED userLock

ReleasePair(w) ==
    userLock' = IF work[w].job.kind = "user" THEN userLock
                ELSE [userLock EXCEPT ![CurUser(w)] = Nobody]

\* A process whose key is not the database's writes no row that gives access.
\* Variant: it writes no row at all.
WithholdsAll(w, state) == ~work[w].cipher

Withholds(w, state) == ~work[w].cipher /\ state = "active"

\* _publish_pair up to its writes: the row lock of the node, then the pair.
TakePair(w) ==
    LET u == CurUser(w)
        n == CurNode(w)
        state == IF Shares(u, n) THEN sub[u] ELSE "removed"
        nothing == ~Shares(u, n) /\ ~HasRow(u, n)
        withheld == Withholds(w, state)
    IN  /\ work[w].pc = "pair"
        /\ work[w].todo # {}
        /\ NodeFree(n)
        /\ \/ /\ nothing \/ withheld
              /\ PairDone(w, withheld)
              /\ ReleasePair(w)
              /\ UNCHANGED nodeLock
           \/ /\ ~nothing /\ ~withheld
              /\ nodeLock' = [nodeLock EXCEPT ![n] = w]
              /\ work' = [work EXCEPT ![w].pc = "commit", ![w].state = state,
                                      ![w].seq = NextUsersSeq(n)]
              /\ UNCHANGED userLock
        /\ UNCHANGED <<business, queue, buried, store, faults>>

\* The credentials of a pair after its commit.
\* Variant: they outlive the row.
CredentialsKept(w, had) == had \/ (work[w].state # "removed" /\ work[w].cipher)

CredentialsAfter(w, had) == work[w].state # "removed" /\ (work[w].cipher \/ had)

\* The commit of the pair: the row, its number, and the credentials.
CommitPair(w) ==
    LET u == CurUser(w)
        n == CurNode(w)
    IN  /\ work[w].pc = "commit"
        /\ row' = [row EXCEPT ![n][u] = [state |-> work[w].state, seq |-> work[w].seq]]
        /\ desired' = [desired EXCEPT ![n] = work[w].seq]
        /\ creds' = [creds EXCEPT ![n][u] = CredentialsAfter(w, @)]
        /\ nodeLock' = [nodeLock EXCEPT ![n] = Nobody]
        /\ PairDone(w, FALSE)
        /\ ReleasePair(w)
        /\ UNCHANGED <<business, queue, buried, faults>>

UnlockPublishedUser(w) ==
    /\ work[w].pc = "pair"
    /\ work[w].todo = {}
    /\ userLock' = [userLock EXCEPT ![work[w].job.user] = Nobody]
    /\ work' = [work EXCEPT ![w].pc = "finish", ![w].failed = work[w].held]
    /\ UNCHANGED <<business, queue, buried, store, nodeLock, faults>>

\* _continue_node: the job of the next batch, under a key without a transaction
\* number; then a withheld row raises CipherMismatch.
Continue(w) ==
    /\ work[w].pc = "next"
    /\ work[w].todo = {}
    /\ queue' = IF work[w].rest
                THEN Placed(queue, {NextKey(work[w].job.node, work[w].last)})
                ELSE queue
    /\ work' = [work EXCEPT ![w].pc = "finish", ![w].failed = work[w].held]
    /\ UNCHANGED <<business, buried, store, locks, faults>>

---------------------------------------------------------------------------
(* Ends of a job.                                                          *)

FreedLocks(w) ==
    /\ userLock' = [u \in Users |-> IF userLock[u] = w THEN Nobody ELSE userLock[u]]
    /\ nodeLock' = [n \in Nodes |-> IF nodeLock[n] = w THEN Nobody ELSE nodeLock[n]]

\* The handler's connection fails: the open transaction is rolled back, the
\* session's locks are gone, the pairs committed before stay.
HandlerFails(w) ==
    /\ Fault
    /\ work[w].pc \notin {"idle", "finish"}
    /\ FreedLocks(w)
    /\ work' = [work EXCEPT ![w] = [Idle(@.cipher) EXCEPT !.pc = "finish", !.failed = TRUE,
                                    !.job = work[w].job, !.attempts = work[w].attempts]]
    /\ UNCHANGED <<business, queue, buried, store>>

\* process_one after the handler; an owner that lost the job changes nothing.
Finish(w) ==
    LET k == work[w].job
        owns == queue[k].status = "running" /\ queue[k].owner = w
        again == work[w].failed /\ work[w].attempts < MaxAttempts
    IN  /\ work[w].pc = "finish"
        /\ queue' = IF ~owns THEN queue
                    ELSE [queue EXCEPT ![k] = IF again THEN [@ EXCEPT !.status = "pending",
                                                                      !.owner = Nobody]
                                              ELSE Gone]
        /\ buried' = IF owns /\ work[w].failed /\ ~again
                     THEN buried \union {[job |-> k, withheld |-> work[w].held]}
                     ELSE buried
        /\ work' = [work EXCEPT ![w] = Idle(@.cipher)]
        /\ UNCHANGED <<business, store, locks, faults>>

\* The process dies; the row of its job stays running until the lease passes.
\* The process that replaces it may have been given another key.
Crash(w) ==
    /\ Fault
    /\ work[w].pc # "idle" \/ ~work[w].cipher
    /\ FreedLocks(w)
    /\ \E c \in Ciphers : work' = [work EXCEPT ![w] = Idle(c)]
    /\ UNCHANGED <<business, queue, buried, store>>

---------------------------------------------------------------------------
Operation ==
    \/ \E u \in Users : Transition(u) \/ ChangePlan(u) \/ RemoveUser(u)
    \/ \E p \in Plans : SetComposition(p)
    \/ DeleteAccess

Step(w) ==
    \/ LockPublishedUser(w) \/ ReadCandidates(w) \/ ReadBatch(w) \/ LockNextUser(w)
    \/ TakePair(w) \/ CommitPair(w) \/ UnlockPublishedUser(w) \/ Continue(w) \/ Finish(w)

Next ==
    \/ Operation
    \/ \E w \in Workers : Claim(w) \/ Step(w) \/ HandlerFails(w) \/ Crash(w)

Spec == Init /\ [][Next]_vars

\* A worker runs (its loop polls the queue), a lock that comes free again and
\* again is granted.
FairSpec ==
    /\ Spec
    /\ \A w \in Workers : WF_vars(Claim(w)) /\ SF_vars(Step(w))

---------------------------------------------------------------------------
(* Properties.                                                             *)

Quiet == \A k \in Key : queue[k].status = "none"

Agrees(u, n) == IF Shares(u, n) THEN row[n][u].state = sub[u] ELSE ~HasRow(u, n)

\* What a composition change promises (task-001-29b:82,88): once the jobs are
\* executed and none ended dead, every node has the rows of exactly the users
\* who share a group with it, in the state of their subscription.  Jobs of
\* several operations interleave pair by pair, and may run twice.
PublishedWhenQuiet ==
    Quiet /\ buried = {} => \A u \in Users, n \in Nodes : Agrees(u, n)

\* A process with a foreign key (WI-38) withholds only rows that give access:
\* jobs that died of it have still removed and suspended everyone they should.
RevocationsNotWithheld ==
    Quiet /\ (\A b \in buried : b.withheld)
        => \A u \in Users, n \in Nodes :
               row[n][u].state = "active" => Shares(u, n) /\ sub[u] = "active"

\* updated_seq is a cursor: no two rows of a node share a number, none is above
\* desired_users_seq, and desired_users_seq is the number of some row, so a
\* reader that has all rows up to it has everything.
SequenceCoversRows ==
    \A n \in Nodes :
        /\ \A u \in Users : row[n][u].seq <= desired[n]
        /\ \A u, v \in Users : row[n][u].seq = row[n][v].seq /\ row[n][u].seq # 0 => u = v
        /\ desired[n] # 0 => \E u \in Users : row[n][u].seq = desired[n]

\* Numbers become visible in order: a row is never committed at or below a
\* number readers may already hold as their cursor.
CommitsInOrder ==
    [][\A n \in Nodes, u \in Users :
          row'[n][u] # row[n][u] => row'[n][u].seq > desired[n]]_vars

\* What agents are promised: however publications race, fail and are repeated, the rows
\* of every node are a log, written one at a time under the next number, in which a row
\* that is gone is not removed again.
Stream == INSTANCE UsersStream

WritesStreams == Stream!StreamSpec

\* Credentials exist for every active row, and for none that is removed:
\* a user who left a node and returns gets new ones.
CredentialsFollowRows ==
    \A n \in Nodes, u \in Users :
        /\ row[n][u].state = "active" => creds[n][u]
        /\ creds[n][u] => HasRow(u, n)

InWork(w) == work[w].pc # "idle"

\* The next step of the worker needs a lock that somebody holds.  Its other guards are
\* about its own memory: a worker in work that does not wait can take its step.
Waits(w) ==
    \/ work[w].pc = "start" /\ work[w].job.kind = "user" /\ userLock[work[w].job.user] # Nobody
    \/ work[w].pc = "start" /\ work[w].job.kind # "user" /\ ~NodeFree(work[w].job.node)
    \/ work[w].pc = "next" /\ work[w].todo # {} /\ userLock[CurUser(w)] # Nobody
    \/ work[w].pc = "pair" /\ work[w].todo # {} /\ ~NodeFree(CurNode(w))

\* The lock order user, then node, no job holds two locks of a kind, and none leaves one
\* behind: while a job is in work, some job in work can go on.
NoDeadlock ==
    (\E w \in Workers : InWork(w)) => \E w \in Workers : InWork(w) /\ ~Waits(w)

\* A revocation or a grant reaches the nodes: after the last operation and the
\* last fault the queue drains, although workers wait for each other's locks and
\* a dead worker's job is found only when its lease passes.
QueueDrains == <>[]Quiet
=============================================================================
