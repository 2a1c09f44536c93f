-------------------------- MODULE PublicationProofs --------------------------
(***************************************************************************)
(* Proofs about Publication, for every number of users, nodes, plans,      *)
(* workers, operations and faults.                                         *)
(***************************************************************************)
EXTENDS Publication, FiniteSetTheorems, WellFoundedInduction, TLAPS

---------------------------------------------------------------------------
(* The smallest and the greatest of a set of identifiers.                  *)

\* A set of naturals that is not empty has a least element.
LEMMA LeastElement ==
    ASSUME NEW S \in SUBSET Nat, S # {}
    PROVE  \E m \in S : \A n \in S : m <= n
<1> DEFINE R == OpToRel(<, Nat)
<1>1. IsWellFoundedOn(R, Nat)
  BY NatLessThanWellFounded
<1> HIDE DEF R
<1>2. \E m \in S : \A n \in S : ~ (<<n, m>> \in R)
  BY <1>1, WFMin, Zenon
<1>3. \A m, n \in Nat : n < m => <<n, m>> \in R
  BY DEF R, OpToRel
<1>4. PICK m \in S : \A n \in S : ~ (<<n, m>> \in R)
  BY <1>2
<1>5. \A n \in S : m <= n
  <2> SUFFICES ASSUME NEW n \in S PROVE m <= n
    OBVIOUS
  <2>1. m \in Nat /\ n \in Nat
    OBVIOUS
  <2>2. ~(n < m)
    BY <1>3, <1>4, <2>1, Zenon
  <2> QED
    BY <2>1, <2>2
<1> QED
  BY <1>5

\* The pair that a job comes to next is one of those it still has to write.
LEMMA SmallestIn ==
    ASSUME NEW S \in SUBSET Nat, S # {}
    PROVE  Smallest(S) \in S
BY LeastElement DEF Smallest

\* A finite set of naturals that is not empty has a greatest element.
LEMMA GreatestElement ==
    ASSUME NEW S \in SUBSET Nat, IsFiniteSet(S), S # {}
    PROVE  \E m \in S : \A n \in S : n <= m
<1> DEFINE Above(i) == {j \in S : j > i}
           C == {Cardinality(Above(i)) : i \in S}
<1>1. \A i \in S : IsFiniteSet(Above(i)) /\ Cardinality(Above(i)) \in Nat
  BY FS_Subset, FS_CardinalityType
<1>2. C \in SUBSET Nat /\ C # {}
  <2>1. \A c \in C : c \in Nat
    BY <1>1
  <2>2. PICK i \in S : TRUE
    OBVIOUS
  <2>3. Cardinality(Above(i)) \in C
    OBVIOUS
  <2> QED
    BY <2>1, <2>3
<1>3. PICK c \in C : \A d \in C : c <= d
  BY <1>2, LeastElement
<1>4. PICK m \in S : c = Cardinality(Above(m))
  BY <1>3
<1>5. \A n \in S : n <= m
  <2> SUFFICES ASSUME NEW n \in S, n > m PROVE FALSE
    OBVIOUS
  <2> \A j \in S : j \in Nat
    OBVIOUS
  <2>1. Above(n) \subseteq Above(m) /\ n \in Above(m) /\ n \notin Above(n)
    <3>1. \A j \in S : j > n => j > m
      OBVIOUS
    <3>2. ~(n > n)
      OBVIOUS
    <3> QED
      BY <3>1, <3>2
  <2>2. /\ Cardinality(Above(n)) <= Cardinality(Above(m))
        /\ Cardinality(Above(m)) = Cardinality(Above(n)) => Above(m) = Above(n)
    BY <1>1, <2>1, FS_Subset
  <2>3. Cardinality(Above(m)) <= Cardinality(Above(n))
    BY <1>3, <1>4
  <2> HIDE DEF Above
  <2> QED
    BY <1>1, <2>1, <2>2, <2>3
<1> QED
  BY <1>5

\* A batch that is not empty has a last user.
LEMMA LastOfBatch ==
    ASSUME NEW S \in SUBSET Users, NEW after
    PROVE  LastOf(S, after) \in Users \union {0}
<1>1. CASE S = {}
  BY <1>1 DEF LastOf
<1>2. CASE S # {}
  <2>1. S \in SUBSET Nat /\ IsFiniteSet(S)
    BY IdentifiersAssumption, FS_Subset
  <2>2. \E u \in S : \A v \in S : v <= u
    BY <1>2, <2>1, GreatestElement
  <2> QED
    BY <1>2, <2>2 DEF LastOf
<1> QED
  BY <1>1, <1>2
---------------------------------------------------------------------------
(* The inductive invariant.  A worker at a pair holds the advisory lock of  *)
(* the user, and from the choice of the number to the commit the row lock   *)
(* of the node: the number it took is still the next one.                  *)

ByUser(w) == work[w].job.kind = "user"

Listed(w) ==
    /\ work[w].pc # "idle" => work[w].job \in Key
    /\ work[w].pc \in {"idle", "start", "candidates"} => ~work[w].held
    /\ work[w].pc = "candidates" => ByUser(w)
    /\ work[w].pc = "next" => ~ByUser(w)
    /\ work[w].pc \in {"pair", "commit", "next"}
         => work[w].todo \subseteq (IF ByUser(w) THEN Nodes ELSE Users)
    /\ work[w].pc = "commit" \/ (work[w].pc = "pair" /\ ~ByUser(w)) => work[w].todo # {}
    /\ work[w].failed => work[w].pc = "finish"
    /\ work[w].pc = "finish" /\ work[w].held => work[w].failed

LockedBy(w) ==
    /\ work[w].pc = "commit" => nodeLock[CurNode(w)] = w
    /\ work[w].pc \in {"candidates", "pair", "commit"} => userLock[CurUser(w)] = w

NumberedBy(w) == work[w].pc = "commit" =>
    /\ work[w].seq = NextUsersSeq(CurNode(w))
    /\ work[w].state \in {"active", "suspended", "removed"}
    /\ work[w].state = "active" => work[w].cipher

Lists == \A w \in Workers : Listed(w)
Locked == \A w \in Workers : LockedBy(w)
Numbered == \A w \in Workers : NumberedBy(w)

IInv ==
    /\ TypeOK
    /\ Lists
    /\ Locked
    /\ Numbered
    /\ SequenceCoversRows
    /\ CredentialsFollowRows

---------------------------------------------------------------------------
(* The memory of a worker after each of its steps.                         *)

Keeps(w, fields) == \A f \in fields : work'[w][f] = work[w][f]

\* Only the worker that takes a step changes its memory.
LEMMA OthersRest ==
    ASSUME TypeOK, NEW w \in Workers, Claim(w) \/ Step(w) \/ HandlerFails(w) \/ Crash(w)
    PROVE  \A v \in Workers \ {w} : work'[v] = work[v]
<1>1. \A r : \A v \in Workers \ {w} : [work EXCEPT ![w] = r][v] = work[v]
  BY DEF TypeOK
<1>2. CASE Claim(w)
  BY <1>2 DEF Claim, TypeOK
<1>3. CASE LockPublishedUser(w) \/ ReadCandidates(w) \/ ReadBatch(w)
  BY <1>3 DEF LockPublishedUser, ReadCandidates, ReadBatch, Goto, TypeOK
<1>4. CASE LockNextUser(w) \/ TakePair(w) \/ CommitPair(w)
  BY <1>4 DEF LockNextUser, TakePair, CommitPair, Goto, PairDone, TypeOK
<1>5. CASE UnlockPublishedUser(w) \/ Continue(w) \/ Finish(w)
  BY <1>5 DEF UnlockPublishedUser, Continue, Finish, Goto, TypeOK
<1>6. CASE HandlerFails(w) \/ Crash(w)
  BY <1>1, <1>6 DEF HandlerFails, Crash
<1> QED
  BY <1>2, <1>3, <1>4, <1>5, <1>6 DEF Step

\* A claim sets the job and its attempts, and nothing else of the memory.
LEMMA ClaimMemory ==
    ASSUME TypeOK, NEW w \in Workers, Claim(w)
    PROVE  \E k \in Key, n \in 0 .. MaxAttempts :
              /\ queue[k].status # "none"
              /\ queue' = [queue EXCEPT ![k] =
                             [status |-> "running", owner |-> w, attempts |-> n]]
              /\ work' \in [Workers -> Work]
              /\ work'[w].pc = "start" /\ work'[w].job = k
              /\ Keeps(w, {"todo", "held", "failed", "cipher", "state", "seq", "rest", "last"})
<1>1. PICK k \in Key :
         LET n == IF queue[k].attempts < MaxAttempts THEN queue[k].attempts + 1 ELSE MaxAttempts
         IN  /\ Claimable(k)
             /\ queue' = [queue EXCEPT ![k] = [status |-> "running", owner |-> w, attempts |-> n]]
             /\ work' = [work EXCEPT ![w].pc = "start", ![w].job = k, ![w].attempts = n]
  BY DEF Claim
<1> DEFINE n == IF queue[k].attempts < MaxAttempts THEN queue[k].attempts + 1 ELSE MaxAttempts
<1>2. n \in 0 .. MaxAttempts
  BY BoundsAssumption DEF TypeOK, Job
<1>3. queue[k].status # "none"
  BY <1>1 DEF Claimable
<1> HIDE DEF n
<1>4. work[w] \in Work
  BY DEF TypeOK
<1>5. work'[w] = [work[w] EXCEPT !.pc = "start", !.job = k, !.attempts = n]
  BY <1>1 DEF TypeOK, n
<1>6. work'[w] \in Work
  BY <1>2, <1>4, <1>5 DEF Work
<1>7. work' \in [Workers -> Work]
  BY <1>1, <1>6 DEF TypeOK
<1>8. /\ work'[w].pc = "start" /\ work'[w].job = k
      /\ Keeps(w, {"todo", "held", "failed", "cipher", "state", "seq", "rest", "last"})
  BY <1>4, <1>5 DEF Work, Keeps
<1> QED
  BY <1>1, <1>2, <1>3, <1>7, <1>8 DEF n

\* A step that only moves on.
LEMMA GotoMemory ==
    ASSUME TypeOK, NEW w \in Workers,
           NEW pc \in {"candidates", "pair", "finish"}, Goto(w, pc)
    PROVE  /\ work' \in [Workers -> Work]
           /\ work'[w].pc = pc
           /\ Keeps(w, {"job", "todo", "held", "failed", "cipher", "state", "seq", "rest", "last"})
<1>1. work[w] \in Work
  BY DEF TypeOK
<1>2. work'[w] = [work[w] EXCEPT !.pc = pc]
  BY DEF Goto, TypeOK
<1>3. work'[w] \in Work
  BY <1>1, <1>2 DEF Work
<1>4. work' \in [Workers -> Work]
  BY <1>3 DEF Goto, TypeOK
<1> QED
  BY <1>1, <1>2, <1>4 DEF Work, Keeps

\* The candidates of a user are nodes.
LEMMA ReadCandidatesMemory ==
    ASSUME TypeOK, NEW w \in Workers, ReadCandidates(w)
    PROVE  /\ work' \in [Workers -> Work]
           /\ work'[w].pc = "pair" /\ work'[w].todo = UserCandidates(work[w].job.user)
           /\ work'[w].todo \subseteq Nodes
           /\ Keeps(w, {"job", "held", "failed", "cipher", "state", "seq", "rest", "last"})
<1> DEFINE todo == UserCandidates(work[w].job.user)
<1>1. work[w] \in Work /\ todo \subseteq Nodes
  BY DEF TypeOK, UserCandidates
<1>2. work'[w] = [work[w] EXCEPT !.pc = "pair", !.todo = todo]
  BY DEF ReadCandidates, TypeOK
<1> HIDE DEF todo
<1>3. work'[w] \in Work
  BY <1>1, <1>2 DEF Work
<1>4. work' \in [Workers -> Work]
  BY <1>3 DEF ReadCandidates, TypeOK
<1> QED
  BY <1>1, <1>2, <1>4 DEF Work, Keeps, todo

\* A batch of a node are users of it.
LEMMA ReadBatchMemory ==
    ASSUME TypeOK, NEW w \in Workers, ReadBatch(w)
    PROVE  LET found == NodeCandidates(work[w].job.node, work[w].job.user)
           IN  /\ work' \in [Workers -> Work]
               /\ work'[w].pc = "next" /\ work'[w].todo = FirstOf(found, Batch)
               /\ work'[w].rest = (found # FirstOf(found, Batch))
               /\ work'[w].last = LastOf(FirstOf(found, Batch), work[w].job.user)
               /\ work'[w].todo \subseteq Users
               /\ Keeps(w, {"job", "held", "failed", "cipher", "state", "seq"})
<1> DEFINE found == NodeCandidates(work[w].job.node, work[w].job.user)
           todo == FirstOf(found, Batch)
           rest == found # todo
           last == LastOf(todo, work[w].job.user)
<1>1. work[w] \in Work /\ todo \subseteq Users /\ rest \in BOOLEAN
  BY DEF TypeOK, NodeCandidates, FirstOf
<1>2. last \in Users \union {0}
  BY <1>1, LastOfBatch
<1>3. work' = [work EXCEPT ![w].pc = "next", ![w].todo = todo, ![w].rest = rest, ![w].last = last]
  BY DEF ReadBatch
<1> HIDE DEF found, todo, rest, last
<1>4. work'[w] = [work[w] EXCEPT !.pc = "next", !.todo = todo, !.rest = rest, !.last = last]
  BY <1>3 DEF TypeOK
<1>5. work'[w] \in Work
  BY <1>1, <1>2, <1>4 DEF Work
<1>6. work' \in [Workers -> Work]
  BY <1>3, <1>5 DEF TypeOK
<1> QED
  BY <1>1, <1>4, <1>6 DEF Work, Keeps, found, todo, rest, last

\* What is left of a job when a pair is done.
LEMMA PairDoneMemory ==
    ASSUME TypeOK, NEW w \in Workers, NEW held \in BOOLEAN, PairDone(w, held)
    PROVE  /\ work' \in [Workers -> Work]
           /\ work'[w].pc = IF ByUser(w) THEN "pair" ELSE "next"
           /\ work'[w].todo = work[w].todo \ {Smallest(work[w].todo)}
           /\ work'[w].held = (work[w].held \/ held)
           /\ Keeps(w, {"job", "failed", "cipher", "rest", "last"})
<1> DEFINE pc == IF ByUser(w) THEN "pair" ELSE "next"
           todo == work[w].todo \ {Smallest(work[w].todo)}
           now == work[w].held \/ held
<1>1. work[w] \in Work /\ now \in BOOLEAN /\ "absent" \in RowState
      /\ pc \in {"pair", "next"}
  BY DEF TypeOK, Work, RowState
<1>2. work'[w] = [work[w] EXCEPT !.pc = pc, !.todo = todo, !.held = now,
                                 !.state = "absent", !.seq = 0]
  BY DEF PairDone, ByUser, TypeOK
<1>3. todo \in SUBSET (Users \union Nodes)
  BY <1>1 DEF Work
<1> HIDE DEF pc, todo, now
<1>4. work'[w] \in Work
  <2>1. work'[w] = [pc |-> pc, job |-> work[w].job, attempts |-> work[w].attempts,
                    todo |-> todo, rest |-> work[w].rest, last |-> work[w].last,
                    state |-> "absent", seq |-> 0, held |-> now,
                    failed |-> work[w].failed, cipher |-> work[w].cipher]
    BY <1>1, <1>2 DEF Work
  <2> QED
    BY <1>1, <1>3, <2>1 DEF Work
<1>5. work' \in [Workers -> Work]
  BY <1>4 DEF PairDone, TypeOK
<1> QED
  BY <1>1, <1>2, <1>5 DEF Work, Keeps, pc, todo, now

\* The state that a pair is to be written in.
Wanted(u, n) == IF Shares(u, n) THEN sub[u] ELSE "removed"

\* It is a state that a row may be written in.
LEMMA WantedState ==
    ASSUME TypeOK, NEW u \in Users, NEW n
    PROVE  Wanted(u, n) \in {"active", "suspended", "removed"}
BY DEF Wanted, Shares, TypeOK, SubState

\* The pair that a worker is at.
LEMMA PairAt ==
    ASSUME TypeOK, Lists, NEW w \in Workers,
           work[w].pc \in {"pair", "commit", "next"}, work[w].todo # {}
    PROVE  /\ CurUser(w) \in Users /\ CurNode(w) \in Nodes
           /\ Smallest(work[w].todo) \in work[w].todo
           /\ Smallest(work[w].todo) = IF ByUser(w) THEN CurNode(w) ELSE CurUser(w)
           /\ ByUser(w) => CurUser(w) = work[w].job.user
           /\ ~ByUser(w) => CurNode(w) = work[w].job.node
<1>1. work[w].job \in Key /\ work[w].todo \subseteq (IF ByUser(w) THEN Nodes ELSE Users)
  BY DEF Lists, Listed
<1>2. work[w].todo \in SUBSET Nat
  BY <1>1, IdentifiersAssumption
<1>3. Smallest(work[w].todo) \in work[w].todo
  BY <1>2, SmallestIn
<1>4. /\ ByUser(w) => work[w].job.user \in Users
      /\ ~ByUser(w) => work[w].job.node \in Nodes
  BY <1>1 DEF Key, ByUser, UserKey, NodeKey, NextKey
<1> QED
  BY <1>1, <1>3, <1>4 DEF CurUser, CurNode, ByUser

\* A pair is passed over: nothing to write, or withheld.
Passes(w) ==
    LET u == CurUser(w)  n == CurNode(w) IN
    /\ \/ ~Shares(u, n) /\ ~HasRow(u, n)
       \/ Withholds(w, Wanted(u, n))
    /\ PairDone(w, Withholds(w, Wanted(u, n)))
    /\ ReleasePair(w)
    /\ UNCHANGED nodeLock

\* A pair is taken: its number is chosen under the row lock of the node.
Takes(w) ==
    LET u == CurUser(w)  n == CurNode(w) IN
    /\ Shares(u, n) \/ HasRow(u, n)
    /\ ~Withholds(w, Wanted(u, n))
    /\ nodeLock' = [nodeLock EXCEPT ![n] = w]
    /\ work' = [work EXCEPT ![w].pc = "commit", ![w].state = Wanted(u, n),
                            ![w].seq = NextUsersSeq(n)]
    /\ UNCHANGED userLock

\* TakePair passes a pair over or takes it.
LEMMA TakePairCases ==
    ASSUME NEW w \in Workers, TakePair(w)
    PROVE  /\ work[w].pc = "pair" /\ work[w].todo # {} /\ NodeFree(CurNode(w))
           /\ Passes(w) \/ Takes(w)
           /\ UNCHANGED <<business, queue, buried, store, faults>>
BY DEF TakePair, Passes, Takes, Wanted

\* A pair that is taken is kept in memory with its state and its number.
LEMMA TakesMemory ==
    ASSUME TypeOK, Lists, NEW w \in Workers, work[w].pc = "pair", work[w].todo # {}, Takes(w)
    PROVE  /\ work' \in [Workers -> Work]
           /\ work'[w].pc = "commit"
           /\ work'[w].state = Wanted(CurUser(w), CurNode(w))
           /\ work'[w].seq = NextUsersSeq(CurNode(w))
           /\ Keeps(w, {"job", "todo", "held", "failed", "cipher", "rest", "last"})
<1> DEFINE state == Wanted(CurUser(w), CurNode(w))
           seq == NextUsersSeq(CurNode(w))
<1>1. CurUser(w) \in Users /\ CurNode(w) \in Nodes
  BY PairAt
<1>2. work[w] \in Work /\ state \in RowState /\ seq \in Nat
  BY <1>1, WantedState DEF TypeOK, RowState, NextUsersSeq
<1>3. work' = [work EXCEPT ![w].pc = "commit", ![w].state = state, ![w].seq = seq]
  BY DEF Takes
<1> HIDE DEF state, seq
<1>4. work'[w] = [work[w] EXCEPT !.pc = "commit", !.state = state, !.seq = seq]
  BY <1>3 DEF TypeOK
<1>5. work'[w] \in Work
  BY <1>2, <1>4 DEF Work
<1>6. work' \in [Workers -> Work]
  BY <1>3, <1>5 DEF TypeOK
<1> QED
  BY <1>2, <1>4, <1>6 DEF Work, Keeps, state, seq

\* The end of the list: the handler raises if a row was withheld.
LEMMA EndMemory ==
    ASSUME TypeOK, NEW w \in Workers, UnlockPublishedUser(w) \/ Continue(w)
    PROVE  /\ work' \in [Workers -> Work]
           /\ work'[w].pc = "finish" /\ work'[w].failed = work[w].held
           /\ Keeps(w, {"job", "todo", "held", "cipher", "rest", "last"})
<1>1. work[w] \in Work
  BY DEF TypeOK
<1>2. work' = [work EXCEPT ![w].pc = "finish", ![w].failed = work[w].held]
  BY DEF UnlockPublishedUser, Continue
<1>3. work'[w] = [work[w] EXCEPT !.pc = "finish", !.failed = work[w].held]
  BY <1>2 DEF TypeOK
<1>4. work'[w] \in Work
  BY <1>1, <1>3 DEF Work
<1>5. work' \in [Workers -> Work]
  BY <1>2, <1>4 DEF TypeOK
<1> QED
  BY <1>1, <1>3, <1>5 DEF Work, Keeps

\* The handler raises in the middle: the list is forgotten, the job is not.
LEMMA FailMemory ==
    ASSUME TypeOK, NEW w \in Workers, HandlerFails(w)
    PROVE  /\ work' \in [Workers -> Work]
           /\ work'[w].pc = "finish" /\ work'[w].failed /\ ~work'[w].held /\ ~work'[w].rest
           /\ Keeps(w, {"job", "cipher"})
<1>1. work[w] \in Work /\ "absent" \in RowState
  BY DEF TypeOK, RowState
<1>2. work' = [work EXCEPT ![w] =
                 [Idle(work[w].cipher) EXCEPT !.pc = "finish", !.failed = TRUE,
                                              !.job = work[w].job, !.attempts = work[w].attempts]]
  BY DEF HandlerFails
<1>3. work'[w] = [pc |-> "finish", job |-> work[w].job, attempts |-> work[w].attempts,
                  todo |-> {}, rest |-> FALSE, last |-> 0, state |-> "absent", seq |-> 0,
                  held |-> FALSE, failed |-> TRUE, cipher |-> work[w].cipher]
  BY <1>2 DEF TypeOK, Idle
<1>4. work'[w] \in Work
  BY <1>1, <1>3 DEF Work
<1>5. work' \in [Workers -> Work]
  BY <1>2, <1>4 DEF TypeOK
<1> QED
  BY <1>3, <1>5 DEF Keeps

\* A worker without a job.
LEMMA IdleMemory ==
    ASSUME TypeOK, NEW w \in Workers, Finish(w) \/ Crash(w)
    PROVE  /\ work' \in [Workers -> Work]
           /\ work'[w].pc = "idle" /\ work'[w].job = Ended
           /\ ~work'[w].held /\ ~work'[w].failed /\ ~work'[w].rest
<1>1. "absent" \in RowState /\ 0 \in 0 .. MaxAttempts
  BY BoundsAssumption DEF RowState
<1>2. PICK c \in BOOLEAN : work' = [work EXCEPT ![w] = Idle(c)]
  <2>1. work[w].cipher \in BOOLEAN
    BY DEF TypeOK, Work
  <2>2. \A c \in Ciphers : c \in BOOLEAN
    BY DEF Ciphers
  <2> QED
    BY <2>1, <2>2 DEF Finish, Crash
<1>3. Idle(c) \in Work
  BY <1>1 DEF Idle, Work
<1> QED
  BY <1>2, <1>3 DEF TypeOK, Idle
---------------------------------------------------------------------------
(* The steps of a worker.                                                  *)

WorkerStep(w) == Claim(w) \/ Step(w) \/ HandlerFails(w) \/ Crash(w)

\* The user whose lock a worker holds.
LEMMA UserAt ==
    ASSUME TypeOK, Lists, NEW w \in Workers, work[w].pc \in {"candidates", "pair", "commit"}
    PROVE  CurUser(w) \in Users
<1>1. CASE ByUser(w)
  <2>1. work[w].job \in Key
    BY DEF Lists, Listed
  <2>2. work[w].job.user \in Users
    BY <1>1, <2>1 DEF ByUser, Key, UserKey, NodeKey, NextKey
  <2> QED
    BY <1>1, <2>2 DEF ByUser, CurUser
<1>2. CASE ~ByUser(w)
  <2>1. work[w].pc \in {"pair", "commit"} /\ work[w].todo # {}
    BY <1>2 DEF Lists, Listed
  <2> QED
    BY <2>1, PairAt
<1> QED
  BY <1>1, <1>2

\* What a step may touch of what the other workers hold.
Frame(w) ==
    /\ \A v \in Workers \ {w} : work'[v] = work[v]
    /\ \A u \in Users : userLock'[u] = userLock[u] \/ userLock[u] \in {w, Nobody}
    /\ \A n \in Nodes : nodeLock'[n] = nodeLock[n] \/ nodeLock[n] \in {w, Nobody}
    /\ \A n \in Nodes : desired'[n] = desired[n] \/ nodeLock[n] = w

\* Inside this frame the other workers keep what the invariant says of them.
LEMMA OthersKept ==
    ASSUME IInv, NEW w \in Workers, Frame(w), NEW v \in Workers \ {w}
    PROVE  Listed(v)' /\ LockedBy(v)' /\ NumberedBy(v)'
<1> USE DEF IInv
<1>1. work'[v] = work[v] /\ v # Nobody
  BY WorkersAssumption DEF Frame
<1>2. CurUser(v)' = CurUser(v) /\ CurNode(v)' = CurNode(v) /\ ByUser(v)' = ByUser(v)
  BY <1>1 DEF CurUser, CurNode, ByUser
<1>3. Listed(v)'
  BY <1>1, <1>2 DEF Lists, Listed
<1>4. ASSUME work[v].pc = "commit"
      PROVE  /\ CurNode(v) \in Nodes /\ nodeLock[CurNode(v)] = v
             /\ nodeLock'[CurNode(v)] = v /\ desired'[CurNode(v)] = desired[CurNode(v)]
  <2>1. CurNode(v) \in Nodes
    BY <1>4, PairAt DEF Lists, Listed
  <2>2. nodeLock[CurNode(v)] = v
    BY <1>4 DEF Locked, LockedBy
  <2> QED
    BY <1>1, <2>1, <2>2 DEF Frame
<1>5. ASSUME work[v].pc \in {"candidates", "pair", "commit"}
      PROVE  userLock'[CurUser(v)] = v
  <2>1. CurUser(v) \in Users
    BY <1>5, UserAt
  <2>2. userLock[CurUser(v)] = v
    BY <1>5 DEF Locked, LockedBy
  <2> QED
    BY <1>1, <2>1, <2>2 DEF Frame
<1>6. LockedBy(v)'
  BY <1>1, <1>2, <1>4, <1>5 DEF LockedBy
<1>7. NumberedBy(v)'
  BY <1>1, <1>2, <1>4 DEF Numbered, NumberedBy, NextUsersSeq
<1> QED
  BY <1>3, <1>6, <1>7

\* A worker releases locks of its own and takes locks that are free, and counts a node's
\* sequence only under the row lock of the node.
LEMMA StepFrame ==
    ASSUME IInv, NEW w \in Workers, WorkerStep(w)
    PROVE  Frame(w)
<1> USE DEF IInv
<1>1. \A v \in Workers \ {w} : work'[v] = work[v]
  BY OthersRest DEF WorkerStep
<1>2. CASE HandlerFails(w) \/ Crash(w)
  BY <1>1, <1>2 DEF HandlerFails, Crash, FreedLocks, Frame, store
<1>3. CASE \/ Claim(w) \/ ReadCandidates(w) \/ ReadBatch(w) \/ Continue(w) \/ Finish(w)
  BY <1>1, <1>3 DEF Claim, ReadCandidates, ReadBatch, Continue, Finish, Frame, locks, store
<1>4. CASE LockPublishedUser(w) \/ LockNextUser(w)
  BY <1>1, <1>4 DEF LockPublishedUser, LockNextUser, Frame, store, TypeOK
<1>5. CASE UnlockPublishedUser(w)
  <2>1. work[w].pc = "pair" /\ work[w].todo = {} /\ ByUser(w)
    BY <1>5 DEF UnlockPublishedUser, Lists, Listed
  <2>2. userLock[work[w].job.user] = w
    BY <2>1 DEF Locked, LockedBy, CurUser, ByUser
  <2> QED
    BY <1>1, <1>5, <2>2 DEF UnlockPublishedUser, Frame, store, TypeOK
<1>6. CASE TakePair(w)
  <2>1. /\ work[w].pc = "pair" /\ NodeFree(CurNode(w))
        /\ Passes(w) \/ Takes(w)
    BY <1>6, TakePairCases
  <2>2. userLock[CurUser(w)] = w
    BY <2>1 DEF Locked, LockedBy
  <2>3. UNCHANGED store
    BY <1>6, TakePairCases
  <2> QED
    BY <1>1, <2>1, <2>2, <2>3
    DEF Passes, Takes, ReleasePair, NodeFree, Frame, store, TypeOK
<1>7. CASE CommitPair(w)
  <2>1. userLock[CurUser(w)] = w /\ nodeLock[CurNode(w)] = w
    BY <1>7 DEF CommitPair, Locked, LockedBy
  <2> QED
    BY <1>1, <1>7, <2>1 DEF CommitPair, ReleasePair, Frame, TypeOK
<1> QED
  BY <1>2, <1>3, <1>4, <1>5, <1>6, <1>7 DEF WorkerStep, Step

---------------------------------------------------------------------------
(* Every step of a worker preserves the invariant.                         *)

\* A worker leaves the business state alone, and what it writes has its type.
LEMMA WorkerTypes ==
    ASSUME IInv, NEW w \in Workers, WorkerStep(w)
    PROVE  TypeOK' /\ UNCHANGED business
<1> USE DEF IInv
<1>1. UNCHANGED business
  BY DEF WorkerStep, Step, Claim, LockPublishedUser, ReadCandidates, ReadBatch, LockNextUser,
         TakePair, CommitPair, UnlockPublishedUser, Continue, Finish, HandlerFails, Crash
<1>2. faults' \in 0 .. MaxFaults
  <2>1. UNCHANGED faults \/ Fault
    BY DEF WorkerStep, Step, Claim, Claimable, LockPublishedUser, ReadCandidates, ReadBatch,
           LockNextUser, TakePair, CommitPair, UnlockPublishedUser, Continue, Finish,
           HandlerFails, Crash
  <2> QED
    BY <2>1, BoundsAssumption DEF Fault, TypeOK
<1>3. work' \in [Workers -> Work]
  <2>1. CASE Claim(w)
    BY <2>1, ClaimMemory
  <2>2. CASE LockPublishedUser(w) \/ LockNextUser(w)
    <3>1. \E pc \in {"candidates", "pair"} : Goto(w, pc)
      BY <2>2 DEF LockPublishedUser, LockNextUser
    <3> QED
      BY <3>1, GotoMemory
  <2>3. CASE ReadCandidates(w)
    BY <2>3, ReadCandidatesMemory
  <2>4. CASE ReadBatch(w)
    BY <2>4, ReadBatchMemory
  <2>5. CASE TakePair(w)
    <3>1. CASE Passes(w)
      <4>1. \A state : Withholds(w, state) \in BOOLEAN
        BY DEF Withholds
      <4> QED
        BY <3>1, <4>1, PairDoneMemory DEF Passes
    <3>2. CASE Takes(w)
      BY <2>5, <3>2, TakePairCases, TakesMemory
    <3> QED
      BY <2>5, <3>1, <3>2, TakePairCases
  <2>6. CASE CommitPair(w)
    BY <2>6, PairDoneMemory DEF CommitPair
  <2>7. CASE UnlockPublishedUser(w) \/ Continue(w)
    BY <2>7, EndMemory
  <2>8. CASE HandlerFails(w)
    BY <2>8, FailMemory
  <2>9. CASE Finish(w) \/ Crash(w)
    BY <2>9, IdleMemory
  <2> QED
    BY <2>1, <2>2, <2>3, <2>4, <2>5, <2>6, <2>7, <2>8, <2>9 DEF WorkerStep, Step
<1>4. queue' \in [Key -> Job] /\ buried' \subseteq [job : Key, withheld : BOOLEAN]
  <2>1. CASE Claim(w)
    <3>1. PICK k \in Key, n \in 0 .. MaxAttempts :
             queue' = [queue EXCEPT ![k] = [status |-> "running", owner |-> w, attempts |-> n]]
      BY <2>1, ClaimMemory
    <3>2. [status |-> "running", owner |-> w, attempts |-> n] \in Job
      BY DEF Job
    <3> QED
      BY <2>1, <3>1, <3>2 DEF Claim, TypeOK
  <2>2. CASE Continue(w)
    <3>1. [Gone EXCEPT !.status = "pending"] \in Job
      BY BoundsAssumption DEF Gone, Job
    <3>2. \A keys : Placed(queue, keys) \in [Key -> Job]
      BY <3>1 DEF Placed, TypeOK
    <3> QED
      BY <2>2, <3>2 DEF Continue, TypeOK
  <2>3. CASE Finish(w)
    <3> DEFINE k == work[w].job
    <3>1. work[w] \in Work /\ k \in Key
      BY <2>3 DEF Finish, TypeOK, Lists, Listed
    <3>2. [queue[k] EXCEPT !.status = "pending", !.owner = Nobody] \in Job /\ Gone \in Job
      <4>1. queue[k] \in Job
        BY <3>1 DEF TypeOK
      <4>2. 0 \in 0 .. MaxAttempts
        BY BoundsAssumption
      <4> QED
        BY <4>1, <4>2 DEF Job, Gone
    <3>3. \/ queue' = queue
          \/ queue' = [queue EXCEPT ![k] = [@ EXCEPT !.status = "pending", !.owner = Nobody]]
          \/ queue' = [queue EXCEPT ![k] = Gone]
      BY <2>3 DEF Finish
    <3>4. queue' \in [Key -> Job]
      BY <3>1, <3>2, <3>3 DEF TypeOK
    <3>5. [job |-> k, withheld |-> work[w].held] \in [job : Key, withheld : BOOLEAN]
      BY <3>1 DEF Work
    <3>6. buried' = buried \/ buried' = buried \union {[job |-> k, withheld |-> work[w].held]}
      BY <2>3 DEF Finish
    <3> QED
      BY <3>4, <3>5, <3>6 DEF TypeOK
  <2>4. CASE ~Claim(w) /\ ~Continue(w) /\ ~Finish(w)
    <3>1. UNCHANGED <<queue, buried>>
      BY <2>4 DEF WorkerStep, Step, LockPublishedUser, ReadCandidates, ReadBatch, LockNextUser,
                  TakePair, CommitPair, UnlockPublishedUser, HandlerFails, Crash
    <3> QED
      BY <3>1 DEF TypeOK
  <2> QED
    BY <2>1, <2>2, <2>3, <2>4
<1>5. /\ userLock' \in [Users -> Workers \union {Nobody}]
      /\ nodeLock' \in [Nodes -> Workers \union {Nobody}]
  <2>1. CASE HandlerFails(w) \/ Crash(w)
    BY <2>1 DEF HandlerFails, Crash, FreedLocks, TypeOK
  <2>2. CASE TakePair(w)
    BY <2>2, TakePairCases DEF Passes, Takes, ReleasePair, TypeOK
  <2>3. CASE CommitPair(w)
    BY <2>3 DEF CommitPair, ReleasePair, TypeOK
  <2>4. CASE LockPublishedUser(w) \/ LockNextUser(w) \/ UnlockPublishedUser(w)
    BY <2>4 DEF LockPublishedUser, LockNextUser, UnlockPublishedUser, TypeOK
  <2>5. CASE Claim(w) \/ ReadCandidates(w) \/ ReadBatch(w) \/ Continue(w) \/ Finish(w)
    BY <2>5 DEF Claim, ReadCandidates, ReadBatch, Continue, Finish, TypeOK, locks
  <2> QED
    BY <2>1, <2>2, <2>3, <2>4, <2>5 DEF WorkerStep, Step
<1>6. /\ row' \in [Nodes -> [Users -> [state : RowState, seq : Nat]]]
      /\ creds' \in [Nodes -> [Users -> BOOLEAN]]
      /\ desired' \in [Nodes -> Nat]
  <2>1. CASE CommitPair(w)
    <3>1. CurUser(w) \in Users /\ CurNode(w) \in Nodes
      BY <2>1, PairAt DEF CommitPair, Lists, Listed
    <3>2. work[w].state \in RowState /\ work[w].seq \in Nat /\ work[w].cipher \in BOOLEAN
      BY DEF TypeOK, Work
    <3>3. \A had \in BOOLEAN : CredentialsAfter(w, had) \in BOOLEAN
      BY DEF CredentialsAfter
    <3>4. row' \in [Nodes -> [Users -> [state : RowState, seq : Nat]]]
      BY <2>1, <3>1, <3>2 DEF CommitPair, TypeOK
    <3>5. creds' \in [Nodes -> [Users -> BOOLEAN]]
      BY <2>1, <3>1, <3>3 DEF CommitPair, TypeOK
    <3> QED
      BY <2>1, <3>1, <3>2, <3>4, <3>5 DEF CommitPair, TypeOK
  <2>2. CASE ~CommitPair(w)
    <3>1. UNCHANGED store
      BY <2>2 DEF WorkerStep, Step, Claim, LockPublishedUser, ReadCandidates, ReadBatch,
                  LockNextUser, TakePair, UnlockPublishedUser, Continue, Finish,
                  HandlerFails, Crash
    <3> QED
      BY <3>1 DEF store, TypeOK
  <2> QED
    BY <2>1, <2>2
<1> QED
  BY <1>1, <1>2, <1>3, <1>4, <1>5, <1>6 DEF TypeOK, business

\* The worker that takes a step holds what it should afterwards.
LEMMA WorkerKeeps ==
    ASSUME IInv, NEW w \in Workers, WorkerStep(w)
    PROVE  Listed(w)' /\ LockedBy(w)' /\ NumberedBy(w)'
<1> USE DEF IInv
<1>1. /\ Listed(w) /\ LockedBy(w) /\ NumberedBy(w) /\ work[w] \in Work
      /\ userLock \in [Users -> Workers \union {Nobody}]
      /\ nodeLock \in [Nodes -> Workers \union {Nobody}]
      /\ Users \intersect {0} = {} /\ Nodes \intersect {0} = {}
  BY IdentifiersAssumption DEF Lists, Locked, Numbered, TypeOK
<1>2. CASE Claim(w)
  <2>1. work[w].pc = "idle"
    BY <1>2 DEF Claim
  <2>2. PICK k \in Key :
          /\ work'[w].pc = "start" /\ work'[w].job = k
          /\ Keeps(w, {"todo", "held", "failed", "cipher", "state", "seq", "rest", "last"})
    BY <1>2, ClaimMemory
  <2> QED
    BY <1>1, <2>1, <2>2 DEF Keeps, Listed, LockedBy, NumberedBy
<1>3. CASE LockPublishedUser(w)
  <2>1. /\ work'[w].pc = "candidates"
        /\ Keeps(w, {"job", "todo", "held", "failed", "cipher", "state", "seq", "rest", "last"})
    BY <1>3, GotoMemory DEF LockPublishedUser
  <2>2. work[w].pc = "start" /\ ByUser(w) /\ work[w].job \in Key
    BY <1>1, <1>3 DEF LockPublishedUser, ByUser, Listed
  <2>3. work[w].job.user \in Users
    BY <2>2 DEF ByUser, Key, UserKey, NodeKey, NextKey
  <2>4. userLock'[work[w].job.user] = w
    BY <1>1, <1>3, <2>3 DEF LockPublishedUser
  <2> QED
    BY <1>1, <2>1, <2>2, <2>4 DEF Keeps, Listed, LockedBy, NumberedBy, ByUser, CurUser
<1>4. CASE ReadCandidates(w)
  <2>1. /\ work'[w].pc = "pair" /\ work'[w].todo \subseteq Nodes
        /\ Keeps(w, {"job", "held", "failed", "cipher", "state", "seq", "rest", "last"})
    BY <1>4, ReadCandidatesMemory
  <2>2. work[w].pc = "candidates" /\ ByUser(w) /\ userLock' = userLock
    BY <1>1, <1>4 DEF ReadCandidates, Listed, locks
  <2> QED
    BY <1>1, <2>1, <2>2 DEF Keeps, Listed, LockedBy, NumberedBy, ByUser, CurUser
<1>5. CASE ReadBatch(w)
  <2>1. /\ work'[w].pc = "next" /\ work'[w].todo \subseteq Users
        /\ Keeps(w, {"job", "held", "failed", "cipher", "state", "seq"})
    BY <1>5, ReadBatchMemory
  <2>2. work[w].pc = "start" /\ ~ByUser(w)
    BY <1>5 DEF ReadBatch, ByUser
  <2> QED
    BY <1>1, <2>1, <2>2 DEF Keeps, Listed, LockedBy, NumberedBy, ByUser
<1>6. CASE LockNextUser(w)
  <2>1. /\ work'[w].pc = "pair"
        /\ Keeps(w, {"job", "todo", "held", "failed", "cipher", "state", "seq", "rest", "last"})
    BY <1>6, GotoMemory DEF LockNextUser
  <2>2. work[w].pc = "next" /\ work[w].todo # {} /\ ~ByUser(w)
    BY <1>1, <1>6 DEF LockNextUser, Listed
  <2>3. CurUser(w) \in Users
    BY <2>2, PairAt
  <2>4. userLock'[CurUser(w)] = w /\ CurUser(w)' = CurUser(w)
    BY <1>1, <1>6, <2>1, <2>3 DEF LockNextUser, Keeps, CurUser
  <2> QED
    BY <1>1, <2>1, <2>2, <2>4 DEF Keeps, Listed, LockedBy, NumberedBy, ByUser
<1>7. ASSUME work[w].pc \in {"pair", "commit"}, work[w].todo # {},
             NEW held \in BOOLEAN, PairDone(w, held), ReleasePair(w)
      PROVE  Listed(w)' /\ LockedBy(w)' /\ NumberedBy(w)'
  <2>1. /\ work'[w].pc = IF ByUser(w) THEN "pair" ELSE "next"
        /\ work'[w].todo = work[w].todo \ {Smallest(work[w].todo)}
        /\ Keeps(w, {"job", "failed", "cipher", "rest", "last"})
    BY <1>7, PairDoneMemory
  <2>2. ByUser(w)' = ByUser(w) /\ Listed(w)'
    BY <1>1, <1>7, <2>1 DEF Keeps, Listed, ByUser
  <2>3. LockedBy(w)'
    <3>1. CASE ByUser(w)
      BY <1>1, <1>7, <2>1, <3>1 DEF Keeps, LockedBy, ByUser, CurUser, ReleasePair
    <3>2. CASE ~ByUser(w)
      BY <2>1, <3>2 DEF LockedBy
    <3> QED
      BY <3>1, <3>2
  <2>4. NumberedBy(w)'
    BY <2>1 DEF NumberedBy
  <2> QED
    BY <2>2, <2>3, <2>4
<1>8. CASE TakePair(w)
  <2>1. work[w].pc = "pair" /\ work[w].todo # {} /\ NodeFree(CurNode(w)) /\ UNCHANGED store
    BY <1>8, TakePairCases
  <2>2. CASE Passes(w)
    <3>1. \A state : Withholds(w, state) \in BOOLEAN
      BY DEF Withholds
    <3> QED
      BY <1>7, <2>1, <2>2, <3>1 DEF Passes
  <2>3. CASE Takes(w)
    <3>1. /\ work'[w].pc = "commit"
          /\ work'[w].state = Wanted(CurUser(w), CurNode(w))
          /\ work'[w].seq = NextUsersSeq(CurNode(w))
          /\ Keeps(w, {"job", "todo", "held", "failed", "cipher", "rest", "last"})
      BY <2>1, <2>3, TakesMemory
    <3>2. CurUser(w) \in Users /\ CurNode(w) \in Nodes
      BY <2>1, PairAt
    <3>3. CurUser(w)' = CurUser(w) /\ CurNode(w)' = CurNode(w) /\ ByUser(w)' = ByUser(w)
      BY <3>1 DEF Keeps, CurUser, CurNode, ByUser
    <3>4. userLock' = userLock /\ nodeLock' = [nodeLock EXCEPT ![CurNode(w)] = w]
      BY <2>3 DEF Takes
    <3>5. LockedBy(w)'
      BY <1>1, <2>1, <3>2, <3>3, <3>4 DEF LockedBy
    <3>6. Listed(w)'
      BY <1>1, <2>1, <3>1, <3>3 DEF Keeps, Listed
    <3>7. NumberedBy(w)'
      <4>1. NextUsersSeq(CurNode(w))' = NextUsersSeq(CurNode(w))
        BY <2>1, <3>3 DEF NextUsersSeq, store
      <4>2. work'[w].state \in {"active", "suspended", "removed"}
        BY <3>1, <3>2, WantedState
      <4>3. work'[w].state = "active" => work'[w].cipher
        BY <2>3, <3>1 DEF Takes, Withholds, Keeps
      <4> QED
        BY <3>1, <4>1, <4>2, <4>3 DEF NumberedBy
    <3> QED
      BY <3>5, <3>6, <3>7
  <2> QED
    BY <1>8, <2>2, <2>3, TakePairCases
<1>9. CASE CommitPair(w)
  <2>1. work[w].pc = "commit" /\ work[w].todo # {}
    BY <1>1, <1>9 DEF CommitPair, Listed
  <2> QED
    BY <1>7, <1>9, <2>1 DEF CommitPair
<1>10. CASE UnlockPublishedUser(w) \/ Continue(w)
  <2>1. /\ work'[w].pc = "finish" /\ work'[w].failed = work[w].held
        /\ Keeps(w, {"job", "todo", "held", "cipher", "rest", "last"})
    BY <1>10, EndMemory
  <2>2. work[w].pc # "idle"
    BY <1>10 DEF UnlockPublishedUser, Continue
  <2> QED
    BY <1>1, <2>1, <2>2 DEF Keeps, Listed, LockedBy, NumberedBy, ByUser
<1>11. CASE HandlerFails(w)
  <2>1. /\ work'[w].pc = "finish" /\ work'[w].failed /\ ~work'[w].held
        /\ Keeps(w, {"job", "cipher"})
    BY <1>11, FailMemory
  <2>2. work[w].pc # "idle"
    BY <1>11 DEF HandlerFails
  <2> QED
    BY <1>1, <2>1, <2>2 DEF Keeps, Listed, LockedBy, NumberedBy
<1>12. CASE Finish(w) \/ Crash(w)
  <2>1. work'[w].pc = "idle" /\ ~work'[w].held /\ ~work'[w].failed
    BY <1>12, IdleMemory
  <2> QED
    BY <2>1 DEF Listed, LockedBy, NumberedBy
<1> QED
  BY <1>2, <1>3, <1>4, <1>5, <1>6, <1>8, <1>9, <1>10, <1>11, <1>12 DEF WorkerStep, Step

\* A commit gives the row of its pair a number above all others of the node, and
\* the pair credentials that match the row.
LEMMA StoreKept ==
    ASSUME IInv, NEW w \in Workers, WorkerStep(w)
    PROVE  /\ SequenceCoversRows' /\ CredentialsFollowRows'
           /\ \A n \in Nodes, u \in Users :
                 row'[n][u] # row[n][u] => row'[n][u].seq > desired[n]
<1> USE DEF IInv
<1>1. CASE CommitPair(w)
  <2> DEFINE u == CurUser(w)
             n == CurNode(w)
  <2>1. u \in Users /\ n \in Nodes
    BY <1>1, PairAt DEF CommitPair, Lists, Listed
  <2>2. /\ work[w].seq = desired[n] + 1 /\ desired[n] \in Nat
        /\ work[w].state \in {"active", "suspended", "removed"}
        /\ work[w].state = "active" => work[w].cipher
    BY <1>1, <2>1 DEF CommitPair, Numbered, NumberedBy, NextUsersSeq, TypeOK
  <2> DEFINE new == [state |-> work[w].state, seq |-> work[w].seq]
  <2>3. /\ desired' = [desired EXCEPT ![n] = work[w].seq]
        /\ row' = [row EXCEPT ![n][u] = new]
        /\ creds' = [creds EXCEPT ![n][u] = CredentialsAfter(w, @)]
    BY <1>1 DEF CommitPair
  <2>10. /\ \A m \in Nodes, v \in Users :
               row'[m][v] = IF m = n /\ v = u THEN new ELSE row[m][v]
         /\ \A m \in Nodes, v \in Users :
               creds'[m][v] = IF m = n /\ v = u THEN CredentialsAfter(w, creds[n][u])
                              ELSE creds[m][v]
         /\ \A m \in Nodes :
               desired'[m] = IF m = n THEN desired[n] + 1 ELSE desired[m]
    BY <2>1, <2>2, <2>3 DEF TypeOK
  <2>4. \A m \in Nodes, v \in Users : row[m][v].seq \in Nat
    BY DEF TypeOK
  <2>11. new.seq = desired[n] + 1 /\ new.state = work[w].state
    BY <2>2
  <2> HIDE DEF u, n, new
  <2>5. SequenceCoversRows'
    <3> SUFFICES ASSUME NEW m \in Nodes
                 PROVE  /\ \A v \in Users : row'[m][v].seq <= desired'[m]
                        /\ \A v, x \in Users :
                              row'[m][v].seq = row'[m][x].seq /\ row'[m][v].seq # 0 => v = x
                        /\ desired'[m] # 0 => \E v \in Users : row'[m][v].seq = desired'[m]
      BY DEF SequenceCoversRows
    <3>1. /\ \A v \in Users : row[m][v].seq <= desired[m]
          /\ \A v, x \in Users : row[m][v].seq = row[m][x].seq /\ row[m][v].seq # 0 => v = x
          /\ desired[m] # 0 => \E v \in Users : row[m][v].seq = desired[m]
      BY DEF SequenceCoversRows
    <3>2. CASE m = n
      <4>1. \A v \in Users : row'[m][v].seq = IF v = u THEN desired[n] + 1 ELSE row[n][v].seq
        BY <2>10, <2>11, <3>2
      <4>2. desired'[m] = desired[n] + 1
        BY <2>10, <3>2
      <4> QED
        BY <2>1, <2>2, <2>4, <3>1, <3>2, <4>1, <4>2
    <3>3. CASE m # n
      BY <2>10, <3>1, <3>3
    <3> QED
      BY <3>2, <3>3
  <2>6. CredentialsFollowRows'
    <3> SUFFICES ASSUME NEW m \in Nodes, NEW v \in Users
                 PROVE  /\ row'[m][v].state = "active" => creds'[m][v]
                        /\ creds'[m][v] => row'[m][v].state \notin {"absent", "removed"}
      BY DEF CredentialsFollowRows, HasRow
    <3>1. /\ row[m][v].state = "active" => creds[m][v]
          /\ creds[m][v] => row[m][v].state \notin {"absent", "removed"}
      BY DEF CredentialsFollowRows, HasRow
    <3>2. CASE m = n /\ v = u
      <4>1. /\ creds'[m][v] = CredentialsAfter(w, creds[n][u])
            /\ row'[m][v].state = work[w].state
        BY <2>10, <2>11, <3>2
      <4> QED
        BY <2>2, <4>1 DEF CredentialsAfter
    <3>3. CASE ~(m = n /\ v = u)
      BY <2>10, <3>1, <3>3
    <3> QED
      BY <3>2, <3>3
  <2>7. \A m \in Nodes, v \in Users : row'[m][v] # row[m][v] => row'[m][v].seq > desired[m]
    BY <2>2, <2>10, <2>11
  <2> QED
    BY <2>5, <2>6, <2>7
<1>2. CASE ~CommitPair(w)
  <2>1. UNCHANGED store
    BY <1>2 DEF WorkerStep, Step, Claim, LockPublishedUser, ReadCandidates, ReadBatch,
                LockNextUser, TakePair, UnlockPublishedUser, Continue, Finish,
                HandlerFails, Crash
  <2> QED
    BY <2>1 DEF store, SequenceCoversRows, CredentialsFollowRows, HasRow
<1> QED
  BY <1>1, <1>2

\* An operation commits with its jobs and touches no worker, no lock and no row.
LEMMA OperationFrame ==
    ASSUME TypeOK, Operation
    PROVE  /\ TypeOK' /\ UNCHANGED <<buried, store, locks, work, faults>>
           /\ ops' = ops + 1 /\ ops < MaxOps
<1>1. PICK keys : Commit(keys)
  BY DEF Operation, Transition, ChangePlan, RemoveUser, SetComposition, DeleteAccess, Recompose
<1>2. /\ UNCHANGED <<buried, store, locks, work, faults>> /\ ops' = ops + 1 /\ ops < MaxOps
      /\ queue' = Placed(queue, keys)
  BY <1>1 DEF Commit
<1>3. queue' \in [Key -> Job]
  <2>1. [Gone EXCEPT !.status = "pending"] \in Job
    BY BoundsAssumption DEF Gone, Job
  <2> QED
    BY <1>2, <2>1 DEF Placed, TypeOK
<1>4. ops' \in 0 .. MaxOps
  BY <1>2, BoundsAssumption DEF TypeOK
<1>5. sub' \in [Users -> SubState] /\ deleted' \in [Users -> BOOLEAN] /\ plan' \in [Users -> Plans]
  <2>1. CASE UNCHANGED <<sub, deleted, plan>>
    BY <2>1 DEF TypeOK
  <2>2. ASSUME NEW u \in Users, Transition(u) \/ ChangePlan(u) \/ RemoveUser(u)
        PROVE  /\ sub' \in [Users -> SubState] /\ deleted' \in [Users -> BOOLEAN]
               /\ plan' \in [Users -> Plans]
    BY <2>2 DEF Transition, ChangePlan, RemoveUser, TypeOK, SubState
  <2>3. CASE \E p \in Plans : SetComposition(p)
    BY <2>1, <2>3 DEF SetComposition, Recompose
  <2>4. CASE DeleteAccess
    BY <2>1, <2>4 DEF DeleteAccess, Recompose
  <2> QED
    BY <2>2, <2>3, <2>4 DEF Operation
<1>6. comp' \in [Plans -> SUBSET Nodes]
  <2>1. ASSUME NEW u \in Users, Transition(u) \/ ChangePlan(u) \/ RemoveUser(u)
        PROVE  comp' \in [Plans -> SUBSET Nodes]
    BY <2>1 DEF Transition, ChangePlan, RemoveUser, TypeOK
  <2>2. ASSUME NEW p \in Plans, SetComposition(p) PROVE comp' \in [Plans -> SUBSET Nodes]
    BY <2>2 DEF SetComposition, Recompose, TypeOK
  <2>3. CASE DeleteAccess
    BY <2>3 DEF DeleteAccess, Recompose, TypeOK
  <2> QED
    BY <2>1, <2>2, <2>3 DEF Operation
<1> QED
  BY <1>2, <1>3, <1>4, <1>5, <1>6 DEF TypeOK, store, locks

\* The invariant holds in a database that is published.
LEMMA InitIInv == Init => IInv
<1> SUFFICES ASSUME Init PROVE IInv
  OBVIOUS
<1> USE DEF Init
<1>1. TypeOK
  <2>1. work \in [Workers -> Work]
    <3>1. \A c \in Ciphers : c \in BOOLEAN
      BY MismatchAssumption DEF Ciphers
    <3>2. 0 \in 0 .. MaxAttempts /\ "absent" \in RowState
      BY BoundsAssumption DEF RowState
    <3>3. \A c \in Ciphers : Idle(c) \in Work
      BY <3>1, <3>2 DEF Idle, Work
    <3> QED
      BY <3>3
  <2>2. queue \in [Key -> Job]
    BY BoundsAssumption DEF Gone, Job
  <2>3. row \in [Nodes -> [Users -> [state : RowState, seq : Nat]]]
    <3>1. \A u \in Users, n \in Nodes :
             (IF Shares(u, n) THEN [state |-> sub[u], seq |-> u]
                              ELSE [state |-> "absent", seq |-> 0])
               \in [state : RowState, seq : Nat]
      BY IdentifiersAssumption DEF Shares, SubState, RowState
    <3> QED
      BY <3>1
  <2>4. creds \in [Nodes -> [Users -> BOOLEAN]]
    BY DEF Shares
  <2>5. desired \in [Nodes -> Nat]
    <3>1. Users \union {0} \subseteq Nat /\ desired \in [Nodes -> Users \union {0}]
      BY IdentifiersAssumption
    <3> QED
      BY <3>1, Zenon
  <2>6. \A u \in Users : deleted[u] = FALSE
    OBVIOUS
  <2> QED
    BY <2>1, <2>2, <2>3, <2>4, <2>5, BoundsAssumption DEF TypeOK
<1>2. Lists /\ Locked /\ Numbered
  <2>1. \A w \in Workers : work[w].pc = "idle" /\ ~work[w].held /\ ~work[w].failed
    BY DEF Idle
  <2> QED
    BY <2>1 DEF Lists, Listed, Locked, LockedBy, Numbered, NumberedBy
<1>3. \A n \in Nodes, u \in Users :
         /\ Shares(u, n) => row[n][u] = [state |-> sub[u], seq |-> u] /\ creds[n][u]
         /\ ~Shares(u, n) => row[n][u] = [state |-> "absent", seq |-> 0] /\ ~creds[n][u]
  OBVIOUS
<1>4. SequenceCoversRows
  <2> SUFFICES ASSUME NEW n \in Nodes
               PROVE  /\ \A u \in Users : row[n][u].seq <= desired[n]
                      /\ \A u, v \in Users :
                            row[n][u].seq = row[n][v].seq /\ row[n][u].seq # 0 => u = v
                      /\ desired[n] # 0 => \E u \in Users : row[n][u].seq = desired[n]
    BY DEF SequenceCoversRows
  <2>1. /\ \A u \in Users : row[n][u].seq <= desired[n]
        /\ desired[n] # 0 => row[n][desired[n]].seq = desired[n]
        /\ desired[n] \in Users \union {0}
    OBVIOUS
  <2>2. \A u \in Users : row[n][u].seq \in {u, 0}
    <3> SUFFICES ASSUME NEW u \in Users PROVE row[n][u].seq \in {u, 0}
      OBVIOUS
    <3> QED
      BY <1>3 DEF Shares
  <2> HIDE DEF Init
  <2> QED
    BY <2>1, <2>2
<1>5. CredentialsFollowRows
  BY <1>3 DEF CredentialsFollowRows, HasRow, Shares, SubState
<1> QED
  BY <1>1, <1>2, <1>4, <1>5 DEF IInv

\* Every step preserves the invariant.
LEMMA StepIInv ==
    ASSUME IInv, [Next]_vars
    PROVE  IInv'
<1>1. CASE Operation
  <2>1. TypeOK' /\ UNCHANGED <<buried, store, locks, work, faults>>
    BY <1>1, OperationFrame DEF IInv
  <2> QED
    BY <2>1 DEF IInv, Lists, Listed, Locked, LockedBy, Numbered, NumberedBy, ByUser, CurUser,
                CurNode, NextUsersSeq, SequenceCoversRows, CredentialsFollowRows, HasRow, store,
                locks
<1>2. ASSUME NEW w \in Workers, WorkerStep(w)
      PROVE  IInv'
  <2>1. TypeOK' /\ SequenceCoversRows' /\ CredentialsFollowRows'
    BY <1>2, WorkerTypes, StoreKept
  <2>2. \A v \in Workers : Listed(v)' /\ LockedBy(v)' /\ NumberedBy(v)'
    <3> SUFFICES ASSUME NEW v \in Workers
                 PROVE  Listed(v)' /\ LockedBy(v)' /\ NumberedBy(v)'
      OBVIOUS
    <3>1. CASE v = w
      BY <1>2, <3>1, WorkerKeeps
    <3>2. CASE v # w
      BY <1>2, <3>2, StepFrame, OthersKept
    <3> QED
      BY <3>1, <3>2
  <2> QED
    BY <2>1, <2>2 DEF IInv, Lists, Locked, Numbered
<1>3. CASE UNCHANGED vars
  BY <1>3 DEF IInv, TypeOK, Lists, Listed, Locked, LockedBy, Numbered, NumberedBy, ByUser,
              CurUser, CurNode, NextUsersSeq, SequenceCoversRows, CredentialsFollowRows, HasRow,
              vars, business, store, locks
<1> QED
  BY <1>1, <1>2, <1>3 DEF Next, WorkerStep

\* The invariant holds in every reachable state.
THEOREM Invariance == Spec => []IInv
<1>1. Init => IInv
  BY InitIInv
<1>2. IInv /\ [Next]_vars => IInv'
  BY StepIInv
<1> QED
  BY <1>1, <1>2, PTL DEF Spec

\* The variables of the model keep their types.
THEOREM TypeCorrect == Spec => []TypeOK
<1>1. IInv => TypeOK
  BY DEF IInv
<1> QED
  BY <1>1, Invariance, PTL

\* updated_seq is a cursor of each node: no two rows share a number, and the node's
\* counter is the number of its latest row.
THEOREM SequenceCovers == Spec => []SequenceCoversRows
<1>1. IInv => SequenceCoversRows
  BY DEF IInv
<1> QED
  BY <1>1, Invariance, PTL

\* Active rows have credentials, rows that are gone have none.
THEOREM CredentialsFollow == Spec => []CredentialsFollowRows
<1>1. IInv => CredentialsFollowRows
  BY DEF IInv
<1> QED
  BY <1>1, Invariance, PTL

\* The row lock of the node, held from the choice of the number to the commit: a row
\* never appears at or below a number that readers may hold already.
THEOREM CommitOrder == Spec => CommitsInOrder
<1> DEFINE A == \A n \in Nodes, u \in Users : row'[n][u] # row[n][u] => row'[n][u].seq > desired[n]
<1>1. IInv /\ [Next]_vars => [A]_vars
  <2> SUFFICES ASSUME IInv, Next PROVE A
    OBVIOUS
  <2>1. CASE Operation
    BY <2>1, OperationFrame DEF IInv, store
  <2>2. ASSUME NEW w \in Workers, WorkerStep(w) PROVE A
    BY <2>2, StoreKept
  <2> QED
    BY <2>1, <2>2 DEF Next, WorkerStep
<1> QED
  BY <1>1, Invariance, PTL DEF Spec, CommitsInOrder

---------------------------------------------------------------------------
(* The rows of the nodes are the log that UsersStream promises.  Beyond the *)
(* invariant above this needs that who is about to write a removal still    *)
(* has a row to remove: the row lock of the node keeps it there.            *)

RemovesBy(w) == work[w].pc = "commit" /\ work[w].state = "removed" => HasRow(CurUser(w), CurNode(w))

Removes == \A w \in Workers : RemovesBy(w)

\* A row changes under the row lock of its node only.
LEMMA RowsOfOthers ==
    ASSUME IInv, NEW w \in Workers, WorkerStep(w),
           NEW n \in Nodes, nodeLock[n] # w
    PROVE  row'[n] = row[n]
<1>1. CASE CommitPair(w)
  <2>1. CurNode(w) # n
    BY <1>1 DEF CommitPair, IInv, Locked, LockedBy
  <2> QED
    BY <1>1, <2>1 DEF CommitPair, IInv, TypeOK
<1>2. CASE ~CommitPair(w)
  BY <1>2 DEF WorkerStep, Step, Claim, LockPublishedUser, ReadCandidates, ReadBatch,
              LockNextUser, TakePair, UnlockPublishedUser, Continue, Finish,
              HandlerFails, Crash, store
<1> QED
  BY <1>1, <1>2

\* A worker that takes a pair to remove it found a row; one at any other step is about
\* to write nothing.
LEMMA WorkerRemoves ==
    ASSUME IInv, NEW w \in Workers, WorkerStep(w)
    PROVE  RemovesBy(w)'
<1> USE DEF IInv
<1>1. CASE Claim(w)
  BY <1>1, ClaimMemory DEF RemovesBy
<1>2. CASE LockPublishedUser(w) \/ LockNextUser(w)
  BY <1>2, GotoMemory DEF LockPublishedUser, LockNextUser, RemovesBy
<1>3. CASE ReadCandidates(w) \/ ReadBatch(w)
  BY <1>3, ReadCandidatesMemory, ReadBatchMemory DEF RemovesBy
<1>4. ASSUME NEW held \in BOOLEAN, PairDone(w, held)
      PROVE  RemovesBy(w)'
  <2>1. work'[w].pc # "commit"
    BY <1>4, PairDoneMemory
  <2> QED
    BY <2>1 DEF RemovesBy
<1>5. CASE TakePair(w)
  <2>1. /\ work[w].pc = "pair" /\ work[w].todo # {} /\ UNCHANGED store
        /\ Passes(w) \/ Takes(w)
    BY <1>5, TakePairCases
  <2>2. CASE Takes(w)
    <3>1. /\ work'[w].state = Wanted(CurUser(w), CurNode(w))
          /\ work'[w].job = work[w].job /\ work'[w].todo = work[w].todo
      BY <2>1, <2>2, TakesMemory DEF Keeps
    <3>2. CurUser(w)' = CurUser(w) /\ CurNode(w)' = CurNode(w)
      BY <3>1 DEF CurUser, CurNode
    <3>3. CurUser(w) \in Users /\ CurNode(w) \in Nodes
      BY <2>1, PairAt
    <3>4. Wanted(CurUser(w), CurNode(w)) = "removed" => HasRow(CurUser(w), CurNode(w))
      BY <2>2, <3>3 DEF Takes, Wanted, Shares, TypeOK, SubState
    <3> QED
      BY <2>1, <3>1, <3>2, <3>4 DEF RemovesBy, HasRow, store
  <2>3. CASE Passes(w)
    <3>1. Withholds(w, Wanted(CurUser(w), CurNode(w))) \in BOOLEAN
      BY DEF Withholds
    <3> QED
      BY <1>4, <2>3, <3>1 DEF Passes
  <2> QED
    BY <2>1, <2>2, <2>3
<1>6. CASE CommitPair(w)
  BY <1>4, <1>6 DEF CommitPair
<1>7. CASE UnlockPublishedUser(w) \/ Continue(w)
  BY <1>7, EndMemory DEF RemovesBy
<1>8. CASE HandlerFails(w)
  BY <1>8, FailMemory DEF RemovesBy
<1>9. CASE Finish(w) \/ Crash(w)
  BY <1>9, IdleMemory DEF RemovesBy
<1> QED
  BY <1>1, <1>2, <1>3, <1>5, <1>6, <1>7, <1>8, <1>9 DEF WorkerStep, Step

\* Every removal that is about to be written finds its row.
LEMMA RemovalsFindRows == Spec => []Removes
<1>1. Init => Removes
  BY DEF Init, Idle, Removes, RemovesBy
<1>2. IInv /\ Removes /\ [Next]_vars => Removes'
  <2> SUFFICES ASSUME IInv, Removes, [Next]_vars PROVE Removes'
    OBVIOUS
  <2>1. CASE Operation \/ UNCHANGED vars
    BY <2>1, OperationFrame
    DEF IInv, vars, store, Removes, RemovesBy, HasRow, CurUser, CurNode
  <2>2. ASSUME NEW w \in Workers, WorkerStep(w), NEW v \in Workers
        PROVE  RemovesBy(v)'
    <3>1. CASE v = w
      BY <2>2, <3>1, WorkerRemoves
    <3>2. CASE v # w
      <4> SUFFICES ASSUME work'[v].pc = "commit", work'[v].state = "removed"
                   PROVE  HasRow(CurUser(v), CurNode(v))'
        BY DEF RemovesBy
      <4>1. work'[v] = work[v]
        BY <2>2, <3>2, OthersRest DEF IInv, WorkerStep
      <4>2. CurUser(v)' = CurUser(v) /\ CurNode(v)' = CurNode(v)
        BY <4>1 DEF CurUser, CurNode
      <4>3. HasRow(CurUser(v), CurNode(v))
        BY <4>1 DEF Removes, RemovesBy
      <4>4. CurNode(v) \in Nodes /\ nodeLock[CurNode(v)] = v
        BY <4>1, PairAt DEF IInv, Lists, Listed, Locked, LockedBy
      <4>5. row'[CurNode(v)] = row[CurNode(v)]
        BY <2>2, <3>2, <4>4, RowsOfOthers
      <4> QED
        BY <4>2, <4>3, <4>5 DEF HasRow
    <3> QED
      BY <3>1, <3>2
  <2> QED
    BY <2>1, <2>2 DEF Next, WorkerStep, Removes
<1> QED
  BY <1>1, <1>2, Invariance, PTL DEF Spec

\* The commit of a pair is a write of the log.
LEMMA CommitWrites ==
    ASSUME IInv, Removes, NEW w \in Workers, CommitPair(w)
    PROVE  /\ CurNode(w) \in Nodes /\ CurUser(w) \in Users
           /\ work[w].state \in Stream!Written
           /\ Stream!Write(CurNode(w), CurUser(w), work[w].state)
<1> USE DEF IInv
<1>1. work[w].pc = "commit" /\ work[w].todo # {}
  BY DEF CommitPair, Lists, Listed
<1>2. CurUser(w) \in Users /\ CurNode(w) \in Nodes
  BY <1>1, PairAt
<1>3. /\ work[w].seq = desired[CurNode(w)] + 1
      /\ work[w].state \in {"active", "suspended", "removed"}
  BY <1>1 DEF Numbered, NumberedBy, NextUsersSeq
<1>4. work[w].state \in Stream!Over(row[CurNode(w)][CurUser(w)].state)
  <2>1. work[w].state = "removed" => HasRow(CurUser(w), CurNode(w))
    BY <1>1 DEF Removes, RemovesBy
  <2> QED
    BY <1>3, <2>1 DEF HasRow, Stream!Over, Stream!Away, Stream!Written
<1>5. /\ row' = [row EXCEPT ![CurNode(w)][CurUser(w)] =
                    [state |-> work[w].state, seq |-> work[w].seq]]
      /\ desired' = [desired EXCEPT ![CurNode(w)] = work[w].seq]
  BY DEF CommitPair
<1> QED
  BY <1>2, <1>3, <1>4, <1>5 DEF Stream!Write, Stream!Written

\* Publication implements UsersStream: however jobs race for locks, lose their leases,
\* fail in the middle and run again, each step of theirs is one write of the log or none.
THEOREM WritersKeepStreams == Spec => WritesStreams
<1>1. Init => Stream!StreamInit
  BY InitIInv DEF IInv, TypeOK, RowState, SequenceCoversRows, Stream!StreamInit, Stream!Away,
                  Stream!Written
<1>2. IInv /\ Removes /\ [Next]_vars => [Stream!StreamNext]_(Stream!streamVars)
  <2> SUFFICES ASSUME IInv, Removes, [Next]_vars
               PROVE  Stream!StreamNext \/ UNCHANGED <<row, desired>>
    BY DEF Stream!streamVars
  <2>1. CASE Operation \/ UNCHANGED vars
    BY <2>1, OperationFrame DEF IInv, vars, store
  <2>2. ASSUME NEW w \in Workers, WorkerStep(w)
        PROVE  Stream!StreamNext \/ UNCHANGED <<row, desired>>
    <3>1. CASE CommitPair(w)
      BY <3>1, CommitWrites DEF Stream!StreamNext
    <3>2. CASE ~CommitPair(w)
      BY <2>2, <3>2 DEF WorkerStep, Step, Claim, LockPublishedUser, ReadCandidates, ReadBatch,
                        LockNextUser, TakePair, UnlockPublishedUser, Continue, Finish,
                        HandlerFails, Crash, store
    <3> QED
      BY <3>1, <3>2
  <2> QED
    BY <2>1, <2>2 DEF Next, WorkerStep
<1> QED
  BY <1>1, <1>2, Invariance, RemovalsFindRows, PTL DEF Spec, WritesStreams, Stream!StreamSpec

---------------------------------------------------------------------------
(* Who holds a lock is at work on the pair it is for.                       *)

OnlyHolds(w) ==
    /\ \A n \in Nodes : nodeLock[n] = w => work[w].pc = "commit" /\ CurNode(w) = n
    /\ \A u \in Users : userLock[u] = w => /\ work[w].pc \in {"candidates", "pair", "commit"}
                                           /\ CurUser(w) = u

NoneLeft == \A w \in Workers : OnlyHolds(w)

\* A step gives locks to nobody but the worker that takes it.
LEMMA LocksMove ==
    ASSUME IInv, NEW w \in Workers, WorkerStep(w)
    PROVE  /\ \A u \in Users : userLock'[u] \in {userLock[u], w, Nobody}
           /\ \A n \in Nodes : nodeLock'[n] \in {nodeLock[n], w, Nobody}
<1> USE DEF IInv
<1>1. CASE HandlerFails(w) \/ Crash(w)
  BY <1>1 DEF HandlerFails, Crash, FreedLocks
<1>2. CASE Claim(w) \/ ReadCandidates(w) \/ ReadBatch(w) \/ Continue(w) \/ Finish(w)
  BY <1>2 DEF Claim, ReadCandidates, ReadBatch, Continue, Finish, locks
<1>3. CASE LockPublishedUser(w) \/ LockNextUser(w) \/ UnlockPublishedUser(w)
  BY <1>3 DEF LockPublishedUser, LockNextUser, UnlockPublishedUser, TypeOK
<1>4. CASE TakePair(w)
  BY <1>4, TakePairCases DEF Passes, Takes, ReleasePair, TypeOK
<1>5. CASE CommitPair(w)
  BY <1>5 DEF CommitPair, ReleasePair, TypeOK
<1> QED
  BY <1>1, <1>2, <1>3, <1>4, <1>5 DEF WorkerStep, Step

\* The worker that takes a step holds afterwards only what its next step is for.
LEMMA WorkerOnlyHolds ==
    ASSUME IInv, NEW w \in Workers, OnlyHolds(w), WorkerStep(w)
    PROVE  OnlyHolds(w)'
<1> USE DEF IInv
<1>1. /\ userLock \in [Users -> Workers \union {Nobody}]
      /\ nodeLock \in [Nodes -> Workers \union {Nobody}]
      /\ w # Nobody
  BY WorkersAssumption DEF TypeOK
<1>2. CASE HandlerFails(w) \/ Crash(w)
  BY <1>1, <1>2 DEF HandlerFails, Crash, FreedLocks, OnlyHolds
<1>3. CASE Claim(w) \/ ReadBatch(w) \/ Continue(w) \/ Finish(w)
  <2>1. work[w].pc \notin {"candidates", "pair", "commit"} /\ UNCHANGED locks
    BY <1>3 DEF Claim, ReadBatch, Continue, Finish
  <2> QED
    BY <2>1 DEF OnlyHolds, locks
<1>4. CASE LockPublishedUser(w)
  <2>1. work'[w].pc = "candidates" /\ work'[w].job = work[w].job
    BY <1>4, GotoMemory DEF LockPublishedUser, Keeps
  <2>2. /\ work[w].pc = "start" /\ work[w].job.kind = "user" /\ nodeLock' = nodeLock
        /\ userLock' = [userLock EXCEPT ![work[w].job.user] = w]
    BY <1>4 DEF LockPublishedUser
  <2>3. CurUser(w)' = work[w].job.user
    BY <2>1, <2>2 DEF CurUser
  <2> QED
    BY <1>1, <2>1, <2>2, <2>3 DEF OnlyHolds
<1>5. CASE LockNextUser(w)
  <2>1. work'[w].pc = "pair" /\ work'[w].job = work[w].job /\ work'[w].todo = work[w].todo
    BY <1>5, GotoMemory DEF LockNextUser, Keeps
  <2>2. /\ work[w].pc = "next" /\ nodeLock' = nodeLock
        /\ userLock' = [userLock EXCEPT ![CurUser(w)] = w]
    BY <1>5 DEF LockNextUser
  <2>3. CurUser(w)' = CurUser(w)
    BY <2>1 DEF CurUser
  <2> QED
    BY <1>1, <2>1, <2>2, <2>3 DEF OnlyHolds
<1>6. CASE ReadCandidates(w)
  <2>1. /\ work'[w].pc = "pair" /\ work'[w].job = work[w].job
    BY <1>6, ReadCandidatesMemory DEF Keeps
  <2>2. work[w].pc = "candidates" /\ ByUser(w) /\ UNCHANGED locks
    BY <1>6 DEF ReadCandidates, Lists, Listed
  <2>3. CurUser(w)' = CurUser(w)
    BY <2>1, <2>2 DEF CurUser, ByUser
  <2> QED
    BY <2>1, <2>2, <2>3 DEF OnlyHolds, locks
<1>7. CASE UnlockPublishedUser(w)
  <2>1. /\ work[w].pc = "pair" /\ work[w].todo = {} /\ nodeLock' = nodeLock
        /\ userLock' = [userLock EXCEPT ![work[w].job.user] = Nobody]
    BY <1>7 DEF UnlockPublishedUser
  <2>2. CurUser(w) = work[w].job.user
    BY <2>1 DEF CurUser, ByUser, Lists, Listed
  <2> QED
    BY <1>1, <2>1, <2>2 DEF OnlyHolds
<1>8. ASSUME work[w].pc \in {"pair", "commit"}, work[w].todo # {},
             NEW held \in BOOLEAN, PairDone(w, held), ReleasePair(w),
             \A n \in Nodes : nodeLock'[n] # w
      PROVE  OnlyHolds(w)'
  <2>1. /\ work'[w].pc = IF ByUser(w) THEN "pair" ELSE "next"
        /\ work'[w].job = work[w].job
    BY <1>8, PairDoneMemory DEF Keeps
  <2>2. \A u \in Users : userLock'[u] = w => userLock[u] = w /\ ByUser(w)
    <3>1. CASE ByUser(w)
      BY <1>8, <3>1 DEF ReleasePair, ByUser
    <3>2. CASE ~ByUser(w)
      BY <1>1, <1>8, <3>2 DEF ReleasePair, ByUser, OnlyHolds
    <3> QED
      BY <3>1, <3>2
  <2>3. ByUser(w) => CurUser(w)' = CurUser(w)
    BY <2>1 DEF CurUser, ByUser
  <2> QED
    BY <1>8, <2>1, <2>2, <2>3 DEF OnlyHolds
<1>9. CASE TakePair(w)
  <2>1. /\ work[w].pc = "pair" /\ work[w].todo # {}
        /\ Passes(w) \/ Takes(w)
    BY <1>9, TakePairCases
  <2>2. CASE Takes(w)
    <3>1. /\ work'[w].pc = "commit" /\ work'[w].job = work[w].job
          /\ work'[w].todo = work[w].todo
      BY <2>1, <2>2, TakesMemory DEF Keeps
    <3>2. CurUser(w)' = CurUser(w) /\ CurNode(w)' = CurNode(w)
      BY <3>1 DEF CurUser, CurNode
    <3>3. nodeLock' = [nodeLock EXCEPT ![CurNode(w)] = w] /\ userLock' = userLock
      BY <2>2 DEF Takes
    <3> QED
      BY <1>1, <2>1, <3>1, <3>2, <3>3 DEF OnlyHolds
  <2>3. CASE Passes(w)
    <3>1. \A n \in Nodes : nodeLock'[n] # w
      BY <2>1, <2>3 DEF Passes, OnlyHolds
    <3>2. Withholds(w, Wanted(CurUser(w), CurNode(w))) \in BOOLEAN
      BY DEF Withholds
    <3> QED
      BY <1>8, <2>1, <2>3, <3>1, <3>2 DEF Passes
  <2> QED
    BY <2>1, <2>2, <2>3
<1>10. CASE CommitPair(w)
  <2>1. work[w].pc = "commit" /\ work[w].todo # {}
    BY <1>10 DEF CommitPair, Lists, Listed
  <2>2. \A n \in Nodes : nodeLock'[n] # w
    BY <1>1, <1>10 DEF CommitPair, OnlyHolds
  <2> QED
    BY <1>8, <1>10, <2>1, <2>2 DEF CommitPair
<1> QED
  BY <1>2, <1>3, <1>4, <1>5, <1>6, <1>7, <1>9, <1>10 DEF WorkerStep, Step

\* No lock is left behind, whichever way a handler ends.
LEMMA NoLockLeft == Spec => []NoneLeft
<1>1. Init => NoneLeft
  BY WorkersAssumption DEF Init, NoneLeft, OnlyHolds
<1>2. IInv /\ NoneLeft /\ [Next]_vars => NoneLeft'
  <2> SUFFICES ASSUME IInv, NoneLeft, [Next]_vars PROVE NoneLeft'
    OBVIOUS
  <2>1. CASE Operation \/ UNCHANGED vars
    BY <2>1, OperationFrame DEF IInv, vars, locks, NoneLeft, OnlyHolds, CurUser, CurNode
  <2>2. ASSUME NEW w \in Workers, WorkerStep(w), NEW v \in Workers
        PROVE  OnlyHolds(v)'
    <3>1. CASE v = w
      BY <2>2, <3>1, WorkerOnlyHolds DEF NoneLeft
    <3>2. CASE v # w
      <4>1. /\ \A u \in Users : userLock'[u] = v => userLock[u] = v
            /\ \A n \in Nodes : nodeLock'[n] = v => nodeLock[n] = v
        BY <2>2, <3>2, LocksMove, WorkersAssumption
      <4>2. work'[v] = work[v]
        BY <2>2, <3>2, OthersRest DEF IInv, WorkerStep
      <4>3. CurUser(v)' = CurUser(v) /\ CurNode(v)' = CurNode(v)
        BY <4>2 DEF CurUser, CurNode
      <4> QED
        BY <4>1, <4>2, <4>3 DEF NoneLeft, OnlyHolds
    <3> QED
      BY <3>1, <3>2
  <2> QED
    BY <2>1, <2>2 DEF Next, WorkerStep, NoneLeft
<1> QED
  BY <1>1, <1>2, Invariance, PTL DEF Spec

\* The holder of a node is about to commit, so it waits for nothing.
LEMMA NodeHolderGoesOn ==
    ASSUME IInv, NoneLeft, NEW n \in Nodes, ~NodeFree(n)
    PROVE  \E w \in Workers : InWork(w) /\ ~Waits(w)
<1>1. PICK w \in Workers : nodeLock[n] = w
  BY DEF NodeFree, IInv, TypeOK
<1>2. work[w].pc = "commit"
  BY <1>1 DEF NoneLeft, OnlyHolds
<1> QED
  BY <1>2 DEF InWork, Waits

\* The holder of a user waits for nothing, or for a node.
LEMMA UserHolderGoesOn ==
    ASSUME IInv, NoneLeft, NEW u \in Users, userLock[u] # Nobody
    PROVE  \E w \in Workers : InWork(w) /\ ~Waits(w)
<1>1. PICK w \in Workers : userLock[u] = w
  BY DEF IInv, TypeOK
<1>2. work[w].pc \in {"candidates", "pair", "commit"}
  BY <1>1 DEF NoneLeft, OnlyHolds
<1>3. CASE Waits(w)
  <2>1. work[w].pc = "pair" /\ work[w].todo # {} /\ ~NodeFree(CurNode(w))
    BY <1>2, <1>3 DEF Waits
  <2>2. CurNode(w) \in Nodes
    BY <2>1, PairAt DEF IInv
  <2> QED
    BY <2>1, <2>2, NodeHolderGoesOn
<1>4. CASE ~Waits(w)
  BY <1>2, <1>4 DEF InWork
<1> QED
  BY <1>3, <1>4

\* Whatever the handlers wait for, somebody holds it who does not wait: the two kinds of
\* locks are taken in one order, one of each, and given back before the next.
THEOREM DeadlockFree == Spec => []NoDeadlock
<1>1. IInv /\ NoneLeft => NoDeadlock
  <2> SUFFICES ASSUME IInv, NoneLeft, NEW w \in Workers, InWork(w), Waits(w)
               PROVE  \E v \in Workers : InWork(v) /\ ~Waits(v)
    BY DEF NoDeadlock
  <2>1. work[w].job \in Key
    BY DEF IInv, Lists, Listed, InWork
  <2>2. CASE work[w].pc = "start"
    <3>1. work[w].job.kind = "user" => work[w].job.user \in Users
      BY <2>1 DEF Key, UserKey, NodeKey, NextKey
    <3>2. work[w].job.kind # "user" => work[w].job.node \in Nodes
      BY <2>1 DEF Key, UserKey, NodeKey, NextKey
    <3> QED
      BY <2>2, <3>1, <3>2, NodeHolderGoesOn, UserHolderGoesOn DEF Waits
  <2>3. CASE work[w].pc # "start"
    <3>1. work[w].pc \in {"pair", "commit", "next"} /\ work[w].todo # {}
      BY <2>3 DEF Waits
    <3>2. CurUser(w) \in Users /\ CurNode(w) \in Nodes
      BY <3>1, PairAt DEF IInv
    <3> QED
      BY <2>3, <3>2, NodeHolderGoesOn, UserHolderGoesOn DEF Waits
  <2> QED
    BY <2>2, <2>3
<1> QED
  BY <1>1, Invariance, NoLockLeft, PTL

---------------------------------------------------------------------------
(* What the queue still owes.  A pair that does not agree with its         *)
(* subscription is owed by a job that is pending, or whose worker has the  *)
(* pair ahead of it; or it is being written; or a job died of it.          *)

\* A worker whose batch leaves users of its node behind.
Behind(w) == work[w].rest /\ work[w].pc \in {"pair", "commit", "next"}

\* The regime of the theorems on publication: nobody else runs a continuation of the
\* node meanwhile.  (When somebody does, two chains of batches may skip users between
\* them: a continuation that is already past them is taken for the one to place.)
ChainsApart ==
    \A v, w \in Workers :
        v # w /\ Behind(w) /\ work[v].pc # "idle"
            => ~(work[v].job.kind = "next" /\ work[v].job.node = work[w].job.node)

\* The pairs of a job: a continuation has only the users behind the batch before it.
InScope(k, u, n) ==
    \/ k.kind = "user" /\ k.user = u
    \/ k.kind \in {"node", "next"} /\ k.node = n /\ u > k.user

Owns(w) ==
    /\ work[w].pc # "idle"
    /\ queue[work[w].job].status = "running"
    /\ queue[work[w].job].owner = w

\* The pair is among those that the worker has not come to, or the whole job is, or it
\* is behind the batch.
Item(w, u, n) == IF ByUser(w) THEN n ELSE u

Ahead(w, u, n) ==
    \/ work[w].failed /\ ~work[w].held
    \/ work[w].pc \in {"start", "candidates"}
    \/ work[w].pc \in {"pair", "next"} /\ Item(w, u, n) \in work[w].todo
    \/ work[w].pc = "commit" /\ Item(w, u, n) \in work[w].todo \ {Smallest(work[w].todo)}
    \/ Behind(w) /\ u > work[w].last

Writing(w, u, n) == work[w].pc = "commit" /\ CurUser(w) = u /\ CurNode(w) = n

Promise(k, u, n) ==
    /\ queue[k].status # "none"
    /\ InScope(k, u, n)
    /\ \A w \in Workers : Owns(w) /\ work[w].job = k => Ahead(w, u, n)

Due(u, n) == \E k \in Key : Promise(k, u, n)
Held(u, n) == \E w \in Workers : Owns(w) /\ InScope(work[w].job, u, n) /\ work[w].held
Written(u, n) == \E w \in Workers : Owns(w) /\ Writing(w, u, n)
Lost == \E b \in buried : ~b.withheld

\* What a row must never be, and what it should be.
Aims == {"safe", "agrees"}

Good(aim, s, u, n) ==
    CASE aim = "safe" -> s = "active" => Shares(u, n) /\ sub[u] = "active"
      [] aim = "agrees" -> IF Shares(u, n) THEN s = sub[u] ELSE s \in {"absent", "removed"}

Excused(aim, u, n) ==
    \/ Due(u, n)
    \/ aim = "safe" /\ Lost
    \/ aim = "agrees" /\ (Held(u, n) \/ buried # {})

Guard(aim, u, n) ==
    /\ Good(aim, row[n][u].state, u, n) \/ Excused(aim, u, n) \/ Written(u, n)
    /\ \A w \in Workers :
          Writing(w, u, n) => Good(aim, work[w].state, u, n) \/ Excused(aim, u, n)

Guarded == \A u \in Users, n \in Nodes, aim \in Aims : Guard(aim, u, n)

\* A key of an operation to come is free.
Fresh == \A k \in Key : queue[k].status # "none" => k.xid <= ops

\* Chains of batches go forward: a batch has users behind the one before it, and what is
\* left is behind its last one.
ChainedBy(w) ==
    /\ work[w].pc \in {"idle", "start", "candidates"} => ~work[w].rest
    /\ ~ByUser(w) /\ work[w].pc \in {"pair", "commit", "next"}
         => \A u \in work[w].todo : u > work[w].job.user
    /\ work[w].rest => /\ ~ByUser(w)
                       /\ work[w].last \in Users /\ work[w].last > work[w].job.user

Chained == \A w \in Workers : ChainedBy(w)

PInv == Fresh /\ Chained /\ Guarded

\* The job of a worker, and its scope, by the kinds of keys.
LEMMA JobKinds ==
    ASSUME IInv, NEW w \in Workers, work[w].pc # "idle"
    PROVE  /\ work[w].job \in Key
           /\ ByUser(w) => work[w].job.kind = "user" /\ work[w].job.user \in Users
           /\ ~ByUser(w) => /\ work[w].job.kind \in {"node", "next"}
                            /\ work[w].job.node \in Nodes /\ work[w].job.user \in Nat
<1>1. work[w].job \in Key
  BY DEF IInv, Lists, Listed
<1> QED
  BY <1>1, IdentifiersAssumption DEF ByUser, Key, UserKey, NodeKey, NextKey

\* The pair a worker is at is in the scope of its job; every other pair of the scope
\* is another item of its list.
LEMMA ItemAt ==
    ASSUME IInv, Chained, NEW w \in Workers,
           work[w].pc \in {"pair", "commit", "next"}, work[w].todo # {}
    PROVE  /\ CurUser(w) \in Users /\ CurNode(w) \in Nodes
           /\ InScope(work[w].job, CurUser(w), CurNode(w))
           /\ Item(w, CurUser(w), CurNode(w)) = Smallest(work[w].todo)
           /\ \A u \in Users, n \in Nodes :
                 /\ InScope(work[w].job, u, n)
                 /\ u # CurUser(w) \/ n # CurNode(w)
                 => Item(w, u, n) # Smallest(work[w].todo)
<1>1. /\ CurUser(w) \in Users /\ CurNode(w) \in Nodes
      /\ Smallest(work[w].todo) = IF ByUser(w) THEN CurNode(w) ELSE CurUser(w)
      /\ ByUser(w) => CurUser(w) = work[w].job.user
      /\ ~ByUser(w) => CurNode(w) = work[w].job.node
  BY PairAt DEF IInv
<1>2. /\ ByUser(w) => work[w].job.kind = "user"
      /\ ~ByUser(w) => work[w].job.kind \in {"node", "next"}
  BY JobKinds
<1>3. ~ByUser(w) => CurUser(w) > work[w].job.user
  <2>1. work[w].todo \in SUBSET Nat
    BY IdentifiersAssumption DEF IInv, Lists, Listed
  <2>2. Smallest(work[w].todo) \in work[w].todo
    BY <2>1, SmallestIn
  <2> QED
    BY <1>1, <2>2 DEF Chained, ChainedBy
<1> QED
  BY <1>1, <1>2, <1>3 DEF InScope, Item

\* Who writes a pair holds both its locks.
LEMMA WriterLocks ==
    ASSUME IInv, NEW w \in Workers, NEW u, NEW n, Writing(w, u, n)
    PROVE  userLock[u] = w /\ nodeLock[n] = w
BY DEF IInv, Locked, LockedBy, Writing

\* A guard outlives a step that takes none of its excuses away.
LEMMA GuardKept ==
    ASSUME NEW u \in Users, NEW n \in Nodes, NEW aim \in Aims, Guard(aim, u, n),
           UNCHANGED business, row'[n][u].state = row[n][u].state,
           Excused(aim, u, n) => Excused(aim, u, n)',
           Written(u, n) => Written(u, n)' \/ Excused(aim, u, n)',
           \A v \in Workers : Writing(v, u, n)' =>
               Writing(v, u, n) /\ work'[v].state = work[v].state
    PROVE  Guard(aim, u, n)'
<1>1. \A s : Good(aim, s, u, n)' = Good(aim, s, u, n)
  BY DEF Good, Shares, business
<1> QED
  BY <1>1 DEF Guard

---------------------------------------------------------------------------
(* Steps inside a job: the queue stays as it is.                           *)

\* A step of a worker inside its job.
Inside(w) ==
    /\ UNCHANGED <<queue, buried, business>>
    /\ \A v \in Workers \ {w} : work'[v] = work[v]
    /\ work[w].pc # "idle" /\ work'[w].pc # "idle"
    /\ work'[w].job = work[w].job

\* What such a step keeps of the excuses.
LEMMA InsideExcuses ==
    ASSUME NEW w \in Workers, Inside(w), NEW u \in Users, NEW n \in Nodes, NEW aim \in Aims,
           Owns(w) /\ InScope(work[w].job, u, n) /\ Ahead(w, u, n) => Ahead(w, u, n)'
    PROVE  /\ \A v \in Workers : Owns(v)' = Owns(v)
           /\ Due(u, n) => Due(u, n)'
           /\ (work[w].held => work'[w].held) /\ Excused(aim, u, n) => Excused(aim, u, n)'
<1>1. \A v \in Workers : Owns(v)' = Owns(v) /\ work'[v].job = work[v].job
  BY DEF Inside, Owns
<1>2. \A v \in Workers \ {w} : Ahead(v, u, n)' = Ahead(v, u, n)
  BY DEF Inside, Ahead, Behind, Item, ByUser
<1>3. ASSUME NEW k \in Key, Promise(k, u, n)
      PROVE  Promise(k, u, n)'
  <2>1. queue'[k].status # "none" /\ InScope(k, u, n)
    BY <1>3 DEF Promise, Inside
  <2>2. ASSUME NEW v \in Workers, Owns(v)', work'[v].job = k
        PROVE  Ahead(v, u, n)'
    <3>1. Owns(v) /\ work[v].job = k /\ Ahead(v, u, n)
      BY <1>1, <1>3, <2>2 DEF Promise
    <3>2. CASE v = w
      BY <2>1, <3>1, <3>2
    <3>3. CASE v # w
      BY <1>2, <3>1, <3>3
    <3> QED
      BY <3>2, <3>3
  <2> QED
    BY <2>1, <2>2 DEF Promise
<1>4. Due(u, n) => Due(u, n)'
  BY <1>3 DEF Due
<1>5. (work[w].held => work'[w].held) /\ Held(u, n) => Held(u, n)'
  BY <1>1 DEF Held, Inside
<1> QED
  BY <1>1, <1>4, <1>5 DEF Excused, Lost, Inside

\* A step that writes nothing and has no pair behind it that was ahead of it.
LEMMA GuardInside ==
    ASSUME NEW w \in Workers, Inside(w), UNCHANGED row,
           work[w].pc # "commit", work'[w].pc # "commit", work[w].held => work'[w].held,
           NEW u \in Users, NEW n \in Nodes, NEW aim \in Aims, Guard(aim, u, n),
           Owns(w) /\ InScope(work[w].job, u, n) /\ Ahead(w, u, n) => Ahead(w, u, n)'
    PROVE  Guard(aim, u, n)'
<1>1. Excused(aim, u, n) => Excused(aim, u, n)'
  BY InsideExcuses
<1>2. \A v \in Workers : Owns(v)' = Owns(v)
  BY InsideExcuses
<1>3. \A v \in Workers : Writing(v, u, n)' = Writing(v, u, n)
                         /\ (Writing(v, u, n) => work'[v].state = work[v].state)
  BY DEF Inside, Writing, CurUser, CurNode
<1>4. Written(u, n) => Written(u, n)'
  BY <1>2, <1>3 DEF Written
<1> QED
  BY <1>1, <1>3, <1>4, GuardKept DEF Inside

\* A row that nobody writes is good when nothing gives the pair access and it shows none.
LEMMA NothingThere ==
    ASSUME NEW u \in Users, NEW n \in Nodes, NEW aim \in Aims,
           UNCHANGED <<business, row>>, ~Shares(u, n), ~HasRow(u, n),
           \A v \in Workers : ~Writing(v, u, n)'
    PROVE  Guard(aim, u, n)'
<1>1. Good(aim, row[n][u].state, u, n)
  BY DEF Good, HasRow, Aims
<1>2. Good(aim, row[n][u].state, u, n)' 
  BY <1>1 DEF Good, Shares, business
<1> QED
  BY <1>2 DEF Guard

\* Nobody writes a pair whose user or node is locked by another.
LEMMA NobodyWrites ==
    ASSUME IInv, NEW w \in Workers, Inside(w), work[w].pc # "commit", work'[w].pc # "commit",
           NEW u \in Users, NEW n \in Nodes,
           userLock[u] = w \/ nodeLock[n] = Nobody
    PROVE  \A v \in Workers : ~Writing(v, u, n)'
<1> SUFFICES ASSUME NEW v \in Workers, Writing(v, u, n)' PROVE FALSE
  OBVIOUS
<1>1. v # w
  BY DEF Writing
<1>2. Writing(v, u, n)
  BY <1>1 DEF Inside, Writing, CurUser, CurNode
<1> QED
  BY <1>1, <1>2, WriterLocks, WorkersAssumption

\* The steps that come to the list and leave it, when no batch is to follow.
LEMMA GuardedPlain ==
    ASSUME IInv, PInv, NEW w \in Workers,
           \/ LockPublishedUser(w) \/ LockNextUser(w) \/ UnlockPublishedUser(w)
           \/ Continue(w) /\ ~work[w].rest
    PROVE  Inside(w) /\ Guarded'
<1>1. work[w].pc # "idle" /\ work[w].pc # "commit" /\ UNCHANGED <<business, buried, row>>
  BY DEF LockPublishedUser, LockNextUser, UnlockPublishedUser, Continue, store
<1>2. UNCHANGED queue
  BY DEF LockPublishedUser, LockNextUser, UnlockPublishedUser, Continue
<1>3. \A v \in Workers \ {w} : work'[v] = work[v]
  BY OthersRest DEF Step, IInv
<1>4. CASE LockPublishedUser(w)
  <2>1. /\ work'[w].pc = "candidates" /\ work'[w].job = work[w].job
        /\ work'[w].held = work[w].held
    BY <1>4, GotoMemory DEF LockPublishedUser, IInv, Keeps
  <2>2. Inside(w)
    BY <1>1, <1>2, <1>3, <2>1 DEF Inside
  <2>3. \A u, n : Ahead(w, u, n)'
    BY <2>1 DEF Ahead
  <2> QED
    BY <1>1, <2>1, <2>2, <2>3, GuardInside DEF Guarded, PInv
<1>5. CASE LockNextUser(w)
  <2>1. /\ work'[w].pc = "pair" /\ work'[w].job = work[w].job /\ work'[w].todo = work[w].todo
        /\ work'[w].held = work[w].held /\ work'[w].failed = work[w].failed
        /\ work'[w].rest = work[w].rest /\ work'[w].last = work[w].last
    BY <1>5, GotoMemory DEF LockNextUser, IInv, Keeps
  <2>2. Inside(w)
    BY <1>1, <1>2, <1>3, <2>1 DEF Inside
  <2>3. \A u, n : Ahead(w, u, n) => Ahead(w, u, n)'
    BY <1>5, <2>1 DEF Ahead, Item, ByUser, Behind, LockNextUser
  <2> QED
    BY <1>1, <2>1, <2>2, <2>3, GuardInside DEF Guarded, PInv
<1>6. CASE UnlockPublishedUser(w) \/ (Continue(w) /\ ~work[w].rest)
  <2>1. /\ work'[w].pc = "finish" /\ work'[w].job = work[w].job
        /\ work'[w].held = work[w].held
    BY <1>6, EndMemory DEF IInv, Keeps
  <2>2. Inside(w)
    BY <1>1, <1>2, <1>3, <2>1 DEF Inside
  <2>3. work[w].pc \in {"pair", "next"} /\ work[w].todo = {} /\ ~work[w].failed
    BY <1>6 DEF UnlockPublishedUser, Continue, IInv, Lists, Listed
  <2>4. \A u, n : ~Ahead(w, u, n)
    <3>1. ~work[w].rest
      BY <1>6, <2>3 DEF UnlockPublishedUser, ByUser, IInv, Lists, Listed, PInv, Chained, ChainedBy
    <3> QED
      BY <2>3, <3>1 DEF Ahead, Behind
  <2> QED
    BY <1>1, <2>1, <2>2, <2>4, GuardInside DEF Guarded, PInv
<1> QED
  BY <1>4, <1>5, <1>6

\* The candidates of a user leave out only nodes that owe it nothing, and no one
\* writes a pair of the user meanwhile: the worker holds the user's lock.
LEMMA GuardedCandidates ==
    ASSUME IInv, PInv, NEW w \in Workers, ReadCandidates(w)
    PROVE  Inside(w) /\ Guarded'
<1>1. /\ work[w].pc = "candidates" /\ ByUser(w) /\ UNCHANGED <<business, queue, buried, row>>
  BY DEF ReadCandidates, IInv, Lists, Listed, store
<1>2. \A v \in Workers \ {w} : work'[v] = work[v]
  BY OthersRest DEF Step, IInv
<1>3. /\ work'[w].pc = "pair" /\ work'[w].todo = UserCandidates(work[w].job.user)
      /\ work'[w].job = work[w].job /\ work'[w].held = work[w].held
  BY ReadCandidatesMemory DEF IInv, Keeps
<1>4. Inside(w)
  BY <1>1, <1>2, <1>3 DEF Inside
<1>5. /\ work[w].job.kind = "user" /\ work[w].job.user \in Users
      /\ userLock[work[w].job.user] = w
  BY <1>1, JobKinds DEF PInv, IInv, Locked, LockedBy, CurUser, ByUser
<1> SUFFICES ASSUME NEW u \in Users, NEW n \in Nodes, NEW aim \in Aims
             PROVE  Guard(aim, u, n)'
  BY <1>4 DEF Guarded
<1>6. CASE u = work[w].job.user /\ n \notin UserCandidates(u)
  <2>1. ~Shares(u, n) /\ ~HasRow(u, n)
    BY <1>6 DEF UserCandidates, Shares
  <2>2. \A v \in Workers : ~Writing(v, u, n)'
    BY <1>1, <1>3, <1>4, <1>5, <1>6, NobodyWrites
  <2> QED
    BY <1>1, <2>1, <2>2, NothingThere
<1>7. CASE ~(u = work[w].job.user /\ n \notin UserCandidates(u))
  <2>1. InScope(work[w].job, u, n) => Ahead(w, u, n)'
    BY <1>1, <1>3, <1>5, <1>7 DEF InScope, Ahead, Item, ByUser
  <2> QED
    BY <1>1, <1>3, <1>4, <2>1, GuardInside DEF Guarded, PInv
<1> QED
  BY <1>6, <1>7

\* The users that do not fit the batch are behind its last one.
LEMMA BatchIsPrefix ==
    ASSUME NEW S \in SUBSET Users, NEW after, NEW u \in S, u \notin FirstOf(S, Batch)
    PROVE  /\ LastOf(FirstOf(S, Batch), after) \in FirstOf(S, Batch)
           /\ u > LastOf(FirstOf(S, Batch), after)
<1> DEFINE first == FirstOf(S, Batch)
           UpTo(i) == {j \in S : j <= i}
<1>1. S \in SUBSET Nat /\ IsFiniteSet(S) /\ first \subseteq S
  BY IdentifiersAssumption, FS_Subset DEF FirstOf
<1>2. \A i \in S : /\ IsFiniteSet(UpTo(i)) /\ Cardinality(UpTo(i)) \in Nat
                   /\ i \in first <=> Cardinality(UpTo(i)) <= Batch
  <2>1. \A i \in S : UpTo(i) \subseteq S
    OBVIOUS
  <2>2. \A i \in S : i \in first <=> Cardinality(UpTo(i)) <= Batch
    BY DEF FirstOf
  <2> HIDE DEF UpTo, first
  <2> QED
    BY <1>1, <2>1, <2>2, FS_Subset, FS_CardinalityType
<1>3. \A i \in first : i < u
  <2> SUFFICES ASSUME NEW i \in first, ~(i < u) PROVE FALSE
    OBVIOUS
  <2>1. i \in S /\ u <= i
    <3>1. i \in Nat /\ u \in Nat
      BY <1>1
    <3> HIDE DEF first
    <3> QED
      BY <1>1, <3>1
  <2>2. UpTo(u) \subseteq UpTo(i)
    <3> SUFFICES ASSUME NEW j \in S, j <= u PROVE j <= i
      OBVIOUS
    <3> QED
      BY <1>1, <2>1
  <2> HIDE DEF UpTo, first
  <2>3. Cardinality(UpTo(u)) <= Cardinality(UpTo(i)) /\ Cardinality(UpTo(i)) <= Batch
    BY <1>2, <2>1, <2>2, FS_Subset
  <2>4. Cardinality(UpTo(u)) <= Batch
    BY <1>2, <2>1, <2>3, BoundsAssumption
  <2> QED
    BY <1>2, <2>4 DEF first
<1>4. first # {}
  <2>1. PICK m \in S : \A i \in S : m <= i
    BY <1>1, LeastElement
  <2>2. UpTo(m) = {m}
    <3>1. \A j \in S : j <= m => j = m
      BY <1>1, <2>1
    <3>2. m <= m
      BY <1>1
    <3> QED
      BY <3>1, <3>2
  <2> HIDE DEF UpTo, first
  <2>3. Cardinality(UpTo(m)) = 1
    BY <2>2, FS_Singleton
  <2> QED
    BY <1>2, <2>3, BoundsAssumption
<1>5. first \in SUBSET Nat /\ IsFiniteSet(first)
  BY <1>1, FS_Subset
<1> HIDE DEF first
<1>6. \E i \in first : \A j \in first : j <= i
  BY <1>4, <1>5, GreatestElement
<1>7. LastOf(first, after) \in first
  BY <1>4, <1>6 DEF LastOf
<1> QED
  BY <1>3, <1>7 DEF first

\* A batch leaves out users whom the node owes nothing, and those behind its last one.
\* It is read under the row lock of the node, so no one writes a pair of it meanwhile.
LEMMA GuardedBatch ==
    ASSUME IInv, PInv, NEW w \in Workers, ReadBatch(w)
    PROVE  Inside(w) /\ Guarded'
<1> DEFINE node == work[w].job.node
           after == work[w].job.user
           found == NodeCandidates(node, after)
           batch == FirstOf(found, Batch)
<1>1. /\ work[w].pc = "start" /\ ~ByUser(w) /\ UNCHANGED <<business, queue, buried, row>>
      /\ nodeLock[node] = Nobody
  BY DEF ReadBatch, ByUser, store, NodeFree
<1>2. \A v \in Workers \ {w} : work'[v] = work[v]
  BY OthersRest DEF Step, IInv
<1>3. /\ work'[w].pc = "next" /\ work'[w].todo = batch
      /\ work'[w].rest = (found # batch)
      /\ work'[w].last = LastOf(batch, after)
      /\ work'[w].job = work[w].job /\ work'[w].held = work[w].held
  BY ReadBatchMemory DEF IInv, Keeps
<1>4. found \in SUBSET Users
  BY DEF NodeCandidates
<1>5. Inside(w)
  BY <1>1, <1>2, <1>3 DEF Inside
<1>6. work[w].job.kind \in {"node", "next"} /\ node \in Nodes /\ after \in Nat
  BY <1>1, JobKinds
<1> SUFFICES ASSUME NEW u \in Users, NEW n \in Nodes, NEW aim \in Aims
             PROVE  Guard(aim, u, n)'
  BY <1>5 DEF Guarded
<1>7. CASE n = node /\ u > after /\ u \notin found
  <2>1. ~Shares(u, n) /\ ~HasRow(u, n)
    BY <1>6, <1>7 DEF NodeCandidates
  <2>2. \A v \in Workers : ~Writing(v, u, n)'
    BY <1>1, <1>3, <1>5, <1>7, NobodyWrites
  <2> QED
    BY <1>1, <2>1, <2>2, NothingThere
<1>8. CASE ~(n = node /\ u > after /\ u \notin found)
  <2>1. InScope(work[w].job, u, n) => n = node /\ u \in found
    BY <1>6, <1>8 DEF InScope
  <2>2. u \in found => Ahead(w, u, n)'
    <3>1. CASE u \in batch
      BY <1>1, <1>3, <3>1 DEF Ahead, Item, ByUser
    <3>2. CASE u \in found /\ u \notin batch
      <4>1. u > LastOf(batch, after)
        BY <1>4, <3>2, BatchIsPrefix
      <4>2. work'[w].rest
        BY <1>3, <3>2
      <4> QED
        BY <1>3, <4>1, <4>2 DEF Ahead, Behind
    <3> QED
      BY <3>1, <3>2
  <2> QED
    BY <1>1, <1>3, <1>5, <2>1, <2>2, GuardInside DEF Guarded, PInv
<1> QED
  BY <1>7, <1>8

\* A pair is passed over when nothing is there and nothing is wanted, or the row that is
\* wanted gives access and the process may not write it.
LEMMA GuardedPass ==
    ASSUME IInv, PInv, NEW w \in Workers, TakePair(w), Passes(w)
    PROVE  Inside(w) /\ Guarded'
<1> DEFINE cu == CurUser(w)
           cn == CurNode(w)
           withheld == Withholds(w, Wanted(cu, cn))
<1>1. /\ work[w].pc = "pair" /\ work[w].todo # {} /\ nodeLock[cn] = Nobody
      /\ UNCHANGED <<business, queue, buried, row>>
      /\ ~work[w].failed
  BY TakePairCases DEF store, NodeFree, IInv, Lists, Listed
<1>2. \A v \in Workers \ {w} : work'[v] = work[v]
  BY OthersRest DEF Step, IInv
<1>3. withheld \in BOOLEAN
  BY DEF Withholds
<1>4. /\ work'[w].pc = IF ByUser(w) THEN "pair" ELSE "next"
      /\ work'[w].todo = work[w].todo \ {Smallest(work[w].todo)}
      /\ work'[w].held = (work[w].held \/ withheld)
      /\ work'[w].job = work[w].job /\ work'[w].failed = work[w].failed
      /\ work'[w].rest = work[w].rest /\ work'[w].last = work[w].last
  BY <1>3, PairDoneMemory DEF IInv, Passes, Keeps
<1>5. Inside(w) /\ ByUser(w)' = ByUser(w)
  BY <1>1, <1>2, <1>4 DEF Inside, ByUser
<1>6. /\ cu \in Users /\ cn \in Nodes
      /\ InScope(work[w].job, cu, cn)
      /\ \A u \in Users, n \in Nodes :
            InScope(work[w].job, u, n) /\ (u # cu \/ n # cn)
               => Item(w, u, n) # Smallest(work[w].todo)
  BY <1>1, ItemAt DEF PInv
<1>7. work[w].held => work'[w].held
  BY <1>4
<1>8. work'[w].pc # "commit"
  BY <1>4
<1> SUFFICES ASSUME NEW u \in Users, NEW n \in Nodes, NEW aim \in Aims
             PROVE  Guard(aim, u, n)'
  BY <1>5 DEF Guarded
<1>9. Guard(aim, u, n)
  BY DEF PInv, Guarded
<1>10. CASE u # cu \/ n # cn
  <2>1. InScope(work[w].job, u, n) /\ Ahead(w, u, n) => Ahead(w, u, n)'
    BY <1>1, <1>4, <1>5, <1>6, <1>10 DEF Ahead, Item, Behind
  <2> QED
    BY <1>1, <1>5, <1>7, <1>8, <1>9, <2>1, GuardInside
<1>11. CASE u = cu /\ n = cn
  <2>1. \A v \in Workers : ~Writing(v, u, n)'
    BY <1>1, <1>5, <1>6, <1>8, <1>11, NobodyWrites
  <2>2. CASE ~withheld
    <3>1. ~Shares(u, n) /\ ~HasRow(u, n)
      BY <1>11, <2>2 DEF Passes
    <3> QED
      BY <1>1, <2>1, <3>1, NothingThere
  <2>3. CASE withheld
    <3>1. Shares(u, n) /\ sub[u] = "active"
      BY <1>11, <2>3 DEF Withholds, Wanted
    <3>2. CASE Owns(w)
      <4>1. Held(u, n)'
        BY <1>4, <1>5, <1>6, <1>11, <2>3, <3>2 DEF Held, Inside, Owns
      <4>2. CASE aim = "safe"
        <5>1. Good(aim, row[n][u].state, u, n)'
          BY <1>1, <3>1, <4>2 DEF Good, Shares, business
        <5> QED
          BY <2>1, <5>1 DEF Guard
      <4>3. CASE aim = "agrees"
        BY <2>1, <4>1, <4>3 DEF Guard, Excused
      <4> QED
        BY <4>2, <4>3 DEF Aims
    <3>3. CASE ~Owns(w)
      BY <1>1, <1>5, <1>7, <1>8, <1>9, <3>3, GuardInside
    <3> QED
      BY <3>2, <3>3
  <2> QED
    BY <2>2, <2>3
<1> QED
  BY <1>10, <1>11

\* A pair is taken: the worker writes what the pair should be, and is alone at it.
LEMMA GuardedTake ==
    ASSUME IInv, PInv, NEW w \in Workers, TakePair(w), Takes(w)
    PROVE  Inside(w) /\ Guarded'
<1> DEFINE cu == CurUser(w)
           cn == CurNode(w)
<1>1. /\ work[w].pc = "pair" /\ work[w].todo # {} /\ nodeLock[cn] = Nobody
      /\ UNCHANGED <<business, queue, buried, row>>
      /\ ~work[w].failed
  BY TakePairCases DEF store, NodeFree, IInv, Lists, Listed
<1>2. \A v \in Workers \ {w} : work'[v] = work[v]
  BY OthersRest DEF Step, IInv
<1>3. /\ work'[w].pc = "commit" /\ work'[w].todo = work[w].todo
      /\ work'[w].state = Wanted(cu, cn)
      /\ work'[w].held = work[w].held
      /\ work'[w].job = work[w].job /\ work'[w].failed = work[w].failed
      /\ work'[w].rest = work[w].rest /\ work'[w].last = work[w].last
  BY <1>1, TakesMemory DEF IInv, Keeps
<1>4. /\ Inside(w) /\ ByUser(w)' = ByUser(w) /\ CurUser(w)' = cu /\ CurNode(w)' = cn
  BY <1>1, <1>2, <1>3 DEF Inside, ByUser, CurUser, CurNode
<1>5. /\ cu \in Users /\ cn \in Nodes
      /\ InScope(work[w].job, cu, cn)
      /\ \A u \in Users, n \in Nodes :
            InScope(work[w].job, u, n) /\ (u # cu \/ n # cn)
               => Item(w, u, n) # Smallest(work[w].todo)
  BY <1>1, ItemAt DEF PInv
<1>6. \A v \in Workers : Owns(v)' = Owns(v)
  BY <1>4 DEF Inside, Owns
<1>7. \A v \in Workers \ {w}, u \in Users, n \in Nodes :
         /\ Writing(v, u, n)' = Writing(v, u, n)
         /\ work'[v].state = work[v].state
  BY <1>2 DEF Writing, CurUser, CurNode
<1> SUFFICES ASSUME NEW u \in Users, NEW n \in Nodes, NEW aim \in Aims
             PROVE  Guard(aim, u, n)'
  BY <1>4 DEF Guarded
<1>8. Guard(aim, u, n)
  BY DEF PInv, Guarded
<1>9. CASE u # cu \/ n # cn
  <2>1. InScope(work[w].job, u, n) /\ Ahead(w, u, n) => Ahead(w, u, n)'
    BY <1>1, <1>3, <1>4, <1>5, <1>9 DEF Ahead, Item, Behind
  <2>2. Excused(aim, u, n) => Excused(aim, u, n)'
    BY <1>3, <1>4, <2>1, InsideExcuses
  <2>3. ~Writing(w, u, n)' /\ ~Writing(w, u, n)
    BY <1>1, <1>4, <1>9 DEF Writing
  <2>4. Written(u, n) => Written(u, n)'
    BY <1>6, <1>7, <2>3 DEF Written
  <2>5. \A v \in Workers : Writing(v, u, n)' =>
            Writing(v, u, n) /\ work'[v].state = work[v].state
    BY <1>7, <2>3
  <2> QED
    BY <1>1, <1>8, <2>2, <2>4, <2>5, GuardKept
<1>10. CASE u = cu /\ n = cn
  <2>1. \A v \in Workers \ {w} : ~Writing(v, u, n)'
    BY <1>1, <1>7, <1>10, WriterLocks, WorkersAssumption
  <2>2. Good(aim, work[w].state, u, n)'
    <3>1. work'[w].state = IF Shares(u, n)' THEN sub'[u] ELSE "removed"
      BY <1>1, <1>3, <1>10 DEF Wanted, Shares, business
    <3>2. CASE aim = "safe"
      BY <3>1, <3>2 DEF Good
    <3>3. CASE aim = "agrees"
      BY <3>1, <3>3 DEF Good
    <3> QED
      BY <3>2, <3>3 DEF Aims
  <2>3. CASE Owns(w)
    <3>1. Written(u, n)'
      BY <1>3, <1>4, <1>6, <1>10, <2>3 DEF Written, Writing
    <3> QED
      BY <2>1, <2>2, <3>1 DEF Guard
  <2>4. CASE ~Owns(w)
    <3>1. Excused(aim, u, n) => Excused(aim, u, n)'
      BY <1>3, <1>4, <2>4, InsideExcuses
    <3>2. ~Written(u, n)
      BY <1>1, <1>10, WriterLocks, WorkersAssumption DEF Written
    <3>3. Good(aim, row[n][u].state, u, n)' = Good(aim, row[n][u].state, u, n)
      BY <1>1 DEF Good, Shares, business
    <3> QED
      BY <1>8, <2>1, <2>2, <3>1, <3>2, <3>3 DEF Guard
  <2> QED
    BY <2>3, <2>4
<1> QED
  BY <1>9, <1>10

\* The commit writes what the worker had chosen: the pair is as it should be, or as
\* excused as the writing was.
LEMMA GuardedCommit ==
    ASSUME IInv, PInv, NEW w \in Workers, CommitPair(w)
    PROVE  Inside(w) /\ Guarded'
<1> DEFINE cu == CurUser(w)
           cn == CurNode(w)
<1>1. /\ work[w].pc = "commit" /\ work[w].todo # {} /\ ~work[w].failed
      /\ UNCHANGED <<business, queue, buried>>
  BY DEF CommitPair, IInv, Lists, Listed
<1>2. \A v \in Workers \ {w} : work'[v] = work[v]
  BY OthersRest DEF Step, IInv
<1>3. /\ work'[w].pc = IF ByUser(w) THEN "pair" ELSE "next"
      /\ work'[w].todo = work[w].todo \ {Smallest(work[w].todo)}
      /\ work'[w].held = work[w].held
      /\ work'[w].job = work[w].job /\ work'[w].failed = work[w].failed
      /\ work'[w].rest = work[w].rest /\ work'[w].last = work[w].last
  <2>1. work[w].held \in BOOLEAN
    BY DEF IInv, TypeOK, Work
  <2> QED
    BY <2>1, PairDoneMemory DEF IInv, CommitPair, Keeps
<1>4. Inside(w) /\ ByUser(w)' = ByUser(w)
  BY <1>1, <1>2, <1>3 DEF Inside, ByUser
<1>5. /\ cu \in Users /\ cn \in Nodes
      /\ InScope(work[w].job, cu, cn)
      /\ Item(w, cu, cn) = Smallest(work[w].todo)
      /\ \A u \in Users, n \in Nodes :
            InScope(work[w].job, u, n) /\ (u # cu \/ n # cn)
               => Item(w, u, n) # Smallest(work[w].todo)
  BY <1>1, ItemAt DEF PInv
<1>6. \A u \in Users, n \in Nodes :
         row'[n][u] = IF u = cu /\ n = cn THEN [state |-> work[w].state, seq |-> work[w].seq]
                      ELSE row[n][u]
  BY <1>5 DEF CommitPair, IInv, TypeOK
<1>7. \A v \in Workers : Owns(v)' = Owns(v)
  BY <1>4 DEF Inside, Owns
<1>8. \A v \in Workers \ {w}, u \in Users, n \in Nodes :
         /\ Writing(v, u, n)' = Writing(v, u, n)
         /\ work'[v].state = work[v].state
  BY <1>2 DEF Writing, CurUser, CurNode
<1>9. \A u, n : ~Writing(w, u, n)'
  BY <1>3 DEF Writing
<1> SUFFICES ASSUME NEW u \in Users, NEW n \in Nodes, NEW aim \in Aims
             PROVE  Guard(aim, u, n)'
  BY <1>4 DEF Guarded
<1>10. Guard(aim, u, n)
  BY DEF PInv, Guarded
<1>11. InScope(work[w].job, u, n) /\ Ahead(w, u, n) => Ahead(w, u, n)'
  <2>1. Behind(w) => Behind(w)' /\ work'[w].last = work[w].last
    BY <1>3 DEF Behind
  <2>2. CASE u # cu \/ n # cn
    BY <1>1, <1>3, <1>4, <1>5, <2>1, <2>2 DEF Ahead, Item
  <2>3. CASE u = cu /\ n = cn
    BY <1>1, <1>5, <2>1, <2>3 DEF Ahead
  <2> QED
    BY <2>2, <2>3
<1>12. Excused(aim, u, n) => Excused(aim, u, n)'
  BY <1>3, <1>4, <1>11, InsideExcuses
<1>13. CASE u # cu \/ n # cn
  <2>1. ~Writing(w, u, n)
    BY <1>13 DEF Writing
  <2>2. Written(u, n) => Written(u, n)'
    BY <1>7, <1>8, <2>1 DEF Written
  <2>3. \A v \in Workers : Writing(v, u, n)' =>
            Writing(v, u, n) /\ work'[v].state = work[v].state
    BY <1>8, <1>9
  <2>4. row'[n][u].state = row[n][u].state
    BY <1>6, <1>13
  <2> QED
    BY <1>1, <1>10, <1>12, <2>2, <2>3, <2>4, GuardKept
<1>14. CASE u = cu /\ n = cn
  <2>1. Writing(w, u, n)
    BY <1>1, <1>14 DEF Writing
  <2>2. \A v \in Workers : ~Writing(v, u, n)'
    BY <1>8, <1>9, <2>1, WriterLocks
  <2>3. Good(aim, work[w].state, u, n) \/ Excused(aim, u, n)
    BY <1>10, <2>1 DEF Guard
  <2>4. Good(aim, row[n][u].state, u, n)' = Good(aim, work[w].state, u, n)
    <3>1. row'[n][u].state = work[w].state
      BY <1>6, <1>14
    <3>2. Shares(u, n)' = Shares(u, n) /\ sub' = sub
      BY <1>1 DEF Shares, business
    <3> QED
      BY <3>1, <3>2 DEF Good
  <2> QED
    BY <1>12, <2>2, <2>3, <2>4 DEF Guard
<1> QED
  BY <1>13, <1>14

---------------------------------------------------------------------------
(* Steps that take a job, lose it or end it.                               *)

\* A pair that is owed may be in any state.
LEMMA OwedIsGuarded ==
    ASSUME NEW u, NEW n, NEW aim, Due(u, n)
    PROVE  Guard(aim, u, n)
BY DEF Guard, Excused

\* The step of a worker that changes no job of the pair: neither one of the queue nor,
\* in its own hands, one that it owns.
Untouched(w, u, n) ==
    /\ UNCHANGED <<business, row>> /\ buried \subseteq buried'
    /\ \A k \in Key : InScope(k, u, n) => queue'[k] = queue[k]
    /\ \A v \in Workers \ {w} : work'[v] = work[v]
    /\ ~(Owns(w) /\ InScope(work[w].job, u, n))
    /\ ~(Owns(w)' /\ InScope(work'[w].job, u, n))
    /\ work'[w].pc # "commit"

\* Such a step leaves the guard of the pair as it was.
LEMMA UntouchedGuard ==
    ASSUME IInv, Chained, NEW w \in Workers, NEW u \in Users, NEW n \in Nodes, NEW aim \in Aims,
           Untouched(w, u, n), Guard(aim, u, n)
    PROVE  Guard(aim, u, n)'
<1>1. \A v \in Workers : Owns(v) => work[v].job \in Key
  BY DEF IInv, Lists, Listed, Owns
<1>2. ASSUME NEW v \in Workers, v # w, InScope(work[v].job, u, n)
      PROVE  /\ Owns(v) => Owns(v)'
             /\ Owns(v)' => Owns(v)
             /\ Ahead(v, u, n)' = Ahead(v, u, n) /\ Writing(v, u, n)' = Writing(v, u, n)
             /\ work'[v] = work[v]
  <2>1. work'[v] = work[v] /\ (work[v].pc # "idle" => work[v].job \in Key)
    BY <1>2 DEF Untouched, IInv, Lists, Listed
  <2>2. work[v].pc # "idle" => queue'[work[v].job] = queue[work[v].job]
    BY <1>2, <2>1 DEF Untouched
  <2> QED
    BY <2>1, <2>2 DEF Owns, Ahead, Behind, Item, ByUser, Writing, CurUser, CurNode
<1>3. ASSUME NEW k \in Key, Promise(k, u, n)
      PROVE  Promise(k, u, n)'
  <2>1. queue'[k] = queue[k] /\ queue[k].status # "none" /\ InScope(k, u, n)
    BY <1>3 DEF Promise, Untouched
  <2>2. ASSUME NEW v \in Workers, Owns(v)', work'[v].job = k
        PROVE  Ahead(v, u, n)'
    <3>1. v # w
      BY <2>1, <2>2 DEF Untouched
    <3>2. work[v].job = k
      BY <2>2, <3>1 DEF Untouched
    <3> QED
      BY <1>2, <1>3, <2>1, <2>2, <3>1, <3>2 DEF Promise
  <2> QED
    BY <2>1, <2>2 DEF Promise
<1>4. Due(u, n) => Due(u, n)'
  BY <1>3 DEF Due
<1>5. Held(u, n) => Held(u, n)'
  <2> SUFFICES ASSUME NEW v \in Workers, Owns(v), InScope(work[v].job, u, n), work[v].held
               PROVE  Held(u, n)'
    BY DEF Held
  <2>1. v # w
    BY DEF Untouched
  <2> QED
    BY <1>2, <2>1 DEF Held
<1>6. \A v \in Workers : Writing(v, u, n) => InScope(work[v].job, u, n)
  <2> SUFFICES ASSUME NEW v \in Workers, Writing(v, u, n) PROVE InScope(work[v].job, u, n)
    OBVIOUS
  <2>1. work[v].pc = "commit" /\ work[v].todo # {} /\ CurUser(v) = u /\ CurNode(v) = n
    BY DEF Writing, IInv, Lists, Listed
  <2> QED
    BY <2>1, ItemAt
<1>7. Written(u, n) => Written(u, n)'
  <2> SUFFICES ASSUME NEW v \in Workers, Owns(v), Writing(v, u, n)
               PROVE  Written(u, n)'
    BY DEF Written
  <2>1. InScope(work[v].job, u, n) /\ v # w
    BY <1>6 DEF Untouched
  <2> QED
    BY <1>2, <2>1 DEF Written
<1>8. \A v \in Workers : Writing(v, u, n)' => Writing(v, u, n) /\ work'[v].state = work[v].state
  <2> SUFFICES ASSUME NEW v \in Workers, Writing(v, u, n)'
               PROVE  Writing(v, u, n) /\ work'[v].state = work[v].state
    OBVIOUS
  <2>1. v # w
    BY DEF Writing, Untouched
  <2>2. work'[v] = work[v]
    BY <2>1 DEF Untouched
  <2> QED
    BY <2>2 DEF Writing, CurUser, CurNode
<1>9. Excused(aim, u, n) => Excused(aim, u, n)'
  BY <1>4, <1>5 DEF Excused, Lost, Untouched
<1> QED
  BY <1>7, <1>8, <1>9, GuardKept DEF Untouched

\* A claimed job is due from its beginning.
LEMMA GuardedClaim ==
    ASSUME IInv, PInv, NEW w \in Workers, Claim(w)
    PROVE  Guarded' /\ Fresh'
<1>1. PICK k \in Key, m \in 0 .. MaxAttempts :
         /\ queue[k].status # "none"
         /\ queue' = [queue EXCEPT ![k] = [status |-> "running", owner |-> w, attempts |-> m]]
         /\ work'[w].pc = "start" /\ work'[w].job = k
  BY ClaimMemory DEF IInv
<1>2. /\ work[w].pc = "idle" /\ UNCHANGED <<business, buried, row>>
      /\ \A v \in Workers \ {w} : work'[v] = work[v]
  BY OthersRest DEF Claim, store, IInv
<1>3. \A j \in Key : queue'[j] = IF j = k THEN [status |-> "running", owner |-> w, attempts |-> m]
                                 ELSE queue[j]
  BY <1>1 DEF IInv, TypeOK
<1>4. Guarded'
  <2> SUFFICES ASSUME NEW u \in Users, NEW n \in Nodes, NEW aim \in Aims
               PROVE  Guard(aim, u, n)'
    BY DEF Guarded
  <2>1. CASE InScope(k, u, n)
    <3>1. \A v \in Workers : Owns(v)' /\ work'[v].job = k => v = w
      BY <1>3 DEF Owns
    <3>2. Ahead(w, u, n)'
      BY <1>1 DEF Ahead
    <3>3. Promise(k, u, n)'
      BY <1>3, <2>1, <3>1, <3>2 DEF Promise
    <3>4. Due(u, n)'
      BY <3>3 DEF Due
    <3> QED
      BY <3>4, OwedIsGuarded, PTL
  <2>2. CASE ~InScope(k, u, n)
    <3>1. Untouched(w, u, n)
      BY <1>1, <1>2, <1>3, <2>2 DEF Untouched, Owns
    <3> QED
      BY <3>1, UntouchedGuard DEF PInv, Guarded
  <2> QED
    BY <2>1, <2>2
<1>5. Fresh'
  BY <1>1, <1>2, <1>3 DEF PInv, Fresh, business
<1> QED
  BY <1>4, <1>5

\* A handler that raised in the middle and a worker that died leave all pairs of
\* their job due again.
LEMMA GuardedLoss ==
    ASSUME IInv, PInv, NEW w \in Workers, HandlerFails(w) \/ Crash(w)
    PROVE  Guarded'
<1> DEFINE k == work[w].job
<1>1. /\ UNCHANGED <<business, queue, buried, row>>
      /\ \A v \in Workers \ {w} : work'[v] = work[v]
  BY OthersRest DEF HandlerFails, Crash, store, IInv
<1>2. \/ work'[w].pc = "idle"
      \/ work'[w].pc = "finish" /\ work'[w].failed /\ ~work'[w].held /\ work'[w].job = k
         /\ work[w].pc # "idle"
  <2>1. CASE Crash(w)
    BY <2>1, IdleMemory DEF IInv
  <2>2. CASE HandlerFails(w)
    BY <2>2, FailMemory DEF IInv, Keeps, HandlerFails
  <2> QED
    BY <2>1, <2>2
<1> SUFFICES ASSUME NEW u \in Users, NEW n \in Nodes, NEW aim \in Aims
             PROVE  Guard(aim, u, n)'
  BY DEF Guarded
<1>3. CASE Owns(w) /\ InScope(k, u, n)
  <2>1. k \in Key /\ queue[k].status = "running" /\ queue[k].owner = w
    BY <1>3 DEF Owns, IInv, Lists, Listed
  <2>2. PICK j \in Key : j = k
    BY <2>1
  <2>3. \A v \in Workers : Owns(v)' /\ work'[v].job = j => v = w
    BY <1>1, <2>1, <2>2 DEF Owns
  <2>4. Owns(w)' => Ahead(w, u, n)'
    BY <1>2 DEF Owns, Ahead
  <2>5. Promise(j, u, n)'
    BY <1>1, <1>3, <2>1, <2>3, <2>4, <2>2 DEF Promise
  <2>6. Due(u, n)'
    BY <2>5 DEF Due
  <2> QED
    BY <2>6, OwedIsGuarded, PTL
<1>4. CASE ~(Owns(w) /\ InScope(k, u, n))
  <2>1. Untouched(w, u, n)
    BY <1>1, <1>2, <1>4 DEF Untouched, Owns
  <2> QED
    BY <2>1, UntouchedGuard DEF PInv, Guarded
<1> QED
  BY <1>3, <1>4

\* A job ends when its list is done, or it is buried for what it did not do.
LEMMA GuardedFinish ==
    ASSUME IInv, PInv, NEW w \in Workers, Finish(w)
    PROVE  Guarded' /\ Fresh'
<1> DEFINE k == work[w].job
           again == work[w].failed /\ work[w].attempts < MaxAttempts
<1>1. /\ work[w].pc = "finish" /\ UNCHANGED <<business, row>>
      /\ queue' = IF ~Owns(w) THEN queue
                  ELSE [queue EXCEPT ![k] = IF again THEN [@ EXCEPT !.status = "pending",
                                                                   !.owner = Nobody]
                                            ELSE Gone]
      /\ buried' = IF Owns(w) /\ work[w].failed /\ ~again
                   THEN buried \union {[job |-> k, withheld |-> work[w].held]}
                   ELSE buried
  BY DEF Finish, Owns, store
<1>2. /\ \A v \in Workers \ {w} : work'[v] = work[v]
      /\ work'[w].pc = "idle"
  BY OthersRest, IdleMemory DEF IInv, Step
<1>3. k \in Key /\ queue[k] \in Job /\ (work[w].held => work[w].failed)
      /\ work[w].held \in BOOLEAN /\ work[w].failed \in BOOLEAN
  BY <1>1 DEF IInv, Lists, Listed, TypeOK, Work
<1>4. /\ \A j \in Key : j # k => queue'[j] = queue[j]
      /\ ~Owns(w) => queue' = queue
      /\ Owns(w) => queue'[k].status = IF again THEN "pending" ELSE "none"
      /\ buried \subseteq buried'
  <2>1. queue \in [Key -> Job]
    BY DEF IInv, TypeOK
  <2> HIDE DEF k, again
  <2> QED
    BY <1>1, <1>3, <2>1 DEF Gone, Job
<1>5. Fresh'
  <2>1. \A j \in Key : queue'[j].status # "none" => queue[j].status # "none"
    BY <1>3, <1>4 DEF Owns
  <2> QED
    BY <1>1, <2>1 DEF PInv, Fresh, business
<1>6. Guarded'
  <2> SUFFICES ASSUME NEW u \in Users, NEW n \in Nodes, NEW aim \in Aims
               PROVE  Guard(aim, u, n)'
    BY DEF Guarded
  <2>1. Guard(aim, u, n)
    BY DEF PInv, Guarded
  <2>2. CASE ~(Owns(w) /\ InScope(k, u, n))
    <3>1. Untouched(w, u, n)
      BY <1>1, <1>2, <1>4, <2>2 DEF Untouched, Owns
    <3> QED
      BY <2>1, <3>1, UntouchedGuard DEF PInv
  <2>3. CASE Owns(w) /\ InScope(k, u, n) /\ again
    <3>1. PICK j \in Key : j = k
      BY <1>3
    <3>2. \A v \in Workers : Owns(v)' => work'[v].job # j
      BY <1>4, <2>3, <3>1 DEF Owns
    <3>3. Promise(j, u, n)'
      BY <1>4, <2>3, <3>2, <3>1 DEF Promise
    <3>4. Due(u, n)'
      BY <3>3 DEF Due
    <3> QED
      BY <3>4, OwedIsGuarded, PTL
  <2>4. CASE Owns(w) /\ InScope(k, u, n) /\ ~again
    <3>1. \A v \in Workers \ {w} :
             /\ Owns(v) => work[v].job # k /\ Owns(v)'
             /\ Owns(v)' => work[v].job # k /\ Owns(v)
             /\ Ahead(v, u, n)' = Ahead(v, u, n) /\ Writing(v, u, n)' = Writing(v, u, n)
             /\ work'[v] = work[v]
      <4> SUFFICES ASSUME NEW v \in Workers \ {w}
                   PROVE  /\ Owns(v) => work[v].job # k /\ Owns(v)'
                          /\ Owns(v)' => work[v].job # k /\ Owns(v)
                          /\ Ahead(v, u, n)' = Ahead(v, u, n)
                          /\ Writing(v, u, n)' = Writing(v, u, n)
                          /\ work'[v] = work[v]
        OBVIOUS
      <4>1. work'[v] = work[v] /\ (work[v].pc # "idle" => work[v].job \in Key)
        BY <1>2 DEF IInv, Lists, Listed
      <4>2. Owns(v) => work[v].job # k
        BY <2>4 DEF Owns
      <4>3. Owns(v)' => work[v].job # k
        BY <1>4, <2>4, <4>1 DEF Owns
      <4>4. work[v].pc # "idle" /\ work[v].job # k => queue'[work[v].job] = queue[work[v].job]
        BY <1>4, <4>1
      <4>5. Owns(v) => Owns(v)'
        BY <4>1, <4>2, <4>4 DEF Owns
      <4>6. Owns(v)' => Owns(v)
        BY <4>1, <4>3, <4>4 DEF Owns
      <4> QED
        BY <4>1, <4>2, <4>3, <4>5, <4>6
           DEF Ahead, Behind, Item, ByUser, Writing, CurUser, CurNode
    <3>2. CASE work[w].failed /\ (aim = "agrees" \/ ~work[w].held)
      <4>1. [job |-> k, withheld |-> work[w].held] \in buried'
        BY <1>1, <2>4, <3>2
      <4>2. aim = "safe" => Lost'
        BY <3>2, <4>1 DEF Lost
      <4>3. Excused(aim, u, n)'
        BY <4>1, <4>2 DEF Excused, Aims
      <4> QED
        BY <4>3 DEF Guard
    <3>3. CASE ~work[w].failed \/ (aim = "safe" /\ work[w].held)
      <4>1. ~Ahead(w, u, n)
        BY <1>1, <1>3, <3>3 DEF Ahead, Behind
      <4>2. ~Promise(k, u, n)
        BY <2>4, <4>1 DEF Promise
      <4>3. ASSUME NEW j \in Key, Promise(j, u, n) PROVE Promise(j, u, n)'
        <5>1. j # k /\ queue'[j] = queue[j]
          BY <1>4, <4>2, <4>3
        <5>2. \A v \in Workers : Owns(v)' => v # w
          BY <1>2 DEF Owns
        <5> QED
          BY <3>1, <4>3, <5>1, <5>2 DEF Promise
      <4>4. Due(u, n) => Due(u, n)'
        BY <4>3 DEF Due
      <4>5. aim = "agrees" /\ Held(u, n) => Held(u, n)'
        <5> SUFFICES ASSUME aim = "agrees", NEW v \in Workers, Owns(v),
                            InScope(work[v].job, u, n), work[v].held
                     PROVE  Held(u, n)'
          BY DEF Held
        <5>1. v # w
          BY <1>3, <3>3
        <5> QED
          BY <3>1, <5>1 DEF Held
      <4>6. Excused(aim, u, n) => Excused(aim, u, n)'
        BY <1>4, <4>4, <4>5 DEF Excused, Lost
      <4>7. ~Writing(w, u, n) /\ ~Writing(w, u, n)'
        BY <1>1, <1>2 DEF Writing
      <4>8. Written(u, n) => Written(u, n)'
        BY <3>1, <4>7 DEF Written
      <4>9. \A v \in Workers : Writing(v, u, n)' =>
                Writing(v, u, n) /\ work'[v].state = work[v].state
        BY <3>1, <4>7
      <4> QED
        BY <1>1, <2>1, <4>6, <4>8, <4>9, GuardKept
    <3> QED
      BY <3>2, <3>3 DEF Aims
  <2> QED
    BY <2>2, <2>3, <2>4
<1> QED
  BY <1>5, <1>6

\* Every pair whose access an operation changes is in the scope of a job it places: one
\* under the number of its own transaction, so under a key that no job holds.
LEMMA OperationMarks ==
    ASSUME IInv, Fresh, Operation
    PROVE  /\ \A k \in Key : \/ queue'[k] = queue[k]
                             \/ /\ queue[k].status = "none" /\ queue'[k].status = "pending"
                                /\ k.kind # "next" /\ k.xid = ops + 1
           /\ \A u \in Users, n \in Nodes :
                 \/ Shares(u, n)' = Shares(u, n) /\ sub'[u] = sub[u]
                 \/ \E k \in Key : InScope(k, u, n) /\ queue'[k].status = "pending"
<1>1. ops + 1 \in 1 .. MaxOps /\ ops \in Nat
  BY OperationFrame, BoundsAssumption DEF IInv, TypeOK
<1> DEFINE New == {UserKey(u, ops + 1) : u \in Users} \union {NodeKey(n, ops + 1) : n \in Nodes}
<1>2. \A k \in New : k \in Key /\ k.kind # "next" /\ k.xid = ops + 1
  BY <1>1 DEF Key, UserKey, NodeKey
<1>3. \A k \in New : queue[k].status = "none"
  BY <1>1, <1>2 DEF Fresh
<1>4. ASSUME NEW keys, keys \subseteq New, Commit(keys)
      PROVE  /\ \A k \in Key : \/ queue'[k] = queue[k]
                               \/ /\ queue[k].status = "none" /\ queue'[k].status = "pending"
                                  /\ k.kind # "next" /\ k.xid = ops + 1
             /\ \A k \in keys : k \in Key /\ queue'[k].status = "pending"
  <2>1. \A k \in Key : queue'[k] = IF k \in keys /\ queue[k].status = "none"
                                   THEN [Gone EXCEPT !.status = "pending"] ELSE queue[k]
    BY <1>4 DEF Commit, Placed
  <2>2. [Gone EXCEPT !.status = "pending"].status = "pending"
    BY DEF Gone
  <2> HIDE DEF New
  <2> QED
    BY <1>2, <1>3, <1>4, <2>1, <2>2
<1>5. ASSUME NEW x \in Users, Transition(x) \/ ChangePlan(x) \/ RemoveUser(x)
      PROVE  /\ Commit({UserKey(x, ops + 1)})
             /\ \A u \in Users \ {x}, n \in Nodes :
                   Shares(u, n)' = Shares(u, n) /\ sub'[u] = sub[u]
  <2>1. Commit({UserKey(x, ops + 1)}) /\ UNCHANGED comp
    BY <1>5 DEF Transition, ChangePlan, RemoveUser
  <2>2. \A u \in Users \ {x} : sub'[u] = sub[u] /\ deleted'[u] = deleted[u] /\ plan'[u] = plan[u]
    BY <1>5 DEF Transition, ChangePlan, RemoveUser, IInv, TypeOK
  <2> QED
    BY <2>1, <2>2 DEF Shares
<1>6. ASSUME NEW new, Recompose(new)
      PROVE  \E nodes \in SUBSET Nodes :
                /\ Commit({NodeKey(n, ops + 1) : n \in nodes})
                /\ \A u \in Users, n \in Nodes \ nodes :
                      Shares(u, n)' = Shares(u, n) /\ sub'[u] = sub[u]
  <2>1. PICK nodes \in SUBSET Nodes : /\ Moved(new) \subseteq nodes
                                      /\ Commit({NodeKey(n, ops + 1) : n \in nodes})
    BY <1>6 DEF Recompose
  <2>2. comp' = new /\ UNCHANGED <<sub, deleted, plan>>
    BY <1>6 DEF Recompose
  <2>3. \A u \in Users : plan[u] \in Plans
    BY DEF IInv, TypeOK
  <2>4. \A u \in Users, n \in Nodes \ nodes : (n \in new[plan[u]]) = (n \in comp[plan[u]])
    BY <2>1, <2>3 DEF Moved
  <2> QED
    BY <2>1, <2>2, <2>4 DEF Shares
<1>7. CASE \E x \in Users : Transition(x) \/ ChangePlan(x) \/ RemoveUser(x)
  <2>1. PICK x \in Users : Transition(x) \/ ChangePlan(x) \/ RemoveUser(x)
    BY <1>7
  <2>2. /\ Commit({UserKey(x, ops + 1)}) /\ {UserKey(x, ops + 1)} \subseteq New
        /\ \A u \in Users \ {x}, n \in Nodes :
              Shares(u, n)' = Shares(u, n) /\ sub'[u] = sub[u]
    BY <1>5, <2>1
  <2>3. \A n : InScope(UserKey(x, ops + 1), x, n)
    BY DEF InScope, UserKey
  <2> HIDE DEF New
  <2> QED
    BY <1>4, <2>2, <2>3
<1>8. CASE \E new : Recompose(new)
  <2>1. PICK new : Recompose(new)
    BY <1>8
  <2>2. PICK nodes \in SUBSET Nodes :
           /\ Commit({NodeKey(n, ops + 1) : n \in nodes})
           /\ \A u \in Users, n \in Nodes \ nodes :
                 Shares(u, n)' = Shares(u, n) /\ sub'[u] = sub[u]
    BY <1>6, <2>1
  <2>3. {NodeKey(n, ops + 1) : n \in nodes} \subseteq New
    OBVIOUS
  <2>4. \A u \in Users : \A n : InScope(NodeKey(n, ops + 1), u, n)
    BY IdentifiersAssumption DEF InScope, NodeKey
  <2>5. \A n \in nodes : queue'[NodeKey(n, ops + 1)].status = "pending"
                         /\ NodeKey(n, ops + 1) \in Key
    BY <1>4, <2>2, <2>3
  <2>6. \A k \in Key : \/ queue'[k] = queue[k]
                       \/ /\ queue[k].status = "none" /\ queue'[k].status = "pending"
                          /\ k.kind # "next" /\ k.xid = ops + 1
    BY <1>4, <2>2, <2>3
  <2> HIDE DEF New
  <2> QED
    BY <2>2, <2>4, <2>5, <2>6
<1> QED
  BY <1>7, <1>8 DEF Operation, SetComposition, DeleteAccess

\* An operation leaves no pair behind: its own jobs owe those it changes, and every job
\* that owed the others still does.
LEMMA GuardedOperation ==
    ASSUME IInv, PInv, Operation
    PROVE  PInv'
<1>1. /\ UNCHANGED <<buried, store, locks, work, faults>> /\ ops' = ops + 1 /\ ops \in Nat
  BY OperationFrame DEF IInv, TypeOK
<1>2. \A k \in Key : \/ queue'[k] = queue[k]
                     \/ /\ queue[k].status = "none" /\ queue'[k].status = "pending"
                        /\ k.kind # "next" /\ k.xid = ops + 1
  BY OperationMarks DEF PInv
<1>3. \A u \in Users, n \in Nodes :
         \/ Shares(u, n)' = Shares(u, n) /\ sub'[u] = sub[u]
         \/ \E k \in Key : InScope(k, u, n) /\ queue'[k].status = "pending"
  BY OperationMarks DEF PInv
<1>4. Fresh'
  <2> SUFFICES ASSUME NEW k \in Key, queue'[k].status # "none"
               PROVE  k.xid <= ops'
    BY DEF Fresh
  <2>1. CASE queue'[k] = queue[k]
    <3>1. k.xid <= ops
      BY <2>1 DEF PInv, Fresh
    <3>2. k.xid \in Nat
      BY <3>1, BoundsAssumption DEF Key, UserKey, NodeKey, NextKey
    <3> QED
      BY <1>1, <3>1, <3>2
  <2>2. CASE k.kind # "next" /\ k.xid = ops + 1
    BY <1>1, <2>2
  <2> QED
    BY <1>2, <2>1, <2>2
<1>5. Chained'
  BY <1>1 DEF PInv, Chained, ChainedBy, ByUser
<1>6. \A v \in Workers : Owns(v)' = Owns(v)
  <2> SUFFICES ASSUME NEW v \in Workers, work[v].pc # "idle"
               PROVE  Owns(v)' = Owns(v)
    BY <1>1 DEF Owns
  <2>1. work[v].job \in Key
    BY DEF IInv, Lists, Listed
  <2> QED
    BY <1>1, <1>2, <2>1 DEF Owns
<1> SUFFICES ASSUME NEW u \in Users, NEW n \in Nodes, NEW aim \in Aims
             PROVE  Guard(aim, u, n)'
  BY <1>4, <1>5 DEF PInv, Guarded
<1>7. CASE \E k \in Key : InScope(k, u, n) /\ queue'[k].status = "pending"
  <2>1. PICK k \in Key : InScope(k, u, n) /\ queue'[k].status = "pending"
    BY <1>7
  <2>2. Promise(k, u, n)'
    BY <2>1 DEF Promise, Owns
  <2>3. Due(u, n)'
    BY <2>2 DEF Due
  <2> QED
    BY <2>3, OwedIsGuarded, PTL
<1>8. CASE Shares(u, n)' = Shares(u, n) /\ sub'[u] = sub[u]
  <2>1. \A s : Good(aim, s, u, n)' = Good(aim, s, u, n)
    BY <1>8 DEF Good
  <2>2. \A k \in Key : Promise(k, u, n) => Promise(k, u, n)'
    BY <1>1, <1>2, <1>6 DEF Promise, Ahead, Behind, Item, ByUser
  <2>3. Due(u, n) => Due(u, n)'
    BY <2>2 DEF Due
  <2>4. Held(u, n) => Held(u, n)'
    BY <1>1, <1>6 DEF Held
  <2>5. Excused(aim, u, n) => Excused(aim, u, n)'
    BY <1>1, <2>3, <2>4 DEF Excused, Lost
  <2>6. \A v \in Workers : Writing(v, u, n)' = Writing(v, u, n)
    BY <1>1 DEF Writing, CurUser, CurNode
  <2>7. Written(u, n) => Written(u, n)'
    BY <1>6, <2>6 DEF Written
  <2>8. row' = row /\ work' = work /\ Guard(aim, u, n)
    BY <1>1 DEF store, PInv, Guarded
  <2> QED
    BY <2>1, <2>5, <2>6, <2>7, <2>8 DEF Guard
<1> QED
  BY <1>3, <1>7, <1>8

---------------------------------------------------------------------------
(* Chains of batches.                                                      *)

\* Only the read of a batch says that users remain, and behind whom.
LEMMA ChainMemory ==
    ASSUME IInv, NEW w \in Workers, WorkerStep(w), ~ReadBatch(w)
    PROVE  work'[w].rest => work[w].rest /\ work'[w].last = work[w].last
                            /\ (Claim(w) \/ work'[w].job = work[w].job)
<1>1. CASE Claim(w)
  BY <1>1, ClaimMemory DEF IInv, Keeps
<1>2. CASE ReadCandidates(w)
  BY <1>2, ReadCandidatesMemory DEF IInv, Keeps
<1>3. CASE LockPublishedUser(w) \/ LockNextUser(w)
  <2>1. \E pc \in {"candidates", "pair"} : Goto(w, pc)
    BY <1>3 DEF LockPublishedUser, LockNextUser
  <2> QED
    BY <2>1, GotoMemory DEF IInv, Keeps
<1>4. CASE TakePair(w) \/ CommitPair(w)
  <2>1. CASE Takes(w) /\ TakePair(w)
    BY <2>1, TakePairCases, TakesMemory DEF IInv, Keeps
  <2>2. ASSUME NEW held \in BOOLEAN, PairDone(w, held)
        PROVE  work'[w].rest = work[w].rest /\ work'[w].last = work[w].last
               /\ work'[w].job = work[w].job
    BY <2>2, PairDoneMemory DEF IInv, Keeps
  <2>3. \A state : Withholds(w, state) \in BOOLEAN
    BY DEF Withholds
  <2> QED
    BY <1>4, <2>1, <2>2, <2>3, TakePairCases DEF Passes, CommitPair
<1>5. CASE UnlockPublishedUser(w) \/ Continue(w)
  BY <1>5, EndMemory DEF IInv, Keeps
<1>6. CASE HandlerFails(w) \/ Crash(w) \/ Finish(w)
  BY <1>6, FailMemory, IdleMemory DEF IInv
<1> QED
  BY <1>1, <1>2, <1>3, <1>4, <1>5, <1>6 DEF WorkerStep, Step

\* A batch that follows another begins behind it, and so does what it leaves.
LEMMA ChainedKept ==
    ASSUME IInv, Chained, [Next]_vars
    PROVE  Chained'
<1>1. CASE Operation \/ UNCHANGED vars
  BY <1>1, OperationFrame DEF IInv, vars, Chained, ChainedBy, ByUser
<1>2. ASSUME NEW w \in Workers, WorkerStep(w)
      PROVE  Chained'
  <2>1. \A v \in Workers \ {w} : work'[v] = work[v]
    BY <1>2, OthersRest DEF IInv, WorkerStep
  <2>2. \A v \in Workers \ {w} : ChainedBy(v)'
    BY <2>1 DEF Chained, ChainedBy, ByUser
  <2>3. ChainedBy(w)
    BY DEF Chained
  <2>4. ChainedBy(w)'
    <3>1. CASE ReadBatch(w)
      <4> DEFINE found == NodeCandidates(work[w].job.node, work[w].job.user)
                 batch == FirstOf(found, Batch)
      <4>1. /\ work'[w].pc = "next" /\ work'[w].todo = batch
            /\ work'[w].rest = (found # batch)
            /\ work'[w].last = LastOf(batch, work[w].job.user)
            /\ work'[w].job = work[w].job
        BY <3>1, ReadBatchMemory DEF IInv, Keeps
      <4>2. ~ByUser(w)
        BY <3>1 DEF ReadBatch, ByUser
      <4>3. found \in SUBSET Users /\ batch \subseteq found
            /\ \A u \in found : u > work[w].job.user
        BY DEF NodeCandidates, FirstOf
      <4>4. found # batch => LastOf(batch, work[w].job.user) \in batch
        <5> SUFFICES ASSUME found # batch PROVE LastOf(batch, work[w].job.user) \in batch
          OBVIOUS
        <5>1. PICK u \in found : u \notin batch
          BY <4>3
        <5> QED
          BY <4>3, <5>1, BatchIsPrefix
      <4> HIDE DEF found, batch
      <4>5. work'[w].rest => /\ work'[w].last \in Users
                             /\ work'[w].last > work[w].job.user
        BY <4>1, <4>3, <4>4
      <4> QED
        BY <4>1, <4>2, <4>3, <4>5 DEF ChainedBy, ByUser
    <3>2. CASE Claim(w)
      <4>1. work'[w].pc = "start" /\ work'[w].rest = work[w].rest
        BY <3>2, ClaimMemory DEF IInv, Keeps
      <4>2. ~work[w].rest
        BY <2>3, <3>2 DEF Claim, ChainedBy
      <4> QED
        BY <4>1, <4>2 DEF ChainedBy
    <3>3. CASE LockPublishedUser(w) \/ ReadCandidates(w)
      <4>1. work[w].pc \in {"start", "candidates"} /\ ByUser(w)
        BY <3>3 DEF LockPublishedUser, ReadCandidates, ByUser, IInv, Lists, Listed
      <4>2. work'[w].job = work[w].job /\ work'[w].rest = work[w].rest
        <5>1. CASE ReadCandidates(w)
          BY <5>1, ReadCandidatesMemory DEF IInv, Keeps
        <5>2. CASE LockPublishedUser(w)
          BY <5>2, GotoMemory DEF LockPublishedUser, IInv, Keeps
        <5> QED
          BY <3>3, <5>1, <5>2
      <4> QED
        BY <2>3, <4>1, <4>2 DEF ChainedBy, ByUser
    <3>4. CASE LockNextUser(w) \/ TakePair(w) \/ CommitPair(w)
      <4>1. work[w].pc \in {"pair", "commit", "next"}
        BY <3>4 DEF LockNextUser, TakePair, CommitPair
      <4>2. /\ work'[w].job = work[w].job /\ work'[w].todo \subseteq work[w].todo
            /\ work'[w].rest = work[w].rest /\ work'[w].last = work[w].last
            /\ work'[w].pc \in {"pair", "commit", "next"}
        <5>1. CASE LockNextUser(w)
          BY <5>1, GotoMemory DEF LockNextUser, IInv, Keeps
        <5>2. CASE TakePair(w) /\ Takes(w)
          BY <5>2, TakePairCases, TakesMemory DEF IInv, Keeps
        <5>3. ASSUME NEW held \in BOOLEAN, PairDone(w, held)
              PROVE  /\ work'[w].job = work[w].job /\ work'[w].todo \subseteq work[w].todo
                     /\ work'[w].rest = work[w].rest /\ work'[w].last = work[w].last
                     /\ work'[w].pc \in {"pair", "commit", "next"}
          BY <5>3, PairDoneMemory DEF IInv, Keeps
        <5>4. \A state : Withholds(w, state) \in BOOLEAN
          BY DEF Withholds
        <5> QED
          BY <3>4, <5>1, <5>2, <5>3, <5>4, TakePairCases DEF Passes, CommitPair
      <4> QED
        BY <2>3, <4>1, <4>2 DEF ChainedBy, ByUser
    <3>5. CASE UnlockPublishedUser(w) \/ Continue(w)
      <4>1. /\ work'[w].pc = "finish" /\ work'[w].job = work[w].job
            /\ work'[w].rest = work[w].rest /\ work'[w].last = work[w].last
        BY <3>5, EndMemory DEF IInv, Keeps
      <4> QED
        BY <2>3, <4>1 DEF ChainedBy, ByUser
    <3>6. CASE HandlerFails(w) \/ Crash(w) \/ Finish(w)
      <4>1. work'[w].pc \in {"idle", "finish"} /\ ~work'[w].rest
        BY <3>6, FailMemory, IdleMemory DEF IInv
      <4> QED
        BY <4>1 DEF ChainedBy
    <3> QED
      BY <1>2, <3>1, <3>2, <3>3, <3>4, <3>5, <3>6 DEF WorkerStep, Step
  <2> QED
    BY <2>2, <2>4 DEF Chained
<1> QED
  BY <1>1, <1>2 DEF Next, WorkerStep

\* The job that continues a chain owes the users behind the batch: it is placed, or it
\* waits in the queue, or its worker died; nobody is at work on it.
LEMMA GuardedContinue ==
    ASSUME IInv, PInv, ChainsApart, NEW w \in Workers, Continue(w), work[w].rest
    PROVE  Guarded' /\ Fresh'
<1>1. /\ work[w].pc = "next" /\ work[w].todo = {} /\ ~work[w].failed
      /\ UNCHANGED <<business, buried, row>>
      /\ queue' = Placed(queue, {NextKey(work[w].job.node, work[w].last)})
  BY DEF Continue, store, IInv, Lists, Listed
<1>2. \A v \in Workers \ {w} : work'[v] = work[v]
  BY OthersRest DEF Step, IInv
<1>3. /\ work'[w].pc = "finish" /\ work'[w].job = work[w].job
      /\ work'[w].held = work[w].held /\ work'[w].failed = work[w].held
  BY EndMemory DEF IInv, Keeps
<1>4. /\ ~ByUser(w) /\ work[w].last \in Users /\ work[w].last > work[w].job.user
      /\ work[w].job.node \in Nodes /\ work[w].job.user \in Nat
      /\ work[w].job \in Key
  BY <1>1, JobKinds DEF PInv, Chained, ChainedBy
<1>5. PICK k \in Key : /\ k = NextKey(work[w].job.node, work[w].last)
                       /\ k.kind = "next" /\ k.node = work[w].job.node
                       /\ k.user = work[w].last /\ k.xid = 0
  <2>1. NextKey(work[w].job.node, work[w].last) \in Key
    BY <1>4 DEF Key
  <2> QED
    BY <2>1 DEF NextKey
<1>6. /\ \A j \in Key \ {k} : queue'[j] = queue[j]
      /\ queue'[k].status # "none"
      /\ queue'[k] = queue[k] \/ (queue[k].status = "none" /\ queue'[k].status = "pending")
  <2>1. \A j \in Key : queue'[j] = IF j \in {k} /\ queue[j].status = "none"
                                   THEN [Gone EXCEPT !.status = "pending"] ELSE queue[j]
    BY <1>1, <1>5 DEF Placed
  <2>2. [Gone EXCEPT !.status = "pending"].status = "pending"
    BY DEF Gone
  <2> QED
    BY <1>5, <2>1, <2>2
<1>7. \A v \in Workers : work[v].pc # "idle" => work[v].job \in Key
  BY DEF IInv, Lists, Listed
<1>8. ASSUME NEW v \in Workers
      PROVE  Owns(v)' = Owns(v)
  <2>1. work'[v].job = work[v].job /\ (work'[v].pc = "idle") = (work[v].pc = "idle")
    BY <1>1, <1>2, <1>3
  <2>2. work[v].pc # "idle" =>
            \/ queue'[work[v].job] = queue[work[v].job]
            \/ /\ queue[work[v].job].status = "none"
               /\ queue'[work[v].job].status = "pending"
    BY <1>6, <1>7
  <2> QED
    BY <2>1, <2>2 DEF Owns
<1>9. \A v \in Workers : Owns(v) => work[v].job # k
  <2> SUFFICES ASSUME NEW v \in Workers, Owns(v), work[v].job = k PROVE FALSE
    OBVIOUS
  <2>1. CASE v = w
    BY <1>4, <1>5, <2>1
  <2>2. CASE v # w
    BY <1>1, <1>5, <2>2 DEF ChainsApart, Behind, Owns
  <2> QED
    BY <2>1, <2>2
<1>10. Fresh'
  <2>1. ops \in Nat /\ ops' = ops
    BY <1>1 DEF IInv, TypeOK, business
  <2>2. \A j \in Key \ {k} : queue'[j].status # "none" => j.xid <= ops'
    BY <1>6, <2>1 DEF PInv, Fresh
  <2> QED
    BY <1>5, <2>1, <2>2 DEF Fresh
<1>11. Guarded'
  <2> SUFFICES ASSUME NEW u \in Users, NEW n \in Nodes, NEW aim \in Aims
               PROVE  Guard(aim, u, n)'
    BY DEF Guarded
  <2>1. Guard(aim, u, n)
    BY DEF PInv, Guarded
  <2>2. CASE InScope(k, u, n)
    <3>1. Promise(k, u, n)'
      BY <1>2, <1>3, <1>6, <1>8, <1>9, <2>2 DEF Promise
    <3>2. Due(u, n)'
      BY <1>5, <3>1 DEF Due
    <3> QED
      BY <3>2, OwedIsGuarded, PTL
  <2>3. CASE ~InScope(k, u, n)
    <3>1. InScope(work[w].job, u, n) => ~Ahead(w, u, n)
      <4>1. work[w].job.kind # "user"
        BY <1>4 DEF ByUser
      <4>2. InScope(work[w].job, u, n) => ~(u > work[w].last)
        BY <1>5, <2>3, <4>1 DEF InScope
      <4> QED
        BY <1>1, <4>2 DEF Ahead
    <3>2. \A v \in Workers \ {w} : Ahead(v, u, n)' = Ahead(v, u, n)
      BY <1>2 DEF Ahead, Behind, Item, ByUser
    <3>3. ASSUME NEW j \in Key, Promise(j, u, n)
          PROVE  Promise(j, u, n)'
      <4>1. j # k /\ queue'[j] = queue[j] /\ InScope(j, u, n) /\ queue[j].status # "none"
        BY <1>6, <2>3, <3>3 DEF Promise
      <4>2. ASSUME NEW v \in Workers, Owns(v)', work'[v].job = j
            PROVE  Ahead(v, u, n)'
        <5>1. Owns(v) /\ work[v].job = j
          BY <1>2, <1>3, <1>8, <4>2
        <5>2. Ahead(v, u, n)
          BY <3>3, <5>1 DEF Promise
        <5>3. v # w
          BY <3>1, <4>1, <5>1, <5>2
        <5> QED
          BY <3>2, <5>2, <5>3
      <4> QED
        BY <4>1, <4>2 DEF Promise
    <3>4. Due(u, n) => Due(u, n)'
      BY <3>3 DEF Due
    <3>5. Held(u, n) => Held(u, n)'
      BY <1>2, <1>3, <1>8 DEF Held
    <3>6. Excused(aim, u, n) => Excused(aim, u, n)'
      BY <1>1, <3>4, <3>5 DEF Excused, Lost
    <3>7. \A v \in Workers : /\ Writing(v, u, n)' = Writing(v, u, n)
                             /\ Writing(v, u, n) => work'[v].state = work[v].state
      <4>1. ~Writing(w, u, n) /\ ~Writing(w, u, n)'
        BY <1>1, <1>3 DEF Writing
      <4> QED
        BY <1>2, <4>1 DEF Writing, CurUser, CurNode
    <3>8. Written(u, n) => Written(u, n)'
      BY <1>8, <3>7 DEF Written
    <3> QED
      BY <1>1, <2>1, <3>6, <3>7, <3>8, GuardKept
  <2> QED
    BY <2>2, <2>3
<1> QED
  BY <1>10, <1>11

---------------------------------------------------------------------------
(* What the queue owes, in every reachable state.                          *)

\* A published database owes nothing.
LEMMA InitPInv == Init => PInv
<1> SUFFICES ASSUME Init PROVE PInv
  OBVIOUS
<1>1. \A w \in Workers : work[w].pc = "idle"
  BY DEF Init, Idle
<1>2. \A k \in Key : queue[k].status = "none"
  BY DEF Init, Gone
<1>3. Fresh /\ Chained
  BY <1>1, <1>2 DEF Fresh, Chained, ChainedBy, Init, Idle
<1>4. ASSUME NEW u \in Users, NEW n \in Nodes, NEW aim \in Aims
      PROVE  Good(aim, row[n][u].state, u, n)
  <2>1. /\ Shares(u, n) => row[n][u].state = sub[u]
        /\ ~Shares(u, n) => row[n][u].state = "absent"
    BY DEF Init
  <2>2. CASE aim = "safe"
    BY <2>1, <2>2 DEF Good
  <2>3. CASE aim = "agrees"
    BY <2>1, <2>3 DEF Good
  <2> QED
    BY <2>2, <2>3 DEF Aims
<1>5. \A u \in Users, n \in Nodes, w \in Workers : ~Writing(w, u, n)
  BY <1>1 DEF Writing
<1> QED
  BY <1>3, <1>4, <1>5 DEF PInv, Guarded, Guard

\* Every step preserves what is owed, as long as no two chains meet.
LEMMA StepPInv ==
    ASSUME IInv, PInv, ChainsApart, [Next]_vars
    PROVE  PInv'
<1>1. Chained'
  BY ChainedKept DEF PInv
<1>2. ASSUME NEW w \in Workers, Inside(w) PROVE Fresh'
  BY <1>2 DEF PInv, Fresh, Inside, business
<1>3. ASSUME NEW w \in Workers, WorkerStep(w)
      PROVE  Fresh' /\ Guarded'
  <2>1. CASE Claim(w)
    BY <2>1, GuardedClaim
  <2>2. CASE LockPublishedUser(w) \/ LockNextUser(w) \/ UnlockPublishedUser(w)
    BY <1>2, <2>2, GuardedPlain
  <2>3. CASE Continue(w)
    <3>1. CASE work[w].rest
      BY <2>3, <3>1, GuardedContinue
    <3>2. CASE ~work[w].rest
      BY <1>2, <2>3, <3>2, GuardedPlain
    <3> QED
      BY <3>1, <3>2
  <2>4. CASE ReadCandidates(w)
    BY <1>2, <2>4, GuardedCandidates
  <2>5. CASE ReadBatch(w)
    BY <1>2, <2>5, GuardedBatch
  <2>6. CASE TakePair(w)
    <3>1. CASE Passes(w)
      BY <1>2, <2>6, <3>1, GuardedPass
    <3>2. CASE Takes(w)
      BY <1>2, <2>6, <3>2, GuardedTake
    <3> QED
      BY <2>6, <3>1, <3>2, TakePairCases
  <2>7. CASE CommitPair(w)
    BY <1>2, <2>7, GuardedCommit
  <2>8. CASE Finish(w)
    BY <2>8, GuardedFinish
  <2>9. CASE HandlerFails(w) \/ Crash(w)
    <3>1. UNCHANGED <<queue, business>>
      BY <2>9 DEF HandlerFails, Crash
    <3>2. Fresh'
      BY <3>1 DEF PInv, Fresh, business
    <3> QED
      BY <2>9, <3>2, GuardedLoss
  <2> QED
    BY <1>3, <2>1, <2>2, <2>3, <2>4, <2>5, <2>6, <2>7, <2>8, <2>9 DEF WorkerStep, Step
<1>4. CASE Operation
  BY <1>4, GuardedOperation
<1>5. CASE UNCHANGED vars
  <2>1. \A v \in Workers : Owns(v)' = Owns(v)
    BY <1>5 DEF vars, Owns
  <2>2. \A v \in Workers : \A u, n :
           Writing(v, u, n)' = Writing(v, u, n) /\ Ahead(v, u, n)' = Ahead(v, u, n)
    BY <1>5 DEF vars, Writing, CurUser, CurNode, Ahead, Behind, Item, ByUser
  <2>3. \A u, n : /\ Due(u, n)' = Due(u, n) /\ Held(u, n)' = Held(u, n)
                  /\ Written(u, n)' = Written(u, n) /\ Lost' = Lost
    BY <1>5, <2>1, <2>2 DEF vars, Due, Promise, Held, Written, Lost
  <2>4. \A aim, s, u, n : Good(aim, s, u, n)' = Good(aim, s, u, n)
    BY <1>5 DEF vars, business, Good, Shares
  <2>5. \A aim, u, n : Excused(aim, u, n)' = Excused(aim, u, n)
    BY <1>5, <2>3 DEF vars, Excused
  <2>6. Guarded'
    BY <1>5, <2>2, <2>3, <2>4, <2>5 DEF vars, store, PInv, Guarded, Guard
  <2> QED
    BY <1>1, <1>5, <2>6 DEF vars, business, PInv, Fresh
<1> QED
  BY <1>1, <1>3, <1>4, <1>5 DEF Next, WorkerStep, PInv

\* Nothing is owed by an empty queue.
LEMMA QuietOwesNothing ==
    ASSUME IInv, PInv, Quiet
    PROVE  PublishedWhenQuiet /\ RevocationsNotWithheld
<1>1. \A u, n : ~Due(u, n)
  BY DEF Due, Promise, Quiet
<1>2. \A w \in Workers : ~Owns(w)
  BY DEF Owns, Quiet, IInv, Lists, Listed
<1>3. \A u, n : ~Held(u, n) /\ ~Written(u, n)
  BY <1>2 DEF Held, Written
<1>4. PublishedWhenQuiet
  <2> SUFFICES ASSUME buried = {}, NEW u \in Users, NEW n \in Nodes
               PROVE  Agrees(u, n)
    BY DEF PublishedWhenQuiet
  <2>1. Good("agrees", row[n][u].state, u, n)
    BY <1>1, <1>3 DEF PInv, Guarded, Guard, Excused, Aims
  <2> QED
    BY <2>1 DEF Good, Agrees, HasRow
<1>5. RevocationsNotWithheld
  <2> SUFFICES ASSUME \A b \in buried : b.withheld, NEW u \in Users, NEW n \in Nodes,
                      row[n][u].state = "active"
               PROVE  Shares(u, n) /\ sub[u] = "active"
    BY DEF RevocationsNotWithheld
  <2>1. Good("safe", row[n][u].state, u, n)
    BY <1>1, <1>3 DEF PInv, Guarded, Guard, Excused, Lost, Aims
  <2> QED
    BY <2>1 DEF Good
<1> QED
  BY <1>4, <1>5

\* Behaviours in which no two chains meet keep every pair agreeing, owed, being written,
\* or lost with a buried job.
LEMMA Owed == Spec /\ []ChainsApart => []PInv
<1>1. Init => PInv
  BY InitPInv
<1>2. IInv /\ PInv /\ ChainsApart /\ [Next]_vars => PInv'
  BY StepPInv
<1> QED
  BY <1>1, <1>2, Invariance, PTL DEF Spec

\* As long as no worker runs a continuation of a node where another has a batch with
\* users behind it: when the queue is empty and no job was buried, the rows of every node
\* are those of exactly its users, each in the state of the subscription.  Whatever
\* interleaving of operations, workers, expired leases, failing handlers and crashes led
\* there, and however many batches a node takes.
THEOREM Published == Spec /\ []ChainsApart => []PublishedWhenQuiet
<1>1. IInv /\ PInv => PublishedWhenQuiet
  BY QuietOwesNothing DEF PublishedWhenQuiet
<1> QED
  BY <1>1, Invariance, Owed, PTL

\* In the same regime: when the queue is empty and jobs were buried only because of
\* withheld rows, no row gives access that the subscription does not give.
THEOREM Revoked == Spec /\ []ChainsApart => []RevocationsNotWithheld
<1>1. IInv /\ PInv => RevocationsNotWithheld
  BY QuietOwesNothing DEF RevocationsNotWithheld
<1> QED
  BY <1>1, Invariance, Owed, PTL

\* The first users of a list that fits the batch are all of it.
LEMMA FirstOfAll ==
    ASSUME Cardinality(Users) <= Batch, NEW S \in SUBSET Users
    PROVE  FirstOf(S, Batch) = S
<1> SUFFICES ASSUME NEW i \in S PROVE Cardinality({j \in S : j <= i}) <= Batch
  BY DEF FirstOf
<1>1. {j \in S : j <= i} \subseteq Users /\ IsFiniteSet(Users)
  BY IdentifiersAssumption
<1>2. Cardinality({j \in S : j <= i}) <= Cardinality(Users)
  BY <1>1, FS_Subset
<1>3. /\ Cardinality({j \in S : j <= i}) \in Nat /\ Cardinality(Users) \in Nat
  BY <1>1, FS_Subset, FS_CardinalityType
<1> QED
  BY <1>2, <1>3, BoundsAssumption

\* The regime, from the constants alone: one worker executes the queue, as the system is
\* deployed, so no other can meet its chain.
THEOREM OneWorkerApart == (\A v, w \in Workers : v = w) => (Spec => []ChainsApart)
<1> SUFFICES ASSUME \A v, w \in Workers : v = w PROVE Spec => []ChainsApart
  OBVIOUS
<1>1. ChainsApart
  BY DEF ChainsApart
<1> QED
  BY <1>1, PTL

\* The regime, from the constants alone: no more users than a batch holds, so no batch
\* leaves anyone behind, with any number of workers.
THEOREM SmallSystemApart == Cardinality(Users) <= Batch => (Spec => []ChainsApart)
<1> DEFINE Single == \A w \in Workers : ~work[w].rest
<1> SUFFICES ASSUME Cardinality(Users) <= Batch PROVE Spec => []ChainsApart
  OBVIOUS
<1>1. Init => Single
  BY DEF Init, Idle
<1>2. IInv /\ Single /\ [Next]_vars => Single'
  <2> SUFFICES ASSUME IInv, Single, [Next]_vars PROVE Single'
    OBVIOUS
  <2>1. CASE Operation \/ UNCHANGED vars
    BY <2>1, OperationFrame DEF IInv, vars
  <2>2. ASSUME NEW w \in Workers, WorkerStep(w)
        PROVE  Single'
    <3>1. \A v \in Workers \ {w} : work'[v] = work[v]
      BY <2>2, OthersRest DEF IInv, WorkerStep
    <3>2. ~work'[w].rest
      <4>1. CASE ReadBatch(w)
        <5>1. NodeCandidates(work[w].job.node, work[w].job.user) \in SUBSET Users
          BY DEF NodeCandidates
        <5> QED
          BY <4>1, <5>1, ReadBatchMemory, FirstOfAll DEF IInv
      <4>2. CASE ~ReadBatch(w)
        BY <2>2, <4>2, ChainMemory
      <4> QED
        BY <4>1, <4>2
    <3> QED
      BY <3>1, <3>2
  <2> QED
    BY <2>1, <2>2 DEF Next, WorkerStep
<1>3. Single => ChainsApart
  BY DEF ChainsApart, Behind
<1> HIDE DEF Single
<1> QED
  BY <1>1, <1>2, <1>3, Invariance, PTL DEF Spec

\* The deployed system, without a hypothesis on its behaviour: one worker on the queue,
\* any number of users, nodes and batches.
THEOREM OneWorkerPublishes ==
    (\A v, w \in Workers : v = w)
        => (Spec => [](PublishedWhenQuiet /\ RevocationsNotWithheld))
<1> SUFFICES ASSUME \A v, w \in Workers : v = w
             PROVE  Spec => [](PublishedWhenQuiet /\ RevocationsNotWithheld)
  OBVIOUS
<1>1. Spec => []ChainsApart
  BY OneWorkerApart
<1> QED
  BY <1>1, Published, Revoked, PTL
=============================================================================
