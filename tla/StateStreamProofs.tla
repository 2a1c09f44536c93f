-------------------------- MODULE StateStreamProofs --------------------------
(***************************************************************************)
(* Proofs about StateStream, for every set of users and every number of    *)
(* publications.                                                           *)
(***************************************************************************)
EXTENDS StateStream, WellFoundedInduction, TLAPS

(***************************************************************************)
(* The inductive invariant.  The numbers of the rows never lead the node's  *)
(* sequence, and the cursor never leads either.  A row numbered within an  *)
(* open snapshot is the row that the snapshot read: whatever was published *)
(* since has a later number, and damage to credentials only takes access   *)
(* away.  An answer on its way leaves its agent, once applied, with no     *)
(* revocation skipped and no grant lost up to the cursor it will set.      *)
(***************************************************************************)
Numbered ==
    /\ cursor <= desired
    /\ \A u \in Users : /\ row[u].seq <= desired
                        /\ row[u].state = "absent" <=> row[u].seq = 0

\* The rows of a request are selected above this number.
After == IF req.full THEN 0 ELSE cursor

Skipped(u) == \/ req.gate = "none"
              \/ req.full /\ req.gate = "all" /\ row[u].state = "removed"
              \/ row[u].seq <= After

SnapshotOf(u) ==
    /\ req.got.rows[u].state # "absent"
         => After < req.got.rows[u].seq /\ req.got.rows[u].seq <= req.got.current
    /\ row[u].seq <= req.got.current
         => IF Skipped(u) THEN req.got.rows[u] = NoRow
            ELSE /\ req.got.rows[u].state = row[u].state
                 /\ req.got.rows[u].seq = row[u].seq
                 /\ row[u].usable => req.got.rows[u].usable

SnapshotHolds ==
    req.pc = "read" => /\ cursor <= req.got.current /\ req.got.current <= desired
                       /\ \A u \in Users : SnapshotOf(u)

AnswerServes(u, answer) ==
    row[u].seq <= answer.seq =>
        /\ row[u].state # "active" => u \notin Applied(answer)
        /\ Granted(row[u]) => u \in Applied(answer) \/ resync

AnswerHolds ==
    req.pc = "answered" => /\ cursor <= req.answer.seq /\ req.answer.seq <= desired
                           /\ \A u \in Users : AnswerServes(u, req.answer)

IInv ==
    /\ TypeOK
    /\ Numbered
    /\ SnapshotHolds
    /\ AnswerHolds
    /\ RevocationsApplied
    /\ HiddenGrantsAreOwed

---------------------------------------------------------------------------
(* The greatest element of a bounded set of numbers.                       *)

\* A set of naturals that is not empty has a least element.
LEMMA LeastElement ==
    ASSUME NEW S \in SUBSET Nat, S # {}
    PROVE  \E m \in S : \A n \in S : m <= n
<1> DEFINE R == OpToRel(<, Nat)
<1>1. IsWellFoundedOn(R, Nat)
  BY NatLessThanWellFounded
<1> HIDE DEF R
<1>2. \E m \in S : \A n \in S : ~ (<<n, m>> \in R)
  BY <1>1, WFMin, Zenon
<1>3. \A m, n \in Nat : n < m => <<n, m>> \in R
  BY DEF R, OpToRel
<1>4. PICK m \in S : \A n \in S : ~ (<<n, m>> \in R)
  BY <1>2
<1>5. \A n \in S : m <= n
  <2> SUFFICES ASSUME NEW n \in S PROVE m <= n
    OBVIOUS
  <2>1. m \in Nat /\ n \in Nat
    OBVIOUS
  <2>2. ~(n < m)
    BY <1>3, <1>4, <2>1, Zenon
  <2> QED
    BY <2>1, <2>2
<1> QED
  BY <1>5

\* Max of a bounded set that is not empty is its greatest element.
LEMMA MaxOfBounded ==
    ASSUME NEW b \in Nat, NEW S \in SUBSET (0 .. b), S # {}
    PROVE  Max(S) \in S /\ \A n \in S : n <= Max(S)
<1> DEFINE D == {b - n : n \in S}
<1>1. D \in SUBSET Nat /\ D # {}
  <2>1. \A n \in S : b - n \in Nat
    OBVIOUS
  <2>2. PICK n \in S : TRUE
    OBVIOUS
  <2>3. b - n \in D
    OBVIOUS
  <2>4. \A d \in D : d \in Nat
    BY <2>1
  <2> QED
    BY <2>3, <2>4
<1>2. PICK d \in D : \A n \in D : d <= n
  BY <1>1, LeastElement
<1>3. PICK m \in S : d = b - m
  BY <1>2
<1>4. \A n \in S : m >= n
  BY <1>2, <1>3
<1>5. \E x \in S : \A y \in S : x >= y
  BY <1>3, <1>4
<1> QED
  BY <1>5 DEF Max

---------------------------------------------------------------------------
(* The parts of a request.                                                 *)

\* A request in flight carries values of their types.
LEMMA RequestTyped ==
    ASSUME TypeOK
    PROVE  /\ req.full \in BOOLEAN /\ req.gate \in Gates
           /\ req.pc \in {"none", "asked", "admitted", "read", "answered"}
           /\ req.pc = "read" => req.got \in Read /\ req.gate # "refused"
           /\ req.pc = "answered" => req.answer \in Answer /\ req.gate # "refused"
BY DEF TypeOK, Request

\* The number of an answer lies between the agent's cursor and what the snapshot read.
LEMMA AnswerSeqBounds ==
    ASSUME TypeOK, Numbered, SnapshotHolds, req.pc = "read"
    PROVE  /\ AnswerSeq \in 0 .. MaxSeq
           /\ cursor <= AnswerSeq /\ AnswerSeq <= req.got.current
           /\ req.gate = "none" => AnswerSeq = cursor
<1>1. /\ req.got \in Read /\ req.full \in BOOLEAN
      /\ req.gate \in {"none", "revocations", "all"}
  BY RequestTyped DEF Gates
<1>2. /\ cursor \in 0 .. MaxSeq /\ req.got.current \in 0 .. MaxSeq
      /\ cursor <= req.got.current
  BY <1>1 DEF TypeOK, SnapshotHolds, Read
<1>3. CASE req.gate = "none" \/ req.full \/ Seqs(req.got.rows) = {}
  BY <1>1, <1>2, <1>3 DEF AnswerSeq
<1>4. CASE req.gate # "none" /\ ~req.full /\ Seqs(req.got.rows) # {}
  <2>1. Seqs(req.got.rows) \in SUBSET (0 .. MaxSeq)
    BY <1>1 DEF Seqs, Read, Row
  <2>2. Max(Seqs(req.got.rows)) \in Seqs(req.got.rows)
    BY <1>4, <2>1, MaxOfBounded, MaxSeqAssumption
  <2>3. PICK u \in Users : /\ req.got.rows[u].state # "absent"
                           /\ Max(Seqs(req.got.rows)) = req.got.rows[u].seq
    BY <2>2 DEF Seqs
  <2>4. cursor < req.got.rows[u].seq /\ req.got.rows[u].seq <= req.got.current
    BY <1>4, <2>3 DEF SnapshotHolds, SnapshotOf, After
  <2>5. AnswerSeq = Max(Seqs(req.got.rows))
    BY <1>4 DEF AnswerSeq
  <2>6. req.got.rows[u].seq \in 0 .. MaxSeq
    BY <2>1, <2>2, <2>3
  <2> QED
    BY <1>2, <1>4, <2>3, <2>4, <2>5, <2>6
<1> QED
  BY <1>3, <1>4
---------------------------------------------------------------------------
(* The steps.                                                              *)

\* What a request shows of the rows it read is a state of a row, or nothing.
LEMMA ShownState ==
    ASSUME TypeOK, NEW r \in Row
    PROVE  /\ Shown(r) \in RowState
           /\ Shown(r) = "active" => Granted(r)
           /\ req.gate # "revocations" /\ Granted(r) => Shown(r) = "active"
           /\ r.state = "absent" => Shown(r) = "absent"
           /\ r.state \in Revoking => Shown(r) = r.state
BY DEF Shown, Kept, Granted, Row, RowState, Revoking

\* The status of a node goes from status to status.
LEMMA StatusStep ==
    ASSUME TypeOK, ChangeStatus
    PROVE  status' \in Status
<1>1. status \in Status
  BY DEF TypeOK
<1>2. Transitions(status) \subseteq Status
  BY <1>1 DEF Status, Transitions, Cleared, Manual, Automatic
<1>3. OnRevocation \in Status /\ OnReenrollment \in Status
  BY DEF Status, Manual, OnRevocation, OnReenrollment
<1> QED
  BY <1>2, <1>3 DEF ChangeStatus

\* The row that a publication writes, or a row whose credentials are damaged.
LEMMA RowsTyped ==
    ASSUME TypeOK, NEW u \in Users, Publish(u) \/ Spoil(u)
    PROVE  row' \in [Users -> Row] /\ desired' \in 0 .. MaxSeq
<1>1. CASE Publish(u)
  <2>1. PICK s \in {"active", "suspended", "removed"} :
           row' = [row EXCEPT ![u] = [state |-> s, seq |-> desired + 1, usable |-> TRUE]]
    BY <1>1 DEF Publish
  <2>2. desired + 1 \in 0 .. MaxSeq /\ desired' = desired + 1
    BY <1>1, MaxSeqAssumption DEF Publish, TypeOK
  <2>3. [state |-> s, seq |-> desired + 1, usable |-> TRUE] \in Row
    BY <2>2 DEF Row, RowState
  <2> QED
    BY <2>1, <2>2, <2>3 DEF TypeOK
<1>2. CASE Spoil(u)
  <2>1. row[u] \in Row
    BY DEF TypeOK
  <2>2. [row[u] EXCEPT !.usable = FALSE] \in Row
    BY <2>1 DEF Row
  <2> QED
    BY <1>2, <2>2 DEF Spoil, TypeOK, database
<1> QED
  BY <1>1, <1>2

\* The rows that a request reads, and what it keeps of them.
LEMMA ReadTyped ==
    ASSUME TypeOK, ReadRows
    PROVE  /\ req' \in Request /\ req'.pc = "read"
           /\ req'.full = req.full /\ req'.gate = req.gate /\ req'.gate # "refused"
           /\ req'.got.current = desired
           /\ req'.got.rows = Selected(req.full, req.gate, IF req.full THEN 0 ELSE cursor)
<1>1. req.full \in BOOLEAN /\ req.gate \in Gates \ {"refused"}
  BY RequestTyped DEF ReadRows
<1>2. NoRow \in Row
  BY MaxSeqAssumption DEF NoRow, Row, RowState
<1>3. Selected(req.full, req.gate, IF req.full THEN 0 ELSE cursor) \in [Users -> Row]
  BY <1>2 DEF Selected, TypeOK
<1> DEFINE got == [rows |-> Selected(req.full, req.gate, IF req.full THEN 0 ELSE cursor),
                   current |-> desired, resync |-> resync]
<1>4. got \in Read
  BY <1>3 DEF Read, TypeOK
<1>5. req' = [pc |-> "read", full |-> req.full, gate |-> req.gate, got |-> got]
  BY DEF ReadRows
<1> HIDE DEF got
<1>6. req' \in Request
  BY <1>1, <1>4, <1>5 DEF Request
<1> QED
  BY <1>1, <1>5, <1>6 DEF got

\* The answer that a request gives, and its type.
LEMMA RespondTyped ==
    ASSUME TypeOK, Numbered, SnapshotHolds, Respond
    PROVE  /\ req' \in Request /\ req'.pc = "answered"
           /\ req'.answer.seq = AnswerSeq
           /\ req'.answer.full = (req.full /\ req.gate = "all")
           /\ \A u \in Users : req'.answer.rows[u] = Shown(req.got.rows[u])
           /\ resync' \in BOOLEAN
           /\ resync' = (resync \/ req.gate = "revocations")
<1>1. /\ req.full \in BOOLEAN /\ req.gate \in Gates \ {"refused"} /\ req.got \in Read
      /\ req.pc = "read"
  BY RequestTyped DEF Respond
<1>2. \A u \in Users : Shown(req.got.rows[u]) \in RowState
  BY <1>1, ShownState DEF Read
<1>3. AnswerSeq \in 0 .. MaxSeq
  BY <1>1, AnswerSeqBounds
<1> DEFINE complete == req.full /\ req.gate = "all"
           answer == [rows |-> [u \in Users |-> Shown(req.got.rows[u])],
                      seq |-> AnswerSeq, full |-> complete,
                      resync |-> (req.got.resync \/ Filtered) /\ ~complete]
<1>4. complete \in BOOLEAN /\ ((req.got.resync \/ Filtered) /\ ~complete) \in BOOLEAN
  BY DEF Filtered
<1> HIDE DEF complete
<1>5. answer \in Answer
  BY <1>2, <1>3, <1>4 DEF Answer
<1>6. req' = [pc |-> "answered", full |-> req.full, gate |-> req.gate, answer |-> answer]
  BY DEF Respond, complete
<1>7. resync' = (resync \/ req.gate = "revocations") /\ resync' \in BOOLEAN
  BY DEF Respond, MarkResync, Filtered, TypeOK
<1> HIDE DEF answer
<1>8. req' \in Request
  BY <1>1, <1>5, <1>6 DEF Request
<1>9. req'.answer = answer
  BY <1>6
<1> QED
  BY <1>6, <1>7, <1>8, <1>9 DEF answer, complete

\* Every step keeps the types.
LEMMA TypeStep ==
    ASSUME TypeOK, Numbered, SnapshotHolds, [Next]_vars
    PROVE  TypeOK'
<1>1. NoRequest \in Request
  BY DEF NoRequest, Request, Gates
<1>2. ASSUME NEW u \in Users, Publish(u) \/ Spoil(u) PROVE TypeOK'
  BY <1>2, RowsTyped DEF TypeOK, Publish, Spoil, agent, database
<1>3. CASE ChangeStatus
  BY <1>3, StatusStep DEF TypeOK, ChangeStatus, agent, database
<1>4. CASE Ask
  <2>1. [pc |-> "asked", full |-> wantFull, gate |-> "none"] \in Request
    BY DEF Request, Gates, TypeOK
  <2> QED
    BY <1>4, <2>1 DEF TypeOK, Ask, agent, database
<1>5. CASE Admit
  <2>1. Gate(status) \in Gates
    BY DEF Gate, Gates
  <2>2. req \in [pc : {"none", "asked", "admitted"}, full : BOOLEAN, gate : Gates]
    BY <1>5 DEF TypeOK, Request, Admit
  <2>3. req' = [pc |-> "admitted", full |-> req.full, gate |-> Gate(status)]
    BY <1>5, <2>2 DEF Admit
  <2>4. req' \in Request
    BY <2>1, <2>2, <2>3 DEF Request
  <2> QED
    BY <1>5, <2>4 DEF TypeOK, Admit, agent, database
<1>6. CASE Refuse
  BY <1>1, <1>6 DEF TypeOK, Refuse, agent, database
<1>7. CASE ReadRows
  BY <1>7, ReadTyped DEF TypeOK, ReadRows, agent, database
<1>8. CASE Silence
  <2>1. wantFull' \in BOOLEAN
    BY <1>8 DEF Silence, CursorAhead, TypeOK
  <2> QED
    BY <1>1, <1>8, <2>1 DEF TypeOK, Silence, agent, database
<1>9. CASE Respond
  BY <1>9, RespondTyped DEF TypeOK, Respond, agent, database
<1>10. CASE Apply
  <2>1. req.answer \in Answer
    BY <1>10, RequestTyped DEF Apply
  <2>2. wantFull' \in BOOLEAN /\ cursor' \in 0 .. MaxSeq
    BY <1>10, <2>1 DEF Apply, Answer
  <2>3. served' \subseteq Users /\ configured' = TRUE /\ req' = NoRequest
    BY <1>10 DEF Apply, Applied
  <2> QED
    BY <1>1, <1>10, <2>2, <2>3 DEF TypeOK, Apply, agent, database
<1>11. CASE Lose
  BY <1>1, <1>11 DEF TypeOK, Lose, agent, database
<1>12. CASE UNCHANGED vars
  BY <1>12 DEF TypeOK, vars, agent, database
<1> QED
  BY <1>2, <1>3, <1>4, <1>5, <1>6, <1>7, <1>8, <1>9, <1>10, <1>11, <1>12 DEF Next, Serve
Guarded == Numbered /\ SnapshotHolds /\ AnswerHolds /\ RevocationsApplied /\ HiddenGrantsAreOwed

\* A step that touches neither rows nor agent, and opens no snapshot and no answer.
LEMMA QuietStep ==
    ASSUME IInv, UNCHANGED <<row, desired, resync, cursor, served>>,
           req' = req \/ req'.pc \notin {"read", "answered"}
    PROVE  Guarded'
<1>1. (Numbered /\ RevocationsApplied /\ HiddenGrantsAreOwed)'
  BY DEF IInv, Numbered, RevocationsApplied, HiddenGrantsAreOwed, Granted
<1>2. SnapshotHolds'
  BY DEF IInv, SnapshotHolds, SnapshotOf, Skipped, After
<1>3. AnswerHolds'
  BY DEF IInv, AnswerHolds, AnswerServes, Applied, Granted
<1> QED
  BY <1>1, <1>2, <1>3 DEF Guarded

\* A publication takes a number beyond every cursor, snapshot and answer.
LEMMA PublishStep ==
    ASSUME IInv, NEW u \in Users, Publish(u)
    PROVE  Guarded'
<1> USE DEF IInv
<1>1. PICK s \in {"active", "suspended", "removed"} :
         row' = [row EXCEPT ![u] = [state |-> s, seq |-> desired + 1, usable |-> TRUE]]
  BY DEF Publish
<1>2. /\ desired' = desired + 1
      /\ UNCHANGED <<resync, req, cursor, served>>
  BY DEF Publish, agent
<1>3. /\ row'[u].seq = desired + 1 /\ row'[u].state # "absent"
      /\ \A v \in Users \ {u} : row'[v] = row[v]
  BY <1>1 DEF TypeOK
<1>4. desired \in Nat /\ cursor \in Nat /\ \A v \in Users : row[v].seq \in Nat
  BY DEF TypeOK, Row
<1>5. Numbered'
  BY <1>2, <1>3, <1>4 DEF Numbered
<1>6. (RevocationsApplied /\ HiddenGrantsAreOwed)'
  BY <1>2, <1>3, <1>4 DEF Numbered, RevocationsApplied, HiddenGrantsAreOwed, Granted
<1>7. SnapshotHolds'
  <2> SUFFICES ASSUME req.pc = "read"
               PROVE  SnapshotHolds'
    BY <1>2 DEF SnapshotHolds
  <2>1. req.got.current \in Nat
    BY RequestTyped DEF Read
  <2>2. cursor <= req.got.current /\ req.got.current <= desired'
    BY <1>2, <1>4, <2>1 DEF SnapshotHolds
  <2>3. ASSUME NEW v \in Users PROVE SnapshotOf(v)'
    <3>1. CASE v = u
      BY <1>2, <1>3, <1>4, <2>1, <2>2, <3>1 DEF SnapshotHolds, SnapshotOf, After
    <3>2. CASE v # u
      BY <1>2, <1>3, <3>2 DEF SnapshotHolds, SnapshotOf, Skipped, After
    <3> QED
      BY <3>1, <3>2
  <2> QED
    BY <1>2, <2>2, <2>3 DEF SnapshotHolds
<1>8. AnswerHolds'
  <2> SUFFICES ASSUME req.pc = "answered"
               PROVE  AnswerHolds'
    BY <1>2 DEF AnswerHolds
  <2>1. req.answer.seq \in Nat
    BY RequestTyped DEF Answer
  <2>2. cursor <= req.answer.seq /\ req.answer.seq <= desired'
    BY <1>2, <1>4, <2>1 DEF AnswerHolds
  <2>3. ASSUME NEW v \in Users PROVE AnswerServes(v, req.answer)'
    <3>1. CASE v = u
      BY <1>2, <1>3, <1>4, <2>1, <3>1 DEF AnswerHolds, AnswerServes
    <3>2. CASE v # u
      BY <1>2, <1>3, <3>2 DEF AnswerHolds, AnswerServes, Granted, Applied
    <3> QED
      BY <3>1, <3>2
  <2> QED
    BY <1>2, <2>2, <2>3 DEF AnswerHolds
<1> QED
  BY <1>5, <1>6, <1>7, <1>8 DEF Guarded

\* Damage to the credentials of a row only takes access away.
LEMMA SpoilStep ==
    ASSUME IInv, NEW u \in Users, Spoil(u)
    PROVE  Guarded'
<1> USE DEF IInv
<1>1. UNCHANGED <<desired, resync, req, cursor, served>>
  BY DEF Spoil, agent
<1>2. row[u] \in Row
  BY DEF TypeOK
<1>3. /\ row'[u].state = row[u].state /\ row'[u].seq = row[u].seq /\ ~row'[u].usable
      /\ \A v \in Users \ {u} : row'[v] = row[v]
  BY <1>2 DEF Spoil, TypeOK, Row
<1>4. \A v \in Users : /\ row'[v].state = row[v].state /\ row'[v].seq = row[v].seq
                       /\ row'[v].usable => row[v].usable
  BY <1>3
<1>5. (Numbered /\ RevocationsApplied /\ HiddenGrantsAreOwed)'
  BY <1>1, <1>4 DEF Numbered, RevocationsApplied, HiddenGrantsAreOwed, Granted
<1>6. SnapshotHolds'
  BY <1>1, <1>4 DEF SnapshotHolds, SnapshotOf, Skipped, After
<1>7. AnswerHolds'
  BY <1>1, <1>4 DEF AnswerHolds, AnswerServes, Granted, Applied
<1> QED
  BY <1>5, <1>6, <1>7 DEF Guarded

\* A snapshot is true of the rows at the moment it reads them.
LEMMA ReadStep ==
    ASSUME IInv, ReadRows
    PROVE  Guarded'
<1> USE DEF IInv
<1>1. /\ req'.pc = "read" /\ req'.full = req.full /\ req'.gate = req.gate
      /\ req'.got.current = desired
      /\ req'.got.rows = Selected(req.full, req.gate, After)
  BY ReadTyped DEF After
<1>2. UNCHANGED <<row, desired, resync, cursor, served>>
  BY DEF ReadRows, database, agent
<1>3. (Numbered /\ RevocationsApplied /\ HiddenGrantsAreOwed)'
  BY <1>2 DEF Numbered, RevocationsApplied, HiddenGrantsAreOwed, Granted
<1>4. AnswerHolds'
  BY <1>1 DEF AnswerHolds
<1>5. After' = After /\ After \in Nat /\ desired \in Nat
  BY <1>1, <1>2 DEF After, TypeOK
<1>6. ASSUME NEW u \in Users PROVE SnapshotOf(u)'
  <2>1. req'.got.rows[u] = IF Skipped(u) THEN NoRow ELSE row[u]
    BY <1>1 DEF Selected, Skipped
  <2>2. Skipped(u)' <=> Skipped(u)
    BY <1>1, <1>2, <1>5 DEF Skipped
  <2>3. row[u].seq <= desired /\ row[u].seq \in Nat
    BY DEF Numbered, TypeOK, Row
  <2>4. ~Skipped(u) => After < row[u].seq
    BY <1>5, <2>3 DEF Skipped
  <2>5. NoRow.state = "absent"
    BY DEF NoRow
  <2> QED
    BY <1>1, <1>2, <1>5, <2>1, <2>2, <2>3, <2>4, <2>5 DEF SnapshotOf
<1>7. SnapshotHolds'
  BY <1>1, <1>2, <1>5, <1>6 DEF SnapshotHolds, Numbered
<1> QED
  BY <1>3, <1>4, <1>7 DEF Guarded

\* An answer serves its agent: what the gate hides of a snapshot are grants, and the
\* node is marked for having them hidden.
LEMMA RespondStep ==
    ASSUME IInv, Respond
    PROVE  Guarded'
<1> USE DEF IInv
<1>1. /\ req.pc = "read" /\ req'.pc = "answered"
      /\ req'.answer.seq = AnswerSeq
      /\ req'.answer.full = (req.full /\ req.gate = "all")
      /\ \A u \in Users : req'.answer.rows[u] = Shown(req.got.rows[u])
      /\ resync' = (resync \/ req.gate = "revocations")
  BY RespondTyped DEF Respond
<1>2. UNCHANGED <<row, desired, cursor, served>>
  BY DEF Respond, agent
<1>3. /\ req.full \in BOOLEAN /\ req.got \in Read
      /\ req.gate \in {"none", "revocations", "all"}
  BY <1>1, RequestTyped DEF Gates
<1>4. (Numbered /\ RevocationsApplied /\ HiddenGrantsAreOwed)'
  BY <1>1, <1>2 DEF Numbered, RevocationsApplied, HiddenGrantsAreOwed, Granted
<1>5. SnapshotHolds'
  BY <1>1 DEF SnapshotHolds
<1>6. /\ AnswerSeq \in Nat /\ cursor \in Nat /\ desired \in Nat /\ req.got.current \in Nat
      /\ cursor <= AnswerSeq /\ AnswerSeq <= req.got.current
      /\ req.gate = "none" => AnswerSeq = cursor
      /\ req.got.current <= desired
  BY <1>1, <1>3, AnswerSeqBounds DEF SnapshotHolds, TypeOK, Read
<1>7. ASSUME NEW u \in Users, row[u].seq <= AnswerSeq
      PROVE  /\ row[u].state # "active" => u \notin Applied(req'.answer)
             /\ Granted(row[u]) => u \in Applied(req'.answer) \/ resync'
  <2>1. /\ row[u] \in Row /\ req.got.rows[u] \in Row
        /\ row[u].seq \in Nat
    BY <1>3 DEF TypeOK, Read, Row
  <2>2. SnapshotOf(u) /\ row[u].seq <= req.got.current
    BY <1>1, <1>6, <1>7, <2>1 DEF SnapshotHolds
  <2>3. u \in Applied(req'.answer) <=>
           \/ Shown(req.got.rows[u]) = "active"
           \/ /\ Shown(req.got.rows[u]) = "absent"
              /\ ~(req.full /\ req.gate = "all")
              /\ u \in served
    BY <1>1 DEF Applied
  <2>4. CASE row[u].seq <= cursor /\ (req.gate = "none" \/ row[u].seq <= After)
    \* Not sent: the agent keeps what it has, or a full answer names nobody without a row.
    <3>1. Shown(req.got.rows[u]) = "absent"
      BY <2>2, <2>4, ShownState DEF SnapshotOf, Skipped, NoRow, Shown, Granted
    <3>2. CASE ~(req.full /\ req.gate = "all")
      <4>1. /\ row[u].state # "active" => u \notin served
            /\ Granted(row[u]) => u \in served \/ resync
        BY <2>4 DEF RevocationsApplied, HiddenGrantsAreOwed
      <4> QED
        BY <1>1, <2>3, <3>1, <3>2, <4>1
    <3>3. CASE req.full /\ req.gate = "all"
      <4>1. row[u].seq = 0
        BY <2>1, <2>4, <3>3 DEF After
      <4>2. row[u].state = "absent"
        BY <4>1 DEF Numbered
      <4> QED
        BY <2>3, <3>1, <3>3, <4>2 DEF Granted
    <3> QED
      BY <3>2, <3>3
  <2>5. CASE /\ req.gate # "none" /\ After < row[u].seq
             /\ ~(req.full /\ req.gate = "all" /\ row[u].state = "removed")
    <3>1. ~Skipped(u)
      <4>1. After \in Nat
        BY <1>6 DEF After
      <4> QED
        BY <2>1, <2>5, <4>1 DEF Skipped
    <3>2. /\ req.got.rows[u].state = row[u].state
          /\ row[u].usable => req.got.rows[u].usable
      BY <2>2, <3>1 DEF SnapshotOf
    <3>3. row[u].state # "absent"
      <4>1. row[u].seq # 0
        BY <1>6, <2>1, <2>5 DEF After
      <4> QED
        BY <4>1 DEF Numbered
    <3>4. CASE row[u].state = "active"
      BY <1>1, <1>3, <2>1, <2>3, <2>5, <3>2, <3>4, ShownState DEF Granted
    <3>5. CASE row[u].state # "active"
      <4>1. req.got.rows[u].state \in Revoking
        BY <2>1, <3>2, <3>3, <3>5 DEF Row, RowState, Revoking
      <4>2. Shown(req.got.rows[u]) \in Revoking
        BY <2>1, <4>1, ShownState
      <4> QED
        BY <2>3, <3>5, <4>2 DEF Revoking, Granted
    <3> QED
      BY <3>4, <3>5
  <2>6. CASE req.full /\ req.gate = "all" /\ row[u].state = "removed"
    <3>1. req.got.rows[u] = NoRow
      BY <2>2, <2>6 DEF SnapshotOf, Skipped
    <3>2. Shown(req.got.rows[u]) = "absent"
      BY <2>1, <3>1, ShownState DEF NoRow
    <3> QED
      BY <2>3, <2>6, <3>2 DEF Granted
  <2> QED
    BY <1>6, <1>7, <2>1, <2>4, <2>5, <2>6 DEF After
<1>8. AnswerHolds'
  BY <1>1, <1>2, <1>6, <1>7 DEF AnswerHolds, AnswerServes, Granted, Applied
<1> QED
  BY <1>4, <1>5, <1>8 DEF Guarded

\* An answer that arrives makes good what it promised.
LEMMA ApplyStep ==
    ASSUME IInv, Apply
    PROVE  Guarded'
<1> USE DEF IInv
<1>1. /\ req.pc = "answered" /\ req'.pc = "none"
      /\ served' = Applied(req.answer) /\ cursor' = req.answer.seq
      /\ UNCHANGED <<row, desired, resync>>
  BY DEF Apply, NoRequest, database
<1>2. req.answer.seq <= desired /\ \A u \in Users : AnswerServes(u, req.answer)
  BY <1>1 DEF AnswerHolds
<1>3. Numbered'
  BY <1>1, <1>2 DEF Numbered
<1>4. (RevocationsApplied /\ HiddenGrantsAreOwed)'
  BY <1>1, <1>2 DEF RevocationsApplied, HiddenGrantsAreOwed, AnswerServes, Granted
<1> QED
  BY <1>1, <1>3, <1>4 DEF Guarded, SnapshotHolds, AnswerHolds

\* The invariant is inductive.
LEMMA InitIInv == Init => IInv
<1> SUFFICES ASSUME Init PROVE IInv
  OBVIOUS
<1>1. NoRow \in Row /\ NoRequest \in Request /\ 0 \in 0 .. MaxSeq
  BY MaxSeqAssumption DEF NoRow, Row, RowState, NoRequest, Request, Gates
<1>2. TypeOK
  BY <1>1 DEF Init, TypeOK, Status
<1>3. Numbered /\ RevocationsApplied /\ HiddenGrantsAreOwed
  BY DEF Init, NoRow, Numbered, RevocationsApplied, HiddenGrantsAreOwed, Granted
<1>4. SnapshotHolds /\ AnswerHolds
  BY DEF Init, NoRequest, SnapshotHolds, AnswerHolds
<1> QED
  BY <1>2, <1>3, <1>4 DEF IInv

\* Every step preserves the invariant.
LEMMA StepIInv == IInv /\ [Next]_vars => IInv'
<1> SUFFICES ASSUME IInv, [Next]_vars PROVE IInv'
  OBVIOUS
<1>1. TypeOK'
  BY TypeStep DEF IInv
<1>2. Guarded'
  <2>1. CASE \/ ChangeStatus \/ Ask \/ Admit \/ Refuse \/ Silence \/ Lose \/ UNCHANGED vars
    <3>1. UNCHANGED <<row, desired, resync, cursor, served>>
      BY <2>1 DEF ChangeStatus, Ask, Admit, Refuse, Silence, Lose, vars, database, agent
    <3>2. CASE Admit
      <4>1. req \in [pc : {"none", "asked", "admitted"}, full : BOOLEAN, gate : Gates]
        BY <3>2 DEF IInv, TypeOK, Request, Admit
      <4>2. req'.pc = "admitted"
        BY <3>2, <4>1 DEF Admit
      <4> QED
        BY <3>1, <4>2, QuietStep
    <3>3. CASE ~Admit
      <4>1. req' = req \/ req'.pc \notin {"read", "answered"}
        BY <2>1, <3>3 DEF ChangeStatus, Ask, Refuse, Silence, Lose, vars, NoRequest
      <4> QED
        BY <3>1, <4>1, QuietStep
    <3> QED
      BY <3>2, <3>3
  <2> QED
    BY <2>1, PublishStep, SpoilStep, ReadStep, RespondStep, ApplyStep DEF Next, Serve
<1> QED
  BY <1>1, <1>2 DEF IInv, Guarded

---------------------------------------------------------------------------
(* Theorems.                                                               *)

\* The inductive invariant of the stream holds always.
THEOREM Invariance == Spec => []IInv
BY InitIInv, StepIInv, PTL DEF Spec

\* Rows, requests and the agent's state keep their types; no number exceeds the
\* publications of the node.
THEOREM TypeCorrect == Spec => []TypeOK
<1>1. IInv => TypeOK
  BY DEF IInv
<1> QED
  BY <1>1, Invariance, PTL

\* However the status moves and whichever answers are lost, an agent admits nobody whose
\* row at or below its cursor gives no access.
THEOREM NoRevocationSkipped == Spec => []RevocationsApplied
<1>1. IInv => RevocationsApplied
  BY DEF IInv
<1> QED
  BY <1>1, Invariance, PTL

\* A usable grant at or below the cursor is applied, or resync_required is set for it.
THEOREM GrantsOwed == Spec => []HiddenGrantsAreOwed
<1>1. IInv => HiddenGrantsAreOwed
  BY DEF IInv
<1> QED
  BY <1>1, Invariance, PTL

\* An agent's cursor never moves back and never leads the sequence of its node, so no
\* agent that follows the contract is told cursor_ahead.
THEOREM CursorMonotone == Spec => CursorFollows
<1>1. IInv /\ IInv' /\ [Next]_vars => [cursor <= cursor' /\ cursor' <= desired']_vars
  <2> SUFFICES ASSUME IInv, IInv', Next
               PROVE  cursor <= cursor' /\ cursor' <= desired'
    OBVIOUS
  <2>1. cursor' <= desired'
    BY DEF IInv, Numbered
  <2>2. CASE Apply
    BY <2>1, <2>2 DEF Apply, IInv, AnswerHolds
  <2>3. CASE ~Apply
    <3>1. cursor' = cursor /\ cursor \in Int
      BY <2>3 DEF Next, Serve, Publish, Spoil, ChangeStatus, Ask, Admit, Refuse, ReadRows,
                  Silence, Respond, Lose, agent, IInv, TypeOK
    <3> QED
      BY <2>1, <3>1
  <2> QED
    BY <2>2, <2>3
<1> QED
  BY <1>1, Invariance, PTL DEF Spec, CursorFollows

\* The cursor is at the number of the node and no snapshot is owed.
CaughtUp == cursor = desired /\ ~resync

AdmitsTheRows == \A u \in Users : /\ u \in served => row[u].state = "active"
                                  /\ Granted(row[u]) => u \in served

\* What the rest of the system may rely on once an agent has caught up: it admits only users
\* whose rows are active, and all of them whose keys are usable.
THEOREM CaughtUpAdmits == Spec => [](CaughtUp => AdmitsTheRows)
<1>1. IInv => (CaughtUp => AdmitsTheRows)
  BY DEF IInv, Numbered, RevocationsApplied, HiddenGrantsAreOwed, CaughtUp, AdmitsTheRows
<1> QED
  BY <1>1, Invariance, PTL

---------------------------------------------------------------------------
(* The rows of the node are the log of UsersStream.                        *)

\* The projections of the rows to the log.
LEMMA LogOfRows ==
    ASSUME TypeOK
    PROVE  /\ Log \in [{ThisNode} -> [Users -> [state : RowState, seq : Nat]]]
           /\ \A u \in Users : /\ Log[ThisNode][u].state = row[u].state
                               /\ Log[ThisNode][u].seq = row[u].seq
           /\ Count \in [{ThisNode} -> Nat] /\ Count[ThisNode] = desired
BY MaxSeqAssumption DEF Log, Count, TypeOK, Row

\* A publication is a write of the log.
LEMMA PublishWrites ==
    ASSUME TypeOK, NEW u \in Users, Publish(u)
    PROVE  \E s \in Stream!Written : Stream!Write(ThisNode, u, s)
<1>1. PICK s \in Stream!Over(row[u].state) :
         row' = [row EXCEPT ![u] = [state |-> s, seq |-> desired + 1, usable |-> TRUE]]
  BY DEF Publish, Stream!Over, Stream!Away, Stream!Written
<1>2. s \in Stream!Written
  BY DEF Stream!Over, Stream!Written, Stream!Away
<1>3. Log' = [Log EXCEPT ![ThisNode][u] = [state |-> s, seq |-> Count[ThisNode] + 1]]
  BY <1>1, LogOfRows DEF Log, TypeOK
<1>4. Count' = [Count EXCEPT ![ThisNode] = @ + 1]
  BY DEF Publish, Count
<1> QED
  BY <1>1, <1>2, <1>3, <1>4, LogOfRows DEF Stream!Write

\* Damage to credentials does not show in the log, and nothing else writes rows.
LEMMA RestKeepsLog ==
    ASSUME TypeOK, [Next]_vars, \A u \in Users : ~Publish(u)
    PROVE  UNCHANGED <<Log, Count>>
<1>1. desired' = desired
  BY DEF Next, Serve, Spoil, ChangeStatus, Ask, Admit, Refuse, ReadRows, Silence, Respond, Apply,
         Lose, vars, database
<1>2. \A u \in Users : row'[u].state = row[u].state /\ row'[u].seq = row[u].seq
  <2>1. CASE \E v \in Users : Spoil(v)
    BY <2>1 DEF Spoil, TypeOK, Row
  <2>2. CASE ~\E v \in Users : Spoil(v)
    BY <2>2 DEF Next, Serve, ChangeStatus, Ask, Admit, Refuse, ReadRows, Silence, Respond, Apply,
                Lose, vars, database
  <2> QED
    BY <2>1, <2>2
<1> QED
  BY <1>1, <1>2 DEF Log, Count

\* An agent reads a log that is written as UsersStream says, which is what Publication
\* implements (WritersKeepStreams): no publication is assumed that the jobs do not make.
THEOREM ReadersAssumeStreams == Spec => ReadsStream
<1>1. Init => Stream!StreamInit
  <2> SUFFICES ASSUME Init PROVE Stream!StreamInit
    OBVIOUS
  <2>1. TypeOK /\ Numbered
    BY InitIInv DEF IInv
  <2> QED
    BY <2>1, LogOfRows DEF Numbered, RowState, Stream!StreamInit, Stream!Away, Stream!Written
<1>2. IInv /\ [Next]_vars => [Stream!StreamNext]_(Stream!streamVars)
  <2> SUFFICES ASSUME IInv, [Next]_vars
               PROVE  Stream!StreamNext \/ UNCHANGED <<Log, Count>>
    BY DEF Stream!streamVars
  <2>1. CASE \E u \in Users : Publish(u)
    BY <2>1, PublishWrites DEF IInv, Stream!StreamNext
  <2>2. CASE ~\E u \in Users : Publish(u)
    BY <2>2, RestKeepsLog DEF IInv
  <2> QED
    BY <2>1, <2>2
<1> QED
  BY <1>1, <1>2, Invariance, PTL DEF Spec, ReadsStream, Stream!StreamSpec

\* And none is left out: every write of the log below the bound, which gives its pair
\* usable keys and leaves the other rows, the node and the agent alone, is a publication.
THEOREM StreamsArePublished ==
    ASSUME TypeOK, NEW u \in Users, NEW s, Stream!Write(ThisNode, u, s),
           desired < MaxSeq, row' \in [Users -> Row], row'[u].usable,
           \A v \in Users \ {u} : row'[v].usable = row[v].usable,
           UNCHANGED <<status, resync, req, agent>>
    PROVE  Publish(u)
<1>1. /\ s \in Stream!Over(row[u].state)
      /\ Log' = [Log EXCEPT ![ThisNode][u] = [state |-> s, seq |-> desired + 1]]
      /\ Count' = [Count EXCEPT ![ThisNode] = desired + 1]
  BY LogOfRows DEF Stream!Write
<1>2. desired' = desired + 1
  BY <1>1, LogOfRows DEF Count
<1>3. \A v \in Users : /\ row'[v].state = Log'[ThisNode][v].state
                       /\ row'[v].seq = Log'[ThisNode][v].seq
  BY DEF Log
<1>4. /\ row'[u].state = s /\ row'[u].seq = desired + 1
      /\ \A v \in Users \ {u} : /\ row'[v].state = row[v].state
                                /\ row'[v].seq = row[v].seq
  BY <1>1, <1>3, LogOfRows
<1>5. row' = [row EXCEPT ![u] = [state |-> s, seq |-> desired + 1, usable |-> TRUE]]
  <2>1. row'[u] = [state |-> s, seq |-> desired + 1, usable |-> TRUE]
    BY <1>4 DEF Row
  <2>2. \A v \in Users \ {u} : row'[v] = row[v]
    BY <1>4 DEF TypeOK, Row
  <2> QED
    BY <2>1, <2>2 DEF TypeOK
<1>6. s \in IF row[u].state \in {"absent", "removed"} THEN {"active", "suspended"}
            ELSE {"active", "suspended", "removed"}
  BY <1>1 DEF Stream!Over, Stream!Away, Stream!Written
<1> QED
  BY <1>2, <1>5, <1>6 DEF Publish
=============================================================================
