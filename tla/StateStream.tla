---------------------------- MODULE StateStream ----------------------------
(***************************************************************************)
(* The users stream of one node: GET /agent/v1/state answered by           *)
(* CompositionService.state_for, through the gate of the node's status     *)
(* (app/domain/statuses.py), and an agent that applies the answers as      *)
(* contracts/agent_v1/README.md tells it to.                               *)
(*                                                                         *)
(* A request reads the status of its node when it is authenticated, the    *)
(* rows later in one repeatable-read snapshot, and writes resync_required  *)
(* after that in a transaction of its own; publications and changes of     *)
(* status come in between, and an answer may be lost.  A row that gives    *)
(* access carries the keys of the pair, which may turn out unusable.       *)
(***************************************************************************)
EXTENDS Integers, FiniteSets, FiniteSetsExt, NodeStatus

CONSTANTS
    Users,
    MaxSeq      \* bound: publications of the node

ASSUME MaxSeqAssumption == MaxSeq \in Nat

VARIABLES
    status,     \* nodes.status
    row,        \* node_user_state of the node
    desired,    \* nodes.desired_users_seq
    resync,     \* nodes.resync_required
    req,        \* the request being served
    cursor,     \* the agent's applied users_seq
    configured, \* the agent has applied the configuration
    served,     \* the users the agent admits
    wantFull    \* the agent's next request has full=1

database == <<row, desired, resync>>
agent == <<cursor, configured, served, wantFull>>
vars == <<status, database, req, agent>>

---------------------------------------------------------------------------
RowState == {"absent", "active", "suspended", "removed"}
Revoking == {"suspended", "removed"}

\* A row, and whether the stored credentials of its pair can be opened.
Row == [state : RowState, seq : 0 .. MaxSeq, usable : BOOLEAN]
NoRow == [state |-> "absent", seq |-> 0, usable |-> TRUE]

NoRequest == [pc |-> "none", full |-> FALSE, gate |-> "none"]

\* What one snapshot of the database yields: rows and columns of the node.
Read == [rows : [Users -> Row], current : 0 .. MaxSeq, resync : BOOLEAN]

Answer == [rows : [Users -> RowState],     \* absent: no row of the user
           seq : 0 .. MaxSeq,
           full : BOOLEAN,
           resync : BOOLEAN]

Request ==
    [pc : {"none", "asked", "admitted"}, full : BOOLEAN, gate : Gates]
    \union [pc : {"read"}, full : BOOLEAN, gate : Gates \ {"refused"}, got : Read]
    \union [pc : {"answered"}, full : BOOLEAN, gate : Gates \ {"refused"},
            answer : Answer]

TypeOK ==
    /\ status \in Status
    /\ row \in [Users -> Row]
    /\ desired \in 0 .. MaxSeq
    /\ resync \in BOOLEAN
    /\ req \in Request
    /\ cursor \in 0 .. MaxSeq
    /\ configured \in BOOLEAN
    /\ served \subseteq Users
    /\ wantFull \in BOOLEAN

Init ==
    /\ status = "pending"
    /\ row = [u \in Users |-> NoRow]
    /\ desired = 0
    /\ resync = FALSE
    /\ req = NoRequest
    /\ cursor = 0
    /\ configured = FALSE
    /\ served = {}
    /\ wantFull = FALSE

---------------------------------------------------------------------------
(* The control plane around the stream.                                    *)

\* A pair is published: see Publication.  Rows of a node change one at a time,
\* in the order of their numbers; credentials that cannot be opened are replaced.
Publish(u) ==
    /\ desired < MaxSeq
    /\ desired' = desired + 1
    /\ \E s \in IF row[u].state \in {"absent", "removed"} THEN {"active", "suspended"}
                ELSE {"active", "suspended", "removed"} :
          row' = [row EXCEPT ![u] = [state |-> s, seq |-> desired + 1, usable |-> TRUE]]
    /\ UNCHANGED <<status, resync, req, agent>>

\* The stored credentials of a pair are damaged or another's are put in their
\* place.  Those of a row that gives no access are not opened before a publication.
Spoil(u) ==
    /\ row[u].state = "active"
    /\ row[u].usable
    /\ row' = [row EXCEPT ![u].usable = FALSE]
    /\ UNCHANGED <<status, desired, resync, req, agent>>

ChangeStatus ==
    /\ status' \in Transitions(status) \union {OnRevocation, OnReenrollment}
    /\ UNCHANGED <<database, req, agent>>

---------------------------------------------------------------------------
(* A request.                                                              *)

\* The agent asks; it has one request open at a time.
Ask ==
    /\ req.pc = "none"
    /\ req' = [pc |-> "asked", full |-> wantFull, gate |-> "none"]
    /\ UNCHANGED <<status, database, agent>>

\* current_node reads the node's row, its status with it.
Admit ==
    /\ req.pc = "asked"
    /\ req' = [req EXCEPT !.pc = "admitted", !.gate = Gate(status)]
    /\ UNCHANGED <<status, database, agent>>

\* node_not_approved
Refuse ==
    /\ req.pc = "admitted"
    /\ req.gate = "refused"
    /\ req' = NoRequest
    /\ UNCHANGED <<status, database, agent>>

\* _read: a snapshot without the removed rows, or a delta, or no rows.
Selected(full, gate, after) ==
    [u \in Users |->
        IF \/ gate = "none"
           \/ full /\ gate = "all" /\ row[u].state = "removed"
           \/ row[u].seq <= after
        THEN NoRow
        ELSE row[u]]

ReadRows ==
    /\ req.pc = "admitted"
    /\ req.gate # "refused"
    /\ req' = [pc |-> "read", full |-> req.full, gate |-> req.gate,
               got |-> [rows |-> Selected(req.full, req.gate, IF req.full THEN 0 ELSE cursor),
                        current |-> desired, resync |-> resync]]
    /\ UNCHANGED <<status, database, agent>>

\* cursor_ahead: the agent must ask for everything.
CursorAhead == ~req.full /\ cursor > req.got.current

\* Nothing to say: no configuration is due, the cursor is current, and no
\* resynchronisation is owed that this status could perform.
\* Variant: a resynchronisation owed is no reason to answer.
NothingNewOwed ==
    /\ configured /\ ~req.full
    /\ req.gate = "none" \/ cursor >= req.got.current

NothingNew ==
    /\ configured /\ ~req.full
    /\ req.gate = "none" \/ cursor >= req.got.current
    /\ ~(req.got.resync /\ req.gate = "all")

Silence ==
    /\ req.pc = "read"
    /\ CursorAhead \/ NothingNew
    /\ req' = NoRequest
    /\ wantFull' = (wantFull \/ CursorAhead)
    /\ UNCHANGED <<status, database, cursor, configured, served>>

Seqs(rows) == {rows[u].seq : u \in {v \in Users : rows[v].state # "absent"}}

\* Variant: the number of the last row sent, 0 if there is none.
AnswerSeqOfRows == IF Seqs(req.got.rows) = {} THEN 0 ELSE Max(Seqs(req.got.rows))

\* The number the answer moves the cursor to: counted over the rows selected,
\* not over the rows the gate lets through.
AnswerSeq ==
    CASE req.gate = "none" -> cursor
      [] req.gate # "none" /\ (req.full \/ Seqs(req.got.rows) = {}) -> req.got.current
      [] OTHER -> Max(Seqs(req.got.rows))

\* The rows the gate lets through.
\* Variant: removals are hidden with the grants.
KeptSuspensions(r) == req.gate = "revocations" => r.state = "suspended"

Kept(r) == req.gate = "revocations" => r.state \in Revoking

\* _open: the row gives access and the keys of its pair are to be had.
Granted(r) == r.state = "active" /\ r.usable

\* _row: a row that gives access and has no usable keys is sent as removed; a row
\* selected and not kept is not sent.
Shown(r) ==
    CASE ~Kept(r) -> "absent"
      [] Kept(r) /\ r.state = "active" /\ ~Granted(r) -> "removed"
      [] OTHER -> r.state

\* The gate's filter hid rows from this answer.
\* Variant: a delta counts as nothing hidden.
FilteredSnapshots == req.gate = "revocations" /\ req.full

Filtered == req.gate = "revocations"

\* _mark_resync: set, never cleared here.
MarkResync == resync' = (resync \/ Filtered)

\* The rest of state_for: the gate's filter, the mark where it hid rows, and the
\* answer.
Respond ==
    LET complete == req.full /\ req.gate = "all"
    IN  /\ req.pc = "read"
        /\ ~CursorAhead /\ ~NothingNew
        /\ MarkResync
        /\ req' = [pc |-> "answered", full |-> req.full, gate |-> req.gate,
                   answer |-> [rows |-> [u \in Users |-> Shown(req.got.rows[u])],
                               seq |-> AnswerSeq,
                               full |-> complete,
                               resync |-> (req.got.resync \/ Filtered) /\ ~complete]]
        /\ UNCHANGED <<status, row, desired, agent>>

---------------------------------------------------------------------------
(* The agent.  External: contracts/agent_v1/README.md.                     *)

\* Rows apply one by one; a full answer also removes everyone it does not name.
Applied(answer) ==
    {u \in Users : \/ answer.rows[u] = "active"
                   \/ answer.rows[u] = "absent" /\ ~answer.full /\ u \in served}

\* An agent told to resynchronise asks for everything; one that asked and was
\* given a part steps back to deltas, or asks again after a delay.
Apply ==
    /\ req.pc = "answered"
    /\ served' = Applied(req.answer)
    /\ cursor' = req.answer.seq
    /\ configured' = TRUE
    /\ wantFull' \in IF req.full /\ ~req.answer.full THEN BOOLEAN ELSE {req.answer.resync}
    /\ req' = NoRequest
    /\ UNCHANGED <<status, database>>

\* The connection breaks, or the process that serves it dies, at any point.
Lose ==
    /\ req.pc # "none"
    /\ req' = NoRequest
    /\ UNCHANGED <<status, database, agent>>

---------------------------------------------------------------------------
Serve == Admit \/ Refuse \/ ReadRows \/ Silence \/ Respond

Next ==
    \/ \E u \in Users : Publish(u) \/ Spoil(u)
    \/ ChangeStatus
    \/ Ask \/ Serve \/ Apply \/ Lose

Spec == Init /\ [][Next]_vars

\* The agent asks again and again, a request that is not broken off is served,
\* and not every answer is lost.
FairSpec ==
    /\ Spec
    /\ WF_vars(Ask) /\ WF_vars(Serve)
    /\ SF_vars(Admit) /\ SF_vars(ReadRows) /\ SF_vars(Respond) /\ SF_vars(Apply)

---------------------------------------------------------------------------
(* Properties.                                                             *)

\* The rows of this node as the stream they are written to, without their keys.
ThisNode == "node"

Log == [n \in {ThisNode} |-> [u \in Users |-> [state |-> row[u].state, seq |-> row[u].seq]]]
Count == [n \in {ThisNode} |-> desired]

Stream == INSTANCE UsersStream WITH Nodes <- {ThisNode}, row <- Log, desired <- Count

\* Nothing is assumed of publications that Publication does not do (WritesStreams there).
ReadsStream == Stream!StreamSpec

\* A revocation is never skipped: a user whose row at or below the agent's
\* cursor gives no access is not admitted, whatever part of the stream the
\* status let through and whichever answers were lost.
RevocationsApplied ==
    \A u \in Users :
        row[u].state # "active" /\ row[u].seq <= cursor => u \notin served

\* A grant the gate hid is owed: an active row at or below the cursor, its keys
\* usable, is applied, or resync_required is set and stays set.  An unusable pair
\* is no exception once a publication has given it new keys.
HiddenGrantsAreOwed ==
    \A u \in Users :
        Granted(row[u]) /\ row[u].seq <= cursor => u \in served \/ resync

\* The cursor follows the sequence: it never moves back, though answers omit
\* rows, and never leads, so no agent meets cursor_ahead by itself.
CursorFollows == [][cursor <= cursor' /\ cursor' <= desired']_vars

\* A node that stays in a status with the whole stream comes to admit only users
\* whose rows are active, and all of them whose keys are usable, however it got
\* there.
Converges ==
    <>[](Gate(status) = "all")
        => <>[](\A u \in Users :
                   /\ u \in served => row[u].state = "active"
                   /\ Granted(row[u]) => u \in served)
=============================================================================
