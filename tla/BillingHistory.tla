--------------------------- MODULE BillingHistory ---------------------------
(***************************************************************************)
(* The dated history of what traffic costs (GroupService.set_billing_group *)
(* and set_group_multiplier in app/domain/groups.py): the billing group a  *)
(* node is assigned to and the multiplier of each group, as intervals      *)
(* [valid_from, valid_to) of which the last is open.                       *)
(*                                                                         *)
(* A group may be deleted while nothing refers to it; a change that has    *)
(* looked for it may still lose it before it writes.                       *)
(*                                                                         *)
(* A change closes the open interval and opens a new one at the moment its *)
(* transaction began.  No row is locked on purpose: what keeps two changes *)
(* at once apart is the row lock of the closing update and the CHECK and   *)
(* EXCLUDE constraints of the table, as PostgreSQL's read committed        *)
(* isolation gives them: every statement has a snapshot of its own.        *)
(***************************************************************************)
EXTENDS Integers, Sequences, FiniteSetsExt, ConcurrentSessions

CONSTANTS
    Node,       \* the key of the assignments of the node
    Groups,     \* billing groups, the keys of their multipliers
    MaxRows,    \* bound: intervals of all histories
    MaxTime     \* bound: the clock of the database

ASSUME KeysAssumption == Node \notin Groups
ASSUME BoundsAssumption == MaxRows \in Nat /\ MaxTime \in Nat \ {0}

VARIABLES
    groups,   \* billing_groups: not created yet, there, or deleted; ids are not reused
    now,      \* the clock of the database, which may be set back
    history,  \* node_billing_assignments, billing_group_multipliers: committed rows
    holder,   \* the transaction that is closing the open interval of a history
    node,     \* nodes.billing_group_id and multiplier_milli: committed values
    tx        \* the open transaction of each session

billingVars == <<groups, now, history, holder, node, tx>>

Keys == Groups \union {Node}
Times == 0 .. MaxTime
Open == MaxTime + 1    \* valid_to is null

\* own: the node has a multiplier of its own.  What a multiplier is makes no
\* difference here, only that it changes: a group's row just names the group.
Assignment == [group : Groups, own : BOOLEAN]
ValuesOf(k) == IF k = Node THEN Assignment ELSE {[group |-> k, own |-> FALSE]}

Row == [from : Times, to : 0 .. Open, value : Assignment]

NoTx == [step |-> "none"]
NoRow == 0

\* The node was put into service at the moment of its first assignment.
BillingInit ==
    /\ now \in {0, 1}
    /\ \E g \in Groups :
           /\ groups = [h \in Groups |-> IF h = g THEN "there" ELSE "none"]
           /\ node = [group |-> g, own |-> FALSE]
           /\ history = [k \in Keys |->
                  IF k = Node THEN <<[from |-> now, to |-> Open, value |-> node]>> ELSE <<>>]
    /\ holder = [k \in Keys |-> Free]
    /\ tx = [s \in Sessions |-> NoTx]

-----------------------------------------------------------------------------
IsOpen(k, i) == history[k][i].to = Open

OpenRow(k) ==
    IF \E i \in DOMAIN history[k] : IsOpen(k, i)
    THEN CHOOSE i \in DOMAIN history[k] : IsOpen(k, i)
    ELSE NoRow

\* The change read an open interval that starts at its own moment or later.
Refused(k, at) == OpenRow(k) # NoRow /\ history[k][OpenRow(k)].from >= at

\* The rows [at, infinity) would overlap, the one the transaction closed aside.
Overlaps(s) ==
    LET k == tx[s].key IN
    \E i \in DOMAIN history[k] :
        /\ ~(tx[s].closes /\ i = tx[s].row)
        /\ history[k][i].to > tx[s].at

\* Variant: the table has no EXCLUDE constraint.
OverlapsNever(s) == FALSE

Excluded(s) == Overlaps(s)

\* The condition of the closing update, evaluated again after the wait.
StillOpen(s) == IsOpen(tx[s].key, tx[s].row)

\* Variant: an interval may end where it begins.
EmptiesPast(s) == history[tx[s].key][tx[s].row].from > tx[s].at

\* The row the update would close does not begin before the change.
Empties(s) == history[tx[s].key][tx[s].row].from >= tx[s].at

\* The table's CHECK (valid_to > valid_from) is violated by the closing update.
CheckViolated(s) == StillOpen(s) /\ Empties(s)

\* Another transaction has inserted into the same history and not ended yet.
Pending(s) ==
    \E u \in Sessions \ {s} :
        tx[u].step = "inserted" /\ tx[u].key = tx[s].key

\* The group the new interval refers to, and whether its row is still there.
GroupThere(s) == groups[tx[s].value.group] = "there"

\* A row of a history refers to the group, also one that has not been committed:
\* the foreign keys have no cascade.
Referred(g) ==
    \/ history[g] # <<>>
    \/ \E i \in DOMAIN history[Node] : history[Node][i].value.group = g
    \/ \E s \in Sessions : tx[s].step = "inserted" /\ tx[s].value.group = g

-----------------------------------------------------------------------------
CreateBilling(g) ==
    /\ groups[g] = "none"
    /\ groups' = [groups EXCEPT ![g] = "there"]
    /\ UNCHANGED <<now, history, holder, node, tx>>

\* With a row that refers to it, the delete is refused: 409.
DeleteBilling(g) ==
    /\ groups[g] = "there"
    /\ ~Referred(g)
    /\ groups' = [groups EXCEPT ![g] = "gone"]
    /\ UNCHANGED <<now, history, holder, node, tx>>

\* The moment of the change, and the check for its group: without it the
\* transaction ends with 404 and nothing has happened.
Begin(s) ==
    /\ tx[s] = NoTx
    /\ \E k \in Keys : \E v \in ValuesOf(k) :
           /\ groups[v.group] = "there"
           /\ tx' = [tx EXCEPT ![s] = [step |-> "begun", key |-> k, at |-> now, value |-> v,
                                       seen |-> NoRow, row |-> NoRow, closes |-> FALSE,
                                       hour |-> FALSE]]
    /\ UNCHANGED <<groups, now, history, holder, node>>

\* The check for an interval ahead: what it saw open is recorded for the property.
Look(s) ==
    /\ tx[s].step = "begun"
    /\ ~Refused(tx[s].key, tx[s].at)
    /\ tx' = [tx EXCEPT ![s].step = "looked", ![s].seen = OpenRow(tx[s].key)]
    /\ UNCHANGED <<groups, now, history, holder, node>>

LookRefused(s) ==
    /\ tx[s].step = "begun"
    /\ Refused(tx[s].key, tx[s].at)
    /\ tx' = [tx EXCEPT ![s] = NoTx]
    /\ UNCHANGED <<groups, now, history, holder, node>>

\* The closing update starts, with a snapshot of its own: what others committed
\* since the check is in it.
CloseBegins(s) ==
    /\ tx[s].step = "looked"
    /\ tx' = [tx EXCEPT ![s].step = "closing", ![s].row = OpenRow(tx[s].key)]
    /\ UNCHANGED <<groups, now, history, holder, node>>

\* The update found no open interval: it closes nothing and locks nothing.
CloseNothing(s) ==
    /\ tx[s].step = "closing"
    /\ tx[s].row = NoRow
    /\ tx' = [tx EXCEPT ![s].step = "closed"]
    /\ UNCHANGED <<groups, now, history, holder, node>>

\* It waited for the row: still open, it is locked; closed by the transaction
\* waited for, it no longer answers the condition and nothing is updated.
Close(s) ==
    LET k == tx[s].key IN
    /\ tx[s].step = "closing"
    /\ tx[s].row # NoRow
    /\ holder[k] = Free
    /\ ~CheckViolated(s)
    /\ holder' = IF StillOpen(s) THEN [holder EXCEPT ![k] = s] ELSE holder
    /\ tx' = [tx EXCEPT ![s].step = "closed", ![s].closes = StillOpen(s)]
    /\ UNCHANGED <<groups, now, history, node>>

Released(s) == [k \in Keys |-> IF holder[k] = s THEN Free ELSE holder[k]]

\* The row it saw, committed after the check, does not begin before the change:
\* the table's CHECK refuses the update, 409.
CloseRefused(s) ==
    /\ tx[s].step = "closing"
    /\ tx[s].row # NoRow
    /\ holder[tx[s].key] = Free
    /\ CheckViolated(s)
    /\ tx' = [tx EXCEPT ![s] = NoTx]
    /\ UNCHANGED <<groups, now, history, holder, node>>

\* The insert waits for another insert of the same history to end; a group's
\* change then reads which nodes take their multiplier from it.
Insert(s) ==
    LET k == tx[s].key IN
    /\ tx[s].step = "closed"
    /\ ~Pending(s)
    /\ GroupThere(s) /\ ~Excluded(s)
    /\ tx' = [tx EXCEPT
           ![s].step = "inserted",
           ![s].hour = IF k = Node THEN TRUE ELSE node.group = k /\ ~node.own]
    /\ UNCHANGED <<groups, now, history, holder, node>>

\* 409 when the interval overlaps another; when the group was deleted after the
\* look, the foreign key refuses the row.
InsertRefused(s) ==
    /\ tx[s].step = "closed"
    /\ ~Pending(s)
    /\ ~GroupThere(s) \/ Excluded(s)
    /\ holder' = Released(s)
    /\ tx' = [tx EXCEPT ![s] = NoTx]
    /\ UNCHANGED <<groups, now, history, node>>

\* Variant: the open interval is given the new value from its beginning.
RowsAfterInPlace(s) ==
    LET rows == history[tx[s].key] IN
    IF tx[s].closes THEN [rows EXCEPT ![tx[s].row].value = tx[s].value]
    ELSE Append(rows, [from |-> tx[s].at, to |-> Open, value |-> tx[s].value])

RowsAfter(s) ==
    LET rows == history[tx[s].key]
        kept == IF tx[s].closes THEN [rows EXCEPT ![tx[s].row].to = tx[s].at] ELSE rows
    IN Append(kept, [from |-> tx[s].at, to |-> Open, value |-> tx[s].value])

NodeAfter(s) == IF tx[s].key = Node THEN tx[s].value ELSE node

Commit(s) ==
    LET k == tx[s].key IN
    /\ tx[s].step = "inserted"
    /\ MapThenSumSet(LAMBDA key : Len(history[key]), Keys) < MaxRows
    /\ history' = [history EXCEPT ![k] = RowsAfter(s)]
    /\ node' = NodeAfter(s)
    /\ holder' = Released(s)
    /\ tx' = [tx EXCEPT ![s] = NoTx]
    /\ UNCHANGED <<groups, now>>

\* The connection is lost, or PostgreSQL breaks a deadlock of two inserts.
Abort(s) ==
    /\ tx[s] # NoTx
    /\ holder' = Released(s)
    /\ tx' = [tx EXCEPT ![s] = NoTx]
    /\ UNCHANGED <<groups, now, history, node>>

Tick ==
    /\ now < MaxTime
    /\ now' = now + 1
    /\ UNCHANGED <<groups, history, holder, node, tx>>

SetBack ==
    /\ now > 0
    /\ now' = now - 1
    /\ UNCHANGED <<groups, history, holder, node, tx>>

Change(s) ==
    \/ Begin(s) \/ Look(s) \/ LookRefused(s)
    \/ CloseBegins(s) \/ CloseNothing(s) \/ Close(s) \/ CloseRefused(s)
    \/ Insert(s) \/ InsertRefused(s) \/ Commit(s) \/ Abort(s)

BillingNext ==
    \/ \E s \in Sessions : Change(s)
    \/ \E g \in Groups : CreateBilling(g) \/ DeleteBilling(g)
    \/ Tick \/ SetBack

BillingSpec == BillingInit /\ [][BillingNext]_billingVars

-----------------------------------------------------------------------------
(* resolve (app/domain/multiplier.py): what the traffic of a moment is      *)
(* charged by.  Which multiplier it is, is told by the moment it was set.   *)

Covering(k, at) ==
    {i \in DOMAIN history[k] : history[k][i].from <= at /\ at < history[k][i].to}

By(source, group, since) == [source |-> source, group |-> group, since |-> since]

\* The override of the assignment of that moment, or the multiplier its group had
\* then, or 1.0; before the first assignment 1.0 and the first group.
Resolved(at) ==
    IF Covering(Node, at) = {}
    THEN By("default", history[Node][1].value.group, 0)
    ELSE LET assignment == history[Node][CHOOSE i \in Covering(Node, at) : TRUE]
             group == assignment.value.group
         IN IF assignment.value.own
            THEN By("node", group, assignment.from)
            ELSE IF Covering(group, at) # {}
                 THEN By("group", group,
                         history[group][CHOOSE i \in Covering(group, at) : TRUE].from)
                 ELSE By("default", group, 0)

\* Otherwise the history has a gap: NoBillingAssignmentError.
Resolvable(at) == Covering(Node, at) # {} \/ at < history[Node][1].from

-----------------------------------------------------------------------------
\* Every variable has its shape; the holder of a history's open interval is a
\* transaction that closes it, and it closes the one that is still open.
BillingTypeOK ==
    /\ groups \in [Groups -> {"none", "there", "gone"}]
    /\ now \in Times
    /\ \A k \in Keys : \A i \in DOMAIN history[k] : history[k][i] \in Row
    /\ holder \in [Keys -> Sessions \union {Free}]
    /\ node \in Assignment
    /\ \A s \in Sessions : tx[s].step \in
               {"none", "begun", "looked", "closing", "closed", "inserted"}
    /\ \A s \in Sessions : tx[s] # NoTx /\ tx[s].closes =>
           holder[tx[s].key] = s /\ IsOpen(tx[s].key, tx[s].row)

\* A history has neither gaps nor overlaps: each interval ends where the next
\* one begins, none is empty, and the last and no other is open
\* (set_group_multiplier; the resolution of multiplier.py relies on it).
HistoryTiles ==
    \A k \in Keys :
        /\ \A i \in DOMAIN history[k] : history[k][i].from < history[k][i].to
        /\ \A i \in 1 .. Len(history[k]) - 1 : history[k][i].to = history[k][i + 1].from
        /\ history[k] # <<>> => IsOpen(k, Len(history[k]))

\* No charge changes in retrospect (R-23): what a moment is charged by is the same
\* before and after a change of an assignment, of any group's multiplier or of the
\* groups themselves, unless the change began at that moment or earlier; it can always
\* be told, and the group it is charged to is there.
ResolvedForGood ==
    [][<<groups, history>>' # <<groups, history>> =>
           \A at \in Times :
               (\A s \in Sessions : tx[s].step = "inserted" => at < tx[s].at)
                   => /\ Resolvable(at)'
                      /\ Resolved(at)' = Resolved(at)
                      /\ groups'[Resolved(at).group] = "there"]_billingVars

\* A change follows the interval it closed: it commits only when the row its closing
\* update saw is still the last one, closed by it, or when there is none.  A change that
\* waited for another one is refused, and the previous value a change answers and
\* writes to the journal is that of the interval directly before its own.
FollowsWhatItClosed ==
    [][\A s \in Sessions : \A k \in Keys :
           tx[s].step = "inserted" /\ tx[s].key = k /\ history'[k] # history[k]
               /\ tx'[s] = NoTx
               => tx[s].row = Len(history[k]) /\ tx[s].closes = (history[k] # <<>>)]_billingVars

\* Of two changes at once that both passed the read, only one can write and the other
\* is refused (the docstring of set_billing_group): a change commits only next to the
\* interval it saw open when it looked, never over a change it did not see.
OneOfTwoIsRefused ==
    [][\A s \in Sessions : \A k \in Keys :
           tx[s].step = "inserted" /\ tx[s].key = k /\ history'[k] # history[k]
               /\ tx'[s] = NoTx
               => tx[s].seen = Len(history[k])]_billingVars
=============================================================================
