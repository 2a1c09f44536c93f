------------------------------- MODULE Reports -------------------------------
(***************************************************************************)
(* Acceptance of the traffic reports of one node (_Acceptance in           *)
(* app/accounting/service.py, tables traffic_reports and report_intervals  *)
(* of migration 140).                                                      *)
(*                                                                         *)
(* A node sends its traffic by intervals, an interval in parts; reports    *)
(* are lost, repeated, reordered, late, and not to be trusted.  Each is    *)
(* taken in one transaction under the row lock of the node, if the         *)
(* identity that sent it is still good for it.  Time is in ticks of the    *)
(* control plane's clock; a volume is a pair <<uplink, downlink>>.         *)
(***************************************************************************)
EXTENDS Integers, FiniteSets, FiniteSetsExt

CONSTANTS
    Epochs,         \* counter epochs
    Seqs,           \* report_seq, a bound on the reports of an epoch
    Lengths,        \* lengths of the periods reported
    MaxParts,       \* REPORT_MAX_PARTS
    Composition,    \* users with a row of the node in node_user_state
    Bodies,         \* what a report may declare: a volume of each user it names
    Rate,           \* bandwidth, in bytes per tick
    Tolerance,      \* TIME_TOLERANCE
    PartsDeadline,  \* REPORT_PARTS_DEADLINE
    MaxAge,         \* REPORT_MAX_INTERVAL_AGE
    BufferDepth,    \* REPORT_BUFFER_DEPTH
    MaxOpen,        \* REPORT_MAX_OPEN_INTERVALS
    EpochWindow,    \* REPORT_EPOCH_WINDOW
    MaxEpochs,      \* REPORT_MAX_EPOCHS_PER_DAY
    IssuedAt,       \* node_identities.issued_at
    FirstAssignment, \* the node's first assignment to a billing group, or Never
    MaxTime         \* bound on the clock

Never == -1     \* closed_at is null, the node has no assignment

ASSUME ReportsAssumption ==
    /\ {Rate, Tolerance, PartsDeadline, MaxAge, BufferDepth, EpochWindow, MaxEpochs,
        IssuedAt, MaxTime} \subseteq Nat
    /\ MaxParts \in Nat \ {0} /\ MaxOpen \in Nat \ {0}
    /\ Seqs \subseteq Nat \ {0}
    /\ Lengths \subseteq Nat \ {0}
    /\ FirstAssignment \in Nat \union {Never}
    /\ \A b \in Bodies : \A u \in DOMAIN b : b[u] \in Nat \X Nat

\* The rows of a table.
ASSUME CompositionAssumption == IsFiniteSet(Composition)

VARIABLES
    now,        \* the clock
    trusted,    \* the identity is neither revoked nor expired, the node is served
    reports,    \* status of each traffic_reports row, by epoch and number
    intervals   \* rows of report_intervals

reportsVars == <<now, trusted, reports, intervals>>

Reasons == {"none", "completed", "superseded", "deadline", "age", "capped"}

Interval ==
    [epoch : Epochs, start : 0 .. MaxTime, end : Nat, first : Seqs, parts : 1 .. MaxParts,
     got : 1 .. MaxParts, charged : Nat \X Nat, held : BOOLEAN,
     firstAt : 0 .. MaxTime, lastAt : 0 .. MaxTime, closedAt : Nat \union {Never},
     reason : Reasons,
     declared : Nat]        \* auxiliary: bytes the accepted parts declare of the node's users

\* What the tables' CHECKs and primary keys demand; the code never runs into them.
ReportsTypeOK ==
    /\ now \in 0 .. MaxTime
    /\ trusted \in BOOLEAN
    /\ reports \in [Epochs \X Seqs -> {"none", "accepted", "held", "rejected"}]
    /\ \A i \in intervals :
          /\ i \in Interval
          /\ i.start < i.end
          /\ i.got <= i.parts
          /\ i.firstAt <= i.lastAt
          /\ (i.closedAt = Never) = (i.reason = "none")
          /\ i.reason = "capped" => i.held /\ i.charged = <<0, 0>>

ReportsInit ==
    /\ now = 0
    /\ trusted = TRUE
    /\ reports = [k \in Epochs \X Seqs |-> "none"]
    /\ intervals = {}

Report == [epoch : Epochs, seq : Seqs, start : 0 .. MaxTime, length : Lengths,
           parts : 1 .. MaxParts, lines : Bodies]

EndOf(r) == r.start + r.length
IsOpen(i) == i.closedAt = Never

---------------------------------------------------------------------------
(* Pure parts.                                                             *)

\* anomaly_threshold: what the link could have carried.
Ceiling(length) == Rate * length

\* charge: the whole volume, or what is left of the ceiling, split in proportion
\* and rounded so that the parts add up.
\* Variant: every part has the whole ceiling to itself.
ChargeAlone(ceiling, accepted, volume) ==
    LET total == volume[1] + volume[2]
        uplink == (ceiling * volume[1]) \div total
    IN  IF total <= ceiling THEN [volume |-> volume, held |-> FALSE]
        ELSE [volume |-> <<uplink, ceiling - uplink>>, held |-> TRUE]

Charge(ceiling, accepted, volume) ==
    LET room == Max({0, ceiling - accepted[1] - accepted[2]})
        total == volume[1] + volume[2]
        uplink == IF total = 0 THEN 0 ELSE (room * volume[1]) \div total
    IN  IF total <= room THEN [volume |-> volume, held |-> FALSE]
        ELSE [volume |-> <<uplink, room - uplink>>, held |-> TRUE]

Plus(v, w) == <<v[1] + w[1], v[2] + w[2]>>

\* closing: when an unfinished interval closes by itself, and why.
Closing(i) ==
    LET deadline == i.lastAt + PartsDeadline
        age == i.firstAt + MaxAge
    IN  IF age <= deadline THEN [at |-> age, reason |-> "age"]
        ELSE [at |-> deadline, reason |-> "deadline"]

---------------------------------------------------------------------------
(* Steps of an acceptance.                                                 *)

\* _lock: under the row lock the identity and the gate are looked at again.
Locked == trusted

\* _members: lines of users who are not the node's are dropped.
Members(r) == Composition \intersect DOMAIN r.lines

Volume(r) == <<MapThenSumSet(LAMBDA u : r.lines[u][1], Members(r)),
               MapThenSumSet(LAMBDA u : r.lines[u][2], Members(r))>>

DeclaredBytes(r) == MapThenSumSet(LAMBDA u : r.lines[u][1] + r.lines[u][2],
                             Composition \intersect DOMAIN r.lines)

\* _close_expired
\* Variant: intervals closed before are closed again.
DueAgain(i) == Closing(i).at <= now

DueToClose(i) == IsOpen(i) /\ Closing(i).at <= now
Expired ==
    {IF DueToClose(i) THEN [i EXCEPT !.closedAt = Closing(i).at, !.reason = Closing(i).reason]
     ELSE i :
        i \in intervals}

\* _SUPERSEDE: a part that is not held ends the intervals before its own.
Superseded(table, start) ==
    {IF IsOpen(i) /\ i.end <= start THEN [i EXCEPT !.closedAt = now, !.reason = "superseded"]
                                   ELSE i : i \in table}

\* _LAST_INTERVAL
Last(table) == CHOOSE i \in table : \A j \in table : j.end <= i.end

\* _EPOCH_CHANGES: changes of epoch between neighbours, among the intervals first
\* seen within the window.
Before(i, j) == i.start < j.start /\ \A k \in intervals : k.start <= i.start \/ j.start <= k.start
EpochChanges ==
    Cardinality({j \in intervals : /\ j.firstAt > now - EpochWindow
                                   /\ \E i \in intervals : Before(i, j) /\ i.epoch # j.epoch})
EpochOverCap == EpochChanges + 1 > MaxEpochs

\* _anchor: before the first interval, nothing older than the identity or the
\* node's buffer, nor than its first assignment to a billing group.
Anchor == Max({IssuedAt - Tolerance, now - BufferDepth - Tolerance, FirstAssignment})

Record(r, verdict) == reports' = [reports EXCEPT ![<<r.epoch, r.seq>>] = verdict]
RecordedAs(held) == IF held THEN "held" ELSE "accepted"

Refuse(r, table) == Record(r, "rejected") /\ intervals' = table

\* The report names an interval: the row of its key.
Same(i, r) == i.epoch = r.epoch /\ i.start = r.start /\ i.end = EndOf(r)

---------------------------------------------------------------------------
(* accept_report.  A number already recorded is a replay and writes        *)
(* nothing; so does a report that contradicts its interval (the            *)
(* transaction is rolled back, closings by time included).                 *)

\* Variant: an accepted number is taken again.
NewUnlessRejected(r) == reports[<<r.epoch, r.seq>>] # "rejected"

New(r) == reports[<<r.epoch, r.seq>>] = "none"

\* Seen from _open: the reasons to refuse an interval that does not exist.
\* Variant: compared with the start of the last interval.
UnacceptableByStart(r, table) ==
    \/ r.start < now - (BufferDepth + MaxAge) - Tolerance
    \/ table # {} /\ r.start < Last(table).start
    \/ table = {} /\ r.start < Anchor

Unacceptable(r, table) ==
    \/ r.start < now - (BufferDepth + MaxAge) - Tolerance
    \/ table # {} /\ r.start < Last(table).end
    \/ table = {} /\ r.start < Anchor

RejectFuture(r) ==
    /\ New(r)
    /\ EndOf(r) > now + Tolerance
    /\ Refuse(r, intervals)

RejectInterval(r) ==
    /\ New(r)
    /\ EndOf(r) <= now + Tolerance
    /\ ~\E i \in intervals : Same(i, r)
    /\ Unacceptable(r, Expired)
    /\ Refuse(r, Expired)

\* A held interval past the limit of open ones is closed at once, charged nothing.
\* Variant: one too many.
AtCapLate(table) == Cardinality({i \in table : IsOpen(i)}) > MaxOpen

AtCap(table) == Cardinality({i \in table : IsOpen(i)}) >= MaxOpen

OpeningCharge(capped, volume) == IF capped THEN <<0, 0>> ELSE volume

Open(r) ==
    LET table == Expired
        charge == Charge(Ceiling(r.length), <<0, 0>>, Volume(r))
        epochs == table # {} /\ Last(table).epoch # r.epoch /\ EpochOverCap
        held == charge.held \/ epochs
        capped == held /\ AtCap(table)
        reason == IF capped THEN "capped" ELSE IF r.parts = 1 THEN "completed" ELSE "none"
        interval == [epoch |-> r.epoch, start |-> r.start, end |-> EndOf(r), first |-> r.seq,
                     parts |-> r.parts, got |-> 1,
                     charged |-> OpeningCharge(capped, charge.volume),
                     held |-> held, firstAt |-> now, lastAt |-> now,
                     closedAt |-> IF reason = "none" THEN Never ELSE now, reason |-> reason,
                     declared |-> DeclaredBytes(r)]
    IN  /\ New(r)
        /\ EndOf(r) <= now + Tolerance
        /\ ~\E i \in intervals : Same(i, r)
        /\ ~Unacceptable(r, table)
        /\ Record(r, RecordedAs(held))
        /\ intervals' = {interval} \union (IF held THEN table ELSE Superseded(table, r.start))
    
InRange(i, r) == i.first <= r.seq /\ r.seq <= i.first + r.parts - 1

RejectPart(r) ==
    /\ New(r)
    /\ EndOf(r) <= now + Tolerance
    /\ \E i \in Expired :
          /\ Same(i, r)
          /\ ~IsOpen(i) \/ (r.parts >= i.parts /\ ~InRange(i, r))
    /\ Refuse(r, Expired)

Continue(r) ==
    /\ New(r)
    /\ EndOf(r) <= now + Tolerance
    /\ \E i \in Expired :
          LET charge == Charge(Ceiling(r.length), i.charged, Volume(r))
              complete == i.got + 1 = r.parts
              others == Expired \ {i}
              interval == [i EXCEPT !.parts = r.parts, !.got = @ + 1,
                                    !.charged = Plus(@, charge.volume),
                                    !.held = @ \/ charge.held,
                                    !.lastAt = Max({@, now}),
                                    !.closedAt = IF complete THEN now ELSE @,
                                    !.reason = IF complete THEN "completed" ELSE @,
                                    !.declared = @ + DeclaredBytes(r)]
          IN  /\ Same(i, r)
              /\ IsOpen(i)
              /\ r.parts >= i.parts
              /\ InRange(i, r)
              /\ Record(r, RecordedAs(charge.held))
              /\ intervals' = {interval} \union (IF charge.held THEN others
                                                 ELSE Superseded(others, r.start))

\* A report whose identity is no longer good writes nothing.
Accept(r) ==
    /\ Locked
    /\ RejectFuture(r) \/ RejectInterval(r) \/ Open(r) \/ RejectPart(r) \/ Continue(r)
    /\ UNCHANGED <<now, trusted>>

\* revoke_identity, enroll, the expiry of the identity: see Enrollment.
Withdraw == trusted /\ trusted' = FALSE /\ UNCHANGED <<now, reports, intervals>>

Tick == now < MaxTime /\ now' = now + 1 /\ UNCHANGED <<trusted, reports, intervals>>

ReportsNext == Tick \/ Withdraw \/ \E r \in Report : Accept(r)

ReportsSpec == ReportsInit /\ [][ReportsNext]_reportsVars

---------------------------------------------------------------------------
(* Properties.                                                             *)

\* The intervals of a node never overlap: the check against the last interval is
\* enough, and the EXCLUDE constraint of the table is never met, whatever the
\* order, the epochs and the delays of the reports.
IntervalsDisjoint ==
    \A i, j \in intervals : i = j \/ i.end <= j.start \/ j.end <= i.start

\* An interval is charged what its parts declared of the node's own users, or,
\* once a part was held, no more than the link could have carried; holding never
\* charges more than was declared.
ChargedWithinLink ==
    \A i \in intervals :
        LET charged == i.charged[1] + i.charged[2] IN
        /\ charged <= Ceiling(i.end - i.start)
        /\ charged <= i.declared
        /\ ~i.held => charged = i.declared

\* Open intervals are bounded, although held ones do not end their predecessors.
OpenBounded == Cardinality({i \in intervals : IsOpen(i)}) <= MaxOpen

\* What is closed is settled: later parts, replays and deadlines change nothing
\* of it, and no interval is ever dropped or reopened.
ClosedIsFinal ==
    [][\A i \in intervals : ~IsOpen(i) => i \in intervals']_reportsVars

\* A part counts once: the parts of the open and complete intervals are distinct
\* recorded numbers of their range.
PartsRecorded ==
    \A i \in intervals :
        i.got <= Cardinality({s \in Seqs :
                     /\ i.first <= s /\ s <= i.first + i.parts - 1
                     /\ reports[<<i.epoch, s>>] \in {"accepted", "held"}})
=============================================================================
