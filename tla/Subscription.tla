---------------------------- MODULE Subscription ----------------------------
(***************************************************************************)
(* The subscription of one user (SubscriptionService in                    *)
(* app/domain/subscriptions.py) under concurrent transactions.             *)
(*                                                                         *)
(* An operation that reads before it writes begins with one statement that *)
(* joins the row of the subscription to its current period and locks the   *)
(* former (_CURRENT_LOCKED).  In read committed that statement takes its   *)
(* snapshot first (Ask), waits for the lock, and then reads again only the *)
(* row it locked (Lock): the period it returns is the one of the snapshot, *)
(* or none when the subscription has moved to another period meanwhile.    *)
(* Publishing the user, the last statement of every operation, is the      *)
(* action Commit of Publication and is left out here.                      *)
(***************************************************************************)
EXTENDS Integers, Sequences, ConcurrentSessions

CONSTANTS
    Plans,       \* the plans
    Duration,    \* plans.duration_days
    MaxPeriods,  \* bound: periods ever opened
    MaxGrants,   \* bound: entries of balance_entries
    MaxSubTime   \* bound: the clock of the database

ASSUME PlansAssumption == Duration \in [Plans -> Nat \ {0}]
ASSUME PeriodsAssumption == {MaxPeriods, MaxGrants, MaxSubTime} \subseteq Nat

VARIABLES
    subClock,  \* the clock of the database
    archived,  \* plans with status archived
    periods,   \* subscription_periods in the order of their commits
    entries,   \* balance_entries: the period each grant of traffic went to
    sub,       \* the row of subscriptions; current = 0 while there is none
    lock,      \* row lock of the subscription
    subTx      \* the open transaction of each session

subscriptionVars == <<subClock, archived, periods, entries, sub, lock, subTx>>

State == {"none", "active", "suspended_quota", "suspended_admin", "expired"}

\* from, the period a renewal continued (0: opened by activate), is history.
Period == [plan : Plans, start : Nat, end : Nat, from : 0 .. MaxPeriods]

NoPlan == "-"

\* The columns of the joined period that the operations read.
Copy == [plan : Plans, end : Nat]
NoPeriod == [plan |-> NoPlan, end |-> 0]

NoSubTx == [op |-> "none", locked |-> FALSE, at |-> 0, arg |-> NoPlan, seen |-> 0,
            copy |-> NoPeriod]

Transaction ==
    [op : {"none", "activate", "renew", "change", "add"}, locked : BOOLEAN,
     at : 0 .. MaxSubTime, arg : Plans \union {NoPlan}, seen : 0 .. MaxPeriods,
     copy : Copy \union {NoPeriod}]

SubscriptionInit ==
    /\ subClock = 0
    /\ archived = {}
    /\ periods = <<>>
    /\ entries = <<>>
    /\ sub = [state |-> "none", current |-> 0, device |-> NoPlan]
    /\ lock = Free
    /\ subTx = [s \in Sessions |-> NoSubTx]

-----------------------------------------------------------------------------
NextPeriodStart(state, end, at) ==
    IF state = "none" \/ end <= at THEN at ELSE end

CurrentPeriod == periods[sub.current]

Snapshot ==
    IF sub.current = 0 THEN NoPeriod
    ELSE [plan |-> CurrentPeriod.plan, end |-> CurrentPeriod.end]

\* Variant: the join is believed although the subscription has moved on.
CurrentAsSeen(s) == subTx[s].copy

\* What _current returns once the row is locked: the period of the snapshot,
\* or nothing when current_period_id is no longer the id it was joined by.
Current(s) == IF sub.current = subTx[s].seen THEN subTx[s].copy ELSE NoPeriod

Lockable(s) == lock = Free

Opened(plan, start, from) ==
    Append(periods, [plan |-> plan, start |-> start, end |-> start + Duration[plan],
                     from |-> from])

\* Variant: the upsert of the row forgets the device limit of the plan.
SetCurrentKeepingDevice(plan) ==
    sub' = [sub EXCEPT !.state = "active", !.current = Len(periods')]

SetCurrent(plan) ==
    sub' = [state |-> "active", current |-> Len(periods'), device |-> plan]

-----------------------------------------------------------------------------
\* The transaction begins and takes the snapshot of its read; at is its now(),
\* which only a renewal asks for.
Ask(s, op, at, arg) ==
    /\ subTx[s] = NoSubTx
    /\ subTx' = [subTx EXCEPT ![s] = [op |-> op, locked |-> FALSE, at |-> at, arg |-> arg,
                                seen |-> sub.current, copy |-> Snapshot]]
    /\ UNCHANGED <<subClock, archived, periods, entries, sub, lock>>

AskRenew(s) == Ask(s, "renew", subClock, NoPlan)
AskChange(s) == \E p \in Plans : Ask(s, "change", 0, p)
AskAdd(s) == Ask(s, "add", 0, NoPlan)

\* activate locks nothing: it reads the plan and inserts the period.
AskActivate(s) ==
    /\ subTx[s] = NoSubTx
    /\ \E p \in Plans \ archived :
           subTx' = [subTx EXCEPT ![s] =
               [NoSubTx EXCEPT !.op = "activate", !.at = subClock, !.arg = p]]
    /\ UNCHANGED <<subClock, archived, periods, entries, sub, lock>>

\* The plan the operation opens or changes to: _plan refuses an archived one.
PlanOf(s) == IF subTx[s].op = "renew" THEN Current(s).plan ELSE subTx[s].arg

\* The wait for the row ends, the row is read again and the plan is read.
Lock(s) ==
    /\ subTx[s].op \in {"renew", "change", "add"}
    /\ ~subTx[s].locked
    /\ Lockable(s)
    /\ Current(s) # NoPeriod
    /\ subTx[s].op # "add" => PlanOf(s) \notin archived
    /\ lock' = s
    /\ subTx' = [subTx EXCEPT ![s].locked = TRUE, ![s].copy = Current(s)]
    /\ UNCHANGED <<subClock, archived, periods, entries, sub>>

\* No subscription, or a plan that is archived: 409 and a rollback.
Refuse(s) ==
    /\ subTx[s].op \in {"renew", "change", "add"}
    /\ ~subTx[s].locked
    /\ Lockable(s)
    /\ \/ Current(s) = NoPeriod
       \/ subTx[s].op # "add" /\ PlanOf(s) \in archived
    /\ subTx' = [subTx EXCEPT ![s] = NoSubTx]
    /\ UNCHANGED <<subClock, archived, periods, entries, sub, lock>>

\* A statement fails or the connection is lost: nothing is written.
AbortOperation(s) ==
    /\ subTx[s] # NoSubTx
    /\ lock' = IF lock = s THEN Free ELSE lock
    /\ subTx' = [subTx EXCEPT ![s] = NoSubTx]
    /\ UNCHANGED <<subClock, archived, periods, entries, sub>>

Holds(s, op) == subTx[s].op = op /\ subTx[s].locked

Committed(s) ==
    /\ lock' = IF lock = s THEN Free ELSE lock
    /\ subTx' = [subTx EXCEPT ![s] = NoSubTx]

Renew(s) ==
    LET copy == subTx[s].copy IN
    /\ Holds(s, "renew")
    /\ Len(periods) < MaxPeriods
    /\ periods' = Opened(copy.plan, NextPeriodStart(sub.state, copy.end, subTx[s].at),
                         subTx[s].seen)
    /\ SetCurrent(copy.plan)
    /\ Committed(s)
    /\ UNCHANGED <<subClock, archived, entries>>

ChangePlan(s) ==
    LET id == subTx[s].seen
        plan == subTx[s].arg
    IN
    /\ Holds(s, "change")
    /\ periods' = [periods EXCEPT
           ![id].plan = plan,
           ![id].end = periods[id].start + Duration[plan]]
    /\ sub' = [sub EXCEPT !.device = plan]
    /\ Committed(s)
    /\ UNCHANGED <<subClock, archived, entries>>

\* The state after a grant: only exhausted traffic is made good by traffic.
StateAfterGrant(state, left) ==
    IF state = "suspended_quota" /\ left THEN "active" ELSE state

\* left: traffic remains after the grant (remaining_of is None or positive).
AddTraffic(s) ==
    /\ Holds(s, "add")
    /\ Len(entries) < MaxGrants
    /\ entries' = Append(entries, subTx[s].seen)
    /\ \E left \in BOOLEAN : sub' = [sub EXCEPT !.state = StateAfterGrant(@, left)]
    /\ Committed(s)
    /\ UNCHANGED <<subClock, archived, periods>>

\* The upsert of activate waits for the row that another transaction holds.
Activate(s) ==
    /\ subTx[s].op = "activate"
    /\ lock = Free
    /\ Len(periods) < MaxPeriods
    /\ periods' = Opened(subTx[s].arg, subTx[s].at, 0)
    /\ SetCurrent(subTx[s].arg)
    /\ Committed(s)
    /\ UNCHANGED <<subClock, archived, entries>>

\* Single statements: they wait for the row and see it as it then is.
Expire ==
    /\ lock = Free
    /\ sub.current # 0
    /\ sub.state # "expired"
    /\ sub' = [sub EXCEPT !.state = "expired"]
    /\ UNCHANGED <<subClock, archived, periods, entries, lock, subTx>>

SetState(state) ==
    /\ lock = Free
    /\ sub.current # 0
    /\ sub' = [sub EXCEPT !.state = state]
    /\ UNCHANGED <<subClock, archived, periods, entries, lock, subTx>>

\* PlanService.archive; a plan nothing refers to yet is deleted, which no
\* operation of an existing subscription can tell from archiving.
Archive(p) ==
    /\ p \notin archived
    /\ archived' = archived \union {p}
    /\ UNCHANGED <<subClock, periods, entries, sub, lock, subTx>>

SubscriptionTick ==
    /\ subClock < MaxSubTime
    /\ subClock' = subClock + 1
    /\ UNCHANGED <<archived, periods, entries, sub, lock, subTx>>

Session(s) ==
    \/ AskRenew(s) \/ AskChange(s) \/ AskAdd(s) \/ AskActivate(s)
    \/ Lock(s) \/ Refuse(s) \/ AbortOperation(s)
    \/ Renew(s) \/ ChangePlan(s) \/ AddTraffic(s) \/ Activate(s)

SubscriptionNext ==
    \/ \E s \in Sessions : Session(s)
    \/ Expire
    \/ \E state \in {"active", "suspended_quota", "suspended_admin"} : SetState(state)
    \/ \E p \in Plans : Archive(p)
    \/ SubscriptionTick

SubscriptionSpec == SubscriptionInit /\ [][SubscriptionNext]_subscriptionVars

-----------------------------------------------------------------------------
\* Every variable has its shape, the row names a period that exists, and the
\* transaction that has locked the row is the one it is locked for.
SubscriptionTypeOK ==
    /\ subClock \in 0 .. MaxSubTime
    /\ archived \subseteq Plans
    /\ Len(periods) <= MaxPeriods
    /\ \A i \in 1 .. Len(periods) :
           /\ periods[i] \in Period
           /\ periods[i].start < periods[i].end
           /\ periods[i].from < i
    /\ Len(entries) <= MaxGrants
    /\ \A i \in 1 .. Len(entries) : entries[i] \in 1 .. Len(periods)
    /\ sub \in [state : State, current : 0 .. Len(periods), device : Plans \union {NoPlan}]
    /\ lock \in Sessions \union {Free}
    /\ subTx \in [Sessions -> Transaction]
    /\ \A s \in Sessions : subTx[s].locked <=> lock = s

\* No period is continued twice: two renewals at once do not both open a
\* period after the same one, each declaring its own to be current (_current).
OneRenewalPerPeriod ==
    \A i, j \in 1 .. Len(periods) :
        i # j /\ periods[i].from = periods[j].from => periods[i].from = 0

\* The device limit in force is the one of the plan of the current period,
\* whichever of activate, renew and change_plan came last (_set_current).
DeviceFollowsPlan == sub.current # 0 => sub.device = CurrentPeriod.plan

\* Traffic granted by add_traffic goes to the period that is current when the
\* grant commits, not to one that a renewal has just replaced.
BonusReachesCurrent ==
    [][entries' # entries =>
           /\ entries'[Len(entries')] = sub.current
           /\ sub'.current = sub.current]_subscriptionVars

\* A renewal prolongs the plan in force and begins no earlier than the period
\* it continues ends (renew, next_period_start).
RenewalFollowsCurrent ==
    [][\A i \in DOMAIN periods' \ DOMAIN periods :
           LET from == periods'[i].from IN
           from # 0 => /\ periods'[i].plan = periods[from].plan
                       /\ periods'[i].start >= periods[from].end]_subscriptionVars
=============================================================================
