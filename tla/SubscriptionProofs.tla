------------------------- MODULE SubscriptionProofs -------------------------
(***************************************************************************)
(* Proofs about Subscription, for any number of transactions, plans,       *)
(* periods and grants.                                                     *)
(***************************************************************************)
EXTENDS Subscription, TLAPS

---------------------------------------------------------------------------
(* Sequences.                                                              *)

\* What Append yields.
LEMMA Appended ==
    ASSUME NEW S, NEW seq \in Seq(S), NEW e \in S
    PROVE  /\ Append(seq, e) \in Seq(S)
           /\ Len(seq) \in Nat /\ Len(Append(seq, e)) = Len(seq) + 1
           /\ Append(seq, e)[Len(seq) + 1] = e
           /\ \A i \in 1 .. Len(seq) : Append(seq, e)[i] = seq[i]
OBVIOUS

\* Replacing one element.
LEMMA Replaced ==
    ASSUME NEW S, NEW seq \in Seq(S), NEW e \in S, NEW k \in 1 .. Len(seq)
    PROVE  /\ [seq EXCEPT ![k] = e] \in Seq(S)
           /\ Len([seq EXCEPT ![k] = e]) = Len(seq)
           /\ [seq EXCEPT ![k] = e][k] = e
           /\ \A i \in 1 .. Len(seq) : i # k => [seq EXCEPT ![k] = e][i] = seq[i]
OBVIOUS

---------------------------------------------------------------------------
(* The inductive invariant.  The current period is the last one, and while *)
(* a transaction has the row of the subscription locked it is the one the  *)
(* transaction saw: what an operation that locks first decides on cannot   *)
(* be overtaken.                                                           *)

Chained ==
    /\ periods \in Seq(Period) /\ Len(periods) <= MaxPeriods
    /\ \A i \in 1 .. Len(periods) : periods[i].start < periods[i].end /\ periods[i].from < i
    /\ OneRenewalPerPeriod

Granted ==
    /\ entries \in Seq(Nat) /\ Len(entries) <= MaxGrants
    /\ \A i \in 1 .. Len(entries) : entries[i] \in 1 .. Len(periods)

CurrentIsLast ==
    /\ sub \in [state : State, current : Nat, device : Plans \union {NoPlan}]
    /\ sub.current = Len(periods)
    /\ DeviceFollowsPlan

\* What the row of an open transaction may be while the current period is the given one.
RowOf(row, current) ==
    /\ row \in Transaction
    /\ row.op \in {"change", "activate"} => row.arg \in Plans
    /\ row.seen = 0 => row.copy = NoPeriod
    /\ row.locked => /\ row.op \in {"renew", "change", "add"}
                     /\ row.seen = current /\ current # 0 /\ row.copy \in Copy

Rows == \A s \in Sessions : RowOf(subTx[s], sub.current)

LockHeld ==
    /\ lock \in Sessions \union {Free}
    /\ subTx \in [Sessions -> Transaction]
    /\ \A s \in Sessions : subTx[s].locked <=> lock = s

Clocked == subClock \in 0 .. MaxSubTime /\ archived \subseteq Plans

IInv == Clocked /\ Chained /\ Granted /\ CurrentIsLast /\ Rows /\ LockHeld

\* A transaction takes a step that only it sees.
LEMMA TxStep ==
    ASSUME IInv, NEW s \in Sessions, NEW row, RowOf(row, sub.current),
           subTx' = [subTx EXCEPT ![s] = row],
           UNCHANGED <<subClock, archived, periods, entries, sub>>,
           \/ row.locked = subTx[s].locked /\ lock' = lock
           \/ row.locked = TRUE /\ lock = Free /\ lock' = s
           \/ row.locked = FALSE /\ lock' = IF lock = s THEN Free ELSE lock
    PROVE  IInv'
<1>1. row \in Transaction /\ row.locked \in BOOLEAN /\ subTx[s].locked \in BOOLEAN
  BY DEF RowOf, Transaction, IInv, LockHeld
<1>2. subTx' \in [Sessions -> Transaction] /\ subTx'[s] = row
      /\ \A u \in Sessions \ {s} : subTx'[u] = subTx[u]
  BY <1>1 DEF IInv, LockHeld
<1>3. Rows'
  BY <1>2 DEF IInv, Rows
<1>4. LockHeld'
  <2>1. lock' \in Sessions \union {Free}
    BY DEF IInv, LockHeld
  <2>2. \A u \in Sessions : subTx'[u].locked <=> lock' = u
    BY <1>1, <1>2, SessionsAssumption DEF IInv, LockHeld
  <2> QED
    BY <1>2, <2>1, <2>2 DEF LockHeld
<1>5. Clocked' /\ Chained' /\ Granted' /\ CurrentIsLast'
  BY DEF IInv, Clocked, Chained, Granted, CurrentIsLast, OneRenewalPerPeriod, DeviceFollowsPlan,
         CurrentPeriod
<1> QED
  BY <1>3, <1>4, <1>5 DEF IInv

\* A transaction ends.
LEMMA Ending ==
    ASSUME IInv, NEW s \in Sessions, Committed(s)
    PROVE  /\ RowOf(NoSubTx, sub.current) /\ RowOf(NoSubTx, sub'.current)
           /\ NoSubTx.locked = FALSE /\ subTx' = [subTx EXCEPT ![s] = NoSubTx]
<1>1. NoSubTx \in Transaction
  BY PeriodsAssumption DEF NoSubTx, Transaction
<1> QED
  BY <1>1 DEF NoSubTx, RowOf, Committed

\* A transaction that ends when it or nobody holds the lock leaves nobody holding it:
\* whatever it wrote, no other transaction relied on it.
LEMMA Writing ==
    ASSUME IInv, NEW s \in Sessions, Committed(s), lock \in {s, Free},
           UNCHANGED <<subClock, archived>>, Chained', Granted', CurrentIsLast'
    PROVE  IInv'
<1>1. /\ subTx' = [subTx EXCEPT ![s] = NoSubTx] /\ lock' = Free
      /\ RowOf(NoSubTx, sub'.current) /\ NoSubTx.locked = FALSE /\ NoSubTx \in Transaction
  BY Ending DEF Committed, RowOf
<1>2. /\ subTx' \in [Sessions -> Transaction] /\ subTx'[s] = NoSubTx
      /\ \A u \in Sessions \ {s} : subTx'[u] = subTx[u]
  BY <1>1 DEF IInv, LockHeld
<1>3. \A u \in Sessions : ~subTx'[u].locked
  BY <1>1, <1>2, SessionsAssumption DEF IInv, LockHeld
<1>4. Rows'
  BY <1>1, <1>2, <1>3 DEF IInv, Rows, RowOf
<1>5. LockHeld'
  BY <1>1, <1>2, <1>3, SessionsAssumption DEF LockHeld
<1> QED
  BY <1>4, <1>5 DEF IInv, Clocked

---------------------------------------------------------------------------
(* Steps.                                                                  *)

\* What the statement that locks reads at first.
LEMMA SnapshotTyped ==
    ASSUME IInv
    PROVE  /\ Snapshot \in Copy \union {NoPeriod}
           /\ sub.current \in 0 .. MaxPeriods
           /\ sub.current = 0 => Snapshot = NoPeriod
<1>1. sub.current = Len(periods) /\ Len(periods) \in Nat /\ Len(periods) <= MaxPeriods
  BY DEF IInv, Chained, CurrentIsLast
<1>2. sub.current \in 0 .. MaxPeriods
  BY <1>1, PeriodsAssumption
<1>3. ASSUME sub.current # 0 PROVE Snapshot \in Copy
  <2>1. sub.current \in 1 .. Len(periods)
    BY <1>1, <1>3
  <2>2. periods[sub.current] \in Period
    BY <2>1 DEF IInv, Chained
  <2> QED
    BY <1>3, <2>2 DEF Snapshot, CurrentPeriod, Copy, Period
<1> QED
  BY <1>2, <1>3 DEF Snapshot

\* A transaction that begins has locked nothing.
LEMMA Asking ==
    ASSUME IInv, NEW s \in Sessions,
           AskRenew(s) \/ AskChange(s) \/ AskAdd(s) \/ AskActivate(s)
    PROVE  IInv'
<1>1. ASSUME NEW op \in {"renew", "change", "add"}, NEW at \in 0 .. MaxSubTime,
             NEW arg \in Plans \union {NoPlan}, op = "change" => arg \in Plans,
             Ask(s, op, at, arg)
      PROVE  IInv'
  <2> DEFINE row == [op |-> op, locked |-> FALSE, at |-> at, arg |-> arg,
                     seen |-> sub.current, copy |-> Snapshot]
  <2>1. row \in Transaction
    BY SnapshotTyped DEF Transaction
  <2>2. row.op = op /\ row.arg = arg /\ row.seen = sub.current /\ row.copy = Snapshot
        /\ row.locked = FALSE
    OBVIOUS
  <2>3. subTx[s] = NoSubTx /\ subTx' = [subTx EXCEPT ![s] = row]
        /\ UNCHANGED <<subClock, archived, periods, entries, sub, lock>>
    BY <1>1 DEF Ask
  <2> HIDE DEF row
  <2>4. RowOf(row, sub.current)
    BY <1>1, <2>1, <2>2, SnapshotTyped DEF RowOf
  <2>5. subTx[s].locked = FALSE
    BY <2>3 DEF NoSubTx
  <2> QED
    BY <2>2, <2>3, <2>4, <2>5, TxStep
<1>2. ASSUME AskActivate(s) PROVE IInv'
  <2>1. PICK p \in Plans \ archived :
          subTx' = [subTx EXCEPT ![s] =
              [NoSubTx EXCEPT !.op = "activate", !.at = subClock, !.arg = p]]
    BY <1>2 DEF AskActivate
  <2> DEFINE row == [NoSubTx EXCEPT !.op = "activate", !.at = subClock, !.arg = p]
  <2>2. subClock \in 0 .. MaxSubTime /\ 0 \in 0 .. MaxPeriods
    BY PeriodsAssumption DEF IInv, Clocked
  <2>3. row \in Transaction
    BY <2>2 DEF NoSubTx, Transaction
  <2>4. row.op = "activate" /\ row.arg = p /\ row.copy = NoPeriod /\ row.locked = FALSE
    BY DEF NoSubTx
  <2>5. subTx[s].locked = FALSE /\ UNCHANGED <<subClock, archived, periods, entries, sub, lock>>
    <3>1. subTx[s] = NoSubTx /\ UNCHANGED <<subClock, archived, periods, entries, sub, lock>>
      BY <1>2 DEF AskActivate
    <3>2. NoSubTx.locked = FALSE
      BY DEF NoSubTx
    <3> QED
      BY <3>1, <3>2
  <2> HIDE DEF row
  <2>6. RowOf(row, sub.current)
    BY <2>3, <2>4 DEF RowOf
  <2>7. subTx' = [subTx EXCEPT ![s] = row]
    BY <2>1 DEF row
  <2> QED
    BY <2>4, <2>5, <2>6, <2>7, TxStep
<1>3. subClock \in 0 .. MaxSubTime /\ 0 \in 0 .. MaxSubTime
  BY PeriodsAssumption DEF IInv, Clocked
<1> QED
  BY <1>1, <1>2, <1>3 DEF AskRenew, AskChange, AskAdd

\* The row is locked only if the period is still the one seen.
LEMMA Locking ==
    ASSUME IInv, NEW s \in Sessions, Lock(s)
    PROVE  IInv'
<1> DEFINE row == [subTx[s] EXCEPT !.locked = TRUE, !.copy = Current(s)]
<1>1. RowOf(subTx[s], sub.current) /\ subTx[s] \in Transaction
  BY DEF IInv, Rows, RowOf
<1>2. /\ subTx[s].op \in {"renew", "change", "add"} /\ lock = Free
      /\ sub.current = subTx[s].seen /\ Current(s) = subTx[s].copy /\ subTx[s].copy # NoPeriod
      /\ lock' = s
      /\ UNCHANGED <<subClock, archived, periods, entries, sub>>
  BY DEF Lock, Lockable, Current
<1>3. subTx[s].copy \in Copy /\ sub.current # 0
  BY <1>1, <1>2 DEF Transaction, RowOf
<1>4. /\ row \in Transaction /\ row.op = subTx[s].op /\ row.arg = subTx[s].arg
      /\ row.seen = subTx[s].seen /\ row.copy = subTx[s].copy /\ row.locked = TRUE
  BY <1>1, <1>2 DEF Transaction
<1>5. subTx' = [subTx EXCEPT ![s] = row]
  <2>1. subTx' = [subTx EXCEPT ![s].locked = TRUE, ![s].copy = Current(s)]
    BY DEF Lock
  <2> QED
    BY <2>1 DEF IInv, LockHeld
<1> HIDE DEF row
<1>6. RowOf(row, sub.current)
  BY <1>1, <1>2, <1>3, <1>4 DEF RowOf
<1> QED
  BY <1>2, <1>4, <1>5, <1>6, TxStep

\* A transaction that is rolled back.
LEMMA Leaving ==
    ASSUME IInv, NEW s \in Sessions, Refuse(s) \/ AbortOperation(s)
    PROVE  IInv'
<1>1. RowOf(NoSubTx, sub.current) /\ NoSubTx.locked = FALSE
  BY PeriodsAssumption DEF RowOf, NoSubTx, Transaction
<1>2. CASE Refuse(s)
  <2>1. /\ subTx' = [subTx EXCEPT ![s] = NoSubTx]
        /\ UNCHANGED <<subClock, archived, periods, entries, sub, lock>>
    BY <1>2 DEF Refuse
  <2>2. subTx[s].locked = FALSE
    BY <1>2 DEF Refuse, IInv, LockHeld, Transaction
  <2> QED
    BY <1>1, <2>1, <2>2, TxStep
<1>3. CASE AbortOperation(s)
  BY <1>1, <1>3, TxStep DEF AbortOperation
<1> QED
  BY <1>2, <1>3

\* What the holder of the row may rely on.
LEMMA Holder ==
    ASSUME IInv, NEW s \in Sessions, subTx[s].locked
    PROVE  /\ lock = s /\ subTx[s].seen = sub.current /\ sub.current = Len(periods)
           /\ sub.current \in 1 .. Len(periods) /\ Len(periods) \in Nat
           /\ subTx[s].copy \in Copy /\ subTx[s].at \in Nat
<1>1. RowOf(subTx[s], sub.current) /\ subTx[s] \in Transaction /\ lock = s
  BY DEF IInv, Rows, RowOf, LockHeld
<1>2. sub.current = Len(periods) /\ Len(periods) \in Nat
  BY DEF IInv, Chained, CurrentIsLast
<1>3. subTx[s].at \in 0 .. MaxSubTime
  BY <1>1 DEF Transaction
<1>4. subTx[s].at \in Nat
  BY <1>3, PeriodsAssumption
<1> QED
  BY <1>1, <1>2, <1>4 DEF RowOf

\* A period is opened after the last one and is the current one at once.
LEMMA Opening ==
    ASSUME IInv, NEW plan \in Plans, NEW start \in Nat, NEW from \in 0 .. MaxPeriods,
           from = 0 \/ from = sub.current,
           Len(periods) < MaxPeriods,
           periods' = Opened(plan, start, from), SetCurrent(plan), UNCHANGED entries
    PROVE  Chained' /\ Granted' /\ CurrentIsLast'
<1> DEFINE n == Len(periods)
           new == [plan |-> plan, start |-> start, end |-> start + Duration[plan],
                   from |-> from]
<1>1. periods \in Seq(Period) /\ n \in Nat /\ sub.current = n
  BY DEF IInv, Chained, CurrentIsLast
<1>2. Duration[plan] \in Nat /\ Duration[plan] # 0
  BY PlansAssumption
<1>3. start + Duration[plan] \in Nat /\ start < start + Duration[plan]
  BY <1>2
<1>4. /\ new \in Period /\ new.plan = plan /\ new.start = start /\ new.from = from
      /\ new.end = start + Duration[plan]
  BY <1>3 DEF Period
<1> HIDE DEF new
<1>5. periods' = Append(periods, new)
  BY DEF Opened, new
<1>6. /\ periods' \in Seq(Period) /\ Len(periods') = n + 1 /\ periods'[n + 1] = new
      /\ \A i \in 1 .. n : periods'[i] = periods[i]
  BY <1>1, <1>4, <1>5, Appended
<1> HIDE DEF n
<1>7. \A i \in 1 .. Len(periods') : i = n + 1 \/ i \in 1 .. n
  BY <1>1, <1>6
<1>8. \A i \in 1 .. n : /\ periods[i].start < periods[i].end /\ periods[i].from < i
                        /\ i \in Nat /\ i <= n /\ periods[i].from \in Nat
  <2>1. \A i \in 1 .. n : periods[i] \in Period
    BY <1>1 DEF n
  <2>2. \A i \in 1 .. n : periods[i].from \in 0 .. MaxPeriods
    BY <2>1 DEF Period
  <2>3. \A i \in 1 .. n : periods[i].from \in Nat
    BY <2>2, PeriodsAssumption
  <2> QED
    BY <1>1, <2>3 DEF IInv, Chained, n
<1>9. from \in Nat /\ from <= n
  BY <1>1, PeriodsAssumption
<1>10. \A i \in 1 .. Len(periods') :
          periods'[i].start < periods'[i].end /\ periods'[i].from < i
  BY <1>1, <1>3, <1>4, <1>6, <1>7, <1>8, <1>9
<1>11. OneRenewalPerPeriod'
  <2> SUFFICES ASSUME NEW i \in 1 .. Len(periods'), NEW j \in 1 .. Len(periods'),
                      i # j, periods'[i].from = periods'[j].from, periods'[i].from # 0
               PROVE  FALSE
    BY DEF OneRenewalPerPeriod
  <2>1. CASE i \in 1 .. n /\ j \in 1 .. n
    BY <1>6, <2>1 DEF IInv, Chained, OneRenewalPerPeriod, n
  <2>2. \A k \in 1 .. n : periods'[k].from < n
    BY <1>1, <1>6, <1>8
  <2>3. periods'[n + 1].from = 0 \/ periods'[n + 1].from = n
    BY <1>1, <1>4, <1>6
  <2>4. ~(n < n)
    BY <1>1
  <2> QED
    BY <1>7, <2>1, <2>2, <2>3, <2>4
<1>12. Chained'
  <2>1. Len(periods') <= MaxPeriods
    BY <1>1, <1>6, PeriodsAssumption DEF n
  <2> QED
    BY <1>6, <1>10, <1>11, <2>1 DEF Chained
<1>13. Granted'
  BY <1>1, <1>6 DEF IInv, Granted, n
<1>14. CurrentIsLast'
  <2>1. sub' = [state |-> "active", current |-> n + 1, device |-> plan]
    BY <1>6 DEF SetCurrent
  <2>2. sub'.current = n + 1 /\ sub'.device = plan
    BY <2>1
  <2>3. sub' \in [state : State, current : Nat, device : Plans \union {NoPlan}]
    BY <1>1, <2>1 DEF State
  <2> QED
    BY <1>4, <1>6, <2>2, <2>3 DEF CurrentIsLast, DeviceFollowsPlan, CurrentPeriod
<1> QED
  BY <1>12, <1>13, <1>14

\* A renewal, by the holder of the row, continues the current period.
LEMMA Renewing ==
    ASSUME IInv, NEW s \in Sessions, Renew(s)
    PROVE  IInv'
<1>1. subTx[s].locked /\ Committed(s)
  BY DEF Renew, Holds
<1>2. /\ lock = s /\ subTx[s].seen = sub.current /\ sub.current = Len(periods)
      /\ sub.current \in 1 .. Len(periods) /\ Len(periods) \in Nat
      /\ subTx[s].copy \in Copy /\ subTx[s].at \in Nat
  BY <1>1, Holder
<1> DEFINE plan == subTx[s].copy.plan
           start == NextPeriodStart(sub.state, subTx[s].copy.end, subTx[s].at)
<1>3. plan \in Plans /\ subTx[s].copy.end \in Nat
  BY <1>2 DEF Copy
<1>4. start \in Nat
  BY <1>2, <1>3 DEF NextPeriodStart
<1>5. /\ Len(periods) < MaxPeriods
      /\ periods' = Opened(plan, start, subTx[s].seen) /\ SetCurrent(plan)
      /\ UNCHANGED <<subClock, archived, entries>>
  BY DEF Renew
<1>6. subTx[s].seen \in 0 .. MaxPeriods
  BY <1>2, SnapshotTyped
<1> HIDE DEF plan, start
<1>7. Chained' /\ Granted' /\ CurrentIsLast'
  BY <1>2, <1>3, <1>4, <1>5, <1>6, Opening
<1> QED
  BY <1>1, <1>2, <1>5, <1>7, Writing

\* Activating opens a period that continues none, while nobody holds the row.
LEMMA Activating ==
    ASSUME IInv, NEW s \in Sessions, Activate(s)
    PROVE  IInv'
<1>1. /\ lock = Free /\ Len(periods) < MaxPeriods
      /\ periods' = Opened(subTx[s].arg, subTx[s].at, 0) /\ SetCurrent(subTx[s].arg)
      /\ Committed(s) /\ UNCHANGED <<subClock, archived, entries>>
  BY DEF Activate
<1>2. RowOf(subTx[s], sub.current) /\ subTx[s] \in Transaction /\ subTx[s].op = "activate"
  BY DEF IInv, Rows, RowOf, Activate
<1>3. subTx[s].arg \in Plans
  BY <1>2 DEF RowOf
<1>4. subTx[s].at \in Nat
  <2>1. subTx[s].at \in 0 .. MaxSubTime
    BY <1>2 DEF Transaction
  <2> QED
    BY <2>1, PeriodsAssumption
<1>5. 0 \in 0 .. MaxPeriods
  BY PeriodsAssumption
<1>6. Chained' /\ Granted' /\ CurrentIsLast'
  BY <1>1, <1>3, <1>4, <1>5, Opening
<1> QED
  BY <1>1, <1>6, Writing

\* A change of plan rewrites the current period and the device limit together.
LEMMA Changing ==
    ASSUME IInv, NEW s \in Sessions, ChangePlan(s)
    PROVE  IInv'
<1> DEFINE k == subTx[s].seen
           plan == subTx[s].arg
           new == [periods[k] EXCEPT !.plan = plan, !.end = periods[k].start + Duration[plan]]
<1>1. subTx[s].locked /\ subTx[s].op = "change" /\ Committed(s)
  BY DEF ChangePlan, Holds
<1>2. /\ lock = s /\ k = sub.current /\ sub.current = Len(periods)
      /\ k \in 1 .. Len(periods) /\ Len(periods) \in Nat
  BY <1>1, Holder
<1>3. plan \in Plans /\ Duration[plan] \in Nat /\ Duration[plan] # 0
  BY <1>1, PlansAssumption DEF IInv, Rows, RowOf
<1>4. periods \in Seq(Period) /\ periods[k] \in Period /\ periods[k].start \in Nat
  <2>1. periods \in Seq(Period)
    BY DEF IInv, Chained
  <2>2. periods[k] \in Period
    BY <1>2, <2>1
  <2> QED
    BY <2>1, <2>2 DEF Period
<1>5. periods[k].start + Duration[plan] \in Nat
      /\ periods[k].start < periods[k].start + Duration[plan]
  BY <1>3, <1>4
<1>6. /\ new \in Period /\ new.plan = plan /\ new.start = periods[k].start
      /\ new.end = periods[k].start + Duration[plan] /\ new.from = periods[k].from
  BY <1>3, <1>4, <1>5 DEF Period
<1>7. periods' = [periods EXCEPT ![k] = new]
  <2>1. periods' = [periods EXCEPT ![k].plan = plan,
                                   ![k].end = periods[k].start + Duration[plan]]
    BY DEF ChangePlan
  <2> QED
    BY <1>2, <1>4, <2>1
<1> HIDE DEF new
<1>8. /\ periods' \in Seq(Period) /\ Len(periods') = Len(periods) /\ periods'[k] = new
      /\ \A i \in 1 .. Len(periods) : i # k => periods'[i] = periods[i]
  BY <1>2, <1>4, <1>6, <1>7, Replaced
<1>9. \A i \in 1 .. Len(periods') : /\ periods'[i].start < periods'[i].end
                                    /\ periods'[i].from = periods[i].from
                                    /\ periods'[i].from < i
  <2>1. \A i \in 1 .. Len(periods) : periods[i].start < periods[i].end /\ periods[i].from < i
    BY DEF IInv, Chained
  <2> HIDE DEF k
  <2> QED
    BY <1>2, <1>5, <1>6, <1>8, <2>1
<1>10. Chained'
  BY <1>8, <1>9 DEF IInv, Chained, OneRenewalPerPeriod
<1>11. Granted'
  BY <1>8 DEF IInv, Granted, ChangePlan
<1>12. CurrentIsLast'
  <2>1. sub' = [sub EXCEPT !.device = plan]
    BY DEF ChangePlan
  <2>2. /\ sub' \in [state : State, current : Nat, device : Plans \union {NoPlan}]
        /\ sub'.current = sub.current /\ sub'.device = plan
    BY <1>3, <2>1 DEF IInv, CurrentIsLast
  <2> QED
    BY <1>2, <1>6, <1>8, <2>2 DEF CurrentIsLast, DeviceFollowsPlan, CurrentPeriod
<1>13. UNCHANGED <<subClock, archived>>
  BY DEF ChangePlan
<1> QED
  BY <1>1, <1>2, <1>10, <1>11, <1>12, <1>13, Writing

\* The state of the row changes and the current period does not.
LEMMA StateChanges ==
    ASSUME IInv, NEW state \in State, sub' = [sub EXCEPT !.state = state], UNCHANGED periods
    PROVE  CurrentIsLast' /\ sub'.current = sub.current
<1>1. /\ sub' \in [state : State, current : Nat, device : Plans \union {NoPlan}]
      /\ sub'.current = sub.current /\ sub'.device = sub.device
  BY DEF IInv, CurrentIsLast
<1> QED
  BY <1>1 DEF IInv, CurrentIsLast, DeviceFollowsPlan, CurrentPeriod

\* A grant of traffic goes to the current period.
LEMMA Adding ==
    ASSUME IInv, NEW s \in Sessions, AddTraffic(s)
    PROVE  /\ IInv' /\ entries'[Len(entries')] = sub.current /\ sub'.current = sub.current
<1>1. /\ subTx[s].locked /\ Committed(s) /\ Len(entries) < MaxGrants
      /\ entries' = Append(entries, subTx[s].seen) /\ UNCHANGED <<subClock, archived, periods>>
  BY DEF AddTraffic, Holds
<1>2. /\ lock = s /\ subTx[s].seen = sub.current /\ sub.current = Len(periods)
      /\ sub.current \in 1 .. Len(periods) /\ Len(periods) \in Nat
  BY <1>1, Holder
<1>3. CurrentIsLast' /\ sub'.current = sub.current
  <2>1. PICK left \in BOOLEAN : sub' = [sub EXCEPT !.state = StateAfterGrant(sub.state, left)]
    BY DEF AddTraffic
  <2>2. StateAfterGrant(sub.state, left) \in State
    BY DEF StateAfterGrant, State, IInv, CurrentIsLast
  <2> QED
    BY <1>1, <2>1, <2>2, StateChanges
<1>4. entries \in Seq(Nat) /\ subTx[s].seen \in Nat
  BY <1>2 DEF IInv, Granted
<1>5. /\ entries' \in Seq(Nat) /\ Len(entries) \in Nat /\ Len(entries') = Len(entries) + 1
      /\ entries'[Len(entries) + 1] = subTx[s].seen
      /\ \A i \in 1 .. Len(entries) : entries'[i] = entries[i]
  BY <1>1, <1>4, Appended
<1>6. Granted'
  <2>1. \A i \in 1 .. Len(entries') : entries'[i] \in 1 .. Len(periods)
    <3>1. \A i \in 1 .. Len(entries') : i = Len(entries) + 1 \/ i \in 1 .. Len(entries)
      BY <1>5
    <3> QED
      BY <1>2, <1>5, <3>1 DEF IInv, Granted
  <2>2. Len(entries') <= MaxGrants
    BY <1>1, <1>5, PeriodsAssumption
  <2> QED
    BY <1>1, <1>5, <2>1, <2>2 DEF Granted
<1>7. Chained'
  BY <1>1 DEF IInv, Chained, OneRenewalPerPeriod
<1>8. IInv'
  BY <1>1, <1>2, <1>3, <1>6, <1>7, Writing
<1> QED
  BY <1>2, <1>3, <1>5, <1>8

\* A statement that nobody has to wait for: the states of the row, the plans, the clock.
LEMMA Singly ==
    ASSUME IInv,
           \/ Expire
           \/ \E state \in {"active", "suspended_quota", "suspended_admin"} : SetState(state)
           \/ \E p \in Plans : Archive(p)
           \/ SubscriptionTick
    PROVE  IInv' /\ UNCHANGED <<periods, entries>>
<1>1. ASSUME NEW state \in State, sub' = [sub EXCEPT !.state = state],
             UNCHANGED <<subClock, archived, periods, entries, lock, subTx>>
      PROVE  IInv' /\ UNCHANGED <<periods, entries>>
  <2>1. CurrentIsLast' /\ sub'.current = sub.current
    BY <1>1, StateChanges
  <2>2. Rows'
    BY <1>1, <2>1 DEF IInv, Rows
  <2> QED
    BY <1>1, <2>1, <2>2
    DEF IInv, Clocked, Chained, Granted, LockHeld, OneRenewalPerPeriod
<1>2. CASE Expire
  BY <1>1, <1>2 DEF Expire, State
<1>3. ASSUME NEW state \in {"active", "suspended_quota", "suspended_admin"}, SetState(state)
      PROVE  IInv' /\ UNCHANGED <<periods, entries>>
  BY <1>1, <1>3 DEF SetState, State
<1>4. ASSUME Clocked', UNCHANGED <<periods, entries, sub, lock, subTx>>
      PROVE  IInv' /\ UNCHANGED <<periods, entries>>
  BY <1>4 DEF IInv, Chained, Granted, CurrentIsLast, Rows, LockHeld, OneRenewalPerPeriod,
              DeviceFollowsPlan, CurrentPeriod
<1>5. ASSUME NEW p \in Plans, Archive(p) PROVE IInv' /\ UNCHANGED <<periods, entries>>
  BY <1>4, <1>5 DEF Archive, IInv, Clocked
<1>6. CASE SubscriptionTick
  <2>1. subClock' \in 0 .. MaxSubTime
    <3>1. subClock \in 0 .. MaxSubTime /\ MaxSubTime \in Nat /\ subClock < MaxSubTime
          /\ subClock' = subClock + 1
      BY <1>6, PeriodsAssumption DEF SubscriptionTick, IInv, Clocked
    <3> QED
      BY <3>1
  <2> QED
    BY <1>4, <1>6, <2>1 DEF SubscriptionTick, IInv, Clocked
<1> QED
  BY <1>2, <1>3, <1>5, <1>6

---------------------------------------------------------------------------
(* Theorems.                                                               *)

\* Before the first subscription there is no period, no grant and no transaction.
LEMMA Initially == SubscriptionInit => IInv
<1> SUFFICES ASSUME SubscriptionInit PROVE IInv
  OBVIOUS
<1>1. 0 \in 0 .. MaxSubTime /\ 0 \in Nat /\ 0 <= MaxPeriods /\ 0 <= MaxGrants
  BY PeriodsAssumption
<1>2. <<>> \in Seq(Period) /\ <<>> \in Seq(Nat) /\ Len(<<>>) = 0
  OBVIOUS
<1>3. \A i \in 1 .. 0 : FALSE
  OBVIOUS
<1>4. Clocked /\ Chained /\ Granted
  BY <1>1, <1>2, <1>3 DEF SubscriptionInit, Clocked, Chained, Granted, OneRenewalPerPeriod
<1>5. CurrentIsLast
  <2>1. sub = [state |-> "none", current |-> 0, device |-> NoPlan]
    BY DEF SubscriptionInit
  <2> QED
    BY <1>1, <1>2, <2>1 DEF SubscriptionInit, CurrentIsLast, DeviceFollowsPlan, State
<1>6. NoSubTx \in Transaction /\ NoSubTx.locked = FALSE /\ RowOf(NoSubTx, 0)
  BY PeriodsAssumption DEF NoSubTx, Transaction, RowOf
<1>7. sub.current = 0
  BY DEF SubscriptionInit
<1>8. Rows /\ LockHeld
  BY <1>6, <1>7, SessionsAssumption DEF SubscriptionInit, Rows, LockHeld
<1> QED
  BY <1>4, <1>5, <1>8 DEF IInv

\* A step keeps the invariant; if it grants traffic, it grants it to the current period.
LEMMA NextStep ==
    ASSUME IInv, [SubscriptionNext]_subscriptionVars
    PROVE  /\ IInv'
           /\ entries' # entries => /\ entries'[Len(entries')] = sub.current
                                    /\ sub'.current = sub.current
<1>1. CASE UNCHANGED subscriptionVars
  BY <1>1 DEF subscriptionVars, IInv, Clocked, Chained, Granted, CurrentIsLast, Rows, LockHeld,
              OneRenewalPerPeriod, DeviceFollowsPlan, CurrentPeriod
<1>2. ASSUME NEW s \in Sessions, Session(s)
      PROVE  /\ IInv'
             /\ entries' # entries => /\ entries'[Len(entries')] = sub.current
                                      /\ sub'.current = sub.current
  <2>1. CASE AddTraffic(s)
    BY <2>1, Adding
  <2>2. CASE ~AddTraffic(s)
    <3>1. IInv'
      BY <1>2, <2>2, Asking, Locking, Leaving, Renewing, Changing, Activating DEF Session
    <3>2. UNCHANGED entries
      BY <1>2, <2>2
      DEF Session, AskRenew, AskChange, AskAdd, Ask, AskActivate, Lock, Refuse, AbortOperation,
          Renew,
          ChangePlan, Activate
    <3> QED
      BY <3>1, <3>2
  <2> QED
    BY <2>1, <2>2
<1> QED
  BY <1>1, <1>2, Singly DEF SubscriptionNext

\* Every variable has its shape, the row of the subscription names a period that exists,
\* and the row lock is held by the transaction that has it.
LEMMA Shapes == IInv => SubscriptionTypeOK
<1> SUFFICES ASSUME IInv PROVE SubscriptionTypeOK
  OBVIOUS
<1>1. \A i \in 1 .. Len(periods) : periods[i] \in Period
  BY DEF IInv, Chained
<1>2. sub \in [state : State, current : 0 .. Len(periods), device : Plans \union {NoPlan}]
  <2>1. sub.current \in 0 .. Len(periods)
    BY DEF IInv, Chained, CurrentIsLast
  <2>2. sub \in [state : State, current : Nat, device : Plans \union {NoPlan}]
    BY DEF IInv, CurrentIsLast
  <2> QED
    BY <2>1, <2>2
<1> QED
  BY <1>1, <1>2 DEF IInv, Clocked, Chained, Granted, LockHeld, SubscriptionTypeOK

\* The inductive invariant holds in every state the transactions can reach.
THEOREM Invariance == SubscriptionSpec => []IInv
<1>1. IInv /\ [SubscriptionNext]_subscriptionVars => IInv'
  BY NextStep
<1> QED
  BY <1>1, Initially, PTL DEF SubscriptionSpec

\* The tables, the lock and the open transactions keep their shapes.
THEOREM TypeCorrect == SubscriptionSpec => []SubscriptionTypeOK
<1> QED
  BY Invariance, Shapes, PTL

\* No period is continued by two renewals, however many are asked for at once.
THEOREM RenewedOnce == SubscriptionSpec => []OneRenewalPerPeriod
<1>1. IInv => OneRenewalPerPeriod
  BY DEF IInv, Chained
<1> QED
  BY <1>1, Invariance, PTL

\* The device limit in force is the one of the plan of the current period.
THEOREM DeviceOfPlan == SubscriptionSpec => []DeviceFollowsPlan
<1>1. IInv => DeviceFollowsPlan
  BY DEF IInv, CurrentIsLast
<1> QED
  BY <1>1, Invariance, PTL

\* Traffic that is granted reaches the period that is current when the grant commits.
THEOREM GrantReaches == SubscriptionSpec => BonusReachesCurrent
<1>1. IInv /\ [SubscriptionNext]_subscriptionVars =>
        [entries' # entries => /\ entries'[Len(entries')] = sub.current
                               /\ sub'.current = sub.current]_subscriptionVars
  BY NextStep
<1> QED
  BY <1>1, Invariance, PTL DEF SubscriptionSpec, BonusReachesCurrent
=============================================================================
