------------------------ MODULE BillingHistoryProofs ------------------------
(***************************************************************************)
(* Proofs about BillingHistory, for any number of transactions, groups,    *)
(* changes and moments: no history has gaps or overlaps, a change follows  *)
(* the interval it closed, and what a moment was charged by stays so.      *)
(***************************************************************************)
EXTENDS BillingHistory, WellFoundedInduction, TLAPS

---------------------------------------------------------------------------
(* Histories as sequences.                                                 *)

\* What Append yields.
LEMMA Appended ==
    ASSUME NEW S, NEW seq \in Seq(S), NEW e \in S
    PROVE  /\ Append(seq, e) \in Seq(S)
           /\ Len(seq) \in Nat /\ Len(Append(seq, e)) = Len(seq) + 1
           /\ Append(seq, e)[Len(seq) + 1] = e
           /\ \A i \in 1 .. Len(seq) : Append(seq, e)[i] = seq[i]
OBVIOUS

\* Replacing one element.
LEMMA Replaced ==
    ASSUME NEW S, NEW seq \in Seq(S), NEW e \in S, NEW k \in 1 .. Len(seq)
    PROVE  /\ [seq EXCEPT ![k] = e] \in Seq(S)
           /\ Len([seq EXCEPT ![k] = e]) = Len(seq)
           /\ [seq EXCEPT ![k] = e][k] = e
           /\ \A i \in 1 .. Len(seq) : i # k => [seq EXCEPT ![k] = e][i] = seq[i]
OBVIOUS

\* A set of naturals that is not empty has a least element.
LEMMA LeastElement ==
    ASSUME NEW S \in SUBSET Nat, S # {}
    PROVE  \E m \in S : \A n \in S : m <= n
<1> DEFINE R == OpToRel(<, Nat)
<1>1. IsWellFoundedOn(R, Nat)
  BY NatLessThanWellFounded
<1> HIDE DEF R
<1>2. \E m \in S : \A n \in S : ~ (<<n, m>> \in R)
  BY <1>1, WFMin, Zenon
<1>3. \A m, n \in Nat : n < m => <<n, m>> \in R
  BY DEF R, OpToRel
<1>4. PICK m \in S : \A n \in S : ~ (<<n, m>> \in R)
  BY <1>2
<1>5. \A n \in S : m <= n
  <2> SUFFICES ASSUME NEW n \in S PROVE m <= n
    OBVIOUS
  <2>1. m \in Nat /\ n \in Nat
    OBVIOUS
  <2>2. ~(n < m)
    BY <1>3, <1>4, <2>1, Zenon
  <2> QED
    BY <2>1, <2>2
<1> QED
  BY <1>5

\* A history without gaps or overlaps.
Tiled(rows) ==
    /\ \A i \in 1 .. Len(rows) : rows[i].from < rows[i].to
    /\ \A i \in 1 .. Len(rows) - 1 : rows[i].to = rows[i + 1].from
    /\ rows # <<>> => rows[Len(rows)].to = Open

\* What the arithmetic needs of the rows.
LEMMA RowTyped ==
    ASSUME NEW row \in Row
    PROVE  /\ row.from \in Nat /\ row.to \in Nat /\ row.from <= MaxTime /\ row.to <= Open
           /\ row.value \in Assignment /\ row.value.group \in Groups
           /\ MaxTime \in Nat /\ Open \in Nat /\ MaxTime < Open
<1>1. MaxTime \in Nat /\ Open = MaxTime + 1
  BY BoundsAssumption DEF Open
<1>2. row.from \in 0 .. MaxTime /\ row.to \in 0 .. Open /\ row.value \in Assignment
  BY DEF Row, Times
<1>3. row.value.group \in Groups
  BY <1>2 DEF Assignment
<1> QED
  BY <1>1, <1>2, <1>3

\* The last interval is the only open one.
LEMMA LastOpen ==
    ASSUME NEW rows \in Seq(Row), Tiled(rows), NEW i \in 1 .. Len(rows), rows[i].to = Open
    PROVE  i = Len(rows)
<1> SUFFICES ASSUME i # Len(rows) PROVE FALSE
  OBVIOUS
<1>1. i \in 1 .. Len(rows) - 1 /\ i + 1 \in 1 .. Len(rows)
  OBVIOUS
<1>2. rows[i].to = rows[i + 1].from
  BY <1>1 DEF Tiled
<1>3. rows[i + 1] \in Row
  BY <1>1
<1>4. rows[i + 1].from <= MaxTime /\ MaxTime < Open /\ rows[i + 1].from \in Nat
      /\ MaxTime \in Nat /\ Open \in Nat
  BY <1>3, RowTyped
<1> QED
  BY <1>2, <1>4

\* From its beginning on, an interval of the history covers every moment: the first one
\* that ends later begins no later, where the one before it ends.
LEMMA Covered ==
    ASSUME NEW rows \in Seq(Row), Tiled(rows), rows # <<>>, NEW at \in Times,
           rows[1].from <= at
    PROVE  \E i \in 1 .. Len(rows) : rows[i].from <= at /\ at < rows[i].to
<1> DEFINE later == {i \in 1 .. Len(rows) : at < rows[i].to}
<1>1. Len(rows) \in Nat /\ Len(rows) >= 1
  OBVIOUS
<1>2. at \in Nat /\ at < Open
  BY BoundsAssumption DEF Times, Open
<1>3. \A i \in 1 .. Len(rows) : rows[i].from \in Nat /\ rows[i].to \in Nat
  <2>1. \A i \in 1 .. Len(rows) : rows[i] \in Row
    OBVIOUS
  <2> QED
    BY <2>1, RowTyped
<1>4. later \in SUBSET Nat /\ Len(rows) \in later
  <2>1. Len(rows) \in 1 .. Len(rows)
    BY <1>1
  <2> QED
    BY <1>2, <2>1 DEF Tiled
<1>5. PICK m \in later : \A n \in later : m <= n
  BY <1>4, LeastElement
<1>6. m \in 1 .. Len(rows) /\ at < rows[m].to
  BY <1>5
<1>7. rows[m].from <= at
  <2>1. CASE m = 1
    BY <2>1
  <2>2. CASE m # 1
    <3>1. m - 1 \in 1 .. Len(rows) /\ m - 1 \in 1 .. Len(rows) - 1 /\ (m - 1) + 1 = m
      BY <1>6, <2>2
    <3>2. ~(m - 1 \in later)
      <4>1. m \in Nat /\ ~(m <= m - 1)
        BY <1>6
      <4> HIDE DEF later
      <4> QED
        BY <1>5, <4>1
    <3>3. rows[m - 1].to = rows[m].from
      BY <3>1 DEF Tiled
    <3> QED
      BY <1>2, <1>3, <1>6, <3>1, <3>2, <3>3
  <2> QED
    BY <2>1, <2>2
<1> QED
  BY <1>6, <1>7
---------------------------------------------------------------------------
(* What a commit makes of a history.                                       *)

\* The row of a change, and the history with the interval it closes ended.
NewRow(at, value) == [from |-> at, to |-> Open, value |-> value]
Ended(rows, row, at) == [rows EXCEPT ![row] = [rows[row] EXCEPT !.to = at]]

\* A change may be added: it closes the open interval, which begins before it, and no
\* other interval reaches beyond its beginning.
Fits(rows, closes, row, at) ==
    /\ closes => /\ row \in 1 .. Len(rows)
                 /\ rows[row].to = Open
                 /\ rows[row].from < at
    /\ \A i \in 1 .. Len(rows) : ~(closes /\ i = row) => ~(rows[i].to > at)

\* A history after a change: as it was, up to the end of the interval that was the last.
Extended(rows, after, at, value) ==
    /\ after \in Seq(Row)
    /\ Len(after) = Len(rows) + 1
    /\ after[Len(rows) + 1] = NewRow(at, value)
    /\ \A i \in 1 .. Len(rows) :
           /\ after[i].from = rows[i].from
           /\ after[i].value = rows[i].value
           /\ after[i].to = IF i = Len(rows) THEN at ELSE rows[i].to

\* The row of a change is a row.
LEMMA NewRowTyped ==
    ASSUME NEW at \in Times, NEW value \in Assignment
    PROVE  /\ NewRow(at, value) \in Row
           /\ NewRow(at, value).from = at
           /\ NewRow(at, value).to = Open
           /\ NewRow(at, value).value = value
<1>1. Open \in 0 .. Open
  BY BoundsAssumption DEF Open
<1> QED
  BY <1>1 DEF NewRow, Row

\* A change that closes an interval closes the last one; one that closes none is the first.
LEMMA ClosesTheLast ==
    ASSUME NEW rows \in Seq(Row), Tiled(rows), NEW closes \in BOOLEAN, NEW row,
           NEW at \in Times, Fits(rows, closes, row, at)
    PROVE  IF closes THEN row = Len(rows) ELSE rows = <<>>
<1>1. CASE closes
  BY <1>1, LastOpen DEF Fits
<1>2. CASE ~closes
  <2> SUFFICES ASSUME rows # <<>> PROVE FALSE
    BY <1>2
  <2>1. Len(rows) \in 1 .. Len(rows)
    OBVIOUS
  <2>2. rows[Len(rows)].to = Open
    BY DEF Tiled
  <2>3. ~(Open > at)
    BY <1>2, <2>1, <2>2 DEF Fits
  <2> QED
    BY <2>3, BoundsAssumption DEF Open, Times
<1> QED
  BY <1>1, <1>2

\* The change of a transaction extends the history it fits.
LEMMA CommitExtends ==
    ASSUME NEW rows \in Seq(Row), Tiled(rows), NEW closes \in BOOLEAN, NEW row,
           NEW at \in Times, NEW value \in Assignment, Fits(rows, closes, row, at)
    PROVE  Extended(rows,
                    Append(IF closes THEN Ended(rows, row, at) ELSE rows, NewRow(at, value)),
                    at, value)
<1> DEFINE kept == IF closes THEN Ended(rows, row, at) ELSE rows
<1>1. IF closes THEN row = Len(rows) ELSE rows = <<>>
  BY ClosesTheLast
<1>2. /\ kept \in Seq(Row)
      /\ Len(kept) = Len(rows)
      /\ \A i \in 1 .. Len(rows) :
             /\ kept[i].from = rows[i].from
             /\ kept[i].value = rows[i].value
             /\ kept[i].to = IF i = Len(rows) THEN at ELSE rows[i].to
  <2>1. CASE closes
    <3> DEFINE ended == [rows[row] EXCEPT !.to = at]
    <3>1. row \in 1 .. Len(rows) /\ row = Len(rows)
      BY <1>1, <2>1 DEF Fits
    <3>2. rows[row] \in Row
      BY <3>1
    <3>3. at \in 0 .. Open
      BY BoundsAssumption DEF Times, Open
    <3>4. ended \in Row /\ ended.from = rows[row].from /\ ended.value = rows[row].value
          /\ ended.to = at
      BY <3>2, <3>3 DEF Row
    <3> HIDE DEF ended
    <3>5. /\ [rows EXCEPT ![row] = ended] \in Seq(Row)
          /\ Len([rows EXCEPT ![row] = ended]) = Len(rows)
          /\ [rows EXCEPT ![row] = ended][row] = ended
          /\ \A i \in 1 .. Len(rows) : i # row => [rows EXCEPT ![row] = ended][i] = rows[i]
      <4>1. ended \in Row
        BY <3>4
      <4>2. row \in 1 .. Len(rows)
        BY <3>1
      <4> HIDE DEF kept
      <4> QED
        BY <4>1, <4>2, Replaced
    <3>6. kept = [rows EXCEPT ![row] = ended]
      BY <2>1 DEF Ended, ended
    <3> HIDE DEF kept
    <3> QED
      BY <3>1, <3>4, <3>5, <3>6
  <2>2. CASE ~closes
    BY <1>1, <2>2
  <2> QED
    BY <2>1, <2>2
<1> HIDE DEF kept
<1>3. NewRow(at, value) \in Row
  BY NewRowTyped
<1>4. /\ Append(kept, NewRow(at, value)) \in Seq(Row)
      /\ Len(Append(kept, NewRow(at, value))) = Len(kept) + 1
      /\ Append(kept, NewRow(at, value))[Len(kept) + 1] = NewRow(at, value)
      /\ \A i \in 1 .. Len(kept) : Append(kept, NewRow(at, value))[i] = kept[i]
  <2>1. kept \in Seq(Row)
    BY <1>2
  <2> QED
    BY <1>3, <2>1, Appended
<1>5. Extended(rows, Append(kept, NewRow(at, value)), at, value)
  BY <1>2, <1>4, Zenon DEF Extended
<1> QED
  BY <1>5 DEF kept

\* A history a change extends has neither gaps nor overlaps when it had none.
LEMMA ExtendedTiles ==
    ASSUME NEW rows \in Seq(Row), Tiled(rows), NEW at \in Times, NEW value \in Assignment,
           NEW after, Extended(rows, after, at, value),
           rows # <<>> => rows[Len(rows)].from < at
    PROVE  Tiled(after)
<1>1. Len(rows) \in Nat /\ Len(after) = Len(rows) + 1 /\ after \in Seq(Row)
  BY DEF Extended
<1>2. after[Len(rows) + 1].from = at /\ after[Len(rows) + 1].to = Open
  BY NewRowTyped DEF Extended
<1>3. at < Open /\ at \in Nat
  BY BoundsAssumption DEF Times, Open
<1>4. \A i \in 1 .. Len(after) : after[i].from < after[i].to
  <2> SUFFICES ASSUME NEW i \in 1 .. Len(after) PROVE after[i].from < after[i].to
    OBVIOUS
  <2>1. CASE i = Len(rows) + 1
    BY <1>2, <1>3, <2>1
  <2>2. CASE i = Len(rows) /\ i # Len(rows) + 1
    <3>1. i \in 1 .. Len(rows) /\ rows # <<>>
      BY <2>2
    <3> QED
      BY <2>2, <3>1 DEF Extended
  <2>3. CASE i # Len(rows) /\ i # Len(rows) + 1
    <3>1. i \in 1 .. Len(rows)
      BY <1>1, <2>3
    <3> QED
      BY <2>3, <3>1 DEF Extended, Tiled
  <2> QED
    BY <2>1, <2>2, <2>3
<1>5. \A i \in 1 .. Len(after) - 1 : after[i].to = after[i + 1].from
  <2> SUFFICES ASSUME NEW i \in 1 .. Len(after) - 1 PROVE after[i].to = after[i + 1].from
    OBVIOUS
  <2>1. i \in 1 .. Len(rows)
    BY <1>1
  <2>2. CASE i = Len(rows)
    BY <1>2, <2>1, <2>2 DEF Extended
  <2>3. CASE i # Len(rows)
    <3>1. i + 1 \in 1 .. Len(rows) /\ i \in 1 .. Len(rows) - 1
      BY <1>1, <2>1, <2>3
    <3> QED
      BY <2>1, <2>3, <3>1 DEF Extended, Tiled
  <2> QED
    BY <2>2, <2>3
<1> QED
  BY <1>1, <1>2, <1>4, <1>5 DEF Tiled

---------------------------------------------------------------------------
(* The inductive invariant.                                                *)

Steps == {"begun", "looked", "closing", "closed", "inserted"}

TxRow == [step : Steps, key : Keys, at : Times, value : Assignment, seen : Nat, row : Nat,
          closes : BOOLEAN, hour : BOOLEAN]

Typed ==
    /\ groups \in [Groups -> {"none", "there", "gone"}]
    /\ now \in Times
    /\ history \in [Keys -> Seq(Row)]
    /\ holder \in [Keys -> Sessions \union {Free}]
    /\ node \in Assignment
    /\ tx \in [Sessions -> TxRow \union {NoTx}]

Tiles == \A k \in Keys : Tiled(history[k])

\* The interval the closing update of a transaction saw open is still there: rows are
\* added at the end and only the end of one is set.
Looked(s) ==
    tx[s].step \in {"closing", "closed", "inserted"} /\ tx[s].row # NoRow =>
        tx[s].row \in 1 .. Len(history[tx[s].key])

\* A transaction that closes an interval holds the lock of its row, and the row is open
\* and begins before the moment of the change, or the CHECK would have refused it.
Holds(s) ==
    tx[s] # NoTx /\ tx[s].closes =>
        /\ tx[s].step \in {"closed", "inserted"}
        /\ holder[tx[s].key] = s
        /\ tx[s].row # NoRow
        /\ IsOpen(tx[s].key, tx[s].row)
        /\ history[tx[s].key][tx[s].row].from < tx[s].at

\* A row inserted overlaps no other, and the group it refers to is there.
Inserted(s) == tx[s].step = "inserted" => ~Overlaps(s) /\ GroupThere(s)

SessionOK(s) == Looked(s) /\ Holds(s) /\ Inserted(s)

\* The insert of a history waits for the end of another one.
OneInserted ==
    \A s, u \in Sessions :
        tx[s].step = "inserted" /\ tx[u].step = "inserted" /\ tx[s].key = tx[u].key => s = u

\* The node has been assigned, and every group it was ever assigned to is there.
There ==
    /\ history[Node] # <<>>
    /\ \A i \in 1 .. Len(history[Node]) : groups[history[Node][i].value.group] = "there"

IInv ==
    /\ Typed
    /\ Tiles
    /\ \A s \in Sessions : SessionOK(s)
    /\ OneInserted
    /\ There

---------------------------------------------------------------------------
(* Steps of one transaction that leave the histories as they are.          *)

\* What is known of the transaction of a session: the fields of an open one.
LEMMA TxTyped ==
    ASSUME Typed, NEW s \in Sessions
    PROVE  /\ tx[s] \in TxRow \union {NoTx}
           /\ tx[s].step # "none" => tx[s] \in TxRow
           /\ tx[s] # NoTx => tx[s] \in TxRow
           /\ tx[s] \in TxRow => /\ tx[s].step \in Steps
                                 /\ tx[s] # NoTx
                                 /\ tx[s].key \in Keys
                                 /\ tx[s].at \in Times
                                 /\ tx[s].value \in Assignment
                                 /\ tx[s].row \in Nat
                                 /\ tx[s].closes \in BOOLEAN
<1>1. tx[s] \in TxRow \union {NoTx}
  BY DEF Typed
<1>2. NoTx.step = "none"
  BY DEF NoTx
<1>3. \A row \in TxRow : /\ row.step \in Steps /\ row.step # "none"
                         /\ row.key \in Keys
                         /\ row.at \in Times
                         /\ row.value \in Assignment
                         /\ row.row \in Nat
                         /\ row.closes \in BOOLEAN
  BY DEF TxRow, Steps
<1>4. \A row \in TxRow : row # NoTx
  BY <1>2, <1>3
<1> QED
  BY <1>1, <1>2, <1>3, <1>4

\* A transaction keeps what is known of it while another one takes a step that neither
\* writes rows nor takes a lock from it.
LEMMA OthersStay ==
    ASSUME Typed, NEW u \in Sessions, SessionOK(u), tx'[u] = tx[u],
           groups' = groups, history' = history,
           \A k \in Keys : holder[k] = u => holder'[k] = u
    PROVE  SessionOK(u)'
<1>1. Looked(u)'
  BY DEF SessionOK, Looked
<1>2. Holds(u)'
  <2>1. Holds(u)
    BY DEF SessionOK
  <2>2. tx[u] # NoTx => tx[u].key \in Keys
    BY TxTyped
  <2> QED
    BY <2>1, <2>2 DEF Holds, IsOpen
<1>3. Inserted(u)'
  <2>1. Inserted(u)
    BY DEF SessionOK
  <2> QED
    BY <2>1 DEF Inserted, Overlaps, GroupThere
<1> QED
  BY <1>1, <1>2, <1>3 DEF SessionOK

\* A step of one transaction preserves the invariant.
LEMMA TxStep ==
    ASSUME IInv, NEW s \in Sessions, NEW row \in TxRow \union {NoTx},
           tx' = [tx EXCEPT ![s] = row],
           UNCHANGED <<groups, now, history, node>>,
           holder' \in [Keys -> Sessions \union {Free}],
           \A u \in Sessions \ {s} : \A k \in Keys : holder[k] = u => holder'[k] = u,
           SessionOK(s)',
           row.step = "inserted" =>
               \A u \in Sessions \ {s} : ~(tx[u].step = "inserted" /\ tx[u].key = row.key)
    PROVE  IInv'
<1>1. Typed
  BY DEF IInv
<1>2. tx'[s] = row /\ \A u \in Sessions \ {s} : tx'[u] = tx[u]
  BY <1>1 DEF Typed
<1>3. Typed'
  BY <1>1 DEF Typed
<1>4. Tiles' /\ There'
  BY DEF IInv, Tiles, There
<1>5. \A u \in Sessions : SessionOK(u)'
  <2> SUFFICES ASSUME NEW u \in Sessions, u # s PROVE SessionOK(u)'
    OBVIOUS
  <2>1. SessionOK(u)
    BY DEF IInv
  <2>2. tx'[u] = tx[u] /\ \A k \in Keys : holder[k] = u => holder'[k] = u
    BY <1>2
  <2> QED
    BY <1>1, <2>1, <2>2, OthersStay
<1>6. OneInserted'
  <2>1. OneInserted
    BY DEF IInv
  <2> SUFFICES ASSUME NEW v \in Sessions, NEW u \in Sessions,
                      tx'[v].step = "inserted", tx'[u].step = "inserted",
                      tx'[v].key = tx'[u].key
               PROVE  v = u
    BY DEF OneInserted
  <2>2. CASE v = s
    BY <1>2, <2>2
  <2>3. CASE u = s
    BY <1>2, <2>3
  <2>4. CASE v # s /\ u # s
    BY <1>2, <2>1, <2>4 DEF OneInserted
  <2> QED
    BY <2>2, <2>3, <2>4
<1> QED
  BY <1>3, <1>4, <1>5, <1>6 DEF IInv

\* A transaction that ends without a commit frees what it held.
LEMMA Ending ==
    ASSUME IInv, NEW s \in Sessions, tx' = [tx EXCEPT ![s] = NoTx],
           UNCHANGED <<groups, now, history, node>>,
           holder' = holder \/ holder' = Released(s)
    PROVE  IInv'
<1>1. Typed
  BY DEF IInv
<1>2. /\ holder' \in [Keys -> Sessions \union {Free}]
      /\ \A u \in Sessions \ {s} : \A k \in Keys : holder[k] = u => holder'[k] = u
  BY <1>1 DEF Typed, Released
<1>3. tx'[s] = NoTx
  BY <1>1 DEF Typed
<1>4. NoTx.step = "none"
  BY DEF NoTx
<1>5. SessionOK(s)'
  BY <1>3, <1>4 DEF SessionOK, Looked, Holds, Inserted
<1> QED
  BY <1>2, <1>4, <1>5, TxStep

\* Begin preserves the invariant.
LEMMA BeginKeeps ==
    ASSUME IInv, NEW s \in Sessions, Begin(s)
    PROVE  IInv'
<1>1. Typed
  BY DEF IInv
<1>0. PICK k \in Keys : \E v \in ValuesOf(k) :
          tx' = [tx EXCEPT ![s] = [step |-> "begun", key |-> k, at |-> now, value |-> v,
                                   seen |-> NoRow, row |-> NoRow, closes |-> FALSE,
                                   hour |-> FALSE]]
  BY DEF Begin
<1>2. PICK v \in ValuesOf(k) :
          tx' = [tx EXCEPT ![s] = [step |-> "begun", key |-> k, at |-> now, value |-> v,
                                   seen |-> NoRow, row |-> NoRow, closes |-> FALSE,
                                   hour |-> FALSE]]
  BY <1>0
<1> DEFINE row == [step |-> "begun", key |-> k, at |-> now, value |-> v,
                   seen |-> NoRow, row |-> NoRow, closes |-> FALSE, hour |-> FALSE]
<1>3. v \in Assignment
  <2>1. CASE k = Node
    BY <2>1 DEF ValuesOf
  <2>2. CASE k # Node
    <3>1. k \in Groups /\ v = [group |-> k, own |-> FALSE]
      BY <2>2 DEF ValuesOf, Keys
    <3> QED
      BY <3>1 DEF Assignment
  <2> QED
    BY <2>1, <2>2
<1>4. row \in TxRow /\ row.step = "begun" /\ ~row.closes
  BY <1>1, <1>3 DEF Typed, TxRow, Steps, NoRow
<1>5. tx' = [tx EXCEPT ![s] = row]
  BY <1>2
<1> HIDE DEF row
<1>6. tx'[s] = row
  BY <1>1, <1>5 DEF Typed
<1>7. SessionOK(s)'
  BY <1>4, <1>6 DEF SessionOK, Looked, Holds, Inserted
<1>8. UNCHANGED <<groups, now, history, node>> /\ holder' = holder
  BY DEF Begin
<1>9. holder' \in [Keys -> Sessions \union {Free}]
  BY <1>1, <1>8 DEF Typed
<1> QED
  BY <1>4, <1>5, <1>7, <1>8, <1>9, TxStep

\* The open row, when there is one.
LEMMA OpenRowFound ==
    ASSUME NEW k, history[k] \in Seq(Row)
    PROVE  OpenRow(k) # NoRow => OpenRow(k) \in 1 .. Len(history[k]) /\ IsOpen(k, OpenRow(k))
<1>1. DOMAIN history[k] = 1 .. Len(history[k])
  OBVIOUS
<1> QED
  BY <1>1 DEF OpenRow

\* What the open row is, a natural number also when there is none.
LEMMA OpenRowTyped ==
    ASSUME Typed, NEW s \in Sessions, tx[s] \in TxRow
    PROVE  /\ OpenRow(tx[s].key) \in Nat
           /\ OpenRow(tx[s].key) # NoRow =>
                  OpenRow(tx[s].key) \in 1 .. Len(history[tx[s].key])
<1>1. history[tx[s].key] \in Seq(Row)
  BY TxTyped DEF Typed
<1> DEFINE k == tx[s].key
<1>2. OpenRow(k) # NoRow => OpenRow(k) \in 1 .. Len(history[k])
  <2>1. history[k] \in Seq(Row)
    BY <1>1
  <2> HIDE DEF k
  <2> QED
    BY <2>1, OpenRowFound
<1> QED
  BY <1>1, <1>2 DEF NoRow

\* Look preserves the invariant.
LEMMA LookKeeps ==
    ASSUME IInv, NEW s \in Sessions, Look(s)
    PROVE  IInv'
<1>1. Typed
  BY DEF IInv
<1> DEFINE seen == OpenRow(tx[s].key)
           row == [tx[s] EXCEPT !.step = "looked", !.seen = seen]
<1>2. tx[s] \in TxRow /\ tx[s].step = "begun" /\ tx[s] # NoTx
  <2>1. tx[s].step = "begun"
    BY DEF Look
  <2> QED
    BY <1>1, <2>1, TxTyped
<1>3. seen \in Nat
  BY <1>1, <1>2, OpenRowTyped
<1>4. ~tx[s].closes
  BY <1>2 DEF IInv, SessionOK, Holds
<1>5. tx' = [tx EXCEPT ![s] = row]
  BY <1>1, <1>2 DEF Look, Typed
<1> HIDE DEF seen
<1>6. row \in TxRow /\ row.step = "looked" /\ ~row.closes
  BY <1>2, <1>3, <1>4 DEF TxRow, Steps
<1> HIDE DEF row
<1>7. tx'[s] = row
  BY <1>1, <1>5 DEF Typed
<1>8. UNCHANGED <<groups, now, history, node>> /\ holder' = holder
  BY DEF Look
<1>9. SessionOK(s)'
  BY <1>6, <1>7 DEF SessionOK, Looked, Holds, Inserted
<1>10. holder' \in [Keys -> Sessions \union {Free}]
  BY <1>1, <1>8 DEF Typed
<1> QED
  BY <1>5, <1>6, <1>8, <1>9, <1>10, TxStep

\* The beginning of the closing update preserves the invariant.
LEMMA CloseBeginsKeeps ==
    ASSUME IInv, NEW s \in Sessions, CloseBegins(s)
    PROVE  IInv'
<1>1. Typed
  BY DEF IInv
<1> DEFINE seen == OpenRow(tx[s].key)
           row == [tx[s] EXCEPT !.step = "closing", !.row = seen]
<1>2. tx[s] \in TxRow /\ tx[s].step = "looked" /\ tx[s] # NoTx
  <2>1. tx[s].step = "looked"
    BY DEF CloseBegins
  <2> QED
    BY <1>1, <2>1, TxTyped
<1>3. seen \in Nat /\ (seen # NoRow => seen \in 1 .. Len(history[tx[s].key]))
  BY <1>1, <1>2, OpenRowTyped
<1>4. ~tx[s].closes
  BY <1>2 DEF IInv, SessionOK, Holds
<1>5. tx' = [tx EXCEPT ![s] = row]
  BY <1>1, <1>2 DEF CloseBegins, Typed
<1> HIDE DEF seen
<1>6. /\ row \in TxRow /\ row.step = "closing" /\ row.row = seen
      /\ row.key = tx[s].key /\ ~row.closes
  BY <1>2, <1>3, <1>4 DEF TxRow, Steps
<1> HIDE DEF row
<1>7. tx'[s] = row
  BY <1>1, <1>5 DEF Typed
<1>8. UNCHANGED <<groups, now, history, node>> /\ holder' = holder
  BY DEF CloseBegins
<1>9. SessionOK(s)'
  BY <1>3, <1>6, <1>7, <1>8 DEF SessionOK, Looked, Holds, Inserted
<1>10. holder' \in [Keys -> Sessions \union {Free}]
  BY <1>1, <1>8 DEF Typed
<1> QED
  BY <1>5, <1>6, <1>8, <1>9, <1>10, TxStep

\* CloseNothing preserves the invariant.
LEMMA CloseNothingKeeps ==
    ASSUME IInv, NEW s \in Sessions, CloseNothing(s)
    PROVE  IInv'
<1>1. Typed
  BY DEF IInv
<1> DEFINE row == [tx[s] EXCEPT !.step = "closed"]
<1>2. tx[s] \in TxRow /\ tx[s].step = "closing" /\ tx[s].row = NoRow
  <2>1. tx[s].step = "closing" /\ tx[s].row = NoRow
    BY DEF CloseNothing
  <2> QED
    BY <1>1, <2>1, TxTyped
<1>3. ~tx[s].closes
  BY <1>1, <1>2, TxTyped DEF IInv, SessionOK, Holds
<1>4. row \in TxRow /\ row.step = "closed" /\ row.row = NoRow /\ ~row.closes
  BY <1>2, <1>3 DEF TxRow, Steps
<1>5. tx' = [tx EXCEPT ![s] = row]
  BY <1>1 DEF CloseNothing, Typed
<1> HIDE DEF row
<1>6. tx'[s] = row
  BY <1>1, <1>5 DEF Typed
<1>7. UNCHANGED <<groups, now, history, node>> /\ holder' = holder
  BY DEF CloseNothing
<1>8. SessionOK(s)'
  BY <1>4, <1>6 DEF SessionOK, Looked, Holds, Inserted
<1>9. holder' \in [Keys -> Sessions \union {Free}]
  BY <1>1, <1>7 DEF Typed
<1> QED
  BY <1>4, <1>5, <1>7, <1>8, <1>9, TxStep

\* Close preserves the invariant: it locks the row that it saw only when nobody holds it,
\* it is still open and it begins before the change.
LEMMA CloseKeeps ==
    ASSUME IInv, NEW s \in Sessions, Close(s)
    PROVE  IInv'
<1>1. Typed
  BY DEF IInv
<1> DEFINE k == tx[s].key
           row == [tx[s] EXCEPT !.step = "closed", !.closes = StillOpen(s)]
<1>2. tx[s] \in TxRow /\ k \in Keys /\ tx[s].step = "closing" /\ tx[s].row # NoRow
  <2>1. tx[s].step = "closing" /\ tx[s].row # NoRow
    BY DEF Close
  <2> QED
    BY <1>1, <2>1, TxTyped
<1>3. StillOpen(s) \in BOOLEAN
  BY DEF StillOpen, IsOpen
<1>4. /\ row \in TxRow
      /\ row.step = "closed" /\ row.row = tx[s].row /\ row.key = k /\ row.at = tx[s].at
      /\ row.closes = StillOpen(s)
  <2>1. tx[s] \in TxRow /\ StillOpen(s) \in BOOLEAN
    BY <1>2, <1>3
  <2> QED
    BY <2>1 DEF TxRow, Steps
<1>5. tx' = [tx EXCEPT ![s] = row]
  BY <1>1 DEF Close, Typed
<1>6. Looked(s)
  BY DEF IInv, SessionOK
<1>7. /\ UNCHANGED <<groups, now, history, node>>
      /\ holder[k] = Free
      /\ holder' = IF StillOpen(s) THEN [holder EXCEPT ![k] = s] ELSE holder
  BY DEF Close
<1> HIDE DEF row
<1>8. tx'[s] = row
  BY <1>1, <1>5 DEF Typed
<1>9. StillOpen(s) => /\ holder'[k] = s /\ IsOpen(k, tx[s].row)
                      /\ history[k][tx[s].row].from < tx[s].at
  <2> SUFFICES ASSUME StillOpen(s) PROVE history[k][tx[s].row].from < tx[s].at
    BY <1>1, <1>2, <1>7 DEF Typed, StillOpen
  <2>1. ~(history[k][tx[s].row].from >= tx[s].at)
    BY DEF Close, CheckViolated, Empties
  <2>2. history[k] \in Seq(Row) /\ tx[s].row \in 1 .. Len(history[k])
    BY <1>1, <1>2, <1>6 DEF Typed, Looked
  <2>3. history[k][tx[s].row].from \in Nat
    BY <2>2, RowTyped
  <2>4. tx[s].at \in Nat
    BY <1>1, <1>2, TxTyped, BoundsAssumption DEF Times
  <2> QED
    BY <2>1, <2>3, <2>4
<1>10. SessionOK(s)'
  <2>1. Looked(s)'
    BY <1>2, <1>4, <1>6, <1>7, <1>8 DEF Looked
  <2>2. Holds(s)'
    BY <1>2, <1>4, <1>7, <1>8, <1>9 DEF Holds, IsOpen
  <2>3. Inserted(s)'
    BY <1>4, <1>8 DEF Inserted
  <2> QED
    BY <2>1, <2>2, <2>3 DEF SessionOK
<1>11. holder' \in [Keys -> Sessions \union {Free}]
  BY <1>1, <1>7 DEF Typed
<1>12. \A u \in Sessions \ {s} : \A key \in Keys : holder[key] = u => holder'[key] = u
  BY <1>1, <1>2, <1>7, SessionsAssumption DEF Typed
<1> QED
  BY <1>4, <1>5, <1>7, <1>10, <1>11, <1>12, TxStep

\* Insert preserves the invariant: it waits for the other inserts of the history.
LEMMA InsertKeeps ==
    ASSUME IInv, NEW s \in Sessions, Insert(s)
    PROVE  IInv'
<1>1. Typed
  BY DEF IInv
<1> DEFINE k == tx[s].key
           hour == IF k = Node THEN TRUE ELSE node.group = k /\ ~node.own
           row == [tx[s] EXCEPT !.step = "inserted", !.hour = hour]
<1>2. tx[s] \in TxRow /\ k \in Keys /\ tx[s].step = "closed"
  <2>1. tx[s].step = "closed"
    BY DEF Insert
  <2> QED
    BY <1>1, <2>1, TxTyped
<1>3. hour \in BOOLEAN
  BY <1>1 DEF Typed, Assignment
<1>4. tx' = [tx EXCEPT ![s] = row]
  BY <1>1 DEF Insert, Typed
<1> HIDE DEF hour
<1>5. /\ row \in TxRow
      /\ row.step = "inserted" /\ row.row = tx[s].row /\ row.key = k /\ row.at = tx[s].at
      /\ row.closes = tx[s].closes /\ row.value = tx[s].value
  <2>1. tx[s] \in TxRow /\ hour \in BOOLEAN
    BY <1>2, <1>3
  <2> QED
    BY <2>1 DEF TxRow, Steps
<1>6. UNCHANGED <<groups, now, history, node>> /\ holder' = holder
  BY DEF Insert
<1>7. GroupThere(s) /\ ~Overlaps(s) /\ ~Pending(s)
  BY DEF Insert, Excluded
<1> HIDE DEF row
<1>8. tx'[s] = row
  BY <1>1, <1>4 DEF Typed
<1>9. SessionOK(s)'
  <2>1. Looked(s) /\ Holds(s)
    BY DEF IInv, SessionOK
  <2>2. Looked(s)'
    BY <1>2, <1>5, <1>6, <1>8, <2>1 DEF Looked
  <2>3. Holds(s)'
    <3>1. tx[s] # NoTx
      BY <1>1, <1>2, TxTyped
    <3> QED
      BY <1>5, <1>6, <1>8, <2>1, <3>1 DEF Holds, IsOpen
  <2>4. Inserted(s)'
    BY <1>5, <1>6, <1>7, <1>8 DEF Inserted, Overlaps, GroupThere
  <2> QED
    BY <2>2, <2>3, <2>4 DEF SessionOK
<1>10. holder' \in [Keys -> Sessions \union {Free}]
  BY <1>1, <1>6 DEF Typed
<1>11. \A u \in Sessions \ {s} : ~(tx[u].step = "inserted" /\ tx[u].key = row.key)
  BY <1>5, <1>7 DEF Pending
<1> QED
  BY <1>4, <1>5, <1>6, <1>9, <1>10, <1>11, TxStep

---------------------------------------------------------------------------
(* Commit.                                                                 *)

\* The change of a transaction about to commit fits its history.
LEMMA CommitFits ==
    ASSUME IInv, NEW s \in Sessions, tx[s].step = "inserted"
    PROVE  /\ tx[s] \in TxRow /\ tx[s].key \in Keys
           /\ history[tx[s].key] \in Seq(Row) /\ Tiled(history[tx[s].key])
           /\ tx[s].at \in Times /\ tx[s].value \in Assignment /\ tx[s].closes \in BOOLEAN
           /\ Fits(history[tx[s].key], tx[s].closes, tx[s].row, tx[s].at)
<1>1. Typed
  BY DEF IInv
<1> DEFINE k == tx[s].key
<1>2. /\ tx[s] \in TxRow /\ k \in Keys /\ tx[s].at \in Times /\ tx[s].value \in Assignment
      /\ tx[s].closes \in BOOLEAN /\ tx[s] # NoTx
  BY <1>1, TxTyped
<1>3. history[k] \in Seq(Row) /\ Tiled(history[k])
  BY <1>1, <1>2 DEF Typed, IInv, Tiles
<1>4. DOMAIN history[k] = 1 .. Len(history[k])
  BY <1>3
<1>5. Looked(s) /\ Holds(s) /\ ~Overlaps(s)
  BY DEF IInv, SessionOK, Inserted
<1>6. \A i \in 1 .. Len(history[k]) :
          ~(tx[s].closes /\ i = tx[s].row) => ~(history[k][i].to > tx[s].at)
  BY <1>4, <1>5 DEF Overlaps
<1>7. tx[s].closes => /\ tx[s].row \in 1 .. Len(history[k])
                      /\ history[k][tx[s].row].to = Open
                      /\ history[k][tx[s].row].from < tx[s].at
  BY <1>2, <1>5 DEF Looked, Holds, IsOpen
<1> QED
  BY <1>2, <1>3, <1>6, <1>7 DEF Fits

\* What Commit does to the histories.
LEMMA CommitWrites ==
    ASSUME IInv, NEW s \in Sessions, Commit(s)
    PROVE  /\ history' \in [Keys -> Seq(Row)]
           /\ Extended(history[tx[s].key], history'[tx[s].key], tx[s].at, tx[s].value)
           /\ Tiled(history'[tx[s].key])
           /\ \A k \in Keys \ {tx[s].key} : history'[k] = history[k]
<1>1. Typed /\ tx[s].step = "inserted"
  BY DEF IInv, Commit
<1> DEFINE k == tx[s].key
           rows == history[k]
           at == tx[s].at
           value == tx[s].value
           closes == tx[s].closes
           row == tx[s].row
           after == Append(IF closes THEN Ended(rows, row, at) ELSE rows, NewRow(at, value))
<1>2. /\ k \in Keys /\ rows \in Seq(Row) /\ Tiled(rows)
      /\ at \in Times /\ value \in Assignment /\ closes \in BOOLEAN
      /\ Fits(rows, closes, row, at)
  BY <1>1, CommitFits
<1>3. history' = [history EXCEPT ![k] = after]
  BY DEF Commit, RowsAfter, Ended, NewRow
<1>4. Extended(rows, after, at, value)
  <2> HIDE DEF k, rows, at, value, closes, row
  <2> QED
    BY <1>2, CommitExtends
<1>5. rows # <<>> => rows[Len(rows)].from < at
  <2>1. IF closes THEN row = Len(rows) ELSE rows = <<>>
    <3> HIDE DEF k, rows, at, value, closes, row
    <3> QED
      BY <1>2, ClosesTheLast
  <2> QED
    BY <1>2, <2>1 DEF Fits
<1>6. Tiled(after)
  <2> HIDE DEF k, rows, at, value, closes, row, after
  <2> QED
    BY <1>2, <1>4, <1>5, ExtendedTiles
<1>7. after \in Seq(Row)
  BY <1>4 DEF Extended
<1> HIDE DEF after
<1>8. history'[k] = after /\ \A key \in Keys \ {k} : history'[key] = history[key]
  BY <1>1, <1>2, <1>3 DEF Typed
<1>9. history' \in [Keys -> Seq(Row)]
  BY <1>1, <1>3, <1>7 DEF Typed
<1> QED
  BY <1>4, <1>6, <1>8, <1>9

\* The intervals a session looked at, and the one it holds, are unharmed by the commit of
\* another one: of the histories it changes it was the only one to hold the lock.
LEMMA OthersCommit ==
    ASSUME IInv, NEW s \in Sessions, Commit(s), NEW u \in Sessions \ {s}
    PROVE  SessionOK(u)'
<1>1. Typed /\ tx[s].step = "inserted" /\ SessionOK(u) /\ OneInserted
  BY DEF IInv, Commit
<1> DEFINE k == tx[s].key
<1>2. tx'[u] = tx[u] /\ groups' = groups
  BY <1>1 DEF Commit, Typed
<1>3. \A key \in Keys : holder[key] = u => holder'[key] = u
  BY <1>1 DEF Commit, Released, Typed
<1>4. CASE tx[u] = NoTx
  <2>1. NoTx.step = "none"
    BY DEF NoTx
  <2> QED
    BY <1>2, <1>4, <2>1 DEF SessionOK, Looked, Holds, Inserted
<1>5. CASE tx[u] # NoTx
  <2>1. tx[u].key \in Keys
    BY <1>1, <1>5, TxTyped
  <2>2. CASE tx[u].key # k
    <3>1. history'[tx[u].key] = history[tx[u].key]
      BY <2>1, <2>2, CommitWrites
    <3>2. Looked(u)'
      BY <1>1, <1>2, <3>1 DEF SessionOK, Looked
    <3>3. Holds(u)'
      BY <1>1, <1>2, <1>3, <2>1, <3>1 DEF SessionOK, Holds, IsOpen
    <3>4. Inserted(u)'
      BY <1>1, <1>2, <3>1 DEF SessionOK, Inserted, Overlaps, GroupThere
    <3> QED
      BY <3>2, <3>3, <3>4 DEF SessionOK
  <2>3. CASE tx[u].key = k
    <3> DEFINE rows == history[k]
    <3>1. rows \in Seq(Row) /\ Tiled(rows) /\ tx[s].closes \in BOOLEAN /\ tx[s].at \in Times
          /\ Fits(rows, tx[s].closes, tx[s].row, tx[s].at)
      BY <1>1, CommitFits
    <3>2. Extended(rows, history'[k], tx[s].at, tx[s].value)
      BY CommitWrites
    <3>3. tx[u].step # "inserted"
      BY <1>1, <2>3 DEF OneInserted
    <3>4. ~tx[u].closes
      <4> SUFFICES ASSUME tx[u].closes PROVE FALSE
        OBVIOUS
      <4>1. holder[k] = u /\ tx[u].row # NoRow /\ rows[tx[u].row].to = Open
            /\ tx[u].row \in 1 .. Len(rows)
        BY <1>1, <1>5, <2>3 DEF SessionOK, Holds, Looked, IsOpen
      <4>2. IF tx[s].closes THEN tx[s].row = Len(rows) ELSE rows = <<>>
        <5> HIDE DEF rows
        <5> QED
          BY <3>1, ClosesTheLast
      <4>3. tx[s].closes
        BY <4>1, <4>2
      <4>4. holder[k] = s
        <5>1. tx[s] # NoTx /\ Holds(s)
          BY <1>1, TxTyped DEF IInv, SessionOK
        <5> QED
          BY <4>3, <5>1 DEF Holds
      <4> QED
        BY <4>1, <4>4
    <3>5. Looked(u)'
      <4>1. Looked(u)
        BY <1>1 DEF SessionOK
      <4>2. Len(rows) \in Nat /\ Len(history'[k]) = Len(rows) + 1
        BY <3>1, <3>2 DEF Extended
      <4>3. \A i \in 1 .. Len(rows) : i \in 1 .. Len(history'[k])
        BY <4>2
      <4> SUFFICES ASSUME tx[u].step \in {"closing", "closed", "inserted"}, tx[u].row # NoRow
                   PROVE  tx[u].row \in 1 .. Len(history'[k])
        BY <1>2, <2>3 DEF Looked
      <4>4. tx[u].row \in 1 .. Len(rows)
        BY <2>3, <4>1 DEF Looked
      <4> QED
        BY <4>3, <4>4
    <3> QED
      BY <1>2, <3>3, <3>4, <3>5 DEF SessionOK, Holds, Inserted
  <2> QED
    BY <2>2, <2>3
<1> QED
  BY <1>4, <1>5

\* Commit preserves the invariant.
LEMMA CommitKeeps ==
    ASSUME IInv, NEW s \in Sessions, Commit(s)
    PROVE  IInv'
<1>1. Typed /\ tx[s].step = "inserted" /\ Tiles /\ OneInserted /\ There
  BY DEF IInv, Commit
<1> DEFINE k == tx[s].key
<1>2. /\ k \in Keys /\ tx[s].value \in Assignment /\ history[k] \in Seq(Row)
      /\ tx[s].at \in Times
  BY <1>1, CommitFits
<1>3. /\ history' \in [Keys -> Seq(Row)]
      /\ Extended(history[k], history'[k], tx[s].at, tx[s].value)
      /\ Tiled(history'[k])
      /\ \A key \in Keys \ {k} : history'[key] = history[key]
  BY CommitWrites
<1>4. /\ tx' = [tx EXCEPT ![s] = NoTx] /\ tx'[s] = NoTx
      /\ \A u \in Sessions \ {s} : tx'[u] = tx[u]
      /\ UNCHANGED <<groups, now>> /\ node' = NodeAfter(s) /\ holder' = Released(s)
  BY <1>1 DEF Commit, Typed
<1>5. Typed'
  <2>1. node' \in Assignment
    BY <1>1, <1>2, <1>4 DEF NodeAfter, Typed
  <2>2. holder' \in [Keys -> Sessions \union {Free}]
    BY <1>1, <1>4 DEF Released, Typed
  <2>3. tx' \in [Sessions -> TxRow \union {NoTx}]
    BY <1>1, <1>4 DEF Typed
  <2> QED
    BY <1>1, <1>3, <1>4, <2>1, <2>2, <2>3 DEF Typed
<1>6. Tiles'
  BY <1>1, <1>3 DEF Tiles
<1>7. NoTx.step = "none"
  BY DEF NoTx
<1>8. \A u \in Sessions : SessionOK(u)'
  <2>1. SessionOK(s)'
    BY <1>4, <1>7 DEF SessionOK, Looked, Holds, Inserted
  <2> QED
    BY <2>1, OthersCommit
<1>9. OneInserted'
  <2> SUFFICES ASSUME NEW v \in Sessions, NEW u \in Sessions,
                      tx'[v].step = "inserted", tx'[u].step = "inserted",
                      tx'[v].key = tx'[u].key
               PROVE  v = u
    BY DEF OneInserted
  <2>1. v # s /\ u # s
    BY <1>4, <1>7
  <2> QED
    BY <1>1, <1>4, <2>1 DEF OneInserted
<1>10. There'
  <2>1. Node \in Keys
    BY DEF Keys
  <2>2. CASE k # Node
    BY <1>1, <1>3, <1>4, <2>1, <2>2 DEF There
  <2>3. CASE k = Node
    <3> DEFINE rows == history[Node]
               after == history'[Node]
    <3>1. /\ rows \in Seq(Row) /\ after \in Seq(Row) /\ Len(after) = Len(rows) + 1
          /\ after[Len(rows) + 1] = NewRow(tx[s].at, tx[s].value)
          /\ \A i \in 1 .. Len(rows) : after[i].value = rows[i].value
      BY <1>2, <1>3, <2>3 DEF Extended
    <3>2. groups[tx[s].value.group] = "there"
      BY <1>1 DEF IInv, SessionOK, Inserted, GroupThere
    <3>3. after[Len(rows) + 1].value = tx[s].value
      BY <1>2, <3>1, NewRowTyped
    <3>4. \A i \in 1 .. Len(rows) : groups[rows[i].value.group] = "there"
      BY <1>1 DEF There
    <3>5. Len(rows) \in Nat /\ after # <<>>
      BY <3>1
    <3>6. \A i \in 1 .. Len(after) : groups[after[i].value.group] = "there"
      <4> SUFFICES ASSUME NEW i \in 1 .. Len(after)
                   PROVE  groups[after[i].value.group] = "there"
        OBVIOUS
      <4>1. i = Len(rows) + 1 \/ i \in 1 .. Len(rows)
        BY <3>1, <3>5
      <4> QED
        BY <3>1, <3>2, <3>3, <3>4, <4>1
    <3> QED
      BY <1>4, <3>5, <3>6 DEF There
  <2> QED
    BY <2>2, <2>3
<1> QED
  BY <1>5, <1>6, <1>8, <1>9, <1>10 DEF IInv

---------------------------------------------------------------------------
(* The other steps, and the theorems.                                      *)

\* A deletion preserves the invariant: a group with a row, committed or not, stays.
LEMMA GroupStep ==
    ASSUME IInv, NEW g \in Groups, CreateBilling(g) \/ DeleteBilling(g)
    PROVE  IInv'
<1>1. Typed /\ There /\ UNCHANGED <<now, history, holder, node, tx>>
  BY DEF IInv, CreateBilling, DeleteBilling
<1>2. Typed'
  BY <1>1 DEF Typed, CreateBilling, DeleteBilling
<1>3. \A h \in Groups : groups[h] = "there" => groups'[h] = "there" \/ (h = g /\ ~Referred(g))
  BY <1>1 DEF Typed, CreateBilling, DeleteBilling
<1>4. There'
  <2>1. DOMAIN history[Node] = 1 .. Len(history[Node]) /\ history[Node] \in Seq(Row)
    BY <1>1 DEF Typed, Keys
  <2>2. \A i \in 1 .. Len(history[Node]) : history[Node][i].value.group \in Groups
    <3>1. \A i \in 1 .. Len(history[Node]) : history[Node][i] \in Row
      BY <2>1
    <3> QED
      BY <3>1, RowTyped
  <2> QED
    BY <1>1, <1>3, <2>1, <2>2 DEF There, Referred
<1>5. \A s \in Sessions : SessionOK(s)'
  <2> SUFFICES ASSUME NEW s \in Sessions PROVE SessionOK(s)'
    OBVIOUS
  <2>1. SessionOK(s)
    BY DEF IInv
  <2>2. Looked(s)' /\ Holds(s)'
    BY <1>1, <2>1 DEF SessionOK, Looked, Holds, IsOpen
  <2>3. Inserted(s)'
    <3> SUFFICES ASSUME tx[s].step = "inserted" PROVE ~Overlaps(s)' /\ GroupThere(s)'
      BY <1>1 DEF Inserted
    <3>1. ~Overlaps(s) /\ GroupThere(s)
      BY <2>1 DEF SessionOK, Inserted
    <3>2. tx[s].value.group \in Groups
      BY <1>1, TxTyped DEF Assignment
    <3>3. GroupThere(s)'
      BY <1>1, <1>3, <3>1, <3>2 DEF GroupThere, Referred
    <3> QED
      BY <1>1, <3>1, <3>3 DEF Overlaps
  <2> QED
    BY <2>2, <2>3 DEF SessionOK
<1> QED
  BY <1>1, <1>2, <1>4, <1>5 DEF IInv, Tiles, OneInserted

\* The clock does not matter to the invariant.
LEMMA ClockStep ==
    ASSUME IInv, Tick \/ SetBack
    PROVE  IInv'
<1>1. Typed /\ UNCHANGED <<groups, history, holder, node, tx>>
  BY DEF IInv, Tick, SetBack
<1>2. now' \in Times
  BY <1>1, BoundsAssumption DEF Typed, Times, Tick, SetBack
<1>3. Typed'
  BY <1>1, <1>2 DEF Typed
<1>4. \A s \in Sessions : SessionOK(s)'
  BY <1>1 DEF IInv, SessionOK, Looked, Holds, Inserted, Overlaps, GroupThere, IsOpen
<1> QED
  BY <1>1, <1>3, <1>4 DEF IInv, Tiles, OneInserted, There

\* The invariant holds at the start, with the first assignment of the node.
LEMMA Initial == BillingInit => IInv
<1> SUFFICES ASSUME BillingInit PROVE IInv
  OBVIOUS
<1>1. now \in Times /\ now < Open /\ Open \in 0 .. Open
  BY BoundsAssumption DEF BillingInit, Times, Open
<1>2. PICK g \in Groups :
          /\ groups = [h \in Groups |-> IF h = g THEN "there" ELSE "none"]
          /\ node = [group |-> g, own |-> FALSE]
          /\ history = [k \in Keys |->
                 IF k = Node THEN <<[from |-> now, to |-> Open, value |-> node]>> ELSE <<>>]
  BY DEF BillingInit
<1> DEFINE first == [from |-> now, to |-> Open, value |-> node]
<1>3. node \in Assignment
  BY <1>2 DEF Assignment
<1>4. first \in Row /\ first.from < first.to /\ first.to = Open /\ first.value = node
  BY <1>1, <1>3 DEF Row
<1>5. node.group = g /\ groups[g] = "there"
  BY <1>2
<1>6. \A k \in Keys : history[k] = IF k = Node THEN <<first>> ELSE <<>>
  BY <1>2
<1> HIDE DEF first
<1>7. history \in [Keys -> Seq(Row)]
  <2>1. <<first>> \in Seq(Row) /\ <<>> \in Seq(Row)
    BY <1>4
  <2>2. history = [k \in Keys |-> history[k]]
    BY <1>2
  <2> QED
    BY <1>6, <2>1, <2>2
<1>8. NoTx.step = "none" /\ \A s \in Sessions : tx[s] = NoTx
  BY DEF NoTx, BillingInit
<1>9. Typed
  BY <1>1, <1>2, <1>3, <1>7 DEF BillingInit, Typed
<1>10. Tiles
  BY <1>4, <1>6 DEF Tiles, Tiled
<1>11. \A s \in Sessions : SessionOK(s)
  BY <1>8 DEF SessionOK, Looked, Holds, Inserted
<1>12. OneInserted
  BY <1>8 DEF OneInserted
<1>13. There
  <2>1. history[Node] = <<first>>
    BY <1>6 DEF Keys
  <2>2. Len(history[Node]) = 1 /\ history[Node][1] = first /\ history[Node] # <<>>
    BY <2>1
  <2>3. \A i \in 1 .. Len(history[Node]) : history[Node][i].value = node
    BY <1>4, <2>2
  <2> QED
    BY <1>5, <2>2, <2>3 DEF There
<1> QED
  BY <1>9, <1>10, <1>11, <1>12, <1>13 DEF IInv

\* Every step preserves the invariant.
LEMMA Inductive == IInv /\ [BillingNext]_billingVars => IInv'
<1> SUFFICES ASSUME IInv, [BillingNext]_billingVars PROVE IInv'
  OBVIOUS
<1>1. ASSUME NEW s \in Sessions, Change(s) PROVE IInv'
  <2>1. CASE Begin(s)
    BY <2>1, BeginKeeps
  <2>2. CASE Look(s)
    BY <2>2, LookKeeps
  <2>3. CASE LookRefused(s)
    BY <2>3, Ending DEF LookRefused
  <2>4. CASE CloseNothing(s)
    BY <2>4, CloseNothingKeeps
  <2>5. CASE Close(s)
    BY <2>5, CloseKeeps
  <2>6. CASE Insert(s)
    BY <2>6, InsertKeeps
  <2>7. CASE InsertRefused(s)
    BY <2>7, Ending DEF InsertRefused
  <2>8. CASE Commit(s)
    BY <2>8, CommitKeeps
  <2>9. CASE Abort(s)
    BY <2>9, Ending DEF Abort
  <2>10. CASE CloseBegins(s)
    BY <2>10, CloseBeginsKeeps
  <2>11. CASE CloseRefused(s)
    BY <2>11, Ending DEF CloseRefused
  <2> QED
    BY <1>1, <2>1, <2>2, <2>3, <2>4, <2>5, <2>6, <2>7, <2>8, <2>9, <2>10, <2>11 DEF Change
<1>2. CASE UNCHANGED billingVars
  <2>1. UNCHANGED <<groups, now, history, holder, node, tx>>
    BY <1>2 DEF billingVars
  <2>2. \A s \in Sessions : SessionOK(s)'
    BY <2>1 DEF IInv, SessionOK, Looked, Holds, Inserted, Overlaps, GroupThere, IsOpen
  <2> QED
    BY <2>1, <2>2 DEF IInv, Typed, Tiles, OneInserted, There
<1> QED
  BY <1>1, <1>2, GroupStep, ClockStep DEF BillingNext

\* In every reachable state of the billing history the invariant holds.
THEOREM Invariance == BillingSpec => []IInv
<1>1. BillingInit => IInv
  BY Initial
<1>2. IInv /\ [BillingNext]_billingVars => IInv'
  BY Inductive
<1> QED
  BY <1>1, <1>2, PTL DEF BillingSpec

\* Every variable keeps its shape, and a transaction that closes an interval holds its
\* row, which is still open.
THEOREM TypeCorrect == BillingSpec => []BillingTypeOK
<1>1. IInv => BillingTypeOK
  <2> SUFFICES ASSUME IInv PROVE BillingTypeOK
    OBVIOUS
  <2>1. Typed
    BY DEF IInv
  <2>2. \A k \in Keys : \A i \in DOMAIN history[k] : history[k][i] \in Row
    <3>1. \A k \in Keys : history[k] \in Seq(Row)
      BY <2>1 DEF Typed
    <3> QED
      BY <3>1
  <2>3. \A s \in Sessions : tx[s].step \in
            {"none", "begun", "looked", "closing", "closed", "inserted"}
    BY <2>1, TxTyped DEF Steps, NoTx
  <2>4. \A s \in Sessions : tx[s] # NoTx /\ tx[s].closes =>
            holder[tx[s].key] = s /\ IsOpen(tx[s].key, tx[s].row)
    BY DEF IInv, SessionOK, Holds
  <2> QED
    BY <2>1, <2>2, <2>3, <2>4 DEF Typed, BillingTypeOK
<1> QED
  BY <1>1, Invariance, PTL

\* A history has neither gaps nor overlaps, whatever transactions change it at once.
THEOREM NoGaps == BillingSpec => []HistoryTiles
<1>1. IInv => HistoryTiles
  <2> SUFFICES ASSUME IInv, NEW k \in Keys
               PROVE  /\ \A i \in DOMAIN history[k] : history[k][i].from < history[k][i].to
                      /\ \A i \in 1 .. Len(history[k]) - 1 :
                             history[k][i].to = history[k][i + 1].from
                      /\ history[k] # <<>> => IsOpen(k, Len(history[k]))
    BY DEF HistoryTiles
  <2>1. history[k] \in Seq(Row) /\ Tiled(history[k])
    BY DEF IInv, Typed, Tiles
  <2>2. DOMAIN history[k] = 1 .. Len(history[k])
    BY <2>1
  <2> QED
    BY <2>1, <2>2 DEF Tiled, IsOpen
<1> QED
  BY <1>1, Invariance, PTL

\* A change commits only when the row its closing update saw is still the last one and
\* closed by it, or when there is none: it follows the interval it closed.
THEOREM FollowsClosed == BillingSpec => FollowsWhatItClosed
<1> DEFINE Step ==
        \A s \in Sessions : \A k \in Keys :
            tx[s].step = "inserted" /\ tx[s].key = k /\ history'[k] # history[k]
                /\ tx'[s] = NoTx
                => tx[s].row = Len(history[k]) /\ tx[s].closes = (history[k] # <<>>)
<1>1. IInv /\ [BillingNext]_billingVars => [Step]_billingVars
  <2> SUFFICES ASSUME IInv, BillingNext, NEW s \in Sessions, tx[s].step = "inserted",
                      history'[tx[s].key] # history[tx[s].key], tx'[s] = NoTx
               PROVE  /\ tx[s].row = Len(history[tx[s].key])
                      /\ tx[s].closes = (history[tx[s].key] # <<>>)
    OBVIOUS
  <2> DEFINE rows == history[tx[s].key]
  <2>1. Commit(s)
    <3>1. PICK u \in Sessions : Commit(u)
      BY DEF BillingNext, Change, Begin, Look, LookRefused, CloseBegins, CloseNothing, Close,
             CloseRefused, Insert, InsertRefused, Abort, CreateBilling, DeleteBilling, Tick, SetBack
    <3>2. CASE u # s
      <4>1. tx'[s] = tx[s]
        BY <3>1, <3>2 DEF Commit, IInv, Typed
      <4>2. NoTx.step = "none"
        BY DEF NoTx
      <4> QED
        BY <4>1, <4>2
    <3> QED
      BY <3>1, <3>2
  <2>2. /\ rows \in Seq(Row) /\ Tiled(rows) /\ tx[s].closes \in BOOLEAN /\ tx[s].at \in Times
        /\ Fits(rows, tx[s].closes, tx[s].row, tx[s].at)
    BY CommitFits
  <2>3. IF tx[s].closes THEN tx[s].row = Len(rows) ELSE rows = <<>>
    <3> HIDE DEF rows
    <3> QED
      BY <2>2, ClosesTheLast
  <2>4. CASE ~tx[s].closes
    <3>1. rows = <<>>
      BY <2>3, <2>4
    <3>2. Looked(s)
      BY DEF IInv, SessionOK
    <3>3. tx[s].row = NoRow
      BY <3>1, <3>2 DEF Looked
    <3>4. Len(rows) = 0
      BY <3>1
    <3> QED
      BY <2>2, <2>4, <3>1, <3>3, <3>4, Zenon DEF NoRow
  <2>5. CASE tx[s].closes
    <3>1. tx[s].row = Len(rows) /\ tx[s].row \in 1 .. Len(rows)
      BY <2>2, <2>3, <2>5 DEF Fits
    <3>2. rows # <<>>
      BY <2>2, <3>1
    <3> QED
      BY <2>5, <3>1, <3>2
  <2> QED
    BY <2>2, <2>4, <2>5
<1> QED
  BY <1>1, Invariance, PTL DEF BillingSpec, FollowsWhatItClosed

---------------------------------------------------------------------------
(* What a moment is charged by.                                            *)

\* Before the beginning of a change a history covers a moment by the intervals it covered
\* it by, and they begin when they began and name what they named.
LEMMA SameBefore ==
    ASSUME NEW rows \in Seq(Row), Tiled(rows), NEW at \in Times, NEW value \in Assignment,
           NEW after, Extended(rows, after, at, value), NEW moment \in Times, moment < at
    PROVE  \A i : /\ (i \in DOMAIN after /\ after[i].from <= moment /\ moment < after[i].to)
                        <=> (i \in DOMAIN rows /\ rows[i].from <= moment /\ moment < rows[i].to)
                  /\ i \in DOMAIN rows => /\ after[i].from = rows[i].from
                                          /\ after[i].value = rows[i].value
<1>1. /\ Len(rows) \in Nat /\ Len(after) = Len(rows) + 1
      /\ DOMAIN rows = 1 .. Len(rows) /\ DOMAIN after = 1 .. Len(rows) + 1
  BY DEF Extended
<1>2. after[Len(rows) + 1].from = at
  BY NewRowTyped DEF Extended
<1>3. moment \in Nat /\ at \in Nat /\ moment < Open
  BY BoundsAssumption DEF Times, Open
<1>4. \A i \in 1 .. Len(rows) :
          /\ after[i].from = rows[i].from /\ after[i].value = rows[i].value
          /\ after[i].to = IF i = Len(rows) THEN at ELSE rows[i].to
  BY DEF Extended
<1>5. rows # <<>> => rows[Len(rows)].to = Open
  BY DEF Tiled
<1> SUFFICES ASSUME NEW i
             PROVE  (i \in DOMAIN after /\ after[i].from <= moment /\ moment < after[i].to)
                        <=> (i \in DOMAIN rows /\ rows[i].from <= moment /\ moment < rows[i].to)
  BY <1>1, <1>4
<1>6. CASE i \in 1 .. Len(rows)
  <2>1. i \in DOMAIN rows /\ i \in DOMAIN after /\ after[i].from = rows[i].from
    <3>1. i \in 1 .. Len(rows) + 1
      BY <1>1, <1>6
    <3> QED
      BY <1>1, <1>4, <1>6, <3>1, Zenon
  <2>2. (moment < after[i].to) <=> (moment < rows[i].to)
    <3>1. CASE i = Len(rows)
      <4>1. rows # <<>>
        BY <1>6, <3>1
      <4> QED
        BY <1>3, <1>4, <1>5, <1>6, <3>1, <4>1
    <3>2. CASE i # Len(rows)
      BY <1>4, <1>6, <3>2
    <3> QED
      BY <3>1, <3>2
  <2> QED
    BY <2>1, <2>2
<1>7. CASE i \notin 1 .. Len(rows)
  <2>1. i \notin DOMAIN rows
    BY <1>1, <1>7
  <2>2. i \in DOMAIN after => i = Len(rows) + 1
    BY <1>1, <1>7
  <2>3. i \in DOMAIN after => ~(after[i].from <= moment)
    BY <1>2, <1>3, <2>2
  <2> QED
    BY <2>1, <2>3
<1> QED
  BY <1>6, <1>7

\* A history unchanged, or changed from a later moment on, covers a moment as before.
Same(k, at) ==
    /\ Covering(k, at)' = Covering(k, at)
    /\ \A i \in DOMAIN history[k] : /\ history'[k][i].from = history[k][i].from
                                    /\ history'[k][i].value = history[k][i].value

\* A commit leaves a moment before the beginning of the change as it was.
LEMMA SameAfterCommit ==
    ASSUME IInv, NEW s \in Sessions, Commit(s), NEW k \in Keys, NEW at \in Times,
           at < tx[s].at
    PROVE  Same(k, at)
<1>1. tx[s].step = "inserted" /\ history[k] \in Seq(Row) /\ Tiled(history[k])
  BY DEF Commit, IInv, Typed, Tiles
<1>2. CASE k # tx[s].key
  <2>1. history'[k] = history[k]
    BY <1>2, CommitWrites
  <2> QED
    BY <2>1 DEF Same, Covering
<1>3. CASE k = tx[s].key
  <2> DEFINE rows == history[k]
             after == history'[k]
             moment == tx[s].at
             value == tx[s].value
  <2>1. Extended(rows, after, moment, value)
    BY <1>3, CommitWrites
  <2>2. moment \in Times /\ value \in Assignment /\ at < moment
    BY <1>1, CommitFits
  <2>3. \A i : /\ (i \in DOMAIN after /\ after[i].from <= at /\ at < after[i].to)
                     <=> (i \in DOMAIN rows /\ rows[i].from <= at /\ at < rows[i].to)
               /\ i \in DOMAIN rows => /\ after[i].from = rows[i].from
                                       /\ after[i].value = rows[i].value
    <3>1. rows \in Seq(Row) /\ Tiled(rows)
      BY <1>1
    <3> HIDE DEF rows, after, moment, value
    <3> QED
      BY <2>1, <2>2, <3>1, SameBefore
  <2>4. Covering(k, at)' = Covering(k, at)
    BY <2>3 DEF Covering
  <2> QED
    BY <2>3, <2>4 DEF Same
<1> QED
  BY <1>2, <1>3

\* Whatever is charged by is an assignment to a group that is there.
LEMMA ResolvedThere ==
    ASSUME IInv, NEW at \in Times
    PROVE  /\ Resolvable(at)
           /\ groups[Resolved(at).group] = "there"
<1> DEFINE rows == history[Node]
<1>1. rows \in Seq(Row) /\ Tiled(rows) /\ rows # <<>>
  BY DEF IInv, Typed, Tiles, There, Keys
<1>2. Len(rows) \in Nat /\ DOMAIN rows = 1 .. Len(rows) /\ 1 \in 1 .. Len(rows)
  BY <1>1
<1>3. \A i \in 1 .. Len(rows) : groups[rows[i].value.group] = "there"
  BY DEF IInv, There
<1>4. Resolvable(at)
  <2>1. CASE at < rows[1].from
    BY <2>1 DEF Resolvable
  <2>2. CASE ~(at < rows[1].from)
    <3>1. rows[1] \in Row
      BY <1>1, <1>2
    <3>2. rows[1].from <= at
      BY <2>2, <3>1, RowTyped, BoundsAssumption DEF Times
    <3>3. \E i \in 1 .. Len(rows) : rows[i].from <= at /\ at < rows[i].to
      <4> HIDE DEF rows
      <4> QED
        BY <1>1, <3>2, Covered
    <3> QED
      BY <1>2, <3>3 DEF Resolvable, Covering
  <2> QED
    BY <2>1, <2>2
<1>5. \A source, group, since : By(source, group, since).group = group
  BY DEF By
<1>6. CASE Covering(Node, at) = {}
  BY <1>2, <1>3, <1>4, <1>5, <1>6 DEF Resolved
<1>7. CASE Covering(Node, at) # {}
  <2> DEFINE i == CHOOSE i \in Covering(Node, at) : TRUE
  <2>1. i \in Covering(Node, at)
    BY <1>7
  <2>2. i \in 1 .. Len(rows)
    BY <1>2, <2>1 DEF Covering
  <2> DEFINE group == rows[i].value.group
             since == history[group][CHOOSE j \in Covering(group, at) : TRUE].from
  <2>3. Resolved(at) = IF rows[i].value.own THEN By("node", group, rows[i].from)
                       ELSE IF Covering(group, at) # {} THEN By("group", group, since)
                       ELSE By("default", group, 0)
    BY <1>7, Zenon DEF Resolved
  <2> HIDE DEF rows, i, group, since
  <2>4. Resolved(at).group = group
    BY <1>5, <2>3
  <2> QED
    BY <1>3, <1>4, <2>2, <2>4 DEF group
<1> QED
  BY <1>4, <1>6, <1>7

\* What is charged by depends on the intervals that cover the moment only.
LEMMA ResolvedSame ==
    ASSUME IInv, NEW at \in Times, \A k \in Keys : Same(k, at)
    PROVE  Resolved(at)' = Resolved(at)
<1>1. Node \in Keys /\ history[Node] \in Seq(Row) /\ history[Node] # <<>>
  BY DEF IInv, Typed, There, Keys
<1>2. DOMAIN history[Node] = 1 .. Len(history[Node]) /\ 1 \in DOMAIN history[Node]
  BY <1>1
<1>3. Covering(Node, at)' = Covering(Node, at)
  BY <1>1 DEF Same
<1>4. \A i \in DOMAIN history[Node] : /\ history'[Node][i].from = history[Node][i].from
                                      /\ history'[Node][i].value = history[Node][i].value
  BY <1>1 DEF Same
<1>5. CASE Covering(Node, at) = {}
  <2>1. history'[Node][1].value = history[Node][1].value
    BY <1>2, <1>4
  <2> QED
    BY <1>3, <1>5, <2>1 DEF Resolved
<1>6. CASE Covering(Node, at) # {}
  <2>1. PICK i \in Covering(Node, at) : i = CHOOSE j \in Covering(Node, at) : TRUE
    BY <1>6
  <2>2. i \in DOMAIN history[Node] /\ history[Node][i] \in Row
    <3>1. i \in DOMAIN history[Node]
      BY <2>1 DEF Covering
    <3>2. i \in 1 .. Len(history[Node])
      BY <1>2, <3>1
    <3> QED
      BY <1>1, <3>1, <3>2
  <2>3. PICK assignment \in Row : assignment = history[Node][i]
    BY <2>2
  <2>4. PICK group \in Groups : group = assignment.value.group
    BY <2>3, RowTyped
  <2>5. history'[Node][i].value = assignment.value /\ history'[Node][i].from = assignment.from
    BY <1>4, <2>2, <2>3
  <2>6. Same(group, at)
    BY DEF Keys
  <2>7. Covering(group, at)' = Covering(group, at)
    BY <2>6 DEF Same
  <2>8. Resolved(at) =
            IF assignment.value.own THEN By("node", group, assignment.from)
            ELSE IF Covering(group, at) # {}
                 THEN By("group", group,
                         history[group][CHOOSE j \in Covering(group, at) : TRUE].from)
                 ELSE By("default", group, 0)
    BY <1>6, <2>1, <2>3, <2>4 DEF Resolved
  <2>9. Resolved(at)' =
            IF assignment.value.own THEN By("node", group, assignment.from)
            ELSE IF Covering(group, at) # {}
                 THEN By("group", group,
                         history'[group][CHOOSE j \in Covering(group, at) : TRUE].from)
                 ELSE By("default", group, 0)
    BY <1>3, <1>6, <2>1, <2>4, <2>5, <2>7 DEF Resolved
  <2>10. CASE Covering(group, at) = {}
    BY <2>8, <2>9, <2>10
  <2>11. CASE Covering(group, at) # {}
    <3>1. PICK j \in Covering(group, at) : j = CHOOSE l \in Covering(group, at) : TRUE
      BY <2>11
    <3>2. j \in DOMAIN history[group]
      BY <3>1 DEF Covering
    <3>3. history'[group][j].from = history[group][j].from
      BY <2>6, <3>2 DEF Same
    <3> QED
      BY <2>8, <2>9, <3>1, <3>3
  <2> QED
    BY <2>10, <2>11
<1> QED
  BY <1>5, <1>6

\* No charge changes in retrospect: what a moment is charged by is the same before and
\* after every step but a change that began at that moment or earlier, and it can always
\* be told, by a group that is there.
THEOREM ForGood == BillingSpec => ResolvedForGood
<1> DEFINE Step ==
        <<groups, history>>' # <<groups, history>> =>
            \A at \in Times :
                (\A s \in Sessions : tx[s].step = "inserted" => at < tx[s].at)
                    => /\ Resolvable(at)'
                       /\ Resolved(at)' = Resolved(at)
                       /\ groups'[Resolved(at).group] = "there"
<1>1. IInv /\ [BillingNext]_billingVars => [Step]_billingVars
  <2> SUFFICES ASSUME IInv, BillingNext, NEW at \in Times,
                      \A s \in Sessions : tx[s].step = "inserted" => at < tx[s].at
               PROVE  /\ Resolvable(at)'
                      /\ Resolved(at)' = Resolved(at)
                      /\ groups'[Resolved(at).group] = "there"
    OBVIOUS
  <2>1. \A k \in Keys : Same(k, at)
    <3>1. CASE \E s \in Sessions : Commit(s)
      <4>1. PICK s \in Sessions : Commit(s)
        BY <3>1
      <4>2. tx[s].step = "inserted"
        BY <4>1 DEF Commit
      <4> QED
        BY <4>1, <4>2, SameAfterCommit
    <3>2. CASE ~\E s \in Sessions : Commit(s)
      <4>1. history' = history
        BY <3>2 DEF BillingNext, Change, Begin, Look, LookRefused, CloseBegins, CloseNothing, Close,
               CloseRefused, Insert, InsertRefused, Abort, CreateBilling, DeleteBilling, Tick,
               SetBack
      <4> QED
        BY <4>1 DEF Same, Covering
    <3> QED
      BY <3>1, <3>2
  <2>2. IInv'
    BY Inductive
  <2>3. Resolved(at)' = Resolved(at)
    BY <2>1, ResolvedSame
  <2>4. (IInv /\ at \in Times => Resolvable(at) /\ groups[Resolved(at).group] = "there")'
    BY ResolvedThere, PTL
  <2> QED
    BY <2>2, <2>3, <2>4
<1> QED
  BY <1>1, Invariance, PTL DEF BillingSpec, ResolvedForGood

=============================================================================
