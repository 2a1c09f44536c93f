---------------------------- MODULE ReportsProofs ----------------------------
(***************************************************************************)
(* Proofs about Reports, for any number of reports, of users and of        *)
(* intervals, and any limits.                                              *)
(***************************************************************************)
EXTENDS Reports, FiniteSetTheorems, WellFoundedInduction, TLAPS

---------------------------------------------------------------------------
(* Sums over finite sets.  The library's sum is a recursive function: that *)
(* it exists, and what it yields, follows from the least of the            *)
(* cardinalities at which it would not.                                    *)

\* A set of naturals that is not empty has a least element.
LEMMA LeastElement ==
    ASSUME NEW S \in SUBSET Nat, S # {}
    PROVE  \E m \in S : \A n \in S : m <= n
<1> DEFINE R == OpToRel(<, Nat)
<1>1. IsWellFoundedOn(R, Nat)
  BY NatLessThanWellFounded
<1> HIDE DEF R
<1>2. \E m \in S : \A n \in S : ~ (<<n, m>> \in R)
  BY <1>1, WFMin, Zenon
<1>3. \A m, n \in Nat : n < m => <<n, m>> \in R
  BY DEF R, OpToRel
<1>4. PICK m \in S : \A n \in S : ~ (<<n, m>> \in R)
  BY <1>2
<1>5. \A n \in S : m <= n
  <2> SUFFICES ASSUME NEW n \in S PROVE m <= n
    OBVIOUS
  <2>1. m \in Nat /\ n \in Nat
    OBVIOUS
  <2>2. ~(n < m)
    BY <1>3, <1>4, <2>1, Zenon
  <2> QED
    BY <2>1, <2>2
<1> QED
  BY <1>5

\* The element that the sum takes out of a set next.
Picked(s) == CHOOSE x \in s : TRUE

\* The functions that add up v as the sum does.
AddsUp(F, v, M) ==
    F = [s \in SUBSET M |-> IF s = {} THEN 0 ELSE v[Picked(s)] + F[s \ {Picked(s)}]]

\* What such a function takes out of a set is in it, and leaves one element fewer.
LEMMA PickedOne ==
    ASSUME NEW M, IsFiniteSet(M), NEW s \in SUBSET M, s # {}
    PROVE  /\ Picked(s) \in s /\ s \ {Picked(s)} \in SUBSET M
           /\ IsFiniteSet(s) /\ Cardinality(s) \in Nat
           /\ Cardinality(s \ {Picked(s)}) \in Nat
           /\ Cardinality(s) = Cardinality(s \ {Picked(s)}) + 1
<1>1. Picked(s) \in s
  BY DEF Picked
<1>2. IsFiniteSet(s)
  BY FS_Subset
<1>3. Cardinality(s) \in Nat /\ IsFiniteSet(s \ {Picked(s)})
  BY <1>2, FS_CardinalityType, FS_RemoveElement
<1>4. Cardinality(s \ {Picked(s)}) \in Nat
  BY <1>3, FS_CardinalityType
<1>5. Cardinality(s \ {Picked(s)}) = Cardinality(s) - 1
  BY <1>1, <1>2, FS_RemoveElement
<1> QED
  BY <1>1, <1>2, <1>3, <1>4, <1>5

\* Adding up is defined over the small subsets, then over those one element larger.
LEMMA SumExists ==
    ASSUME NEW M, IsFiniteSet(M), NEW v
    PROVE  \E F : AddsUp(F, v, M)
<1> DEFINE D(k) == {s \in SUBSET M : Cardinality(s) <= k}
           Upto(F, k) == F = [s \in D(k) |-> IF s = {} THEN 0
                                              ELSE v[Picked(s)] + F[s \ {Picked(s)}]]
           Missing == {k \in Nat : ~\E F : Upto(F, k)}
<1>1. \A s \in SUBSET M : Cardinality(s) \in Nat
  BY FS_Subset, FS_CardinalityType
<1>2. ~(0 \in Missing)
  <2> DEFINE F0 == [s \in D(0) |-> 0]
  <2>1. \A s \in D(0) : s = {}
    <3> SUFFICES ASSUME NEW s \in D(0), s # {} PROVE FALSE
      OBVIOUS
    <3>1. s \in SUBSET M /\ Cardinality(s) <= 0
      OBVIOUS
    <3>2. /\ Cardinality(s \ {Picked(s)}) \in Nat
          /\ Cardinality(s) = Cardinality(s \ {Picked(s)}) + 1
      BY <3>1, PickedOne
    <3> QED
      BY <3>1, <3>2
  <2>2. Upto(F0, 0)
    BY <2>1
  <2> QED
    BY <2>2
<1>3. ASSUME NEW k \in Nat, ~(k \in Missing) PROVE ~(k + 1 \in Missing)
  <2>1. PICK F : Upto(F, k)
    BY <1>3
  <2> DEFINE G == [s \in D(k + 1) |-> IF s = {} THEN 0
                                      ELSE v[Picked(s)] + F[s \ {Picked(s)}]]
  <2>2. ASSUME NEW s \in D(k + 1), s # {}
        PROVE  /\ s \ {Picked(s)} \in D(k) /\ s \ {Picked(s)} \in D(k + 1)
    BY <1>1, <2>2, PickedOne
  <2>3. \A s \in D(k) : F[s] = IF s = {} THEN 0 ELSE v[Picked(s)] + F[s \ {Picked(s)}]
    BY <2>1
  <2>4. \A s \in D(k) : s \in D(k + 1) => G[s] = F[s]
    BY <2>3
  <2>5. \A s \in D(k + 1) : s # {} => G[s \ {Picked(s)}] = F[s \ {Picked(s)}]
    BY <2>2, <2>4
  <2>6. Upto(G, k + 1)
    <3> HIDE DEF D
    <3> QED
      BY <2>5
  <2> QED
    BY <2>6
<1>4. Missing = {}
  <2> SUFFICES ASSUME Missing # {} PROVE FALSE
    OBVIOUS
  <2>1. Missing \in SUBSET Nat
    OBVIOUS
  <2> HIDE DEF Missing
  <2>2. PICK k \in Missing : \A n \in Missing : k <= n
    BY <2>1, LeastElement
  <2>3. k \in Nat /\ k # 0
    BY <1>2, <2>1
  <2>4. k - 1 \in Nat /\ ~(k - 1 \in Missing) /\ (k - 1) + 1 = k
    BY <2>2, <2>3
  <2> QED
    BY <1>3, <2>4
<1>5. D(Cardinality(M)) = SUBSET M
  BY <1>1, FS_Subset
<1>6. Cardinality(M) \in Nat
  BY FS_CardinalityType
<1>7. PICK F : Upto(F, Cardinality(M))
  BY <1>4, <1>6
<1>8. AddsUp(F, v, M)
  <2> HIDE DEF D
  <2> QED
    BY <1>5, <1>7 DEF AddsUp
<1> QED
  BY <1>8

\* Sums of naturals are naturals, and the sum of sums is the sum of both.
LEMMA SumsAdd ==
    ASSUME NEW M, IsFiniteSet(M), NEW a, NEW b, NEW c,
           \A u \in M : a[u] \in Nat /\ b[u] \in Nat /\ c[u] = a[u] + b[u],
           NEW A, NEW B, NEW C, AddsUp(A, a, M), AddsUp(B, b, M), AddsUp(C, c, M)
    PROVE  A[M] \in Nat /\ B[M] \in Nat /\ C[M] = A[M] + B[M]
<1> DEFINE Right(s) == A[s] \in Nat /\ B[s] \in Nat /\ C[s] = A[s] + B[s]
           Wrong == {k \in Nat : \E s \in SUBSET M : Cardinality(s) = k /\ ~Right(s)}
<1>1. ASSUME NEW s \in SUBSET M, s # {}
      PROVE  /\ A[s] = a[Picked(s)] + A[s \ {Picked(s)}]
             /\ B[s] = b[Picked(s)] + B[s \ {Picked(s)}]
             /\ C[s] = c[Picked(s)] + C[s \ {Picked(s)}]
  BY <1>1 DEF AddsUp
<1>2. Right({})
  <2>1. {} \in SUBSET M
    OBVIOUS
  <2>2. A[{}] = 0 /\ B[{}] = 0 /\ C[{}] = 0
    BY <2>1 DEF AddsUp
  <2> QED
    BY <2>2
<1>3. Wrong = {}
  <2> SUFFICES ASSUME Wrong # {} PROVE FALSE
    OBVIOUS
  <2>1. PICK k \in Wrong : \A n \in Wrong : k <= n
    <3>1. Wrong \in SUBSET Nat
      OBVIOUS
    <3> HIDE DEF Wrong
    <3> QED
      BY <3>1, LeastElement
  <2>2. PICK s \in SUBSET M : Cardinality(s) = k /\ ~Right(s)
    OBVIOUS
  <2>3. s # {}
    BY <1>2, <2>2
  <2> DEFINE x == Picked(s)
             t == s \ {x}
  <2>4. x \in M /\ t \in SUBSET M /\ Cardinality(t) \in Nat /\ k = Cardinality(t) + 1
    BY <2>2, <2>3, PickedOne
  <2>5. Right(t)
    <3>1. ~(Cardinality(t) \in Wrong)
      <4>1. k \in Nat
        OBVIOUS
      <4> HIDE DEF Wrong, t
      <4> QED
        BY <2>1, <2>4, <4>1
    <3> HIDE DEF t, Right
    <3> QED
      BY <2>4, <3>1
  <2>6. A[s] = a[x] + A[t] /\ B[s] = b[x] + B[t] /\ C[s] = c[x] + C[t]
    BY <1>1, <2>3
  <2>7. a[x] \in Nat /\ b[x] \in Nat /\ c[x] = a[x] + b[x]
    BY <2>4
  <2> HIDE DEF x, t
  <2>8. Right(s)
    BY <2>5, <2>6, <2>7
  <2> QED
    BY <2>2, <2>8
<1>4. Cardinality(M) \in Nat /\ M \in SUBSET M
  BY FS_CardinalityType
<1>5. Right(M)
  BY <1>3, <1>4
<1> QED
  BY <1>5

\* The volume of a report is a pair of naturals, together what it declares.
LEMMA VolumeDeclared ==
    ASSUME NEW r \in Report
    PROVE  /\ Volume(r) = <<Volume(r)[1], Volume(r)[2]>>
           /\ Volume(r)[1] \in Nat /\ Volume(r)[2] \in Nat
           /\ DeclaredBytes(r) = Volume(r)[1] + Volume(r)[2]
<1> DEFINE M == Composition \intersect DOMAIN r.lines
           a == [u \in M |-> r.lines[u][1]]
           b == [u \in M |-> r.lines[u][2]]
           c == [u \in M |-> r.lines[u][1] + r.lines[u][2]]
           A == CHOOSE F : F = [s \in SUBSET M |-> IF s = {} THEN 0
                    ELSE r.lines[CHOOSE x \in s : TRUE][1] + F[s \ {CHOOSE x \in s : TRUE}]]
           B == CHOOSE F : F = [s \in SUBSET M |-> IF s = {} THEN 0
                    ELSE r.lines[CHOOSE x \in s : TRUE][2] + F[s \ {CHOOSE x \in s : TRUE}]]
           C == CHOOSE F : F = [s \in SUBSET M |-> IF s = {} THEN 0
                    ELSE (r.lines[CHOOSE x \in s : TRUE][1] + r.lines[CHOOSE x \in s : TRUE][2])
                         + F[s \ {CHOOSE x \in s : TRUE}]]
<1>1. IsFiniteSet(M)
  BY CompositionAssumption, FS_Intersection
<1>2. \A u \in M : r.lines[u] \in Nat \X Nat
  BY ReportsAssumption DEF Report
<1>3. \A s \in SUBSET M : s # {} => Picked(s) \in M
  BY DEF Picked
<1>4. /\ MapThenSumSet(LAMBDA u : r.lines[u][1], M) = A[M]
      /\ MapThenSumSet(LAMBDA u : r.lines[u][2], M) = B[M]
      /\ MapThenSumSet(LAMBDA u : r.lines[u][1] + r.lines[u][2], M) = C[M]
  BY DEF MapThenSumSet, MapThenFoldSet
<1> HIDE DEF M
<1>5. AddsUp(A, a, M)
  <2>1. PICK F : AddsUp(F, a, M)
    BY <1>1, SumExists
  <2>2. F = [s \in SUBSET M |-> IF s = {} THEN 0
                    ELSE r.lines[CHOOSE x \in s : TRUE][1] + F[s \ {CHOOSE x \in s : TRUE}]]
    BY <1>3, <2>1 DEF AddsUp, Picked
  <2>3. A = [s \in SUBSET M |-> IF s = {} THEN 0
                    ELSE r.lines[CHOOSE x \in s : TRUE][1] + A[s \ {CHOOSE x \in s : TRUE}]]
    BY <2>2
  <2> HIDE DEF A
  <2> QED
    BY <1>3, <2>3 DEF AddsUp, Picked
<1>6. AddsUp(B, b, M)
  <2>1. PICK F : AddsUp(F, b, M)
    BY <1>1, SumExists
  <2>2. F = [s \in SUBSET M |-> IF s = {} THEN 0
                    ELSE r.lines[CHOOSE x \in s : TRUE][2] + F[s \ {CHOOSE x \in s : TRUE}]]
    BY <1>3, <2>1 DEF AddsUp, Picked
  <2>3. B = [s \in SUBSET M |-> IF s = {} THEN 0
                    ELSE r.lines[CHOOSE x \in s : TRUE][2] + B[s \ {CHOOSE x \in s : TRUE}]]
    BY <2>2
  <2> HIDE DEF B
  <2> QED
    BY <1>3, <2>3 DEF AddsUp, Picked
<1>7. AddsUp(C, c, M)
  <2>1. PICK F : AddsUp(F, c, M)
    BY <1>1, SumExists
  <2>2. F = [s \in SUBSET M |-> IF s = {} THEN 0
                    ELSE (r.lines[CHOOSE x \in s : TRUE][1] + r.lines[CHOOSE x \in s : TRUE][2])
                         + F[s \ {CHOOSE x \in s : TRUE}]]
    BY <1>3, <2>1 DEF AddsUp, Picked
  <2>3. C = [s \in SUBSET M |-> IF s = {} THEN 0
                    ELSE (r.lines[CHOOSE x \in s : TRUE][1] + r.lines[CHOOSE x \in s : TRUE][2])
                         + C[s \ {CHOOSE x \in s : TRUE}]]
    BY <2>2
  <2> HIDE DEF C
  <2> QED
    BY <1>3, <2>3 DEF AddsUp, Picked
<1>8. \A u \in M : a[u] \in Nat /\ b[u] \in Nat /\ c[u] = a[u] + b[u]
  BY <1>2
<1> HIDE DEF a, b, c, A, B, C
<1>9. A[M] \in Nat /\ B[M] \in Nat /\ C[M] = A[M] + B[M]
  BY <1>1, <1>5, <1>6, <1>7, <1>8, SumsAdd
<1>10. Volume(r) = <<A[M], B[M]>> /\ DeclaredBytes(r) = C[M]
  BY <1>4 DEF Volume, DeclaredBytes, Members, M
<1> QED
  BY <1>9, <1>10

---------------------------------------------------------------------------
(* What is charged.                                                        *)

\* Nonlinear arithmetic, for the share of the uplink: a product divided by one
\* factor is the other, and dividing keeps the order.
LEMMA Shares ==
    ASSUME NEW a \in Nat, NEW b \in Nat, NEW c \in Nat, b > 0, c <= b
    PROVE  (a * c) \div b \in 0 .. a
<1> DEFINE q == (a * c) \div b
<1>1. a * c \in Nat /\ a * c <= a * b
  <2>1. PICK d \in Nat : b = c + d
    <3>1. b - c \in Nat /\ b = c + (b - c)
      OBVIOUS
    <3> QED
      BY <3>1
  <2>2. a * b = a * c + a * d
    BY <2>1
  <2>3. a * c \in Nat /\ a * d \in Nat
    OBVIOUS
  <2> QED
    BY <2>2, <2>3
<1>2. q \in Int /\ b * q <= a * c /\ a * c < b * q + b
  BY <1>1
<1>3. q >= 0
  <2> SUFFICES ASSUME q < 0 PROVE FALSE
    BY <1>2
  <2> HIDE DEF q
  <2>1. PICK e \in Nat : q = -1 - e
    <3>1. -1 - q \in Nat /\ q = -1 - (-1 - q)
      BY <1>2
    <3> QED
      BY <3>1
  <2>2. b * q + b = -(b * e)
    BY <2>1
  <2>3. b * e \in Nat
    OBVIOUS
  <2> QED
    BY <1>1, <1>2, <2>2, <2>3
<1>4. q <= a
  <2> SUFFICES ASSUME q > a PROVE FALSE
    BY <1>2
  <2> HIDE DEF q
  <2>1. PICK e \in Nat : q = a + 1 + e
    <3>1. q - a - 1 \in Nat /\ q = a + 1 + (q - a - 1)
      BY <1>2
    <3> QED
      BY <3>1
  <2>2. b * q = a * b + b + b * e
    BY <2>1
  <2>3. b * e \in Nat
    OBVIOUS
  <2> QED
    BY <1>1, <1>2, <2>2, <2>3
<1> QED
  BY <1>2, <1>3, <1>4

\* A charge is a pair of naturals, in all no more than the volume declared and no
\* more than what was left of the ceiling; all of the volume if nothing is held.
Fits(c, ceiling, before, declared) ==
    /\ c.held \in BOOLEAN
    /\ c.volume = <<c.volume[1], c.volume[2]>>
    /\ c.volume[1] \in Nat /\ c.volume[2] \in Nat
    /\ c.volume[1] + c.volume[2] <= declared
    /\ before + c.volume[1] + c.volume[2] <= ceiling
    /\ ~c.held => c.volume[1] + c.volume[2] = declared

\* What charge answers fits, whatever was charged before within the ceiling.
LEMMA ChargeFits ==
    ASSUME NEW ceiling \in Nat, NEW x \in Nat, NEW y \in Nat, NEW v \in Nat, NEW w \in Nat,
           x + y <= ceiling
    PROVE  Fits(Charge(ceiling, <<x, y>>, <<v, w>>), ceiling, x + y, v + w)
<1> DEFINE room == ceiling - x - y
           total == v + w
           uplink == IF total = 0 THEN 0 ELSE (room * v) \div total
           charge == Charge(ceiling, <<x, y>>, <<v, w>>)
<1>1. room \in Nat /\ total \in Nat /\ v <= total
  OBVIOUS
<1>2. Max({0, ceiling - x - y}) = room
  BY <1>1 DEF Max
<1>3. charge = IF total <= room THEN [volume |-> <<v, w>>, held |-> FALSE]
               ELSE [volume |-> <<uplink, room - uplink>>, held |-> TRUE]
  BY <1>2 DEF Charge
<1>4. total # 0 => uplink \in 0 .. room
  BY <1>1, Shares
<1> HIDE DEF uplink, charge
<1>5. ASSUME total <= room PROVE Fits(charge, ceiling, x + y, total)
  <2>1. charge.volume = <<v, w>> /\ charge.held = FALSE
    BY <1>3, <1>5
  <2>2. charge.volume[1] = v /\ charge.volume[2] = w
    BY <2>1
  <2>3. charge.volume = <<charge.volume[1], charge.volume[2]>>
    BY <2>1, <2>2, Zenon
  <2>4. v + w <= room /\ x + y + v + w <= ceiling
    BY <1>1, <1>5
  <2>5. /\ charge.held \in BOOLEAN
        /\ charge.volume[1] \in Nat /\ charge.volume[2] \in Nat
        /\ charge.volume[1] + charge.volume[2] <= v + w
        /\ x + y + charge.volume[1] + charge.volume[2] <= ceiling
        /\ ~charge.held => charge.volume[1] + charge.volume[2] = v + w
    <3>1. charge.held = FALSE
      BY <2>1
    <3>2. charge.volume[1] \in Nat /\ charge.volume[2] \in Nat
      BY <2>2
    <3>3. charge.volume[1] + charge.volume[2] = v + w
      BY <2>2, Zenon
    <3>4. x + y + charge.volume[1] + charge.volume[2] <= ceiling
      BY <2>2, <2>4, Zenon
    <3>5. v + w <= v + w
      OBVIOUS
    <3> QED
      BY <3>1, <3>2, <3>3, <3>4, <3>5, Zenon
  <2> QED
    BY <2>3, <2>5, Zenon DEF Fits
<1>6. ASSUME total > room PROVE Fits(charge, ceiling, x + y, total)
  <2>1. charge.volume = <<uplink, room - uplink>> /\ charge.held = TRUE
    BY <1>1, <1>3, <1>6
  <2>2. uplink \in 0 .. room
    BY <1>1, <1>4, <1>6
  <2>3. charge.volume[1] = uplink /\ charge.volume[2] = room - uplink
    BY <2>1
  <2>4. charge.volume = <<charge.volume[1], charge.volume[2]>>
    BY <2>1, <2>3, Zenon
  <2>5. uplink \in Nat /\ room - uplink \in Nat /\ uplink + (room - uplink) = room
    BY <1>1, <2>2
  <2>6. /\ charge.held \in BOOLEAN
        /\ charge.volume[1] \in Nat /\ charge.volume[2] \in Nat
        /\ charge.volume[1] + charge.volume[2] <= v + w
        /\ x + y + charge.volume[1] + charge.volume[2] <= ceiling
        /\ ~charge.held => charge.volume[1] + charge.volume[2] = v + w
    <3>1. charge.held = TRUE
      BY <2>1
    <3>2. uplink + (room - uplink) <= v + w /\ x + y + uplink + (room - uplink) <= ceiling
      BY <1>1, <1>6, <2>5
    <3> QED
      BY <2>3, <2>5, <3>1, <3>2
  <2> QED
    BY <2>4, <2>6, Zenon DEF Fits
<1>7. Fits(charge, ceiling, x + y, total)
  BY <1>1, <1>5, <1>6
<1> QED
  BY <1>7 DEF charge

---------------------------------------------------------------------------
(* Rows and tables.  The invariant is about the table of intervals; as a   *)
(* report is accepted the table is closed by time, closed by succession    *)
(* and given a row, and each of these keeps it.                            *)

Rowed(i) ==
    /\ i \in Interval
    /\ i.start < i.end
    /\ i.got <= i.parts
    /\ i.firstAt <= i.lastAt
    /\ (i.closedAt = Never) = (i.reason = "none")
    /\ i.reason = "capped" => i.held /\ i.charged = <<0, 0>>

Within(i) ==
    /\ i.charged[1] + i.charged[2] <= Ceiling(i.end - i.start)
    /\ i.charged[1] + i.charged[2] <= i.declared
    /\ ~i.held => i.charged[1] + i.charged[2] = i.declared

\* The numbers recorded in the range of an interval, were rep the reports.
Numbers(i, rep) == {s \in Seqs : /\ i.first <= s /\ s <= i.first + i.parts - 1
                                 /\ rep[<<i.epoch, s>>] \in {"accepted", "held"}}
Counted(i, rep) == i.got <= Cardinality(Numbers(i, rep))

OpenOf(T) == {i \in T : IsOpen(i)}
Apart(i, j) == i = j \/ i.end <= j.start \/ j.end <= i.start

Tabled(T) ==
    /\ IsFiniteSet(T)
    /\ \A i \in T : Rowed(i) /\ Within(i)
    /\ \A i, j \in T : Apart(i, j)
    /\ Cardinality(OpenOf(T)) <= MaxOpen

Reported == reports \in [Epochs \X Seqs -> {"none", "accepted", "held", "rejected"}]

IInv ==
    /\ now \in 0 .. MaxTime
    /\ trusted \in BOOLEAN
    /\ Reported
    /\ Tabled(intervals)
    /\ \A i \in intervals : Counted(i, reports)

\* The row j is the row i, or i when it was open and is now closed.
ClosedFrom(j, i) ==
    \/ j = i
    \/ /\ IsOpen(i)
       /\ \E t \in Nat, y \in {"superseded", "deadline", "age"} :
              j = [i EXCEPT !.closedAt = t, !.reason = y]

\* A row that closes keeps what the invariant is about.
LEMMA ClosedRow ==
    ASSUME NEW i, NEW j, Rowed(i), ClosedFrom(j, i)
    PROVE  /\ Rowed(j)
           /\ Within(i) => Within(j)
           /\ \A rep : Counted(i, rep) => Counted(j, rep)
           /\ j.start = i.start /\ j.end = i.end
           /\ IsOpen(j) => j = i
           /\ ~IsOpen(i) => j = i
<1>1. CASE j = i
  BY <1>1
<1>2. ASSUME IsOpen(i), NEW t \in Nat, NEW y \in {"superseded", "deadline", "age"},
             j = [i EXCEPT !.closedAt = t, !.reason = y]
      PROVE  /\ Rowed(j)
             /\ Within(i) => Within(j)
             /\ \A rep : Counted(i, rep) => Counted(j, rep)
             /\ j.start = i.start /\ j.end = i.end
             /\ IsOpen(j) => j = i
             /\ ~IsOpen(i) => j = i
  <2>1. i \in Interval
    BY DEF Rowed
  <2>2. /\ j.epoch = i.epoch /\ j.start = i.start /\ j.end = i.end /\ j.first = i.first
        /\ j.parts = i.parts /\ j.got = i.got /\ j.charged = i.charged /\ j.held = i.held
        /\ j.firstAt = i.firstAt /\ j.lastAt = i.lastAt /\ j.declared = i.declared
        /\ j.closedAt = t /\ j.reason = y
    BY <1>2, <2>1 DEF Interval
  <2>3. j \in Interval
    BY <1>2, <2>1 DEF Interval, Reasons
  <2>4. t # Never
    BY DEF Never
  <2>5. Rowed(j)
    BY <2>2, <2>3, <2>4 DEF Rowed
  <2>6. Within(i) => Within(j)
    BY <2>2 DEF Within
  <2>7. \A rep : Counted(i, rep) => Counted(j, rep)
    BY <2>2 DEF Counted, Numbers
  <2> QED
    BY <1>2, <2>2, <2>4, <2>5, <2>6, <2>7 DEF IsOpen
<1> QED
  BY <1>1, <1>2 DEF ClosedFrom

\* Closing some rows of a table.
LEMMA ClosedTable ==
    ASSUME NEW T, NEW g, Tabled(T), \A i \in T : ClosedFrom(g[i], i)
    PROVE  LET U == {g[i] : i \in T}
           IN  /\ Tabled(U)
               /\ \A j \in U : \E i \in T : ClosedFrom(j, i)
               /\ OpenOf(U) \subseteq OpenOf(T)
               /\ \A i \in T : ~IsOpen(i) => i \in U
               /\ \A rep : (\A i \in T : Counted(i, rep)) => \A j \in U : Counted(j, rep)
<1> DEFINE U == {g[i] : i \in T}
           h == [i \in T |-> g[i]]
<1>1. IsFiniteSet(U)
  <2>1. h \in Surjection(T, U)
    BY DEF Surjection
  <2> HIDE DEF h, U
  <2> QED
    BY <2>1, FS_Surjection DEF Tabled
<1>2. \A i \in T : Rowed(i) /\ Within(i)
  BY DEF Tabled
<1>3. \A j \in U : Rowed(j) /\ Within(j)
  BY <1>2, ClosedRow
<1>4. \A j, k \in U : Apart(j, k)
  <2> SUFFICES ASSUME NEW i \in T, NEW l \in T PROVE Apart(g[i], g[l])
    OBVIOUS
  <2>1. Apart(i, l)
    BY DEF Tabled
  <2>2. /\ g[i].start = i.start /\ g[i].end = i.end
        /\ g[l].start = l.start /\ g[l].end = l.end
    BY <1>2, ClosedRow
  <2> QED
    BY <2>1, <2>2 DEF Apart
<1>5. \A j \in U : \E i \in T : ClosedFrom(j, i)
  OBVIOUS
<1>6. OpenOf(U) \subseteq OpenOf(T)
  <2> SUFFICES ASSUME NEW i \in T, IsOpen(g[i]) PROVE g[i] \in OpenOf(T)
    BY DEF OpenOf
  <2>1. g[i] = i
    BY <1>2, ClosedRow
  <2> QED
    BY <2>1 DEF OpenOf
<1>7. \A i \in T : ~IsOpen(i) => i \in U
  <2> SUFFICES ASSUME NEW i \in T, ~IsOpen(i) PROVE i \in U
    OBVIOUS
  <2>1. g[i] = i
    BY <1>2, ClosedRow
  <2> QED
    BY <2>1
<1>8. Cardinality(OpenOf(U)) <= MaxOpen
  <2>1. IsFiniteSet(OpenOf(T)) /\ Cardinality(OpenOf(T)) <= MaxOpen
    BY FS_Subset DEF Tabled, OpenOf
  <2>2. Cardinality(OpenOf(U)) <= Cardinality(OpenOf(T))
    BY <1>6, <2>1, FS_Subset
  <2>3. Cardinality(OpenOf(U)) \in Nat /\ Cardinality(OpenOf(T)) \in Nat
    BY <1>6, <2>1, FS_Subset, FS_CardinalityType
  <2> QED
    BY <2>1, <2>2, <2>3, ReportsAssumption
<1>9. \A rep : (\A i \in T : Counted(i, rep)) => \A j \in U : Counted(j, rep)
  BY <1>2, ClosedRow
<1> HIDE DEF U
<1>10. Tabled(U)
  BY <1>1, <1>3, <1>4, <1>8 DEF Tabled
<1> QED
  BY <1>5, <1>6, <1>7, <1>9, <1>10 DEF U

\* The last interval ends last: of the rows that others end after, one with the
\* fewest such others has none.
LEMMA LastRow ==
    ASSUME NEW T, IsFiniteSet(T), T # {}, \A i \in T : i.end \in Nat
    PROVE  Last(T) \in T /\ \A j \in T : j.end <= Last(T).end
<1> DEFINE Above(i) == {j \in T : j.end > i.end}
           C == {Cardinality(Above(i)) : i \in T}
<1>1. \A i \in T : IsFiniteSet(Above(i)) /\ Cardinality(Above(i)) \in Nat
  BY FS_Subset, FS_CardinalityType
<1>2. C \in SUBSET Nat /\ C # {}
  <2>1. \A c \in C : c \in Nat
    BY <1>1
  <2>2. PICK i \in T : TRUE
    OBVIOUS
  <2>3. Cardinality(Above(i)) \in C
    OBVIOUS
  <2> QED
    BY <2>1, <2>3
<1>3. PICK c \in C : \A d \in C : c <= d
  BY <1>2, LeastElement
<1>4. PICK m \in T : c = Cardinality(Above(m))
  BY <1>3
<1>5. \A n \in T : n.end <= m.end
  <2> SUFFICES ASSUME NEW n \in T, n.end > m.end PROVE FALSE
    OBVIOUS
  <2>1. Above(n) \subseteq Above(m) /\ n \in Above(m) /\ n \notin Above(n)
    <3>1. \A j \in T : j.end > n.end => j.end > m.end
      OBVIOUS
    <3>2. ~(n.end > n.end)
      OBVIOUS
    <3> QED
      BY <3>1, <3>2
  <2>2. /\ Cardinality(Above(n)) <= Cardinality(Above(m))
        /\ Cardinality(Above(m)) = Cardinality(Above(n)) => Above(m) = Above(n)
    BY <1>1, <2>1, FS_Subset
  <2>3. Cardinality(Above(m)) <= Cardinality(Above(n))
    BY <1>3, <1>4
  <2> HIDE DEF Above
  <2> QED
    BY <1>1, <2>1, <2>2, <2>3
<1> QED
  BY <1>5 DEF Last

\* Closing by time.
LEMMA ExpiredTable ==
    ASSUME IInv
    PROVE  /\ Tabled(Expired)
           /\ \A j \in Expired : \E i \in intervals : ClosedFrom(j, i)
           /\ \A i \in intervals : ~IsOpen(i) => i \in Expired
           /\ \A j \in Expired : Counted(j, reports)
<1> DEFINE g == [i \in intervals |->
                     IF DueToClose(i) THEN [i EXCEPT !.closedAt = Closing(i).at,
                                              !.reason = Closing(i).reason] ELSE i]
<1>1. \A i \in intervals : ClosedFrom(g[i], i)
  <2> SUFFICES ASSUME NEW i \in intervals PROVE ClosedFrom(g[i], i)
    OBVIOUS
  <2>1. i.firstAt \in Nat /\ i.lastAt \in Nat /\ MaxAge \in Nat /\ PartsDeadline \in Nat
    BY ReportsAssumption DEF IInv, Tabled, Rowed, Interval
  <2>2. Closing(i).at \in Nat /\ Closing(i).reason \in {"superseded", "deadline", "age"}
    BY <2>1 DEF Closing
  <2>3. CASE DueToClose(i)
    <3>1. g[i] = [i EXCEPT !.closedAt = Closing(i).at, !.reason = Closing(i).reason]
      BY <2>3
    <3> QED
      BY <2>2, <2>3, <3>1 DEF DueToClose, ClosedFrom
  <2>4. CASE ~DueToClose(i)
    BY <2>4 DEF ClosedFrom
  <2> QED
    BY <2>3, <2>4
<1>2. Expired = {g[i] : i \in intervals}
  BY DEF Expired
<1>3. Tabled(intervals) /\ \A i \in intervals : Counted(i, reports)
  BY DEF IInv
<1> HIDE DEF g
<1> QED
  BY <1>1, <1>2, <1>3, ClosedTable

\* Closing by succession.
LEMMA SupersededTable ==
    ASSUME IInv, NEW T, Tabled(T), NEW start
    PROVE  LET U == Superseded(T, start)
           IN  /\ Tabled(U)
               /\ \A j \in U : \E i \in T : ClosedFrom(j, i)
               /\ OpenOf(U) \subseteq OpenOf(T)
               /\ \A j \in OpenOf(U) : ~(j.end <= start)
               /\ \A i \in T : ~IsOpen(i) => i \in U
               /\ \A rep : (\A i \in T : Counted(i, rep)) => \A j \in U : Counted(j, rep)
<1> DEFINE U == Superseded(T, start)
           g == [i \in T |-> IF IsOpen(i) /\ i.end <= start
                             THEN [i EXCEPT !.closedAt = now, !.reason = "superseded"] ELSE i]
<1>1. now \in Nat
  BY ReportsAssumption DEF IInv
<1>2. \A i \in T : ClosedFrom(g[i], i)
  BY <1>1 DEF ClosedFrom
<1>3. U = {g[i] : i \in T}
  BY DEF Superseded
<1>4. \A j \in OpenOf(U) : ~(j.end <= start)
  <2> SUFFICES ASSUME NEW j \in U, IsOpen(j), j.end <= start PROVE FALSE
    BY DEF OpenOf
  <2>1. PICK i \in T : j = g[i]
    BY <1>3
  <2>2. Rowed(i) /\ ClosedFrom(g[i], i)
    BY <1>2 DEF Tabled
  <2>3. j = i
    BY <2>1, <2>2, ClosedRow
  <2>4. j = [i EXCEPT !.closedAt = now, !.reason = "superseded"]
    BY <2>1, <2>3
  <2>5. j.closedAt = now
    BY <2>2, <2>4 DEF Rowed, Interval
  <2> QED
    BY <1>1, <2>5 DEF IsOpen, Never
<1> HIDE DEF g, U
<1> QED
  BY <1>2, <1>3, <1>4, ClosedTable DEF U

\* Adding a row.
LEMMA AddedRow ==
    ASSUME NEW T, Tabled(T), NEW n, Rowed(n), Within(n),
           \A i \in T : Apart(i, n),
           IsOpen(n) => Cardinality(OpenOf(T)) < MaxOpen
    PROVE  Tabled({n} \union T)
<1> DEFINE U == {n} \union T
<1>1. IsFiniteSet(U)
  BY FS_AddElement DEF Tabled
<1>2. \A i \in U : Rowed(i) /\ Within(i)
  BY DEF Tabled
<1>3. \A i, j \in U : Apart(i, j)
  <2>1. \A i \in T : Apart(n, i)
    BY DEF Apart
  <2>2. Apart(n, n)
    BY DEF Apart
  <2> QED
    BY <2>1, <2>2 DEF Tabled
<1>4. IsFiniteSet(OpenOf(T)) /\ Cardinality(OpenOf(T)) \in Nat
  BY FS_Subset, FS_CardinalityType DEF Tabled, OpenOf
<1>5. Cardinality(OpenOf(U)) <= MaxOpen
  <2>1. CASE IsOpen(n)
    <3>1. OpenOf(U) = OpenOf(T) \union {n}
      BY <2>1 DEF OpenOf
    <3>2. \/ Cardinality(OpenOf(U)) = Cardinality(OpenOf(T))
          \/ Cardinality(OpenOf(U)) = Cardinality(OpenOf(T)) + 1
      BY <1>4, <3>1, FS_AddElement
    <3> QED
      BY <1>4, <2>1, <3>2, ReportsAssumption
  <2>2. CASE ~IsOpen(n)
    <3>1. OpenOf(U) = OpenOf(T)
      BY <2>2 DEF OpenOf
    <3> QED
      BY <3>1 DEF Tabled
  <2> QED
    BY <2>1, <2>2
<1> HIDE DEF U
<1>6. Tabled(U)
  BY <1>1, <1>2, <1>3, <1>5 DEF Tabled
<1> QED
  BY <1>6 DEF U

\* What the arithmetic needs of a row.
LEMMA RowTyped ==
    ASSUME NEW i, Rowed(i)
    PROVE  /\ i.first \in Nat /\ i.parts \in Nat /\ i.parts >= 1 /\ i.got \in Nat
           /\ i.epoch \in Epochs /\ i.first \in Seqs
           /\ i.start \in Nat /\ i.end \in Nat /\ i.firstAt \in Nat /\ i.lastAt \in Nat
           /\ i.declared \in Nat
           /\ i.charged = <<i.charged[1], i.charged[2]>>
           /\ i.charged[1] \in Nat /\ i.charged[2] \in Nat
<1>1. Seqs \subseteq Nat /\ MaxParts \in Nat /\ MaxTime \in Nat
  BY ReportsAssumption
<1>2. i \in Interval
  BY DEF Rowed
<1>3. i.charged \in Nat \X Nat
  BY <1>2 DEF Interval
<1>4. i.charged = <<i.charged[1], i.charged[2]>> /\ i.charged[1] \in Nat /\ i.charged[2] \in Nat
  BY <1>3
<1>5. i.parts \in 1 .. MaxParts /\ i.got \in 1 .. MaxParts /\ i.epoch \in Epochs /\ i.first \in Seqs
  BY <1>2 DEF Interval
<1>6. /\ i.start \in 0 .. MaxTime /\ i.end \in Nat /\ i.declared \in Nat
      /\ i.firstAt \in 0 .. MaxTime /\ i.lastAt \in 0 .. MaxTime
  BY <1>2 DEF Interval
<1>7. /\ i.first \in Nat /\ i.parts \in Nat /\ i.parts >= 1 /\ i.got \in Nat
      /\ i.start \in Nat /\ i.firstAt \in Nat /\ i.lastAt \in Nat
  <2>1. \A n \in 1 .. MaxParts : n \in Nat /\ n >= 1
    BY <1>1
  <2>2. \A n \in 0 .. MaxTime : n \in Nat
    BY <1>1
  <2> QED
    BY <1>1, <1>5, <1>6, <2>1, <2>2, Zenon
<1> QED
  BY <1>4, <1>5, <1>6, <1>7, Zenon

\* The numbers of a range are finitely many, no more than its parts.
LEMMA FiniteNumbers ==
    ASSUME NEW i, NEW rep, i.first \in Nat, i.parts \in Nat, i.parts >= 1
    PROVE  /\ IsFiniteSet(Numbers(i, rep))
           /\ Cardinality(Numbers(i, rep)) \in Nat
           /\ Cardinality(Numbers(i, rep)) <= i.parts
<1> DEFINE range == i.first .. (i.first + i.parts - 1)
<1>1. Numbers(i, rep) \subseteq range
  <2> SUFFICES ASSUME NEW s \in Numbers(i, rep) PROVE s \in range
    OBVIOUS
  <2>1. s \in Nat /\ i.first <= s /\ s <= i.first + i.parts - 1
    BY ReportsAssumption DEF Numbers
  <2> HIDE DEF range
  <2>2. \A a, b, c \in Nat : a <= c /\ c <= a + b - 1 => c \in a .. (a + b - 1)
    OBVIOUS
  <2> QED
    BY <2>1, <2>2 DEF range
<1>2. IsFiniteSet(range) /\ Cardinality(range) = i.parts
  <2> DEFINE a == i.first
             b == i.first + i.parts - 1
  <2>1. a \in Int /\ b \in Int /\ ~(a > b) /\ b - a + 1 = i.parts
    OBVIOUS
  <2> HIDE DEF a, b
  <2>2. IsFiniteSet(a .. b) /\ Cardinality(a .. b) = b - a + 1
    BY <2>1, FS_Interval
  <2> QED
    BY <2>1, <2>2 DEF a, b
<1> HIDE DEF range
<1> QED
  BY <1>1, <1>2, FS_Subset, FS_CardinalityType

\* A number that was not recorded before takes nothing from any interval when it is.
LEMMA RecordKeeps ==
    ASSUME Reported, NEW r \in Report, New(r), NEW verdict, Record(r, verdict),
           NEW i, Rowed(i), Counted(i, reports)
    PROVE  Counted(i, reports')
<1>1. Numbers(i, reports) \subseteq Numbers(i, reports')
  <2> SUFFICES ASSUME NEW s \in Numbers(i, reports) PROVE s \in Numbers(i, reports')
    OBVIOUS
  <2>1. i.epoch \in Epochs /\ s \in Seqs /\ <<i.epoch, s>> \in Epochs \X Seqs
    BY DEF Rowed, Interval, Numbers
  <2>2. <<i.epoch, s>> # <<r.epoch, r.seq>>
    BY DEF New, Numbers
  <2>3. reports'[<<i.epoch, s>>] = reports[<<i.epoch, s>>]
    BY <2>1, <2>2 DEF Record, Reported
  <2> QED
    BY <2>3 DEF Numbers
<1>2. i.first \in Nat /\ i.parts \in Nat /\ i.parts >= 1 /\ i.got \in Nat
  BY RowTyped
<1>3. /\ IsFiniteSet(Numbers(i, reports')) /\ Cardinality(Numbers(i, reports')) \in Nat
      /\ Cardinality(Numbers(i, reports)) \in Nat
  BY <1>2, FiniteNumbers
<1>4. Cardinality(Numbers(i, reports)) <= Cardinality(Numbers(i, reports'))
  BY <1>1, <1>3, FS_Subset
<1> QED
  BY <1>2, <1>3, <1>4 DEF Counted

\* Recording keeps the type of the reports.
LEMMA RecordTyped ==
    ASSUME Reported, NEW r \in Report,
           NEW verdict \in {"accepted", "held", "rejected"}, Record(r, verdict)
    PROVE  Reported'
<1>1. <<r.epoch, r.seq>> \in Epochs \X Seqs
  BY DEF Report
<1> QED
  BY <1>1 DEF Reported, Record

---------------------------------------------------------------------------
(* One report.                                                             *)

\* What the arithmetic needs of a report.
LEMMA ReportTyped ==
    ASSUME NEW r \in Report
    PROVE  /\ r.epoch \in Epochs /\ r.seq \in Seqs /\ r.seq \in Nat
           /\ r.start \in 0 .. MaxTime /\ r.start \in Nat
           /\ r.length \in Nat /\ r.length >= 1
           /\ r.parts \in 1 .. MaxParts /\ r.parts \in Nat /\ r.parts >= 1
           /\ EndOf(r) \in Nat /\ r.start < EndOf(r) /\ EndOf(r) - r.start = r.length
           /\ Ceiling(r.length) \in Nat
<1>1. MaxParts \in Nat /\ MaxTime \in Nat /\ Rate \in Nat
  BY ReportsAssumption
<1>2. Seqs \subseteq Nat /\ \A n \in Lengths : n \in Nat /\ n >= 1
  BY ReportsAssumption
<1>3. /\ r.epoch \in Epochs /\ r.seq \in Seqs /\ r.start \in 0 .. MaxTime
      /\ r.length \in Lengths /\ r.parts \in 1 .. MaxParts
  BY DEF Report
<1>4. \A n \in 1 .. MaxParts : n \in Nat /\ n >= 1
  BY <1>1
<1>5. \A n \in 0 .. MaxTime : n \in Nat
  BY <1>1
<1>6. \A m, n \in Nat : n >= 1 => /\ m + n \in Nat /\ m < m + n /\ (m + n) - m = n
                                  /\ Rate * n \in Nat
  BY <1>1
<1> QED
  BY <1>2, <1>3, <1>4, <1>5, <1>6, Zenon DEF EndOf, Ceiling

\* A number that is recorded, accepted or held, and that was not before, is one
\* more in the range of its interval.
LEMMA OneMore ==
    ASSUME Reported, NEW r \in Report, New(r),
           NEW verdict \in {"accepted", "held"}, Record(r, verdict),
           NEW f \in Nat, NEW p \in Nat, p >= 1, NEW q \in Nat, q >= p,
           f <= r.seq, r.seq <= f + q - 1,
           NEW i, i.epoch = r.epoch, i.first = f, i.parts = p,
           NEW j, j.epoch = r.epoch, j.first = f, j.parts = q
    PROVE  Cardinality(Numbers(i, reports)) + 1 <= Cardinality(Numbers(j, reports'))
<1> DEFINE old == Numbers(i, reports)
           new == Numbers(j, reports')
<1>1. r.epoch \in Epochs /\ r.seq \in Seqs /\ r.seq \in Nat
  BY ReportTyped
<1>2. \A s \in Seqs : s # r.seq => reports'[<<r.epoch, s>>] = reports[<<r.epoch, s>>]
  BY <1>1 DEF Record, Reported
<1>3. reports'[<<r.epoch, r.seq>>] = verdict
  BY <1>1 DEF Record, Reported
<1>4. r.seq \notin old
  BY DEF New, Numbers
<1>5. r.seq \in new
  BY <1>1, <1>3 DEF Numbers
<1>6. old \subseteq new
  <2> SUFFICES ASSUME NEW s \in old PROVE s \in new
    OBVIOUS
  <2>1. s \in Seqs /\ f <= s /\ s <= f + p - 1 /\ reports[<<r.epoch, s>>] \in {"accepted", "held"}
    BY DEF Numbers
  <2>2. s # r.seq
    BY <1>4
  <2>3. s \in Nat
    BY <2>1, ReportsAssumption
  <2>4. s <= f + q - 1
    BY <2>1, <2>3
  <2> QED
    BY <1>2, <2>1, <2>2, <2>4 DEF Numbers
<1>7. IsFiniteSet(old) /\ Cardinality(old) \in Nat
  BY FiniteNumbers
<1>8. IsFiniteSet(new) /\ Cardinality(new) \in Nat
  <2>1. q >= 1
    OBVIOUS
  <2> QED
    BY <2>1, FiniteNumbers
<1> HIDE DEF old, new
<1>9. old \union {r.seq} \subseteq new
  BY <1>5, <1>6
<1>10. Cardinality(old \union {r.seq}) = Cardinality(old) + 1
  BY <1>4, <1>7, FS_AddElement
<1>11. Cardinality(old \union {r.seq}) <= Cardinality(new)
  BY <1>8, <1>9, FS_Subset
<1> QED
  BY <1>10, <1>11 DEF old, new

\* The steps of an acceptance keep the invariant and the closed rows.
Kept == IInv' /\ \A i \in intervals : ~IsOpen(i) => i \in intervals'

\* A report that is refused: its number, and the closings by time.
LEMMA Refusing ==
    ASSUME IInv, NEW r \in Report, New(r), UNCHANGED <<now, trusted>>,
           Refuse(r, intervals) \/ Refuse(r, Expired)
    PROVE  Kept
<1>1. Record(r, "rejected")
  BY DEF Refuse
<1>2. Reported /\ Reported'
  BY <1>1, RecordTyped DEF IInv
<1>3. /\ Tabled(intervals') /\ \A i \in intervals' : Counted(i, reports)
      /\ \A i \in intervals : ~IsOpen(i) => i \in intervals'
  BY ExpiredTable DEF IInv, Refuse
<1>4. \A i \in intervals' : Counted(i, reports')
  BY <1>1, <1>2, <1>3, RecordKeeps DEF Tabled
<1>5. now' \in 0 .. MaxTime /\ trusted' \in BOOLEAN
  BY DEF IInv
<1> QED
  BY <1>2, <1>3, <1>4, <1>5 DEF IInv, Kept

\* A report that opens an interval: it starts after all of the table ended, so
\* unless it is held it leaves no other interval open.
LEMMA Opening ==
    ASSUME IInv, NEW r \in Report, Open(r), UNCHANGED <<now, trusted>>
    PROVE  Kept
<1> DEFINE table == Expired
           charge == Charge(Ceiling(r.length), <<0, 0>>, Volume(r))
           epochs == table # {} /\ Last(table).epoch # r.epoch /\ EpochOverCap
           held == charge.held \/ epochs
           capped == held /\ AtCap(table)
           reason == IF capped THEN "capped" ELSE IF r.parts = 1 THEN "completed" ELSE "none"
           n == [epoch |-> r.epoch, start |-> r.start, end |-> EndOf(r), first |-> r.seq,
                 parts |-> r.parts, got |-> 1,
                 charged |-> OpeningCharge(capped, charge.volume),
                 held |-> held, firstAt |-> now, lastAt |-> now,
                 closedAt |-> IF reason = "none" THEN Never ELSE now, reason |-> reason,
                 declared |-> DeclaredBytes(r)]
           rest == IF held THEN table ELSE Superseded(table, r.start)
<1>1. /\ New(r) /\ ~Unacceptable(r, table) /\ Record(r, RecordedAs(held))
      /\ intervals' = {n} \union rest
  BY DEF Open
<1>2. /\ r.epoch \in Epochs /\ r.seq \in Seqs /\ r.seq \in Nat
      /\ r.start \in 0 .. MaxTime /\ r.start \in Nat
      /\ r.parts \in 1 .. MaxParts /\ r.parts \in Nat /\ r.parts >= 1
      /\ EndOf(r) \in Nat /\ r.start < EndOf(r) /\ EndOf(r) - r.start = r.length
      /\ Ceiling(r.length) \in Nat
  BY ReportTyped
<1>3. /\ charge.held \in BOOLEAN
      /\ charge.volume = <<charge.volume[1], charge.volume[2]>>
      /\ charge.volume[1] \in Nat /\ charge.volume[2] \in Nat
      /\ charge.volume[1] + charge.volume[2] <= DeclaredBytes(r)
      /\ charge.volume[1] + charge.volume[2] <= Ceiling(r.length)
      /\ ~charge.held => charge.volume[1] + charge.volume[2] = DeclaredBytes(r)
      /\ DeclaredBytes(r) \in Nat
  <2> DEFINE v == Volume(r)[1]
             w == Volume(r)[2]
  <2>1. v \in Nat /\ w \in Nat /\ Volume(r) = <<v, w>> /\ DeclaredBytes(r) = v + w
    BY VolumeDeclared
  <2>2. charge = Charge(Ceiling(r.length), <<0, 0>>, <<v, w>>)
    BY <2>1
  <2> HIDE DEF v, w, charge
  <2>3. 0 + 0 <= Ceiling(r.length) /\ 0 \in Nat
    BY <1>2
  <2>4. Fits(charge, Ceiling(r.length), 0 + 0, v + w)
    BY <1>2, <2>1, <2>2, <2>3, ChargeFits
  <2>5. \A a, b \in Nat : 0 + 0 + a + b = a + b /\ a + b \in Nat
    OBVIOUS
  <2>6. charge.volume[1] + charge.volume[2] <= Ceiling(r.length)
    BY <2>4, <2>5, Zenon DEF Fits
  <2>7. DeclaredBytes(r) \in Nat
    BY <2>1, <2>5, Zenon
  <2> QED
    BY <2>1, <2>4, <2>6, <2>7, Zenon DEF Fits
<1> HIDE DEF charge
<1>4. held \in BOOLEAN /\ capped \in BOOLEAN
  BY <1>3
<1>5. /\ reason \in {"capped", "completed", "none"}
      /\ reason = "capped" => capped
      /\ capped => reason = "capped"
  OBVIOUS
<1>6. now \in 0 .. MaxTime /\ now \in Nat /\ now # Never
  BY ReportsAssumption DEF IInv, Never
<1>7. /\ Tabled(table)
      /\ \A j \in table : \E i \in intervals : ClosedFrom(j, i)
      /\ \A i \in intervals : ~IsOpen(i) => i \in table
      /\ \A j \in table : Counted(j, reports)
  BY ExpiredTable
<1> DEFINE q == OpeningCharge(capped, charge.volume)
           closedAt == IF reason = "none" THEN Never ELSE now
<1>8. /\ q[1] \in Nat /\ q[2] \in Nat /\ q \in Nat \X Nat
      /\ q[1] + q[2] <= DeclaredBytes(r) /\ q[1] + q[2] <= Ceiling(r.length)
      /\ ~held => q[1] + q[2] = DeclaredBytes(r)
      /\ reason = "capped" => held /\ q = <<0, 0>>
  <2>1. CASE capped
    <3>1. q = <<0, 0>> /\ held
      BY <2>1 DEF OpeningCharge
    <3>2. q[1] = 0 /\ q[2] = 0 /\ q \in Nat \X Nat
      BY <3>1
    <3>3. 0 + 0 <= DeclaredBytes(r) /\ 0 + 0 <= Ceiling(r.length)
      BY <1>2, <1>3
    <3> HIDE DEF q, held
    <3> QED
      BY <3>1, <3>2, <3>3
  <2>2. CASE ~capped
    <3>1. q = charge.volume /\ reason # "capped"
      BY <1>5, <2>2 DEF OpeningCharge
    <3>2. ~held => ~charge.held
      OBVIOUS
    <3>3. charge.volume \in Nat \X Nat
      BY <1>3
    <3> HIDE DEF q, held, reason
    <3> QED
      BY <1>3, <3>1, <3>2, <3>3, Zenon
  <2> QED
    BY <2>1, <2>2
<1>9. /\ closedAt \in Nat \union {Never} /\ (closedAt = Never) = (reason = "none")
      /\ reason = "none" => ~capped
  BY <1>5, <1>6
<1>10. /\ n.epoch = r.epoch /\ n.start = r.start /\ n.end = EndOf(r) /\ n.first = r.seq
       /\ n.parts = r.parts /\ n.got = 1 /\ n.charged = q /\ n.held = held
       /\ n.firstAt = now /\ n.lastAt = now /\ n.closedAt = closedAt /\ n.reason = reason
       /\ n.declared = DeclaredBytes(r)
  OBVIOUS
<1>11. n \in Interval
  <2>1. 1 \in 1 .. MaxParts
    BY ReportsAssumption
  <2>2. reason \in Reasons
    BY <1>5 DEF Reasons
  <2>3. n = [epoch |-> r.epoch, start |-> r.start, end |-> EndOf(r), first |-> r.seq,
             parts |-> r.parts, got |-> 1, charged |-> q, held |-> held,
             firstAt |-> now, lastAt |-> now, closedAt |-> closedAt, reason |-> reason,
             declared |-> DeclaredBytes(r)]
    OBVIOUS
  <2> HIDE DEF n, q, held, reason, closedAt
  <2>4. /\ r.epoch \in Epochs /\ r.start \in 0 .. MaxTime /\ EndOf(r) \in Nat /\ r.seq \in Seqs
        /\ r.parts \in 1 .. MaxParts /\ 1 \in 1 .. MaxParts /\ q \in Nat \X Nat
        /\ held \in BOOLEAN /\ now \in 0 .. MaxTime /\ closedAt \in Nat \union {Never}
        /\ reason \in Reasons /\ DeclaredBytes(r) \in Nat
    BY <1>2, <1>3, <1>4, <1>6, <1>8, <1>9, <2>1, <2>2, Zenon
  <2> QED
    BY <2>3, <2>4 DEF Interval
<1> HIDE DEF n, q, closedAt, capped, reason, held
<1>12. Rowed(n)
  <2>1. now <= now /\ 1 <= r.parts
    BY <1>2, <1>6
  <2> QED
    BY <1>2, <1>8, <1>9, <1>10, <1>11, <2>1, Zenon DEF Rowed
<1>13. Within(n)
  <2>1. n.end - n.start = r.length
    BY <1>2, <1>10, Zenon
  <2> QED
    BY <1>8, <1>10, <2>1, Zenon DEF Within
<1>14. \A i \in table : i.end <= r.start
  <2> SUFFICES ASSUME NEW i \in table PROVE i.end <= r.start
    OBVIOUS
  <2>1. \A j \in table : j.end \in Nat
    BY <1>7, RowTyped DEF Tabled
  <2>2. IsFiniteSet(table) /\ table # {}
    BY <1>7 DEF Tabled
  <2> HIDE DEF table
  <2>3. Last(table) \in table /\ i.end <= Last(table).end
    BY <2>1, <2>2, LastRow
  <2>4. ~(r.start < Last(table).end)
    BY <1>1, <2>2 DEF Unacceptable
  <2> QED
    BY <1>2, <2>1, <2>3, <2>4
<1>15. /\ Tabled(rest)
       /\ \A j \in rest : \E i \in table : ClosedFrom(j, i)
       /\ \A i \in table : ~IsOpen(i) => i \in rest
       /\ \A j \in rest : Counted(j, reports)
       /\ ~held => OpenOf(rest) = {}
  <2>1. CASE held
    BY <1>7, <2>1 DEF ClosedFrom
  <2>2. CASE ~held
    <3>1. rest = Superseded(table, r.start)
      BY <2>2
    <3>2. /\ Tabled(rest)
          /\ \A j \in rest : \E i \in table : ClosedFrom(j, i)
          /\ OpenOf(rest) \subseteq OpenOf(table)
          /\ \A j \in OpenOf(rest) : ~(j.end <= r.start)
          /\ \A i \in table : ~IsOpen(i) => i \in rest
          /\ \A j \in rest : Counted(j, reports)
      BY <1>7, <3>1, SupersededTable
    <3>3. \A j \in OpenOf(rest) : j \in table
      BY <3>2 DEF OpenOf
    <3> HIDE DEF rest, table
    <3> QED
      BY <1>14, <3>2, <3>3
  <2> QED
    BY <2>1, <2>2
<1>16. \A j \in rest : Apart(j, n)
  <2> SUFFICES ASSUME NEW j \in rest PROVE j.end <= n.start
    BY DEF Apart
  <2>1. PICK i \in table : ClosedFrom(j, i)
    BY <1>15
  <2>2. Rowed(i)
    BY <1>7 DEF Tabled
  <2>3. j.end = i.end
    BY <2>1, <2>2, ClosedRow
  <2> QED
    BY <1>10, <1>14, <2>3
<1>17. IsOpen(n) => Cardinality(OpenOf(rest)) < MaxOpen
  <2> SUFFICES ASSUME IsOpen(n) PROVE Cardinality(OpenOf(rest)) < MaxOpen
    OBVIOUS
  <2>1. ~capped
    BY <1>9, <1>10 DEF IsOpen
  <2>2. CASE held
    <3>1. rest = table /\ ~AtCap(table)
      BY <2>1, <2>2 DEF capped
    <3>2. ~(Cardinality(OpenOf(table)) >= MaxOpen)
      BY <3>1 DEF AtCap, OpenOf
    <3>3. Cardinality(OpenOf(table)) \in Nat /\ MaxOpen \in Nat
      BY <1>7, FS_Subset, FS_CardinalityType, ReportsAssumption DEF Tabled, OpenOf
    <3> HIDE DEF table, rest
    <3> QED
      BY <3>1, <3>2, <3>3
  <2>3. CASE ~held
    <3>1. OpenOf(rest) = {}
      BY <1>15, <2>3
    <3> QED
      BY <3>1, FS_EmptySet, ReportsAssumption
  <2> QED
    BY <2>2, <2>3
<1>18. Tabled(intervals')
  <2> HIDE DEF rest
  <2> QED
    BY <1>1, <1>12, <1>13, <1>15, <1>16, <1>17, AddedRow
<1>19. RecordedAs(held) \in {"accepted", "held"}
  BY DEF RecordedAs
<1>20. Reported /\ Reported'
  BY <1>1, <1>19, RecordTyped DEF IInv
<1>21. Counted(n, reports')
  <2>1. r.seq <= r.seq /\ r.seq <= r.seq + r.parts - 1
    BY <1>2
  <2>2. Cardinality(Numbers(n, reports)) + 1 <= Cardinality(Numbers(n, reports'))
    BY <1>1, <1>2, <1>10, <1>19, <1>20, <2>1, OneMore
  <2>3. Cardinality(Numbers(n, reports)) \in Nat /\ Cardinality(Numbers(n, reports')) \in Nat
    BY <1>2, <1>10, FiniteNumbers
  <2>4. 1 <= Cardinality(Numbers(n, reports'))
    BY <2>2, <2>3
  <2> QED
    BY <1>10, <2>4 DEF Counted
<1>22. \A j \in rest : Counted(j, reports')
  <2> HIDE DEF rest
  <2> QED
    BY <1>1, <1>15, <1>20, RecordKeeps DEF Tabled
<1>23. \A i \in intervals' : Counted(i, reports')
  BY <1>1, <1>21, <1>22
<1>24. \A i \in intervals : ~IsOpen(i) => i \in intervals'
  BY <1>1, <1>7, <1>15
<1>25. now' \in 0 .. MaxTime /\ trusted' \in BOOLEAN
  BY DEF IInv
<1> QED
  BY <1>18, <1>20, <1>23, <1>24, <1>25 DEF IInv, Kept

\* The later of two times.
LEMMA Later ==
    ASSUME NEW a \in Nat, NEW b \in Nat, NEW bound \in Nat, a <= bound, b <= bound
    PROVE  Max({a, b}) \in Nat /\ a <= Max({a, b}) /\ Max({a, b}) <= bound
<1>1. Max({a, b}) \in {a, b} /\ \A x \in {a, b} : Max({a, b}) >= x
  <2>1. \E m \in {a, b} : \A x \in {a, b} : m >= x
    OBVIOUS
  <2> QED
    BY <2>1 DEF Max
<1> QED
  BY <1>1

\* A report that continues an open interval: one more number of its range, and a
\* charge within what its earlier parts left.
LEMMA Continuing ==
    ASSUME IInv, NEW r \in Report, Continue(r), UNCHANGED <<now, trusted>>
    PROVE  Kept
<1> DEFINE charge(i) == Charge(Ceiling(r.length), i.charged, Volume(r))
           complete(i) == i.got + 1 = r.parts
           grown(i) == [i EXCEPT !.parts = r.parts, !.got = @ + 1,
                                 !.charged = Plus(@, charge(i).volume),
                                 !.held = @ \/ charge(i).held,
                                 !.lastAt = Max({@, now}),
                                 !.closedAt = IF complete(i) THEN now ELSE @,
                                 !.reason = IF complete(i) THEN "completed" ELSE @,
                                 !.declared = @ + DeclaredBytes(r)]
           remains(i) == IF charge(i).held THEN Expired \ {i}
                         ELSE Superseded(Expired \ {i}, r.start)
<1>1. New(r)
  BY DEF Continue
<1>2. PICK i \in Expired : /\ Same(i, r) /\ IsOpen(i) /\ r.parts >= i.parts /\ InRange(i, r)
                           /\ Record(r, RecordedAs(charge(i).held))
                           /\ intervals' = {grown(i)} \union remains(i)
  BY DEF Continue
<1> DEFINE c == charge(i)
           n == grown(i)
           rest == remains(i)
           others == Expired \ {i}
<1>3. /\ r.epoch \in Epochs /\ r.seq \in Seqs /\ r.seq \in Nat
      /\ r.start \in 0 .. MaxTime /\ r.start \in Nat
      /\ r.parts \in 1 .. MaxParts /\ r.parts \in Nat /\ r.parts >= 1
      /\ EndOf(r) \in Nat /\ r.start < EndOf(r) /\ EndOf(r) - r.start = r.length
      /\ Ceiling(r.length) \in Nat
  BY ReportTyped
<1>4. /\ Tabled(Expired)
      /\ \A j \in intervals : ~IsOpen(j) => j \in Expired
      /\ \A j \in Expired : Counted(j, reports)
  BY ExpiredTable
<1>5. Rowed(i) /\ Within(i)
  BY <1>4 DEF Tabled
<1>6. /\ i.first \in Nat /\ i.parts \in Nat /\ i.parts >= 1 /\ i.got \in Nat
      /\ i.start \in Nat /\ i.end \in Nat /\ i.firstAt \in Nat /\ i.lastAt \in Nat
      /\ i.declared \in Nat
      /\ i.charged = <<i.charged[1], i.charged[2]>>
      /\ i.charged[1] \in Nat /\ i.charged[2] \in Nat
  BY <1>5, RowTyped, Zenon
<1>7. i.epoch = r.epoch /\ i.start = r.start /\ i.end = EndOf(r)
  BY <1>2 DEF Same
<1>8. i.charged[1] + i.charged[2] <= Ceiling(r.length)
  BY <1>3, <1>5, <1>7, Zenon DEF Within
<1>9. /\ Fits(c, Ceiling(r.length), i.charged[1] + i.charged[2], DeclaredBytes(r))
      /\ DeclaredBytes(r) \in Nat
  <2> DEFINE v == Volume(r)[1]
             w == Volume(r)[2]
  <2>1. v \in Nat /\ w \in Nat /\ Volume(r) = <<v, w>> /\ DeclaredBytes(r) = v + w
    BY VolumeDeclared
  <2>2. c = Charge(Ceiling(r.length), <<i.charged[1], i.charged[2]>>, <<v, w>>)
    BY <1>6, <2>1, Zenon
  <2> HIDE DEF v, w, c
  <2>3. Fits(c, Ceiling(r.length), i.charged[1] + i.charged[2], v + w)
    BY <1>3, <1>6, <1>8, <2>1, <2>2, ChargeFits
  <2>4. v + w \in Nat
    BY <2>1
  <2> QED
    BY <2>1, <2>3, <2>4, Zenon
<1>10. now \in 0 .. MaxTime /\ now \in Nat /\ now <= MaxTime /\ MaxTime \in Nat
  BY ReportsAssumption DEF IInv
<1> DEFINE closedAt == IF complete(i) THEN now ELSE i.closedAt
           reason == IF complete(i) THEN "completed" ELSE i.reason
           lastAt == Max({i.lastAt, now})
           q == Plus(i.charged, c.volume)
           held == i.held \/ c.held
<1>11. i \in Interval
  BY <1>5 DEF Rowed
<1>12. /\ n.epoch = i.epoch /\ n.start = i.start /\ n.end = i.end /\ n.first = i.first
       /\ n.parts = r.parts /\ n.got = i.got + 1 /\ n.charged = q /\ n.held = held
       /\ n.firstAt = i.firstAt /\ n.lastAt = lastAt /\ n.closedAt = closedAt
       /\ n.reason = reason /\ n.declared = i.declared + DeclaredBytes(r)
       /\ n \in [epoch : {i.epoch}, start : {i.start}, end : {i.end}, first : {i.first},
                 parts : {r.parts}, got : {i.got + 1}, charged : {q}, held : {held},
                 firstAt : {i.firstAt}, lastAt : {lastAt}, closedAt : {closedAt},
                 reason : {reason}, declared : {i.declared + DeclaredBytes(r)}]
  <2> HIDE DEF c, complete
  <2>1. n = [i EXCEPT !.parts = r.parts, !.got = i.got + 1, !.charged = q, !.held = held,
                      !.lastAt = lastAt, !.closedAt = closedAt, !.reason = reason,
                      !.declared = i.declared + DeclaredBytes(r)]
    BY DEF c
  <2> HIDE DEF n, q, held, lastAt, closedAt, reason
  <2> QED
    BY <1>11, <2>1 DEF Interval
<1> HIDE DEF n, c
<1>13. lastAt \in Nat /\ i.lastAt <= lastAt /\ lastAt <= MaxTime
  <2>1. i.lastAt <= MaxTime
    BY <1>10, <1>11 DEF Interval
  <2> QED
    BY <1>6, <1>10, <2>1, Later
<1>14. /\ q = <<i.charged[1] + c.volume[1], i.charged[2] + c.volume[2]>>
       /\ q[1] = i.charged[1] + c.volume[1] /\ q[2] = i.charged[2] + c.volume[2]
  BY DEF Plus
<1>15. /\ q \in Nat \X Nat
       /\ q[1] + q[2] <= Ceiling(r.length)
       /\ q[1] + q[2] <= i.declared + DeclaredBytes(r)
       /\ ~held => q[1] + q[2] = i.declared + DeclaredBytes(r)
  <2>1. c.volume[1] \in Nat /\ c.volume[2] \in Nat
    BY <1>9 DEF Fits
  <2>2. /\ c.volume[1] + c.volume[2] <= DeclaredBytes(r)
        /\ i.charged[1] + i.charged[2] + c.volume[1] + c.volume[2] <= Ceiling(r.length)
        /\ ~c.held => c.volume[1] + c.volume[2] = DeclaredBytes(r)
    BY <1>9, Zenon DEF Fits
  <2>3. /\ i.charged[1] + i.charged[2] <= i.declared
        /\ ~i.held => i.charged[1] + i.charged[2] = i.declared
    BY <1>5 DEF Within
  <2>4. q \in Nat \X Nat
    BY <1>6, <1>14, <2>1
  <2>5. \A a, b, x, y, d, e, l \in Nat :
           /\ (a + b) + x + y <= l => (a + x) + (b + y) <= l
           /\ a + b <= d /\ x + y <= e => (a + x) + (b + y) <= d + e
           /\ a + b = d /\ x + y = e => (a + x) + (b + y) = d + e
    OBVIOUS
  <2>6. ~held => ~i.held /\ ~c.held
    OBVIOUS
  <2> DEFINE a == i.charged[1]
             b == i.charged[2]
             x == c.volume[1]
             y == c.volume[2]
             d == i.declared
             e == DeclaredBytes(r)
             l == Ceiling(r.length)
  <2>7. /\ a \in Nat /\ b \in Nat /\ x \in Nat /\ y \in Nat /\ d \in Nat /\ e \in Nat
        /\ l \in Nat
    BY <1>3, <1>6, <1>9, <2>1
  <2>8. q[1] = a + x /\ q[2] = b + y
    BY <1>14
  <2>9. /\ a + b + x + y <= l /\ x + y <= e /\ a + b <= d
        /\ ~c.held => x + y = e
        /\ ~i.held => a + b = d
    BY <2>2, <2>3
  <2> HIDE DEF q, held, a, b, x, y, d, e, l
  <2>10. (a + x) + (b + y) <= l /\ (a + x) + (b + y) <= d + e
    BY <2>5, <2>7, <2>9
  <2>11. ~held => (a + x) + (b + y) = d + e
    BY <2>5, <2>6, <2>7, <2>9
  <2> QED
    BY <2>4, <2>8, <2>10, <2>11 DEF d, e, l
<1>16. RecordedAs(c.held) \in {"accepted", "held"}
  BY DEF RecordedAs
<1>17. Reported /\ Reported' /\ Record(r, RecordedAs(c.held))
  <2>1. Record(r, RecordedAs(c.held))
    BY <1>2 DEF c
  <2> QED
    BY <1>16, <2>1, RecordTyped DEF IInv
<1>18. i.got + 1 <= Cardinality(Numbers(n, reports')) /\ i.got + 1 <= r.parts
  <2>1. Cardinality(Numbers(i, reports)) + 1 <= Cardinality(Numbers(n, reports'))
    <3>1. n.epoch = r.epoch /\ n.first = i.first /\ n.parts = r.parts
      BY <1>7, <1>12, Zenon
    <3>2. i.first <= r.seq /\ r.seq <= i.first + r.parts - 1
      BY <1>2 DEF InRange
    <3> QED
      BY <1>1, <1>2, <1>3, <1>6, <1>7, <1>16, <1>17, <3>1, <3>2, OneMore
  <2>2. i.got <= Cardinality(Numbers(i, reports))
    BY <1>4 DEF Counted
  <2>3. /\ Cardinality(Numbers(i, reports)) \in Nat
        /\ Cardinality(Numbers(n, reports')) \in Nat
        /\ Cardinality(Numbers(n, reports')) <= r.parts
    <3>1. n.first \in Nat /\ n.parts = r.parts
      BY <1>6, <1>12, Zenon
    <3> QED
      BY <1>3, <1>6, <3>1, FiniteNumbers
  <2> QED
    BY <1>3, <1>6, <2>1, <2>2, <2>3
<1>19. /\ closedAt \in Nat \union {Never} /\ (closedAt = Never) = (reason = "none")
       /\ reason \in Reasons /\ reason # "capped"
       /\ i.reason = "none"
  <2>1. i.closedAt = Never /\ i.reason = "none"
    BY <1>2, <1>5 DEF Rowed, IsOpen
  <2>2. now # Never
    BY <1>10 DEF Never
  <2> QED
    BY <1>10, <2>1, <2>2 DEF Reasons
<1>20. n \in Interval
  <2>1. i.got + 1 \in 1 .. MaxParts
    <3>1. MaxParts \in Nat /\ r.parts <= MaxParts
      BY <1>3, ReportsAssumption
    <3> QED
      BY <1>3, <1>6, <1>18, <3>1
  <2>2. i.declared + DeclaredBytes(r) \in Nat
    BY <1>6, <1>9
  <2>3. held \in BOOLEAN
    BY <1>9, <1>11 DEF Interval, Fits
  <2>4. lastAt \in 0 .. MaxTime
    BY <1>10, <1>13
  <2>5. /\ i.epoch \in Epochs /\ i.start \in 0 .. MaxTime /\ i.end \in Nat /\ i.first \in Seqs
        /\ i.firstAt \in 0 .. MaxTime
    BY <1>11 DEF Interval
  <2> HIDE DEF q, held, lastAt, closedAt, reason
  <2>6. /\ r.parts \in 1 .. MaxParts /\ q \in Nat \X Nat
        /\ closedAt \in Nat \union {Never} /\ reason \in Reasons
    BY <1>3, <1>15, <1>19, Zenon
  <2> QED
    BY <1>12, <2>1, <2>2, <2>3, <2>4, <2>5, <2>6 DEF Interval
<1>21. Rowed(n)
  <2>1. i.start < i.end /\ i.firstAt <= i.lastAt
    BY <1>5 DEF Rowed
  <2>2. i.firstAt <= lastAt
    BY <1>6, <1>13, <2>1
  <2> HIDE DEF q, held, lastAt, closedAt, reason
  <2> QED
    BY <1>12, <1>18, <1>19, <1>20, <2>1, <2>2, Zenon DEF Rowed
<1>22. Within(n)
  <2>1. n.end - n.start = r.length
    BY <1>3, <1>7, <1>12, Zenon
  <2> HIDE DEF q, held
  <2> QED
    BY <1>12, <1>15, <2>1, Zenon DEF Within
<1> HIDE DEF q, held, lastAt, closedAt, reason
<1>23. /\ Tabled(others) /\ \A j \in others : Apart(j, n)
       /\ Cardinality(OpenOf(others)) < MaxOpen
       /\ Cardinality(OpenOf(others)) \in Nat /\ IsFiniteSet(OpenOf(others))
  <2>1. IsFiniteSet(others)
    BY <1>4, FS_RemoveElement DEF Tabled
  <2>2. \A j \in others : j # i /\ Apart(j, i)
    BY <1>4 DEF Tabled
  <2>3. \A j \in others : Apart(j, n)
    BY <1>12, <2>2 DEF Apart
  <2>4. OpenOf(others) = OpenOf(Expired) \ {i} /\ i \in OpenOf(Expired)
    BY <1>2 DEF OpenOf
  <2>5. IsFiniteSet(OpenOf(Expired)) /\ Cardinality(OpenOf(Expired)) \in Nat
    BY <1>4, FS_Subset, FS_CardinalityType DEF Tabled, OpenOf
  <2>6. /\ Cardinality(OpenOf(others)) = Cardinality(OpenOf(Expired)) - 1
        /\ IsFiniteSet(OpenOf(others))
    BY <2>4, <2>5, FS_RemoveElement
  <2>7. Cardinality(OpenOf(others)) \in Nat
    BY <2>6, FS_CardinalityType
  <2>8. Cardinality(OpenOf(Expired)) <= MaxOpen /\ MaxOpen \in Nat
    BY <1>4, ReportsAssumption DEF Tabled
  <2>9. Cardinality(OpenOf(others)) < MaxOpen /\ Cardinality(OpenOf(others)) <= MaxOpen
    BY <2>5, <2>6, <2>7, <2>8
  <2> QED
    BY <1>4, <2>1, <2>3, <2>6, <2>7, <2>9 DEF Tabled
<1>24. /\ Tabled(rest)
       /\ \A j \in rest : \E k \in others : ClosedFrom(j, k)
       /\ \A k \in others : ~IsOpen(k) => k \in rest
       /\ \A j \in rest : Counted(j, reports)
       /\ OpenOf(rest) \subseteq OpenOf(others)
  <2>1. \A j \in others : Counted(j, reports)
    BY <1>4
  <2> HIDE DEF others
  <2>2. CASE c.held
    <3>1. rest = others
      BY <2>2 DEF c, others
    <3> QED
      BY <1>23, <2>1, <3>1 DEF ClosedFrom
  <2>3. CASE ~c.held
    <3>1. rest = Superseded(others, r.start)
      BY <2>3 DEF c, others
    <3> HIDE DEF rest
    <3> QED
      BY <1>23, <2>1, <3>1, SupersededTable
  <2> QED
    BY <2>2, <2>3
<1> HIDE DEF rest
<1>25. intervals' = {n} \union rest
  BY <1>2 DEF n, rest
<1>26. \A j \in rest : Apart(j, n)
  <2> SUFFICES ASSUME NEW j \in rest PROVE Apart(j, n)
    OBVIOUS
  <2>1. PICK k \in others : ClosedFrom(j, k)
    BY <1>24
  <2>2. Rowed(k) /\ Rowed(j) /\ Rowed(i)
    BY <1>4, <1>5, <1>24 DEF Tabled
  <2>3. j.start = k.start /\ j.end = k.end
    BY <2>1, <2>2, ClosedRow
  <2>4. k.end <= n.start \/ n.end <= k.start
    <3>1. k # i /\ Apart(k, i)
      BY <1>4 DEF Tabled
    <3> QED
      BY <1>12, <3>1 DEF Apart
  <2> QED
    BY <2>3, <2>4 DEF Apart
<1>27. Cardinality(OpenOf(rest)) < MaxOpen
  <2>1. Cardinality(OpenOf(rest)) <= Cardinality(OpenOf(others))
    BY <1>23, <1>24, FS_Subset
  <2>2. Cardinality(OpenOf(rest)) \in Nat /\ MaxOpen \in Nat
    BY <1>23, <1>24, FS_Subset, FS_CardinalityType, ReportsAssumption
  <2> QED
    BY <1>23, <2>1, <2>2
<1>28. Tabled(intervals')
  BY <1>21, <1>22, <1>24, <1>25, <1>26, <1>27, AddedRow
<1>29. \A j \in rest : Counted(j, reports')
  BY <1>1, <1>17, <1>24, RecordKeeps DEF Tabled
<1>30. Counted(n, reports')
  BY <1>12, <1>18, Zenon DEF Counted
<1>31. \A j \in intervals' : Counted(j, reports')
  BY <1>25, <1>29, <1>30
<1>32. \A j \in intervals : ~IsOpen(j) => j \in intervals'
  BY <1>2, <1>4, <1>24, <1>25
<1>33. now' \in 0 .. MaxTime /\ trusted' \in BOOLEAN
  BY DEF IInv
<1> QED
  BY <1>17, <1>28, <1>31, <1>32, <1>33 DEF IInv, Kept

---------------------------------------------------------------------------
(* The invariant, and what follows from it.                                *)

\* The first state: no interval, no number recorded.
LEMMA Initially == ReportsInit => IInv
<1> SUFFICES ASSUME ReportsInit PROVE IInv
  OBVIOUS
<1>1. now \in 0 .. MaxTime /\ trusted \in BOOLEAN
  BY ReportsAssumption DEF ReportsInit
<1>2. Reported
  BY DEF ReportsInit, Reported
<1>3. Tabled({})
  <2>1. OpenOf({}) = {}
    BY DEF OpenOf
  <2> QED
    BY <2>1, FS_EmptySet, ReportsAssumption DEF Tabled
<1> QED
  BY <1>1, <1>2, <1>3 DEF ReportsInit, IInv

\* Every step keeps the invariant and every closed row.
LEMMA Step == IInv /\ [ReportsNext]_reportsVars => Kept
<1> SUFFICES ASSUME IInv, [ReportsNext]_reportsVars PROVE Kept
  OBVIOUS
<1>1. CASE UNCHANGED reportsVars
  BY <1>1 DEF reportsVars, IInv, Reported, Kept
<1>2. CASE Tick
  <2>1. now' \in 0 .. MaxTime
    <3>1. now \in 0 .. MaxTime /\ MaxTime \in Nat /\ now < MaxTime /\ now' = now + 1
      BY <1>2, ReportsAssumption DEF Tick, IInv
    <3> QED
      BY <3>1
  <2> QED
    BY <1>2, <2>1 DEF Tick, IInv, Reported, Kept
<1>3. CASE Withdraw
  BY <1>3 DEF Withdraw, IInv, Reported, Kept
<1>4. ASSUME NEW r \in Report, Accept(r) PROVE Kept
  <2> UNCHANGED <<now, trusted>>
    BY <1>4 DEF Accept
  <2>1. CASE RejectFuture(r)
    BY <2>1, Refusing DEF RejectFuture
  <2>2. CASE RejectInterval(r)
    BY <2>2, Refusing DEF RejectInterval
  <2>3. CASE Open(r)
    BY <2>3, Opening
  <2>4. CASE RejectPart(r)
    BY <2>4, Refusing DEF RejectPart
  <2>5. CASE Continue(r)
    BY <2>5, Continuing
  <2> QED
    BY <1>4, <2>1, <2>2, <2>3, <2>4, <2>5 DEF Accept
<1> QED
  BY <1>1, <1>2, <1>3, <1>4 DEF ReportsNext

\* The conjuncts of the invariant are the properties.
LEMMA Consequences ==
    IInv => ReportsTypeOK /\ IntervalsDisjoint /\ ChargedWithinLink /\ OpenBounded /\ PartsRecorded
<1> SUFFICES ASSUME IInv
             PROVE ReportsTypeOK /\ IntervalsDisjoint /\ ChargedWithinLink /\ OpenBounded
                   /\ PartsRecorded
  OBVIOUS
<1>1. ReportsTypeOK
  BY DEF IInv, Reported, Tabled, Rowed, ReportsTypeOK
<1>2. IntervalsDisjoint
  BY DEF IInv, Tabled, Apart, IntervalsDisjoint
<1>3. ChargedWithinLink
  BY DEF IInv, Tabled, Within, ChargedWithinLink
<1>4. OpenBounded
  BY DEF IInv, Tabled, OpenOf, OpenBounded
<1>5. PartsRecorded
  BY DEF IInv, Counted, Numbers, PartsRecorded
<1> QED
  BY <1>1, <1>2, <1>3, <1>4, <1>5

\* The inductive invariant holds in every state an acceptance can reach.
THEOREM Invariance == ReportsSpec => []IInv
<1>1. ReportsInit => IInv
  BY Initially
<1>2. IInv /\ [ReportsNext]_reportsVars => IInv'
  BY Step DEF Kept
<1> QED
  BY <1>1, <1>2, PTL DEF ReportsSpec

\* The rows are of the types and under the CHECKs that the tables declare.
THEOREM TypeCorrect == ReportsSpec => []ReportsTypeOK
<1>1. IInv => ReportsTypeOK
  BY Consequences
<1> QED
  BY <1>1, Invariance, PTL

\* No two intervals of a node overlap, whatever the order, the epochs and the delays
\* of its reports: the comparison with the last interval of the table is enough.
THEOREM Disjoint == ReportsSpec => []IntervalsDisjoint
<1>1. IInv => IntervalsDisjoint
  BY Consequences
<1> QED
  BY <1>1, Invariance, PTL

\* No interval is charged more than the link could have carried in its time, nor more
\* than its parts declared, and one of which nothing was held all that they declared.
THEOREM WithinLink == ReportsSpec => []ChargedWithinLink
<1>1. IInv => ChargedWithinLink
  BY Consequences
<1> QED
  BY <1>1, Invariance, PTL

\* Never more open intervals than the limit, although held ones end no other.
THEOREM OpenBound == ReportsSpec => []OpenBounded
<1>1. IInv => OpenBounded
  BY Consequences
<1> QED
  BY <1>1, Invariance, PTL

\* The parts an interval has counted are distinct recorded numbers of its range: no
\* replay, repeat or mix of intervals counts a part twice.
THEOREM Recorded == ReportsSpec => []PartsRecorded
<1>1. IInv => PartsRecorded
  BY Consequences
<1> QED
  BY <1>1, Invariance, PTL

\* No step drops, reopens or changes an interval that is closed.
THEOREM Final == ReportsSpec => ClosedIsFinal
<1>1. IInv /\ [ReportsNext]_reportsVars
         => [\A i \in intervals : ~IsOpen(i) => i \in intervals']_reportsVars
  BY Step DEF Kept
<1> QED
  BY <1>1, Invariance, PTL DEF ReportsSpec, ClosedIsFinal
=============================================================================
