---------------------------- MODULE PartsProofs ----------------------------
(***************************************************************************)
(* Proofs about the parts around the domain, the ones Deployment composes: *)
(* accounts and sessions, the cipher of the processes, redeem codes, the   *)
(* scheduler, the rate limit and the gate before the parser.               *)
(***************************************************************************)
EXTENDS Accounts, Scheduler, RateLimit, FieldCipher, Codes, BodyShape,
        FiniteSetTheorems, WellFoundedInduction, TLAPS

---------------------------------------------------------------------------
(* Accounts, for any number of requests, sessions and links and any        *)
(* lifetime: a session that can be used can be found.                      *)

(***************************************************************************)
(* The inductive invariant.  The index holds sessions that have been       *)
(* opened; a login takes out of it only what has ended, and a session that *)
(* has ended never comes back; the index expires no sooner than the        *)
(* sessions it holds.  The number of changes of password is left unbounded *)
(* here.                                                                   *)
(***************************************************************************)
AccountRow ==
    [registered : BOOLEAN, verified : BOOLEAN, password : Nat, answered : SUBSET Nat]
SessionRow ==
    [state : {"unborn", "live", "ended"}, left : 0 .. Idleness, proved : Nat, since : Nat]
RequestRow == [at : {"idle", "authenticated", "probing", "creating", "seen", "again",
                     "owner", "revoking", "gathering", "deleting"},
               op : {"login", "request", "logout", "logout_all", "leave", "reset"},
               sid : Sids \union {0},
               read : SUBSET Sids,
               password : Nat]

AccountsTyped ==
    /\ account \in AccountRow
    /\ sessions \in [Sids -> SessionRow]
    /\ index \in [members : SUBSET Sids, left : 0 .. Idleness]
    /\ requests \in [Requests -> RequestRow]

MembersBorn == \A s \in index.members : sessions[s].state # "unborn"

ReadBorn ==
    \A r \in Requests : requests[r].at = "probing" =>
        \A s \in requests[r].read : sessions[s].state # "unborn"

ReadEnded ==
    \A r \in Requests : requests[r].at = "creating" =>
        \A s \in requests[r].read : sessions[s].state = "ended"

\* A session is read for a request or for logging out.
Cookies == {"request", "logout", "logout_all", "leave"}
SeenByCookie == \A r \in Requests : requests[r].at = "seen" => requests[r].op \in Cookies

TimeLeft == \A s \in Sids : Live(s) => sessions[s].left >= 1

AccountsInv ==
    /\ AccountsTyped
    /\ MembersBorn /\ ReadBorn /\ ReadEnded /\ SeenByCookie
    /\ TimeLeft /\ SessionsIndexed

---------------------------------------------------------------------------
(* Lemmas.                                                                 *)

\* Nothing comes back to life but a session that was never opened, and nothing that was
\* opened becomes unopened again: what requests have read stays true.
Onwards ==
    /\ \A s \in Sids : sessions[s].state # "unborn" => sessions'[s].state # "unborn"
    /\ \A s \in Sids : sessions[s].state = "ended" => sessions'[s].state = "ended"

\* One request takes a step, and what it has read is as the invariant says.
LEMMA ReadsKept ==
    ASSUME AccountsInv, Onwards, NEW r \in Requests, NEW row \in RequestRow,
           Step(r, row),
           row.at = "probing" => \A s \in row.read : sessions'[s].state # "unborn",
           row.at = "creating" => \A s \in row.read : sessions'[s].state = "ended",
           row.at = "seen" => row.op \in Cookies
    PROVE  requests' \in [Requests -> RequestRow] /\ ReadBorn' /\ ReadEnded' /\ SeenByCookie'
<1>1. requests' \in [Requests -> RequestRow]
  BY DEF Step, AccountsInv, AccountsTyped
<1>2. requests'[r] = row /\ \A q \in Requests \ {r} : requests'[q] = requests[q]
  BY DEF Step, AccountsInv, AccountsTyped
<1>3. \A q \in Requests : requests[q].read \subseteq Sids
  BY DEF AccountsInv, AccountsTyped, RequestRow
<1>4. ReadBorn'
  <2> SUFFICES ASSUME NEW q \in Requests, requests'[q].at = "probing", NEW s \in requests'[q].read
               PROVE  sessions'[s].state # "unborn"
    BY DEF ReadBorn
  <2>1. CASE q = r
    BY <1>2, <2>1
  <2>2. CASE q # r
    BY <1>2, <1>3, <2>2 DEF AccountsInv, ReadBorn, Onwards
  <2> QED
    BY <2>1, <2>2
<1>5. ReadEnded'
  <2> SUFFICES ASSUME NEW q \in Requests, requests'[q].at = "creating", NEW s \in requests'[q].read
               PROVE  sessions'[s].state = "ended"
    BY DEF ReadEnded
  <2>1. CASE q = r
    BY <1>2, <2>1
  <2>2. CASE q # r
    BY <1>2, <1>3, <2>2 DEF AccountsInv, ReadEnded, Onwards
  <2> QED
    BY <2>1, <2>2
<1>6. SeenByCookie'
  BY <1>2 DEF AccountsInv, SeenByCookie
<1> QED
  BY <1>1, <1>4, <1>5, <1>6

\* The requests stand still: what they have read stays true.
LEMMA ReadsStand ==
    ASSUME AccountsInv, Onwards, UNCHANGED requests
    PROVE  requests' \in [Requests -> RequestRow] /\ ReadBorn' /\ ReadEnded' /\ SeenByCookie'
<1>1. \A q \in Requests : requests[q].read \subseteq Sids
  BY DEF AccountsInv, AccountsTyped, RequestRow
<1> QED
  BY <1>1 DEF AccountsInv, AccountsTyped, ReadBorn, ReadEnded, SeenByCookie, Onwards

\* Sessions and index as they were: what the invariant says of them stays.
LEMMA KeysStand ==
    ASSUME AccountsInv, UNCHANGED <<sessions, index>>
    PROVE  (/\ sessions \in [Sids -> SessionRow]
            /\ index \in [members : SUBSET Sids, left : 0 .. Idleness]
            /\ MembersBorn /\ TimeLeft /\ SessionsIndexed)' /\ Onwards
BY DEF AccountsInv, AccountsTyped, MembersBorn, TimeLeft, SessionsIndexed, Live, Onwards

\* A request that is idle, or has only its place changed, is a request.
LEMMA RowsTyped ==
    /\ Idling \in RequestRow
    /\ \A row \in RequestRow : row.read \subseteq Sids
BY DEF Idling, RequestRow

\* EndAll ends what it takes out of the index, and nothing else.
LEMMA EndAllStep ==
    ASSUME AccountsInv, NEW ended \in SUBSET (Sids \union {0}), EndAll(ended)
    PROVE  (/\ sessions \in [Sids -> SessionRow]
            /\ index \in [members : SUBSET Sids, left : 0 .. Idleness]
            /\ MembersBorn /\ TimeLeft /\ SessionsIndexed)' /\ Onwards
<1> DEFINE left == index.members \ ended
<1>1. /\ sessions' = [s \in Sids |-> IF s \in ended /\ Live(s) THEN Ended ELSE sessions[s]]
      /\ index' = IF left = {} THEN NoIndex ELSE [index EXCEPT !.members = left]
  BY DEF EndAll
<1>2. Ended \in SessionRow /\ Ended.state = "ended"
  BY AccountsAssumption DEF Ended, Unborn, SessionRow
<1>3. sessions' \in [Sids -> SessionRow]
  BY <1>1, <1>2 DEF AccountsInv, AccountsTyped
<1>4. \A s \in Sids : \/ sessions'[s] = sessions[s] /\ ~(s \in ended /\ Live(s))
                      \/ sessions'[s] = Ended /\ Live(s)
  BY <1>1
<1>5. Onwards
  BY <1>2, <1>4 DEF Onwards, Live
<1>6. /\ index' \in [members : SUBSET Sids, left : 0 .. Idleness]
      /\ index'.members = left
      /\ left # {} => index'.left = index.left
  <2>1. CASE left = {}
    BY <1>1, <2>1, AccountsAssumption DEF NoIndex
  <2>2. CASE left # {}
    BY <1>1, <2>2 DEF AccountsInv, AccountsTyped
  <2> QED
    BY <2>1, <2>2
<1>7. index.members \subseteq Sids
  BY DEF AccountsInv, AccountsTyped
<1>8. MembersBorn'
  BY <1>5, <1>6, <1>7 DEF AccountsInv, MembersBorn, Onwards
<1>9. \A s \in Sids : Live(s)' => Live(s) /\ s \notin ended /\ sessions'[s] = sessions[s]
  BY <1>2, <1>4 DEF Live
<1>10. TimeLeft'
  BY <1>9 DEF AccountsInv, TimeLeft
<1>11. SessionsIndexed'
  <2> SUFFICES ASSUME NEW s \in Sids, Live(s)'
               PROVE  s \in index'.members /\ sessions'[s].left <= index'.left
    BY DEF SessionsIndexed
  <2>1. s \in index.members /\ sessions[s].left <= index.left
    BY <1>9 DEF AccountsInv, SessionsIndexed
  <2>2. s \in left
    BY <1>9, <2>1
  <2> QED
    BY <1>6, <1>9, <2>1, <2>2
<1> QED
  BY <1>3, <1>5, <1>6, <1>8, <1>10, <1>11

---------------------------------------------------------------------------
(* Steps.                                                                  *)

\* No account, no session.
LEMMA AccountsInitial == AccountsInit => AccountsInv
<1> SUFFICES ASSUME AccountsInit PROVE AccountsInv
  OBVIOUS
<1>1. Unborn \in SessionRow /\ Unborn.state = "unborn"
  BY AccountsAssumption DEF Unborn, SessionRow
<1>2. AccountsTyped
  BY <1>1, RowsTyped, AccountsAssumption DEF AccountsInit, AccountsTyped, AccountRow, NoIndex
<1>3. \A s \in Sids : ~Live(s)
  BY <1>1 DEF AccountsInit, Live
<1> QED
  BY <1>2, <1>3 DEF AccountsInv, AccountsInit, MembersBorn, ReadBorn, ReadEnded, SeenByCookie,
                    TimeLeft, SessionsIndexed, NoIndex, Idling

\* Registration and the links of e-mail touch no session.
LEMMA AccountStep ==
    ASSUME AccountsInv, Register \/ VerifyEmail \/ RequestReset \/ LinkExpires
    PROVE  AccountsInv'
<1>1. UNCHANGED <<sessions, index, requests>>
  BY DEF Register, VerifyEmail, RequestReset, LinkExpires
<1>2. account' \in AccountRow
  BY DEF Register, VerifyEmail, RequestReset, LinkExpires, AccountsInv, AccountsTyped, AccountRow
<1> QED
  BY <1>1, <1>2, KeysStand, ReadsStand DEF AccountsInv, AccountsTyped

\* Steps of a request that read, and write neither session nor index.
LEMMA ReadingStep ==
    ASSUME AccountsInv, NEW r \in Requests, NEW row \in RequestRow,
           Step(r, row), UNCHANGED <<sessions, index>>,
           account' \in AccountRow,
           row.at = "probing" => \A s \in row.read : sessions[s].state # "unborn",
           row.at = "creating" => \A s \in row.read : sessions[s].state = "ended",
           row.at = "seen" => row.op \in Cookies
    PROVE  AccountsInv'
BY KeysStand, ReadsKept DEF AccountsInv, AccountsTyped

\* A login reads the index, and drops from what it read the sessions that live.
LEMMA LoginStep ==
    ASSUME AccountsInv, NEW r \in Requests, Authenticate(r) \/ ReadMembers(r) \/ ProbeMembers(r)
    PROVE  AccountsInv'
<1>1. requests[r] \in RequestRow /\ account.password \in Nat
  BY DEF AccountsInv, AccountsTyped, AccountRow
<1>2. CASE Authenticate(r)
  <2> DEFINE row == [Idling EXCEPT !.at = "authenticated", !.op = "login",
                                   !.password = account.password]
  <2>1. row \in RequestRow /\ row.at = "authenticated"
    BY <1>1, RowsTyped DEF RequestRow, Idling
  <2>2. Step(r, row) /\ UNCHANGED <<account, links, sessions, index>>
    BY <1>2 DEF Authenticate
  <2> HIDE DEF row
  <2> QED
    BY <2>1, <2>2, ReadingStep DEF AccountsInv, AccountsTyped
<1>3. CASE ReadMembers(r)
  <2> DEFINE row == [requests[r] EXCEPT !.at = "probing", !.read = index.members]
  <2>1. row \in RequestRow /\ row.at = "probing" /\ row.read = index.members
    BY <1>1 DEF RequestRow, AccountsInv, AccountsTyped
  <2>2. Step(r, row) /\ UNCHANGED <<account, links, sessions, index>>
    BY <1>3 DEF ReadMembers
  <2> HIDE DEF row
  <2> QED
    BY <2>1, <2>2, ReadingStep DEF AccountsInv, AccountsTyped, MembersBorn
<1>4. CASE ProbeMembers(r)
  <2> DEFINE dead == {s \in requests[r].read : ~Live(s)}
             row == [requests[r] EXCEPT !.at = "creating", !.read = dead]
  <2>1. dead \subseteq Sids /\ \A s \in dead : sessions[s].state = "ended"
    <3>1. \A s \in requests[r].read : s \in Sids /\ sessions[s].state # "unborn"
      BY <1>1, <1>4, RowsTyped DEF ProbeMembers, AccountsInv, ReadBorn
    <3>2. \A s \in Sids : sessions[s].state \in {"unborn", "live", "ended"}
      BY DEF AccountsInv, AccountsTyped, SessionRow
    <3> QED
      BY <3>1, <3>2 DEF Live
  <2> HIDE DEF dead
  <2>2. row \in RequestRow /\ row.at = "creating" /\ row.read = dead
    BY <1>1, <2>1 DEF RequestRow
  <2>3. Step(r, row) /\ UNCHANGED <<account, links, sessions, index>>
    BY <1>4 DEF ProbeMembers, dead
  <2> HIDE DEF row
  <2> QED
    BY <2>1, <2>2, <2>3, ReadingStep DEF AccountsInv, AccountsTyped
<1> QED
  BY <1>2, <1>3, <1>4

\* A cookie's session is looked up, a log-out looks it up again, or finds its owner, and
\* revoke_all reads the index: requests that only read.
LEMMA LookingStep ==
    ASSUME AccountsInv, NEW r \in Requests,
           \/ \E s \in Sids, op \in {"request", "logout", "logout_all"} : Present(r, s, op)
           \/ PresentAgain(r) \/ ReadOwner(r) \/ Gather(r) \/ ConfirmReset(r)
    PROVE  AccountsInv'
<1>1. /\ requests[r] \in RequestRow /\ account.password \in Nat
      /\ index.members \subseteq Sids
  BY DEF AccountsInv, AccountsTyped, AccountRow
<1> SUFFICES ASSUME NEW row \in RequestRow, Step(r, row), UNCHANGED <<sessions, index>>,
                    row.at \notin {"probing", "creating"}, row.at = "seen" => row.op \in Cookies,
                    account' \in AccountRow
             PROVE  AccountsInv'
  <2>1. ASSUME NEW s \in Sids, NEW op \in {"request", "logout", "logout_all"}, Present(r, s, op)
        PROVE  AccountsInv'
    <3> DEFINE seen == [Idling EXCEPT !.at = "seen", !.op = op, !.sid = s]
    <3>1. seen \in RequestRow /\ seen.at = "seen" /\ seen.op \in Cookies
      BY RowsTyped DEF RequestRow, Idling, Cookies
    <3> QED
      BY <2>1, <3>1 DEF Present, AccountsInv, AccountsTyped
  <2>2. CASE PresentAgain(r)
    <3>1. [requests[r] EXCEPT !.at = "seen", !.op = "leave"] \in RequestRow
      BY <1>1 DEF RequestRow
    <3>2. /\ [requests[r] EXCEPT !.at = "seen", !.op = "leave"].at = "seen"
          /\ [requests[r] EXCEPT !.at = "seen", !.op = "leave"].op \in Cookies
          /\ Idling.at = "idle"
      BY <1>1 DEF RequestRow, Idling, Cookies
    <3> QED
      BY <2>2, <3>1, <3>2, RowsTyped DEF PresentAgain, AccountsInv, AccountsTyped
  <2>3. CASE ReadOwner(r)
    <3>1. [requests[r] EXCEPT !.at = "revoking"] \in RequestRow
      BY <1>1 DEF RequestRow
    <3>2. [requests[r] EXCEPT !.at = "revoking"].at = "revoking" /\ Idling.at = "idle"
      BY <1>1 DEF RequestRow, Idling
    <3> QED
      BY <2>3, <3>1, <3>2, RowsTyped DEF ReadOwner, AccountsInv, AccountsTyped
  <2>4. CASE Gather(r)
    <3> DEFINE gathered == [requests[r] EXCEPT !.at = "deleting", !.read = index.members]
    <3>1. gathered \in RequestRow /\ gathered.at = "deleting"
      BY <1>1 DEF RequestRow
    <3> QED
      BY <2>4, <3>1 DEF Gather, AccountsInv, AccountsTyped
  <2>5. CASE ConfirmReset(r)
    <3> DEFINE reset == [Idling EXCEPT !.at = "gathering", !.op = "reset",
                                       !.password = account.password + 1]
    <3>1. reset \in RequestRow /\ reset.at = "gathering"
      <4>1. ASSUME NEW w \in Nat
            PROVE  LET row == [Idling EXCEPT !.at = "gathering", !.op = "reset", !.password = w]
                   IN  row \in RequestRow /\ row.at = "gathering"
        BY RowsTyped DEF RequestRow, Idling
      <4>2. account.password + 1 \in Nat
        BY <1>1
      <4> QED
        BY <4>1, <4>2
    <3>2. account' \in AccountRow
      BY <1>1, <2>5 DEF ConfirmReset, AccountsInv, AccountsTyped, AccountRow
    <3> QED
      BY <2>5, <3>1, <3>2 DEF ConfirmReset
  <2> QED
    BY <2>1, <2>2, <2>3, <2>4, <2>5
<1> QED
  BY ReadingStep

\* A session is opened: it enters the index, which loses only what has ended and lives as
\* long as the newest session.
LEMMA CreateStep ==
    ASSUME AccountsInv, NEW r \in Requests, CreateSession(r)
    PROVE  AccountsInv'
<1>1. PICK n \in Sids :
        /\ requests[r].at = "creating"
        /\ sessions[n].state = "unborn"
        /\ sessions' = [sessions EXCEPT ![n] =
               [state |-> "live", left |-> Idleness,
                proved |-> requests[r].password, since |-> account.password]]
        /\ index' = Prolonged((index.members \ requests[r].read) \union {n})
        /\ Step(r, Idling)
        /\ UNCHANGED <<account, links>>
  BY DEF CreateSession
<1>2. /\ requests[r] \in RequestRow /\ account.password \in Nat
      /\ index.members \subseteq Sids /\ Idleness \in Nat \ {0}
  BY AccountsAssumption DEF AccountsInv, AccountsTyped, AccountRow
<1>3. /\ sessions' \in [Sids -> SessionRow]
      /\ sessions'[n].state = "live" /\ sessions'[n].left = Idleness
      /\ \A s \in Sids \ {n} : sessions'[s] = sessions[s]
  <2> DEFINE opened == [state |-> "live", left |-> Idleness,
                        proved |-> requests[r].password, since |-> account.password]
  <2>1. requests[r].password \in Nat
    BY <1>2 DEF RequestRow
  <2>2. opened \in SessionRow /\ opened.state = "live" /\ opened.left = Idleness
    BY <1>2, <2>1 DEF SessionRow
  <2>3. sessions' = [sessions EXCEPT ![n] = opened]
    BY <1>1
  <2> HIDE DEF opened
  <2> QED
    BY <2>2, <2>3 DEF AccountsInv, AccountsTyped
<1>4. Onwards
  BY <1>1, <1>3 DEF Onwards
<1>5. /\ index' \in [members : SUBSET Sids, left : 0 .. Idleness]
      /\ index'.members = (index.members \ requests[r].read) \union {n}
      /\ index'.left = Idleness
  BY <1>1, <1>2 DEF Prolonged
<1>6. MembersBorn'
  BY <1>2, <1>3, <1>5 DEF AccountsInv, MembersBorn
<1>7. TimeLeft'
  BY <1>2, <1>3 DEF AccountsInv, TimeLeft, Live
<1>8. SessionsIndexed'
  <2> SUFFICES ASSUME NEW s \in Sids, Live(s)'
               PROVE  s \in index'.members /\ sessions'[s].left <= index'.left
    BY DEF SessionsIndexed
  <2>1. sessions'[s] \in SessionRow
    BY <1>3
  <2>2. sessions'[s].left <= Idleness
    BY <1>2, <2>1 DEF SessionRow
  <2>3. s = n \/ Live(s)
    BY <1>3 DEF Live
  <2>4. Live(s) => s \in index.members /\ s \notin requests[r].read
    BY <1>1 DEF AccountsInv, SessionsIndexed, ReadEnded, Live
  <2> QED
    BY <1>5, <2>2, <2>3, <2>4
<1>9. requests' \in [Requests -> RequestRow] /\ ReadBorn' /\ ReadEnded' /\ SeenByCookie'
  BY <1>1, <1>4, RowsTyped, ReadsKept DEF Idling
<1> QED
  BY <1>1, <1>3, <1>5, <1>6, <1>7, <1>8, <1>9 DEF AccountsInv, AccountsTyped

\* A session is prolonged, if it still is there, and the index with it.
LEMMA ProlongStep ==
    ASSUME AccountsInv, NEW r \in Requests, ProlongSession(r)
    PROVE  AccountsInv'
<1> DEFINE p == requests[r].sid
<1>1. /\ requests[r].at = "seen"
      /\ sessions' = IF Live(p) THEN [sessions EXCEPT ![p].left = Idleness] ELSE sessions
      /\ index' = Prolonged(index.members)
      /\ Step(r, Onward(r))
      /\ UNCHANGED <<account, links>>
  BY DEF ProlongSession
<1>2. /\ requests[r] \in RequestRow /\ index.members \subseteq Sids
      /\ Idleness \in Nat \ {0} /\ index.left \in 0 .. Idleness
  BY AccountsAssumption DEF AccountsInv, AccountsTyped
<1> HIDE DEF p
<1>3. ASSUME NEW row \in SessionRow
      PROVE  /\ [row EXCEPT !.left = Idleness] \in SessionRow
             /\ [row EXCEPT !.left = Idleness].state = row.state
             /\ [row EXCEPT !.left = Idleness].left = Idleness
  BY <1>2 DEF SessionRow
<1>4. /\ sessions' \in [Sids -> SessionRow]
      /\ \A s \in Sids : /\ sessions'[s].state = sessions[s].state
                         /\ sessions'[s].left \in {sessions[s].left, Idleness}
  BY <1>1, <1>3 DEF AccountsInv, AccountsTyped
<1>5. Onwards
  BY <1>4 DEF Onwards
<1>6. /\ index' \in [members : SUBSET Sids, left : 0 .. Idleness]
      /\ index'.members = index.members
      /\ index.members # {} => index'.left = Idleness
  BY <1>1, <1>2 DEF Prolonged
<1>7. MembersBorn'
  BY <1>2, <1>4, <1>6 DEF AccountsInv, MembersBorn
<1>8. TimeLeft'
  BY <1>2, <1>4 DEF AccountsInv, TimeLeft, Live
<1>9. SessionsIndexed'
  <2> SUFFICES ASSUME NEW s \in Sids, Live(s)'
               PROVE  s \in index'.members /\ sessions'[s].left <= index'.left
    BY DEF SessionsIndexed
  <2>1. s \in index.members
    BY <1>4 DEF AccountsInv, SessionsIndexed, Live
  <2>2. sessions'[s] \in SessionRow
    BY <1>4
  <2>3. sessions'[s].left <= Idleness
    BY <1>2, <2>2 DEF SessionRow
  <2> QED
    BY <1>6, <2>1, <2>3
<1>10. Onward(r) \in RequestRow /\ Onward(r).at \notin {"probing", "creating", "seen"}
  <2>1. AfterGet(requests[r].op) \in {"idle", "owner", "again", "gathering"}
    BY <1>1 DEF AfterGet, AccountsInv, SeenByCookie, Cookies
  <2>2. ASSUME NEW at \in {"owner", "again", "gathering"}
        PROVE  /\ [requests[r] EXCEPT !.at = at] \in RequestRow
               /\ [requests[r] EXCEPT !.at = at].at = at
    BY <1>2 DEF RequestRow
  <2> QED
    BY <2>1, <2>2, RowsTyped DEF Onward, Idling
<1>11. requests' \in [Requests -> RequestRow] /\ ReadBorn' /\ ReadEnded' /\ SeenByCookie'
  BY <1>1, <1>5, <1>10, ReadsKept
<1> QED
  BY <1>1, <1>4, <1>6, <1>7, <1>8, <1>9, <1>11 DEF AccountsInv, AccountsTyped

\* revoke and revoke_all end what they take out of the index.
LEMMA RevokeStep ==
    ASSUME AccountsInv, NEW r \in Requests, Revoke(r) \/ RevokeAll(r)
    PROVE  AccountsInv'
<1>1. requests[r].sid \in Sids \union {0} /\ requests[r].read \subseteq Sids
  BY DEF AccountsInv, AccountsTyped, RequestRow
<1>2. PICK ended \in SUBSET (Sids \union {0}) : EndAll(ended) /\ Step(r, Idling)
  BY <1>1 DEF Revoke, RevokeAll
<1>3. (/\ sessions \in [Sids -> SessionRow]
       /\ index \in [members : SUBSET Sids, left : 0 .. Idleness]
       /\ MembersBorn /\ TimeLeft /\ SessionsIndexed)' /\ Onwards
  BY <1>2, EndAllStep
<1>4. requests' \in [Requests -> RequestRow] /\ ReadBorn' /\ ReadEnded' /\ SeenByCookie'
  BY <1>2, <1>3, RowsTyped, ReadsKept DEF Idling
<1>5. account' \in AccountRow
  <2>1. account \in AccountRow /\ requests[r].password \in Nat
    BY DEF AccountsInv, AccountsTyped, RequestRow
  <2>2. [account EXCEPT !.answered = @ \union {requests[r].password}] \in AccountRow
    BY <2>1 DEF AccountRow
  <2> QED
    BY <2>1, <2>2 DEF Revoke, RevokeAll
<1> QED
  BY <1>3, <1>4, <1>5 DEF AccountsInv, AccountsTyped

\* A request abandoned leaves the keys as they are.
LEMMA AbandonedStep ==
    ASSUME AccountsInv, NEW r \in Requests, Abandoned(r)
    PROVE  AccountsInv'
<1>1. Step(r, Idling) /\ UNCHANGED <<account, links, sessions, index>>
  BY DEF Abandoned
<1> QED
  BY <1>1, RowsTyped, ReadingStep DEF Idling, AccountsInv, AccountsTyped

\* A tick: a session in the index has no more time left than the index.
LEMMA IdleStep ==
    ASSUME AccountsInv, Idle
    PROVE  AccountsInv'
<1>1. /\ sessions' = [s \in Sids |->
              IF ~Live(s) THEN sessions[s]
              ELSE IF sessions[s].left = 1 THEN Ended
              ELSE [sessions[s] EXCEPT !.left = @ - 1]]
      /\ index' = IF index.left <= 1 THEN NoIndex ELSE [index EXCEPT !.left = @ - 1]
      /\ UNCHANGED <<account, links, requests>>
  BY DEF Idle
<1>2. /\ Idleness \in Nat \ {0} /\ index.left \in 0 .. Idleness /\ index.members \subseteq Sids
  BY AccountsAssumption DEF AccountsInv, AccountsTyped
<1>3. Ended \in SessionRow /\ Ended.state = "ended"
  BY AccountsAssumption DEF Ended, Unborn, SessionRow
<1>4. ASSUME NEW row \in SessionRow, row.left >= 1
      PROVE  /\ [row EXCEPT !.left = @ - 1] \in SessionRow
             /\ [row EXCEPT !.left = @ - 1].state = row.state
             /\ [row EXCEPT !.left = @ - 1].left = row.left - 1
  BY <1>2, <1>4 DEF SessionRow
<1>5. \A s \in Sids : sessions[s] \in SessionRow /\ sessions[s].left \in 0 .. Idleness
  BY DEF AccountsInv, AccountsTyped, SessionRow
<1>6. \A s \in Sids :
        \/ ~Live(s) /\ sessions'[s] = sessions[s]
        \/ Live(s) /\ sessions[s].left = 1 /\ sessions'[s] = Ended
        \/ /\ Live(s) /\ sessions[s].left > 1 /\ sessions'[s] \in SessionRow
           /\ sessions'[s].state = "live" /\ sessions'[s].left = sessions[s].left - 1
  BY <1>1, <1>2, <1>4, <1>5 DEF AccountsInv, TimeLeft, Live
<1>7. sessions' \in [Sids -> SessionRow]
  <2>1. \A s \in Sids : sessions'[s] \in SessionRow
    BY <1>3, <1>5, <1>6
  <2>2. sessions' = [s \in Sids |-> sessions'[s]]
    BY <1>1
  <2> QED
    BY <2>1, <2>2
<1>8. Onwards
  BY <1>3, <1>6 DEF Onwards, Live
<1>9. /\ index' \in [members : SUBSET Sids, left : 0 .. Idleness]
      /\ index'.members \subseteq index.members
      /\ index.left > 1 => index'.members = index.members /\ index'.left = index.left - 1
  <2>1. CASE index.left <= 1
    BY <1>1, <1>2, <2>1 DEF NoIndex
  <2>2. CASE index.left > 1
    BY <1>1, <1>2, <2>2 DEF AccountsInv, AccountsTyped
  <2> QED
    BY <1>2, <2>1, <2>2
<1>10. MembersBorn'
  BY <1>2, <1>8, <1>9 DEF AccountsInv, MembersBorn, Onwards
<1>11. \A s \in Sids : Live(s)' =>
         Live(s) /\ sessions[s].left > 1 /\ sessions'[s].left = sessions[s].left - 1
  BY <1>3, <1>6 DEF Live
<1>12. TimeLeft'
  BY <1>5, <1>11 DEF TimeLeft
<1>13. SessionsIndexed'
  <2> SUFFICES ASSUME NEW s \in Sids, Live(s)'
               PROVE  s \in index'.members /\ sessions'[s].left <= index'.left
    BY DEF SessionsIndexed
  <2>1. s \in index.members /\ sessions[s].left <= index.left
    BY <1>11 DEF AccountsInv, SessionsIndexed
  <2> QED
    BY <1>2, <1>5, <1>9, <1>11, <2>1
<1>14. requests' \in [Requests -> RequestRow] /\ ReadBorn' /\ ReadEnded' /\ SeenByCookie'
  BY <1>1, <1>8, ReadsStand
<1> QED
  BY <1>1, <1>7, <1>9, <1>10, <1>12, <1>13, <1>14 DEF AccountsInv, AccountsTyped

\* The invariant is inductive.
LEMMA AccountsInductive == AccountsInv /\ [AccountsNext]_accountsVars => AccountsInv'
<1> SUFFICES ASSUME AccountsInv, [AccountsNext]_accountsVars PROVE AccountsInv'
  OBVIOUS
<1>1. CASE Register \/ VerifyEmail \/ RequestReset \/ LinkExpires
  BY <1>1, AccountStep
<1>2. CASE Idle
  BY <1>2, IdleStep
<1>3. ASSUME NEW r \in Requests, Serve(r)
      PROVE  AccountsInv'
  BY <1>3, LoginStep, CreateStep, LookingStep, ProlongStep, RevokeStep, AbandonedStep DEF Serve
<1>4. CASE UNCHANGED accountsVars
  BY <1>4, KeysStand, ReadsStand DEF accountsVars, AccountsInv, AccountsTyped
<1> QED
  BY <1>1, <1>2, <1>3, <1>4 DEF AccountsNext

---------------------------------------------------------------------------
(* Sessions opened before a reset.                                         *)

(***************************************************************************)
(* The inductive invariant adds what the resets are about.  A password is  *)
(* set before it is answered for or its sessions are ended; and a reset    *)
(* that has read the index has found there every session opened before its *)
(* password that is still live, because what is live is indexed and what   *)
(* is opened later is opened under that password or one after it.          *)
(***************************************************************************)
AnsweredInForce == \A p \in account.answered : p <= account.password

ResetsInForce == \A r \in Requests : Resetting(r) => requests[r].password <= account.password

ResetsReadEarlier ==
    \A r \in Requests : \A s \in Sids :
        /\ Resetting(r) /\ requests[r].at = "deleting"
        /\ Live(s) /\ sessions[s].since < requests[r].password
        => s \in requests[r].read

ResetInv == AnsweredInForce /\ ResetsInForce /\ ResetsReadEarlier /\ ResetEndsEarlierSessions

\* What the invariant compares are numbers.
LEMMA PasswordsCompared ==
    ASSUME AccountsInv
    PROVE  /\ account.password \in Nat /\ account.answered \subseteq Nat
           /\ \A s \in Sids : sessions[s].since \in Nat
           /\ \A r \in Requests : requests[r].password \in Nat
BY DEF AccountsInv, AccountsTyped, AccountRow, SessionRow, RequestRow

\* A step of a request is a step of no other.
LEMMA OneRequestSteps ==
    ASSUME AccountsInv, NEW r \in Requests, NEW row, Step(r, row)
    PROVE  /\ requests'[r] = row
           /\ \A q \in Requests \ {r} : requests'[q] = requests[q]
BY DEF Step, AccountsInv, AccountsTyped

\* A request that is no reset afterwards ends or prolongs sessions, or only reads.
LEMMA NoResetStep ==
    ASSUME AccountsInv, ResetInv, NEW r \in Requests, NEW row, Step(r, row),
           row.op # "reset" \/ row.at \notin {"gathering", "deleting"},
           account' = account,
           \A s \in Sids : Live(s)' => Live(s) /\ sessions'[s].since = sessions[s].since
    PROVE  ResetInv'
<1>1. \A q \in Requests : Resetting(q)' => Resetting(q) /\ requests'[q] = requests[q]
  BY OneRequestSteps DEF Resetting
<1> QED
  BY <1>1 DEF ResetInv, AnsweredInForce, ResetsInForce, ResetsReadEarlier,
              ResetEndsEarlierSessions

\* EndAll leaves a session as it is, or ends it.
LEMMA EndAllEnds ==
    ASSUME AccountsInv, NEW ended, EndAll(ended)
    PROVE  \A s \in Sids : Live(s)' => s \notin ended /\ Live(s) /\ sessions'[s] = sessions[s]
<1>1. \A s \in Sids : sessions'[s] = IF s \in ended /\ Live(s) THEN Ended ELSE sessions[s]
  BY DEF EndAll
<1>2. Ended.state = "ended"
  BY DEF Ended, Unborn
<1> QED
  BY <1>1, <1>2 DEF Live

\* A session opened now is opened under the password in force, which is no earlier than
\* that of any reset.
LEMMA CreateKeepsResets ==
    ASSUME AccountsInv, ResetInv, NEW r \in Requests, CreateSession(r)
    PROVE  ResetInv'
<1>1. PICK n \in Sids :
        /\ sessions' = [sessions EXCEPT ![n] =
               [state |-> "live", left |-> Idleness,
                proved |-> requests[r].password, since |-> account.password]]
        /\ Step(r, Idling)
        /\ account' = account
  BY DEF CreateSession
<1>2. sessions'[n].since = account.password /\ \A s \in Sids \ {n} : sessions'[s] = sessions[s]
  BY <1>1 DEF AccountsInv, AccountsTyped
<1>3. \A q \in Requests : Resetting(q)' => Resetting(q) /\ requests'[q] = requests[q]
  BY <1>1, OneRequestSteps DEF Resetting, Idling
<1>4. ResetsReadEarlier'
  <2> SUFFICES ASSUME NEW q \in Requests, NEW s \in Sids, Resetting(q)',
                      requests'[q].at = "deleting", Live(s)',
                      sessions'[s].since < requests'[q].password
               PROVE  s \in requests'[q].read
    BY DEF ResetsReadEarlier
  <2>1. requests[q].password <= account.password
    BY <1>3 DEF ResetInv, ResetsInForce
  <2>2. s # n
    BY <1>2, <1>3, <2>1, PasswordsCompared
  <2> QED
    BY <1>2, <1>3, <2>2 DEF ResetInv, ResetsReadEarlier, Live
<1>5. ResetEndsEarlierSessions'
  BY <1>1, <1>2 DEF ResetInv, AnsweredInForce, ResetEndsEarlierSessions, Live
<1> QED
  BY <1>1, <1>3, <1>4, <1>5 DEF ResetInv, AnsweredInForce, ResetsInForce

\* A reset sets the next password; it has read no index yet.
LEMMA ConfirmKeepsResets ==
    ASSUME AccountsInv, ResetInv, NEW r \in Requests, ConfirmReset(r)
    PROVE  ResetInv'
<1> DEFINE row == [Idling EXCEPT !.at = "gathering", !.op = "reset",
                                 !.password = account.password + 1]
<1>1. Step(r, row) /\ UNCHANGED <<sessions, index>>
  BY DEF ConfirmReset
<1>2. row.at = "gathering" /\ row.password = account.password + 1
  BY DEF Idling
<1>3. account'.password = account.password + 1 /\ account'.answered = account.answered
  BY DEF ConfirmReset, AccountsInv, AccountsTyped, AccountRow
<1> HIDE DEF row
<1>4. /\ requests'[r].at = "gathering" /\ requests'[r].password = account'.password
      /\ \A q \in Requests \ {r} : requests'[q] = requests[q]
  BY <1>1, <1>2, <1>3, OneRequestSteps
<1>5. AnsweredInForce'
  BY <1>3, PasswordsCompared DEF ResetInv, AnsweredInForce
<1>6. ResetsInForce'
  BY <1>3, <1>4, PasswordsCompared DEF ResetInv, ResetsInForce, Resetting
<1>7. ResetsReadEarlier'
  BY <1>1, <1>4 DEF ResetInv, ResetsReadEarlier, Resetting, Live
<1>8. ResetEndsEarlierSessions'
  BY <1>1, <1>3 DEF ResetInv, ResetEndsEarlierSessions, Live
<1> QED
  BY <1>5, <1>6, <1>7, <1>8 DEF ResetInv

\* revoke_all finds every live session in the index.
LEMMA GatherKeepsResets ==
    ASSUME AccountsInv, ResetInv, NEW r \in Requests, Gather(r)
    PROVE  ResetInv'
<1> DEFINE row == [requests[r] EXCEPT !.at = "deleting", !.read = index.members]
<1>1. Step(r, row) /\ requests[r].at = "gathering" /\ UNCHANGED <<account, sessions>>
  BY DEF Gather
<1>2. row.op = requests[r].op /\ row.password = requests[r].password /\ row.read = index.members
  BY DEF AccountsInv, AccountsTyped, RequestRow
<1> HIDE DEF row
<1>3. /\ requests'[r].op = requests[r].op /\ requests'[r].password = requests[r].password
      /\ requests'[r].read = index.members
      /\ \A q \in Requests \ {r} : requests'[q] = requests[q]
  BY <1>1, <1>2, OneRequestSteps
<1>4. \A q \in Requests :
        Resetting(q)' => Resetting(q) /\ requests'[q].password = requests[q].password
  BY <1>1, <1>3 DEF Resetting
<1>5. ResetsReadEarlier'
  <2> SUFFICES ASSUME NEW q \in Requests, NEW s \in Sids, Resetting(q)',
                      requests'[q].at = "deleting", Live(s)',
                      sessions'[s].since < requests'[q].password
               PROVE  s \in requests'[q].read
    BY DEF ResetsReadEarlier
  <2>1. CASE q = r
    BY <1>1, <1>3, <2>1 DEF AccountsInv, SessionsIndexed, Live
  <2>2. CASE q # r
    BY <1>1, <1>3, <1>4, <2>2 DEF ResetInv, ResetsReadEarlier, Live
  <2> QED
    BY <2>1, <2>2
<1> QED
  BY <1>1, <1>4, <1>5
  DEF ResetInv, AnsweredInForce, ResetsInForce, ResetEndsEarlierSessions, Live

\* revoke_all ends what it read, which for a reset was all that had been opened before.
LEMMA RevokeAllKeepsResets ==
    ASSUME AccountsInv, ResetInv, NEW r \in Requests, RevokeAll(r)
    PROVE  ResetInv'
<1>1. /\ requests[r].at = "deleting" /\ EndAll(requests[r].read) /\ Step(r, Idling)
  BY DEF RevokeAll
<1>2. \A s \in Sids :
        Live(s)' => s \notin requests[r].read /\ Live(s) /\ sessions'[s] = sessions[s]
  BY <1>1, EndAllEnds
<1>3. CASE requests[r].op # "reset"
  <2>1. account' = account
    BY <1>3 DEF RevokeAll
  <2> QED
    BY <1>1, <1>2, <2>1, NoResetStep DEF Idling
<1>4. CASE requests[r].op = "reset"
  <2>1. /\ account'.password = account.password
        /\ account'.answered = account.answered \union {requests[r].password}
    BY <1>4 DEF RevokeAll, AccountsInv, AccountsTyped, AccountRow
  <2>2. \A q \in Requests : Resetting(q)' => Resetting(q) /\ requests'[q] = requests[q]
    BY <1>1, OneRequestSteps DEF Resetting, Idling
  <2>3. Resetting(r)
    BY <1>1, <1>4 DEF Resetting
  <2>4. AnsweredInForce'
    BY <2>1, <2>3 DEF ResetInv, AnsweredInForce, ResetsInForce
  <2>5. ResetEndsEarlierSessions'
    <3> SUFFICES ASSUME NEW s \in Sids, Live(s)', NEW p \in account'.answered
                 PROVE  p <= sessions'[s].since
      BY DEF ResetEndsEarlierSessions
    <3>1. CASE p \in account.answered
      BY <1>2, <3>1 DEF ResetInv, ResetEndsEarlierSessions
    <3>2. CASE p = requests[r].password
      <4>1. ~(sessions[s].since < requests[r].password)
        BY <1>1, <1>2, <2>3 DEF ResetInv, ResetsReadEarlier
      <4> QED
        BY <1>2, <3>2, <4>1, PasswordsCompared
    <3> QED
      BY <2>1, <3>1, <3>2
  <2> QED
    BY <1>2, <2>1, <2>2, <2>4, <2>5 DEF ResetInv, ResetsInForce, ResetsReadEarlier
<1> QED
  BY <1>3, <1>4

\* Every request keeps the resets' invariant.
LEMMA ServeKeepsResets ==
    ASSUME AccountsInv, ResetInv, NEW r \in Requests, Serve(r)
    PROVE  ResetInv'
<1>1. requests[r] \in RequestRow
  BY DEF AccountsInv, AccountsTyped
<1>2. CASE Authenticate(r) \/ ReadMembers(r) \/ ProbeMembers(r)
           \/ (\E s \in Sids, op \in {"request", "logout", "logout_all"} : Present(r, s, op))
           \/ PresentAgain(r) \/ ReadOwner(r) \/ Abandoned(r)
  <2>1. UNCHANGED <<account, sessions>>
    BY <1>2 DEF Authenticate, ReadMembers, ProbeMembers, Present, PresentAgain, ReadOwner,
                Abandoned
  <2>2. requests'[r].at \notin {"gathering", "deleting"} /\ \E row : Step(r, row)
    <3>1. \A row : Step(r, row) => requests'[r] = row
      BY OneRequestSteps
    <3>2. Idling.at = "idle"
      BY DEF Idling
    <3>3. CASE Authenticate(r)
      <4>1. [Idling EXCEPT !.at = "authenticated", !.op = "login",
                           !.password = account.password].at = "authenticated"
        BY DEF Idling
      <4> QED
        BY <3>1, <3>3, <4>1 DEF Authenticate
    <3>4. CASE \E s \in Sids, op \in {"request", "logout", "logout_all"} : Present(r, s, op)
      <4>1. PICK s \in Sids, op \in {"request", "logout", "logout_all"} : Present(r, s, op)
        BY <3>4
      <4>2. [Idling EXCEPT !.at = "seen", !.op = op, !.sid = s].at = "seen"
        BY DEF Idling
      <4> QED
        BY <3>1, <4>1, <4>2 DEF Present
    <3>5. CASE Abandoned(r)
      BY <3>1, <3>2, <3>5 DEF Abandoned
    <3>6. CASE ReadMembers(r)
      <4>1. [requests[r] EXCEPT !.at = "probing", !.read = index.members].at = "probing"
        BY <1>1 DEF RequestRow
      <4> QED
        BY <3>1, <3>6, <4>1 DEF ReadMembers
    <3>7. CASE ProbeMembers(r)
      <4>1. [requests[r] EXCEPT !.at = "creating", !.read = {s \in @ : ~Live(s)}].at = "creating"
        BY <1>1 DEF RequestRow
      <4> QED
        BY <3>1, <3>7, <4>1 DEF ProbeMembers
    <3>8. CASE PresentAgain(r)
      <4>1. [requests[r] EXCEPT !.at = "seen", !.op = "leave"].at = "seen"
        BY <1>1 DEF RequestRow
      <4> QED
        BY <3>1, <3>2, <3>8, <4>1 DEF PresentAgain
    <3>9. CASE ReadOwner(r)
      <4>1. [requests[r] EXCEPT !.at = "revoking"].at = "revoking"
        BY <1>1 DEF RequestRow
      <4> QED
        BY <3>1, <3>2, <3>9, <4>1 DEF ReadOwner
    <3> QED
      BY <1>2, <3>3, <3>4, <3>5, <3>6, <3>7, <3>8, <3>9
  <2>3. PICK row : Step(r, row)
    BY <2>2
  <2>4. row.at \notin {"gathering", "deleting"}
    BY <2>2, <2>3, OneRequestSteps
  <2> QED
    BY <2>1, <2>3, <2>4, NoResetStep DEF Live
<1>3. CASE ProlongSession(r)
  <2> DEFINE p == requests[r].sid
  <2>1. /\ Step(r, Onward(r)) /\ account' = account /\ requests[r].at = "seen"
        /\ sessions' = IF Live(p) THEN [sessions EXCEPT ![p].left = Idleness] ELSE sessions
    BY <1>3 DEF ProlongSession
  <2> HIDE DEF p
  <2>2. \A row \in SessionRow : /\ [row EXCEPT !.left = Idleness].state = row.state
                                /\ [row EXCEPT !.left = Idleness].since = row.since
    BY DEF SessionRow
  <2>3. \A s \in Sids : Live(s)' => Live(s) /\ sessions'[s].since = sessions[s].since
    BY <2>1, <2>2 DEF Live, AccountsInv, AccountsTyped
  <2>4. requests[r].op \in Cookies
    BY <2>1 DEF AccountsInv, SeenByCookie
  <2>5. Onward(r).op # "reset"
    BY <1>1, <2>4 DEF Onward, Cookies, Idling, RequestRow
  <2> QED
    BY <2>1, <2>3, <2>5, NoResetStep
<1>4. CASE Revoke(r)
  <2>1. EndAll({requests[r].sid}) /\ Step(r, Idling) /\ account' = account
    BY <1>4 DEF Revoke
  <2>2. \A s \in Sids : Live(s)' => Live(s) /\ sessions'[s].since = sessions[s].since
    BY <2>1, EndAllEnds
  <2> QED
    BY <2>1, <2>2, NoResetStep DEF Idling
<1> QED
  BY <1>2, <1>3, <1>4, CreateKeepsResets, ConfirmKeepsResets, GatherKeepsResets,
     RevokeAllKeepsResets DEF Serve

\* Every step does.
LEMMA ResetInductive ==
    AccountsInv /\ ResetInv /\ [AccountsNext]_accountsVars => ResetInv'
<1> SUFFICES ASSUME AccountsInv, ResetInv, [AccountsNext]_accountsVars
             PROVE  ResetInv'
  OBVIOUS
<1>1. ASSUME UNCHANGED requests, account'.password = account.password,
             account'.answered = account.answered,
             \A s \in Sids : Live(s)' => Live(s) /\ sessions'[s].since = sessions[s].since
      PROVE  ResetInv'
  BY <1>1 DEF ResetInv, AnsweredInForce, ResetsInForce, ResetsReadEarlier,
              ResetEndsEarlierSessions, Resetting
<1>2. CASE Register \/ VerifyEmail \/ RequestReset \/ LinkExpires \/ UNCHANGED accountsVars
  <2>1. /\ UNCHANGED <<sessions, requests>> /\ account'.password = account.password
        /\ account'.answered = account.answered
    BY <1>2 DEF Register, VerifyEmail, RequestReset, LinkExpires, accountsVars, AccountsInv,
                AccountsTyped, AccountRow
  <2> QED
    BY <1>1, <2>1 DEF Live
<1>3. CASE Idle
  <2>1. /\ \A s \in Sids : sessions'[s] =
                IF ~Live(s) THEN sessions[s]
                ELSE IF sessions[s].left = 1 THEN Ended
                ELSE [sessions[s] EXCEPT !.left = @ - 1]
        /\ UNCHANGED <<account, requests>>
    BY <1>3 DEF Idle
  <2>2. Ended.state = "ended"
    BY DEF Ended, Unborn
  <2>3. \A row \in SessionRow : [row EXCEPT !.left = @ - 1].since = row.since
    BY DEF SessionRow
  <2>4. \A s \in Sids : sessions[s] \in SessionRow
    BY DEF AccountsInv, AccountsTyped
  <2>5. \A s \in Sids : Live(s)' => Live(s) /\ sessions'[s].since = sessions[s].since
    BY <2>1, <2>2, <2>3, <2>4 DEF Live
  <2> QED
    BY <1>1, <2>1, <2>5
<1> QED
  BY <1>2, <1>3, ServeKeepsResets DEF AccountsNext

---------------------------------------------------------------------------
(* Theorems.                                                               *)

\* However requests interleave, fail and outlive each other's sessions, a session that
\* can be used is in the index of its subject, which does not expire before it: a change
\* of password finds it.
THEOREM LiveSessionsAreIndexed == AccountsSpec => []SessionsIndexed
<1>1. AccountsInv => SessionsIndexed
  BY DEF AccountsInv
<1> QED
  BY <1>1, AccountsInitial, AccountsInductive, PTL DEF AccountsSpec

\* Once a reset has been answered no session opened before its password was set is live,
\* with any number of logins, log-outs, resets and failures under way and any lifetime.
THEOREM EarlierSessionsEnd == AccountsSpec => []ResetEndsEarlierSessions
<1>1. AccountsInit => ResetInv
  BY DEF AccountsInit, ResetInv, AnsweredInForce, ResetsInForce, ResetsReadEarlier,
         ResetEndsEarlierSessions, Resetting, Live, Unborn, Idling
<1>2. ResetInv => ResetEndsEarlierSessions
  BY DEF ResetInv
<1> QED
  BY <1>1, <1>2, AccountsInitial, AccountsInductive, ResetInductive, PTL DEF AccountsSpec

---------------------------------------------------------------------------
(* FieldCipher, for any number of processes and of key files: the          *)
(* container is written once and never changes, and what a process         *)
(* remembers it has compared with it.                                      *)

\* A process past the select knows its key; past the insert there is a container;
\* about to open, it holds the container itself.
ComparesWithContainer ==
    \A p \in Processes :
        /\ checking[p].at # "none" => checking[p].key \in CipherKeys
        /\ checking[p].at = "reselect" => container # NoKey
        /\ checking[p].at = "open" => container # NoKey /\ checking[p].stored = container

RemembersContainer == \A p \in Processes : cipher[p] # NoKey => cipher[p] = container

SealedWithContainer == \A key \in sealed : key = container

CipherInv ==
    /\ CipherTypeOK
    /\ ComparesWithContainer
    /\ RemembersContainer
    /\ SealedWithContainer

\* The invariant holds at the start.
LEMMA CipherInitial == CipherInit => CipherInv
  BY CipherKeysAssumption
  DEF CipherInit, CipherInv, CipherTypeOK, ComparesWithContainer, RemembersContainer,
      SealedWithContainer, Checking, NotChecking

\* A step that keeps the container, the key files, the ciphers and what is sealed, and
\* moves one check where the invariant lets it be.
LEMMA CheckMoves ==
    ASSUME CipherInv, NEW p \in Processes, NEW c \in Checking,
           checking' = [checking EXCEPT ![p] = c],
           c.at # "none" => c.key \in CipherKeys,
           c.at = "reselect" => container # NoKey,
           c.at = "open" => container # NoKey /\ c.stored = container,
           UNCHANGED <<container, keyFile, cipher, sealed>>
    PROVE  CipherInv'
<1>1. CipherTypeOK'
  BY DEF CipherInv, CipherTypeOK
<1>2. ComparesWithContainer'
  BY DEF CipherInv, CipherTypeOK, ComparesWithContainer
<1>3. RemembersContainer' /\ SealedWithContainer'
  BY DEF CipherInv, RemembersContainer, SealedWithContainer
<1> QED
  BY <1>1, <1>2, <1>3 DEF CipherInv

\* Every step preserves the invariant.
LEMMA CipherInductive == CipherInv /\ [CipherNext]_cipherVars => CipherInv'
<1> SUFFICES ASSUME CipherInv, [CipherNext]_cipherVars PROVE CipherInv'
  OBVIOUS
<1> USE CipherKeysAssumption
<1>1. ASSUME NEW p \in Processes, BeginCheck(p) PROVE CipherInv'
  <2> DEFINE c == [at |-> "select", key |-> keyFile[p], stored |-> NoKey]
  <2>1. c \in Checking /\ c.key \in CipherKeys
    BY DEF CipherInv, CipherTypeOK, Checking
  <2>2. checking' = [checking EXCEPT ![p] = c]
    BY <1>1 DEF BeginCheck
  <2> QED
    BY <1>1, <2>1, <2>2, CheckMoves DEF BeginCheck
<1>2. ASSUME NEW p \in Processes, SelectContainer(p) PROVE CipherInv'
  <2> DEFINE c == [checking[p] EXCEPT !.at = IF container = NoKey THEN "insert" ELSE "open",
                                      !.stored = container]
  <2>1. checking[p] \in Checking /\ checking[p].key \in CipherKeys
    BY <1>2 DEF SelectContainer, CipherInv, CipherTypeOK, ComparesWithContainer
  <2>2. c \in Checking /\ c.key \in CipherKeys /\ c.at # "reselect"
        /\ (c.at = "open" => container # NoKey /\ c.stored = container)
    BY <2>1 DEF CipherInv, CipherTypeOK, Checking
  <2>3. checking' = [checking EXCEPT ![p] = c]
    BY <1>2 DEF SelectContainer, CipherInv, CipherTypeOK, Checking
  <2> QED
    BY <1>2, <2>2, <2>3, CheckMoves DEF SelectContainer
<1>3. ASSUME NEW p \in Processes, InsertContainer(p) PROVE CipherInv'
  <2>1. checking[p] \in Checking /\ checking[p].key \in CipherKeys
    BY <1>3 DEF InsertContainer, CipherInv, CipherTypeOK, ComparesWithContainer
  <2>2. container' \in CipherKeys /\ (container # NoKey => container' = container)
    BY <1>3, <2>1 DEF InsertContainer, Inserted, CipherInv, CipherTypeOK
  <2>3. CipherTypeOK'
    BY <1>3, <2>1, <2>2 DEF InsertContainer, CipherInv, CipherTypeOK, Checking
  <2>4. ComparesWithContainer'
    BY <1>3, <2>2 DEF InsertContainer, CipherInv, CipherTypeOK, Checking, ComparesWithContainer
  <2>5. RemembersContainer' /\ SealedWithContainer'
    BY <1>3, <2>2 DEF InsertContainer, CipherInv, CipherTypeOK, RemembersContainer,
                      SealedWithContainer
  <2> QED
    BY <2>3, <2>4, <2>5 DEF CipherInv
<1>4. ASSUME NEW p \in Processes, SelectAgain(p) PROVE CipherInv'
  <2> DEFINE c == [checking[p] EXCEPT !.at = "open", !.stored = container]
  <2>1. /\ checking[p] \in Checking /\ checking[p].key \in CipherKeys
        /\ container # NoKey
    BY <1>4 DEF SelectAgain, CipherInv, CipherTypeOK, ComparesWithContainer
  <2>2. c \in Checking /\ c.key \in CipherKeys /\ c.at = "open" /\ c.stored = container
    BY <2>1 DEF CipherInv, CipherTypeOK, Checking
  <2>3. checking' = [checking EXCEPT ![p] = c]
    BY <1>4 DEF SelectAgain, CipherInv, CipherTypeOK, Checking
  <2> QED
    BY <1>4, <2>1, <2>2, <2>3, CheckMoves DEF SelectAgain
<1>5. ASSUME NEW p \in Processes, OpenContainer(p) PROVE CipherInv'
  <2>1. checking[p].key \in CipherKeys /\ checking[p].key = container
    BY <1>5 DEF OpenContainer, CipherInv, ComparesWithContainer
  <2>2. CipherTypeOK'
    BY <1>5, <2>1 DEF OpenContainer, CipherInv, CipherTypeOK, Checking, NotChecking
  <2>3. ComparesWithContainer'
    BY <1>5 DEF OpenContainer, CipherInv, CipherTypeOK, ComparesWithContainer, NotChecking
  <2>4. RemembersContainer' /\ SealedWithContainer'
    BY <1>5, <2>1 DEF OpenContainer, CipherInv, CipherTypeOK, RemembersContainer,
                      SealedWithContainer
  <2> QED
    BY <2>2, <2>3, <2>4 DEF CipherInv
<1>6. ASSUME NEW p \in Processes, CheckFails(p) PROVE CipherInv'
  <2>1. NotChecking \in Checking /\ NotChecking.at = "none"
    BY DEF NotChecking, Checking
  <2> QED
    BY <1>6, <2>1, CheckMoves DEF CheckFails
<1>7. ASSUME NEW p \in Processes, SealField(p) PROVE CipherInv'
  <2>1. cipher[p] \in CipherKeys /\ cipher[p] = container
    BY <1>7 DEF SealField, CipherInv, CipherTypeOK, RemembersContainer
  <2>2. CipherTypeOK' /\ ComparesWithContainer' /\ RemembersContainer'
    BY <1>7, <2>1 DEF SealField, CipherInv, CipherTypeOK, ComparesWithContainer, RemembersContainer
  <2>3. SealedWithContainer'
    BY <1>7, <2>1 DEF SealField, CipherInv, SealedWithContainer
  <2> QED
    BY <2>2, <2>3 DEF CipherInv
<1>8. ASSUME NEW p \in Processes, ReplaceKeyFile(p) PROVE CipherInv'
  BY <1>8 DEF ReplaceKeyFile, CipherInv, CipherTypeOK, ComparesWithContainer,
              RemembersContainer, SealedWithContainer
<1>9. ASSUME NEW p \in Processes, RestartProcess(p) PROVE CipherInv'
  <2>1. CipherTypeOK'
    BY <1>9 DEF RestartProcess, CipherInv, CipherTypeOK, Checking, NotChecking
  <2>2. ComparesWithContainer'
    BY <1>9 DEF RestartProcess, CipherInv, CipherTypeOK, ComparesWithContainer, NotChecking
  <2>3. RemembersContainer' /\ SealedWithContainer'
    BY <1>9 DEF RestartProcess, CipherInv, CipherTypeOK, RemembersContainer, SealedWithContainer
  <2> QED
    BY <2>1, <2>2, <2>3 DEF CipherInv
<1>10. CASE UNCHANGED cipherVars
  BY <1>10 DEF cipherVars, CipherInv, CipherTypeOK, ComparesWithContainer, RemembersContainer,
               SealedWithContainer
<1> QED
  BY <1>1, <1>2, <1>3, <1>4, <1>5, <1>6, <1>7, <1>8, <1>9, <1>10 DEF CipherNext

\* All processes of a database seal with one key, the key of its check container,
\* whatever key files they find and whenever they first use them.
THEOREM CipherHasOneKey == CipherSpec => []OneKeyPerDatabase
<1>1. CipherInit => CipherInv
  BY CipherInitial
<1>2. CipherInv /\ [CipherNext]_cipherVars => CipherInv'
  BY CipherInductive
<1>3. CipherInv => OneKeyPerDatabase
  BY DEF CipherInv, RemembersContainer, SealedWithContainer, OneKeyPerDatabase
<1> QED
  BY <1>1, <1>2, <1>3, PTL DEF CipherSpec

\* A container, once written, is the container for good: no restart, replaced key
\* file or late insert puts another in its place (ON CONFLICT DO NOTHING).
THEOREM ContainerStays == CipherSpec => [][container # NoKey => container' = container]_cipherVars
<1>1. [CipherNext]_cipherVars => [container # NoKey => container' = container]_cipherVars
  BY DEF CipherNext, BeginCheck, SelectContainer, InsertContainer, Inserted, SelectAgain,
         OpenContainer, CheckFails, SealField, ReplaceKeyFile, RestartProcess, cipherVars
<1> QED
  BY <1>1, PTL DEF CipherSpec

---------------------------------------------------------------------------
(* Codes: what the control symbol of a redeem code notices, for every      *)
(* code: all 32^7 payloads, which no enumeration reaches.                  *)

\* The sum under the control symbol, before it is reduced modulo 32.
WeightedSum(code) ==
    Weighted(code, 1) + Weighted(code, 2) + Weighted(code, 3) + Weighted(code, 4)
        + Weighted(code, 5) + Weighted(code, 6) + Weighted(code, 7)

\* Symbols are natural numbers, and a control symbol is a symbol.
LEMMA ChecksumType ==
    ASSUME NEW code, \A i \in 1 .. 7 : code[i] \in Symbols
    PROVE  /\ WeightedSum(code) \in Nat
           /\ ChecksumChar(code) = WeightedSum(code) % 32
           /\ ChecksumChar(code) \in Symbols
<1>1. /\ code[1] \in Nat /\ code[2] \in Nat /\ code[3] \in Nat /\ code[4] \in Nat
      /\ code[5] \in Nat /\ code[6] \in Nat /\ code[7] \in Nat
  BY DEF Symbols, Radix
<1>2. WeightedSum(code) = code[1] + 3 * code[2] + 5 * code[3] + 7 * code[4]
                  + 9 * code[5] + 11 * code[6] + 13 * code[7]
  BY <1>1 DEF WeightedSum, Weighted, Weights
<1>3. WeightedSum(code) \in Nat
  <2>1. code[1] + 3 * code[2] + 5 * code[3] + 7 * code[4]
            + 9 * code[5] + 11 * code[6] + 13 * code[7] \in Nat
    BY <1>1
  <2> QED
    BY <1>2, <2>1
<1>4. ChecksumChar(code) = WeightedSum(code) % 32
  BY DEF ChecksumChar, WeightedSum, Radix
<1> QED
  BY <1>3, <1>4 DEF Symbols, Radix

\* A multiple of 32 with an odd factor up to 13 has its other factor a multiple of 32.
LEMMA OddFactor ==
    ASSUME NEW w \in {1, 3, 5, 7, 9, 11, 13}, NEW d \in -31 .. 31, NEW k \in Int, w * d = 32 * k
    PROVE  d = 0
<1>1. CASE w = 1
  BY <1>1
<1>2. CASE w = 3
  BY <1>2
<1>3. CASE w = 5
  BY <1>3
<1>4. CASE w = 7
  BY <1>4
<1>5. CASE w = 9
  BY <1>5
<1>6. CASE w = 11
  BY <1>6
<1>7. CASE w = 13
  BY <1>7
<1> QED
  BY <1>1, <1>2, <1>3, <1>4, <1>5, <1>6, <1>7

\* Division with remainder.
LEMMA Division ==
    ASSUME NEW a \in Nat
    PROVE  \E q \in Int : a = 32 * q + (a % 32)
<1>1. a \div 32 \in Int /\ a = 32 * (a \div 32) + (a % 32)
  OBVIOUS
<1> QED
  BY <1>1

\* Numbers with the same remainder differ by a multiple.
LEMMA SameRemainder ==
    ASSUME NEW a \in Nat, NEW b \in Nat, a % 32 = b % 32
    PROVE  \E k \in Int : a - b = 32 * k
<1>1. PICK p \in Int : a = 32 * p + (a % 32)
  BY Division
<1>2. PICK q \in Int : b = 32 * q + (b % 32)
  BY Division
<1>3. a - b = 32 * (p - q)
  BY <1>1, <1>2
<1> QED
  BY <1>3

\* What the control symbol and the last of the payload differ by, when each is the
\* remainder of the sum that has the other one last.
LEMMA ControlSwap ==
    ASSUME NEW s \in Nat, NEW t \in Nat, NEW x \in 0 .. 31, NEW y \in 0 .. 31,
           y = s % 32, x = t % 32, t - s = 13 * (y - x)
    PROVE  y - x = 0 \/ y - x = 16 \/ y - x = -16
<1>1. PICK p \in Int : s = 32 * p + y
  BY Division
<1>2. PICK q \in Int : t = 32 * q + x
  BY Division
<1>3. 14 * (y - x) = 32 * (q - p)
  BY <1>1, <1>2
<1> QED
  BY <1>3

\* The codes that are no mistake: those that are issued.
GoodCode(code) == code \in Code /\ ChecksumOk(code)

\* What a change of one payload symbol adds to the sum.
LEMMA SumAfterOne ==
    ASSUME NEW code \in Code, NEW i \in 1 .. 7, NEW x \in Symbols
    PROVE  WeightedSum([code EXCEPT ![i] = x]) - WeightedSum(code) = Weights[i] * (x - code[i])
<1> DEFINE other == [code EXCEPT ![i] = x]
<1>1. \A j \in 1 .. 8 : code[j] \in Int /\ other[j] = IF j = i THEN x ELSE code[j]
  BY DEF Code, Positions, PayloadLength, Symbols, Radix
<1>2. x \in Int
  BY DEF Symbols, Radix
<1>3. \A j \in 1 .. 7 : Weights[j] \in Int
  BY DEF Weights
<1>4. \A j \in 1 .. 7 : j # i => Weighted(other, j) = Weighted(code, j)
  BY <1>1 DEF Weighted
<1>5. Weighted(other, i) - Weighted(code, i) = Weights[i] * (x - code[i])
  BY <1>1, <1>2 DEF Weighted, Weights
<1>6. \A j \in 1 .. 7 : Weighted(other, j) \in Int /\ Weighted(code, j) \in Int
  BY <1>1, <1>2, <1>3 DEF Weighted
<1> HIDE DEF other
<1>7. WeightedSum(other) - WeightedSum(code) = Weights[i] * (x - code[i])
  BY <1>4, <1>5, <1>6 DEF WeightedSum
<1> QED
  BY <1>7 DEF other

\* One wrong symbol is noticed, whatever it is and wherever it stands.
THEOREM SubstitutionNoticed ==
    ASSUME NEW code, GoodCode(code), NEW i \in Positions,
           NEW x \in Symbols \union {Alien}, x # code[i]
    PROVE  ~ChecksumOk([code EXCEPT ![i] = x])
<1> DEFINE other == [code EXCEPT ![i] = x]
<1> SUFFICES ASSUME ChecksumOk(other) PROVE FALSE
  OBVIOUS
<1>1. /\ code \in Code
      /\ code[8] = ChecksumChar(code)
      /\ other[8] = ChecksumChar(other)
  BY DEF GoodCode, ChecksumOk, PayloadLength
<1>2. \A j \in 1 .. 8 : other[j] = IF j = i THEN x ELSE code[j]
  BY <1>1 DEF Code, Positions, PayloadLength
<1>3. x \in Symbols
  <2>1. other[i] = x
    BY <1>1 DEF Code
  <2>2. other[i] # Alien
    BY DEF ChecksumOk, Normalizable
  <2> QED
    BY <2>1, <2>2
<1>4. CASE i = 8
  <2>1. \A j \in 1 .. 7 : other[j] = code[j]
    BY <1>2, <1>4
  <2>2. ChecksumChar(other) = ChecksumChar(code)
    BY <2>1 DEF ChecksumChar, Weighted
  <2> QED
    BY <1>1, <1>2, <1>4, <2>2
<1>5. CASE i \in 1 .. 7
  <2>1. /\ \A j \in 1 .. 7 : code[j] \in Symbols
        /\ \A j \in 1 .. 7 : other[j] \in Symbols
    BY <1>1, <1>2, <1>3 DEF Code, Positions, PayloadLength
  <2>2. /\ WeightedSum(code) \in Nat /\ ChecksumChar(code) = WeightedSum(code) % 32
        /\ WeightedSum(other) \in Nat /\ ChecksumChar(other) = WeightedSum(other) % 32
    BY <2>1, ChecksumType
  <2>3. WeightedSum(other) % 32 = WeightedSum(code) % 32
    BY <1>1, <1>2, <1>5, <2>2
  <2>4. PICK k \in Int : WeightedSum(other) - WeightedSum(code) = 32 * k
    BY <2>2, <2>3, SameRemainder
  <2>5. Weights[i] * (x - code[i]) = 32 * k
    BY <1>1, <1>3, <1>5, <2>4, SumAfterOne
  <2>6. Weights[i] \in {1, 3, 5, 7, 9, 11, 13}
    BY <1>5 DEF Weights
  <2>7. code[i] \in Int /\ x \in Int /\ x - code[i] \in -31 .. 31
    BY <1>3, <1>5, <2>1 DEF Symbols, Radix
  <2>8. x - code[i] = 0
    BY <2>5, <2>6, <2>7, OddFactor
  <2> QED
    BY <2>7, <2>8
<1> QED
  BY <1>4, <1>5 DEF Positions, PayloadLength

\* Two neighbours swapped are noticed, unless they are alike or 16 apart.  The
\* weights of two neighbours differ by 2; the control symbol weighs -1.
THEOREM TranspositionNoticed ==
    ASSUME NEW code, GoodCode(code), NEW i \in 1 .. PayloadLength,
           ChecksumOk(Swapped(code, i))
    PROVE  code[i] = code[i + 1] \/ Apart(code[i], code[i + 1]) = 16
<1> DEFINE other == Swapped(code, i)
           d == code[i + 1] - code[i]
<1>1. /\ code \in Code
      /\ code[8] = ChecksumChar(code)
      /\ other[8] = ChecksumChar(other)
      /\ i \in 1 .. 7
  BY DEF GoodCode, ChecksumOk, PayloadLength
<1>2. \A j \in 1 .. 8 : other[j] = IF j = i + 1 THEN code[i] ELSE IF j = i THEN code[i + 1]
                                                             ELSE code[j]
  BY <1>1 DEF Code, Positions, PayloadLength, Swapped
<1>3. \A j \in 1 .. 8 : code[j] \in Symbols /\ other[j] \in Symbols
  BY <1>1, <1>2 DEF Code, Positions, PayloadLength
<1>4. /\ WeightedSum(code) \in Nat /\ code[8] = WeightedSum(code) % 32
      /\ WeightedSum(other) \in Nat /\ other[8] = WeightedSum(other) % 32
  <2>1. \A j \in 1 .. 7 : code[j] \in Symbols /\ other[j] \in Symbols
    BY <1>3
  <2> QED
    BY <1>1, <2>1, ChecksumType
<1>5. /\ code[i] \in 0 .. 31 /\ code[i + 1] \in 0 .. 31
      /\ d \in -31 .. 31
  BY <1>1, <1>3 DEF Symbols, Radix
<1>6. CASE i \in 1 .. 6
  <2> DEFINE half == [code EXCEPT ![i] = code[i + 1]]
  <2>1. half \in Code /\ half[i + 1] = code[i + 1]
    <3>1. i + 1 \in Positions /\ i \in Positions /\ i + 1 # i /\ code[i + 1] \in Symbols
      BY <1>3, <1>6 DEF Positions, PayloadLength
    <3> QED
      BY <1>1, <3>1 DEF Code
  <2>2. other = [half EXCEPT ![i + 1] = code[i]]
    BY <1>1, <1>6 DEF Swapped, Code
  <2>3. WeightedSum(half) - WeightedSum(code) = Weights[i] * d
    BY <1>1, <1>3, <1>6, SumAfterOne
  <2>4. WeightedSum(other) - WeightedSum(half) = Weights[i + 1] * (code[i] - code[i + 1])
    <3> HIDE DEF half, other
    <3>1. i + 1 \in 1 .. 7 /\ code[i] \in Symbols
      BY <1>3, <1>6
    <3> QED
      BY <2>1, <2>2, <3>1, SumAfterOne
  <2>5. WeightedSum(half) \in Nat
    <3>1. \A j \in 1 .. 7 : half[j] \in Symbols
      BY <2>1 DEF Code, Positions, PayloadLength
    <3> QED
      BY <3>1, ChecksumType
  <2>6. WeightedSum(other) % 32 = WeightedSum(code) % 32
    BY <1>2, <1>4, <1>6
  <2>7. PICK k \in Int : WeightedSum(other) - WeightedSum(code) = 32 * k
    BY <1>4, <2>6, SameRemainder
  <2>8. Weights[i] \in Int /\ Weights[i + 1] = Weights[i] + 2
    BY <1>6 DEF Weights
  <2> HIDE DEF half, other
  <2>9. WeightedSum(other) - WeightedSum(code) = -2 * d
    <3>1. WeightedSum(other) - WeightedSum(code)
              = Weights[i] * d + (Weights[i] + 2) * (code[i] - code[i + 1])
      BY <1>4, <2>3, <2>4, <2>5, <2>8
    <3>2. code[i] - code[i + 1] = -d
      BY <1>5
    <3> QED
      BY <1>5, <2>8, <3>1, <3>2
  <2>10. d = 0 \/ d = 16 \/ d = -16
    BY <1>5, <2>7, <2>9
  <2> QED
    BY <1>5, <2>10 DEF Apart
<1>7. CASE i = 7
  <2>1. other = [[code EXCEPT ![7] = code[8]] EXCEPT ![8] = code[7]]
    <3>1. i + 1 = 8
      BY <1>7
    <3> QED
      BY <1>7, <3>1 DEF Swapped
  <2>2. WeightedSum(other) = WeightedSum([code EXCEPT ![7] = code[8]])
    BY <1>1, <2>1 DEF WeightedSum, Weighted, Code, Positions, PayloadLength
  <2>3. WeightedSum([code EXCEPT ![7] = code[8]]) - WeightedSum(code) = 13 * d
    <3>1. Weights[7] = 13
      BY DEF Weights
    <3> QED
      BY <1>1, <1>3, <1>7, <3>1, SumAfterOne
  <2>4. code[8] = WeightedSum(code) % 32 /\ code[7] = WeightedSum(other) % 32
    BY <1>2, <1>4, <1>7
  <2>5. WeightedSum(other) - WeightedSum(code) = 13 * (code[8] - code[7])
    BY <1>7, <2>2, <2>3
  <2> HIDE DEF other
  <2>6. d = 0 \/ d = 16 \/ d = -16
    <3>1. code[7] \in 0 .. 31 /\ code[8] \in 0 .. 31 /\ d = code[8] - code[7]
      BY <1>5, <1>7
    <3> QED
      BY <1>4, <2>4, <2>5, <3>1, ControlSwap
  <2> QED
    BY <1>5, <2>6 DEF Apart
<1> QED
  BY <1>1, <1>6, <1>7

---------------------------------------------------------------------------
(* The machine: what was issued is a good code, what was typed is one       *)
(* mistake away from it at most, and the answer is about what was typed.   *)

IssuedWell == generated = NoCode \/ GoodCode(generated)

AtMostOneMistake ==
    \/ typed = generated
    \/ \E i \in Positions, x \in Symbols \union {Alien} : typed = [generated EXCEPT ![i] = x]
    \/ \E i \in 1 .. PayloadLength : typed = Swapped(generated, i)

AnsweredAbout ==
    /\ answer = "looked_up" => generated # NoCode /\ ChecksumOk(typed)
    /\ answer = "invalid_code" => generated # NoCode /\ ~ChecksumOk(typed)

CodesInv == IssuedWell /\ AtMostOneMistake /\ AnsweredAbout

\* The invariant holds before any code is issued.
LEMMA CodesInitial == CodesInit => CodesInv
  BY DEF CodesInit, CodesInv, IssuedWell, AtMostOneMistake, AnsweredAbout

\* A payload with its control symbol is a good code.
LEMMA GeneratedGood ==
    ASSUME NEW payload \in Payloads, NEW code,
           code = [i \in Positions |-> IF i <= PayloadLength THEN payload[i]
                                       ELSE ChecksumChar(payload)]
    PROVE  GoodCode(code)
<1>1. payload \in [1 .. 7 -> Symbols]
  BY PayloadsAssumption DEF PayloadLength
<1>2. \A j \in 1 .. 7 : code[j] = payload[j]
  BY DEF Positions, PayloadLength
<1>3. code[8] = ChecksumChar(payload)
  BY DEF Positions, PayloadLength
<1>4. ChecksumChar(code) = ChecksumChar(payload)
  <2>1. \A j \in 1 .. 7 : Weighted(code, j) = Weighted(payload, j)
    BY <1>2 DEF Weighted
  <2>2. /\ Weighted(code, 1) = Weighted(payload, 1) /\ Weighted(code, 2) = Weighted(payload, 2)
        /\ Weighted(code, 3) = Weighted(payload, 3) /\ Weighted(code, 4) = Weighted(payload, 4)
        /\ Weighted(code, 5) = Weighted(payload, 5) /\ Weighted(code, 6) = Weighted(payload, 6)
        /\ Weighted(code, 7) = Weighted(payload, 7)
    BY <2>1
  <2> QED
    BY <2>2, Zenon DEF ChecksumChar
<1>5. ChecksumChar(payload) \in Symbols
  BY <1>1, ChecksumType
<1>6. code \in Code
  BY <1>1, <1>5 DEF Code, Positions, PayloadLength
<1>7. \A j \in Positions : code[j] # Alien
  BY <1>6 DEF Code, Alien, Symbols, Radix
<1> QED
  BY <1>3, <1>4, <1>6, <1>7 DEF GoodCode, ChecksumOk, Normalizable, PayloadLength

\* Every step preserves the invariant.
LEMMA CodesInductive == CodesInv /\ [CodesNext]_codesVars => CodesInv'
<1> SUFFICES ASSUME CodesInv, [CodesNext]_codesVars PROVE CodesInv'
  OBVIOUS
<1> USE DEF CodesInv, IssuedWell, AtMostOneMistake, AnsweredAbout
<1>1. ASSUME NEW payload \in Payloads, GenerateCode(payload) PROVE CodesInv'
  <2>1. GoodCode(generated')
    BY <1>1, GeneratedGood DEF GenerateCode
  <2>2. answer = "none" \/ (answer # "looked_up" /\ answer # "invalid_code")
    BY <1>1 DEF GenerateCode
  <2> QED
    BY <1>1, <2>1, <2>2 DEF GenerateCode
<1>2. ASSUME NEW i \in Positions, NEW x \in Symbols \union {Alien}, Mistype(i, x)
      PROVE  CodesInv'
  BY <1>2 DEF Mistype
<1>3. ASSUME NEW i \in 1 .. PayloadLength, SwapNeighbours(i) PROVE CodesInv'
  BY <1>3 DEF SwapNeighbours
<1>4. CASE Redeem
  BY <1>4 DEF Redeem
<1>5. CASE UNCHANGED codesVars
  BY <1>5 DEF codesVars
<1> QED
  BY <1>1, <1>2, <1>3, <1>4, <1>5 DEF CodesNext

\* A good code fits its own control symbol, so it is not refused; what is looked up
\* and is not the code issued is a swap of two neighbours 16 apart.
LEMMA CodesInvNotices == CodesInv => MistakesNoticed
<1> SUFFICES ASSUME CodesInv PROVE MistakesNoticed
  OBVIOUS
<1> USE DEF CodesInv, IssuedWell, AtMostOneMistake, AnsweredAbout
<1>1. answer = "invalid_code" => typed # generated
  BY DEF GoodCode
<1>2. ASSUME answer = "looked_up", typed # generated
      PROVE  \E i \in 1 .. PayloadLength :
                 typed = Swapped(generated, i) /\ Apart(generated[i], generated[i + 1]) = 16
  <2>1. GoodCode(generated) /\ ChecksumOk(typed)
    BY <1>2
  <2>2. CASE \E i \in Positions, x \in Symbols \union {Alien} : typed = [generated EXCEPT ![i] = x]
    <3>1. PICK i \in Positions, x \in Symbols \union {Alien} : typed = [generated EXCEPT ![i] = x]
      BY <2>2
    <3>2. x # generated[i]
      BY <1>2, <2>1, <3>1 DEF GoodCode, Code
    <3> QED
      BY <2>1, <3>1, <3>2, SubstitutionNoticed
  <2>3. CASE \E i \in 1 .. PayloadLength : typed = Swapped(generated, i)
    <3>1. PICK i \in 1 .. PayloadLength : typed = Swapped(generated, i)
      BY <2>3
    <3>2. generated[i] # generated[i + 1]
      BY <1>2, <2>1, <3>1 DEF GoodCode, Code, Swapped
    <3> QED
      BY <2>1, <3>1, <3>2, TranspositionNoticed
  <2> QED
    BY <1>2, <2>2, <2>3
<1> QED
  BY <1>1, <1>2 DEF MistakesNoticed

\* The control symbol does what the header of codes.py says of it, for all codes
\* and all single mistakes of the kinds it names.
THEOREM CodesNoticeMistakes == CodesSpec => []MistakesNoticed
<1>1. CodesInit => CodesInv
  BY CodesInitial
<1>2. CodesInv /\ [CodesNext]_codesVars => CodesInv'
  BY CodesInductive
<1>3. CodesInv => MistakesNoticed
  BY CodesInvNotices
<1> QED
  BY <1>1, <1>2, <1>3, PTL DEF CodesSpec
---------------------------------------------------------------------------
(* Scheduler, for any number of instances, slots, jobs and mishaps.        *)

JobsOf(s) == {t \in Placements : state[t] # "unknown" /\ name[t] = s}

\* The instance may place the slot once more: it is about to, or it leads while the slot
\* lasts and has not placed it.
MayPlace(i, s) ==
    \/ instance[i].at = "placing" /\ instance[i].read = s
    \/ slot = s /\ instance[i].at = "placing"
    \/ slot = s /\ instance[i].at = "leading" /\ instance[i].placed # s

Placing(s) == {i \in Instances : MayPlace(i, s)}

SchedulerTyped ==
    /\ slot \in Slots
    /\ instance \in [Instances -> Instance]
    /\ chances \in [Slots -> Nat]
    /\ state \in [Placements -> {"unknown", "waiting", "taken", "done"}]
    /\ name \in [Placements -> Slots]

\* Nothing is placed, or about to be, before its slot has begun.
PlacedInTime ==
    /\ \A t \in Placements : state[t] # "unknown" => name[t] <= slot
    /\ \A i \in Instances : instance[i].at = "placing" =>
           instance[i].read \in Slots /\ instance[i].read <= slot

JobsFinite == IsFiniteSet({t \in Placements : state[t] # "unknown"})

\* The jobs of a slot and the instances that may place it still are accounted for.
Accounted == \A s \in Slots : Jobs(s) + Cardinality(Placing(s)) <= chances[s]

SchedulerInv == SchedulerTyped /\ PlacedInTime /\ JobsFinite /\ Accounted

\* The cardinality of a part of a finite set, without one of its elements, or with one more.
LEMMA PartsOfFinite ==
    ASSUME NEW S, IsFiniteSet(S), NEW T, NEW x
    PROVE  /\ Cardinality(S) \in Nat
           /\ T \subseteq S => IsFiniteSet(T) /\ Cardinality(T) \in Nat
                               /\ Cardinality(T) <= Cardinality(S)
           /\ x \in S /\ T \subseteq S \ {x} => Cardinality(T) + 1 <= Cardinality(S)
           /\ T \subseteq S \union {x} => IsFiniteSet(T) /\ Cardinality(T) \in Nat
                                         /\ Cardinality(T) <= Cardinality(S) + 1
<1>1. Cardinality(S) \in Nat
  BY FS_CardinalityType
<1>2. ASSUME NEW A, IsFiniteSet(A), NEW B \in SUBSET A
      PROVE  IsFiniteSet(B) /\ Cardinality(B) \in Nat /\ Cardinality(B) <= Cardinality(A)
  BY <1>2, FS_Subset, FS_CardinalityType
<1>3. ASSUME x \in S, T \subseteq S \ {x} PROVE Cardinality(T) + 1 <= Cardinality(S)
  <2>1. IsFiniteSet(S \ {x}) /\ Cardinality(S \ {x}) = Cardinality(S) - 1
    BY <1>3, FS_RemoveElement
  <2>2. Cardinality(T) \in Nat /\ Cardinality(T) <= Cardinality(S \ {x})
    BY <1>2, <1>3, <2>1
  <2> QED
    BY <1>1, <2>1, <2>2
<1>4. ASSUME T \subseteq S \union {x}
      PROVE  /\ IsFiniteSet(T) /\ Cardinality(T) \in Nat
             /\ Cardinality(T) <= Cardinality(S) + 1
  <2>1. IsFiniteSet(S \union {x}) /\ Cardinality(S \union {x}) \in Nat
        /\ Cardinality(S \union {x}) <= Cardinality(S) + 1
    <3>1. /\ IsFiniteSet(S \union {x})
          /\ Cardinality(S \union {x}) = IF x \in S THEN Cardinality(S) ELSE Cardinality(S) + 1
      BY FS_AddElement
    <3> QED
      BY <1>1, <3>1
  <2>2. /\ IsFiniteSet(T) /\ Cardinality(T) \in Nat
        /\ Cardinality(T) <= Cardinality(S \union {x})
    BY <1>2, <1>4, <2>1
  <2> QED
    BY <1>1, <2>1, <2>2
<1> QED
  BY <1>1, <1>2, <1>3, <1>4

\* The sets that are counted are finite.
LEMMA CountedFinite ==
    ASSUME SchedulerInv, NEW s
    PROVE  /\ IsFiniteSet(JobsOf(s)) /\ Jobs(s) = Cardinality(JobsOf(s)) /\ Jobs(s) \in Nat
           /\ IsFiniteSet(Placing(s)) /\ Cardinality(Placing(s)) \in Nat
<1> DEFINE known == {t \in Placements : state[t] # "unknown"}
<1>1. JobsOf(s) \subseteq known /\ IsFiniteSet(known)
  BY DEF JobsOf, SchedulerInv, JobsFinite
<1> HIDE DEF known
<1>2. IsFiniteSet(JobsOf(s)) /\ Cardinality(JobsOf(s)) \in Nat
  BY <1>1, PartsOfFinite
<1>3. Jobs(s) = Cardinality(JobsOf(s))
  BY DEF Jobs, JobsOf
<1>4. Placing(s) \subseteq Instances /\ IsFiniteSet(Instances)
  BY SchedulerAssumption DEF Placing
<1>5. IsFiniteSet(Placing(s)) /\ Cardinality(Placing(s)) \in Nat
  BY <1>4, PartsOfFinite
<1> QED
  BY <1>2, <1>3, <1>5

\* What enqueueing under the key of a slot adds: one job of the slot at most.
LEMMA EnqueuedOne ==
    ASSUME SchedulerInv, NEW s \in Slots, s <= slot, slot' = slot, Enqueued(s)
    PROVE  /\ state' \in [Placements -> {"unknown", "waiting", "taken", "done"}]
           /\ name' \in [Placements -> Slots]
           /\ JobsFinite'
           /\ \A t \in Placements : state'[t] # "unknown" => name'[t] <= slot'
           /\ Jobs(s)' \in Nat /\ Jobs(s)' <= Jobs(s) + 1
           /\ \A r \in Slots \ {s} : Jobs(r)' = Jobs(r)
<1>1. SchedulerTyped /\ JobsFinite /\ PlacedInTime
  BY DEF SchedulerInv
<1>2. CASE UNCHANGED queueVars
  <2>1. state' = state /\ name' = name
    BY <1>2 DEF queueVars
  <2>2. \A r \in Slots : Jobs(r)' = Jobs(r)
    BY <2>1 DEF Jobs
  <2>3. Jobs(s) \in Nat
    BY CountedFinite
  <2> QED
    BY <1>1, <2>1, <2>2, <2>3 DEF SchedulerTyped, JobsFinite, PlacedInTime
<1>3. CASE \E t \in Placements : NextPlacement(t) /\ Queue!Submit(t, s)
  <2>1. PICK t \in Placements : Queue!Submit(t, s)
    BY <1>3
  <2>2. /\ state[t] = "unknown"
        /\ state' = [state EXCEPT ![t] = "waiting"]
        /\ name' = [name EXCEPT ![t] = s]
    BY <2>1 DEF Queue!Submit
  <2>3. /\ state' \in [Placements -> {"unknown", "waiting", "taken", "done"}]
        /\ name' \in [Placements -> Slots]
    BY <1>1, <2>2 DEF SchedulerTyped
  <2>4. /\ state'[t] = "waiting" /\ name'[t] = s
        /\ \A u \in Placements \ {t} : state'[u] = state[u] /\ name'[u] = name[u]
    BY <1>1, <2>2 DEF SchedulerTyped
  <2>5. JobsFinite'
    <3> DEFINE known == {u \in Placements : state[u] # "unknown"}
               later == {u \in Placements : state'[u] # "unknown"}
    <3>1. IsFiniteSet(known) /\ later \subseteq known \union {t}
      BY <1>1, <2>4 DEF JobsFinite
    <3> HIDE DEF known, later
    <3>2. IsFiniteSet(later)
      BY <3>1, PartsOfFinite
    <3> QED
      BY <3>2 DEF later, JobsFinite
  <2>6. \A u \in Placements : state'[u] # "unknown" => name'[u] <= slot'
    BY <1>1, <2>4 DEF PlacedInTime
  <2>7. JobsOf(s)' \subseteq JobsOf(s) \union {t}
    BY <2>4 DEF JobsOf
  <2>8. Jobs(s)' = Cardinality(JobsOf(s)') /\ Jobs(s) = Cardinality(JobsOf(s))
        /\ IsFiniteSet(JobsOf(s)) /\ Jobs(s) \in Nat
    BY CountedFinite DEF Jobs, JobsOf
  <2>9. Cardinality(JobsOf(s)') \in Nat /\ Cardinality(JobsOf(s)') <= Cardinality(JobsOf(s)) + 1
    BY <2>7, <2>8, PartsOfFinite
  <2>10. \A r \in Slots \ {s} : Jobs(r)' = Jobs(r)
    <3> SUFFICES ASSUME NEW r \in Slots \ {s} PROVE JobsOf(r)' = JobsOf(r)
      BY DEF Jobs, JobsOf
    <3> QED
      BY <2>2, <2>4 DEF JobsOf
  <2> QED
    BY <2>3, <2>5, <2>6, <2>8, <2>9, <2>10
<1> QED
  BY <1>2, <1>3 DEF Enqueued

\* One instance moves while the slot lasts: of each slot, whether that one may place it.
LEMMA InstanceMoves ==
    ASSUME SchedulerInv, NEW i \in Instances, NEW row \in Instance,
           instance' = [instance EXCEPT ![i] = row], slot' = slot
    PROVE  /\ instance' \in [Instances -> Instance]
           /\ instance'[i] = row
           /\ \A j \in Instances \ {i} : instance'[j] = instance[j]
           /\ \A s \in Slots :
                  LET before == Cardinality(Placing(s))
                      after == Cardinality(Placing(s)')
                  IN  /\ before \in Nat /\ after \in Nat /\ after <= before + 1
                      /\ (MayPlace(i, s)' => MayPlace(i, s)) => after <= before
                      /\ MayPlace(i, s) /\ ~MayPlace(i, s)' => after + 1 <= before
<1>1. instance' \in [Instances -> Instance] /\ instance'[i] = row
      /\ \A j \in Instances \ {i} : instance'[j] = instance[j]
  BY DEF SchedulerInv, SchedulerTyped
<1>2. ASSUME NEW s \in Slots
      PROVE  LET before == Cardinality(Placing(s))
                 after == Cardinality(Placing(s)')
             IN  /\ before \in Nat /\ after \in Nat /\ after <= before + 1
                 /\ (MayPlace(i, s)' => MayPlace(i, s)) => after <= before
                 /\ MayPlace(i, s) /\ ~MayPlace(i, s)' => after + 1 <= before
  <2>1. \A j \in Instances \ {i} : MayPlace(j, s)' <=> MayPlace(j, s)
    BY <1>1 DEF MayPlace
  <2>2. /\ Placing(s)' \subseteq Placing(s) \union {i}
        /\ (MayPlace(i, s)' => MayPlace(i, s)) => Placing(s)' \subseteq Placing(s)
        /\ MayPlace(i, s) /\ ~MayPlace(i, s)' =>
               i \in Placing(s) /\ Placing(s)' \subseteq Placing(s) \ {i}
    BY <2>1 DEF Placing
  <2>3. IsFiniteSet(Placing(s))
    BY CountedFinite
  <2> QED
    BY <2>2, <2>3, PartsOfFinite
<1> QED
  BY <1>1, <1>2

\* A step of an instance that places no job.
LEMMA NothingPlaced ==
    ASSUME SchedulerInv, NEW i \in Instances, NEW row \in Instance,
           instance' = [instance EXCEPT ![i] = row], slot' = slot, UNCHANGED queueVars,
           chances' \in [Slots -> Nat],
           row.at = "placing" => row.read \in Slots /\ row.read <= slot,
           \A s \in Slots : \/ /\ MayPlace(i, s)' => MayPlace(i, s)
                               /\ chances'[s] = chances[s]
                            \/ chances'[s] = chances[s] + 1
    PROVE  SchedulerInv'
<1>1. SchedulerTyped /\ PlacedInTime /\ JobsFinite /\ Accounted
  BY DEF SchedulerInv
<1>2. /\ instance' \in [Instances -> Instance] /\ instance'[i] = row
      /\ \A j \in Instances \ {i} : instance'[j] = instance[j]
  BY InstanceMoves
<1>3. state' = state /\ name' = name
  BY DEF queueVars
<1>4. SchedulerTyped'
  BY <1>1, <1>2, <1>3 DEF SchedulerTyped
<1>5. PlacedInTime'
  <2>1. \A j \in Instances : instance'[j].at = "placing" =>
            instance'[j].read \in Slots /\ instance'[j].read <= slot'
    BY <1>1, <1>2 DEF PlacedInTime
  <2> QED
    BY <1>1, <1>3, <2>1 DEF PlacedInTime
<1>6. JobsFinite' /\ \A s \in Slots : Jobs(s)' = Jobs(s)
  BY <1>1, <1>3 DEF JobsFinite, Jobs
<1>7. Accounted'
  <2> SUFFICES ASSUME NEW s \in Slots
               PROVE  Jobs(s)' + Cardinality(Placing(s)') <= chances'[s]
    BY DEF Accounted
  <2>1. Jobs(s) \in Nat /\ Cardinality(Placing(s)) \in Nat /\ chances[s] \in Nat
    BY <1>1, CountedFinite DEF SchedulerTyped
  <2>2. Jobs(s) + Cardinality(Placing(s)) <= chances[s]
    BY <1>1 DEF Accounted
  <2>3. /\ Cardinality(Placing(s)') \in Nat
        /\ Cardinality(Placing(s)') <= Cardinality(Placing(s)) + 1
        /\ (MayPlace(i, s)' => MayPlace(i, s)) =>
               Cardinality(Placing(s)') <= Cardinality(Placing(s))
    BY InstanceMoves
  <2>4. Jobs(s)' = Jobs(s)
    BY <1>6
  <2>5. CASE (MayPlace(i, s)' => MayPlace(i, s)) /\ chances'[s] = chances[s]
    BY <2>1, <2>2, <2>3, <2>4, <2>5
  <2>6. CASE chances'[s] = chances[s] + 1
    BY <2>1, <2>2, <2>3, <2>4, <2>6
  <2> QED
    BY <2>5, <2>6
<1> QED
  BY <1>4, <1>5, <1>6, <1>7 DEF SchedulerInv

\* A step of an instance that places the slot it has read: it had been accounted for as
\* about to, or the mishap accounts for it.
LEMMA SlotPlaced ==
    ASSUME SchedulerInv, NEW i \in Instances, NEW row \in Instance,
           instance[i].at = "placing", Enqueued(instance[i].read),
           instance' = [instance EXCEPT ![i] = row], slot' = slot,
           row.at = "leading",
           chances' \in [Slots -> Nat],
           \A s \in Slots \ {instance[i].read} : chances'[s] = chances[s],
           \/ row.placed = instance[i].read /\ chances' = chances
           \/ chances'[instance[i].read] = chances[instance[i].read] + 1
    PROVE  SchedulerInv'
<1>1. SchedulerTyped /\ PlacedInTime /\ JobsFinite /\ Accounted
  BY DEF SchedulerInv
<1>2. PICK read \in Slots : read = instance[i].read /\ read <= slot
  BY <1>1 DEF PlacedInTime
<1>3. /\ instance' \in [Instances -> Instance] /\ instance'[i] = row
      /\ \A j \in Instances \ {i} : instance'[j] = instance[j]
  BY InstanceMoves
<1>4. /\ state' \in [Placements -> {"unknown", "waiting", "taken", "done"}]
      /\ name' \in [Placements -> Slots]
      /\ JobsFinite'
      /\ \A t \in Placements : state'[t] # "unknown" => name'[t] <= slot'
      /\ Jobs(read)' \in Nat /\ Jobs(read)' <= Jobs(read) + 1
      /\ \A r \in Slots \ {read} : Jobs(r)' = Jobs(r)
  BY <1>2, EnqueuedOne
<1>5. SchedulerTyped'
  BY <1>1, <1>3, <1>4 DEF SchedulerTyped
<1>6. PlacedInTime'
  <2>1. \A j \in Instances : instance'[j].at = "placing" =>
            instance'[j].read \in Slots /\ instance'[j].read <= slot'
    BY <1>1, <1>3 DEF PlacedInTime
  <2> QED
    BY <1>4, <2>1 DEF PlacedInTime
<1>7. Accounted'
  <2> SUFFICES ASSUME NEW s \in Slots
               PROVE  Jobs(s)' + Cardinality(Placing(s)') <= chances'[s]
    BY DEF Accounted
  <2>1. /\ Jobs(s) \in Nat /\ Cardinality(Placing(s)) \in Nat
        /\ chances[s] \in Nat /\ chances'[s] \in Nat
    BY <1>1, CountedFinite DEF SchedulerTyped
  <2>2. Jobs(s) + Cardinality(Placing(s)) <= chances[s]
    BY <1>1 DEF Accounted
  <2>3. /\ Cardinality(Placing(s)') \in Nat
        /\ (MayPlace(i, s)' => MayPlace(i, s)) =>
               Cardinality(Placing(s)') <= Cardinality(Placing(s))
        /\ MayPlace(i, s) /\ ~MayPlace(i, s)' =>
               Cardinality(Placing(s)') + 1 <= Cardinality(Placing(s))
    BY InstanceMoves
  <2>4. MayPlace(i, s)' => MayPlace(i, s)
    BY <1>3 DEF MayPlace
  <2>5. CASE s # read
    BY <1>2, <1>4, <2>1, <2>2, <2>3, <2>4, <2>5
  <2>6. CASE s = read
    <3>1. Jobs(s)' \in Nat /\ Jobs(s)' <= Jobs(s) + 1
      BY <1>4, <2>6
    <3>2. CASE row.placed = read /\ chances' = chances
      <4>1. MayPlace(i, s) /\ ~MayPlace(i, s)'
        BY <1>2, <1>3, <2>6, <3>2 DEF MayPlace
      <4> QED
        BY <2>1, <2>2, <2>3, <3>1, <3>2, <4>1
    <3>3. CASE chances'[read] = chances[read] + 1
      BY <2>1, <2>2, <2>3, <2>4, <2>6, <3>1, <3>3
    <3> QED
      BY <1>2, <3>2, <3>3
  <2> QED
    BY <2>5, <2>6
<1> QED
  BY <1>4, <1>5, <1>6, <1>7 DEF SchedulerInv

\* The slot begins: every leader of the moment may place it, and nobody has yet.
LEMMA SlotStep ==
    ASSUME SchedulerInv, SlotBegins
    PROVE  SchedulerInv'
<1>1. SchedulerTyped /\ PlacedInTime /\ JobsFinite /\ Accounted
  BY DEF SchedulerInv
<1> DEFINE leaders == {i \in Instances : instance[i].at # "waiting"}
<1>2. /\ slot + 1 \in Slots /\ slot' = slot + 1
      /\ chances' = [chances EXCEPT ![slot + 1] = Cardinality(leaders)]
      /\ UNCHANGED <<instance, state, name>>
  BY DEF SlotBegins, queueVars
<1>3. IsFiniteSet(leaders) /\ Cardinality(leaders) \in Nat
  <2>1. leaders \subseteq Instances /\ IsFiniteSet(Instances)
    BY SchedulerAssumption
  <2> HIDE DEF leaders
  <2> QED
    BY <2>1, PartsOfFinite
<1> HIDE DEF leaders
<1>4. slot \in Nat /\ Slots \subseteq Nat
  BY <1>1, SchedulerAssumption DEF SchedulerTyped
<1>5. SchedulerTyped'
  BY <1>1, <1>2, <1>3 DEF SchedulerTyped
<1>6. PlacedInTime'
  <2>1. \A n \in Slots : n <= slot => n <= slot + 1
    BY <1>4
  <2> QED
    BY <1>1, <1>2, <2>1 DEF PlacedInTime, SchedulerTyped
<1>7. JobsFinite' /\ \A s \in Slots : Jobs(s)' = Jobs(s)
  BY <1>1, <1>2 DEF JobsFinite, Jobs
<1>8. Accounted'
  <2> SUFFICES ASSUME NEW s \in Slots
               PROVE  Jobs(s)' + Cardinality(Placing(s)') <= chances'[s]
    BY DEF Accounted
  <2>1. Jobs(s)' = Jobs(s) /\ Jobs(s) \in Nat /\ IsFiniteSet(Placing(s))
        /\ Cardinality(Placing(s)) \in Nat
    BY <1>7, CountedFinite
  <2>2. CASE s = slot + 1
    <3>1. JobsOf(s) = {}
      <4>1. \A t \in Placements : state[t] # "unknown" => name[t] \in Slots /\ name[t] <= slot
        BY <1>1 DEF PlacedInTime, SchedulerTyped
      <4>2. \A n \in Slots : n <= slot => n # s
        BY <1>4, <2>2
      <4> QED
        BY <4>1, <4>2 DEF JobsOf
    <3>2. Jobs(s) = 0
      BY <3>1, CountedFinite, FS_EmptySet
    <3>3. Placing(s)' \subseteq leaders
      BY <1>2 DEF Placing, MayPlace, leaders
    <3>4. Cardinality(Placing(s)') <= Cardinality(leaders) /\ Cardinality(Placing(s)') \in Nat
      BY <1>3, <3>3, PartsOfFinite
    <3>5. chances'[s] = Cardinality(leaders)
      BY <1>1, <1>2, <2>2 DEF SchedulerTyped
    <3> QED
      BY <1>3, <2>1, <3>2, <3>4, <3>5
  <2>3. CASE s # slot + 1
    <3>1. Placing(s)' \subseteq Placing(s)
      BY <1>2, <2>3 DEF Placing, MayPlace
    <3>2. Cardinality(Placing(s)') <= Cardinality(Placing(s)) /\ Cardinality(Placing(s)') \in Nat
      BY <2>1, <3>1, PartsOfFinite
    <3>3. chances'[s] = chances[s] /\ chances[s] \in Nat
      BY <1>1, <1>2, <2>3 DEF SchedulerTyped
    <3>4. Jobs(s) + Cardinality(Placing(s)) <= chances[s]
      BY <1>1 DEF Accounted
    <3> QED
      BY <2>1, <3>2, <3>3, <3>4
  <2> QED
    BY <2>2, <2>3
<1> QED
  BY <1>5, <1>6, <1>7, <1>8 DEF SchedulerInv

\* The workers of the queue place no job and forget none.
LEMMA QueueStep ==
    ASSUME SchedulerInv, QueueWorks
    PROVE  SchedulerInv'
<1>1. SchedulerTyped /\ PlacedInTime /\ JobsFinite /\ Accounted
  BY DEF SchedulerInv
<1>2. UNCHANGED <<slot, instance, chances>>
  BY DEF QueueWorks
<1>3. PICK t \in Placements : \/ \E w \in Executors : Queue!Take(t, {w})
                              \/ Queue!Settle(t, "done")
  BY DEF QueueWorks
<1>4. /\ name' = name /\ state[t] # "unknown"
      /\ \/ state' = [state EXCEPT ![t] = "taken"]
         \/ state' = [state EXCEPT ![t] = "done"]
  BY <1>3 DEF Queue!Take, Queue!Settle, Queue!Live
<1>5. /\ state' \in [Placements -> {"unknown", "waiting", "taken", "done"}]
      /\ \A u \in Placements : state'[u] # "unknown" <=> state[u] # "unknown"
  BY <1>1, <1>4 DEF SchedulerTyped
<1>6. SchedulerTyped' /\ PlacedInTime'
  BY <1>1, <1>2, <1>4, <1>5 DEF SchedulerTyped, PlacedInTime
<1>7. JobsFinite'
  <2>1. {u \in Placements : state'[u] # "unknown"} = {u \in Placements : state[u] # "unknown"}
    BY <1>5
  <2> QED
    BY <1>1, <2>1 DEF JobsFinite
<1>8. \A s \in Slots : Jobs(s)' = Jobs(s) /\ Placing(s)' = Placing(s)
  <2>1. \A s \in Slots : {u \in Placements : state'[u] # "unknown" /\ name'[u] = s}
                         = {u \in Placements : state[u] # "unknown" /\ name[u] = s}
    BY <1>4, <1>5
  <2> QED
    BY <1>2, <2>1 DEF Jobs, Placing, MayPlace
<1>9. Accounted'
  BY <1>1, <1>2, <1>8 DEF Accounted
<1> QED
  BY <1>6, <1>7, <1>9 DEF SchedulerInv

\* The invariant holds at the start: nothing is placed and nobody leads.
LEMMA SchedulerInitial == SchedulerInit => SchedulerInv
<1> SUFFICES ASSUME SchedulerInit PROVE SchedulerInv
  OBVIOUS
<1>1. Waiting \in Instance /\ Waiting.at = "waiting"
  BY DEF Waiting, Instance
<1>2. SchedulerTyped
  BY <1>1, SchedulerAssumption DEF SchedulerInit, SchedulerTyped
<1>3. /\ \A t \in Placements : state[t] = "unknown"
      /\ \A i \in Instances : instance[i].at = "waiting"
      /\ \A s \in Slots : chances[s] = 0
  BY <1>1 DEF SchedulerInit
<1>4. PlacedInTime
  BY <1>3 DEF PlacedInTime
<1>5. JobsFinite
  <2>1. {t \in Placements : state[t] # "unknown"} = {}
    BY <1>3
  <2> QED
    BY <2>1, FS_EmptySet DEF JobsFinite
<1>6. Accounted
  <2> SUFFICES ASSUME NEW s \in Slots PROVE Jobs(s) + Cardinality(Placing(s)) <= chances[s]
    BY DEF Accounted
  <2>1. {t \in Placements : state[t] # "unknown" /\ name[t] = s} = {} /\ Placing(s) = {}
    BY <1>3 DEF Placing, MayPlace
  <2>2. Jobs(s) = 0 /\ Cardinality(Placing(s)) = 0
    BY <2>1, FS_EmptySet DEF Jobs
  <2> QED
    BY <1>3, <2>2
<1> QED
  BY <1>2, <1>4, <1>5, <1>6 DEF SchedulerInv

\* Every step preserves the invariant.
LEMMA SchedulerInductive == SchedulerInv /\ [SchedulerNext]_schedulerVars => SchedulerInv'
<1> SUFFICES ASSUME SchedulerInv, [SchedulerNext]_schedulerVars PROVE SchedulerInv'
  OBVIOUS
<1>1. /\ SchedulerTyped /\ PlacedInTime /\ slot \in Slots
      /\ \A i \in Instances : instance[i] \in Instance
      /\ instance \in [Instances -> Instance]
  BY DEF SchedulerInv, SchedulerTyped
<1>2. Waiting \in Instance /\ Waiting.at = "waiting"
  BY DEF Waiting, Instance
<1>3. ASSUME NEW i \in Instances, Lead(i) PROVE SchedulerInv'
  <2> DEFINE row == [Waiting EXCEPT !.at = "leading"]
  <2>1. row \in Instance /\ row.at = "leading"
    BY <1>2 DEF Instance
  <2>2. /\ instance' = [instance EXCEPT ![i] = row] /\ slot' = slot /\ UNCHANGED queueVars
        /\ chances' = [chances EXCEPT ![slot] = @ + 1]
    BY <1>3 DEF Lead
  <2> HIDE DEF row
  <2>3. /\ chances' \in [Slots -> Nat] /\ chances'[slot] = chances[slot] + 1
        /\ \A s \in Slots \ {slot} : chances'[s] = chances[s]
    BY <1>1, <2>2 DEF SchedulerTyped
  <2>4. instance'[i] = row
    BY <1>1, <2>2
  <2>5. \A s \in Slots \ {slot} : ~MayPlace(i, s)'
    BY <2>1, <2>2, <2>4 DEF MayPlace
  <2> QED
    BY <2>1, <2>2, <2>3, <2>5, NothingPlaced
<1>4. ASSUME NEW i \in Instances, ReadSlot(i) PROVE SchedulerInv'
  <2> DEFINE row == [instance[i] EXCEPT !.at = "placing", !.read = slot]
  <2>1. row \in Instance /\ row.at = "placing" /\ row.read = slot
    BY <1>1 DEF Instance
  <2>2. /\ instance' = [instance EXCEPT ![i] = row] /\ slot' = slot /\ UNCHANGED queueVars
        /\ chances' = chances /\ instance[i].at = "leading" /\ instance[i].placed # slot
    BY <1>1, <1>4 DEF ReadSlot, Due
  <2> HIDE DEF row
  <2>3. instance'[i] = row
    BY <1>1, <2>2
  <2>4. \A s \in Slots : MayPlace(i, s)' => MayPlace(i, s)
    BY <2>1, <2>2, <2>3 DEF MayPlace
  <2>5. slot <= slot
    BY <1>1, SchedulerAssumption
  <2> QED
    BY <1>1, <2>1, <2>2, <2>4, <2>5, NothingPlaced DEF SchedulerTyped
<1>5. ASSUME NEW i \in Instances, PlaceSlot(i) PROVE SchedulerInv'
  <2> DEFINE row == [at |-> "leading", read |-> NoSlot, placed |-> instance[i].read]
  <2>1. /\ instance' = [instance EXCEPT ![i] = row] /\ slot' = slot /\ chances' = chances
        /\ instance[i].at = "placing" /\ Enqueued(instance[i].read)
    BY <1>5 DEF PlaceSlot
  <2>2. row \in Instance /\ row.at = "leading" /\ row.placed = instance[i].read
    BY <1>1 DEF Instance
  <2> HIDE DEF row
  <2> QED
    BY <1>1, <2>1, <2>2, SlotPlaced DEF SchedulerTyped
<1>6. ASSUME NEW i \in Instances
      PROVE  Retrying(i) \in Instance /\ Retrying(i).at = "leading"
             /\ Retrying(i).placed = instance[i].placed
  BY <1>1 DEF Retrying, Instance
<1>7. ASSUME NEW i \in Instances, PlacingFails(i) PROVE SchedulerInv'
  <2>1. /\ instance' = [instance EXCEPT ![i] = Retrying(i)] /\ slot' = slot /\ chances' = chances
        /\ UNCHANGED queueVars /\ instance[i].at = "placing"
    BY <1>7 DEF PlacingFails
  <2>2. instance'[i] = Retrying(i)
    BY <1>1, <2>1
  <2>3. \A s \in Slots : MayPlace(i, s)' => MayPlace(i, s)
    BY <1>6, <2>1, <2>2 DEF MayPlace
  <2> QED
    BY <1>1, <1>6, <2>1, <2>3, NothingPlaced DEF SchedulerTyped
<1>8. ASSUME NEW i \in Instances, PlacedUnknown(i) PROVE SchedulerInv'
  <2>1. /\ instance' = [instance EXCEPT ![i] = Retrying(i)] /\ slot' = slot
        /\ chances' = [chances EXCEPT ![instance[i].read] = @ + 1]
        /\ instance[i].at = "placing" /\ Enqueued(instance[i].read)
    BY <1>8 DEF PlacedUnknown
  <2>2. instance[i].read \in Slots
    BY <1>1, <2>1 DEF PlacedInTime
  <2>3. /\ chances' \in [Slots -> Nat]
        /\ chances'[instance[i].read] = chances[instance[i].read] + 1
        /\ \A s \in Slots \ {instance[i].read} : chances'[s] = chances[s]
    BY <1>1, <2>1, <2>2 DEF SchedulerTyped
  <2> QED
    BY <1>6, <2>1, <2>3, SlotPlaced
<1>9. ASSUME UNCHANGED <<slot, instance, chances, queueVars>> PROVE SchedulerInv'
  <2>1. \A s \in Slots : Jobs(s)' = Jobs(s) /\ Placing(s)' = Placing(s)
    BY <1>9 DEF Jobs, Placing, MayPlace, queueVars
  <2> QED
    BY <1>9, <2>1 DEF SchedulerInv, SchedulerTyped, PlacedInTime, JobsFinite, Accounted, queueVars
<1>10. ASSUME NEW i \in Instances, RestartInstance(i) PROVE SchedulerInv'
  <2>1. /\ instance' = [instance EXCEPT ![i] = Waiting] /\ slot' = slot /\ chances' = chances
        /\ UNCHANGED queueVars
    BY <1>10 DEF RestartInstance
  <2>2. instance'[i] = Waiting
    BY <1>1, <2>1
  <2>3. \A s \in Slots : MayPlace(i, s)' => MayPlace(i, s)
    BY <1>2, <2>2 DEF MayPlace
  <2> QED
    BY <1>1, <1>2, <2>1, <2>3, NothingPlaced DEF SchedulerTyped
<1>11. ASSUME NEW i \in Instances, SessionLost(i) PROVE SchedulerInv'
  BY <1>9, <1>11 DEF SessionLost
<1>12. CASE UNCHANGED schedulerVars
  BY <1>9, <1>12 DEF schedulerVars, queueVars
<1> QED
  BY <1>3, <1>4, <1>5, <1>7, <1>8, <1>10, <1>11, <1>12, SlotStep, QueueStep
     DEF SchedulerNext, InstanceStep

\* A slot has no more jobs than instances that led during it, the ones that lost the lock
\* without noticing included, and answers that were lost.
THEOREM SlotsPlacedOnce == SchedulerSpec => []SlotPlacedOncePerLeader
<1>1. SchedulerInv => SlotPlacedOncePerLeader
  <2> SUFFICES ASSUME SchedulerInv, NEW s \in Slots PROVE Jobs(s) <= chances[s]
    BY DEF SlotPlacedOncePerLeader
  <2>1. Jobs(s) \in Nat /\ Cardinality(Placing(s)) \in Nat /\ chances[s] \in Nat
    BY CountedFinite DEF SchedulerInv, SchedulerTyped
  <2>2. Jobs(s) + Cardinality(Placing(s)) <= chances[s]
    BY DEF SchedulerInv, Accounted
  <2> QED
    BY <2>1, <2>2
<1> QED
  BY <1>1, SchedulerInitial, SchedulerInductive, PTL DEF SchedulerSpec

---------------------------------------------------------------------------
(* RateLimit, for any count, window and lag and any number of callers.     *)

\* A set of naturals that has 0 and the successor of each of its elements has them all.
LEMMA FromZeroOn ==
    ASSUME NEW S, 0 \in S, \A n \in Nat : n \in S => n + 1 \in S
    PROVE  Nat \subseteq S
<1> DEFINE Missing == {n \in Nat : n \notin S}
           R == OpToRel(<, Nat)
<1> SUFFICES ASSUME Missing # {} PROVE FALSE
  OBVIOUS
<1>1. IsWellFoundedOn(R, Nat)
  BY NatLessThanWellFounded
<1>2. \A m, n \in Nat : n < m => <<n, m>> \in R
  BY DEF R, OpToRel
<1>3. Missing \in SUBSET Nat
  OBVIOUS
<1> HIDE DEF R, Missing
<1>4. PICK m \in Missing : \A n \in Missing : ~ (<<n, m>> \in R)
  BY <1>1, <1>3, WFMin, Zenon
<1>5. m \in Nat /\ m # 0
  BY <1>3, <1>4 DEF Missing
<1>6. m - 1 \in Nat /\ m - 1 < m /\ (m - 1) + 1 = m
  BY <1>5
<1>7. m - 1 \notin Missing
  BY <1>2, <1>4, <1>5, <1>6, Zenon
<1>8. m \in S
  BY <1>6, <1>7 DEF Missing
<1> QED
  BY <1>4, <1>8 DEF Missing

\* The bounds of ages.
LEMMA AgesBounds ==
    /\ Window \in Nat /\ Lag \in Nat /\ Count \in Nat /\ Lag < Window /\ Oldest \in Nat
    /\ Oldest = Window + Lag /\ Window >= 1
    /\ Window - Lag - 1 \in Nat /\ Ages = 0 .. Oldest /\ 0 \in Ages
    /\ 0 .. Lag \subseteq Ages
BY RateLimitAssumption DEF Oldest, Ages

\* Up to an age: what is that old, and what is younger.
LEMMA UptoAdds ==
    ASSUME NEW bag \in [Ages -> Nat]
    PROVE  \A a \in Ages :
               Upto(bag, a) = bag[a] + (IF a = 0 THEN 0 ELSE Upto(bag, a - 1))
<1> DEFINE Sums(k) == {F \in [0 .. k -> Nat] :
                          \A a \in 0 .. k : F[a] = bag[a] + (IF a = 0 THEN 0 ELSE F[a - 1])}
           Summed == {k \in Nat : k \in Ages => Sums(k) # {}}
<1>1. 0 \in Summed
  <2> DEFINE F == [a \in 0 .. 0 |-> bag[0]]
  <2>1. bag[0] \in Nat
    BY AgesBounds
  <2>2. F \in Sums(0)
    BY <2>1
  <2> QED
    BY <2>2
<1>2. ASSUME NEW k \in Nat, k \in Summed
      PROVE  k + 1 \in Summed
  <2>1. ASSUME k + 1 \in Ages PROVE Sums(k + 1) # {}
    <3>1. k \in Ages /\ bag[k + 1] \in Nat
      BY <2>1, AgesBounds
    <3>2. Sums(k) # {}
      BY <1>2, <3>1
    <3>3. PICK F \in [0 .. k -> Nat] :
              \A a \in 0 .. k : F[a] = bag[a] + (IF a = 0 THEN 0 ELSE F[a - 1])
      BY <3>2
    <3> DEFINE G == [a \in 0 .. k + 1 |-> IF a = k + 1 THEN bag[k + 1] + F[k] ELSE F[a]]
    <3>4. G \in [0 .. k + 1 -> Nat]
      BY <3>1, <3>3
    <3>5. ASSUME NEW a \in 0 .. k + 1
          PROVE  G[a] = bag[a] + (IF a = 0 THEN 0 ELSE G[a - 1])
      <4>1. CASE a = k + 1
        <5>1. a - 1 = k /\ a # 0 /\ a - 1 \in 0 .. k + 1 /\ a - 1 # k + 1
          BY <4>1
        <5> QED
          BY <4>1, <5>1
      <4>2. CASE a # k + 1
        <5>1. a \in 0 .. k /\ (a # 0 => a - 1 \in 0 .. k + 1 /\ a - 1 # k + 1)
          BY <4>2
        <5> QED
          BY <3>3, <4>2, <5>1
      <4> QED
        BY <4>1, <4>2
    <3> QED
      BY <3>4, <3>5
  <2>2. k + 1 \in Nat
    OBVIOUS
  <2> QED
    BY <2>1, <2>2
<1>3. Oldest \in Summed
  <2> HIDE DEF Summed
  <2> QED
    BY <1>1, <1>2, AgesBounds, FromZeroOn
<1>4. PICK F \in [Ages -> Nat] :
          \A a \in Ages : F[a] = bag[a] + (IF a = 0 THEN 0 ELSE F[a - 1])
  BY <1>3, AgesBounds
<1> DEFINE Right(sum) == sum = [a \in Ages |-> bag[a] + (IF a = 0 THEN 0 ELSE sum[a - 1])]
           sum == CHOOSE sum : Right(sum)
<1>5. Right(F)
  BY <1>4
<1>6. Right(sum)
  <2> HIDE DEF Right
  <2> QED
    BY <1>5
<1>7. \A a \in Ages : Upto(bag, a) = sum[a]
  BY DEF Upto
<1>8. \A a \in Ages : a # 0 => a - 1 \in Ages
  BY AgesBounds
<1> HIDE DEF sum
<1> QED
  BY <1>6, <1>7, <1>8

\* Up to age 0 there is what has that age.
LEMMA UptoZero ==
    ASSUME NEW bag \in [Ages -> Nat]
    PROVE  bag[0] \in Nat /\ Upto(bag, 0) = bag[0]
<1>1. 0 \in Ages /\ bag[0] \in Nat
  BY AgesBounds
<1>2. Upto(bag, 0) = bag[0] + (IF 0 = 0 THEN 0 ELSE Upto(bag, 0 - 1))
  BY <1>1, UptoAdds
<1> QED
  BY <1>1, <1>2

\* Up to a later age there is what has that age and what is younger.
LEMMA UptoNext ==
    ASSUME NEW bag \in [Ages -> Nat], NEW a \in Nat, a + 1 \in Ages
    PROVE  a \in Ages /\ bag[a + 1] \in Nat /\ Upto(bag, a + 1) = bag[a + 1] + Upto(bag, a)
<1>1. a \in Ages /\ bag[a + 1] \in Nat /\ a + 1 # 0 /\ (a + 1) - 1 = a
  BY AgesBounds
<1>2. Upto(bag, a + 1) = bag[a + 1]
                         + (IF a + 1 = 0 THEN 0 ELSE Upto(bag, (a + 1) - 1))
  BY UptoAdds
<1> QED
  BY <1>1, <1>2

\* Sums are naturals, grow with the age, and have each of their parts.
LEMMA UptoGrows ==
    ASSUME NEW bag \in [Ages -> Nat]
    PROVE  \A a \in Ages : /\ Upto(bag, a) \in Nat
                           /\ \A b \in 0 .. a : /\ Upto(bag, b) \in Nat
                                                /\ Upto(bag, b) <= Upto(bag, a)
                                                /\ bag[b] <= Upto(bag, a)
<1> DEFINE Good(a) == /\ Upto(bag, a) \in Nat
                      /\ \A b \in 0 .. a : /\ Upto(bag, b) \in Nat
                                           /\ Upto(bag, b) <= Upto(bag, a)
                                           /\ bag[b] <= Upto(bag, a)
           S == {a \in Nat : a \in Ages => Good(a)}
<1>1. 0 \in S
  <2>1. Upto(bag, 0) = bag[0] /\ bag[0] \in Nat
    BY UptoZero
  <2> QED
    BY <2>1
<1>2. \A a \in Nat : a \in S => a + 1 \in S
  <2> SUFFICES ASSUME NEW a \in Nat, a \in S, a + 1 \in Ages PROVE Good(a + 1)
    OBVIOUS
  <2>1. a \in Ages /\ a + 1 # 0 /\ (a + 1) - 1 = a /\ bag[a + 1] \in Nat
    BY AgesBounds
  <2>2. Good(a)
    BY <2>1
  <2>3. Upto(bag, a + 1) = bag[a + 1] + Upto(bag, a)
    BY <2>1, UptoAdds
  <2>4. Upto(bag, a + 1) \in Nat /\ Upto(bag, a) <= Upto(bag, a + 1)
        /\ bag[a + 1] <= Upto(bag, a + 1)
    BY <2>1, <2>2, <2>3
  <2>5. ASSUME NEW b \in 0 .. a + 1
        PROVE  /\ Upto(bag, b) \in Nat
               /\ Upto(bag, b) <= Upto(bag, a + 1)
               /\ bag[b] <= Upto(bag, a + 1)
    <3>1. CASE b = a + 1
      BY <2>4, <3>1
    <3>2. CASE b # a + 1
      <4>1. b \in 0 .. a /\ b \in Ages
        BY <3>2, <2>1, AgesBounds
      <4>2. bag[b] \in Nat /\ Upto(bag, b) \in Nat /\ Upto(bag, a) \in Nat
            /\ Upto(bag, b) <= Upto(bag, a) /\ bag[b] <= Upto(bag, a)
        BY <2>2, <4>1
      <4> QED
        BY <2>4, <4>2
    <3> QED
      BY <3>1, <3>2
  <2> QED
    BY <2>4, <2>5
<1>3. Nat \subseteq S
  <2> HIDE DEF S
  <2> QED
    BY <1>1, <1>2, FromZeroOn
<1> QED
  BY <1>3, AgesBounds

\* Bags that agree up to an age have the same sums up to it.
LEMMA UptoAgrees ==
    ASSUME NEW bag \in [Ages -> Nat], NEW other \in [Ages -> Nat], NEW last \in Ages,
           \A a \in 0 .. last : other[a] = bag[a]
    PROVE  \A a \in 0 .. last : Upto(other, a) = Upto(bag, a)
<1> DEFINE S == {a \in Nat : a <= last => Upto(other, a) = Upto(bag, a)}
<1>1. last \in Nat /\ \A a \in Nat : a <= last => a \in 0 .. last /\ a \in Ages
  BY AgesBounds
<1>2. 0 \in S
  <2>1. Upto(bag, 0) = bag[0] /\ Upto(other, 0) = other[0] /\ 0 \in 0 .. last
    BY <1>1, UptoZero
  <2> QED
    BY <2>1
<1>3. \A a \in Nat : a \in S => a + 1 \in S
  <2> SUFFICES ASSUME NEW a \in Nat, a \in S, a + 1 <= last
               PROVE  Upto(other, a + 1) = Upto(bag, a + 1)
    OBVIOUS
  <2>1. a + 1 \in Ages /\ a + 1 \in 0 .. last /\ a + 1 # 0 /\ (a + 1) - 1 = a /\ a <= last
    BY <1>1
  <2> QED
    BY <2>1, UptoAdds
<1>4. Nat \subseteq S
  <2> HIDE DEF S
  <2> QED
    BY <1>2, <1>3, FromZeroOn
<1> QED
  BY <1>1, <1>4

\* One more of an age is one more in every sum from that age on.
LEMMA UptoOneMore ==
    ASSUME NEW bag \in [Ages -> Nat], NEW x \in Ages
    PROVE  \A a \in Ages : Upto([bag EXCEPT ![x] = @ + 1], a)
                           = Upto(bag, a) + (IF x <= a THEN 1 ELSE 0)
<1> DEFINE more == [bag EXCEPT ![x] = @ + 1]
           S == {a \in Nat : a \in Ages =>
                     Upto(more, a) = Upto(bag, a) + (IF x <= a THEN 1 ELSE 0)}
<1>1. more \in [Ages -> Nat] /\ more[x] = bag[x] + 1
      /\ \A a \in Ages \ {x} : more[a] = bag[a]
  OBVIOUS
<1> HIDE DEF more
<1>2. x \in Nat /\ \A a \in Ages : bag[a] \in Nat /\ Upto(bag, a) \in Nat
  BY AgesBounds, UptoGrows
<1>3. 0 \in S
  <2>1. Upto(more, 0) = more[0] /\ Upto(bag, 0) = bag[0] /\ bag[0] \in Nat
    BY <1>1, UptoZero
  <2>2. CASE x = 0
    BY <1>1, <2>1, <2>2
  <2>3. CASE x # 0
    <3>1. ~(x <= 0) /\ more[0] = bag[0]
      BY <1>1, <1>2, <2>3, AgesBounds
    <3> QED
      BY <2>1, <3>1
  <2> QED
    BY <2>2, <2>3
<1>4. \A a \in Nat : a \in S => a + 1 \in S
  <2> SUFFICES ASSUME NEW a \in Nat, a \in S, a + 1 \in Ages
               PROVE  Upto(more, a + 1) = Upto(bag, a + 1) + (IF x <= a + 1 THEN 1 ELSE 0)
    OBVIOUS
  <2>1. a \in Ages /\ a + 1 # 0 /\ (a + 1) - 1 = a
    BY AgesBounds
  <2>2. /\ Upto(more, a + 1) = more[a + 1] + Upto(more, a)
        /\ Upto(bag, a + 1) = bag[a + 1] + Upto(bag, a)
        /\ bag[a + 1] \in Nat /\ Upto(bag, a) \in Nat
    BY <1>1, <1>2, <2>1, UptoAdds
  <2>3. Upto(more, a) = Upto(bag, a) + (IF x <= a THEN 1 ELSE 0)
    BY <2>1
  <2>4. CASE x = a + 1
    <3>1. ~(x <= a) /\ x <= a + 1 /\ more[a + 1] = bag[a + 1] + 1
      BY <1>1, <1>2, <2>4
    <3> QED
      BY <2>2, <2>3, <3>1
  <2>5. CASE x # a + 1
    <3>1. (x <= a) <=> (x <= a + 1)
      BY <1>2, <2>5
    <3>2. more[a + 1] = bag[a + 1]
      BY <1>1, <2>5
    <3> QED
      BY <2>2, <2>3, <3>1, <3>2
  <2> QED
    BY <2>4, <2>5
<1>5. Nat \subseteq S
  <2> HIDE DEF S
  <2> QED
    BY <1>3, <1>4, FromZeroOn
<1>6. \A a \in Ages : Upto(more, a) = Upto(bag, a) + (IF x <= a THEN 1 ELSE 0)
  BY <1>5, AgesBounds
<1> QED
  BY <1>6 DEF more

\* A tick later everything counts up to an age one more.
LEMMA UptoOlder ==
    ASSUME NEW bag \in [Ages -> Nat], NEW older \in [Ages -> Nat], NEW last \in Ages,
           older[0] = 0, \A a \in 1 .. last : older[a] = bag[a - 1]
    PROVE  /\ Upto(older, 0) = 0
           /\ \A a \in 1 .. last : Upto(older, a) = Upto(bag, a - 1)
<1> DEFINE S == {a \in Nat : a + 1 <= last => Upto(older, a + 1) = Upto(bag, a)}
<1>1. last \in Nat /\ \A a \in Nat : a <= last => a \in 0 .. last /\ a \in Ages
  BY AgesBounds
<1>2. Upto(older, 0) = 0
  BY UptoZero
<1>3. \A a \in Ages : bag[a] \in Nat
  OBVIOUS
<1>4. 0 \in S
  <2> SUFFICES ASSUME 1 <= last PROVE Upto(older, 1) = Upto(bag, 0)
    OBVIOUS
  <2>1. 1 \in Ages /\ 1 \in 1 .. last /\ 0 \in Ages
    BY <1>1, AgesBounds
  <2>2. older[1] = bag[0]
    BY <2>1
  <2>3. Upto(older, 0 + 1) = older[0 + 1] + Upto(older, 0) /\ Upto(bag, 0) = bag[0]
    BY <2>1, UptoNext, UptoZero
  <2> QED
    BY <1>2, <1>3, <2>1, <2>2, <2>3
<1>5. ASSUME NEW a \in Nat, a \in S
      PROVE  a + 1 \in S
  <2>1. ASSUME (a + 1) + 1 <= last
        PROVE  Upto(older, (a + 1) + 1) = Upto(bag, a + 1)
    <3>1. /\ (a + 1) + 1 \in Ages /\ a + 1 \in Ages /\ a + 1 \in Nat
          /\ (a + 1) + 1 \in 1 .. last /\ ((a + 1) + 1) - 1 = a + 1 /\ a + 1 <= last
      BY <1>1, <2>1
    <3>2. older[(a + 1) + 1] = bag[a + 1] /\ Upto(older, a + 1) = Upto(bag, a)
      BY <1>5, <3>1
    <3>3. Upto(older, (a + 1) + 1) = older[(a + 1) + 1] + Upto(older, a + 1)
      BY <3>1, UptoNext
    <3>4. Upto(bag, a + 1) = bag[a + 1] + Upto(bag, a)
      BY <3>1, UptoNext
    <3> QED
      BY <3>2, <3>3, <3>4
  <2>2. a + 1 \in Nat
    OBVIOUS
  <2> QED
    BY <2>1, <2>2
<1>6. Nat \subseteq S
  <2> HIDE DEF S
  <2> QED
    BY <1>4, <1>5, FromZeroOn
<1>7. ASSUME NEW a \in 1 .. last PROVE Upto(older, a) = Upto(bag, a - 1)
  <2>1. a - 1 \in Nat /\ (a - 1) + 1 = a /\ a <= last
    BY <1>1
  <2>2. a - 1 \in S
    BY <1>6, <2>1
  <2> QED
    BY <2>1, <2>2
<1> QED
  BY <1>2, <1>7

\* Where there is nothing the sums are 0.
LEMMA UptoNothing ==
    ASSUME NEW bag \in [Ages -> Nat], NEW last \in Ages, \A a \in 0 .. last : bag[a] = 0
    PROVE  \A a \in 0 .. last : Upto(bag, a) = 0
<1> DEFINE S == {a \in Nat : a <= last => Upto(bag, a) = 0}
<1>1. last \in Nat /\ \A a \in Nat : a <= last => a \in 0 .. last /\ a \in Ages
  BY AgesBounds
<1>2. 0 \in S
  <2>1. Upto(bag, 0) = bag[0] /\ 0 \in 0 .. last
    BY <1>1, UptoZero
  <2> QED
    BY <2>1
<1>3. ASSUME NEW a \in Nat, a \in S
      PROVE  a + 1 \in S
  <2>1. ASSUME a + 1 <= last PROVE Upto(bag, a + 1) = 0
    <3>1. a + 1 \in Ages /\ a + 1 \in 0 .. last /\ a <= last
      BY <1>1, <2>1
    <3>2. Upto(bag, a + 1) = bag[a + 1] + Upto(bag, a)
      BY <3>1, UptoNext
    <3>3. Upto(bag, a) = 0 /\ bag[a + 1] = 0
      BY <1>3, <3>1
    <3> QED
      BY <3>2, <3>3
  <2>2. a + 1 \in Nat
    OBVIOUS
  <2> QED
    BY <2>1, <2>2
<1>4. Nat \subseteq S
  <2> HIDE DEF S
  <2> QED
    BY <1>2, <1>3, FromZeroOn
<1> QED
  BY <1>1, <1>4

\* The longest age over which attempts are counted for certain.
Full == Window - Lag - 1

LimitTyped ==
    /\ attempts \in [Ages -> Nat]
    /\ granted \in [Ages -> Nat]
    /\ lifetime \in 0 .. Window
    /\ calls \in [Callers -> [op : {"none", "check", "peek"}, age : 0 .. Lag]]

\* An attempt let through at some age is in the set, with a score at most Lag older.
Remembered == \A a \in 0 .. Full : Upto(granted, a) <= Upto(attempts, a + Lag)

\* The key lives on while an attempt let through with it may have to be counted.
Alive == \A a \in 0 .. Full : granted[a] # 0 => a + lifetime >= Window

LimitInv == LimitTyped /\ Remembered /\ Alive /\ AcceptedWithinLimit

\* Ages of a script that ran within the span have scores before the end of the window.
LEMMA FullBounds ==
    /\ Full \in Nat /\ Full \in Ages /\ Full + Lag = Window - 1 /\ Oldest - 1 \in Ages
    /\ \A a \in 0 .. Full : /\ a \in Nat /\ a \in Ages /\ a + Lag \in Ages
                            /\ a + Lag < Window /\ a + Lag <= Oldest - 1
BY AgesBounds DEF Full

\* The state a process of the service finds before its first attempt.
LEMMA LimitInitial == LimitInit => LimitInv
<1> SUFFICES ASSUME LimitInit PROVE LimitInv
  OBVIOUS
<1>1. None \in [Ages -> Nat] /\ \A a \in Ages : None[a] = 0
  BY DEF None
<1>2. LimitTyped
  BY <1>1, AgesBounds DEF LimitInit, LimitTyped, Quiet
<1>3. \A a \in 0 .. Oldest : Upto(None, a) = 0
  <2>1. Oldest \in Ages /\ \A a \in 0 .. Oldest : None[a] = 0
    BY <1>1, AgesBounds
  <2> QED
    BY <1>1, <2>1, UptoNothing
<1>4. Remembered
  <2> SUFFICES ASSUME NEW a \in 0 .. Full PROVE Upto(None, a) <= Upto(None, a + Lag)
    BY DEF Remembered, LimitInit
  <2>1. a \in 0 .. Oldest /\ a + Lag \in 0 .. Oldest
    BY FullBounds, AgesBounds
  <2> QED
    BY <1>3, <2>1
<1>5. Alive
  BY <1>1, FullBounds DEF Alive, LimitInit
<1>6. AcceptedWithinLimit
  <2>1. Upto(None, Full) = 0
    BY <1>3, FullBounds, AgesBounds
  <2> QED
    BY <2>1, AgesBounds DEF AcceptedWithinLimit, LimitInit, Full
<1> QED
  BY <1>2, <1>4, <1>5, <1>6 DEF LimitInv

\* What a script trims has left the span of every attempt counted for certain.
LEMMA TrimmedKeeps ==
    ASSUME LimitTyped, NEW age \in 0 .. Lag
    PROVE  /\ Trimmed(age) \in [Ages -> Nat]
           /\ \A a \in 0 .. Full : Upto(Trimmed(age), a + Lag) = Upto(attempts, a + Lag)
<1>1. Trimmed(age) \in [Ages -> Nat]
  BY DEF Trimmed, LimitTyped
<1>2. attempts \in [Ages -> Nat]
  BY DEF LimitTyped
<1>3. Window - 1 \in Ages /\ \A a \in 0 .. Full : a + Lag \in 0 .. Window - 1
  BY AgesBounds, FullBounds
<1>4. \A a \in 0 .. Window - 1 : Trimmed(age)[a] = attempts[a]
  BY AgesBounds DEF Trimmed
<1>5. \A a \in 0 .. Window - 1 : Upto(Trimmed(age), a) = Upto(attempts, a)
  <2> DEFINE other == Trimmed(age)
  <2>1. other \in [Ages -> Nat] /\ \A a \in 0 .. Window - 1 : other[a] = attempts[a]
    BY <1>1, <1>4
  <2> HIDE DEF other
  <2>2. \A a \in 0 .. Window - 1 : Upto(other, a) = Upto(attempts, a)
    BY <1>2, <1>3, <2>1, UptoAgrees
  <2> QED
    BY <2>2 DEF other
<1> QED
  BY <1>1, <1>3, <1>5

\* The attempt is added before it is counted, so one let through is among those counted.
LEMMA CheckInductive ==
    ASSUME LimitInv, NEW c \in Callers, Check(c)
    PROVE  LimitInv'
<1> DEFINE age == calls[c].age
           kept == Trimmed(age)
           counted == [kept EXCEPT ![age] = @ + 1]
           more == [granted EXCEPT ![0] = @ + 1]
<1> USE DEF LimitInv
<1>1. age \in 0 .. Lag /\ age \in Ages /\ age \in Nat /\ 0 \in Ages
  BY AgesBounds DEF LimitTyped
<1>2. kept \in [Ages -> Nat] /\ \A a \in 0 .. Full : Upto(kept, a + Lag) = Upto(attempts, a + Lag)
  <2> HIDE DEF age
  <2> QED
    BY <1>1, TrimmedKeeps
<1>3. /\ attempts' = counted /\ lifetime' = Window
      /\ granted' = IF Upto(counted, Oldest) > Count THEN granted ELSE more
      /\ calls' = [calls EXCEPT ![c] = Quiet]
  BY DEF Check
<1>4. granted \in [Ages -> Nat] /\ attempts \in [Ages -> Nat]
  BY DEF LimitTyped
<1>5. counted \in [Ages -> Nat] /\ more \in [Ages -> Nat]
  <2> HIDE DEF age, kept
  <2> QED
    BY <1>1, <1>2, <1>4
<1>6. LimitTyped'
  <2>1. granted' \in [Ages -> Nat] /\ attempts' \in [Ages -> Nat]
    BY <1>3, <1>4, <1>5
  <2>2. lifetime' \in 0 .. Window
    BY <1>3, AgesBounds
  <2>3. calls' \in [Callers -> [op : {"none", "check", "peek"}, age : 0 .. Lag]]
    BY <1>3, AgesBounds DEF LimitTyped, Quiet
  <2> QED
    BY <2>1, <2>2, <2>3 DEF LimitTyped
<1>7. \A a \in 0 .. Full : Upto(counted, a + Lag) = Upto(attempts, a + Lag) + 1
  <2> HIDE DEF age, kept
  <2>1. \A a \in Ages : Upto(counted, a) = Upto(kept, a) + (IF age <= a THEN 1 ELSE 0)
    BY <1>1, <1>2, UptoOneMore
  <2> HIDE DEF counted
  <2> SUFFICES ASSUME NEW a \in 0 .. Full
               PROVE  Upto(counted, a + Lag) = Upto(attempts, a + Lag) + 1
    OBVIOUS
  <2>2. a + Lag \in Ages /\ age <= a + Lag
    BY <1>1, FullBounds, AgesBounds
  <2> QED
    BY <1>2, <2>1, <2>2
<1>8. \A a \in Ages : Upto(more, a) = Upto(granted, a) + 1
  <2>1. \A a \in Ages : Upto(more, a) = Upto(granted, a) + (IF 0 <= a THEN 1 ELSE 0)
    BY <1>1, <1>4, UptoOneMore
  <2> HIDE DEF more
  <2> QED
    BY <2>1, AgesBounds
<1> HIDE DEF age, kept, counted, more
<1>9. \A a \in 0 .. Full : /\ Upto(granted, a) \in Nat /\ Upto(attempts, a + Lag) \in Nat
                           /\ Upto(granted, a) <= Upto(attempts, a + Lag) /\ a \in Ages
  BY <1>4, FullBounds, UptoGrows DEF Remembered
<1>10. \A a \in 0 .. Full : Upto(granted', a) <= Upto(counted, a + Lag)
  BY <1>3, <1>7, <1>8, <1>9
<1>11. Remembered'
  BY <1>3, <1>10 DEF Remembered
<1>12. Alive'
  <2> SUFFICES \A a \in 0 .. Full : a + Window >= Window
    BY <1>3 DEF Alive
  <2> QED
    BY FullBounds, AgesBounds
<1>13. AcceptedWithinLimit'
  <2>1. CASE Upto(counted, Oldest) > Count
    BY <1>3, <2>1 DEF AcceptedWithinLimit
  <2>2. CASE ~ (Upto(counted, Oldest) > Count)
    <3>1. Upto(granted', Full) <= Upto(counted, Full + Lag)
      BY <1>10, FullBounds
    <3>2. Full + Lag \in 0 .. Oldest /\ Oldest \in Ages /\ Full \in Ages
      BY FullBounds, AgesBounds
    <3>3. /\ Upto(counted, Full + Lag) <= Upto(counted, Oldest)
          /\ Upto(counted, Full + Lag) \in Nat /\ Upto(counted, Oldest) \in Nat
      BY <1>5, <3>2, UptoGrows
    <3>4. Upto(granted', Full) \in Nat
      BY <1>3, <1>4, <1>5, <3>2, UptoGrows
    <3>5. Upto(granted', Full) <= Count
      BY <2>2, <3>1, <3>3, <3>4, AgesBounds
    <3> QED
      BY <3>5 DEF AcceptedWithinLimit, Full
  <2> QED
    BY <2>1, <2>2
<1> QED
  BY <1>6, <1>11, <1>12, <1>13

\* A window found empty has nothing left to count, so its key may vanish.
LEMMA PeekInductive ==
    ASSUME LimitInv, NEW c \in Callers, Peek(c)
    PROVE  LimitInv'
<1> DEFINE age == calls[c].age
<1> USE DEF LimitInv
<1>1. age \in 0 .. Lag
  BY DEF LimitTyped
<1>2. /\ Trimmed(age) \in [Ages -> Nat]
      /\ \A a \in 0 .. Full : Upto(Trimmed(age), a + Lag) = Upto(attempts, a + Lag)
  <2> HIDE DEF age
  <2> QED
    BY <1>1, TrimmedKeeps
<1>3. /\ attempts' = Trimmed(age) /\ granted' = granted
      /\ lifetime' = IF attempts' = None THEN 0 ELSE lifetime
      /\ calls' = [calls EXCEPT ![c] = Quiet]
  BY DEF Peek
<1>4. granted \in [Ages -> Nat] /\ attempts \in [Ages -> Nat]
  BY DEF LimitTyped
<1> HIDE DEF age
<1>5. LimitTyped'
  <2>1. granted' \in [Ages -> Nat] /\ attempts' \in [Ages -> Nat]
    BY <1>2, <1>3, <1>4
  <2>2. lifetime' \in 0 .. Window
    BY <1>3, AgesBounds DEF LimitTyped
  <2>3. calls' \in [Callers -> [op : {"none", "check", "peek"}, age : 0 .. Lag]]
    BY <1>3, AgesBounds DEF LimitTyped, Quiet
  <2> QED
    BY <2>1, <2>2, <2>3 DEF LimitTyped
<1>6. \A a \in 0 .. Full : Upto(granted', a) <= Upto(attempts', a + Lag)
  BY <1>2, <1>3 DEF Remembered
<1>7. Alive'
  <2>1. CASE attempts' = None
    <3>1. None \in [Ages -> Nat] /\ Oldest \in Ages /\ \A a \in 0 .. Oldest : None[a] = 0
      BY AgesBounds DEF None
    <3>2. \A a \in 0 .. Oldest : Upto(None, a) = 0
      BY <3>1, UptoNothing
    <3>3. ASSUME NEW a \in 0 .. Full PROVE granted[a] = 0
      <4>1. a \in Ages /\ a \in Nat /\ a \in 0 .. a /\ a + Lag \in 0 .. Oldest
        BY FullBounds, AgesBounds
      <4>2. Upto(granted, a) <= 0
        BY <1>3, <1>6, <2>1, <3>2, <4>1
      <4>3. granted[a] <= Upto(granted, a) /\ Upto(granted, a) \in Nat /\ granted[a] \in Nat
        BY <1>4, <4>1, UptoGrows
      <4> QED
        BY <4>2, <4>3
    <3> QED
      BY <1>3, <3>3 DEF Alive
  <2>2. CASE attempts' # None
    BY <1>3, <2>2 DEF Alive
  <2> QED
    BY <2>1, <2>2
<1>8. AcceptedWithinLimit'
  BY <1>3 DEF AcceptedWithinLimit
<1> QED
  BY <1>5, <1>6, <1>7, <1>8 DEF Remembered

\* A tick later an attempt let through is as much older as its score, and the key
\* expires only when nothing is left to count.
LEMMA TickInductive ==
    ASSUME LimitInv, LimitTick
    PROVE  LimitInv'
<1> DEFINE left == Older(attempts)
           span == Forgotten(Older(granted))
<1> USE DEF LimitInv
<1>1. granted \in [Ages -> Nat] /\ attempts \in [Ages -> Nat] /\ lifetime \in 0 .. Window
  BY DEF LimitTyped
<1>2. /\ attempts' = IF lifetime <= 1 THEN None ELSE left
      /\ lifetime' = IF lifetime = 0 THEN 0 ELSE lifetime - 1
      /\ granted' = span
      /\ calls' = [c \in Callers |->
             IF calls[c] = Quiet THEN Quiet ELSE [calls[c] EXCEPT !.age = @ + 1]]
      /\ \A c \in Callers : calls[c] # Quiet => calls[c].age < Lag
  BY DEF LimitTick
<1>3. \A bag \in [Ages -> Nat] :
          /\ Older(bag) \in [Ages -> Nat] /\ Older(bag)[0] = 0
          /\ \A a \in 1 .. Oldest - 1 : Older(bag)[a] = bag[a - 1]
  <2> SUFFICES ASSUME NEW bag \in [Ages -> Nat]
               PROVE  /\ Older(bag) \in [Ages -> Nat] /\ Older(bag)[0] = 0
                      /\ \A a \in 1 .. Oldest - 1 : Older(bag)[a] = bag[a - 1]
    OBVIOUS
  <2>1. 0 \in Ages /\ Oldest >= 1 /\ Oldest \in Nat /\ Ages = 0 .. Oldest
    BY AgesBounds
  <2>2. ASSUME NEW a \in Ages
        PROVE  (CASE a = 0 -> 0
                  [] a = Oldest -> bag[a] + bag[a - 1]
                  [] OTHER -> bag[a - 1]) \in Nat
    <3>1. CASE a = 0
      BY <3>1, <2>1
    <3>2. CASE a # 0 /\ a = Oldest
      <4>1. a - 1 \in Ages /\ bag[a] \in Nat /\ bag[a - 1] \in Nat
        BY <2>1, <3>2
      <4> QED
        BY <3>2, <4>1
    <3>3. CASE a # 0 /\ a # Oldest
      <4>1. a - 1 \in Ages /\ bag[a - 1] \in Nat
        BY <2>1, <3>3
      <4> QED
        BY <3>3, <4>1
    <3> QED
      BY <3>1, <3>2, <3>3
  <2>3. Older(bag) \in [Ages -> Nat]
    BY <2>2 DEF Older
  <2>4. Older(bag)[0] = 0
    BY <2>1 DEF Older
  <2>5. ASSUME NEW a \in 1 .. Oldest - 1 PROVE Older(bag)[a] = bag[a - 1]
    <3>1. a \in Ages /\ a # 0 /\ a # Oldest
      BY <2>1
    <3> QED
      BY <3>1 DEF Older
  <2> QED
    BY <2>3, <2>4, <2>5
<1>4. None \in [Ages -> Nat] /\ \A a \in Ages : None[a] = 0
  BY DEF None
<1>5. left \in [Ages -> Nat] /\ left[0] = 0 /\ \A a \in 1 .. Oldest - 1 : left[a] = attempts[a - 1]
  BY <1>1, <1>3
<1>6. span \in [Ages -> Nat] /\ span[0] = 0 /\ \A a \in 1 .. Oldest - 1 : span[a] = granted[a - 1]
  BY <1>1, <1>3, AgesBounds DEF Forgotten
<1> HIDE DEF left, span
<1>7. LimitTyped'
  <2>1. granted' \in [Ages -> Nat] /\ attempts' \in [Ages -> Nat]
    BY <1>2, <1>4, <1>5, <1>6
  <2>2. lifetime' \in 0 .. Window
    BY <1>1, <1>2, AgesBounds
  <2>3. ASSUME NEW c \in Callers
        PROVE  (IF calls[c] = Quiet THEN Quiet ELSE [calls[c] EXCEPT !.age = @ + 1])
                   \in [op : {"none", "check", "peek"}, age : 0 .. Lag]
    <3>1. Quiet \in [op : {"none", "check", "peek"}, age : 0 .. Lag]
      BY AgesBounds DEF Quiet
    <3>2. CASE calls[c] = Quiet
      BY <3>1, <3>2
    <3>3. CASE calls[c] # Quiet
      <4>1. PICK call \in [op : {"none", "check", "peek"}, age : 0 .. Lag] : call = calls[c]
        BY DEF LimitTyped
      <4>2. call.age < Lag
        BY <1>2, <3>3, <4>1
      <4>3. call.age + 1 \in 0 .. Lag
        BY <4>2, AgesBounds
      <4>4. [call EXCEPT !.age = @ + 1] \in [op : {"none", "check", "peek"}, age : 0 .. Lag]
        BY <4>3
      <4> QED
        BY <3>3, <4>1, <4>4
    <3> QED
      BY <3>2, <3>3
  <2>4. calls' \in [Callers -> [op : {"none", "check", "peek"}, age : 0 .. Lag]]
    BY <1>2, <2>3
  <2> QED
    BY <2>1, <2>2, <2>4 DEF LimitTyped
<1>8. Upto(span, 0) = 0 /\ \A a \in 1 .. Oldest - 1 : Upto(span, a) = Upto(granted, a - 1)
  BY <1>1, <1>6, FullBounds, UptoOlder
<1>9. Upto(left, 0) = 0 /\ \A a \in 1 .. Oldest - 1 : Upto(left, a) = Upto(attempts, a - 1)
  BY <1>1, <1>5, FullBounds, UptoOlder
<1>10. \A a \in 1 .. Full : /\ a - 1 \in 0 .. Full /\ a \in 1 .. Oldest - 1
                            /\ a + Lag \in 1 .. Oldest - 1 /\ (a + Lag) - 1 = (a - 1) + Lag
  BY FullBounds, AgesBounds
<1>11. CASE lifetime <= 1
  <2>1. \A a \in 0 .. Full : span[a] = 0
    <3> SUFFICES ASSUME NEW a \in 1 .. Full PROVE granted[a - 1] = 0
      BY <1>6, <1>10, FullBounds
    <3>1. a - 1 \in 0 .. Full /\ (a - 1) + lifetime < Window
      BY <1>1, <1>10, <1>11, FullBounds, AgesBounds
    <3> QED
      BY <1>1, <3>1, AgesBounds DEF Alive
  <2>2. \A a \in 0 .. Full : Upto(span, a) = 0
    BY <1>6, <2>1, FullBounds, UptoNothing
  <2>3. \A a \in 0 .. Full : Upto(attempts', a + Lag) \in Nat
    <3>1. attempts' \in [Ages -> Nat]
      BY <1>7 DEF LimitTyped
    <3> QED
      BY <3>1, FullBounds, UptoGrows
  <2>4. Remembered'
    BY <1>2, <2>2, <2>3 DEF Remembered
  <2>5. Alive'
    BY <1>2, <2>1 DEF Alive
  <2>6. Upto(granted', Full) <= Count
    BY <1>2, <2>2, FullBounds, AgesBounds
  <2> QED
    BY <1>7, <2>4, <2>5, <2>6 DEF AcceptedWithinLimit, Full
<1>12. CASE ~ (lifetime <= 1)
  <2>1. attempts' = left /\ lifetime' = lifetime - 1
    BY <1>1, <1>2, <1>12
  <2>2. ASSUME NEW a \in 0 .. Full PROVE Upto(span, a) <= Upto(left, a + Lag)
    <3>1. CASE a = 0
      <4>1. Upto(left, a + Lag) \in Nat
        BY <1>5, FullBounds, UptoGrows
      <4> QED
        BY <1>8, <3>1, <4>1
    <3>2. CASE a # 0
      <4>1. a \in 1 .. Full
        BY <3>2, FullBounds
      <4>2. Upto(span, a) = Upto(granted, a - 1)
        BY <1>8, <1>10, <4>1
      <4>3. Upto(left, a + Lag) = Upto(attempts, (a - 1) + Lag)
        BY <1>9, <1>10, <4>1
      <4> QED
        BY <1>10, <4>1, <4>2, <4>3 DEF Remembered
    <3> QED
      BY <3>1, <3>2
  <2>3. Remembered'
    BY <1>2, <2>1, <2>2 DEF Remembered
  <2>4. Alive'
    <3> SUFFICES ASSUME NEW a \in 0 .. Full, span[a] # 0 PROVE a + (lifetime - 1) >= Window
      BY <1>2, <2>1 DEF Alive
    <3>1. a \in 1 .. Full
      BY <1>6, FullBounds
    <3>2. granted[a - 1] # 0 /\ a - 1 \in 0 .. Full
      BY <1>6, <1>10, <3>1
    <3>3. (a - 1) + lifetime >= Window
      BY <3>2 DEF Alive
    <3> QED
      BY <1>1, <3>1, <3>3, FullBounds, AgesBounds
  <2>5. Upto(span, Full) <= Count
    <3>1. CASE Full = 0
      BY <1>8, <3>1, AgesBounds
    <3>2. CASE Full # 0
      <4>1. Full \in 1 .. Full /\ Full - 1 \in 0 .. Full
        BY <3>2, FullBounds
      <4>2. Upto(span, Full) = Upto(granted, Full - 1)
        BY <1>8, <1>10, <4>1
      <4>3. Upto(granted, Full - 1) <= Upto(granted, Full)
            /\ Upto(granted, Full - 1) \in Nat /\ Upto(granted, Full) \in Nat
        BY <1>1, <4>1, FullBounds, UptoGrows
      <4>4. Upto(granted, Full) <= Count
        BY DEF AcceptedWithinLimit, Full
      <4> QED
        BY <4>2, <4>3, <4>4, AgesBounds
    <3> QED
      BY <3>1, <3>2
  <2>6. AcceptedWithinLimit'
    BY <1>2, <2>5 DEF AcceptedWithinLimit, Full
  <2> QED
    BY <1>7, <2>3, <2>4, <2>6
<1> QED
  BY <1>11, <1>12

\* Every step of the counter keeps the invariant.
LEMMA LimitInductive == LimitInv /\ [LimitNext]_limitVars => LimitInv'
<1> SUFFICES ASSUME LimitInv, [LimitNext]_limitVars PROVE LimitInv'
  OBVIOUS
<1> USE DEF LimitInv
<1>1. CASE UNCHANGED limitVars
  BY <1>1 DEF limitVars, LimitTyped, Remembered, Alive, AcceptedWithinLimit
<1>2. ASSUME NEW c \in Callers, NEW op \in {"check", "peek"}, ReadClock(c, op)
      PROVE  LimitInv'
  <2>1. calls' \in [Callers -> [op : {"none", "check", "peek"}, age : 0 .. Lag]]
    BY <1>2, AgesBounds DEF ReadClock, LimitTyped
  <2> QED
    BY <1>2, <2>1 DEF ReadClock, LimitTyped, Remembered, Alive, AcceptedWithinLimit
<1>3. ASSUME NEW c \in Callers, Check(c)
      PROVE  LimitInv'
  BY <1>3, CheckInductive
<1>4. ASSUME NEW c \in Callers, Peek(c)
      PROVE  LimitInv'
  BY <1>4, PeekInductive
<1>5. ASSUME NEW c \in Callers, Unavailable(c)
      PROVE  LimitInv'
  <2>1. calls' \in [Callers -> [op : {"none", "check", "peek"}, age : 0 .. Lag]]
    BY <1>5, AgesBounds DEF Unavailable, LimitTyped, Quiet
  <2> QED
    BY <1>5, <2>1 DEF Unavailable, LimitTyped, Remembered, Alive, AcceptedWithinLimit
<1>6. CASE Reset
  <2>1. None \in [Ages -> Nat] /\ \A a \in Ages : None[a] = 0
    BY DEF None
  <2>2. \A a \in 0 .. Oldest : Upto(None, a) = 0
    <3>1. Oldest \in Ages /\ \A a \in 0 .. Oldest : None[a] = 0
      BY <2>1, AgesBounds
    <3> QED
      BY <2>1, <3>1, UptoNothing
  <2>3. attempts' = None /\ granted' = None /\ lifetime' = 0 /\ calls' = calls
    BY <1>6 DEF Reset
  <2>4. LimitTyped'
    BY <2>1, <2>3, AgesBounds DEF LimitTyped
  <2>5. \A a \in 0 .. Full : a \in 0 .. Oldest /\ a + Lag \in 0 .. Oldest
    BY FullBounds, AgesBounds
  <2>6. Remembered'
    BY <2>2, <2>3, <2>5 DEF Remembered
  <2>7. Alive'
    BY <2>1, <2>3, FullBounds DEF Alive
  <2>8. Upto(granted', Full) <= Count
    BY <2>2, <2>3, <2>5, FullBounds, AgesBounds
  <2> QED
    BY <2>4, <2>6, <2>7, <2>8 DEF AcceptedWithinLimit, Full
<1>7. CASE LimitTick
  BY <1>7, TickInductive
<1> QED
  BY <1>1, <1>2, <1>3, <1>4, <1>5, <1>6, <1>7 DEF LimitNext

\* Whatever order the scripts of the callers run in, no more than Count attempts are let
\* through within a window shorter by the lag of a reading than the one asked for:
\* AcceptedWithinLimit, for ratelimit.py's check, peek, retry_after and reset.
THEOREM LimitHolds == LimitSpec => []AcceptedWithinLimit
<1>1. LimitInv => AcceptedWithinLimit
  BY DEF LimitInv
<1> QED
  BY <1>1, LimitInitial, LimitInductive, PTL DEF LimitSpec

---------------------------------------------------------------------------
(* BodyShape, for any table of types and any models in it.                 *)

\* The element that a sum takes out of a set next.
Taken(s) == CHOOSE x \in s : TRUE

\* What is taken out of a set was in it, and one element fewer is left.
LEMMA OneTaken ==
    ASSUME NEW s, IsFiniteSet(s), s # {}
    PROVE  /\ Taken(s) \in s
           /\ Cardinality(s) \in Nat
           /\ Cardinality(s \ {Taken(s)}) \in Nat
           /\ Cardinality(s) = Cardinality(s \ {Taken(s)}) + 1
<1>1. Taken(s) \in s
  BY DEF Taken
<1>2. Cardinality(s) \in Nat /\ IsFiniteSet(s \ {Taken(s)})
  BY FS_CardinalityType, FS_RemoveElement
<1>3. Cardinality(s \ {Taken(s)}) \in Nat
  BY <1>2, FS_CardinalityType
<1>4. Cardinality(s \ {Taken(s)}) = Cardinality(s) - 1
  BY <1>1, FS_RemoveElement
<1> QED
  BY <1>1, <1>2, <1>3, <1>4

\* What has the empty set, and each set that it has without the element taken next, has
\* every subset of a finite set.
LEMMA BySubsets ==
    ASSUME NEW M, IsFiniteSet(M), NEW G, {} \in G,
           \A s \in SUBSET M : s # {} /\ s \ {Taken(s)} \in G => s \in G
    PROVE  SUBSET M \subseteq G
<1> DEFINE Small == {k \in Nat : \A s \in SUBSET M : Cardinality(s) = k => s \in G}
<1>1. \A s \in SUBSET M : IsFiniteSet(s) /\ Cardinality(s) \in Nat
  BY FS_Subset, FS_CardinalityType
<1>2. 0 \in Small
  <2>1. \A s \in SUBSET M : Cardinality(s) = 0 => s = {}
    BY <1>1, FS_EmptySet
  <2> QED
    BY <2>1
<1>3. ASSUME NEW k \in Nat, k \in Small PROVE k + 1 \in Small
  <2>1. ASSUME NEW s \in SUBSET M, Cardinality(s) = k + 1 PROVE s \in G
    <3>1. s # {}
      BY <2>1, FS_EmptySet
    <3>2. Cardinality(s \ {Taken(s)}) \in Nat /\ k + 1 = Cardinality(s \ {Taken(s)}) + 1
      BY <1>1, <2>1, <3>1, OneTaken
    <3>3. Cardinality(s \ {Taken(s)}) = k /\ s \ {Taken(s)} \in SUBSET M
      BY <3>2
    <3>4. s \ {Taken(s)} \in G
      BY <1>3, <3>3
    <3> QED
      BY <3>1, <3>4
  <2> QED
    BY <2>1
<1>4. Nat \subseteq Small
  <2> HIDE DEF Small
  <2> QED
    BY <1>2, <1>3, FromZeroOn
<1> QED
  BY <1>1, <1>4

\* The greatest of a finite set of naturals.
LEMMA Greatest ==
    ASSUME NEW S \in SUBSET Nat, IsFiniteSet(S), S # {}
    PROVE  Max(S) \in S /\ \A x \in S : Max(S) >= x
<1> DEFINE Topped == {s \in SUBSET S : s # {} => \E x \in s : \A y \in s : x >= y}
<1>1. {} \in Topped
  OBVIOUS
<1>2. ASSUME NEW s \in SUBSET S, s # {}, s \ {Taken(s)} \in Topped PROVE s \in Topped
  <2>1. Taken(s) \in s /\ Taken(s) \in Nat
    BY <1>2 DEF Taken
  <2>2. CASE s \ {Taken(s)} = {}
    <3>1. s = {Taken(s)}
      BY <2>1, <2>2
    <3> QED
      BY <2>1, <3>1
  <2>3. CASE s \ {Taken(s)} # {}
    <3>1. PICK x \in s \ {Taken(s)} : \A y \in s \ {Taken(s)} : x >= y
      BY <1>2, <2>3
    <3>2. CASE x >= Taken(s)
      BY <3>1, <3>2
    <3>3. CASE ~(x >= Taken(s))
      <4>1. \A y \in s : Taken(s) >= y
        <5>1. \A y \in s \ {Taken(s)} : y \in Nat /\ Taken(s) >= y
          BY <2>1, <3>1, <3>3
        <5> QED
          BY <2>1, <5>1
      <4> QED
        BY <2>1, <4>1
    <3> QED
      BY <3>2, <3>3
  <2> QED
    BY <2>2, <2>3
<1>3. SUBSET S \subseteq Topped
  <2> HIDE DEF Topped
  <2> QED
    BY <1>1, <1>2, BySubsets
<1>4. \E x \in S : \A y \in S : x >= y
  BY <1>3
<1> QED
  BY <1>4 DEF Max

\* The sum of a function over a finite domain is added up by one that does it for every
\* subset of the domain.
LEMMA SumDefined ==
    ASSUME NEW f, IsFiniteSet(DOMAIN f)
    PROVE  \E F : /\ F[{}] = 0
                  /\ \A s \in SUBSET DOMAIN f :
                         s # {} => F[s] = f[Taken(s)] + F[s \ {Taken(s)}]
                  /\ SumOf(f) = F[DOMAIN f]
<1> DEFINE M == DOMAIN f
           D(k) == {s \in SUBSET M : Cardinality(s) <= k}
           Added(F, s) == IF s = {} THEN 0 ELSE f[Taken(s)] + F[s \ {Taken(s)}]
           Reached == {k \in Nat : \E F : F = [s \in D(k) |-> Added(F, s)]}
<1>1. \A s \in SUBSET M : IsFiniteSet(s) /\ Cardinality(s) \in Nat
  BY FS_Subset, FS_CardinalityType
<1>2. \A s \in SUBSET M : s # {} =>
          /\ Cardinality(s \ {Taken(s)}) \in Nat
          /\ Cardinality(s) = Cardinality(s \ {Taken(s)}) + 1
          /\ s \ {Taken(s)} \in SUBSET M
  BY <1>1, OneTaken
<1>3. 0 \in Reached
  <2> DEFINE F0 == [s \in D(0) |-> 0]
  <2>1. \A s \in D(0) : s = {}
    <3> SUFFICES ASSUME NEW s \in D(0), s # {} PROVE FALSE
      OBVIOUS
    <3>1. s \in SUBSET M /\ Cardinality(s) <= 0
      OBVIOUS
    <3>2. /\ Cardinality(s \ {Taken(s)}) \in Nat
          /\ Cardinality(s) = Cardinality(s \ {Taken(s)}) + 1
      BY <1>2, <3>1
    <3> QED
      BY <3>1, <3>2
  <2>2. F0 = [s \in D(0) |-> Added(F0, s)]
    BY <2>1
  <2> QED
    BY <2>2
<1>4. ASSUME NEW k \in Nat, k \in Reached PROVE k + 1 \in Reached
  <2>1. PICK F : F = [s \in D(k) |-> Added(F, s)]
    BY <1>4
  <2> DEFINE H == [s \in D(k + 1) |-> Added(F, s)]
  <2>2. ASSUME NEW s \in D(k + 1), s # {}
        PROVE  s \ {Taken(s)} \in D(k) /\ s \ {Taken(s)} \in D(k + 1)
    BY <1>1, <1>2, <2>2
  <2>3. \A s \in D(k) : F[s] = Added(F, s)
    BY <2>1
  <2>4. \A s \in D(k) : s \in D(k + 1) => H[s] = F[s]
    BY <2>3
  <2>5. \A s \in D(k + 1) : s # {} => H[s \ {Taken(s)}] = F[s \ {Taken(s)}]
    BY <2>2, <2>4
  <2>6. H = [s \in D(k + 1) |-> Added(H, s)]
    <3> HIDE DEF D
    <3> QED
      BY <2>5
  <2>7. k + 1 \in Nat
    OBVIOUS
  <2> HIDE DEF H, D, Added
  <2> QED
    BY <2>6, <2>7
<1>5. Cardinality(M) \in Reached
  <2> HIDE DEF Reached
  <2>1. Cardinality(M) \in Nat
    BY <1>1
  <2> QED
    BY <1>3, <1>4, <2>1, FromZeroOn
<1>6. D(Cardinality(M)) = SUBSET M
  BY <1>1, FS_Subset
<1>7. \E F : F = [s \in SUBSET M |-> Added(F, s)]
  <2> HIDE DEF D, Added
  <2> QED
    BY <1>5, <1>6
<1> DEFINE A == CHOOSE F : F = [s \in SUBSET M |-> IF s = {} THEN 0
                    ELSE f[CHOOSE x \in s : TRUE] + F[s \ {CHOOSE x \in s : TRUE}]]
<1>8. SumOf(f) = A[M]
  BY DEF SumOf, MapThenSumSet, MapThenFoldSet
<1>9. A = [s \in SUBSET M |-> Added(A, s)]
  <2>1. A = [s \in SUBSET M |-> IF s = {} THEN 0
                ELSE f[CHOOSE x \in s : TRUE] + A[s \ {CHOOSE x \in s : TRUE}]]
    BY <1>7 DEF Taken
  <2> HIDE DEF A
  <2> QED
    BY <2>1 DEF Taken
<1> HIDE DEF A
<1>10. A[{}] = 0 /\ \A s \in SUBSET M : s # {} => A[s] = f[Taken(s)] + A[s \ {Taken(s)}]
  BY <1>9
<1> QED
  BY <1>8, <1>10

\* A sum of naturals is a natural, and no greater than the sum of greater ones.
LEMMA SumGrows ==
    ASSUME NEW D, IsFiniteSet(D), NEW f \in [D -> Nat], NEW g \in [D -> Nat],
           \A i \in D : f[i] <= g[i]
    PROVE  SumOf(f) \in Nat /\ SumOf(g) \in Nat /\ SumOf(f) <= SumOf(g)
<1>1. DOMAIN f = D /\ DOMAIN g = D
  OBVIOUS
<1>2. PICK F : /\ F[{}] = 0
               /\ \A s \in SUBSET D : s # {} => F[s] = f[Taken(s)] + F[s \ {Taken(s)}]
               /\ SumOf(f) = F[D]
  BY <1>1, SumDefined
<1>3. PICK G : /\ G[{}] = 0
               /\ \A s \in SUBSET D : s # {} => G[s] = g[Taken(s)] + G[s \ {Taken(s)}]
               /\ SumOf(g) = G[D]
  BY <1>1, SumDefined
<1> DEFINE Less == {s \in SUBSET D : F[s] \in Nat /\ G[s] \in Nat /\ F[s] <= G[s]}
<1>4. {} \in Less
  BY <1>2, <1>3
<1>5. ASSUME NEW s \in SUBSET D, s # {}, s \ {Taken(s)} \in Less PROVE s \in Less
  <2>1. Taken(s) \in D
    BY <1>5 DEF Taken
  <2>2. f[Taken(s)] \in Nat /\ g[Taken(s)] \in Nat /\ f[Taken(s)] <= g[Taken(s)]
    BY <2>1
  <2>3. F[s] = f[Taken(s)] + F[s \ {Taken(s)}] /\ G[s] = g[Taken(s)] + G[s \ {Taken(s)}]
    BY <1>2, <1>3, <1>5
  <2> QED
    BY <1>5, <2>2, <2>3
<1>6. D \in Less
  <2> HIDE DEF Less
  <2> QED
    BY <1>4, <1>5, BySubsets
<1> QED
  BY <1>2, <1>3, <1>6

\* A sum of naturals that are at most c is at most c times their number.
LEMMA SumBounded ==
    ASSUME NEW D, IsFiniteSet(D), NEW f \in [D -> Nat], NEW c \in Nat,
           \A i \in D : f[i] <= c
    PROVE  SumOf(f) \in Nat /\ SumOf(f) <= Cardinality(D) * c
<1>1. DOMAIN f = D
  OBVIOUS
<1>2. PICK F : /\ F[{}] = 0
               /\ \A s \in SUBSET D : s # {} => F[s] = f[Taken(s)] + F[s \ {Taken(s)}]
               /\ SumOf(f) = F[D]
  BY <1>1, SumDefined
<1> DEFINE Less == {s \in SUBSET D : F[s] \in Nat /\ F[s] <= Cardinality(s) * c}
<1>3. {} \in Less
  <2>1. Cardinality({}) = 0
    BY FS_EmptySet
  <2> QED
    BY <1>2, <2>1
<1>4. ASSUME NEW s \in SUBSET D, s # {}, s \ {Taken(s)} \in Less PROVE s \in Less
  <2>1. Taken(s) \in D
    BY <1>4 DEF Taken
  <2>2. f[Taken(s)] \in Nat /\ f[Taken(s)] <= c
    BY <2>1
  <2>3. F[s] = f[Taken(s)] + F[s \ {Taken(s)}]
    BY <1>2, <1>4
  <2>4. IsFiniteSet(s)
    BY FS_Subset
  <2> DEFINE k == Cardinality(s \ {Taken(s)})
  <2>5. k \in Nat /\ Cardinality(s) = k + 1
    BY <1>4, <2>4, OneTaken
  <2>6. F[s \ {Taken(s)}] \in Nat /\ F[s \ {Taken(s)}] <= k * c
    BY <1>4
  <2> HIDE DEF k
  <2>7. (k + 1) * c = k * c + c /\ k * c \in Nat
    BY <2>5
  <2>8. F[s] \in Nat /\ F[s] <= (k + 1) * c
    BY <2>2, <2>3, <2>6, <2>7
  <2> QED
    BY <2>5, <2>8
<1>5. D \in Less
  <2> HIDE DEF Less
  <2> QED
    BY <1>3, <1>4, BySubsets
<1> QED
  BY <1>2, <1>5

\* How many digits a number has: a smaller one has no more.
LEMMA DigitsGrow ==
    ASSUME NEW m \in Nat, NEW n \in Nat, m <= n
    PROVE  DigitsOf(m) \in Nat /\ DigitsOf(n) \in Nat /\ DigitsOf(m) <= DigitsOf(n)
<1> DEFINE Counted(d, k) == [j \in 0 .. k |-> IF j < 10 THEN 1 ELSE 1 + d[j \div 10]]
<1>1. \A j \in Nat : j >= 10 => j \div 10 \in Nat /\ j \div 10 < j
  OBVIOUS
<1>2. ASSUME NEW b \in Nat
      PROVE  \E d : d = Counted(d, b) /\ DigitsOf(b) = d[b]
  <2> DEFINE Reached == {k \in Nat : \E d : d = Counted(d, k)}
  <2>1. 0 \in Reached
    <3> DEFINE d0 == [j \in 0 .. 0 |-> 1]
    <3>1. d0 = Counted(d0, 0)
      OBVIOUS
    <3> QED
      BY <3>1
  <2>2. ASSUME NEW k \in Nat, k \in Reached PROVE k + 1 \in Reached
    <3>1. PICK d : d = Counted(d, k)
      BY <2>2
    <3> DEFINE e == [j \in 0 .. k + 1 |-> IF j < 10 THEN 1 ELSE 1 + d[j \div 10]]
    <3>2. \A j \in 0 .. k : e[j] = d[j]
      BY <3>1
    <3>3. \A j \in 0 .. k + 1 : j >= 10 => j \div 10 \in 0 .. k
      BY <1>1
    <3>4. \A j \in 0 .. k + 1 : j >= 10 => e[j \div 10] = d[j \div 10]
      BY <3>2, <3>3
    <3>5. e = Counted(e, k + 1)
      <4>1. ASSUME NEW j \in 0 .. k + 1
            PROVE  (IF j < 10 THEN 1 ELSE 1 + d[j \div 10])
                   = (IF j < 10 THEN 1 ELSE 1 + e[j \div 10])
        <5>1. j < 10 \/ j >= 10
          OBVIOUS
        <5> HIDE DEF e
        <5> QED
          BY <3>4, <5>1
      <4> QED
        BY <4>1
    <3>6. k + 1 \in Nat
      OBVIOUS
    <3> HIDE DEF e, Counted
    <3> QED
      BY <3>5, <3>6
  <2>3. PICK d : d = Counted(d, b)
    <3> HIDE DEF Reached
    <3>1. b \in Reached
      BY <2>1, <2>2, FromZeroOn
    <3> QED
      BY <3>1 DEF Reached
  <2> DEFINE C == CHOOSE c : c = Counted(c, b)
  <2>4. DigitsOf(b) = C[b]
    BY DEF DigitsOf
  <2>5. C = Counted(C, b)
    BY <2>3
  <2> QED
    BY <2>4, <2>5
<1>3. PICK d : d = Counted(d, m) /\ DigitsOf(m) = d[m]
  BY <1>2
<1>4. PICK e : e = Counted(e, n) /\ DigitsOf(n) = e[n]
  BY <1>2
<1>5. \A j \in 0 .. m : d[j] = IF j < 10 THEN 1 ELSE 1 + d[j \div 10]
  BY <1>3
<1>6. \A j \in 0 .. n : e[j] = IF j < 10 THEN 1 ELSE 1 + e[j \div 10]
  BY <1>4
<1> DEFINE Right == {k \in Nat : \A a \in 0 .. m, b \in 0 .. n : a <= b /\ b <= k =>
                         d[a] \in Nat /\ e[b] \in Nat /\ 1 <= d[a] /\ d[a] <= e[b]}
<1>7. 0 \in Right
  BY <1>5, <1>6
<1>8. ASSUME NEW k \in Nat, k \in Right PROVE k + 1 \in Right
  <2>1. ASSUME NEW a \in 0 .. m, NEW b \in 0 .. n, a <= b, b <= k + 1
        PROVE  d[a] \in Nat /\ e[b] \in Nat /\ 1 <= d[a] /\ d[a] <= e[b]
    <3>1. CASE b < 10
      BY <1>5, <1>6, <2>1, <3>1
    <3>2. CASE b >= 10
      <4>1. b \div 10 \in 0 .. n /\ b \div 10 <= k /\ 0 <= b \div 10 /\ 0 \in 0 .. m
        BY <1>1, <2>1, <3>2
      <4>2. e[b] = 1 + e[b \div 10]
        BY <1>6, <3>2
      <4>3. CASE a < 10
        <5>1. d[a] = 1 /\ d[0] = 1
          BY <1>5, <4>1, <4>3
        <5>2. e[b \div 10] \in Nat
          BY <1>8, <4>1
        <5> QED
          BY <4>2, <5>1, <5>2
      <4>4. CASE a >= 10
        <5>1. a \div 10 \in 0 .. m /\ a \div 10 <= b \div 10
          BY <1>1, <2>1, <4>4
        <5>2. d[a] = 1 + d[a \div 10]
          BY <1>5, <4>4
        <5>3. /\ d[a \div 10] \in Nat /\ e[b \div 10] \in Nat
              /\ 1 <= d[a \div 10] /\ d[a \div 10] <= e[b \div 10]
          BY <1>8, <4>1, <5>1
        <5> QED
          BY <4>2, <5>2, <5>3
      <4> QED
        BY <4>3, <4>4
    <3> QED
      BY <3>1, <3>2
  <2> QED
    BY <2>1
<1>9. n \in Right
  <2> HIDE DEF Right
  <2> QED
    BY <1>7, <1>8, FromZeroOn
<1> QED
  BY <1>3, <1>4, <1>9

\* The values of a function over a finite set are finitely many.
LEMMA ValuesFinite ==
    ASSUME NEW D, IsFiniteSet(D), NEW d
    PROVE  IsFiniteSet({d[i] : i \in D})
<1> DEFINE Few == {s \in SUBSET D : IsFiniteSet({d[i] : i \in s})}
<1>1. {} \in Few
  <2>1. {d[i] : i \in {}} = {}
    OBVIOUS
  <2> QED
    BY <2>1, FS_EmptySet
<1>2. ASSUME NEW s \in SUBSET D, s # {}, s \ {Taken(s)} \in Few PROVE s \in Few
  <2>1. Taken(s) \in s
    BY <1>2 DEF Taken
  <2> DEFINE rest == {d[i] : i \in s \ {Taken(s)}}
  <2>2. {d[i] : i \in s} = rest \union {d[Taken(s)]}
    BY <2>1
  <2>3. IsFiniteSet(rest)
    BY <1>2
  <2>4. IsFiniteSet(rest \union {d[Taken(s)]})
    <3> HIDE DEF rest
    <3> QED
      BY <2>3, FS_AddElement
  <2>5. IsFiniteSet({d[i] : i \in s})
    BY <2>2, <2>4
  <2> QED
    BY <2>5
<1>3. D \in Few
  <2> HIDE DEF Few
  <2> QED
    BY <1>1, <1>2, BySubsets
<1> QED
  BY <1>3

\* The separators between parts, as they become more.
LEMMA SeparatorsGrow ==
    ASSUME NEW m \in Nat, NEW n \in Nat, m <= n
    PROVE  Separators(m) \in Nat /\ Separators(n) \in Nat /\ Separators(m) <= Separators(n)
<1>1. ASSUME NEW k \in Nat PROVE Separators(k) = IF k = 0 THEN 0 ELSE k - 1
  <2> DEFINE S == {k - 1, 0}
             top == IF k = 0 THEN 0 ELSE k - 1
  <2>1. top \in S /\ \A y \in S : top >= y
    OBVIOUS
  <2>2. Max(S) \in S /\ \A y \in S : Max(S) >= y
    BY <2>1 DEF Max
  <2>3. Max(S) \in Int /\ top \in Int /\ Max(S) >= top /\ top >= Max(S)
    BY <2>1, <2>2
  <2> HIDE DEF top
  <2>4. Max(S) = top
    BY <2>3
  <2> QED
    BY <2>4 DEF Separators, top
<1> QED
  BY <1>1

\* The counts that are kept of a body, and of a type.
Counts == [openers : Nat, commas : Nat, digits : Nat, whole : Nat]
Shapes == [openers : Nat, commas : Nat, digits : Nat, text : BOOLEAN]

\* The longest run of digits of parts.
LEMMA LongestRun ==
    ASSUME NEW n \in Nat, NEW d \in [1 .. n -> Nat]
    PROVE  LET top == Max({0} \union {d[i] : i \in 1 .. n})
           IN  /\ top \in Nat
               /\ \A i \in 1 .. n : d[i] <= top
               /\ top = 0 \/ \E i \in 1 .. n : top = d[i]
<1> DEFINE S == {0} \union {d[i] : i \in 1 .. n}
<1>1. IsFiniteSet({d[i] : i \in 1 .. n})
  <2>1. IsFiniteSet(1 .. n)
    BY FS_Interval
  <2> QED
    BY <2>1, ValuesFinite
<1>2. IsFiniteSet(S)
  <2>1. S = {d[i] : i \in 1 .. n} \union {0}
    OBVIOUS
  <2> HIDE DEF S
  <2> QED
    BY <1>1, <2>1, FS_AddElement
<1>3. S \in SUBSET Nat /\ S # {}
  OBVIOUS
<1>4. Max(S) \in S /\ \A x \in S : Max(S) >= x
  <2> HIDE DEF S
  <2> QED
    BY <1>2, <1>3, Greatest
<1>5. \A i \in 1 .. n : d[i] \in S
  OBVIOUS
<1>6. Max(S) \in Nat /\ \A i \in 1 .. n : d[i] <= Max(S)
  <2> HIDE DEF S
  <2> QED
    BY <1>3, <1>4, <1>5
<1>7. Max(S) = 0 \/ \E i \in 1 .. n : Max(S) = d[i]
  BY <1>4
<1> QED
  BY <1>6, <1>7

\* What parts have together, enclosed in a bracket.
LEMMA EnclosedParts ==
    ASSUME NEW n \in Nat, NEW parts \in [1 .. n -> Counts]
    PROVE  /\ Enclosed(parts) \in Counts
           /\ Enclosed(parts).openers = 1 + SumOf([i \in 1 .. n |-> parts[i].openers])
           /\ Enclosed(parts).commas
              = Separators(n) + SumOf([i \in 1 .. n |-> parts[i].commas])
           /\ \/ Enclosed(parts).whole = 0
              \/ \E i \in 1 .. n : Enclosed(parts).whole = parts[i].whole
<1>1. IsFiniteSet(1 .. n) /\ Cardinality(1 .. n) = n
  BY FS_Interval
<1>2. \A i \in 1 .. n :
          /\ parts[i].openers \in Nat /\ parts[i].commas \in Nat
          /\ parts[i].digits \in Nat /\ parts[i].whole \in Nat
  BY DEF Counts
<1> DEFINE o == [i \in 1 .. n |-> parts[i].openers]
           c == [i \in 1 .. n |-> parts[i].commas]
           d == [i \in 1 .. n |-> parts[i].digits]
           w == [i \in 1 .. n |-> parts[i].whole]
           digits == Max({0} \union {d[i] : i \in 1 .. n})
           whole == Max({0} \union {w[i] : i \in 1 .. n})
<1>3. DOMAIN parts = 1 .. n
  OBVIOUS
<1>4. digits \in Nat /\ whole \in Nat /\ (whole = 0 \/ \E i \in 1 .. n : whole = w[i])
  <2>1. d \in [1 .. n -> Nat] /\ w \in [1 .. n -> Nat]
    BY <1>2
  <2> HIDE DEF d, w
  <2> QED
    BY <2>1, LongestRun
<1>5. o \in [1 .. n -> Nat] /\ c \in [1 .. n -> Nat]
  BY <1>2
<1>6. SumOf(o) \in Nat /\ SumOf(c) \in Nat
  <2> HIDE DEF o, c
  <2>1. (\A i \in 1 .. n : o[i] <= o[i]) /\ (\A i \in 1 .. n : c[i] <= c[i])
    BY <1>5
  <2> QED
    BY <1>1, <1>5, <2>1, SumGrows
<1>7. Separators(n) \in Nat
  BY SeparatorsGrow
<1>8. Enclosed(parts) = Form(1 + SumOf(o), Separators(n) + SumOf(c), digits, whole)
  <2>1. /\ {parts[i].digits : i \in DOMAIN parts} = {d[i] : i \in 1 .. n}
        /\ {parts[i].whole : i \in DOMAIN parts} = {w[i] : i \in 1 .. n}
    BY <1>3
  <2> QED
    BY <1>1, <1>3, <2>1 DEF Enclosed, Longest
<1> HIDE DEF o, c, digits, whole
<1>9. /\ Enclosed(parts) \in Counts
      /\ Enclosed(parts).openers = 1 + SumOf(o)
      /\ Enclosed(parts).commas = Separators(n) + SumOf(c)
      /\ Enclosed(parts).whole = whole
  BY <1>4, <1>6, <1>7, <1>8 DEF Form, Counts
<1> QED
  BY <1>4, <1>9 DEF o, c

\* What a model allows, from its fields.
LEMMA ModelShapeOf ==
    ASSUME NEW n \in Nat, NEW fields \in [1 .. n -> Shapes]
    PROVE  /\ ModelShape(fields) \in Shapes
           /\ ModelShape(fields).openers = 1 + SumOf([i \in 1 .. n |-> fields[i].openers])
           /\ ModelShape(fields).commas
              = Separators(n) + SumOf([i \in 1 .. n |-> fields[i].commas])
           /\ \A i \in 1 .. n : fields[i].digits <= ModelShape(fields).digits
           /\ \A i \in 1 .. n : fields[i].text => ModelShape(fields).text
<1>1. IsFiniteSet(1 .. n) /\ Cardinality(1 .. n) = n
  BY FS_Interval
<1>2. \A i \in 1 .. n : /\ fields[i].openers \in Nat /\ fields[i].commas \in Nat
                        /\ fields[i].digits \in Nat /\ fields[i].text \in BOOLEAN
  BY DEF Shapes
<1> DEFINE o == [i \in 1 .. n |-> fields[i].openers]
           c == [i \in 1 .. n |-> fields[i].commas]
           d == [i \in 1 .. n |-> fields[i].digits]
           top == Max({0} \union {d[i] : i \in 1 .. n})
           text == \E i \in DOMAIN fields : fields[i].text
<1>3. DOMAIN fields = 1 .. n
  OBVIOUS
<1>4. top \in Nat /\ \A i \in 1 .. n : fields[i].digits <= top
  <2>1. d \in [1 .. n -> Nat]
    BY <1>2
  <2>2. \A i \in 1 .. n : d[i] = fields[i].digits
    OBVIOUS
  <2> HIDE DEF d
  <2> QED
    BY <2>1, <2>2, LongestRun
<1>5. o \in [1 .. n -> Nat] /\ c \in [1 .. n -> Nat]
  BY <1>2
<1>6. SumOf(o) \in Nat /\ SumOf(c) \in Nat
  <2> HIDE DEF o, c
  <2>1. (\A i \in 1 .. n : o[i] <= o[i]) /\ (\A i \in 1 .. n : c[i] <= c[i])
    BY <1>5
  <2> QED
    BY <1>1, <1>5, <2>1, SumGrows
<1>7. Separators(n) \in Nat
  BY SeparatorsGrow
<1>8. ModelShape(fields) = [openers |-> 1 + SumOf(o), commas |-> Separators(n) + SumOf(c),
                            digits |-> top, text |-> text]
  <2>1. {fields[i].digits : i \in DOMAIN fields} = {d[i] : i \in 1 .. n}
    BY <1>3
  <2> QED
    BY <1>1, <1>3, <2>1 DEF ModelShape, NoDigits
<1>9. text \in BOOLEAN /\ \A i \in 1 .. n : fields[i].text => text
  BY <1>3
<1> HIDE DEF o, c, top, text
<1>10. /\ ModelShape(fields) \in Shapes
       /\ ModelShape(fields).openers = 1 + SumOf(o)
       /\ ModelShape(fields).commas = Separators(n) + SumOf(c)
       /\ ModelShape(fields).digits = top
       /\ ModelShape(fields).text = text
  BY <1>4, <1>6, <1>7, <1>8, <1>9 DEF Shapes
<1> QED
  BY <1>4, <1>9, <1>10 DEF o, c

\* What a list allows, from its items.
LEMMA ListShapeOf ==
    ASSUME NEW inner \in Shapes, NEW max \in Nat
    PROVE  /\ ListShape(inner, max) \in Shapes
           /\ ListShape(inner, max).openers = 1 + max * inner.openers
           /\ ListShape(inner, max).commas = Separators(max) + max * inner.commas
           /\ ListShape(inner, max).digits = inner.digits
           /\ ListShape(inner, max).text = inner.text
<1>1. /\ inner.openers \in Nat /\ inner.commas \in Nat
      /\ inner.digits \in Nat /\ inner.text \in BOOLEAN
  BY DEF Shapes
<1>2. Separators(max) \in Nat
  BY SeparatorsGrow
<1>3. max * inner.openers \in Nat /\ max * inner.commas \in Nat
  BY <1>1
<1>4. ListShape(inner, max) =
          [openers |-> 1 + max * inner.openers, commas |-> Separators(max) + max * inner.commas,
           digits |-> inner.digits, text |-> inner.text]
  <2> DEFINE o == 1 + max * inner.openers
             c == Separators(max) + max * inner.commas
  <2>1. ListShape(inner, max) = [inner EXCEPT !.openers = o, !.commas = c]
    BY DEF ListShape
  <2> HIDE DEF o, c
  <2>2. ListShape(inner, max) =
            [openers |-> o, commas |-> c, digits |-> inner.digits, text |-> inner.text]
    BY <2>1 DEF Shapes
  <2> QED
    BY <2>2 DEF o, c
<1> QED
  BY <1>1, <1>2, <1>3, <1>4 DEF Shapes

\* What a union allows: no less than any of its branches.
LEMMA WidestOf ==
    ASSUME NEW shapes \in SUBSET Shapes, IsFiniteSet(shapes), shapes # {}
    PROVE  /\ Widest(shapes) \in Shapes
           /\ \A s \in shapes : /\ s.openers <= Widest(shapes).openers
                                /\ s.commas <= Widest(shapes).commas
                                /\ s.digits <= Widest(shapes).digits
                                /\ s.text => Widest(shapes).text
<1>1. \A s \in shapes : /\ s.openers \in Nat /\ s.commas \in Nat
                        /\ s.digits \in Nat /\ s.text \in BOOLEAN
  BY DEF Shapes
<1> DEFINE O == {s.openers : s \in shapes}
           C == {s.commas : s \in shapes}
           N == {s.digits : s \in shapes}
           text == \E s \in shapes : s.text
<1>2. /\ O \in SUBSET Nat /\ O # {} /\ C \in SUBSET Nat /\ C # {}
      /\ N \in SUBSET Nat /\ N # {}
  BY <1>1
<1>3. IsFiniteSet(O)
  <2> DEFINE d == [s \in shapes |-> s.openers]
  <2>1. O = {d[s] : s \in shapes}
    OBVIOUS
  <2> HIDE DEF O, d
  <2> QED
    BY <2>1, ValuesFinite
<1>4. IsFiniteSet(C)
  <2> DEFINE d == [s \in shapes |-> s.commas]
  <2>1. C = {d[s] : s \in shapes}
    OBVIOUS
  <2> HIDE DEF C, d
  <2> QED
    BY <2>1, ValuesFinite
<1>5. IsFiniteSet(N)
  <2> DEFINE d == [s \in shapes |-> s.digits]
  <2>1. N = {d[s] : s \in shapes}
    OBVIOUS
  <2> HIDE DEF N, d
  <2> QED
    BY <2>1, ValuesFinite
<1>6. /\ Max(O) \in O /\ \A x \in O : Max(O) >= x
      /\ Max(C) \in C /\ \A x \in C : Max(C) >= x
      /\ Max(N) \in N /\ \A x \in N : Max(N) >= x
  <2> HIDE DEF O, C, N
  <2> QED
    BY <1>2, <1>3, <1>4, <1>5, Greatest
<1>7. \A s \in shapes : s.openers \in O /\ s.commas \in C /\ s.digits \in N
  OBVIOUS
<1>8. text \in BOOLEAN /\ \A s \in shapes : s.text => text
  OBVIOUS
<1>9. Widest(shapes) = [openers |-> Max(O), commas |-> Max(C), digits |-> Max(N), text |-> text]
  BY DEF Widest
<1> HIDE DEF O, C, N, text
<1>10. /\ Widest(shapes) \in Shapes
       /\ Widest(shapes).openers = Max(O) /\ Widest(shapes).commas = Max(C)
       /\ Widest(shapes).digits = Max(N) /\ Widest(shapes).text = text
  <2>1. Max(O) \in Nat /\ Max(C) \in Nat /\ Max(N) \in Nat
    BY <1>2, <1>6
  <2> QED
    BY <1>8, <1>9, <2>1 DEF Shapes
<1>11. ASSUME NEW s \in shapes
       PROVE  /\ s.openers <= Max(O) /\ s.commas <= Max(C) /\ s.digits <= Max(N)
  <2>1. /\ s.openers \in Nat /\ s.commas \in Nat /\ s.digits \in Nat
        /\ Max(O) \in Nat /\ Max(C) \in Nat /\ Max(N) \in Nat
    BY <1>1, <1>2, <1>6
  <2>2. Max(O) >= s.openers /\ Max(C) >= s.commas /\ Max(N) >= s.digits
    BY <1>6, <1>7
  <2> QED
    BY <2>1, <2>2
<1> QED
  BY <1>8, <1>10, <1>11

\* A type of the table is of one of the kinds, and made of earlier ones.
LEMMA TypeOfKind ==
    ASSUME NEW t \in DOMAIN Types
    PROVE  /\ t \in Nat /\ t - 1 \in Nat /\ 1 .. t - 1 \in SUBSET (DOMAIN Types)
           /\ \/ /\ Types[t].kind = "model"
                 /\ \E n \in Nat : /\ DOMAIN Types[t].fields = 1 .. n
                                   /\ \A i \in 1 .. n : Types[t].fields[i] \in 1 .. t - 1
              \/ /\ Types[t].kind = "list"
                 /\ Types[t].item \in 1 .. t - 1 /\ Types[t].max \in Nat
              \/ /\ Types[t].kind = "union"
                 /\ Types[t].branches \in SUBSET (1 .. t - 1) /\ Types[t].branches # {}
              \/ Types[t].kind = "text" /\ Types[t].max \in Nat
              \/ Types[t].kind = "int" /\ Types[t].le \in Nat
              \/ Types[t].kind = "pattern"
              \/ Types[t].kind = "bool"
              \/ Types[t].kind = "scalar" /\ Types[t].run \in Nat
<1>1. Declared(Types[t], 1 .. t - 1)
  BY TypesAssumption
<1>2. t \in Nat /\ t - 1 \in Nat /\ 1 .. t - 1 \in SUBSET (DOMAIN Types)
  BY TypesAssumption
<1> DEFINE type == Types[t]
<1>3. CASE type.kind = "model" /\ type = Struct(type.fields) /\ type.fields \in Seq(1 .. t - 1)
  <2> DEFINE fields == type.fields
             S == 1 .. t - 1
  <2>1. fields \in Seq(S)
    BY <1>3
  <2> HIDE DEF fields, S
  <2>2. /\ Len(fields) \in Nat /\ DOMAIN fields = 1 .. Len(fields)
        /\ \A i \in 1 .. Len(fields) : fields[i] \in S
    BY <2>1
  <2> QED
    BY <1>2, <1>3, <2>2 DEF fields, S
<1>4. CASE type \in {Plain, Flag}
  <2>1. type.kind = "pattern" \/ type.kind = "bool"
    BY <1>4 DEF Plain, Flag
  <2> QED
    BY <1>2, <2>1
<1> QED
  BY <1>1, <1>2, <1>3, <1>4 DEF Declared

\* What is derived for a type, by its kind: the kinds exclude each other.
LEMMA FromModel ==
    ASSUME NEW table, NEW type, type.kind = "model"
    PROVE  /\ ShapeFrom(table, type)
              = ModelShape([i \in DOMAIN type.fields |-> table[type.fields[i]]])
           /\ FormsFrom(table, type)
              = {Enclosed(parts) : parts \in
                    OneOfEach([i \in DOMAIN type.fields |-> table[type.fields[i]]])}
BY DEF ShapeFrom, FormsFrom

\* A list.
LEMMA FromList ==
    ASSUME NEW table, NEW type, type.kind = "list"
    PROVE  /\ ShapeFrom(table, type) = ListShape(table[type.item], type.max)
           /\ FormsFrom(table, type)
              = UNION {{Enclosed(parts) : parts \in [1 .. n -> table[type.item]]} :
                           n \in 0 .. type.max}
BY DEF ShapeFrom, FormsFrom

\* A union.
LEMMA FromUnion ==
    ASSUME NEW table, NEW type, type.kind = "union"
    PROVE  /\ ShapeFrom(table, type) = Widest({table[b] : b \in type.branches})
           /\ FormsFrom(table, type) = UNION {table[b] : b \in type.branches}
BY DEF ShapeFrom, FormsFrom

\* A type without parts.
LEMMA FromLeaf ==
    ASSUME NEW table, NEW type
    PROVE  /\ type.kind = "text" =>
                  /\ ShapeFrom(table, type)
                     = [openers |-> type.max, commas |-> type.max, digits |-> 0, text |-> TRUE]
                  /\ FormsFrom(table, type)
                     = {f \in [openers : 0 .. type.max, commas : 0 .. type.max,
                               digits : 0 .. type.max, whole : {0}] :
                            f.openers + f.commas + f.digits <= type.max}
           /\ type.kind = "pattern" =>
                  /\ ShapeFrom(table, type)
                     = [openers |-> 0, commas |-> 0, digits |-> 0, text |-> TRUE]
                  /\ FormsFrom(table, type) = {Leaf(d) : d \in {0, Wide}}
           /\ type.kind = "int" =>
                  /\ ShapeFrom(table, type)
                     = [openers |-> 0, commas |-> 0, digits |-> DigitsOf(type.le), text |-> FALSE]
                  /\ FormsFrom(table, type)
                     = {Whole(DigitsOf(n)) : n \in 0 .. type.le}
                       \union {Leaf(d) : d \in IF type.strict THEN {} ELSE {Wide}}
           /\ type.kind = "bool" =>
                  /\ ShapeFrom(table, type)
                     = [openers |-> 0, commas |-> 0, digits |-> 0, text |-> FALSE]
                  /\ FormsFrom(table, type) = {Leaf(0)}
           /\ type.kind = "scalar" =>
                  /\ ShapeFrom(table, type)
                     = [openers |-> 0, commas |-> 0, digits |-> 0, text |-> FALSE]
                  /\ FormsFrom(table, type) = {Leaf(d) : d \in 0 .. type.run}
<1>1. CASE type.kind = "text"
  BY <1>1 DEF ShapeFrom, FormsFrom, NoDigits
<1>2. CASE type.kind = "pattern"
  BY <1>2 DEF ShapeFrom, FormsFrom, Nothing, NoDigits
<1>3. CASE type.kind = "int"
  BY <1>3 DEF ShapeFrom, FormsFrom, Nothing, NoDigits
<1>4. CASE type.kind = "bool"
  BY <1>4 DEF ShapeFrom, FormsFrom, Nothing, NoDigits
<1>5. CASE type.kind = "scalar"
  BY <1>5 DEF ShapeFrom, FormsFrom, Nothing, NoDigits
<1> QED
  BY <1>1, <1>2, <1>3, <1>4, <1>5

\* What is derived for a type depends on the types before it alone.
LEMMA FromEarlier ==
    ASSUME NEW t \in DOMAIN Types, NEW g, NEW h, \A p \in 1 .. t - 1 : g[p] = h[p]
    PROVE  /\ ShapeFrom(g, Types[t]) = ShapeFrom(h, Types[t])
           /\ FormsFrom(g, Types[t]) = FormsFrom(h, Types[t])
<1> DEFINE type == Types[t]
           Same == /\ ShapeFrom(g, type) = ShapeFrom(h, type)
                   /\ FormsFrom(g, type) = FormsFrom(h, type)
<1>1. CASE type.kind = "model"
  <2>1. \A i \in DOMAIN type.fields : type.fields[i] \in 1 .. t - 1
    BY <1>1, TypeOfKind
  <2>2. [i \in DOMAIN type.fields |-> g[type.fields[i]]]
        = [i \in DOMAIN type.fields |-> h[type.fields[i]]]
    BY <2>1
  <2> QED
    BY <1>1, <2>2 DEF ShapeFrom, FormsFrom
<1>2. CASE type.kind = "list"
  <2>1. g[type.item] = h[type.item]
    BY <1>2, TypeOfKind
  <2> QED
    BY <1>2, <2>1 DEF ShapeFrom, FormsFrom
<1>3. CASE type.kind = "union"
  <2>1. type.branches \in SUBSET (1 .. t - 1)
    BY <1>3, TypeOfKind
  <2>2. {g[b] : b \in type.branches} = {h[b] : b \in type.branches}
    BY <2>1
  <2> QED
    BY <1>3, <2>2 DEF ShapeFrom, FormsFrom
<1>4. CASE type.kind \in {"text", "pattern", "int", "bool", "scalar"}
  BY <1>4 DEF ShapeFrom, FormsFrom
<1> QED
  BY <1>1, <1>2, <1>3, <1>4, TypeOfKind DEF type, Same

\* The table of shapes is what it is defined to be: derived for the first type, then for
\* each next one.
LEMMA ShapesDefined == \A t \in DOMAIN Types : ShapeOf[t] = ShapeFrom(ShapeOf, Types[t])
<1> DEFINE Derived == {n \in Nat : \E g : \A t \in DOMAIN Types :
                           t <= n => g[t] = ShapeFrom(g, Types[t])}
<1>1. \A t \in DOMAIN Types : t \in Nat /\ t >= 1 /\ t <= Len(Types)
  BY TypesAssumption
<1>2. 0 \in Derived
  BY <1>1
<1>3. ASSUME NEW n \in Nat, n \in Derived PROVE n + 1 \in Derived
  <2>1. PICK g : \A t \in DOMAIN Types : t <= n => g[t] = ShapeFrom(g, Types[t])
    BY <1>3
  <2> DEFINE h == [t \in DOMAIN Types |-> IF t <= n THEN g[t] ELSE ShapeFrom(g, Types[t])]
  <2>2. ASSUME NEW t \in DOMAIN Types, t <= n + 1 PROVE h[t] = ShapeFrom(h, Types[t])
    <3>1. \A p \in 1 .. t - 1 : g[p] = h[p]
      <4>1. \A p \in 1 .. t - 1 : p \in DOMAIN Types /\ p <= n
        BY <1>1, <2>2, TypeOfKind
      <4> QED
        BY <4>1
    <3>2. h[t] = ShapeFrom(g, Types[t])
      BY <2>1
    <3> HIDE DEF h
    <3>3. ShapeFrom(g, Types[t]) = ShapeFrom(h, Types[t])
      BY <3>1, FromEarlier
    <3> QED
      BY <3>2, <3>3
  <2>3. n + 1 \in Nat
    OBVIOUS
  <2> HIDE DEF h
  <2> QED
    BY <2>2, <2>3
<1>4. PICK g : \A t \in DOMAIN Types : t <= Len(Types) => g[t] = ShapeFrom(g, Types[t])
  <2>1. Len(Types) \in Nat
    BY TypesAssumption
  <2>2. Len(Types) \in Derived
    <3> HIDE DEF Derived
    <3> QED
      BY <1>2, <1>3, <2>1, FromZeroOn
  <2> QED
    BY <2>2
<1> DEFINE f == [t \in DOMAIN Types |-> g[t]]
<1>5. f = [t \in DOMAIN Types |-> ShapeFrom(f, Types[t])]
  <2>1. ASSUME NEW t \in DOMAIN Types PROVE g[t] = ShapeFrom(f, Types[t])
    <3>1. \A p \in 1 .. t - 1 : g[p] = f[p]
      BY TypeOfKind
    <3> HIDE DEF f
    <3>2. ShapeFrom(g, Types[t]) = ShapeFrom(f, Types[t])
      BY <3>1, FromEarlier
    <3> QED
      BY <1>1, <1>4, <3>2
  <2> QED
    BY <2>1
<1> HIDE DEF f
<1>6. ShapeOf = [t \in DOMAIN Types |-> ShapeFrom(ShapeOf, Types[t])]
  BY <1>5 DEF ShapeOf
<1> QED
  BY <1>6

\* The table of forms, likewise.
LEMMA FormsDefined == \A t \in DOMAIN Types : FormsOf[t] = FormsFrom(FormsOf, Types[t])
<1> DEFINE Derived == {n \in Nat : \E g : \A t \in DOMAIN Types :
                           t <= n => g[t] = FormsFrom(g, Types[t])}
<1>1. \A t \in DOMAIN Types : t \in Nat /\ t >= 1 /\ t <= Len(Types)
  BY TypesAssumption
<1>2. 0 \in Derived
  BY <1>1
<1>3. ASSUME NEW n \in Nat, n \in Derived PROVE n + 1 \in Derived
  <2>1. PICK g : \A t \in DOMAIN Types : t <= n => g[t] = FormsFrom(g, Types[t])
    BY <1>3
  <2> DEFINE h == [t \in DOMAIN Types |-> IF t <= n THEN g[t] ELSE FormsFrom(g, Types[t])]
  <2>2. ASSUME NEW t \in DOMAIN Types, t <= n + 1 PROVE h[t] = FormsFrom(h, Types[t])
    <3>1. \A p \in 1 .. t - 1 : g[p] = h[p]
      <4>1. \A p \in 1 .. t - 1 : p \in DOMAIN Types /\ p <= n
        BY <1>1, <2>2, TypeOfKind
      <4> QED
        BY <4>1
    <3>2. h[t] = FormsFrom(g, Types[t])
      BY <2>1
    <3> HIDE DEF h
    <3>3. FormsFrom(g, Types[t]) = FormsFrom(h, Types[t])
      BY <3>1, FromEarlier
    <3> QED
      BY <3>2, <3>3
  <2>3. n + 1 \in Nat
    OBVIOUS
  <2> HIDE DEF h
  <2> QED
    BY <2>2, <2>3
<1>4. PICK g : \A t \in DOMAIN Types : t <= Len(Types) => g[t] = FormsFrom(g, Types[t])
  <2>1. Len(Types) \in Nat
    BY TypesAssumption
  <2>2. Len(Types) \in Derived
    <3> HIDE DEF Derived
    <3> QED
      BY <1>2, <1>3, <2>1, FromZeroOn
  <2> QED
    BY <2>2
<1> DEFINE f == [t \in DOMAIN Types |-> g[t]]
<1>5. f = [t \in DOMAIN Types |-> FormsFrom(f, Types[t])]
  <2>1. ASSUME NEW t \in DOMAIN Types PROVE g[t] = FormsFrom(f, Types[t])
    <3>1. \A p \in 1 .. t - 1 : g[p] = f[p]
      BY TypeOfKind
    <3> HIDE DEF f
    <3>2. FormsFrom(g, Types[t]) = FormsFrom(f, Types[t])
      BY <3>1, FromEarlier
    <3> QED
      BY <1>1, <1>4, <3>2
  <2> QED
    BY <2>1
<1> HIDE DEF f
<1>6. FormsOf = [t \in DOMAIN Types |-> FormsFrom(FormsOf, Types[t])]
  BY <1>5 DEF FormsOf
<1> QED
  BY <1>6

\* A body that a type allows, by its counts.  Of the digits only those of integers count,
\* and they are not limited beside free strings.
Within(form, shape) ==
    /\ form.openers <= shape.openers
    /\ form.commas <= shape.commas
    /\ ~shape.text => form.whole <= shape.digits

Fits(shape, forms) ==
    /\ shape \in Shapes
    /\ \A form \in forms : form \in Counts /\ Within(form, shape)

\* An object of parts that fields allow is one that the model of the fields allows.
LEMMA ModelFits ==
    ASSUME NEW n \in Nat, NEW fields \in [1 .. n -> Shapes], NEW parts \in [1 .. n -> Counts],
           \A i \in 1 .. n : Within(parts[i], fields[i])
    PROVE  Enclosed(parts) \in Counts /\ Within(Enclosed(parts), ModelShape(fields))
<1>1. \A i \in 1 .. n : /\ parts[i].openers \in Nat /\ parts[i].commas \in Nat
                        /\ parts[i].whole \in Nat
                        /\ fields[i].openers \in Nat /\ fields[i].commas \in Nat
                        /\ fields[i].digits \in Nat
  BY DEF Counts, Shapes
<1> DEFINE po == [i \in 1 .. n |-> parts[i].openers]
           pc == [i \in 1 .. n |-> parts[i].commas]
           fo == [i \in 1 .. n |-> fields[i].openers]
           fc == [i \in 1 .. n |-> fields[i].commas]
           e == Enclosed(parts)
           m == ModelShape(fields)
<1>2. /\ po \in [1 .. n -> Nat] /\ pc \in [1 .. n -> Nat]
      /\ fo \in [1 .. n -> Nat] /\ fc \in [1 .. n -> Nat]
      /\ \A i \in 1 .. n : po[i] <= fo[i]
      /\ \A i \in 1 .. n : pc[i] <= fc[i]
  BY <1>1 DEF Within
<1>3. /\ e \in Counts /\ e.openers = 1 + SumOf(po) /\ e.commas = Separators(n) + SumOf(pc)
      /\ e.whole = 0 \/ \E i \in 1 .. n : e.whole = parts[i].whole
  BY EnclosedParts
<1>4. /\ m \in Shapes /\ m.openers = 1 + SumOf(fo) /\ m.commas = Separators(n) + SumOf(fc)
      /\ \A i \in 1 .. n : fields[i].digits <= m.digits
      /\ \A i \in 1 .. n : fields[i].text => m.text
  BY ModelShapeOf
<1> HIDE DEF po, pc, fo, fc, e, m
<1>5. IsFiniteSet(1 .. n) /\ Separators(n) \in Nat
  BY FS_Interval, SeparatorsGrow
<1>6. SumOf(po) \in Nat /\ SumOf(fo) \in Nat /\ SumOf(po) <= SumOf(fo)
  BY <1>2, <1>5, SumGrows
<1>7. SumOf(pc) \in Nat /\ SumOf(fc) \in Nat /\ SumOf(pc) <= SumOf(fc)
  BY <1>2, <1>5, SumGrows
<1>8. e.openers <= m.openers /\ e.commas <= m.commas
  BY <1>3, <1>4, <1>5, <1>6, <1>7
<1>9. ASSUME ~m.text PROVE e.whole <= m.digits
  <2>1. m.digits \in Nat
    BY <1>4 DEF Shapes
  <2>2. CASE e.whole = 0
    BY <2>1, <2>2
  <2>3. CASE \E i \in 1 .. n : e.whole = parts[i].whole
    <3>1. PICK i \in 1 .. n : e.whole = parts[i].whole
      BY <2>3
    <3>2. ~fields[i].text
      BY <1>4, <1>9
    <3>3. parts[i].whole <= fields[i].digits /\ fields[i].digits <= m.digits
      BY <1>4, <3>2 DEF Within
    <3> QED
      BY <1>1, <2>1, <3>1, <3>3
  <2> QED
    BY <1>3, <2>2, <2>3
<1> QED
  BY <1>3, <1>8, <1>9 DEF Within, e, m

\* A list of items that the type of its items allows is one that the list allows.
LEMMA ListFits ==
    ASSUME NEW inner \in Shapes, NEW max \in Nat, NEW n \in 0 .. max,
           NEW parts \in [1 .. n -> Counts], \A i \in 1 .. n : Within(parts[i], inner)
    PROVE  Enclosed(parts) \in Counts /\ Within(Enclosed(parts), ListShape(inner, max))
<1>1. n \in Nat /\ n <= max
  OBVIOUS
<1>2. \A i \in 1 .. n :
          parts[i].openers \in Nat /\ parts[i].commas \in Nat /\ parts[i].whole \in Nat
  BY DEF Counts
<1>3. inner.openers \in Nat /\ inner.commas \in Nat /\ inner.digits \in Nat
  BY DEF Shapes
<1> DEFINE po == [i \in 1 .. n |-> parts[i].openers]
           pc == [i \in 1 .. n |-> parts[i].commas]
           e == Enclosed(parts)
           s == ListShape(inner, max)
<1>4. /\ po \in [1 .. n -> Nat] /\ pc \in [1 .. n -> Nat]
      /\ \A i \in 1 .. n : po[i] <= inner.openers
      /\ \A i \in 1 .. n : pc[i] <= inner.commas
  BY <1>2 DEF Within
<1>5. /\ e \in Counts /\ e.openers = 1 + SumOf(po) /\ e.commas = Separators(n) + SumOf(pc)
      /\ e.whole = 0 \/ \E i \in 1 .. n : e.whole = parts[i].whole
  BY <1>1, EnclosedParts
<1>6. /\ s.openers = 1 + max * inner.openers
      /\ s.commas = Separators(max) + max * inner.commas
      /\ s.digits = inner.digits /\ s.text = inner.text
  BY ListShapeOf
<1> HIDE DEF po, pc, e, s
<1>7. IsFiniteSet(1 .. n) /\ Cardinality(1 .. n) = n
  BY <1>1, FS_Interval
<1>8. /\ SumOf(po) \in Nat /\ SumOf(po) <= n * inner.openers
      /\ SumOf(pc) \in Nat /\ SumOf(pc) <= n * inner.commas
  <2>1. SumOf(po) \in Nat /\ SumOf(po) <= Cardinality(1 .. n) * inner.openers
    BY <1>3, <1>4, <1>7, SumBounded
  <2>2. SumOf(pc) \in Nat /\ SumOf(pc) <= Cardinality(1 .. n) * inner.commas
    BY <1>3, <1>4, <1>7, SumBounded
  <2> QED
    BY <1>7, <2>1, <2>2
<1>9. ASSUME NEW c \in Nat PROVE n * c \in Nat /\ max * c \in Nat /\ n * c <= max * c
  <2>1. PICK d \in Nat : max = n + d
    <3>1. max - n \in Nat /\ max = n + (max - n)
      BY <1>1
    <3> QED
      BY <3>1
  <2>2. max * c = n * c + d * c
    BY <1>1, <2>1
  <2>3. n * c \in Nat /\ d * c \in Nat
    BY <1>1
  <2> QED
    BY <2>2, <2>3
<1>10. /\ n * inner.openers \in Nat /\ max * inner.openers \in Nat
       /\ n * inner.openers <= max * inner.openers
       /\ n * inner.commas \in Nat /\ max * inner.commas \in Nat
       /\ n * inner.commas <= max * inner.commas
  BY <1>3, <1>9
<1>11. Separators(n) \in Nat /\ Separators(max) \in Nat /\ Separators(n) <= Separators(max)
  BY <1>1, SeparatorsGrow
<1>12. e.openers <= s.openers /\ e.commas <= s.commas
  <2> DEFINE no == n * inner.openers
             mo == max * inner.openers
             nc == n * inner.commas
             mc == max * inner.commas
  <2>1. /\ no \in Nat /\ mo \in Nat /\ no <= mo /\ SumOf(po) <= no
        /\ nc \in Nat /\ mc \in Nat /\ nc <= mc /\ SumOf(pc) <= nc
        /\ s.openers = 1 + mo /\ s.commas = Separators(max) + mc
    BY <1>6, <1>8, <1>10
  <2> HIDE DEF no, mo, nc, mc
  <2> QED
    BY <1>5, <1>8, <1>11, <2>1
<1>13. ASSUME ~s.text PROVE e.whole <= s.digits
  <2>1. CASE e.whole = 0
    BY <1>3, <1>6, <2>1
  <2>2. CASE \E i \in 1 .. n : e.whole = parts[i].whole
    BY <1>6, <1>13, <2>2 DEF Within
  <2> QED
    BY <1>5, <2>1, <2>2
<1> QED
  BY <1>5, <1>12, <1>13 DEF Within, e, s

\* What one branch allows the union allows.
LEMMA UnionFits ==
    ASSUME NEW shapes \in SUBSET Shapes, IsFiniteSet(shapes), shapes # {},
           NEW s \in shapes, NEW form \in Counts, Within(form, s)
    PROVE  Within(form, Widest(shapes))
<1> DEFINE w == Widest(shapes)
<1>1. /\ w \in Shapes /\ s.openers <= w.openers /\ s.commas <= w.commas
      /\ s.digits <= w.digits /\ (s.text => w.text)
  BY WidestOf
<1> HIDE DEF w
<1>2. /\ form.openers \in Nat /\ form.commas \in Nat /\ form.whole \in Nat
      /\ s.openers \in Nat /\ s.commas \in Nat /\ s.digits \in Nat
      /\ w.openers \in Nat /\ w.commas \in Nat /\ w.digits \in Nat
  BY <1>1 DEF Counts, Shapes
<1>3. Within(form, w)
  BY <1>1, <1>2 DEF Within
<1> QED
  BY <1>3 DEF w

\* Of every type of the table: the shape derived for it allows each of its bodies.
LEMMA EveryTypeFits ==
    ASSUME NEW t \in DOMAIN Types, \A p \in 1 .. t - 1 : Fits(ShapeOf[p], FormsOf[p])
    PROVE  Fits(ShapeOf[t], FormsOf[t])
<1> DEFINE type == Types[t]
           earlier == 1 .. t - 1
<1>1. ShapeOf[t] = ShapeFrom(ShapeOf, type) /\ FormsOf[t] = FormsFrom(FormsOf, type)
  BY ShapesDefined, FormsDefined
<1>2. \A p \in earlier : ShapeOf[p] \in Shapes
  BY DEF Fits
<1>3. \A p \in earlier : \A form \in FormsOf[p] : form \in Counts /\ Within(form, ShapeOf[p])
  BY DEF Fits
<1>4. CASE type.kind = "model"
  <2> DEFINE fields == type.fields
             shapes == [i \in DOMAIN fields |-> ShapeOf[fields[i]]]
             forms == [i \in DOMAIN fields |-> FormsOf[fields[i]]]
  <2>1. PICK n \in Nat : DOMAIN fields = 1 .. n /\ \A i \in 1 .. n : fields[i] \in earlier
    BY <1>4, TypeOfKind
  <2>2. /\ ShapeOf[t] = ModelShape(shapes)
        /\ FormsOf[t] = {Enclosed(parts) : parts \in OneOfEach(forms)}
    BY <1>1, <1>4 DEF ShapeFrom, FormsFrom
  <2> HIDE DEF type, earlier, fields
  <2>3. shapes \in [1 .. n -> Shapes]
    BY <1>2, <2>1
  <2>4. ModelShape(shapes) \in Shapes
    <3> HIDE DEF shapes
    <3> QED
      BY <2>3, ModelShapeOf
  <2>5. ASSUME NEW parts \in OneOfEach(forms)
        PROVE  Enclosed(parts) \in Counts /\ Within(Enclosed(parts), ModelShape(shapes))
    <3>1. DOMAIN forms = 1 .. n
      BY <2>1
    <3>2. /\ parts \in [1 .. n -> UNION {forms[i] : i \in 1 .. n}]
          /\ \A i \in 1 .. n : parts[i] \in forms[i]
      BY <3>1 DEF OneOfEach
    <3>3. \A i \in 1 .. n : parts[i] \in FormsOf[fields[i]]
      BY <2>1, <3>2
    <3>4. \A i \in 1 .. n : parts[i] \in Counts /\ Within(parts[i], shapes[i])
      BY <1>3, <2>1, <3>3
    <3> HIDE DEF shapes, forms
    <3>5. parts \in [1 .. n -> Counts]
      BY <3>2, <3>4
    <3> QED
      BY <2>3, <3>4, <3>5, ModelFits
  <2> HIDE DEF shapes, forms
  <2> QED
    BY <2>2, <2>4, <2>5 DEF Fits
<1>5. CASE type.kind = "list"
  <2> DEFINE item == type.item
             max == type.max
  <2>1. item \in earlier /\ max \in Nat
    BY <1>5, TypeOfKind
  <2>2. /\ ShapeOf[t] = ListShape(ShapeOf[item], max)
        /\ FormsOf[t]
           = UNION {{Enclosed(parts) : parts \in [1 .. n -> FormsOf[item]]} : n \in 0 .. max}
    BY <1>1, <1>5 DEF ShapeFrom, FormsFrom
  <2> HIDE DEF type, earlier, item, max
  <2>3. ShapeOf[item] \in Shapes
    BY <1>2, <2>1
  <2>4. ListShape(ShapeOf[item], max) \in Shapes
    BY <2>1, <2>3, ListShapeOf
  <2>5. ASSUME NEW n \in 0 .. max, NEW parts \in [1 .. n -> FormsOf[item]]
        PROVE  /\ Enclosed(parts) \in Counts
               /\ Within(Enclosed(parts), ListShape(ShapeOf[item], max))
    <3>1. \A i \in 1 .. n : parts[i] \in Counts /\ Within(parts[i], ShapeOf[item])
      BY <1>3, <2>1
    <3>2. parts \in [1 .. n -> Counts]
      BY <3>1
    <3> QED
      BY <2>1, <2>3, <3>1, <3>2, ListFits
  <2>6. ASSUME NEW form \in FormsOf[t]
        PROVE  form \in Counts /\ Within(form, ListShape(ShapeOf[item], max))
    <3>1. PICK n \in 0 .. max : form \in {Enclosed(parts) : parts \in [1 .. n -> FormsOf[item]]}
      BY <2>2
    <3>2. PICK parts \in [1 .. n -> FormsOf[item]] : form = Enclosed(parts)
      BY <3>1
    <3> QED
      BY <2>5, <3>2
  <2> QED
    BY <2>2, <2>4, <2>6 DEF Fits
<1>6. CASE type.kind = "union"
  <2> DEFINE branches == type.branches
             shapes == {ShapeOf[b] : b \in branches}
  <2>1. branches \in SUBSET earlier /\ branches # {} /\ t - 1 \in Nat
    BY <1>6, TypeOfKind
  <2>2. ShapeOf[t] = Widest(shapes) /\ FormsOf[t] = UNION {FormsOf[b] : b \in branches}
    BY <1>1, <1>6 DEF ShapeFrom, FormsFrom
  <2>3. IsFiniteSet(branches)
    <3>1. IsFiniteSet(1 .. t - 1)
      BY <2>1, FS_Interval
    <3> HIDE DEF branches
    <3> QED
      BY <2>1, <3>1, FS_Subset
  <2> HIDE DEF type, earlier, branches
  <2>4. IsFiniteSet(shapes)
    BY <2>3, ValuesFinite
  <2>5. shapes \in SUBSET Shapes /\ shapes # {}
    BY <1>2, <2>1
  <2>6. Widest(shapes) \in Shapes
    <3> HIDE DEF shapes
    <3> QED
      BY <2>4, <2>5, WidestOf
  <2>7. ASSUME NEW form \in FormsOf[t]
        PROVE  form \in Counts /\ Within(form, Widest(shapes))
    <3>1. PICK b \in branches : form \in FormsOf[b]
      BY <2>2
    <3>2. form \in Counts /\ Within(form, ShapeOf[b]) /\ ShapeOf[b] \in shapes
      BY <1>3, <2>1, <3>1
    <3> HIDE DEF shapes
    <3> QED
      BY <2>4, <2>5, <3>2, UnionFits
  <2> HIDE DEF shapes
  <2> QED
    BY <2>2, <2>6, <2>7 DEF Fits
<1>7. CASE type.kind = "text"
  <2> DEFINE max == type.max
  <2>1. max \in Nat
    BY <1>7, TypeOfKind
  <2>2. /\ ShapeOf[t] = [openers |-> max, commas |-> max, digits |-> 0, text |-> TRUE]
        /\ FormsOf[t] = {f \in [openers : 0 .. max, commas : 0 .. max,
                                digits : 0 .. max, whole : {0}] :
                            f.openers + f.commas + f.digits <= max}
    BY <1>1, <1>7, FromLeaf
  <2> HIDE DEF type, max
  <2> QED
    BY <2>1, <2>2 DEF Fits, Within, Counts, Shapes
<1>8. CASE type.kind = "pattern"
  <2>1. /\ ShapeOf[t] = [openers |-> 0, commas |-> 0, digits |-> 0, text |-> TRUE]
        /\ FormsOf[t] = {Leaf(d) : d \in {0, Wide}}
    BY <1>1, <1>8, FromLeaf
  <2>2. Wide \in Nat
    BY TypesAssumption
  <2> HIDE DEF type
  <2> QED
    BY <2>1, <2>2 DEF Fits, Within, Counts, Shapes, Leaf, Form
<1>9. CASE type.kind = "int"
  <2> DEFINE le == type.le
  <2>1. le \in Nat
    BY <1>9, TypeOfKind
  <2>2. /\ ShapeOf[t] = [openers |-> 0, commas |-> 0, digits |-> DigitsOf(le), text |-> FALSE]
        /\ FormsOf[t] = {Whole(DigitsOf(n)) : n \in 0 .. le}
                        \union {Leaf(d) : d \in IF type.strict THEN {} ELSE {Wide}}
    BY <1>1, <1>9, FromLeaf
  <2> DEFINE lax == IF type.strict THEN {} ELSE {Wide}
  <2>5. lax \subseteq Nat
    BY TypesAssumption
  <2> HIDE DEF type, le, lax
  <2>3. \A n \in 0 .. le : /\ DigitsOf(n) \in Nat /\ DigitsOf(le) \in Nat
                           /\ DigitsOf(n) <= DigitsOf(le)
    BY <2>1, DigitsGrow
  <2>4. DigitsOf(le) \in Nat
    BY <2>1, <2>3
  <2>6. \A n \in 0 .. le : /\ Whole(DigitsOf(n)) \in Counts
                           /\ Within(Whole(DigitsOf(n)), ShapeOf[t])
    BY <2>2, <2>3, <2>4 DEF Within, Counts, Whole, Form
  <2>7. \A d \in lax : Leaf(d) \in Counts /\ Within(Leaf(d), ShapeOf[t])
    BY <2>2, <2>4, <2>5 DEF Within, Counts, Leaf, Form
  <2>8. FormsOf[t] = {Whole(DigitsOf(n)) : n \in 0 .. le} \union {Leaf(d) : d \in lax}
    BY <2>2 DEF lax
  <2>9. ASSUME NEW form \in FormsOf[t]
        PROVE  form \in Counts /\ Within(form, ShapeOf[t])
    <3>1. CASE \E n \in 0 .. le : form = Whole(DigitsOf(n))
      BY <2>6, <3>1
    <3>2. CASE \E d \in lax : form = Leaf(d)
      BY <2>7, <3>2
    <3> QED
      BY <2>8, <3>1, <3>2
  <2>10. ShapeOf[t] \in Shapes
    BY <2>2, <2>4 DEF Shapes
  <2> QED
    BY <2>9, <2>10 DEF Fits
<1>10. CASE type.kind = "bool"
  <2>1. /\ ShapeOf[t] = [openers |-> 0, commas |-> 0, digits |-> 0, text |-> FALSE]
        /\ FormsOf[t] = {Leaf(0)}
    BY <1>1, <1>10, FromLeaf
  <2> HIDE DEF type
  <2> QED
    BY <2>1 DEF Fits, Within, Counts, Shapes, Leaf, Form
<1>11. CASE type.kind = "scalar"
  <2> DEFINE run == type.run
  <2>1. run \in Nat
    BY <1>11, TypeOfKind
  <2>2. /\ ShapeOf[t] = [openers |-> 0, commas |-> 0, digits |-> 0, text |-> FALSE]
        /\ FormsOf[t] = {Leaf(d) : d \in 0 .. run}
    BY <1>1, <1>11, FromLeaf
  <2> HIDE DEF type, run
  <2> QED
    BY <2>1, <2>2 DEF Fits, Within, Counts, Shapes, Leaf, Form
<1> QED
  BY <1>4, <1>5, <1>6, <1>7, <1>8, <1>9, <1>10, <1>11, TypeOfKind

\* The limits derived from a model of bodies, whatever lists, optional parts, numbers,
\* fractions and strings it nests and however deep, are at least what any body it allows has
\* of braces, of commas and of digits that write an integer: the gate finds no such body too
\* wide but for the digits of other values.
THEOREM LimitsAdmitBodies ==
    \A model \in Models : \A form \in FormsOf[model] :
        /\ ~TooWide([form EXCEPT !.digits = form.whole], Limits(model))
        /\ TooWide(form, Limits(model)) => form.digits > form.whole
<1> DEFINE Fit == {n \in Nat : \A t \in DOMAIN Types : t <= n => Fits(ShapeOf[t], FormsOf[t])}
<1>1. \A t \in DOMAIN Types : t \in Nat /\ t >= 1 /\ t <= Len(Types)
  BY TypesAssumption
<1>2. 0 \in Fit
  BY <1>1
<1>3. ASSUME NEW n \in Nat, n \in Fit PROVE n + 1 \in Fit
  <2>1. ASSUME NEW t \in DOMAIN Types, t <= n + 1 PROVE Fits(ShapeOf[t], FormsOf[t])
    <3>1. \A p \in 1 .. t - 1 : p \in DOMAIN Types /\ p <= n
      BY <1>1, <2>1, TypeOfKind
    <3>2. \A p \in 1 .. t - 1 : Fits(ShapeOf[p], FormsOf[p])
      BY <1>3, <3>1
    <3> QED
      BY <3>2, EveryTypeFits
  <2>2. n + 1 \in Nat
    OBVIOUS
  <2> QED
    BY <2>1, <2>2
<1>4. \A t \in DOMAIN Types : Fits(ShapeOf[t], FormsOf[t])
  <2>1. Len(Types) \in Nat
    BY TypesAssumption
  <2>2. Len(Types) \in Fit
    <3> HIDE DEF Fit
    <3> QED
      BY <1>2, <1>3, <2>1, FromZeroOn
  <2> QED
    BY <1>1, <2>2
<1> SUFFICES ASSUME NEW model \in Models, NEW form \in FormsOf[model]
             PROVE  /\ ~TooWide([form EXCEPT !.digits = form.whole], Limits(model))
                    /\ TooWide(form, Limits(model)) => form.digits > form.whole
  OBVIOUS
<1> DEFINE shape == ShapeOf[model]
           limits == Limits(model)
<1>5. model \in DOMAIN Types
  BY TypesAssumption
<1>6. shape \in Shapes /\ form \in Counts /\ Within(form, shape)
  BY <1>4, <1>5 DEF Fits
<1>7. /\ limits.openers = shape.openers /\ limits.commas = shape.commas
      /\ limits.digits = shape.digits /\ (limits.numbers => ~shape.text)
  BY DEF Limits
<1> HIDE DEF shape, limits
<1>8. /\ form.openers \in Nat /\ form.commas \in Nat
      /\ form.digits \in Nat /\ form.whole \in Nat
      /\ shape.openers \in Nat /\ shape.commas \in Nat /\ shape.digits \in Nat
  BY <1>6 DEF Shapes, Counts
<1>9. /\ form.openers <= limits.openers /\ form.commas <= limits.commas
      /\ limits.numbers => form.whole <= limits.digits
  BY <1>6, <1>7 DEF Within
<1> DEFINE plain == [form EXCEPT !.digits = form.whole]
<1>10. /\ plain.openers = form.openers /\ plain.commas = form.commas
       /\ plain.digits = form.whole
  BY <1>6 DEF Counts
<1> HIDE DEF plain
<1>11. ~TooWide(plain, limits)
  BY <1>7, <1>8, <1>9, <1>10 DEF TooWide
<1>12. TooWide(form, limits) => form.digits > form.whole
  BY <1>7, <1>8, <1>9 DEF TooWide
<1> QED
  BY <1>11, <1>12 DEF limits, plain

\* The gate refuses no body its model allows, of any models made of any types, but for the
\* digits of a value that is not an integer written as one.
THEOREM NoOtherRefusals == BodySpec => []RefusedForOtherDigitsOnly
<1>1. BodyInit => RefusedForOtherDigitsOnly
  BY DEF BodyInit, RefusedForOtherDigitsOnly
<1>2. RefusedForOtherDigitsOnly /\ [BodyNext]_bodyVars => RefusedForOtherDigitsOnly'
  <2> SUFFICES ASSUME RefusedForOtherDigitsOnly, [BodyNext]_bodyVars
               PROVE  RefusedForOtherDigitsOnly'
    OBVIOUS
  <2>1. ASSUME NEW model \in Models, NEW form \in FormsOf[model], Arrive(model, form, TRUE)
        PROVE  RefusedForOtherDigitsOnly'
    <3>1. /\ body'.form = form /\ body'.model = model
          /\ body'.parsed = ~TooWide(form, LimitsOf[model])
      BY <2>1 DEF Arrive
    <3>2. LimitsOf[model] = Limits(model)
      BY DEF LimitsOf
    <3>3. /\ ~TooWide([form EXCEPT !.digits = form.whole], LimitsOf[model])
          /\ TooWide(form, LimitsOf[model]) => form.digits > form.whole
      BY <3>2, LimitsAdmitBodies
    <3> QED
      BY <3>1, <3>3 DEF RefusedForOtherDigitsOnly
  <2>2. ASSUME NEW model \in Models, NEW form \in AnyForm, Arrive(model, form, FALSE)
        PROVE  RefusedForOtherDigitsOnly'
    BY <2>2 DEF Arrive, RefusedForOtherDigitsOnly
  <2>3. CASE UNCHANGED bodyVars
    BY <2>3 DEF bodyVars, RefusedForOtherDigitsOnly
  <2> QED
    BY <2>1, <2>2, <2>3 DEF BodyNext
<1> QED
  BY <1>1, <1>2, PTL DEF BodySpec
=============================================================================
