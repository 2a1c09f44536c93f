-------------------------- MODULE EnrollmentProofs --------------------------
(***************************************************************************)
(* Proofs about Enrollment, for any number of sessions, tokens and         *)
(* identities.                                                             *)
(***************************************************************************)
EXTENDS Enrollment, TLAPS

(***************************************************************************)
(* The inductive invariant.  Only the session that holds the lock has a    *)
(* transaction; what an approval compared stays true until it commits,     *)
(* except that the identity may expire; a status other than pending means  *)
(* that whoever is not revoked was approved; live tokens are younger than  *)
(* the last revocation; the identities are over when the CA is.            *)
(***************************************************************************)
LockHeld == \A s \in Sessions : tx[s].op # "none" => nodeLock = s

ApprovalHolds == \A s \in Sessions :
    tx[s].op = "approve" =>
        /\ status = "pending"
        /\ tx[s].arg \in Identities
        /\ Unrevoked(tx[s].arg)

EnrollingTokens == \A s \in Sessions : tx[s].op = "enroll" => tx[s].arg \in 1 .. issued

ApprovedOutsidePending ==
    status # "pending" => \A i \in Identities : Unrevoked(i) => i \in approved

Exchanged ==
    /\ \A i \in 1 .. generation : identity[i].from \in 1 .. issued /\ token[identity[i].from].used
    /\ cutoff <= issued
    /\ \A t \in Tokens : LiveToken(t) => t > cutoff

NoneOutlivesCA == ~ca => \A i \in 1 .. generation : identity[i].expired

IInv ==
    /\ EnrollmentTypeOK
    /\ LockHeld
    /\ ApprovalHolds
    /\ EnrollingTokens
    /\ ApprovedOutsidePending
    /\ Exchanged
    /\ NoneOutlivesCA
    /\ OneIdentity
    /\ OneExchange
    /\ RevocationHolds

---------------------------------------------------------------------------
(* Operators.                                                              *)

\* The matrix leads from statuses to statuses.
LEMMA TransitionsAreStatuses ==
    ASSUME NEW s \in Status
    PROVE  Transitions(s) \subseteq Status \ {"pending"}
BY DEF Status, Manual, Automatic, Transitions, Cleared

\* Names of tokens and identities are numbers within their bounds.
LEMMA NamesTyped ==
    /\ Tokens \subseteq Nat /\ Identities \subseteq Nat
    /\ MaxTokens \in Nat /\ MaxIdentities \in Nat
    /\ {"pending", "provisioning", OnRevocation, OnReenrollment} \subseteq Status
BY TokensAssumption DEF Tokens, Identities, Status, Manual, Automatic, OnRevocation, OnReenrollment

\* Annulling keeps a token's use and leaves none live; so does revoking with
\* identities.
LEMMA AnnulledTokens ==
    ASSUME token \in [Tokens -> Token]
    PROVE  /\ Annulled \in [Tokens -> Token]
           /\ \A t \in Tokens : /\ Annulled[t].used = token[t].used
                                /\ t <= issued => Annulled[t].used \/ Annulled[t].annulled
<1>1. ASSUME NEW r \in Token
      PROVE  /\ [r EXCEPT !.annulled = TRUE] \in Token
             /\ [r EXCEPT !.annulled = TRUE].used = r.used
             /\ [r EXCEPT !.annulled = TRUE].annulled
  BY DEF Token
<1>2. \A t \in Tokens : token[t] \in Token
  OBVIOUS
<1> QED
  BY <1>1, <1>2 DEF Annulled, LiveToken, Token

\* After the revocation of all identities none is left unrevoked; where each came from
\* and whether it is over are kept.
LEMMA AllRevokedIdentities ==
    ASSUME identity \in [Identities -> Identity]
    PROVE  /\ AllRevoked \in [Identities -> Identity]
           /\ \A i \in Identities : /\ AllRevoked[i].from = identity[i].from
                                    /\ AllRevoked[i].expired = identity[i].expired
                                    /\ i <= generation => AllRevoked[i].revoked
<1>1. ASSUME NEW r \in Identity
      PROVE  /\ [r EXCEPT !.revoked = TRUE] \in Identity
             /\ [r EXCEPT !.revoked = TRUE].from = r.from
             /\ [r EXCEPT !.revoked = TRUE].expired = r.expired
             /\ [r EXCEPT !.revoked = TRUE].revoked
  BY DEF Identity
<1>2. \A i \in Identities : identity[i] \in Identity
  OBVIOUS
<1> QED
  BY <1>1, <1>2 DEF AllRevoked, Identity

\* A node just registered, with no token and no identity, satisfies the invariant.
LEMMA InitIInv == EnrollmentInit => IInv
<1> SUFFICES ASSUME EnrollmentInit PROVE IInv
  OBVIOUS
<1>1. NoToken \in Token /\ NoIdentity \in Identity /\ NoTx \in Transaction
  BY NamesTyped DEF NoToken, NoIdentity, NoTx, Token, Identity, Transaction
<1>2. EnrollmentTypeOK
  <2>1. status \in Status /\ gone \in BOOLEAN
    BY NamesTyped DEF EnrollmentInit
  <2>2. issued \in 0 .. MaxTokens /\ generation \in 0 .. MaxIdentities /\ cutoff \in 0 .. MaxTokens
    BY NamesTyped DEF EnrollmentInit
  <2>3. /\ token \in [Tokens -> Token] /\ identity \in [Identities -> Identity]
        /\ tx \in [Sessions -> Transaction]
    BY <1>1 DEF EnrollmentInit
  <2> QED
    BY <2>1, <2>2, <2>3 DEF EnrollmentInit, EnrollmentTypeOK
<1>3. \A i \in Identities : ~Unrevoked(i)
  BY NamesTyped DEF EnrollmentInit, Unrevoked, Identities
<1>4. \A t \in Tokens : ~LiveToken(t)
  BY NamesTyped DEF EnrollmentInit, LiveToken, Tokens
<1>5. LockHeld /\ ApprovalHolds /\ EnrollingTokens
  BY DEF EnrollmentInit, LockHeld, ApprovalHolds, EnrollingTokens, NoTx
<1>6. 1 .. generation = {}
  BY DEF EnrollmentInit
<1> QED
  BY <1>2, <1>3, <1>4, <1>5, <1>6
  DEF IInv, ApprovedOutsidePending, Exchanged, NoneOutlivesCA, OneIdentity, OneExchange,
      RevocationHolds, EnrollmentInit

---------------------------------------------------------------------------
(* Steps.                                                                  *)

\* A beginning takes the lock and remembers what it read.
LEMMA BeginStep ==
    ASSUME IInv, NEW s \in Sessions, NEW op \in {"issue", "enroll", "approve", "revoke"},
           NEW arg \in Tokens \union Identities \union {0}, NEW ok \in BOOLEAN,
           Begin(s, op, arg, ok),
           op = "enroll" => arg \in 1 .. issued,
           op = "approve" /\ ok => status = "pending" /\ arg \in Identities /\ Unrevoked(arg)
    PROVE  IInv'
<1>1. /\ tx' = [tx EXCEPT ![s] = [op |-> IF ok THEN op ELSE "refused", arg |-> arg]]
      /\ nodeLock = Free /\ nodeLock' = s /\ UNCHANGED <<rows, approved, cutoff, ca>>
  BY DEF Begin
<1>2. [op |-> IF ok THEN op ELSE "refused", arg |-> arg] \in Transaction
  BY DEF Transaction
<1>3. /\ tx' \in [Sessions -> Transaction]
      /\ tx'[s] = [op |-> IF ok THEN op ELSE "refused", arg |-> arg]
      /\ \A r \in Sessions \ {s} : tx'[r] = tx[r]
  BY <1>1, <1>2 DEF IInv, EnrollmentTypeOK
<1>4. EnrollmentTypeOK'
  BY <1>1, <1>3 DEF IInv, EnrollmentTypeOK, rows
<1>5. \A r \in Sessions : tx[r].op = "none"
  BY <1>1, SessionsAssumption DEF IInv, LockHeld
<1>6. LockHeld'
  BY <1>1, <1>3, <1>5 DEF LockHeld
<1>7. ApprovalHolds'
  <2> SUFFICES ASSUME NEW r \in Sessions, tx'[r].op = "approve"
               PROVE  (status = "pending" /\ tx[r].arg \in Identities /\ Unrevoked(tx[r].arg))'
    BY DEF ApprovalHolds
  <2>1. r = s
    BY <1>3, <1>5
  <2>2. op = "approve" /\ ok /\ tx'[r].arg = arg
    BY <1>3, <2>1
  <2> QED
    BY <1>1, <2>2 DEF rows, Unrevoked
<1>8. EnrollingTokens'
  <2> SUFFICES ASSUME NEW r \in Sessions, tx'[r].op = "enroll"
               PROVE  tx'[r].arg \in 1 .. issued'
    BY DEF EnrollingTokens
  <2>1. r = s
    BY <1>3, <1>5
  <2> QED
    BY <1>1, <1>3, <2>1 DEF rows
<1>9. /\ ApprovedOutsidePending' /\ Exchanged' /\ NoneOutlivesCA'
      /\ OneIdentity' /\ OneExchange' /\ RevocationHolds'
  BY <1>1 DEF IInv, rows, ApprovedOutsidePending, Exchanged, NoneOutlivesCA, OneIdentity,
              OneExchange, RevocationHolds, Unrevoked, LiveToken
<1> QED
  BY <1>4, <1>6, <1>7, <1>8, <1>9 DEF IInv

\* Each operation's beginning reads under the lock what the invariant says it read.
LEMMA BeginSteps ==
    ASSUME IInv, NEW s \in Sessions,
           BeginIssue(s) \/ BeginEnroll(s) \/ BeginApprove(s) \/ BeginRevoke(s)
    PROVE  IInv'
<1>1. CASE BeginIssue(s)
  BY <1>1, BeginStep DEF BeginIssue
<1>2. CASE BeginRevoke(s)
  BY <1>2, BeginStep DEF BeginRevoke
<1>3. CASE BeginEnroll(s)
  <2>1. PICK t \in 1 .. issued, sound \in BOOLEAN :
          Begin(s, "enroll", t, ~gone /\ LiveToken(t) /\ ~token[t].expired /\ Signs(sound))
    BY <1>3 DEF BeginEnroll
  <2>2. t \in Tokens
    BY NamesTyped DEF IInv, EnrollmentTypeOK, Tokens
  <2>3. (~gone /\ LiveToken(t) /\ ~token[t].expired /\ Signs(sound)) \in BOOLEAN
    OBVIOUS
  <2> QED
    BY <2>1, <2>2, <2>3, BeginStep
<1>4. CASE BeginApprove(s)
  <2>1. PICK i \in 1 .. generation :
          Begin(s, "approve", i, ~gone /\ status = "pending" /\ Compared(i))
    BY <1>4 DEF BeginApprove
  <2>2. i \in Identities
    BY NamesTyped DEF IInv, EnrollmentTypeOK, Identities
  <2>3. Compared(i) => Unrevoked(i)
    BY <2>2 DEF Compared
  <2>4. (~gone /\ status = "pending" /\ Compared(i)) \in BOOLEAN
    OBVIOUS
  <2> QED
    BY <2>1, <2>2, <2>3, <2>4, BeginStep
<1> QED
  BY <1>1, <1>2, <1>3, <1>4

\* After the end of a transaction nobody holds the lock, and nobody has a transaction.
LEMMA EndStep ==
    ASSUME EnrollmentTypeOK, LockHeld, NEW s \in Sessions, tx[s].op # "none", End(s)
    PROVE  /\ nodeLock' \in Sessions \union {Free} /\ tx' \in [Sessions -> Transaction]
           /\ LockHeld' /\ ca' = ca
           /\ \A r \in Sessions : tx'[r].op = "none"
<1>1. NoTx \in Transaction /\ NoTx.op = "none"
  BY DEF NoTx, Transaction
<1>2. tx' = [tx EXCEPT ![s] = NoTx] /\ nodeLock = s /\ nodeLock' = Free /\ ca' = ca
  BY DEF End, LockHeld
<1>3. \A r \in Sessions \ {s} : tx[r].op = "none"
  BY <1>2 DEF LockHeld
<1> QED
  BY <1>1, <1>2, <1>3 DEF EnrollmentTypeOK, LockHeld

\* What a transaction that ends owes to the invariant: everything but the lock.
LEMMA EndedStep ==
    ASSUME IInv, NEW s \in Sessions, tx[s].op # "none", End(s),
           (/\ status \in Status /\ gone \in BOOLEAN /\ issued \in 0 .. MaxTokens
            /\ token \in [Tokens -> Token] /\ generation \in 0 .. MaxIdentities
            /\ identity \in [Identities -> Identity] /\ approved \subseteq Identities
            /\ cutoff \in 0 .. MaxTokens)',
           ApprovedOutsidePending', Exchanged', NoneOutlivesCA', OneIdentity', OneExchange',
           RevocationHolds'
    PROVE  IInv'
<1>1. /\ nodeLock' \in Sessions \union {Free} /\ tx' \in [Sessions -> Transaction]
      /\ LockHeld' /\ ca' = ca
      /\ \A r \in Sessions : tx'[r].op = "none"
  BY EndStep DEF IInv
<1>2. ApprovalHolds' /\ EnrollingTokens'
  BY <1>1 DEF ApprovalHolds, EnrollingTokens
<1>3. EnrollmentTypeOK'
  BY <1>1 DEF IInv, EnrollmentTypeOK
<1> QED
  BY <1>1, <1>2, <1>3 DEF IInv

\* A rollback leaves the rows as they were.
LEMMA AbortStep ==
    ASSUME IInv, NEW s \in Sessions, Abort(s)
    PROVE  IInv'
<1>1. tx[s].op # "none" /\ End(s) /\ UNCHANGED <<rows, approved, cutoff>>
  BY DEF Abort
<1>2. /\ ApprovedOutsidePending' /\ Exchanged' /\ NoneOutlivesCA'
      /\ OneIdentity' /\ OneExchange' /\ RevocationHolds'
  BY <1>1 DEF IInv, End, rows, ApprovedOutsidePending, Exchanged, NoneOutlivesCA, OneIdentity,
              OneExchange, RevocationHolds, Unrevoked, LiveToken
<1>3. (/\ status \in Status /\ gone \in BOOLEAN /\ issued \in 0 .. MaxTokens
       /\ token \in [Tokens -> Token] /\ generation \in 0 .. MaxIdentities
       /\ identity \in [Identities -> Identity] /\ approved \subseteq Identities
       /\ cutoff \in 0 .. MaxTokens)'
  BY <1>1 DEF IInv, rows, EnrollmentTypeOK
<1> QED
  BY <1>1, <1>2, <1>3, EndedStep

\* issue_bootstrap_token leaves one live token, newer than any revocation.
LEMMA IssueStep ==
    ASSUME IInv, NEW s \in Sessions, IssueToken(s)
    PROVE  IInv'
<1>1. /\ tx[s].op # "none" /\ End(s) /\ issued < MaxTokens
      /\ issued' = issued + 1 /\ token' = Annulled
      /\ UNCHANGED <<status, gone, generation, identity, approved, cutoff>>
  BY DEF IssueToken
<1>2. /\ issued \in 0 .. MaxTokens /\ generation \in 0 .. MaxIdentities
      /\ cutoff \in 0 .. MaxTokens /\ Tokens = 1 .. MaxTokens
      /\ MaxTokens \in Nat /\ MaxIdentities \in Nat
  BY NamesTyped DEF IInv, EnrollmentTypeOK, Tokens
<1>3. /\ token' \in [Tokens -> Token]
      /\ \A t \in Tokens : /\ token'[t].used = token[t].used
                           /\ t <= issued => token'[t].used \/ token'[t].annulled
  BY <1>1, AnnulledTokens DEF IInv, EnrollmentTypeOK
<1>4. \A t \in Tokens : LiveToken(t)' => t = issued + 1
  BY <1>1, <1>2, <1>3 DEF LiveToken
<1>5. \A i \in Identities : Unrevoked(i)' = Unrevoked(i)
  BY <1>1 DEF Unrevoked
<1>6. Exchanged'
  <2>1. \A i \in 1 .. generation : identity[i].from \in Tokens
    BY <1>2 DEF IInv, Exchanged
  <2> QED
    BY <1>1, <1>2, <1>3, <1>4, <2>1 DEF IInv, Exchanged
<1>7. OneExchange'
  BY <1>1, <1>4 DEF IInv, OneExchange
<1>8. ApprovedOutsidePending' /\ NoneOutlivesCA' /\ OneIdentity' /\ RevocationHolds'
  BY <1>1, <1>5 DEF IInv, End, ApprovedOutsidePending, NoneOutlivesCA, OneIdentity, RevocationHolds
<1>9. (/\ status \in Status /\ gone \in BOOLEAN /\ issued \in 0 .. MaxTokens
       /\ token \in [Tokens -> Token] /\ generation \in 0 .. MaxIdentities
       /\ identity \in [Identities -> Identity] /\ approved \subseteq Identities
       /\ cutoff \in 0 .. MaxTokens)'
  BY <1>1, <1>2, <1>3 DEF IInv, EnrollmentTypeOK
<1> QED
  BY <1>1, <1>6, <1>7, <1>8, <1>9, EndedStep

\* enroll consumes the live token, revokes the earlier identities and waits for approval.
LEMMA EnrollStep ==
    ASSUME IInv, NEW s \in Sessions, Enroll(s)
    PROVE  IInv'
<1> DEFINE t == tx[s].arg
           n == generation + 1
<1>1. /\ tx[s].op = "enroll" /\ End(s) /\ LiveToken(t) /\ generation < MaxIdentities
      /\ token' = [token EXCEPT ![t].used = TRUE]
      /\ generation' = n
      /\ identity' = [AllRevoked EXCEPT ![n] = SignedLeaf(t)]
      /\ status' = OnReenrollment
      /\ UNCHANGED <<gone, issued, approved, cutoff>>
  BY DEF Enroll
<1>2. /\ issued \in 0 .. MaxTokens /\ generation \in 0 .. MaxIdentities
      /\ cutoff \in 0 .. MaxTokens /\ Tokens = 1 .. MaxTokens /\ Identities = 1 .. MaxIdentities
      /\ MaxTokens \in Nat /\ MaxIdentities \in Nat
      /\ t \in 1 .. issued
  BY <1>1, NamesTyped DEF IInv, EnrollmentTypeOK, Tokens, Identities, EnrollingTokens
<1>3. t \in Tokens /\ n \in Identities /\ n \in 0 .. MaxIdentities
  BY <1>1, <1>2
<1> HIDE DEF t, n
<1>4. ASSUME NEW r \in Token
      PROVE  /\ [r EXCEPT !.used = TRUE] \in Token
             /\ [r EXCEPT !.used = TRUE].used
             /\ [r EXCEPT !.used = TRUE].annulled = r.annulled
  BY DEF Token
<1>5. /\ token' \in [Tokens -> Token] /\ token'[t].used
      /\ \A u \in Tokens \ {t} : token'[u] = token[u]
  BY <1>1, <1>3, <1>4 DEF IInv, EnrollmentTypeOK
<1>6. SignedLeaf(t) \in Identity /\ SignedLeaf(t).from = t /\ SignedLeaf(t).expired = ~ca
  <2>1. ca \in BOOLEAN /\ t \in 0 .. MaxTokens
    BY <1>2, <1>3 DEF IInv, EnrollmentTypeOK
  <2> QED
    BY <2>1 DEF SignedLeaf, Identity
<1>7. /\ AllRevoked \in [Identities -> Identity]
      /\ \A i \in Identities : /\ AllRevoked[i].from = identity[i].from
                               /\ AllRevoked[i].expired = identity[i].expired
                               /\ i <= generation => AllRevoked[i].revoked
  BY AllRevokedIdentities DEF IInv, EnrollmentTypeOK
<1>8. /\ identity' \in [Identities -> Identity]
      /\ identity'[n].from = t /\ identity'[n].expired = ~ca
      /\ \A i \in Identities \ {n} : /\ identity'[i].from = identity[i].from
                                     /\ identity'[i].expired = identity[i].expired
                                     /\ i <= generation => identity'[i].revoked
  BY <1>1, <1>3, <1>6, <1>7
<1>9. \A i \in Identities : Unrevoked(i)' => i = n
  BY <1>1, <1>2, <1>8 DEF Unrevoked, n
<1>10. \A u \in Tokens : LiveToken(u)' => LiveToken(u) /\ u # t
  BY <1>1, <1>5 DEF LiveToken
<1>11. Exchanged'
  <2>1. \A i \in 1 .. generation : i \in Identities \ {n} /\ identity[i].from \in Tokens
    BY <1>2 DEF IInv, Exchanged, n
  <2>2. ASSUME NEW i \in 1 .. n
        PROVE  identity'[i].from \in 1 .. issued /\ token'[identity'[i].from].used
    <3>1. CASE i = n
      BY <1>2, <1>5, <1>8, <3>1
    <3>2. CASE i # n
      <4>1. i \in 1 .. generation
        BY <1>2, <3>2 DEF n
      <4>2. /\ identity'[i].from = identity[i].from
            /\ identity[i].from \in 1 .. issued /\ token[identity[i].from].used
        BY <1>8, <2>1, <4>1 DEF IInv, Exchanged
      <4>3. identity[i].from \in Tokens
        BY <2>1, <4>1
      <4> QED
        BY <1>5, <4>2, <4>3
    <3> QED
      BY <3>1, <3>2
  <2>3. cutoff <= issued /\ \A u \in Tokens : LiveToken(u)' => u > cutoff
    BY <1>10 DEF IInv, Exchanged
  <2> QED
    BY <1>1, <2>2, <2>3 DEF Exchanged
<1>12. OneExchange'
  <2>1. \A i \in 1 .. generation : identity[i].from # t
    BY <1>1 DEF IInv, Exchanged, LiveToken, t
  <2>2. ASSUME NEW i \in 1 .. n, NEW j \in 1 .. n, identity'[i].from = identity'[j].from
        PROVE  i = j
    <3>1. \A k \in 1 .. n : \/ k = n
                            \/ k \in 1 .. generation /\ identity'[k].from = identity[k].from
      BY <1>2, <1>3, <1>8 DEF n
    <3> QED
      BY <1>8, <2>1, <2>2, <3>1 DEF IInv, OneExchange
  <2>3. \A u, v \in Tokens : LiveToken(u)' /\ LiveToken(v)' => u = v
    BY <1>10 DEF IInv, OneExchange
  <2> QED
    BY <1>1, <2>2, <2>3 DEF OneExchange
<1>13. OneIdentity' /\ ApprovedOutsidePending'
  BY <1>1, <1>9 DEF OneIdentity, ApprovedOutsidePending, OnReenrollment
<1>14. RevocationHolds'
  <2>1. t > cutoff
    BY <1>1, <1>3 DEF IInv, Exchanged
  <2> QED
    BY <1>1, <1>8, <1>9, <2>1 DEF RevocationHolds
<1>15. NoneOutlivesCA'
  <2>1. \A i \in 1 .. n : i = n \/ (i \in 1 .. generation /\ i \in Identities \ {n})
    BY <1>2, <1>3 DEF n
  <2>2. ca' = ca
    BY <1>1 DEF End
  <2> QED
    BY <1>1, <1>8, <2>1, <2>2 DEF IInv, NoneOutlivesCA
<1>16. (/\ status \in Status /\ gone \in BOOLEAN /\ issued \in 0 .. MaxTokens
       /\ token \in [Tokens -> Token] /\ generation \in 0 .. MaxIdentities
       /\ identity \in [Identities -> Identity] /\ approved \subseteq Identities
       /\ cutoff \in 0 .. MaxTokens)'
  BY <1>1, <1>2, <1>3, <1>5, <1>8, NamesTyped DEF IInv, EnrollmentTypeOK
<1> QED
  BY <1>1, <1>11, <1>12, <1>13, <1>14, <1>15, <1>16, EndedStep

\* approve opens the streams to the one live identity, which was compared under the
\* lock.
LEMMA ApproveStep ==
    ASSUME IInv, NEW s \in Sessions, Approve(s)
    PROVE  IInv'
<1>1. /\ tx[s].op = "approve" /\ End(s)
      /\ status' = "provisioning" /\ approved' = approved \union {tx[s].arg}
      /\ UNCHANGED <<gone, issued, token, generation, identity, cutoff>>
  BY DEF Approve
<1>2. tx[s].arg \in Identities /\ Unrevoked(tx[s].arg)
  BY <1>1 DEF IInv, ApprovalHolds
<1>3. ApprovedOutsidePending'
  BY <1>1, <1>2 DEF IInv, OneIdentity, ApprovedOutsidePending, Unrevoked
<1>4. Exchanged' /\ NoneOutlivesCA' /\ OneIdentity' /\ OneExchange' /\ RevocationHolds'
  BY <1>1 DEF IInv, End, Exchanged, NoneOutlivesCA, OneIdentity, OneExchange, RevocationHolds,
              Unrevoked, LiveToken
<1>5. (/\ status \in Status /\ gone \in BOOLEAN /\ issued \in 0 .. MaxTokens
       /\ token \in [Tokens -> Token] /\ generation \in 0 .. MaxIdentities
       /\ identity \in [Identities -> Identity] /\ approved \subseteq Identities
       /\ cutoff \in 0 .. MaxTokens)'
  BY <1>1, <1>2, NamesTyped DEF IInv, EnrollmentTypeOK
<1> QED
  BY <1>1, <1>3, <1>4, <1>5, EndedStep

\* revoke_identity leaves neither an unrevoked identity nor a live token.
LEMMA RevokeStep ==
    ASSUME IInv, NEW s \in Sessions, RevokeIdentity(s)
    PROVE  IInv'
<1>1. /\ tx[s].op = "revoke" /\ End(s)
      /\ identity' = AllRevoked /\ token' = Annulled
      /\ status' = OnRevocation /\ cutoff' = issued
      /\ UNCHANGED <<gone, issued, generation, approved>>
  BY DEF RevokeIdentity
<1>2. /\ issued \in 0 .. MaxTokens /\ generation \in 0 .. MaxIdentities
      /\ MaxTokens \in Nat /\ MaxIdentities \in Nat
      /\ Tokens = 1 .. MaxTokens /\ Identities = 1 .. MaxIdentities
  BY NamesTyped DEF IInv, EnrollmentTypeOK, Tokens, Identities
<1>3. /\ token' \in [Tokens -> Token]
      /\ \A t \in Tokens : /\ token'[t].used = token[t].used
                           /\ t <= issued => token'[t].used \/ token'[t].annulled
  BY <1>1, AnnulledTokens DEF IInv, EnrollmentTypeOK
<1>4. /\ identity' \in [Identities -> Identity]
      /\ \A i \in Identities : /\ identity'[i].from = identity[i].from
                               /\ identity'[i].expired = identity[i].expired
                               /\ i <= generation => identity'[i].revoked
  BY <1>1, AllRevokedIdentities DEF IInv, EnrollmentTypeOK
<1>5. (\A t \in Tokens : ~LiveToken(t)') /\ (\A i \in Identities : ~Unrevoked(i)')
  BY <1>1, <1>3, <1>4 DEF LiveToken, Unrevoked
<1>6. \A i \in 1 .. generation : i \in Identities /\ identity[i].from \in Tokens
  BY <1>2 DEF IInv, Exchanged
<1>7. Exchanged'
  <2>1. \A i \in 1 .. generation' : /\ identity'[i].from \in 1 .. issued'
                                     /\ token'[identity'[i].from].used
    BY <1>1, <1>3, <1>4, <1>6 DEF IInv, Exchanged
  <2>2. cutoff' <= issued'
    BY <1>1, <1>2
  <2>3. \A t \in Tokens : LiveToken(t)' => t > cutoff'
    BY <1>5
  <2> QED
    BY <2>1, <2>2, <2>3 DEF Exchanged
<1>8. OneExchange'
  BY <1>1, <1>4, <1>5, <1>6 DEF IInv, OneExchange
<1>9. ApprovedOutsidePending' /\ NoneOutlivesCA' /\ OneIdentity' /\ RevocationHolds'
  <2>1. ApprovedOutsidePending' /\ OneIdentity'
    BY <1>5 DEF ApprovedOutsidePending, OneIdentity
  <2>2. NoneOutlivesCA'
    BY <1>1, <1>4, <1>6 DEF IInv, End, NoneOutlivesCA
  <2>3. RevocationHolds'
    BY <1>5 DEF RevocationHolds
  <2> QED
    BY <2>1, <2>2, <2>3
<1>10. (/\ status \in Status /\ gone \in BOOLEAN /\ issued \in 0 .. MaxTokens
       /\ token \in [Tokens -> Token] /\ generation \in 0 .. MaxIdentities
       /\ identity \in [Identities -> Identity] /\ approved \subseteq Identities
       /\ cutoff \in 0 .. MaxTokens)'
  BY <1>1, <1>2, <1>3, <1>4, NamesTyped DEF IInv, EnrollmentTypeOK
<1> QED
  BY <1>1, <1>7, <1>8, <1>9, <1>10, EndedStep

\* Time only makes tokens and identities expire, the identities all with the CA.
LEMMA ExpiryStep ==
    ASSUME IInv, TokenExpires \/ IdentityExpires \/ CAEnds
    PROVE  IInv'
<1>1. ASSUME NEW r \in Token
      PROVE  /\ [r EXCEPT !.expired = TRUE] \in Token
             /\ [r EXCEPT !.expired = TRUE].used = r.used
             /\ [r EXCEPT !.expired = TRUE].annulled = r.annulled
  BY DEF Token
<1>2. ASSUME NEW r \in Identity
      PROVE  /\ [r EXCEPT !.expired = TRUE] \in Identity
             /\ [r EXCEPT !.expired = TRUE].revoked = r.revoked
             /\ [r EXCEPT !.expired = TRUE].from = r.from
  BY DEF Identity
<1>3. /\ UNCHANGED <<status, gone, issued, generation, nodeLock, tx, approved, cutoff>>
      /\ ca' \in BOOLEAN
  BY DEF TokenExpires, IdentityExpires, CAEnds, IInv, EnrollmentTypeOK
<1>4. /\ token' \in [Tokens -> Token]
      /\ \A t \in Tokens : token'[t].used = token[t].used /\ token'[t].annulled = token[t].annulled
  <2>1. token \in [Tokens -> Token]
    BY DEF IInv, EnrollmentTypeOK
  <2>2. CASE TokenExpires
    BY <1>1, <2>1, <2>2 DEF TokenExpires
  <2>3. CASE IdentityExpires
    BY <2>1, <2>3 DEF IdentityExpires
  <2>4. CASE CAEnds
    BY <2>1, <2>4 DEF CAEnds
  <2> QED
    BY <2>2, <2>3, <2>4
<1>5. /\ identity' \in [Identities -> Identity]
      /\ \A i \in Identities : /\ identity'[i].revoked = identity[i].revoked
                               /\ identity'[i].from = identity[i].from
  <2>1. identity \in [Identities -> Identity]
    BY DEF IInv, EnrollmentTypeOK
  <2>2. CASE TokenExpires
    BY <2>1, <2>2 DEF TokenExpires
  <2>3. CASE IdentityExpires
    BY <1>2, <2>1, <2>3 DEF IdentityExpires
  <2>4. CASE CAEnds
    BY <1>2, <2>1, <2>4 DEF CAEnds
  <2> QED
    BY <2>2, <2>3, <2>4
<1>6. /\ \A t \in Tokens : LiveToken(t)' = LiveToken(t)
      /\ \A i \in Identities : Unrevoked(i)' = Unrevoked(i)
  BY <1>3, <1>4, <1>5 DEF LiveToken, Unrevoked
<1>7. \A i \in 1 .. generation : i \in Identities /\ identity[i].from \in Tokens
  BY NamesTyped DEF IInv, EnrollmentTypeOK, Exchanged, Tokens, Identities
<1>8. EnrollmentTypeOK' /\ LockHeld' /\ EnrollingTokens'
  BY <1>3, <1>4, <1>5 DEF IInv, EnrollmentTypeOK, LockHeld, EnrollingTokens
<1>9. ApprovalHolds' /\ ApprovedOutsidePending'
  BY <1>3, <1>6 DEF IInv, ApprovalHolds, ApprovedOutsidePending
<1>10. Exchanged' /\ OneExchange'
  BY <1>3, <1>4, <1>5, <1>6, <1>7 DEF IInv, Exchanged, OneExchange
<1>11. OneIdentity' /\ RevocationHolds'
  BY <1>3, <1>5, <1>6 DEF IInv, OneIdentity, RevocationHolds
<1>12. NoneOutlivesCA'
  <2>1. ASSUME NEW r \in Identity
        PROVE  [r EXCEPT !.expired = TRUE].expired
    BY DEF Identity
  <2>2. \A i \in 1 .. generation :
          i \in Identities /\ i <= generation /\ identity[i] \in Identity
    BY <1>7, NamesTyped DEF IInv, EnrollmentTypeOK
  <2>3. CASE CAEnds
    BY <1>3, <2>1, <2>2, <2>3 DEF CAEnds, NoneOutlivesCA
  <2>4. CASE IdentityExpires
    <3>1. PICK k \in 1 .. generation :
            identity' = [identity EXCEPT ![k].expired = TRUE] /\ ca' = ca
      BY <2>4 DEF IdentityExpires
    <3>2. \A i \in 1 .. generation : identity[i].expired => identity'[i].expired
      BY <2>1, <2>2, <3>1 DEF IInv, EnrollmentTypeOK
    <3> QED
      BY <1>3, <3>1, <3>2 DEF IInv, NoneOutlivesCA
  <2>5. CASE TokenExpires
    BY <1>3, <2>5 DEF TokenExpires, IInv, NoneOutlivesCA
  <2> QED
    BY <2>3, <2>4, <2>5
<1> QED
  BY <1>8, <1>9, <1>10, <1>11, <1>12 DEF IInv

\* Without a transaction under way the statuses follow the matrix, which does not
\* lead out of pending here, and the node may be decommissioned.
LEMMA StatusStep ==
    ASSUME IInv, ChangeStatus \/ Decommission
    PROVE  IInv'
<1>1. /\ nodeLock = Free
      /\ UNCHANGED <<issued, token, generation, identity, nodeLock, tx, approved, cutoff, ca>>
      /\ status' = status \/ (status # "pending" /\ status' \in Transitions(status))
      /\ gone' \in BOOLEAN
  BY DEF ChangeStatus, Decommission, IInv, EnrollmentTypeOK
<1>2. status' \in Status /\ (status' # "pending" => status # "pending")
  BY <1>1, TransitionsAreStatuses DEF IInv, EnrollmentTypeOK
<1>3. \A s \in Sessions : tx[s].op = "none"
  BY <1>1, SessionsAssumption DEF IInv, LockHeld
<1>4. EnrollmentTypeOK' /\ LockHeld' /\ EnrollingTokens'
  BY <1>1, <1>2 DEF IInv, EnrollmentTypeOK, LockHeld, EnrollingTokens
<1>5. ApprovalHolds'
  BY <1>1, <1>3 DEF ApprovalHolds
<1>6. ApprovedOutsidePending'
  BY <1>1, <1>2 DEF IInv, ApprovedOutsidePending, Unrevoked
<1>7. Exchanged' /\ NoneOutlivesCA' /\ OneIdentity' /\ OneExchange' /\ RevocationHolds'
  BY <1>1 DEF IInv, Exchanged, NoneOutlivesCA, OneIdentity, OneExchange, RevocationHolds,
              Unrevoked, LiveToken
<1> QED
  BY <1>4, <1>5, <1>6, <1>7 DEF IInv

\* A step that changes nothing keeps the invariant.
LEMMA StutterStep ==
    ASSUME IInv, UNCHANGED enrollmentVars
    PROVE  IInv'
BY DEF enrollmentVars, rows, IInv, EnrollmentTypeOK, LockHeld, ApprovalHolds, EnrollingTokens,
       ApprovedOutsidePending,
       Exchanged, NoneOutlivesCA, OneIdentity, OneExchange, RevocationHolds, Unrevoked, LiveToken

\* The invariant is inductive.
LEMMA StepIInv == IInv /\ [EnrollmentNext]_enrollmentVars => IInv'
<1> SUFFICES ASSUME IInv, [EnrollmentNext]_enrollmentVars PROVE IInv'
  OBVIOUS
<1>1. ASSUME NEW s \in Sessions,
             BeginIssue(s) \/ BeginEnroll(s) \/ BeginApprove(s) \/ BeginRevoke(s)
      PROVE  IInv'
  BY <1>1, BeginSteps
<1>2. ASSUME NEW s \in Sessions,
             IssueToken(s) \/ Enroll(s) \/ Approve(s) \/ RevokeIdentity(s) \/ Abort(s)
      PROVE  IInv'
  BY <1>2, IssueStep, EnrollStep, ApproveStep, RevokeStep, AbortStep
<1>3. CASE TokenExpires \/ IdentityExpires \/ CAEnds
  BY <1>3, ExpiryStep
<1>4. CASE ChangeStatus \/ Decommission
  BY <1>4, StatusStep
<1>5. CASE UNCHANGED enrollmentVars
  BY <1>5, StutterStep
<1> QED
  BY <1>1, <1>2, <1>3, <1>4, <1>5 DEF EnrollmentNext

---------------------------------------------------------------------------
(* Theorems.                                                               *)

\* The inductive invariant of a node's identities holds always.
THEOREM Invariance == EnrollmentSpec => []IInv
BY InitIInv, StepIInv, PTL DEF EnrollmentSpec

\* The tables and the open transactions keep their types; every status written is
\* one the matrix knows.
THEOREM TypeCorrect == EnrollmentSpec => []EnrollmentTypeOK
<1>1. IInv => EnrollmentTypeOK
  BY DEF IInv
<1> QED
  BY <1>1, Invariance, PTL

\* The streams of a node are open to approved identities only.
THEOREM ServedWereApproved == EnrollmentSpec => []OnlyApprovedServed
<1>1. ASSUME IInv PROVE OnlyApprovedServed
  <2> SUFFICES ASSUME NEW i \in Identities, Usable(i)
               PROVE  ca /\ (Gate(status) # "refused" => i \in approved)
    BY DEF OnlyApprovedServed
  <2>1. Gate(status) # "refused" => i \in approved
    BY <1>1 DEF IInv, ApprovedOutsidePending, Usable, Gate
  <2>2. i \in 1 .. generation /\ ~identity[i].expired
    BY <1>1, NamesTyped DEF IInv, EnrollmentTypeOK, Usable, Unrevoked, Identities
  <2> QED
    BY <1>1, <2>1, <2>2 DEF IInv, EnrollmentTypeOK, NoneOutlivesCA
<1> QED
  BY <1>1, Invariance, PTL

\* At most one identity of a node is not revoked.
THEOREM IdentityIsOne == EnrollmentSpec => []OneIdentity
<1>1. IInv => OneIdentity
  BY DEF IInv
<1> QED
  BY <1>1, Invariance, PTL

\* A token makes at most one identity, and at most one token is live.
THEOREM ExchangedOnce == EnrollmentSpec => []OneExchange
<1>1. IInv => OneExchange
  BY DEF IInv
<1> QED
  BY <1>1, Invariance, PTL

\* Nothing issued before a revocation brings the node back.
THEOREM RevocationIsFinal == EnrollmentSpec => []RevocationHolds
<1>1. IInv => RevocationHolds
  BY DEF IInv
<1> QED
  BY <1>1, Invariance, PTL
=============================================================================
