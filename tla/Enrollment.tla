----------------------------- MODULE Enrollment -----------------------------
(***************************************************************************)
(* Bootstrap tokens, identities and the approval of one node               *)
(* (NodeService in app/domain/nodes.py).                                   *)
(*                                                                         *)
(* Every operation is a transaction that locks the row of the node, then   *)
(* reads, then writes.  Here it is two steps, Begin (the lock and the      *)
(* reads) and Commit (the writes and the release), so that what was read   *)
(* can be stale if the lock does not hold; several sessions run at once.   *)
(***************************************************************************)
EXTENDS Integers, FiniteSets, NodeStatus, ConcurrentSessions

CONSTANTS
    MaxTokens,      \* bound: tokens ever issued
    MaxIdentities   \* bound: generations of the node's identity

ASSUME TokensAssumption == MaxTokens \in Nat /\ MaxIdentities \in Nat

VARIABLES
    status,     \* nodes.status
    gone,       \* nodes.decommissioned_at is not null
    issued,     \* tokens issued so far: they are named 1 .. issued
    token,      \* bootstrap_tokens
    generation, \* identities so far: they are named 1 .. generation
    identity,   \* node_identities
    nodeLock,   \* row lock of the node
    tx,         \* the open transaction of each session
    approved,   \* auxiliary: identities an administrator compared and approved
    cutoff,     \* auxiliary: tokens issued before the last revocation
    ca          \* the certificate of the CA of the nodes is within its term

rows == <<status, gone, issued, token, generation, identity>>
enrollmentVars == <<rows, nodeLock, tx, approved, cutoff, ca>>

Tokens == 1 .. MaxTokens
Identities == 1 .. MaxIdentities

NoToken == [used |-> FALSE, annulled |-> FALSE, expired |-> FALSE]
NoIdentity == [revoked |-> FALSE, expired |-> FALSE, from |-> 0]
NoTx == [op |-> "none", arg |-> 0]

Token == [used : BOOLEAN, annulled : BOOLEAN, expired : BOOLEAN]
Identity == [revoked : BOOLEAN, expired : BOOLEAN, from : 0 .. MaxTokens]
Transaction == [op : {"none", "issue", "enroll", "approve", "revoke", "refused"},
                arg : Tokens \union Identities \union {0}]

EnrollmentTypeOK ==
    /\ status \in Status
    /\ gone \in BOOLEAN
    /\ issued \in 0 .. MaxTokens
    /\ token \in [Tokens -> Token]
    /\ generation \in 0 .. MaxIdentities
    /\ identity \in [Identities -> Identity]
    /\ nodeLock \in Sessions \union {Free}
    /\ tx \in [Sessions -> Transaction]
    /\ approved \subseteq Identities
    /\ cutoff \in 0 .. MaxTokens
    /\ ca \in BOOLEAN

EnrollmentInit ==
    /\ status = "pending"
    /\ gone = FALSE
    /\ issued = 0
    /\ token = [t \in Tokens |-> NoToken]
    /\ generation = 0
    /\ identity = [i \in Identities |-> NoIdentity]
    /\ nodeLock = Free
    /\ tx = [s \in Sessions |-> NoTx]
    /\ approved = {}
    /\ cutoff = 0
    /\ ca = TRUE

Unrevoked(i) == i <= generation /\ ~identity[i].revoked

\* usable of _NODE_BY_FINGERPRINT: what by_identity lets in.
Usable(i) == Unrevoked(i) /\ ~identity[i].expired /\ ~gone

LiveToken(t) == t <= issued /\ ~token[t].used /\ ~token[t].annulled

---------------------------------------------------------------------------
(* Transactions: the lock of the node, and what they read under it.        *)

Begin(s, op, arg, ok) ==
    /\ tx[s].op = "none"
    /\ nodeLock = Free
    /\ nodeLock' = s
    /\ tx' = [tx EXCEPT ![s] = [op |-> IF ok THEN op ELSE "refused", arg |-> arg]]
    /\ UNCHANGED <<rows, approved, cutoff, ca>>

\* issue_bootstrap_token: refused for a node that is gone.
BeginIssue(s) == Begin(s, "issue", 0, ~gone)

\* sign_csr: nothing is signed outside the CA's term, nor a request whose key or
\* signature is not what it should be.
Signs(sound) == ca /\ sound

\* enroll: the token is looked up before the lock (any token once issued) and
\* read again under it, then the request is signed; a refusal leaves the token.
BeginEnroll(s) ==
    \E t \in 1 .. issued, sound \in BOOLEAN :
        Begin(s, "enroll", t, ~gone /\ LiveToken(t) /\ ~token[t].expired /\ Signs(sound))

\* The identity compared is the only live one of the node.
\* Variant: the node has some live identity.
ComparedAny(i) == \E j \in Identities : Unrevoked(j) /\ ~identity[j].expired

Compared(i) == {j \in Identities : Unrevoked(j) /\ ~identity[j].expired} = {i}

\* approve, with the fingerprint of any identity the administrator ever saw: the
\* live identities must be that one alone.
BeginApprove(s) ==
    \E i \in 1 .. generation :
        Begin(s, "approve", i,
              /\ ~gone
              /\ status = "pending"
              /\ Compared(i))

BeginRevoke(s) == Begin(s, "revoke", 0, TRUE)

End(s) ==
    /\ nodeLock' = IF nodeLock = s THEN Free ELSE nodeLock
    /\ tx' = [tx EXCEPT ![s] = NoTx]
    /\ UNCHANGED ca

\* A refusal, an error, or a broken connection: rolled back.
Abort(s) ==
    /\ tx[s].op # "none"
    /\ End(s)
    /\ UNCHANGED <<rows, approved, cutoff>>

---------------------------------------------------------------------------
(* What they write.                                                        *)

\* Variant: earlier tokens stay valid.
AnnulledNone == token

\* _ANNUL_TOKENS
Annulled ==
    [t \in Tokens |-> IF LiveToken(t) THEN [token[t] EXCEPT !.annulled = TRUE] ELSE token[t]]

\* Variant: earlier identities stay valid.
AllRevokedNone == identity

AllRevoked == [i \in Identities |-> IF i <= generation
                                    THEN [identity[i] EXCEPT !.revoked = TRUE] ELSE identity[i]]

IssueToken(s) ==
    /\ tx[s].op = "issue"
    /\ issued < MaxTokens
    /\ issued' = issued + 1
    /\ token' = Annulled
    /\ End(s)
    /\ UNCHANGED <<status, gone, generation, identity, approved, cutoff>>

\* What was signed: sign_csr cuts the leaf to the term of the CA, which may have
\* ended since the moment it was signed for.
SignedLeaf(t) == [revoked |-> FALSE, expired |-> ~ca, from |-> t]

\* The token is consumed only if it still is live; then the identities of the
\* node are replaced by the next generation, and the node waits for approval.
Enroll(s) ==
    LET t == tx[s].arg IN
    /\ tx[s].op = "enroll"
    /\ LiveToken(t)
    /\ generation < MaxIdentities
    /\ token' = [token EXCEPT ![t].used = TRUE]
    /\ generation' = generation + 1
    /\ identity' = [AllRevoked EXCEPT ![generation + 1] = SignedLeaf(t)]
    /\ status' = OnReenrollment
    /\ End(s)
    /\ UNCHANGED <<gone, issued, approved, cutoff>>

Approve(s) ==
    /\ tx[s].op = "approve"
    /\ status' = "provisioning"
    /\ approved' = approved \union {tx[s].arg}
    /\ End(s)
    /\ UNCHANGED <<gone, issued, token, generation, identity, cutoff>>

RevokeIdentity(s) ==
    /\ tx[s].op = "revoke"
    /\ identity' = AllRevoked
    /\ token' = Annulled
    /\ status' = OnRevocation
    /\ cutoff' = issued
    /\ End(s)
    /\ UNCHANGED <<gone, issued, generation, approved>>

---------------------------------------------------------------------------
(* Time, and the operations the code declares and does not implement yet.  *)

TokenExpires ==
    /\ \E t \in 1 .. issued : token' = [token EXCEPT ![t].expired = TRUE]
    /\ UNCHANGED <<status, gone, issued, generation, identity, nodeLock, tx, approved, cutoff, ca>>

IdentityExpires ==
    /\ \E i \in 1 .. generation : identity' = [identity EXCEPT ![i].expired = TRUE]
    /\ UNCHANGED <<status, gone, issued, token, generation, nodeLock, tx, approved, cutoff, ca>>

\* No leaf outlives the CA that signed it.
CAEnds ==
    /\ ca
    /\ ca' = FALSE
    /\ identity' = [i \in Identities |-> IF i <= generation
                                        THEN [identity[i] EXCEPT !.expired = TRUE] ELSE identity[i]]
    /\ UNCHANGED <<status, gone, issued, token, generation, nodeLock, tx, approved, cutoff>>

\* External, not implemented yet: the automatic rules and the manual status follow
\* the matrix; leaving pending is approve's alone.
ChangeStatus ==
    /\ nodeLock = Free
    /\ status # "pending"
    /\ status' \in Transitions(status)
    /\ UNCHANGED <<gone, issued, token, generation, identity, nodeLock, tx, approved, cutoff, ca>>

\* External, not implemented yet: decommission.
Decommission ==
    /\ nodeLock = Free
    /\ gone' = TRUE
    /\ UNCHANGED <<status, issued, token, generation, identity, nodeLock, tx, approved, cutoff, ca>>

EnrollmentNext ==
    \/ \E s \in Sessions :
          \/ BeginIssue(s) \/ BeginEnroll(s) \/ BeginApprove(s) \/ BeginRevoke(s)
          \/ IssueToken(s) \/ Enroll(s) \/ Approve(s) \/ RevokeIdentity(s) \/ Abort(s)
    \/ TokenExpires \/ IdentityExpires \/ CAEnds \/ ChangeStatus \/ Decommission

EnrollmentSpec == EnrollmentInit /\ [][EnrollmentNext]_enrollmentVars

---------------------------------------------------------------------------
(* Properties.                                                             *)

\* The streams of the node open only to an identity whose fingerprint an
\* administrator compared: however exchange, approval, revocation and the
\* statuses interleave, a usable identity in a status that is served was approved.
\* And whoever the database lets in the proxy lets in: an identity is not usable
\* past the term of the CA, also when the CA ends while the exchange is under way.
OnlyApprovedServed ==
    \A i \in Identities :
        Usable(i) => ca /\ (Gate(status) # "refused" => i \in approved)

\* One node, one identity: a new exchange or a revocation ends the earlier ones.
OneIdentity ==
    \A i, j \in Identities : Unrevoked(i) /\ Unrevoked(j) => i = j

\* A token is exchanged once, and at most one is waiting to be exchanged.
OneExchange ==
    /\ \A i, j \in 1 .. generation : identity[i].from = identity[j].from => i = j
    /\ \A t, u \in Tokens : LiveToken(t) /\ LiveToken(u) => t = u

\* A revoked node returns only by a token issued after the revocation.
RevocationHolds ==
    \A i \in Identities : Unrevoked(i) => identity[i].from > cutoff
=============================================================================
