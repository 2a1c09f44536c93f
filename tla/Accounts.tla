----------------------------- MODULE Accounts -----------------------------
(***************************************************************************)
(* One user's account and its sessions: registration, links sent by        *)
(* e-mail and change of password in PostgreSQL (app/domain/users.py), the  *)
(* sessions and the index of a subject's sessions in Redis                 *)
(* (app/security/sessions.py), and the handlers that call one and then the *)
(* other (app/api/auth.py).                                                *)
(*                                                                         *)
(* Each call of Redis is a step: between reading the index and deleting    *)
(* what was read, between reading a session and prolonging it, other       *)
(* requests run, keys expire and the process may die.                      *)
(***************************************************************************)
EXTENDS Naturals, FiniteSets

CONSTANTS
    Requests,   \* requests served at a time
    Sids,       \* bound: sessions ever opened, numbered in their order
    Links,      \* bound: e-mail tokens ever issued, numbered in their order
    Idleness    \* USER_SESSION_TTL, in ticks

ASSUME AccountsAssumption ==
    Sids \subseteq Nat /\ Links \subseteq Nat /\ Idleness \in Nat \ {0}

VARIABLES
    account,   \* the row of users; password counts the changes of password, and
               \* answered (auxiliary) has those whose reset has been answered
    links,     \* email_tokens: what each one is good for
    sessions,  \* the keys sess:{sid} of Redis
    index,     \* the key user_sessions:{subject_id}: it exists while it has members
    requests   \* what each request does next, and what it has read

accountsVars == <<account, links, sessions, index, requests>>

Passwords == 0 .. Cardinality(Links)

\* Auxiliary: the password the session's login proved, and the one in force when the
\* session was opened.
Session == [state : {"unborn", "live", "ended"},
            left : 0 .. Idleness,
            proved : Passwords,
            since : Passwords]

Unborn == [state |-> "unborn", left |-> 0, proved |-> 0, since |-> 0]
NoIndex == [members |-> {}, left |-> 0]

\* password: the one a login proved, or a reset set.
Request == [at : {"idle", "authenticated", "probing", "creating", "seen", "again",
                  "owner", "revoking", "gathering", "deleting"},
            op : {"login", "request", "logout", "logout_all", "leave", "reset"},
            sid : Sids \union {0},
            read : SUBSET Sids,
            password : Passwords]

Idling == [at |-> "idle", op |-> "request", sid |-> 0, read |-> {}, password |-> 0]

AccountsTypeOK ==
    /\ account \in [registered : BOOLEAN, verified : BOOLEAN, password : Passwords,
                    answered : SUBSET Passwords]
    /\ links \in [Links -> {"unissued", "verify", "reset", "void"}]
    /\ sessions \in [Sids -> Session]
    /\ index \in [members : SUBSET Sids, left : 0 .. Idleness]
    /\ index.members = {} <=> index.left = 0
    /\ requests \in [Requests -> Request]

AccountsInit ==
    /\ account = [registered |-> FALSE, verified |-> FALSE, password |-> 0,
                   answered |-> {}]
    /\ links = [l \in Links |-> "unissued"]
    /\ sessions = [s \in Sids |-> Unborn]
    /\ index = NoIndex
    /\ requests = [r \in Requests |-> Idling]

Live(s) == sessions[s].state = "live"
Ended == [Unborn EXCEPT !.state = "ended"]

---------------------------------------------------------------------------
(* users.py: each operation is one transaction, and the links are used by  *)
(* an UPDATE that finds them unused.                                       *)

Issue(kind) ==
    \E l \in Links :
        /\ links[l] = "unissued"
        /\ \A k \in Links : links[k] = "unissued" => l <= k
        /\ links' = [links EXCEPT ![l] = kind]

Register ==
    /\ ~account.registered
    /\ account' = [account EXCEPT !.registered = TRUE]
    /\ Issue("verify")
    /\ UNCHANGED <<sessions, index, requests>>

VerifyEmail ==
    /\ \E l \in Links : links[l] = "verify" /\ links' = [links EXCEPT ![l] = "void"]
    /\ account' = [account EXCEPT !.verified = TRUE]
    /\ UNCHANGED <<sessions, index, requests>>

RequestReset ==
    /\ account.verified
    /\ Issue("reset")
    /\ UNCHANGED <<account, sessions, index, requests>>

LinkExpires ==
    /\ \E l \in Links : links[l] \in {"verify", "reset"} /\ links' = [links EXCEPT ![l] = "void"]
    /\ UNCHANGED <<account, sessions, index, requests>>

---------------------------------------------------------------------------
(* login: the password is checked in PostgreSQL, the session opened after. *)

Step(r, changes) == requests' = [requests EXCEPT ![r] = changes]

Authenticate(r) ==
    /\ requests[r].at = "idle"
    /\ account.verified
    /\ Step(r, [Idling EXCEPT !.at = "authenticated", !.op = "login",
                              !.password = account.password])
    /\ UNCHANGED <<account, links, sessions, index>>

ReadMembers(r) ==
    /\ requests[r].at = "authenticated"
    /\ Step(r, [requests[r] EXCEPT !.at = "probing", !.read = index.members])
    /\ UNCHANGED <<account, links, sessions, index>>

\* The members without a session; a session that ends while the others are
\* looked up is left to the next login.
ProbeMembers(r) ==
    /\ requests[r].at = "probing"
    /\ Step(r, [requests[r] EXCEPT !.at = "creating", !.read = {s \in @ : ~Live(s)}])
    /\ UNCHANGED <<account, links, sessions, index>>

\* Variant: the index keeps the lifetime it was created with.
ProlongedOnce(members) ==
    [members |-> members, left |-> IF index.left = 0 THEN Idleness ELSE index.left]

\* EXPIRE ... GT and then NX: with one lifetime for all sessions of a subject, GT
\* always prolongs, and NX gives a lifetime to an index that has just appeared.
Prolonged(members) ==
    [members |-> members, left |-> IF members = {} THEN 0 ELSE Idleness]

\* The session, its place in the index and both lifetimes, in one MULTI.
CreateSession(r) ==
    \E s \in Sids :
        /\ requests[r].at = "creating"
        /\ ~\E k \in Sids : k < s /\ sessions[k].state = "unborn"
        /\ sessions[s].state = "unborn"
        /\ sessions' = [sessions EXCEPT ![s] =
               [state |-> "live", left |-> Idleness,
                proved |-> requests[r].password, since |-> account.password]]
        /\ index' = Prolonged((index.members \ requests[r].read) \union {s})
        /\ Step(r, Idling)
        /\ UNCHANGED <<account, links>>

---------------------------------------------------------------------------
(* A request with a session's cookie: get reads the session, then prolongs *)
(* it; logging out reads it twice, for the CSRF token and for itself.      *)

Present(r, s, op) ==
    /\ requests[r].at = "idle"
    /\ Live(s)
    /\ Step(r, [Idling EXCEPT !.at = "seen", !.op = op, !.sid = s])
    /\ UNCHANGED <<account, links, sessions, index>>

AfterGet(op) == CASE op = "request" -> "idle"
                  [] op = "logout" -> "owner"
                  [] op = "logout_all" -> "again"
                  [] op = "leave" -> "gathering"

Onward(r) ==
    LET at == AfterGet(requests[r].op) IN
    IF at = "idle" THEN Idling ELSE [requests[r] EXCEPT !.at = at]

\* EXPIRE does nothing to a session that has ended since it was read.
ProlongSession(r) ==
    LET s == requests[r].sid IN
    /\ requests[r].at = "seen"
    /\ sessions' = IF Live(s) THEN [sessions EXCEPT ![s].left = Idleness] ELSE sessions
    /\ index' = Prolonged(index.members)
    /\ Step(r, Onward(r))
    /\ UNCHANGED <<account, links>>

\* logout_all reads the session again; without one it ends nothing.
PresentAgain(r) ==
    /\ requests[r].at = "again"
    /\ Step(r, IF Live(requests[r].sid)
               THEN [requests[r] EXCEPT !.at = "seen", !.op = "leave"] ELSE Idling)
    /\ UNCHANGED <<account, links, sessions, index>>

\* revoke: the owner of the session, by which its index is found.
ReadOwner(r) ==
    /\ requests[r].at = "owner"
    /\ Step(r, IF Live(requests[r].sid) THEN [requests[r] EXCEPT !.at = "revoking"] ELSE Idling)
    /\ UNCHANGED <<account, links, sessions, index>>

\* Variant: the sessions leave the index and stay.
EndAllEntries(ended) ==
    /\ index' = IF index.members \subseteq ended THEN NoIndex
                ELSE [index EXCEPT !.members = @ \ ended]
    /\ UNCHANGED sessions

EndAll(ended) ==
    LET left == index.members \ ended IN
    /\ sessions' = [s \in Sids |-> IF s \in ended /\ Live(s) THEN Ended ELSE sessions[s]]
    /\ index' = IF left = {} THEN NoIndex ELSE [index EXCEPT !.members = left]

Revoke(r) ==
    /\ requests[r].at = "revoking"
    /\ EndAll({requests[r].sid})
    /\ Step(r, Idling)
    /\ UNCHANGED <<account, links>>

---------------------------------------------------------------------------
(* reset_confirm: the link is used and the password changed in one         *)
(* transaction; then revoke_all, as in logout_all.                         *)

ConfirmReset(r) ==
    /\ requests[r].at = "idle"
    /\ \E l \in Links : links[l] = "reset" /\ links' = [links EXCEPT ![l] = "void"]
    /\ account' = [account EXCEPT !.password = @ + 1]
    /\ Step(r, [Idling EXCEPT !.at = "gathering", !.op = "reset",
                              !.password = account.password + 1])
    /\ UNCHANGED <<sessions, index>>

\* revoke_all: SMEMBERS, and later one MULTI over what it returned.
Gather(r) ==
    /\ requests[r].at = "gathering"
    /\ Step(r, [requests[r] EXCEPT !.at = "deleting", !.read = index.members])
    /\ UNCHANGED <<account, links, sessions, index>>

RevokeAll(r) ==
    /\ requests[r].at = "deleting"
    /\ EndAll(requests[r].read)
    /\ account' = IF requests[r].op = "reset"
                  THEN [account EXCEPT !.answered = @ \union {requests[r].password}]
                  ELSE account
    /\ Step(r, Idling)
    /\ UNCHANGED links

---------------------------------------------------------------------------
\* The process dies, or Redis fails: what the request had yet to do is not done.
Abandoned(r) ==
    /\ requests[r].at # "idle"
    /\ Step(r, Idling)
    /\ UNCHANGED <<account, links, sessions, index>>

\* Time passes: a key whose time is over is gone.
Idle ==
    /\ \E s \in Sids : Live(s)
    /\ sessions' = [s \in Sids |->
           IF ~Live(s) THEN sessions[s]
           ELSE IF sessions[s].left = 1 THEN Ended
           ELSE [sessions[s] EXCEPT !.left = @ - 1]]
    /\ index' = IF index.left <= 1 THEN NoIndex ELSE [index EXCEPT !.left = @ - 1]
    /\ UNCHANGED <<account, links, requests>>

Serve(r) ==
    \/ Authenticate(r) \/ ReadMembers(r) \/ ProbeMembers(r) \/ CreateSession(r)
    \/ \E s \in Sids, op \in {"request", "logout", "logout_all"} : Present(r, s, op)
    \/ ProlongSession(r) \/ PresentAgain(r) \/ ReadOwner(r) \/ Revoke(r)
    \/ ConfirmReset(r) \/ Gather(r) \/ RevokeAll(r) \/ Abandoned(r)

AccountsNext ==
    \/ Register \/ VerifyEmail \/ RequestReset \/ LinkExpires \/ Idle
    \/ \E r \in Requests : Serve(r)

AccountsSpec == AccountsInit /\ [][AccountsNext]_accountsVars

---------------------------------------------------------------------------
(* Properties.                                                             *)

\* Whatever is live can be found to be ended: every live session is in the index
\* of its subject, and the index does not expire before it, although sessions are
\* prolonged, cleaned out and ended by requests that read them earlier.
SessionsIndexed ==
    \A s \in Sids : Live(s) => s \in index.members /\ sessions[s].left <= index.left

\* UC-15, step 5, as far as the code keeps it: once a reset has been answered, no session
\* that was opened before its password was set is live, whatever was logging in, out or
\* prolonging meanwhile and whichever other resets were under way.
ResetEndsEarlierSessions ==
    \A s \in Sids : Live(s) => \A p \in account.answered : p <= sessions[s].since

\* Under way: the password is changed, and the sessions are yet to be ended.
Resetting(r) == requests[r].op = "reset" /\ requests[r].at \in {"gathering", "deleting"}

\* UC-15, step 5, as app/api/auth.py:277 puts it ("previous sessions are void"): a session
\* proved by an earlier password is live only while a reset is under way, which will end it.
\* A reset cut short leaves such sessions, and so does a login that checked the password
\* before a reset and opens its session after it was answered.
OldPasswordIsOut ==
    \A s \in Sids :
        Live(s) /\ sessions[s].proved < account.password => \E r \in Requests : Resetting(r)
=============================================================================
