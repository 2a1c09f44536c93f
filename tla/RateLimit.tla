----------------------------- MODULE RateLimit -----------------------------
(***************************************************************************)
(* One counter of app/security/ratelimit.py: a sliding window kept as a    *)
(* sorted set of Redis.  Every call reads the clock of its process first   *)
(* and runs an atomic script with that reading later, so that scripts run  *)
(* in another order than their readings were taken.                        *)
(*                                                                         *)
(* Time is relative: a score is kept as its age, the time since the moment *)
(* it stands for.                                                          *)
(***************************************************************************)
EXTENDS Integers

CONSTANTS
    Callers,    \* calls under way at a time
    Count,      \* Limit.count
    Window,     \* Limit.window_s, in ticks
    Lag,        \* how long after its reading of the clock a script may run
    Most        \* bound: attempts in the set, the refused ones included

ASSUME RateLimitAssumption ==
    /\ Count \in Nat \ {0}
    /\ Window \in Nat \ {0}
    /\ Lag \in 0 .. Window - 1
    /\ Most \in Nat

VARIABLES
    attempts,   \* members of the sorted set by the age of their score
    lifetime,   \* ticks until the key expires
    calls,      \* of each caller: the operation and the age of its reading
    granted     \* auxiliary: attempts let through by the age of their script

limitVars == <<attempts, lifetime, calls, granted>>

\* Older scores go with the next script, whatever its reading of the clock.
Oldest == Window + Lag
Ages == 0 .. Oldest
None == [age \in Ages |-> 0]

Quiet == [op |-> "none", age |-> 0]

LimitTypeOK ==
    /\ attempts \in [Ages -> 0 .. Most]
    /\ lifetime \in 0 .. Window
    /\ calls \in [Callers -> [op : {"none", "check", "peek"}, age : 0 .. Lag]]
    /\ granted \in [Ages -> 0 .. Most]

LimitInit ==
    /\ attempts = None
    /\ lifetime = 0
    /\ calls = [c \in Callers |-> Quiet]
    /\ granted = None

\* How many are no older than that.
Upto(bag, age) ==
    LET sum[a \in Ages] == bag[a] + (IF a = 0 THEN 0 ELSE sum[a - 1]) IN sum[age]

---------------------------------------------------------------------------
\* now_ms is read; peek and retry_after run the same script.
ReadClock(c, op) ==
    /\ calls[c] = Quiet
    /\ calls' = [calls EXCEPT ![c] = [op |-> op, age |-> 0]]
    /\ UNCHANGED <<attempts, lifetime, granted>>

\* Variant: the scores of the last tick of the window go as well.
TrimmedEarly(age) ==
    [a \in Ages |-> IF a >= Window - 1 + age THEN 0 ELSE attempts[a]]

\* ZREMRANGEBYSCORE 0 .. now - window, both ends included.
Trimmed(age) == [a \in Ages |-> IF a >= Window + age THEN 0 ELSE attempts[a]]

\* check: the attempt is added first, and refused when it is one too many; a
\* refused one stays in the set.
Check(c) ==
    LET age == calls[c].age
        counted == [Trimmed(age) EXCEPT ![age] = @ + 1]
    IN
    /\ calls[c].op = "check"
    /\ Upto(counted, Oldest) <= Most
    /\ attempts' = counted
    /\ lifetime' = Window
    /\ granted' = IF Upto(counted, Oldest) > Count THEN granted ELSE [granted EXCEPT ![0] = @ + 1]
    /\ calls' = [calls EXCEPT ![c] = Quiet]

\* The state of the window, for peek and retry_after: the key vanishes with its last member.
Peek(c) ==
    /\ calls[c].op = "peek"
    /\ attempts' = Trimmed(calls[c].age)
    /\ lifetime' = IF attempts' = None THEN 0 ELSE lifetime
    /\ calls' = [calls EXCEPT ![c] = Quiet]
    /\ UNCHANGED granted

\* A successful login clears the failures of its account, whatever calls are under way.
Reset ==
    /\ attempts' = None
    /\ lifetime' = 0
    /\ granted' = None
    /\ UNCHANGED calls

\* Redis is out of reach: RateLimitUnavailable, and the operation is refused.
Unavailable(c) ==
    /\ calls[c] # Quiet
    /\ calls' = [calls EXCEPT ![c] = Quiet]
    /\ UNCHANGED <<attempts, lifetime, granted>>

Older(bag) ==
    [a \in Ages |-> CASE a = 0 -> 0
                      [] a = Oldest -> bag[a] + bag[a - 1]
                      [] OTHER -> bag[a - 1]]

Forgotten(bag) == [bag EXCEPT ![Oldest] = 0]

LimitTick ==
    /\ \A c \in Callers : calls[c] # Quiet => calls[c].age < Lag
    /\ attempts' = IF lifetime <= 1 THEN None ELSE Older(attempts)
    /\ lifetime' = IF lifetime = 0 THEN 0 ELSE lifetime - 1
    /\ granted' = Forgotten(Older(granted))
    /\ calls' = [c \in Callers |->
           IF calls[c] = Quiet THEN Quiet ELSE [calls[c] EXCEPT !.age = @ + 1]]

LimitNext ==
    \/ \E c \in Callers :
           \/ \E op \in {"check", "peek"} : ReadClock(c, op)
           \/ Check(c) \/ Peek(c) \/ Unavailable(c)
    \/ Reset
    \/ LimitTick

LimitSpec == LimitInit /\ [][LimitNext]_limitVars

---------------------------------------------------------------------------
(* Property.                                                               *)

\* Whatever order the scripts run in, no more than Count attempts are let through
\* within any window shorter, by the age a reading of the clock may reach, than
\* the one asked for, as long as no reset clears the counter.  A reading late by Lag
\* may let in more over the whole window: its script forgets less than it should,
\* but counts its own attempt as old.
AcceptedWithinLimit == Upto(granted, Window - Lag - 1) <= Count
=============================================================================
