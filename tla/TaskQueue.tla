---------------------------- MODULE TaskQueue ----------------------------
(***************************************************************************)
(* What the queue promises to those who submit tasks and to those who      *)
(* execute them, without leases, clocks, notifications and lost answers:   *)
(* a task is submitted under a key that no other active task has, it is    *)
(* taken as often as it must be, and only its latest taker settles it or   *)
(* gives it back, within the tries it is granted.                          *)
(***************************************************************************)
EXTENDS Integers

CONSTANTS
    Takers,      \* who may execute a task
    Names,       \* keys of tasks
    Tasks,       \* serial numbers
    MaxTries,    \* tries a task is granted
    TryCap       \* bound: tries saturate here

VARIABLES
    state,       \* of every task
    name,        \* its key
    tries,       \* how often it has been taken
    holder       \* its latest taker, while it is at work on the task

tvars == <<state, name, tries, holder>>

Live(t) == state[t] \in {"waiting", "taken"}

TInit ==
    /\ state = [t \in Tasks |-> "unknown"]
    /\ name \in [Tasks -> Names]
    /\ tries = [t \in Tasks |-> 0]
    /\ holder = [t \in Tasks |-> {}]

Submit(t, k) ==
    /\ state[t] = "unknown"
    /\ \A u \in Tasks : Live(u) => name[u] # k
    /\ state' = [state EXCEPT ![t] = "waiting"]
    /\ name' = [name EXCEPT ![t] = k]
    /\ UNCHANGED <<tries, holder>>

\* A taken task may be taken again: its taker is late, or dead.  Nobody has it
\* if the new taker never learns of it.
Take(t, who) ==
    /\ Live(t)
    /\ state' = [state EXCEPT ![t] = "taken"]
    /\ tries' = [tries EXCEPT ![t] = IF @ < TryCap THEN @ + 1 ELSE @]
    /\ holder' = [holder EXCEPT ![t] = who]
    /\ UNCHANGED name

Abandon(t) ==
    /\ holder[t] # {}
    /\ holder' = [holder EXCEPT ![t] = {}]
    /\ UNCHANGED <<state, name, tries>>

Settle(t, outcome) ==
    /\ state[t] = "taken"
    /\ holder[t] # {}
    /\ outcome = "dead" => tries[t] >= MaxTries
    /\ state' = [state EXCEPT ![t] = outcome]
    /\ holder' = [holder EXCEPT ![t] = {}]
    /\ UNCHANGED <<name, tries>>

GiveBack(t) ==
    /\ state[t] = "taken"
    /\ holder[t] # {}
    /\ tries[t] < MaxTries
    /\ state' = [state EXCEPT ![t] = "waiting"]
    /\ holder' = [holder EXCEPT ![t] = {}]
    /\ UNCHANGED <<name, tries>>

TNext ==
    \E t \in Tasks :
        \/ \E k \in Names : Submit(t, k)
        \/ \E who \in {{}} \union {{w} : w \in Takers} : Take(t, who)
        \/ Abandon(t)
        \/ \E outcome \in {"done", "failed", "dead"} : Settle(t, outcome)
        \/ GiveBack(t)

TSpec == TInit /\ [][TNext]_tvars
=============================================================================
