----------------------------- MODULE Scheduler -----------------------------
(***************************************************************************)
(* The instances of app/jobs/scheduler.py and the queue they place their   *)
(* periodic task in, which is the abstract queue of TaskQueue (JobQueue    *)
(* implements it).                                                         *)
(*                                                                         *)
(* The leader holds an advisory lock by its session and never looks again  *)
(* whether it still does; it remembers the last slot it placed.  A slot is *)
(* the number of an interval, so that all instances name it alike.         *)
(***************************************************************************)
EXTENDS Naturals, FiniteSets

CONSTANTS
    Instances,   \* scheduler processes
    Executors,   \* workers of the queue
    Slots,       \* 0 .. the last slot: a bound on time
    Placements,  \* serial numbers of jobs: a bound on the jobs of all slots
    MaxMishaps,  \* bound: lost sessions, failed statements and restarts
    NoInstance,  \* nobody holds the lock
    NoSlot       \* no slot placed yet

ASSUME SchedulerAssumption ==
    /\ Slots \subseteq Nat /\ 0 \in Slots
    /\ Placements \subseteq Nat
    /\ IsFiniteSet(Instances)
    /\ MaxMishaps \in Nat
    /\ NoInstance \notin Instances /\ NoSlot \notin Slots

VARIABLES
    slot,       \* the interval the clock is in
    lock,       \* whose session holds LEADER_LOCK_KEY
    instance,   \* what each instance does next, the slot it has read, the one it placed
    mishaps,
    chances,    \* auxiliary: placements of each slot the mishaps account for
    state, name, tries, holder    \* the queue

schedulerVars == <<slot, lock, instance, mishaps, chances, state, name, tries, holder>>
queueVars == <<state, name, tries, holder>>

Queue == INSTANCE TaskQueue WITH
    Takers <- Executors, Names <- Slots, Tasks <- Placements, MaxTries <- 1, TryCap <- 1

Instance == [at : {"waiting", "leading", "placing"},
             read : Slots \union {NoSlot},
             placed : Slots \union {NoSlot}]

Waiting == [at |-> "waiting", read |-> NoSlot, placed |-> NoSlot]

SchedulerTypeOK ==
    /\ slot \in Slots
    /\ lock \in Instances \union {NoInstance}
    /\ instance \in [Instances -> Instance]
    /\ mishaps \in 0 .. MaxMishaps
    /\ chances \in [Slots -> Nat]

SchedulerInit ==
    /\ slot = 0
    /\ lock = NoInstance
    /\ instance = [i \in Instances |-> Waiting]
    /\ mishaps = 0
    /\ chances = [s \in Slots |-> 0]
    /\ state = [t \in Placements |-> "unknown"]
    /\ name = [t \in Placements |-> 0]
    /\ tries = [t \in Placements |-> 0]
    /\ holder = [t \in Placements |-> {}]

---------------------------------------------------------------------------
(* run and tick.                                                           *)

\* pg_try_advisory_lock.
Lead(i) ==
    /\ instance[i].at = "waiting"
    /\ lock = NoInstance
    /\ lock' = i
    /\ instance' = [instance EXCEPT ![i] = [Waiting EXCEPT !.at = "leading"]]
    /\ chances' = [chances EXCEPT ![slot] = @ + 1]
    /\ UNCHANGED <<slot, mishaps, queueVars>>

\* Variant: the leader does not remember what it placed.
DueAlways(i) == TRUE

Due(i) == instance[i].placed # slot

ReadSlot(i) ==
    /\ instance[i].at = "leading"
    /\ Due(i)
    /\ instance' = [instance EXCEPT ![i].at = "placing", ![i].read = slot]
    /\ UNCHANGED <<slot, lock, mishaps, chances, queueVars>>

NextPlacement(t) ==
    /\ state[t] = "unknown"
    /\ \A u \in Placements : state[u] = "unknown" => t <= u

\* enqueue under the slot's key: nothing is inserted while a job of it is active.
Enqueued(s) ==
    \/ \E t \in Placements : NextPlacement(t) /\ Queue!Submit(t, s)
    \/ /\ \E t \in Placements : Queue!Live(t) /\ name[t] = s
       /\ UNCHANGED queueVars

\* Variant: a slot counts as placed before its job is.
Forgetting(i) == [instance[i] EXCEPT !.at = "leading", !.placed = instance[i].read]

\* A statement failed: the slot is placed again by the next tick.
Retrying(i) == [instance[i] EXCEPT !.at = "leading", !.read = NoSlot]

PlaceSlot(i) ==
    /\ instance[i].at = "placing"
    /\ Enqueued(instance[i].read)
    /\ instance' = [instance EXCEPT ![i] =
           [at |-> "leading", read |-> NoSlot, placed |-> instance[i].read]]
    /\ UNCHANGED <<slot, lock, mishaps, chances>>

Mishap == mishaps < MaxMishaps /\ mishaps' = mishaps + 1

PlacingFails(i) ==
    /\ instance[i].at = "placing"
    /\ Mishap
    /\ instance' = [instance EXCEPT ![i] = Retrying(i)]
    /\ UNCHANGED <<slot, lock, chances, queueVars>>

\* The job is committed and the answer lost.
PlacedUnknown(i) ==
    /\ instance[i].at = "placing"
    /\ Mishap
    /\ Enqueued(instance[i].read)
    /\ instance' = [instance EXCEPT ![i] = Retrying(i)]
    /\ chances' = [chances EXCEPT ![instance[i].read] = @ + 1]
    /\ UNCHANGED <<slot, lock>>

\* The session ends and its lock with it; the leader does not notice.
SessionLost(i) ==
    /\ lock = i
    /\ Mishap
    /\ lock' = NoInstance
    /\ UNCHANGED <<slot, instance, chances, queueVars>>

\* The process stops, or dies, and is started again.
RestartInstance(i) ==
    /\ instance[i] # Waiting
    /\ Mishap
    /\ instance' = [instance EXCEPT ![i] = Waiting]
    /\ lock' = IF lock = i THEN NoInstance ELSE lock
    /\ UNCHANGED <<slot, chances, queueVars>>

\* Every leader of the moment may place the slot that begins.
SlotBegins ==
    /\ slot + 1 \in Slots
    /\ slot' = slot + 1
    /\ chances' = [chances EXCEPT ![slot + 1] =
           Cardinality({i \in Instances : instance[i].at # "waiting"})]
    /\ UNCHANGED <<lock, instance, mishaps, queueVars>>

QueueWorks ==
    /\ \E t \in Placements :
           \/ \E w \in Executors : Queue!Take(t, {w})
           \/ Queue!Settle(t, "done")
    /\ UNCHANGED <<slot, lock, instance, mishaps, chances>>

InstanceStep(i) == Lead(i) \/ ReadSlot(i) \/ PlaceSlot(i)

SchedulerNext ==
    \/ \E i \in Instances :
           \/ InstanceStep(i) \/ PlacingFails(i) \/ PlacedUnknown(i)
           \/ SessionLost(i) \/ RestartInstance(i)
    \/ SlotBegins
    \/ QueueWorks

SchedulerSpec == SchedulerInit /\ [][SchedulerNext]_schedulerVars

\* The loop of an instance is a `while` around bounded waits.
SchedulerFairness == \A i \in Instances : WF_schedulerVars(InstanceStep(i))

---------------------------------------------------------------------------
(* Properties.                                                             *)

Jobs(s) == Cardinality({t \in Placements : state[t] # "unknown" /\ name[t] = s})

\* The key of a slot is free again once its job is done, so that the queue alone
\* does not keep a slot from being placed twice: the memory of the leader does.  A
\* slot has no more jobs than instances that have led during it, the ones that lost
\* the lock without noticing included, and answers that were lost.
SlotPlacedOncePerLeader == \A s \in Slots : Jobs(s) <= chances[s]

\* A slot that lasts gets its job, whichever instance dies, loses its session, or
\* fails to place it: a leader places it at last.
SlotsGetPlaced == \A s \in Slots : slot = s ~> Jobs(s) > 0 \/ slot # s
=============================================================================
