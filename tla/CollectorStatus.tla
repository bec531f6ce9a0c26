-------------------------- MODULE CollectorStatus --------------------------
(***************************************************************************)
(* The collector thread's outer loop (collector.rs, collector_thread_main) *)
(* and the calls that talk to it: registering a new Sdarc, unparking the   *)
(* collector, and waiting for one full collection.                         *)
(*                                                                         *)
(* They share status_mutex and its condvar, the park token of the          *)
(* collector thread, and the per-shard lists pending_to_track.  What one   *)
(* outer iteration does to a counter is the subject of Sdarc; here the     *)
(* inner iterations appear by their effect: they free what was tracked and *)
(* abandoned when they started, and may free what is abandoned meanwhile.  *)
(***************************************************************************)
EXTENDS Naturals, FiniteSets

CONSTANTS
    Threads,        \* user threads
    Nobody,         \* status_mutex is not held by a user thread
    Slots,          \* counter slots of the sharded allocator (counters_ptr)
    ShardCount,
    MaxCalls,       \* bound: calls that unpark the collector, per thread
    MaxTimeouts     \* bound: park_timeouts that elapse

ASSUME CollectorAssumption ==
    /\ Nobody \notin Threads
    /\ ShardCount \in Nat \ {0}
    /\ MaxCalls \in Nat
    /\ MaxTimeouts \in Nat

VARIABLES
    status,     \* CollectorState, guarded by status_mutex
    holder,     \* the user thread that holds status_mutex
    token,      \* the collector thread's park token
    pc,         \* where a user thread is in collector_update_now_and_wait
    target,     \* state_to_wait_until of a waiting thread
    used,       \* slots that hold the counters of an existing SdarcInner
    abandoned,  \* used slots whose last strong reference is gone
    pending,    \* pending_to_track, per shard
    cpc,        \* where the collector is in its loop
    outer,      \* outer_iteration_counter
    next,       \* next shard that take_new_counters_to_track empties
    tracked,    \* keys of tracked_counters
    must,       \* what this iteration's scans will have freed at its end
    freeing,    \* slots removed from tracked_counters, not yet freed
    owed,       \* ghost: what was abandoned when a waiting thread called
    calls,      \* unparking calls made by each thread
    timeouts    \* park_timeouts elapsed

statusVars == <<status, holder, token, pc, target, owed, calls>>
objectVars == <<used, abandoned, pending>>
loopVars == <<cpc, outer, next, tracked, must, freeing, timeouts>>
vars == <<statusVars, objectVars, loopVars>>

Shards == 0 .. ShardCount - 1

(* CollectorState: Waiting and Running carry an iteration number. *)
Waiting(n) == [kind |-> "Waiting", iteration |-> n]
Running(n) == [kind |-> "Running", iteration |-> n]

CollectorStates == [kind : {"Waiting", "Running"}, iteration : Nat]

(* CollectorState::to_serial_number, the order on CollectorState. *)
to_serial_number(state) ==
    IF state.kind = "Running" THEN state.iteration * 2 ELSE state.iteration * 2 + 1

(* Mutant: the end of the iteration that is running is taken for enough. *)
after_current_collection(state) ==
    IF state.kind = "Running" THEN Waiting(state.iteration) ELSE Waiting(state.iteration + 1)

(* A Running iteration began before the call, so it does not count. *)
after_at_least_one_full_collection(state) == Waiting(state.iteration + 1)

Init ==
    /\ status = Waiting(0)
    /\ holder = Nobody
    /\ token = FALSE
    /\ pc = [t \in Threads |-> "idle"]
    /\ target = [t \in Threads |-> Waiting(0)]
    /\ used = {}
    /\ abandoned = {}
    /\ pending = [s \in Shards |-> {}]
    /\ cpc = "begin"
    /\ outer = 0
    /\ next = 0
    /\ tracked = {}
    /\ must = {}
    /\ freeing = {}
    /\ owed = [t \in Threads |-> {}]
    /\ calls = [t \in Threads |-> 0]
    /\ timeouts = 0

-----------------------------------------------------------------------------
(* User threads. *)

(* Sdarc::new takes a counter slot and registers it with the collector in  *)
(* the list of the shard the thread is on.                                 *)
New(t, o, s) ==
    /\ pc[t] = "idle"
    /\ o \notin used
    /\ used' = used \cup {o}
    /\ pending' = [pending EXCEPT ![s] = @ \cup {o}]
    /\ UNCHANGED <<statusVars, loopVars, abandoned>>

(* The last strong reference of o goes away. *)
Abandon(t, o) ==
    /\ pc[t] = "idle"
    /\ o \in used \ abandoned
    /\ abandoned' = abandoned \cup {o}
    /\ UNCHANGED <<statusVars, loopVars, used, pending>>

(* collector_update_now *)
UpdateNow(t) ==
    /\ pc[t] = "idle"
    /\ calls[t] < MaxCalls
    /\ calls' = [calls EXCEPT ![t] = @ + 1]
    /\ token' = TRUE
    /\ UNCHANGED <<status, holder, pc, target, owed, objectVars, loopVars>>

(* collector_update_now_and_wait is called, and is about to lock. *)
CallAndWait(t) ==
    /\ pc[t] = "idle"
    /\ calls[t] < MaxCalls
    /\ calls' = [calls EXCEPT ![t] = @ + 1]
    /\ pc' = [pc EXCEPT ![t] = "called"]
    /\ owed' = [owed EXCEPT ![t] = abandoned]
    /\ UNCHANGED <<status, holder, token, target, objectVars, loopVars>>

(* Mutant of Lock: unparks before it has the mutex. *)
UnparkThenLock(t) ==
    /\ \/ /\ pc[t] = "called"
          /\ token' = TRUE
          /\ pc' = [pc EXCEPT ![t] = "unparkedEarly"]
          /\ UNCHANGED holder
       \/ /\ pc[t] = "unparkedEarly"
          /\ holder = Nobody
          /\ holder' = t
          /\ pc' = [pc EXCEPT ![t] = "unparked"]
          /\ UNCHANGED token
    /\ UNCHANGED <<status, target, owed, calls, objectVars, loopVars>>

(* status_mutex.lock() *)
Lock(t) ==
    /\ pc[t] = "called"
    /\ holder = Nobody
    /\ holder' = t
    /\ pc' = [pc EXCEPT ![t] = "locked"]
    /\ UNCHANGED <<status, token, target, owed, calls, objectVars, loopVars>>

(* unpark(), with status_mutex held *)
Unpark(t) ==
    /\ pc[t] = "locked"
    /\ token' = TRUE
    /\ pc' = [pc EXCEPT ![t] = "unparked"]
    /\ UNCHANGED <<status, holder, target, owed, calls, objectVars, loopVars>>

(* The first evaluation of wait_while: the state to wait until is later    *)
(* than the current one, so the thread releases the mutex and sleeps.      *)
StartWaiting(t) ==
    /\ pc[t] = "unparked"
    /\ target' = [target EXCEPT ![t] = after_at_least_one_full_collection(status)]
    /\ holder' = Nobody
    /\ pc' = [pc EXCEPT ![t] = "asleep"]
    /\ UNCHANGED <<status, token, owed, calls, objectVars, loopVars>>

(* A notified waiter has the mutex again and re-evaluates the condition. *)
ReevaluateWait(t) ==
    /\ pc[t] = "woken"
    /\ holder = Nobody
    /\ pc' = [pc EXCEPT ![t] = IF to_serial_number(status) < to_serial_number(target[t])
                               THEN "asleep" ELSE "idle"]
    /\ UNCHANGED <<status, holder, token, target, owed, calls, objectVars, loopVars>>

-----------------------------------------------------------------------------
(* The collector thread. *)

(* The counter moves on and the status becomes Running, under the mutex. *)
BeginIteration ==
    /\ cpc = "begin"
    /\ holder = Nobody
    /\ outer' = outer + 1
    /\ status' = Running(outer')
    /\ next' = 0
    /\ cpc' = "taking"
    /\ UNCHANGED <<holder, token, pc, target, owed, calls, objectVars,
                   tracked, must, freeing, timeouts>>

(* Mutant of TakeNewCounters: one shard too many. *)
TakeNewCountersPastEnd ==
    /\ cpc = "taking"
    /\ next <= ShardCount
    /\ pending' = [s \in Shards |-> IF s = next THEN {} ELSE pending[s]]
    /\ tracked' = tracked \cup (IF next \in Shards THEN pending[next] ELSE {})
    /\ next' = next + 1
    /\ UNCHANGED <<statusVars, used, abandoned, cpc, outer, must, freeing, timeouts>>

(* take_new_counters_to_track, for one shard: the list is replaced by an   *)
(* empty one under its lock, and its counters are tracked.                 *)
TakeNewCounters ==
    /\ cpc = "taking"
    /\ next < ShardCount
    /\ pending' = [pending EXCEPT ![next] = {}]
    /\ tracked' = tracked \cup pending[next]
    /\ next' = next + 1
    /\ UNCHANGED <<statusVars, used, abandoned, cpc, outer, must, freeing, timeouts>>

(* do_collection_inner_iterations starts. *)
StartInnerIterations ==
    /\ cpc = "taking"
    /\ next = ShardCount
    /\ must' = tracked \cap abandoned
    /\ cpc' = "collecting"
    /\ UNCHANGED <<statusVars, objectVars, outer, next, tracked, freeing, timeouts>>

(* Mutant of RemoveTracked: the entry of the map is left behind. *)
LeaveTracked(o) ==
    /\ cpc = "collecting"
    /\ freeing = {}
    /\ o \in tracked \cap abandoned
    /\ freeing' = {o}
    /\ UNCHANGED <<statusVars, objectVars, cpc, outer, next, tracked, must, timeouts>>

(* free_pointers removes the counter from the map first... *)
RemoveTracked(o) ==
    /\ cpc = "collecting"
    /\ freeing = {}
    /\ o \in tracked \cap abandoned
    /\ tracked' = tracked \ {o}
    /\ freeing' = {o}
    /\ UNCHANGED <<statusVars, objectVars, cpc, outer, next, must, timeouts>>

(* ...and then drops the SdarcInner, which gives its counter slot back. *)
FreePointer(o) ==
    /\ cpc = "collecting"
    /\ o \in freeing
    /\ freeing' = {}
    /\ used' = used \ {o}
    /\ abandoned' = abandoned \ {o}
    /\ must' = must \ {o}
    /\ owed' = [t \in Threads |-> owed[t] \ {o}]
    /\ UNCHANGED <<status, holder, token, pc, target, calls, pending,
                   cpc, outer, next, tracked, timeouts>>

(* Mutant of FinishIteration: an unpark that came meanwhile is discarded. *)
FinishTakingToken ==
    /\ cpc = "collecting"
    /\ freeing = {}
    /\ must = {}
    /\ holder = Nobody
    /\ status' = Waiting(outer)
    /\ token' = FALSE
    /\ pc' = [t \in Threads |-> IF pc[t] = "asleep" THEN "woken" ELSE pc[t]]
    /\ cpc' = "parking"
    /\ UNCHANGED <<holder, target, owed, calls, objectVars,
                   outer, next, tracked, must, freeing, timeouts>>

(* The inner iterations end when nothing is left to re-check.  The status  *)
(* becomes Waiting and every waiter is notified, under the mutex.          *)
FinishIteration ==
    /\ cpc = "collecting"
    /\ freeing = {}
    /\ must = {}
    /\ holder = Nobody
    /\ status' = Waiting(outer)
    /\ pc' = [t \in Threads |-> IF pc[t] = "asleep" THEN "woken" ELSE pc[t]]
    /\ cpc' = "parking"
    /\ UNCHANGED <<holder, token, target, owed, calls, objectVars,
                   outer, next, tracked, must, freeing, timeouts>>

(* park_timeout returns because the token is there, and consumes it. *)
ParkUnparked ==
    /\ cpc = "parking"
    /\ token
    /\ token' = FALSE
    /\ cpc' = "begin"
    /\ UNCHANGED <<status, holder, pc, target, owed, calls, objectVars,
                   outer, next, tracked, must, freeing, timeouts>>

(* park_timeout elapses; it takes the token in any case. *)
ParkTimeout ==
    /\ cpc = "parking"
    /\ timeouts < MaxTimeouts
    /\ timeouts' = timeouts + 1
    /\ token' = FALSE
    /\ cpc' = "begin"
    /\ UNCHANGED <<status, holder, pc, target, owed, calls, objectVars,
                   outer, next, tracked, must, freeing>>

CollectorStep ==
    \/ BeginIteration
    \/ TakeNewCounters
    \/ StartInnerIterations
    \/ \E o \in Slots : RemoveTracked(o) \/ FreePointer(o)
    \/ FinishIteration
    \/ ParkUnparked

WaitStep(t) == Lock(t) \/ Unpark(t) \/ StartWaiting(t) \/ ReevaluateWait(t)

Next ==
    \/ \E t \in Threads :
          \/ \E o \in Slots : \E s \in Shards : New(t, o, s)
          \/ \E o \in Slots : Abandon(t, o)
          \/ UpdateNow(t)
          \/ CallAndWait(t)
          \/ WaitStep(t)
    \/ CollectorStep
    \/ ParkTimeout

Spec == Init /\ [][Next]_vars

(* The collector and a thread inside the wait keep running; parking_lot's  *)
(* mutex is eventually fair, so a thread that wants status_mutex gets it.  *)
(* Nothing is assumed of ParkTimeout: the interval may be arbitrarily long.*)
FairSpec ==
    /\ Spec
    /\ SF_vars(CollectorStep)
    /\ \A t \in Threads : SF_vars(WaitStep(t))

-----------------------------------------------------------------------------
TypeOK ==
    /\ status \in CollectorStates
    /\ holder \in Threads \cup {Nobody}
    /\ token \in BOOLEAN
    /\ pc \in [Threads -> {"idle", "called", "locked", "unparked", "asleep", "woken"}]
    /\ target \in [Threads -> CollectorStates]
    /\ used \in SUBSET Slots
    /\ abandoned \in SUBSET Slots
    /\ pending \in [Shards -> SUBSET Slots]
    /\ cpc \in {"begin", "taking", "collecting", "parking"}
    /\ outer \in Nat
    /\ next \in 0 .. ShardCount
    /\ tracked \in SUBSET Slots
    /\ must \in SUBSET Slots
    /\ freeing \in SUBSET Slots
    /\ owed \in [Threads -> SUBSET Slots]
    /\ calls \in [Threads -> Nat]
    /\ timeouts \in Nat

(* assert!(replaced.is_none()) in take_new_counters_to_track: a slot that  *)
(* is reused for a new Sdarc is never registered while the map still holds *)
(* its previous use, nor twice on two shards' lists.                       *)
NeverTrackedTwice ==
    \A s \in Shards :
       /\ pending[s] \cap tracked = {}
       /\ \A r \in Shards \ {s} : pending[s] \cap pending[r] = {}

(* When collector_update_now_and_wait returns, every Sdarc that was        *)
(* abandoned when it was called has been freed, whether it was tracked     *)
(* already or still in a pending list, and whatever the collector was doing*)
(* then.                                                                   *)
WaitCollectsWhatWasAbandoned ==
    [][\A t \in Threads : (pc[t] = "woken" /\ pc'[t] = "idle") => owed[t] = {}]_vars

(* No unpark is lost: while a thread sleeps until a state that is not      *)
(* reached, the collector does not wait for its interval to elapse: it     *)
(* runs, or is about to, or finds the thread's token when it parks.  This  *)
(* is why collector_update_now_and_wait unparks with status_mutex held.    *)
NoLostUnpark ==
    \A t \in Threads :
       (/\ pc[t] \in {"asleep", "woken"}
        /\ to_serial_number(status) < to_serial_number(target[t])
        /\ cpc = "parking") => token

(* A call of collector_update_now_and_wait returns, although the           *)
(* collector's interval may never elapse: its unpark is not lost.          *)
WaitReturns == \A t \in Threads : pc[t] = "called" ~> pc[t] = "idle"

(* An unparked collector frees what was abandoned at the time, again       *)
(* without the interval elapsing.                                          *)
UnparkedCollectorFrees ==
    \A o \in Slots : (token /\ o \in abandoned) ~> o \notin abandoned
=============================================================================
