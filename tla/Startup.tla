------------------------------ MODULE Startup ------------------------------
(***************************************************************************)
(* How the process-wide state comes into being: the shard count            *)
(* (shard_index.rs, a LazyLock filled from an environment variable or the  *)
(* number of cores), the shard index of each thread, and the collector     *)
(* (collector.rs, a OnceLock whose initialisation spawns the collector     *)
(* thread, which itself waits for the OnceLock).                           *)
(*                                                                         *)
(* Any of the initialisations can panic.  A LazyLock is then poisoned and  *)
(* panics at every later use; a OnceLock stays empty, and the next caller  *)
(* initialises it again.                                                   *)
(***************************************************************************)
EXTENDS Integers, FiniteSets

CONSTANTS
    Users,            \* user threads
    MaxSpawned,       \* bound: threads spawned by CollectorShared::new
    MaxCalls,         \* bound: calls of each user thread
    Unset, Bad,       \* a variable that is not set, one that is not a number
    ShardVars,        \* values of RUST_SDARC_SHARD_COUNT
    IntervalVars,     \* values of RUST_SDARC_COLLECTOR_INTERVAL_MS
    Parallelisms,     \* results of available_parallelism
    Hashes            \* hashes of thread ids, arguments of from_u64

MAX_SHARD_COUNT == 256

ASSUME StartupAssumption ==
    /\ MaxSpawned \in Nat \ {0} /\ MaxCalls \in Nat
    /\ Unset \notin Nat /\ Bad \notin Nat /\ Unset # Bad
    /\ ShardVars \subseteq Nat \cup {Unset, Bad}
    /\ IntervalVars \subseteq Nat \cup {Unset, Bad}
    /\ Parallelisms \subseteq Nat \ {0}
    /\ Hashes \subseteq Nat
    /\ Users \cap (1 .. MaxSpawned) = {}

VARIABLES
    shardVar, intervalVar, parallelism,   \* the environment, fixed
    count,      \* SHARD_COUNT: a number, Unset, or Bad when poisoned
    cell,       \* COLLECTOR: empty, busy or set
    spawned,    \* number of threads spawned as collector
    index,      \* CURR_THREAD_SHARD_INDEX of each user thread, or Unset
    pc,         \* where each thread is
    calls       \* calls each user thread has made

env == <<shardVar, intervalVar, parallelism>>
vars == <<env, count, cell, spawned, index, pc, calls>>

Threads == Users \cup (1 .. MaxSpawned)

TypeOK ==
    /\ shardVar \in ShardVars /\ intervalVar \in IntervalVars /\ parallelism \in Parallelisms
    /\ count \in 0 .. MAX_SHARD_COUNT \cup {Unset, Bad}
    /\ cell \in {"empty", "busy", "set"}
    /\ spawned \in 0 .. MaxSpawned
    /\ index \in [Users -> 0 .. 255 \cup {Unset}]
    /\ pc \in [Threads -> {"none", "idle", "alloc", "get", "params", "spawn", "arrays",
                           "first", "running", "dead"}]
    /\ calls \in [Users -> 0 .. MaxCalls]

Init ==
    /\ shardVar \in ShardVars /\ intervalVar \in IntervalVars /\ parallelism \in Parallelisms
    /\ count = Unset /\ cell = "empty" /\ spawned = 0
    /\ index = [t \in Users |-> Unset]
    /\ pc = [t \in Threads |-> IF t \in Users THEN "idle" ELSE "none"]
    /\ calls = [t \in Users |-> 0]

-----------------------------------------------------------------------------
(* shard_count_from_env_var: None, a number that fits, or a panic. *)
shard_count_from_env_var ==
    IF shardVar = Bad \/ (shardVar # Unset /\ shardVar > MAX_SHARD_COUNT) THEN Bad ELSE shardVar

(* Mutant of Capped: the number of cores is not limited. *)
Uncapped(n) == n
Capped(n) == IF n < MAX_SHARD_COUNT THEN n ELSE MAX_SHARD_COUNT

(* init_shard_count: 1.5 times the cores unless the variable says else. *)
init_shard_count ==
    IF shard_count_from_env_var # Unset THEN shard_count_from_env_var
    ELSE Capped(parallelism + parallelism \div 2)

(* get_shard_count: what SHARD_COUNT is after it has been forced. *)
ForcedCount == IF count = Unset THEN init_shard_count ELSE count

(* Mutant of from_u64: the cast to u8 alone. *)
from_u64_cast(value, n) == value % 2^8

(* ShardIndex::from_u64, which panics when there are no shards. *)
from_u64(value, n) == (value % n) % 2^8

(* shard_indexes: 0 .. count - 1, each cast to u8. *)
shard_indexes(n) == [i \in 0 .. n - 1 |-> i % 2^8]

Goto(t, p) == pc' = [pc EXCEPT ![t] = p]

(* A panic ends a collector thread (catch_unwind logs it); a user thread   *)
(* may go on.                                                              *)
Unwound(t) == IF t \in Users THEN "idle" ELSE "dead"
Returned(t) == IF t \in Users THEN "idle" ELSE "first"

-----------------------------------------------------------------------------
(* Sdarc::new allocates first and registers the counters then;             *)
(* collector_update_now only needs the collector.                          *)
Call(t, p) ==
    /\ pc[t] = "idle" /\ calls[t] < MaxCalls
    /\ calls' = [calls EXCEPT ![t] = @ + 1]
    /\ Goto(t, p)
    /\ UNCHANGED <<env, count, cell, spawned, index>>

NewSdarc(t) == Call(t, "alloc")
collector_update_now(t) == Call(t, "get")

(* The first use of FULL_SHARD_ALLOC forces the shard count, and the first *)
(* use of the thread's shard index takes a hash modulo the count.          *)
AllocPanics(t) ==
    /\ pc[t] = "alloc" /\ ForcedCount \in {Bad, 0}
    /\ count' = ForcedCount
    /\ Goto(t, Unwound(t))
    /\ UNCHANGED <<env, cell, spawned, index, calls>>

Alloc(t, hash) ==
    /\ pc[t] = "alloc" /\ ForcedCount \notin {Bad, 0}
    /\ count' = ForcedCount
    /\ index' = [index EXCEPT ![t] = IF @ = Unset THEN from_u64(hash, ForcedCount) ELSE @]
    /\ Goto(t, "get")
    /\ UNCHANGED <<env, cell, spawned, calls>>

(* set_current_thread_shard_index, with an index made by from_u64. *)
set_current_thread_shard_index(t, value) ==
    /\ pc[t] = "idle" /\ ForcedCount \notin {Bad, 0}
    /\ count' = ForcedCount
    /\ index' = [index EXCEPT ![t] = from_u64(value, ForcedCount)]
    /\ UNCHANGED <<env, cell, spawned, pc, calls>>

(* get_collector: a thread waits while another one initialises. *)
GetSet(t) ==
    /\ pc[t] = "get" /\ cell = "set"
    /\ Goto(t, Returned(t))
    /\ UNCHANGED <<env, count, cell, spawned, index, calls>>

(* Mutant of MayInit: the cell is only checked, not locked. *)
MayInitUnlessSet == cell # "set"
MayInit == cell = "empty"

GetEmpty(t) ==
    /\ pc[t] = "get" /\ MayInit
    /\ cell' = "busy"
    /\ Goto(t, "params")
    /\ UNCHANGED <<env, count, spawned, index, calls>>

(* Mutant of InitPanics: the waiting threads are not let in. *)
InitPanicsStaysBusy(t) ==
    /\ Goto(t, Unwound(t))
    /\ UNCHANGED cell

(* A panic inside get_or_init leaves the cell empty. *)
InitPanics(t) ==
    /\ cell' = "empty"
    /\ Goto(t, Unwound(t))

(* CollectorParams::new_from_env_var *)
Params(t) ==
    /\ pc[t] = "params"
    /\ IF intervalVar # Bad THEN Goto(t, "spawn") /\ UNCHANGED cell ELSE InitPanics(t)
    /\ UNCHANGED <<env, count, spawned, index, calls>>

(* Mutant of Spawn: the collector thread does not wait for the OnceLock. *)
SpawnUnwraps(t) ==
    /\ pc[t] = "spawn" /\ spawned < MaxSpawned
    /\ spawned' = spawned + 1
    /\ pc' = [pc EXCEPT ![t] = "arrays", ![spawned + 1] = IF cell = "set" THEN "first" ELSE "dead"]
    /\ UNCHANGED <<env, count, cell, index, calls>>

(* CollectorShared::new evaluates its fields in order: thread_handle       *)
(* spawns the collector thread, whose first call is get_collector, ...     *)
Spawn(t) ==
    /\ pc[t] = "spawn" /\ spawned < MaxSpawned
    /\ spawned' = spawned + 1
    /\ pc' = [pc EXCEPT ![t] = "arrays", ![spawned + 1] = "get"]
    /\ UNCHANGED <<env, count, cell, index, calls>>

(* ... then pending_to_track asks for the shard count. *)
Arrays(t) ==
    /\ pc[t] = "arrays"
    /\ count' = ForcedCount
    /\ IF ForcedCount = Bad THEN InitPanics(t) ELSE cell' = "set" /\ Goto(t, Returned(t))
    /\ UNCHANGED <<env, spawned, index, calls>>

(* The first iteration of collector_thread_main spins over the readers,    *)
(* and allocates their counters for it at the shard of its thread: with no *)
(* shards that panics, and the collector is gone.                          *)
FirstSpin(t) ==
    /\ pc[t] = "first"
    /\ count' = ForcedCount
    /\ Goto(t, IF ForcedCount \in {Bad, 0} THEN "dead" ELSE "running")
    /\ UNCHANGED <<env, cell, spawned, index, calls>>

InitStep(t) ==
    GetSet(t) \/ GetEmpty(t) \/ Params(t) \/ Spawn(t) \/ Arrays(t) \/ FirstSpin(t)

Next == \/ \E t \in Threads : InitStep(t)
        \/ \E t \in Users : \/ NewSdarc(t) \/ collector_update_now(t) \/ AllocPanics(t)
                            \/ \E v \in Hashes : \/ Alloc(t, v)
                                                 \/ set_current_thread_shard_index(t, v)

Spec == Init /\ [][Next]_vars

(* Threads inside get_collector go on; a OnceLock wakes all its waiters    *)
(* when an initialisation ends.                                            *)
FairSpec == Spec /\ \A t \in Threads : WF_vars(InitStep(t))

-----------------------------------------------------------------------------
(* Each shard has one index: shard_indexes yields every index once, and a  *)
(* ShardIndex is smaller than the shard count, although both go through u8 *)
(* and counts up to 256 are allowed.                                       *)
EachShardOnce ==
    count \in Nat => /\ Cardinality({shard_indexes(count)[i] : i \in 0 .. count - 1}) = count
                     /\ \A t \in Users : index[t] # Unset => index[t] < count

(* A collector has one thread: when the OnceLock is filled, the thread     *)
(* whose handle it holds is the only one that was ever spawned.  A shard   *)
(* count that is refused makes initialisations panic behind the spawn, and *)
(* each thread spawned so tries, and spawns, again: but then the OnceLock  *)
(* is never filled.                                                        *)
OneCollectorThread == cell = "set" => spawned = 1

(* get_collector comes back, with the collector or with a panic: the       *)
(* collector thread and the threads that wait for it never wait for each   *)
(* other, unless the shard count is refused.                               *)
CallsReturn ==
    \A t \in Users : (pc[t] = "get" /\ init_shard_count # Bad) ~> (pc[t] = "idle")

(* Who has the collector will have its thread: the thread that waits for   *)
(* the OnceLock its creator fills gets into its loop, unless there are no  *)
(* shards.                                                                 *)
CollectorStarts ==
    (cell = "set" /\ count # 0) ~> (\E n \in 1 .. MaxSpawned : pc[n] = "running")
=============================================================================
