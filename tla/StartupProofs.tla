--------------------------- MODULE StartupProofs ---------------------------
(***************************************************************************)
(* Proofs about Startup, for any number of threads, any number of cores,   *)
(* any hash and any environment.                                           *)
(***************************************************************************)
EXTENDS Startup, FiniteSetTheorems, TLAPS

LEMMA TwoToTheEighth == 2^8 = 256
  OBVIOUS

(* init_shard_count yields a count that fits, or panics. *)
LEMMA InitialCount ==
    ASSUME TypeOK
    PROVE  /\ init_shard_count \in 0 .. MAX_SHARD_COUNT \cup {Bad}
           /\ init_shard_count # Unset
<1>1. shardVar \in Nat \cup {Unset, Bad} /\ parallelism \in Nat \ {0}
  BY StartupAssumption DEF TypeOK
<1>2. /\ parallelism + parallelism \div 2 \in Nat
      /\ Capped(parallelism + parallelism \div 2) \in 0 .. MAX_SHARD_COUNT
  BY <1>1 DEF Capped, MAX_SHARD_COUNT
<1>3. shard_count_from_env_var \in 0 .. MAX_SHARD_COUNT \cup {Unset, Bad}
  BY <1>1, StartupAssumption DEF shard_count_from_env_var, MAX_SHARD_COUNT
<1>4. \A n \in 0 .. MAX_SHARD_COUNT : n # Unset /\ n # Bad
  BY StartupAssumption DEF MAX_SHARD_COUNT
<1>5. QED
  BY <1>2, <1>3, <1>4, StartupAssumption DEF init_shard_count

LEMMA CountForced ==
    ASSUME TypeOK
    PROVE  /\ ForcedCount \in 0 .. MAX_SHARD_COUNT \cup {Bad}
           /\ ForcedCount # Unset
           /\ count # Unset => ForcedCount = count
  BY InitialCount, StartupAssumption DEF ForcedCount, TypeOK

(* from_u64 yields the index of an existing shard, through the u8. *)
LEMMA IndexInRange ==
    ASSUME NEW value \in Nat, NEW n \in 1 .. MAX_SHARD_COUNT
    PROVE  from_u64(value, n) \in 0 .. 255 /\ from_u64(value, n) < n
<1>1. value % n \in 0 .. n - 1 /\ n \in Nat /\ n <= 256
  BY DEF MAX_SHARD_COUNT
<1>2. (value % n) % 256 = value % n
  BY <1>1
<1>3. QED
  BY <1>1, <1>2, TwoToTheEighth DEF from_u64

(* No two shards of shard_indexes share an index, 256 shards included. *)
LEMMA IndexesDistinct ==
    ASSUME NEW n \in 0 .. MAX_SHARD_COUNT
    PROVE  Cardinality({shard_indexes(n)[i] : i \in 0 .. n - 1}) = n
<1>1. \A i \in 0 .. n - 1 : shard_indexes(n)[i] = i
  BY TwoToTheEighth DEF shard_indexes, MAX_SHARD_COUNT
<1>2. {shard_indexes(n)[i] : i \in 0 .. n - 1} = 0 .. n - 1
  BY <1>1
<1>3. Cardinality(0 .. n - 1) = n
  BY FS_Interval DEF MAX_SHARD_COUNT
<1>4. QED
  BY <1>2, <1>3

-----------------------------------------------------------------------------
(* A thread's index was taken modulo the count, which no longer changes. *)
IndexInv ==
    \A t \in Users : index[t] # Unset => /\ count \in 1 .. MAX_SHARD_COUNT
                                         /\ index[t] \in 0 .. 255
                                         /\ index[t] < count

LEMMA TypeStep ==
    ASSUME TypeOK, [Next]_vars
    PROVE  TypeOK'
<1> USE DEF env
<1>1. ASSUME NEW t \in Threads, GetSet(t) \/ GetEmpty(t) \/ Params(t)
      PROVE  TypeOK'
  BY <1>1 DEF GetSet, GetEmpty, Params, InitPanics, Goto, Returned, Unwound,
              TypeOK
<1>2. ASSUME NEW t \in Threads, Spawn(t)
      PROVE  TypeOK'
  <2>1. spawned' \in 0 .. MaxSpawned
    BY <1>2, StartupAssumption DEF Spawn, TypeOK
  <2>2. pc' \in [Threads -> {"none", "idle", "alloc", "get", "params", "spawn",
                            "arrays", "first", "running", "dead"}]
    BY <1>2 DEF Spawn, TypeOK
  <2>3. QED
    BY <1>2, <2>1, <2>2 DEF Spawn, TypeOK
<1>3. ASSUME NEW t \in Threads, Arrays(t)
      PROVE  TypeOK'
  BY <1>3, CountForced DEF Arrays, InitPanics, Goto, Returned, Unwound, TypeOK
<1>4. ASSUME NEW t \in Users, NewSdarc(t) \/ collector_update_now(t)
      PROVE  TypeOK'
  BY <1>4, StartupAssumption
     DEF NewSdarc, collector_update_now, Call, Goto, TypeOK, Threads
<1>5. ASSUME NEW t \in Users, AllocPanics(t)
      PROVE  TypeOK'
  BY <1>5, CountForced DEF AllocPanics, Goto, Unwound, TypeOK, Threads
<1>6. ASSUME NEW t \in Users, NEW v \in Hashes,
             Alloc(t, v) \/ set_current_thread_shard_index(t, v)
      PROVE  TypeOK'
  <2>1. ForcedCount \in 1 .. MAX_SHARD_COUNT
    BY <1>6, CountForced, StartupAssumption
       DEF Alloc, set_current_thread_shard_index, MAX_SHARD_COUNT
  <2>2. from_u64(v, ForcedCount) \in 0 .. 255
    BY <2>1, IndexInRange, StartupAssumption
  <2>3. index' \in [Users -> 0 .. 255 \cup {Unset}]
    BY <1>6, <2>2 DEF Alloc, set_current_thread_shard_index, TypeOK
  <2>4. QED
    BY <1>6, <2>1, <2>3
       DEF Alloc, set_current_thread_shard_index, Goto, TypeOK, Threads
<1>7. CASE UNCHANGED vars
  BY <1>7 DEF vars, TypeOK
<1>8. ASSUME NEW t \in Threads, FirstSpin(t)
      PROVE  TypeOK'
  BY <1>8, CountForced DEF FirstSpin, Goto, TypeOK
<1>9. QED
  BY <1>1, <1>2, <1>3, <1>4, <1>5, <1>6, <1>7, <1>8 DEF Next, InitStep

LEMMA IndexStep ==
    ASSUME TypeOK, IndexInv, [Next]_vars
    PROVE  IndexInv'
<1>1. CASE UNCHANGED <<index, count>>
  BY <1>1 DEF IndexInv
<1>2. CASE count' = ForcedCount /\ UNCHANGED index
  BY <1>2, CountForced, StartupAssumption DEF IndexInv, MAX_SHARD_COUNT
<1>3. ASSUME NEW t \in Users, NEW v \in Hashes,
             Alloc(t, v) \/ set_current_thread_shard_index(t, v)
      PROVE  IndexInv'
  <2>1. ForcedCount \in 1 .. MAX_SHARD_COUNT
    BY <1>3, CountForced, StartupAssumption
       DEF Alloc, set_current_thread_shard_index, MAX_SHARD_COUNT
  <2>2. /\ from_u64(v, ForcedCount) \in 0 .. 255
        /\ from_u64(v, ForcedCount) < ForcedCount
    BY <2>1, IndexInRange, StartupAssumption
  <2>3. count' = ForcedCount
    BY <1>3 DEF Alloc, set_current_thread_shard_index
  <2>4. \A u \in Users : index'[u] \in {index[u], from_u64(v, ForcedCount)}
    BY <1>3 DEF Alloc, set_current_thread_shard_index, TypeOK
  <2>5. \A u \in Users : index[u] # Unset => ForcedCount = count
    BY CountForced, StartupAssumption DEF IndexInv, MAX_SHARD_COUNT
  <2>6. QED
    BY <2>1, <2>2, <2>3, <2>4, <2>5 DEF IndexInv
<1>4. QED
  BY <1>1, <1>2, <1>3
     DEF Next, InitStep, GetSet, GetEmpty, Params, Spawn, Arrays, FirstSpin, NewSdarc,
         collector_update_now, Call, AllocPanics, vars

LEMMA IndexInductive == Spec => [](TypeOK /\ IndexInv)
<1>1. Init => TypeOK /\ IndexInv
  BY StartupAssumption DEF Init, TypeOK, IndexInv, Threads
<1>2. TypeOK /\ IndexInv /\ [Next]_vars => (TypeOK /\ IndexInv)'
  BY TypeStep, IndexStep
<1>3. QED
  BY <1>1, <1>2, PTL DEF Spec

(* Whatever the environment holds, the shard count is at most 256 or the   *)
(* LazyLock is poisoned, and a thread's shard index fits a u8.             *)
THEOREM StartupTypeCorrect == Spec => []TypeOK
  BY IndexInductive, PTL

(* For every shard count the program can have, 256 included, shard_indexes *)
(* yields each index once and every thread's index is one of them.         *)
THEOREM IndexesExact == Spec => []EachShardOnce
<1>1. TypeOK /\ IndexInv => EachShardOnce
  BY IndexesDistinct, StartupAssumption DEF TypeOK, IndexInv, EachShardOnce
<1>2. QED
  BY <1>1, IndexInductive, PTL

-----------------------------------------------------------------------------
(* One thread at a time initialises the OnceLock.  If the shard count is   *)
(* accepted, nothing panics behind the spawn: what was spawned belongs to  *)
(* the initialisation that fills the OnceLock.  If it is refused, no       *)
(* initialisation gets to its end.                                         *)
Initialises(t) == pc[t] \in {"params", "spawn", "arrays"}

OnceInv ==
    /\ count \in {Unset, init_shard_count}
    /\ \A n \in 1 .. MaxSpawned : n > spawned => pc[n] = "none"
    /\ \A t \in Threads : Initialises(t) => cell = "busy"
    /\ \A t, u \in Threads : Initialises(t) /\ Initialises(u) => t = u
    /\ init_shard_count # Bad =>
          /\ \A t \in Threads : pc[t] \in {"params", "spawn"} => spawned = 0
          /\ \A t \in Threads : pc[t] = "arrays" => spawned = 1
          /\ cell = "empty" => spawned = 0
    /\ cell = "set" => init_shard_count # Bad /\ spawned = 1

LEMMA OnceStep ==
    ASSUME TypeOK, OnceInv, [Next]_vars
    PROVE  OnceInv'
<1> USE DEF env
<1>0. ForcedCount = init_shard_count
  BY InitialCount DEF ForcedCount, OnceInv
<1> DEFINE fixed == init_shard_count
<1>a. init_shard_count' = fixed
  BY DEF Next, InitStep, GetSet, GetEmpty, Params, Spawn, Arrays, FirstSpin, NewSdarc,
         collector_update_now, Call, AllocPanics, Alloc, set_current_thread_shard_index, vars,
         init_shard_count, shard_count_from_env_var
<1>b. OnceInv' <=>
        /\ count' \in {Unset, fixed}
        /\ \A n \in 1 .. MaxSpawned : n > spawned' => pc'[n] = "none"
        /\ \A t \in Threads : Initialises(t)' => cell' = "busy"
        /\ \A t, u \in Threads : Initialises(t)' /\ Initialises(u)' => t = u
        /\ fixed # Bad =>
              /\ \A t \in Threads : pc'[t] \in {"params", "spawn"} => spawned' = 0
              /\ \A t \in Threads : pc'[t] = "arrays" => spawned' = 1
              /\ cell' = "empty" => spawned' = 0
        /\ cell' = "set" => fixed # Bad /\ spawned' = 1
  BY <1>a DEF OnceInv
<1>c. /\ count \in {Unset, fixed}
      /\ \A n \in 1 .. MaxSpawned : n > spawned => pc[n] = "none"
      /\ \A t \in Threads : Initialises(t) => cell = "busy"
      /\ \A t, u \in Threads : Initialises(t) /\ Initialises(u) => t = u
      /\ fixed # Bad =>
            /\ \A t \in Threads : pc[t] \in {"params", "spawn"} => spawned = 0
            /\ \A t \in Threads : pc[t] = "arrays" => spawned = 1
            /\ cell = "empty" => spawned = 0
      /\ cell = "set" => fixed # Bad /\ spawned = 1
  BY DEF OnceInv
<1> HIDE DEF fixed
<1>1. ASSUME NEW t \in Threads, GetSet(t)
      PROVE  OnceInv'
  BY <1>1, <1>b, <1>c DEF GetSet, Goto, Returned, Initialises, TypeOK, Threads
<1>2. ASSUME NEW t \in Threads, GetEmpty(t)
      PROVE  OnceInv'
  BY <1>2, <1>b, <1>c DEF GetEmpty, MayInit, Goto, Initialises, TypeOK, Threads
<1>3. ASSUME NEW t \in Threads, Params(t)
      PROVE  OnceInv'
  BY <1>3, <1>b, <1>c DEF Params, InitPanics, Unwound, Goto, Initialises, TypeOK, Threads
<1>4. ASSUME NEW t \in Threads, Spawn(t)
      PROVE  OnceInv'
  BY <1>4, <1>b, <1>c, StartupAssumption DEF Spawn, Initialises, TypeOK, Threads
<1>5. ASSUME NEW t \in Threads, Arrays(t)
      PROVE  OnceInv'
  <2>1. ForcedCount = fixed
    BY <1>0 DEF fixed
  <2>2. CASE fixed = Bad
    BY <1>5, <1>b, <1>c, <2>1, <2>2
       DEF Arrays, InitPanics, Unwound, Goto, Initialises, TypeOK, Threads
  <2>3. CASE fixed # Bad
    BY <1>5, <1>b, <1>c, <2>1, <2>3 DEF Arrays, Returned, Goto, Initialises, TypeOK, Threads
  <2>4. QED
    BY <2>2, <2>3
<1>6. ASSUME NEW t \in Threads, FirstSpin(t)
      PROVE  OnceInv'
  <2>1. ForcedCount = fixed
    BY <1>0 DEF fixed
  <2>2. QED
    BY <1>6, <1>b, <1>c, <2>1 DEF FirstSpin, Goto, Initialises, TypeOK, Threads
<1>7. ASSUME NEW t \in Users, NewSdarc(t) \/ collector_update_now(t)
      PROVE  OnceInv'
  BY <1>7, <1>b, <1>c, StartupAssumption
     DEF NewSdarc, collector_update_now, Call, Goto, Initialises, TypeOK, Threads
<1>8. ASSUME NEW t \in Users, NEW v, AllocPanics(t) \/ Alloc(t, v)
      PROVE  OnceInv'
  <2>1. ForcedCount = fixed
    BY <1>0 DEF fixed
  <2>2. QED
    BY <1>8, <1>b, <1>c, <2>1, StartupAssumption
       DEF AllocPanics, Alloc, Goto, Unwound, Initialises, TypeOK, Threads
<1>9. ASSUME NEW t \in Users, NEW v \in Hashes, set_current_thread_shard_index(t, v)
      PROVE  OnceInv'
  <2>1. ForcedCount = fixed
    BY <1>0 DEF fixed
  <2>2. QED
    BY <1>9, <1>b, <1>c, <2>1 DEF set_current_thread_shard_index, Initialises
<1>10. CASE UNCHANGED vars
  BY <1>10, <1>b, <1>c DEF vars, Initialises
<1>11. QED
  BY <1>1, <1>2, <1>3, <1>4, <1>5, <1>6, <1>7, <1>8, <1>9, <1>10
     DEF Next, InitStep

(* Whatever the environment holds, and however many callers race to        *)
(* initialise the OnceLock or repeat an initialisation that panicked: a    *)
(* collector that callers can get has the only thread ever spawned.        *)
THEOREM OneCollector == Spec => []OneCollectorThread
<1>1. Init => OnceInv
  BY StartupAssumption DEF Init, OnceInv, Initialises, Threads
<1>2. TypeOK /\ OnceInv /\ [Next]_vars => OnceInv'
  BY OnceStep
<1>3. OnceInv => OneCollectorThread
  BY DEF OnceInv, OneCollectorThread
<1>4. QED
  BY <1>1, <1>2, <1>3, IndexInductive, PTL DEF Spec
=============================================================================
