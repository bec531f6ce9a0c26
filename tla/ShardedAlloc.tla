---------------------------- MODULE ShardedAlloc ----------------------------
(***************************************************************************)
(* The sharded allocator (src/src/sharded_alloc.rs).  A unit of memory has *)
(* SlotCount slots, each with a usage flag and one value per shard.  Every *)
(* shard has a group of units behind a mutex; a thread allocates from the  *)
(* group of its shard, a ShardedBox that is dropped only resets the flag   *)
(* of its slot, and the collector gives units without used slots back: it  *)
(* swaps the group of each shard with the filling group, works on it       *)
(* without the mutex, and swaps it back.                                   *)
(***************************************************************************)
EXTENDS Integers, Sequences, FiniteSets

CONSTANTS
    Threads,
    Units,        \* addresses the memory allocator can return
    SlotCount,    \* SLOT_COUNT_PER_UNIT
    ShardCount,
    NoOne,        \* owner of a mutex nobody holds
    NoUnit

ASSUME AllocAssumption ==
    /\ SlotCount \in Nat \ {0}
    /\ ShardCount \in Nat \ {0}
    /\ NoOne \notin Threads
    /\ NoUnit \notin Units

Slots == 0 .. SlotCount - 1
Shards == 0 .. ShardCount - 1
Filling == ShardCount       \* index of temp_filling_group
Groups == Shards \cup {Filling}

VARIABLES
    live,      \* units whose memory is allocated
    flag,      \* usage flag of each slot
    values,    \* initialised minus dropped values, per slot and shard
    group,     \* all_units and indexes_of_units_to_check_for_allocation
    lock,      \* owner of the mutex of each shard's group
    boxes,     \* slots owned by a ShardedBox
    th,        \* what each thread does
    shardOf,   \* current shard index of each thread
    co         \* what the collector does; ghost: the units with a free slot,
               \* and without a used one, when the maintenance of a group began

vars == <<live, flag, values, group, lock, boxes, th, shardOf, co>>

Idle == [pc |-> "idle", s |-> 0, u |-> NoUnit, i |-> 0, k |-> 0, fresh |-> FALSE]
EmptyGroup == [units |-> <<>>, check |-> <<>>]

ThreadState == [pc : {"idle", "choose", "scan", "init", "unwind", "dealloc"},
                s : Shards, u : Units \cup {NoUnit}, i : 0 .. SlotCount,
                k : 0 .. ShardCount, fresh : BOOLEAN]
GroupState == [units : Seq(Units), check : Seq(Nat)]
ScanState == [pc : {"idle", "out", "retain", "index", "back"}, s : Groups, p : Nat,
              j : 0 .. SlotCount, free : SUBSET Units, idle : SUBSET Units]

TypeOK ==
    /\ live \subseteq Units
    /\ flag \in [Units -> [Slots -> 0 .. 1]]
    /\ values \in [Units -> [Slots -> [Shards -> Int]]]
    /\ group \in [Groups -> GroupState]
    /\ lock \in [Shards -> Threads \cup {NoOne}]
    /\ boxes \subseteq Units \X Slots
    /\ th \in [Threads -> ThreadState]
    /\ shardOf \in [Threads -> Shards]
    /\ co \in ScanState

Init ==
    /\ live = {}
    /\ flag = [u \in Units |-> [i \in Slots |-> 0]]
    /\ values = [u \in Units |-> [i \in Slots |-> [s \in Shards |-> 0]]]
    /\ group = [g \in Groups |-> EmptyGroup]
    /\ lock = [s \in Shards |-> NoOne]
    /\ boxes = {}
    /\ th = [t \in Threads |-> Idle]
    /\ shardOf \in [Threads -> Shards]
    /\ co = [pc |-> "idle", s |-> 0, p |-> 0, j |-> 0, free |-> {}, idle |-> {}]

Become(t, r) == th' = [th EXCEPT ![t] = r]
At(t, p) == th[t].pc = p

-----------------------------------------------------------------------------
(* allocate_and_init: the mutex of the group of the thread's shard. *)
Lock(t) ==
    /\ At(t, "idle") /\ lock[shardOf[t]] = NoOne
    /\ lock' = [lock EXCEPT ![shardOf[t]] = t]
    /\ Become(t, [Idle EXCEPT !.pc = "choose", !.s = shardOf[t]])
    /\ UNCHANGED <<live, flag, values, group, boxes, shardOf, co>>

(* AllocUnitGroup::allocate, head of the loop: no unit left to check, so   *)
(* AllocUnit::new, at any address that is free, which writes the flags ... *)
NewUnit(t, u) ==
    /\ At(t, "choose") /\ group[th[t].s].check = <<>>
    /\ u \notin live
    /\ live' = live \cup {u}
    /\ flag' = [flag EXCEPT ![u] = [i \in Slots |-> 0]]
    /\ Become(t, [th[t] EXCEPT !.pc = "scan", !.u = u, !.i = 0, !.fresh = TRUE])
    /\ UNCHANGED <<values, group, lock, boxes, shardOf, co>>

(* ... or panics ("Sharded Alloc Failure"), which unlocks the mutex.       *)
NoMemory(t) ==
    /\ At(t, "choose") /\ group[th[t].s].check = <<>>
    /\ live = Units
    /\ lock' = [lock EXCEPT ![th[t].s] = NoOne]
    /\ Become(t, Idle)
    /\ UNCHANGED <<live, flag, values, group, boxes, shardOf, co>>

(* The unit at the first index to check. *)
PickUnit(t) ==
    LET g == group[th[t].s] IN
    /\ At(t, "choose") /\ g.check # <<>>
    /\ Become(t, [th[t] EXCEPT !.pc = "scan", !.u = g.units[g.check[1] + 1], !.i = 0])
    /\ UNCHANGED <<live, flag, values, group, lock, boxes, shardOf, co>>

(* allocate_without_initializing: swap the flag of one slot after another. *)
SwapFlag(t) ==
    LET u == th[t].u
        i == th[t].i IN
    /\ At(t, "scan") /\ i < SlotCount
    /\ flag' = [flag EXCEPT ![u][i] = 1]
    /\ Become(t, IF flag[u][i] = 0 THEN [th[t] EXCEPT !.pc = "init", !.k = 0]
                                   ELSE [th[t] EXCEPT !.i = i + 1])
    /\ UNCHANGED <<live, values, group, lock, boxes, shardOf, co>>

(* Vec::swap_remove(0): the last element takes the first place. *)
SwapRemoveFirst(q) == [n \in 1 .. Len(q) - 1 |-> IF n = 1 THEN q[Len(q)] ELSE q[n]]

(* No free slot: the unit is no longer checked, and the loop goes on. *)
ScanFailed(t) ==
    /\ At(t, "scan") /\ th[t].i = SlotCount
    /\ group' = [group EXCEPT ![th[t].s].check = SwapRemoveFirst(@)]
    /\ Become(t, [th[t] EXCEPT !.pc = "choose"])
    /\ UNCHANGED <<live, flag, values, lock, boxes, shardOf, co>>

AddValues(u, i, S, d) ==
    values' = [values EXCEPT ![u][i] = [s \in Shards |-> @[s] + IF s \in S THEN d ELSE 0]]

(* Mutant of MoreShards: one shard too many. *)
MoreShardsInclusive(k) == k <= ShardCount
MoreShards(k) == k < ShardCount

(* allocate_and_initialize: the value of one shard after the other. *)
InitShard(t) ==
    /\ At(t, "init") /\ MoreShards(th[t].k)
    /\ AddValues(th[t].u, th[t].i, {th[t].k}, 1)
    /\ Become(t, [th[t] EXCEPT !.k = @ + 1])
    /\ UNCHANGED <<live, flag, group, lock, boxes, shardOf, co>>

(* Mutant of shard_indexes_until: the shard whose value was not written.   *)
shard_indexes_through(k) == 0 .. k
shard_indexes_until(k) == 0 .. k - 1

(* Mutant of InitPanics: the slot stays marked as used. *)
InitPanicsLosesSlot(t) ==
    /\ At(t, "init") /\ MoreShards(th[t].k)
    /\ AddValues(th[t].u, th[t].i, shard_indexes_until(th[t].k), -1)
    /\ Become(t, [th[t] EXCEPT !.pc = "unwind"])
    /\ UNCHANGED <<live, flag, group, lock, boxes, shardOf, co>>

(* init_func panics: the unwind guard drops the values written so far and  *)
(* gives the slot back ...                                                 *)
InitPanics(t) ==
    /\ At(t, "init") /\ MoreShards(th[t].k)
    /\ AddValues(th[t].u, th[t].i, shard_indexes_until(th[t].k), -1)
    /\ flag' = [flag EXCEPT ![th[t].u][th[t].i] = 0]
    /\ Become(t, [th[t] EXCEPT !.pc = "unwind"])
    /\ UNCHANGED <<live, group, lock, boxes, shardOf, co>>

(* ... then a new unit, which is in no group yet, is dropped, and the      *)
(* guard of the mutex.                                                     *)
Unwind(t) ==
    /\ At(t, "unwind")
    /\ live' = IF th[t].fresh THEN live \ {th[t].u} ELSE live
    /\ lock' = [lock EXCEPT ![th[t].s] = NoOne]
    /\ Become(t, Idle)
    /\ UNCHANGED <<flag, values, group, boxes, shardOf, co>>

(* Every shard is initialised: a new unit joins the group, with its index. *)
Finish(t) ==
    LET g == group[th[t].s] IN
    /\ At(t, "init") /\ th[t].k = ShardCount
    /\ group' = IF th[t].fresh
                THEN [group EXCEPT ![th[t].s] = [units |-> Append(g.units, th[t].u),
                                                 check |-> Append(g.check, Len(g.units))]]
                ELSE group
    /\ boxes' = boxes \cup {<<th[t].u, th[t].i>>}
    /\ lock' = [lock EXCEPT ![th[t].s] = NoOne]
    /\ Become(t, Idle)
    /\ UNCHANGED <<live, flag, values, shardOf, co>>

-----------------------------------------------------------------------------
(* Drop for ShardedBox: the values of all shards, then the flag.           *)
DropBox(t, b) ==
    /\ At(t, "idle") /\ b \in boxes
    /\ boxes' = boxes \ {b}
    /\ AddValues(b[1], b[2], Shards, -1)
    /\ Become(t, [Idle EXCEPT !.pc = "dealloc", !.u = b[1], !.i = b[2]])
    /\ UNCHANGED <<live, flag, group, lock, shardOf, co>>

deallocate_without_dropping(t) ==
    /\ At(t, "dealloc")
    /\ flag' = [flag EXCEPT ![th[t].u][th[t].i] = 0]
    /\ Become(t, Idle)
    /\ UNCHANGED <<live, values, group, lock, boxes, shardOf, co>>

set_current_thread_shard_index(t, s) ==
    /\ At(t, "idle")
    /\ shardOf' = [shardOf EXCEPT ![t] = s]
    /\ UNCHANGED <<live, flag, values, group, lock, boxes, th, co>>

-----------------------------------------------------------------------------
(* do_maintenance_by_collector, for each shard and then for the filling    *)
(* group.  No thread holds the mutex of the filling group but the          *)
(* collector.                                                              *)
Maintain ==
    /\ co.pc = "idle"
    /\ co' = [co EXCEPT !.pc = "out", !.s = 0]
    /\ UNCHANGED <<live, flag, values, group, lock, boxes, th, shardOf>>

(* Mutant of Swapped: the group is copied, the shard keeps its own. *)
Copied == [group EXCEPT ![Filling] = group[co.s]]
Swapped == [group EXCEPT ![co.s] = group[Filling], ![Filling] = group[co.s]]

SwapGroups ==
    /\ lock[co.s] = NoOne
    /\ group' = Swapped
    /\ UNCHANGED <<live, flag, values, lock, boxes, th, shardOf>>

RangeOf(q) == {q[n] : n \in 1 .. Len(q)}

(* The maintenance of the group that is now the filling group begins. *)
BeginMaintenance(s) ==
    LET units == RangeOf(group'[Filling].units) IN
    co' = [pc |-> "retain", s |-> s, p |-> 0, j |-> 0,
           free |-> {u \in units : \E i \in Slots : flag[u][i] = 0},
           idle |-> {u \in units : \A i \in Slots : flag[u][i] = 0}]

SwapOut ==
    /\ co.pc = "out"
    /\ SwapGroups
    /\ BeginMaintenance(co.s)

(* Position in the scan of the flags of the filling group. *)
UnitAt(p) == group[Filling].units[p + 1]
Scanning(pc) == co.pc = pc /\ co.p < Len(group[Filling].units)
NextUnit == [co EXCEPT !.p = @ + 1, !.j = 0]

(* Mutant of Keeps: a free slot keeps the unit. *)
KeepsFree(v) == v = 0
Keeps(v) == v = 1

(* retain_mut, is_any_slot_used: a used slot keeps the unit. *)
Retain ==
    /\ Scanning("retain") /\ co.j < SlotCount
    /\ co' = IF Keeps(flag[UnitAt(co.p)][co.j]) THEN NextUnit ELSE [co EXCEPT !.j = @ + 1]
    /\ UNCHANGED <<live, flag, values, group, lock, boxes, th, shardOf>>

(* retain_mut: Drop for AllocUnit gives the memory back, later units move. *)
Remove ==
    /\ Scanning("retain") /\ co.j = SlotCount
    /\ live' = live \ {UnitAt(co.p)}
    /\ group' = [group EXCEPT ![Filling].units =
                    SubSeq(@, 1, co.p) \o SubSeq(@, co.p + 2, Len(@))]
    /\ co' = [co EXCEPT !.j = 0, !.free = @ \ {UnitAt(co.p)}, !.idle = @ \ {UnitAt(co.p)}]
    /\ UNCHANGED <<flag, values, lock, boxes, th, shardOf>>

(* Mutant of Cleared: the old indexes stay. *)
NotCleared(q) == q
Cleared(q) == <<>>

(* The indexes are cleared before the units with a free slot are counted.  *)
ClearIndexes ==
    /\ co.pc = "retain" /\ co.p = Len(group[Filling].units)
    /\ group' = [group EXCEPT ![Filling].check = Cleared(@)]
    /\ co' = [co EXCEPT !.pc = "index", !.p = 0, !.j = 0]
    /\ UNCHANGED <<live, flag, values, lock, boxes, th, shardOf>>

(* Mutant of LastFlag: only the first flag is read. *)
FirstFlag == 0
LastFlag == SlotCount - 1

(* has_any_free_slot: the first free slot makes the unit one to check. *)
Index ==
    LET free == flag[UnitAt(co.p)][co.j] = 0 IN
    /\ Scanning("index")
    /\ group' = IF free THEN [group EXCEPT ![Filling].check = Append(@, co.p)] ELSE group
    /\ co' = IF free \/ co.j = LastFlag THEN NextUnit ELSE [co EXCEPT !.j = @ + 1]
    /\ UNCHANGED <<live, flag, values, lock, boxes, th, shardOf>>

IndexEnd ==
    /\ co.pc = "index" /\ co.p = Len(group[Filling].units)
    /\ co' = [pc |-> IF co.s = Filling THEN "idle" ELSE "back", s |-> co.s, p |-> 0, j |-> 0,
              free |-> {}, idle |-> {}]
    /\ UNCHANGED <<live, flag, values, group, lock, boxes, th, shardOf>>

(* The next shard, or the filling group itself. *)
SwapBack ==
    /\ co.pc = "back"
    /\ SwapGroups
    /\ IF co.s + 1 = Filling THEN BeginMaintenance(Filling)
                             ELSE co' = [co EXCEPT !.pc = "out", !.s = @ + 1]

-----------------------------------------------------------------------------
ThreadStep(t) == \/ Lock(t) \/ NoMemory(t) \/ PickUnit(t) \/ SwapFlag(t) \/ ScanFailed(t)
                 \/ InitShard(t) \/ InitPanics(t) \/ Unwind(t) \/ Finish(t)
                 \/ deallocate_without_dropping(t)
                 \/ \E u \in Units : NewUnit(t, u)
                 \/ \E b \in boxes : DropBox(t, b)
                 \/ \E s \in Shards : set_current_thread_shard_index(t, s)

CollectorStep == \/ Maintain \/ SwapOut \/ Retain \/ Remove \/ ClearIndexes
                 \/ Index \/ IndexEnd \/ SwapBack

Next == CollectorStep \/ \E t \in Threads : ThreadStep(t)

Spec == Init /\ [][Next]_vars

-----------------------------------------------------------------------------
(* Owners of slots: boxes, threads that initialise one, threads that have  *)
(* dropped its values and are about to reset the flag.                     *)
HeldBy(t) == IF th[t].pc \in {"init", "dealloc"} THEN {<<th[t].u, th[t].i>>} ELSE {}
Owned == boxes \cup UNION {HeldBy(t) : t \in Threads}

(* A slot has at most one owner, and its flag is set exactly while it has  *)
(* one: no slot is handed out twice, none is lost when init_func panics,   *)
(* and the assertion of deallocate_without_dropping (line 477) holds.      *)
OneOwner ==
    /\ \A u \in live, i \in Slots : (flag[u][i] = 1) <=> (<<u, i>> \in Owned)
    /\ \A t \in Threads : HeldBy(t) \cap boxes = {}
    /\ \A t1, t2 \in Threads : t1 # t2 => HeldBy(t1) \cap HeldBy(t2) = {}

(* Every value is dropped exactly once: a box has a value per shard, a     *)
(* slot under initialisation those written so far, any other slot none.    *)
ValuesMatch ==
    \A u \in Units, i \in Slots, s \in Shards : values[u][i][s] =
        IF \/ <<u, i>> \in boxes
           \/ \E t \in Threads : th[t].pc = "init" /\ <<u, i>> \in HeldBy(t) /\ s < th[t].k
        THEN 1 ELSE 0

NoRepeats(q) == Cardinality(RangeOf(q)) = Len(q)
Fresh(t) == IF th[t].fresh THEN {th[t].u} ELSE {}

(* Every mapped unit is in exactly one group, or new and in the hands of   *)
(* one thread: no unit is lost in the swaps with the filling group and     *)
(* none is in two groups.                                                  *)
PlacedOnce ==
    /\ live = (UNION {RangeOf(group[g].units) : g \in Groups}) \cup UNION {Fresh(t) : t \in Threads}
    /\ \A g \in Groups : NoRepeats(group[g].units)
    /\ \A g, h \in Groups : g # h => RangeOf(group[g].units) \cap RangeOf(group[h].units) = {}
    /\ \A g \in Groups, t \in Threads : RangeOf(group[g].units) \cap Fresh(t) = {}

(* The indexes to check are positions of all_units, without repetitions,   *)
(* in every group a thread can see: retain_mut moves units, so indexes     *)
(* that outlive it would be stale (line 216).                              *)
IndexesValid ==
    \A s \in Shards : /\ \A n \in RangeOf(group[s].check) : n < Len(group[s].units)
                      /\ NoRepeats(group[s].check)

(* Slots are handed out and memory is unmapped as the abstract pool says:  *)
(* in particular no unit is given back while one of its slots is owned,    *)
(* although the flags are read one by one while slots are given back.      *)
Pool == INSTANCE SlotPool WITH mapped <- live, owned <- Owned
PoolSpec == Pool!Spec

(* When the maintenance of a group ends, a unit that had a free slot when  *)
(* it began is offered again to the allocations from this group, or its    *)
(* memory has been given back, whatever threads did to the flags           *)
(* meanwhile; and the memory of a unit that had no used slot has been      *)
(* given back.  Nobody allocates from the filling group until the swap     *)
(* that makes it the group of a shard.                                     *)
SlotsComeBack ==
    [][co.pc = "index" /\ co'.pc # "index" =>
         LET g == group[Filling] IN
         \A n \in 1 .. Len(g.units) : /\ g.units[n] \in co.free => n - 1 \in RangeOf(g.check)
                                      /\ g.units[n] \notin co.idle]_vars
=============================================================================
