------------------------------- MODULE Sdarc -------------------------------
(***************************************************************************)
(* The life of one SdarcInner: the threads that hold, clone, drop, load,   *)
(* swap, store, compare-and-set, downgrade and upgrade references to it    *)
(* (src/src/sdarc.rs), the reader critical section they use                *)
(* (src/src/reader_critical_section.rs), and the collector thread that     *)
(* scans its sharded counters and frees it (src/src/collector.rs).         *)
(*                                                                         *)
(* An owned Sdarc can be sent to any thread, so the owned handles are a    *)
(* number.  An atomic cell either holds this object or something else      *)
(* (null or another object).  Every atomic access of the code is a step of *)
(* its own, and accesses are sequentially consistent; SdarcBufferedEntry    *)
(* weakens that for the entry of the critical section.                     *)
(***************************************************************************)
EXTENDS TaggedCounter, FiniteSets

CONSTANTS
    Threads,       \* user threads
    ShardCount,    \* number of counter shards
    Cells,         \* atomic cells (AtomicNullableSdarc) the object may be put in
    SwapThreads,   \* threads that call swap and store on the cells
    CasThreads,    \* threads that call compare_and_set on the cells
    WeakThreads,   \* threads that call downgrade and upgrade
    MaxHandles,    \* bound on the owned handles (model checking only)
    MaxCount       \* bound on |ref_count| of one shard (model checking only)

ASSUME SdarcAssumption ==
    /\ IsFiniteSet(Threads) /\ IsFiniteSet(Cells)
    /\ ShardCount \in Nat \ {0}
    /\ SwapThreads \subseteq Threads
    /\ CasThreads \subseteq Threads
    /\ WeakThreads \subseteq Threads
    /\ MaxHandles \in Nat /\ MaxCount \in Nat

Shards == 0 .. ShardCount - 1

(* compare_and_set is safe when one thread does all the writes to cells. *)
SingleCasWriter ==
    \A t \in CasThreads, u \in CasThreads \cup SwapThreads : t = u

VARIABLES
    tracked,    \* what the collector knows of the object
    counter,    \* SdarcInner::counters, one tagged counter per shard
    handles,    \* number of owned Sdarc handles
    cells,      \* the cells that hold the object
    backRef,    \* WeakSdarcInner::back_ref: not initialised, set or null
    pc,         \* the operation each thread is in the middle of
    shardOf,    \* current shard index of each thread
    cs,         \* critical section counter of each shard
    cpc,        \* control point of the collector
    next,       \* next shard of the collector's current scan
    toSpin,     \* shards_to_spin
    sum         \* sum of the current scan

threadVars == <<handles, cells, pc, shardOf, cs>>
collectorVars == <<tracked, cpc, next, toSpin, sum>>
vars == <<tracked, counter, handles, cells, backRef, pc, shardOf, cs,
          cpc, next, toSpin, sum>>

Tracked == {"Unborn", "Pending", "DefaultState", "RequiresReChecking",
            "ReadyToFree", "Freed"}
PC == {"idle", "loadEntered", "upgradeEntered", "loaded", "leaving",
       "storing", "dropped", "casSet", "casSame"}
CPC == {"idle", "spin", "prescan", "clearTags", "recheck", "clearWeak",
        "free", "panicked"}

TypeOK ==
    /\ tracked \in Tracked
    /\ counter \in [Shards -> Int]
    /\ handles \in Nat
    /\ cells \subseteq Cells
    /\ backRef \in {"uninit", "set", "null"}
    /\ pc \in [Threads -> PC]
    /\ shardOf \in [Threads -> Shards]
    /\ cs \in [Shards -> Int]
    /\ cpc \in CPC
    /\ next \in 0 .. ShardCount
    /\ toSpin \subseteq Shards
    /\ sum \in Int

Init ==
    /\ tracked = "Unborn"
    /\ counter = [s \in Shards |-> NewCounter]
    /\ handles = 0
    /\ cells = {}
    /\ backRef = "uninit"
    /\ pc = [t \in Threads |-> "idle"]
    /\ shardOf \in [Threads -> Shards]
    /\ cs = [s \in Shards |-> 0]
    /\ cpc = "idle"
    /\ next = 0
    /\ toSpin = {}
    /\ sum = 0

-----------------------------------------------------------------------------
(* Threads that are at one of the control points S. *)
At(S) == {t \in Threads : pc[t] \in S}

(* A compare_and_set in progress borrows a handle, which its caller cannot *)
(* give away or drop meanwhile.                                            *)
Borrowed == IF At({"casSet", "casSame"}) = {} THEN 0 ELSE 1

(* t increments or decrements at its current shard. *)
IncrementAt(t) ==
    counter' = [counter EXCEPT ![shardOf[t]] = increment(@)]
DecrementAt(t) ==
    counter' = [counter EXCEPT ![shardOf[t]] = decrement_and_set_tag(@)]
Goto(t, point) == pc' = [pc EXCEPT ![t] = point]

(* Bounds: an operation starts only if the owned handles it may add, and   *)
(* the count of the shard it may change, stay within them.                 *)
RoomForHandle ==
    handles + Cardinality(At({"loadEntered", "upgradeEntered", "loaded", "casSame"}))
        < MaxHandles
RoomToCount(t) ==
    /\ ref_count(counter[shardOf[t]]) < MaxCount
    /\ ref_count(counter[shardOf[t]]) > -MaxCount

(* Sdarc::new with SdarcInner::new and on_new_sdarc_allocated: until it is *)
(* pushed on the pending list of the shard only its creator can see it, so *)
(* creation is one step.                                                   *)
New(t) ==
    /\ tracked = "Unborn"
    /\ pc[t] = "idle"
    /\ IncrementAt(t)
    /\ handles' = handles + 1
    /\ tracked' = "Pending"
    /\ UNCHANGED <<cells, backRef, pc, shardOf, cs, cpc, next, toSpin, sum>>

Clone(t) ==
    /\ pc[t] = "idle"
    /\ handles > 0
    /\ RoomForHandle /\ RoomToCount(t)
    /\ IncrementAt(t)
    /\ handles' = handles + 1
    /\ UNCHANGED <<collectorVars, cells, backRef, pc, shardOf, cs>>

(* The decrement of Drop for Sdarc.  Its second half, DropNotify, still    *)
(* reads counters.0 through inner_ref().                                   *)
Drop(t) ==
    /\ pc[t] = "idle"
    /\ handles > Borrowed
    /\ RoomToCount(t)
    /\ DecrementAt(t)
    /\ handles' = handles - 1
    /\ Goto(t, "dropped")
    /\ UNCHANGED <<collectorVars, cells, backRef, shardOf, cs>>

(* on_sdarc_drop in a thread that is not the collector does nothing more. *)
DropNotify(t) ==
    /\ pc[t] = "dropped"
    /\ Goto(t, "idle")
    /\ UNCHANGED <<collectorVars, counter, handles, cells, backRef, shardOf, cs>>

-----------------------------------------------------------------------------
(* reader_critical_section: entry, and the scope guard at the end, which   *)
(* decrements the counter that was incremented at entry.                   *)
Enter(t, point) ==
    /\ pc[t] = "idle"
    /\ Goto(t, point)
    /\ cs' = [cs EXCEPT ![shardOf[t]] = @ + 1]
    /\ UNCHANGED <<collectorVars, counter, handles, cells, backRef, shardOf>>

Leave(t) ==
    /\ pc[t] = "leaving"
    /\ cs' = [cs EXCEPT ![shardOf[t]] = @ - 1]
    /\ Goto(t, "idle")
    /\ UNCHANGED <<collectorVars, counter, handles, cells, backRef, shardOf>>

(* AtomicNullableSdarc::load *)
EnterLoad(t) == RoomForHandle /\ RoomToCount(t) /\ Enter(t, "loadEntered")

LoadPtr(t, c) ==
    /\ pc[t] = "loadEntered"
    /\ Goto(t, IF c \in cells THEN "loaded" ELSE "leaving")
    /\ UNCHANGED <<collectorVars, counter, handles, cells, backRef, shardOf, cs>>

(* WeakSdarc::upgrade; a WeakSdarc exists once downgrade has returned. *)
EnterUpgrade(t) ==
    /\ t \in WeakThreads
    /\ backRef # "uninit"
    /\ RoomForHandle /\ RoomToCount(t)
    /\ Enter(t, "upgradeEntered")

LoadBackRef(t) ==
    /\ pc[t] = "upgradeEntered"
    /\ Goto(t, IF backRef = "set" THEN "loaded" ELSE "leaving")
    /\ UNCHANGED <<collectorVars, counter, handles, cells, backRef, shardOf, cs>>

(* The increment of load and of upgrade, after which the caller owns a     *)
(* handle.                                                                 *)
IncrementLoaded(t) ==
    /\ pc[t] = "loaded"
    /\ IncrementAt(t)
    /\ handles' = handles + 1
    /\ Goto(t, "leaving")
    /\ UNCHANGED <<collectorVars, cells, backRef, shardOf, cs>>

(* Sdarc::downgrade: get_or_init of weak_inner_ref. *)
Downgrade(t) ==
    /\ t \in WeakThreads
    /\ pc[t] = "idle"
    /\ handles > 0
    /\ backRef = "uninit"
    /\ backRef' = "set"
    /\ UNCHANGED <<collectorVars, threadVars, counter>>

-----------------------------------------------------------------------------
(* What one exchange does to a cell: in says whether the new value is this *)
(* object.                                                                 *)
Put(c, in) == cells' = IF in THEN cells \cup {c} ELSE cells \ {c}

(* Mutant of Swap: puts a pointer in the cell without owning the handle. *)
SwapBorrowed(t, c, in) ==
    /\ t \in SwapThreads
    /\ pc[t] = "idle"
    /\ in \/ c \in cells
    /\ tracked \notin {"Unborn", "Freed"}
    /\ handles' = handles - (IF in THEN 1 ELSE 0) + (IF c \in cells THEN 1 ELSE 0)
    /\ Put(c, in)
    /\ UNCHANGED <<collectorVars, counter, backRef, pc, shardOf, cs>>

(* AtomicNullableSdarc::swap: the handle passed in moves into the cell,    *)
(* the pointer moved out becomes an owned handle.                          *)
Swap(t, c, in) ==
    /\ t \in SwapThreads
    /\ pc[t] = "idle"
    /\ in \/ c \in cells
    /\ in => handles > Borrowed
    /\ handles' = handles - (IF in THEN 1 ELSE 0) + (IF c \in cells THEN 1 ELSE 0)
    /\ Put(c, in)
    /\ UNCHANGED <<collectorVars, counter, backRef, pc, shardOf, cs>>

(* AtomicNullableSdarc::store: as swap, but the old pointer is dropped by  *)
(* the same call.  Drop for AtomicNullableSdarc is store(None).            *)
Store(t, c, in) ==
    /\ t \in SwapThreads
    /\ pc[t] = "idle"
    /\ in \/ c \in cells
    /\ in => handles > Borrowed
    /\ RoomToCount(t)
    /\ handles' = handles - (IF in THEN 1 ELSE 0)
    /\ Put(c, in)
    /\ Goto(t, IF c \in cells THEN "storing" ELSE "idle")
    /\ UNCHANGED <<collectorVars, counter, backRef, shardOf, cs>>

StoreDropOld(t) ==
    /\ pc[t] = "storing"
    /\ DecrementAt(t)
    /\ Goto(t, "dropped")
    /\ UNCHANGED <<collectorVars, handles, cells, backRef, shardOf, cs>>

(* raw_compare_and_set, the successful compare_exchange: matches and in    *)
(* say whether if_matches and then_set are this object; both are borrowed. *)
(* A failed exchange changes nothing and returns Err.                      *)
CompareAndSet(t, c, matches, in) ==
    /\ t \in CasThreads
    /\ pc[t] = "idle"
    /\ matches \/ in
    /\ handles > 0
    /\ matches <=> c \in cells
    /\ RoomForHandle /\ RoomToCount(t)
    /\ Put(c, in)
    /\ Goto(t, IF ~in THEN "idle" ELSE IF matches THEN "casSame" ELSE "casSet")
    /\ handles' = IF in THEN handles ELSE handles + 1
    /\ UNCHANGED <<collectorVars, counter, backRef, shardOf, cs>>

(* Mutant of CasIncrement: then_set is not counted. *)
CasWithoutIncrement(t) ==
    /\ pc[t] \in {"casSet", "casSame"}
    /\ handles' = IF pc[t] = "casSame" THEN handles + 1 ELSE handles
    /\ Goto(t, "idle")
    /\ UNCHANGED <<collectorVars, counter, cells, backRef, shardOf, cs>>

(* The compensating increment of then_set; the overwritten pointer becomes *)
(* an owned handle.                                                        *)
CasIncrement(t) ==
    /\ pc[t] \in {"casSet", "casSame"}
    /\ IncrementAt(t)
    /\ handles' = IF pc[t] = "casSame" THEN handles + 1 ELSE handles
    /\ Goto(t, "idle")
    /\ UNCHANGED <<collectorVars, cells, backRef, shardOf, cs>>

(* set_current_thread_shard_index *)
SetShard(t, s) ==
    /\ pc[t] = "idle"
    /\ s # shardOf[t]
    /\ shardOf' = [shardOf EXCEPT ![t] = s]
    /\ UNCHANGED <<collectorVars, counter, handles, cells, backRef, pc, cs>>

(* The operations a thread begins outside the critical section. *)
ThreadBegin(t) ==
    \/ New(t) \/ Clone(t) \/ Drop(t) \/ Downgrade(t)
    \/ \E c \in Cells, in \in BOOLEAN : Swap(t, c, in) \/ Store(t, c, in)
    \/ \E c \in Cells, matches, in \in BOOLEAN : CompareAndSet(t, c, matches, in)
    \/ \E s \in Shards : SetShard(t, s)

(* The steps that go on with an operation a thread has begun. *)
ThreadContinue(t) ==
    \/ DropNotify(t) \/ StoreDropOld(t) \/ CasIncrement(t)
    \/ (\E c \in Cells : LoadPtr(t, c)) \/ LoadBackRef(t) \/ IncrementLoaded(t)

-----------------------------------------------------------------------------
(* The collector, for this one object.  Each visit of the object, in an    *)
(* outer or an inner iteration, is a spin over the critical section        *)
(* counters and an update_state; take_new_counters_to_track comes before   *)
(* the first visit of an outer iteration.                                  *)
BeginIteration ==
    /\ cpc = "idle"
    /\ tracked' = IF tracked = "Pending" THEN "DefaultState" ELSE tracked
    /\ cpc' = "spin"
    /\ next' = 0
    /\ toSpin' = {}
    /\ sum' = 0
    /\ UNCHANGED <<threadVars, counter, backRef>>

(* spin_until_observing_non_critical_section_once_in_each_shard: the first *)
(* pass notes the shards that are not zero.                                *)
SpinFirstPass ==
    /\ cpc = "spin"
    /\ next < ShardCount
    /\ toSpin' = IF cs[next] # 0 THEN toSpin \cup {next} ELSE toSpin
    /\ next' = next + 1
    /\ UNCHANGED <<threadVars, counter, backRef, tracked, cpc, sum>>

(* ... and each of them, in order, is read until it is zero. *)
SpinWait(s) ==
    /\ cpc = "spin"
    /\ next = ShardCount
    /\ s \in toSpin
    /\ \A r \in toSpin : s <= r
    /\ cs[s] = 0
    /\ toSpin' = toSpin \ {s}
    /\ UNCHANGED <<threadVars, counter, backRef, tracked, cpc, next, sum>>

(* Mutant of SpinDone: readers seen in the first pass are not waited for. *)
SpinFirstPassDone == next = ShardCount

SpinDone == next = ShardCount /\ toSpin = {}

(* The object is visited only if it is in tracked_counters. *)
StartUpdate ==
    /\ cpc = "spin"
    /\ SpinDone
    /\ cpc' = CASE tracked = "DefaultState" -> "prescan"
                [] tracked = "RequiresReChecking" -> "recheck"
                [] OTHER -> "idle"
    /\ next' = 0
    /\ UNCHANGED <<threadVars, counter, backRef, tracked, toSpin, sum>>

(* read_ref_count_sum_relaxed *)
PreScan ==
    /\ cpc = "prescan"
    /\ next < ShardCount
    /\ sum' = sum + ref_count(counter[next])
    /\ next' = next + 1
    /\ UNCHANGED <<threadVars, counter, backRef, tracked, cpc, toSpin>>

PreScanEnd ==
    /\ cpc = "prescan"
    /\ next = ShardCount
    /\ cpc' = IF sum = 0 THEN "clearTags" ELSE "idle"
    /\ next' = 0
    /\ sum' = 0
    /\ UNCHANGED <<threadVars, counter, backRef, tracked, toSpin>>

(* Mutant of ClearTags: reads the counts and leaves the tags. *)
ReadWithoutClearing ==
    /\ cpc = "clearTags"
    /\ next < ShardCount
    /\ sum' = sum + ref_count(counter[next])
    /\ next' = next + 1
    /\ UNCHANGED <<threadVars, counter, backRef, tracked, cpc, toSpin>>

(* clear_tags_and_read_ref_count_sum_relaxed *)
ClearTags ==
    /\ cpc = "clearTags"
    /\ next < ShardCount
    /\ sum' = sum + ref_count(counter[next])
    /\ counter' = [counter EXCEPT ![next] = clear_tag(@)]
    /\ next' = next + 1
    /\ UNCHANGED <<threadVars, backRef, tracked, cpc, toSpin>>

ClearTagsEnd ==
    /\ cpc = "clearTags"
    /\ next = ShardCount
    /\ tracked' = IF sum = 0 THEN "RequiresReChecking" ELSE "DefaultState"
    /\ cpc' = "idle"
    /\ next' = 0
    /\ sum' = 0
    /\ UNCHANGED <<threadVars, counter, backRef, toSpin>>

(* Mutant of Recheck: a plain second scan, which does not look at the tags. *)
RecheckWithoutTags ==
    /\ cpc = "recheck"
    /\ next < ShardCount
    /\ sum' = sum + ref_count(counter[next])
    /\ next' = next + 1
    /\ UNCHANGED <<threadVars, counter, backRef, tracked, cpc, toSpin>>

(* read_ref_count_sum_if_all_tags_unset_acquire: one tag ends the scan. *)
Recheck ==
    /\ cpc = "recheck"
    /\ next < ShardCount
    /\ IF tag(counter[next])
       THEN /\ tracked' = "DefaultState"
            /\ cpc' = "idle"
            /\ next' = 0
            /\ sum' = 0
       ELSE /\ sum' = sum + ref_count(counter[next])
            /\ next' = next + 1
            /\ UNCHANGED <<tracked, cpc>>
    /\ UNCHANGED <<threadVars, counter, backRef, toSpin>>

(* A negative sum fails the assertion and ends the collector thread. *)
RecheckEnd ==
    /\ cpc = "recheck"
    /\ next = ShardCount
    /\ tracked' = IF sum > 0 THEN "DefaultState" ELSE tracked
    /\ cpc' = CASE sum = 0 -> "clearWeak" [] sum > 0 -> "idle" [] sum < 0 -> "panicked"
    /\ next' = 0
    /\ sum' = 0
    /\ UNCHANGED <<threadVars, counter, backRef, toSpin>>

(* Mutant of ClearWeakBackRef: frees without re-checking after the clearing. *)
ClearWeakAndFree ==
    /\ cpc = "clearWeak"
    /\ backRef' = IF backRef = "set" THEN "null" ELSE backRef
    /\ tracked' = "ReadyToFree"
    /\ cpc' = "free"
    /\ UNCHANGED <<threadVars, counter, next, toSpin, sum>>

(* clear_weak_backref_impl and the match on its result *)
ClearWeakBackRef ==
    /\ cpc = "clearWeak"
    /\ backRef' = IF backRef = "set" THEN "null" ELSE backRef
    /\ tracked' = IF backRef = "set" THEN "RequiresReChecking" ELSE "ReadyToFree"
    /\ cpc' = IF backRef = "set" THEN "idle" ELSE "free"
    /\ UNCHANGED <<threadVars, counter, next, toSpin, sum>>

(* free_pointers for this object, with drop_sdarc_inner_impl *)
FreePointers ==
    /\ cpc = "free"
    /\ tracked' = "Freed"
    /\ cpc' = "idle"
    /\ UNCHANGED <<threadVars, counter, backRef, next, toSpin, sum>>

CollectorStep ==
    \/ BeginIteration
    \/ SpinFirstPass \/ (\E s \in Shards : SpinWait(s)) \/ StartUpdate
    \/ PreScan \/ PreScanEnd \/ ClearTags \/ ClearTagsEnd
    \/ Recheck \/ RecheckEnd \/ ClearWeakBackRef \/ FreePointers

Next ==
    \/ \E t \in Threads : ThreadBegin(t) \/ ThreadContinue(t)
                          \/ EnterLoad(t) \/ EnterUpgrade(t) \/ Leave(t)
    \/ CollectorStep

Spec == Init /\ [][Next]_vars

(* The collector thread never stops taking steps, and a thread that has    *)
(* begun an operation goes on with it.                                     *)
Fairness ==
    /\ WF_vars(CollectorStep)
    /\ \A t \in Threads : WF_vars(ThreadContinue(t) \/ Leave(t))

FairSpec == Spec /\ Fairness

-----------------------------------------------------------------------------
(* Sum of the reference counts of all shards. *)
RefCountSum ==
    LET prefix[k \in 0 .. ShardCount] ==
            IF k = 0 THEN 0 ELSE prefix[k-1] + ref_count(counter[k-1])
    IN  prefix[ShardCount]

(* The references that exist: owned handles, cells, the old value of a     *)
(* store that is about to be dropped, the old value of a compare_and_set   *)
(* that is about to be returned.                                           *)
Strong == handles + Cardinality(cells) + Cardinality(At({"storing", "casSame"}))

(* References including the pointers a reader has loaded and not counted.  *)
Refs == Strong + Cardinality(At({"loaded"}))

(* The counters, summed over the shards, account for every reference: only *)
(* a compare_and_set between its exchange and its increment is missing     *)
(* from the sum (sdarc.rs: increments and decrements of all operations).   *)
Accounting ==
    RefCountSum = Strong - Cardinality(At({"casSet", "casSame"}))

(* Nothing reaches the object once the collector has freed it: no handle,  *)
(* no cell, no reader between loading the pointer and counting it, no      *)
(* operation that is going to change its counters (free_pointers against   *)
(* every operation of sdarc.rs).                                           *)
NoUseAfterFree ==
    tracked = "Freed" =>
        /\ handles = 0
        /\ cells = {}
        /\ At({"loaded", "storing", "casSet", "casSame"}) = {}

(* The assertion of update_state: with no tag set the re-checked sum is    *)
(* never negative.                                                         *)
CollectorNeverPanics == cpc # "panicked"

(* inner_ref: "reference counting ensures it's not dangling", also for the *)
(* inner_ref() call of Drop that comes after its decrement.                *)
InnerRefNeverDangling == tracked = "Freed" => At({"dropped"}) = {}

(* compare_and_set: "at this time at least one strong reference of         *)
(* `then_set` exists", when it increments the counter of then_set.         *)
ThenSetAliveUntilCounted == tracked = "Freed" => At({"casSet", "casSame"}) = {}

(* WeakSdarc::upgrade: "If the strong count sum never reaches 0, upgrade   *)
(* will succeed": the back reference is not cleared in a behaviour in      *)
(* which the object always has a strong reference.                         *)
UpgradeSucceedsWhileStrong ==
    [](tracked = "Unborn" \/ Strong > 0) => [](backRef # "null")

(* An object that nothing references any more, and that no reader holds up *)
(* in a critical section, is freed by the collector.                       *)
AbandonedIsFreed ==
    <>[](tracked # "Unborn" /\ Refs = 0
         /\ At({"loadEntered", "upgradeEntered", "leaving"}) = {})
        => <>(tracked = "Freed")

(* Sdarc implements the deferred reference counting of DeferredArc. *)
Life == IF tracked = "Unborn" THEN "unborn"
        ELSE IF tracked = "Freed" THEN "freed" ELSE "allocated"
Weak == IF backRef = "uninit" THEN "none" ELSE IF backRef = "set" THEN "live" ELSE "dead"
Abstract == INSTANCE DeferredArc WITH life <- Life, refs <- Refs, weak <- Weak

(* Every step of the threads and of the collector is a step of the         *)
(* abstract object or leaves it unchanged.                                 *)
ImplementsDeferredArc == Abstract!Spec
=============================================================================
