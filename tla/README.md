# Verification of sharded-deferred-arc

TLA+ models, model-checking configurations and machine-checked proofs for the
crate in `src/`. Paths below are relative to the repository's `src/`
directory of Rust files (`src/src/` seen from the directory that holds both
`src/` and `tla/`).

## 1. The system

`Sdarc<T>` is an atomically reference-counted pointer whose count is split over
shards. A thread increments and decrements the counter of its own shard, so
single shards may be negative. No operation ever frees anything: a background
collector thread adds the shards up, and frees an object when it is sure that
the sum is zero for good.

| Component | State | Operations | Talks to |
|---|---|---|---|
| Tagged counter (`tagged_counter.rs`) | one `AtomicI64`: count in the upper 63 bits, tag in bit 0 | increment (`fetch_add`), decrement and set tag (compare-exchange loop), clear tag (`fetch_and`), load | incremented by threads, cleared by the collector |
| Sdarc, cells, weak references (`sdarc.rs`) | `SdarcInner` with its counters and its weak back reference; pointer cells | `new`, `clone`, `drop`, `load`, `swap`, `store`, `compare_and_set`, `downgrade`, `upgrade` | counters, reader critical section, collector's pending lists |
| Reader critical section (`reader_critical_section.rs`) | one counter per shard | enter, leave, spin until each shard has been seen at zero | `load` and `upgrade` enter it, the collector spins on it |
| Collector (`collector.rs`) | `tracked_counters` with a state per object, per-shard pending lists, status with mutex and condvar, park token | outer iteration: take pending, scan, re-check, free; `collector_update_now`, `collector_update_now_and_wait` | everything above, allocator maintenance |
| Sharded allocator (`sharded_alloc.rs`) | groups of units of 16 slots with usage flags | allocate and initialise, deallocate, maintenance by the collector | holds counters and lock shards |
| Sharded lock (`sharded_rwlock.rs`) | one `RwLock` per shard | `read`, `try_read`, `write`, guard drops | allocator, shard index |
| Shard index (`shard_index.rs`), parameters (`env_params.rs`) | shard count, thread-local shard index | compute, read, set | everyone |

What is hard here:

* The collector's sum is not a snapshot. References move between shards while
  it reads them. The code answers with two phases: clear all tags and see a zero
  sum, then, in a later visit, see a zero sum again with no tag set. Every
  decrement sets a tag.
* A reader of a cell holds a pointer it has not counted. The code answers with
  the reader critical section and the collector's spin before every visit.
* An upgrade may resurrect an object whose sum is zero. The code clears the
  back reference and re-checks once more before it frees.
* The park token, the timeout, the status mutex and the condvar must not lose a
  request for a collection.
* A writer of the sharded lock holds some shards while it waits for others.
* Freeing an object drops what it owns in the collector thread, which must free
  that too, in the same iteration, without feeding its own loop for ever. The
  drops are user code and may create, clone, upgrade and drop `Sdarc`s
  themselves.
* The allocator's usage flags are reset by any thread without a lock, while the
  collector decides from them which memory to give back.
* The first caller initialises the shard count and the collector. Each of these
  can panic, and the collector thread is started in the middle of it.
* The counters are accessed with Relaxed, Acquire and Release only.

`PROJECT.json` lists the hazards one by one, each at its line, with the
properties that would catch it going wrong.

## 2. Modules

| Module | Models |
|---|---|
| `TaggedCounter` | the encoding, as pure operators on integers |
| `AtomicTaggedCounter` | one counter word: concurrent increments, the compare-exchange loop, clearing, wrap-around |
| `CountAndTag` | abstract: a count and a tag that change in one step |
| `Sdarc` | one object: all operations of `sdarc.rs`, the reader critical section, the collector's visits |
| `DeferredArc` | abstract: a reference count with deferred freeing and resurrection |
| `SdarcBufferedEntry` | `Sdarc` with the entry increment becoming visible late |
| `CollectorStatus` | the collector's outer loop, the pending lists, parking, waiting |
| `ShardedRwLock` | the sharded lock over an external `parking_lot` lock per shard |
| `RwLock` | abstract reader-writer lock |
| `CollectorIteration` | one outer iteration over several objects: the passes, the re-check set, drops in the collector thread, weak references |
| `ShardedAlloc` | the allocator: groups, units, flags, unwinding, maintenance |
| `SlotPool` | abstract: slots with one owner, memory unmapped only when unused |
| `Startup` | shard count, shard indexes, start of the collector, failed initialisations |
| `ScanMemoryOrder` | the scan of one object's counters under release-acquire memory |
| `SdarcProofs`, `AtomicTaggedCounterProofs`, `ShardedRwLockProofs`, `CollectorStatusProofs`, `CollectorIterationProofs`, `ShardedAllocProofs`, `StartupProofs`, `ScanMemoryOrderProofs` | theorems about the module of that name |
| `MCCollectorIteration`, `MCShardedAlloc` | symmetry sets for TLC, and a view for the first |

Definitions marked "Mutant of ..." are wrong versions of the definition below
them. No specification uses them; `PROJECT.json` pairs each with the property
that notices the mistake.

### Sdarc

The model follows one `SdarcInner`. Owned handles can be sent to any thread, so
they are a number, `handles`; the cells that hold the object are a set, `cells`.
Cells may also hold null or other objects, which the model does not tell apart.
Each atomic access is one step; `pc[t]` is the point between two accesses of
the operation that thread `t` is in.

| Code | Actions |
|---|---|
| `Sdarc::new` | `New` (counter 1 on the shard, pushed on a pending list) |
| `Clone`, `Drop` | `Clone`; `Drop` (the decrement), `DropNotify` (the second `inner_ref()`) |
| `AtomicNullableSdarc::load` | `EnterLoad`, `LoadPtr`, `IncrementLoaded`, `Leave` |
| `WeakSdarc::upgrade` | `EnterUpgrade`, `LoadBackRef`, `IncrementLoaded`, `Leave` |
| `Sdarc::downgrade` | `Downgrade` |
| `swap`; `store` and the drop of a cell | `Swap`; `Store`, `StoreDropOld`, `DropNotify` |
| `compare_and_set` | `CompareAndSet` (the exchange), `CasIncrement` |
| `set_current_thread_shard_index` | `SetShard` |
| `take_new_counters_to_track` | `BeginIteration` |
| the spin | `SpinFirstPass` (one step per shard), `SpinWait`, `StartUpdate` |
| `update_state` | `PreScan`, `PreScanEnd`, `ClearTags`, `ClearTagsEnd`, `Recheck`, `RecheckEnd`, `ClearWeakBackRef` |
| `free_pointers` | `FreePointers` |

`BeginIteration` also stands for each later visit in an inner iteration; that a
pending object may be taken then is harmless, since a fresh object is in the
default state with a count of one.

Accesses are sequentially consistent in `Sdarc`. That is an abstraction: the
code uses Relaxed, Acquire and Release. `SdarcBufferedEntry` drops the
assumption for the entry into the reader critical section, and
`ScanMemoryOrder` for the counters.

`compare_and_set` is modelled as the code does it, increment after exchange. It
is safe if one thread does all the writing to cells (`SingleCasWriter`), and
unsafe otherwise (section 4). The run `sdarc` and the proofs assume
`SingleCasWriter`, which holds trivially where `CasThreads` is empty: the
theorems cover `swap`, `store` and `load` by any number of threads. In the run
one thread writes the cells, with `compare_and_set` among its operations, and
the other one upgrades; both do everything else.

### CollectorStatus

Counter slots are the objects here. `Abandon` is the moment the last reference
of an object goes. The critical sections of `status_mutex` in the collector are
one step each, taken when no user thread holds it; a user thread's critical
section is three steps (`Lock`, `Unpark`, `StartWaiting`), because the collector
can return from `park_timeout` in between. `ParkTimeout` consumes the token, as
`std::thread::park_timeout` does whatever ends it. The inner iterations appear
by their effect: `must` is what was tracked and abandoned when they started, and
all of it is freed before they end (the cap of 100000 rounds is not reached).
`Sdarc` has what they do to one object, and `Collected` in `CollectorIteration`
is the justification of `must`, with its exceptions: the objects of
`CollectorStatus` are in no cycle and no `Drop` finds them again.

### CollectorIteration

Several objects, named by their counter slots, which are the keys of
`tracked_counters` and are reused. An object owns others (`children`), and a
downgraded object owns a `WeakSdarcInner`, which is an object with a back
reference; a `WeakSdarc` is a handle of it, or a child when it is kept in data.
What an object owns can change while it lives, since its data may hold atomic
cells, so ownership may become cyclic. A counter is one number and one tag: what
a scan of the shards can see while threads run is `Sdarc`'s subject. The one
effect that matters to the loop, a zero that is read although a reference
exists, is `FalseZero`.

| Code | Actions |
|---|---|
| `Sdarc::new`, `clone`, `drop` | `New` (takes over the handles its data owns), `Clone`, `Drop` |
| a cell in the data of an object | `StoreIn`, `TakeOut` (a `swap` of a full cell is one after the other, a `store` drops what came out); a `load` is a `Clone` |
| `downgrade`; `upgrade` | `Downgrade`, `DowngradeAgain`; `UpgradeLoad`, `UpgradeIncrement` |
| `take_new_counters_to_track` | `Take` |
| the spin | `Spin` (waits for the reader) |
| `update_state` | `VisitDefault`, `FalseZero`, `RecheckFails`, `RecheckClears`, `RecheckConfirms`; `VisitUntracked` for a key without entry |
| `free_pointers` and the drop of a `SdarcInner`, field by field | `FreeSlot` (entry, counters, `weak_inner_ref`), `DropContent` (the Sdarcs in the data) |
| the `Drop` of a value, which is user code in the collector thread | every user action above with the content at hand, `DropInCollector`, `Rescue` (a Sdarc is moved out of the content) |
| the loop | `VisitsDone`, `PassDone` |

User code can act on what is in reach (`InReach`): its handles, the content it is
dropping, and what it can borrow from there. An upgrade needs a `WeakSdarc` in
reach. While the collector drops a value, user threads and the value's `Drop`
take the same actions; only a drop of a handle differs, because in the collector
thread it also puts the counter on the list to re-check.

`doomed` and `freed` are ghosts. `freed` is the number of objects the iteration
has freed. `doomed` starts as the garbage of the moment the iteration begins
(`Garbage`, out of reach of every handle and reader), without the objects that
cycles of strong references keep alive (`Leaked`): reference counting never frees
those, and the code has weak references for such structures. An object leaves `doomed` when
it is freed, or when the `Drop` of a freed value gets hold of it, or of something
that leads to it, by a clone, a move or an upgrade. The second case matters: an
upgrade that finds an object in `RequiresReChecking` and is dropped again sets
its tag, the next pass sends it back to `DefaultState`, and nothing puts it on
the list again, so it stays garbage until a later iteration. `Collected` says
that these are the only exceptions.

One reader at a time is between `back_ref` and its increment. `MaxRounds` is the
code's cap of 100000 rounds, made small. When it is reached, the iteration ends
with garbage left, and `KnownOnce` says that each object that is left is still in
a pending list or in `tracked_counters`, exactly once, so that a later iteration
goes on with it. The next iteration need not finish the job: it meets objects in
`RequiresReChecking` that were decremented since, and a tag sends those back to
`DefaultState` until the iteration after it. `Collected` therefore speaks of
iterations that do not give up and do not follow one that did; `doomed` stays
empty in the others.

### ShardedAlloc

A thread inside `allocate` holds the mutex of its shard's group and proceeds
flag by flag and shard by shard; a `ShardedBox` that is dropped resets its flag
without any lock. The collector's maintenance reads one flag per step. `values`
counts initialised minus dropped values of each slot and shard. `InitPanics`
is a panic of `init_func`, `Unwind` the rest of the unwinding. A unit that is
given back may be mapped again at the same address. `co.free` and `co.idle` are
ghosts: the units with a free slot and without a used one when the maintenance
of a group began. `SlotsComeBack` is about them: when the flags of a group have
been read, every unit in `free` is among the indexes to allocate from. For the
units that remain in the filling group this means that they are offered from
its next swap on, since threads allocate only from the group of a shard. The
collector is the only
one to lock the filling group, apart from the status report, which only reads
and logs.

### Startup

A `LazyLock` whose initialiser panics is poisoned; a `OnceLock` stays empty and
the next caller tries again. `FULL_SHARD_ALLOC` is folded into the shard count:
it needs nothing else and is poisoned with it. `Spawn` before `Arrays` is the
order of the fields in `CollectorShared::new`. `FirstSpin` is the collector's
first use of `READER_CRITICAL_SECTION`, which allocates at the shard of the
collector thread: a shard count of 0, which the code accepts, ends the thread
there with a remainder by zero.

### ScanMemoryOrder

A counter is the history of its values. Each thread has a view, the oldest
position it may still read; Release publishes it with the value, Acquire takes
it over. All writes to a counter are read-modify-writes, which read the
latest value and continue the release sequence. The orderings are those of the
code: Relaxed increments, Release decrements, a Relaxed first scan and clearing,
an Acquire re-check. A view also has, for each thread, its last use of the
content (`Use(t)`), as the position of the decrement that gave up the handle used.
The model has no load buffering, so what it shows is possible in the Rust
model; what it shows impossible is so for machines without load buffering
across these accesses.

That nobody holds a freed object is not true under these orderings (run
`scan_order_relaxed`). What is true is in `scan_order`: the assertion behind the
re-check (`RecheckNotNegative`); that content is dropped after the uses whose
decrement the re-check has read (`FreedAfterSeenUses`); and that a held object is
freed only if somebody cloned it on a shard behind the clearing pass
(`FreedHeldOnlyIfClonedBehind`).

### ShardedRwLock

Each shard's `parking_lot::RwLock` is external: a writer first takes the writer
bit, which keeps new readers and writers away, then waits for the readers of
the shard. `read` blocks behind a waiting writer even for a thread that holds a
guard already, as `parking_lot` documents; `MayNest` says whether threads do
that.

## 3. Runs

| Run | Question | Bounds |
|---|---|---|
| `sdarc` | do the counters account for every reference, is the object ever freed in use, can the collector's assertion fail, does an upgrade of a referenced object succeed, is this a `DeferredArc`, is an abandoned object freed? | 2 threads (one writes cells, one upgrades), 2 shards, 1 cell, 2 handles, counts within 2 |
| `tagged_counter` | do count and tag change as one, also where the word wraps? | 2 threads, word of 8 values |
| `collector` | is what was abandoned before the call freed at the return; can a reused slot collide in the map; can an unpark be lost? | 2 threads, 2 slots, 2 shards, 1 call each, 1 timeout |
| `rwlock` | mutual exclusion and refinement, circular waits, starvation | 3 threads, 2 shards, 1 guard each |
| `alloc` | can a slot have two owners, a value be dropped twice, a unit be lost, in two groups or unmapped in use, an index be stale; do slots and memory come back? | 2 threads, 2 units of 2 slots, 2 shards |
| `iteration` | is all garbage freed by one iteration, but cycles and what a drop found again, and only garbage; does the inner loop end; what if it gives up; does the assertion of `WeakSdarcInner` hold? | 3 slots, 1 handle per object, 1 object owned by the data of each, 4 rounds |
| `startup` | one thread per collector, each shard once, no circular wait at start, the collector gets into its loop | 2 users with 2 calls, 2 spawns, counts unset, 0, 1, 256, 257 and not a number, 1 to 300 cores |
| `scan_order` | what do the orderings of the code guarantee? | 2 shards, 6 increments or decrements |

Why these are enough to see the interesting cases: two shards are needed for a
reference to move behind the collector's scan and for a shard to be negative;
two threads for one to hold a pointer while another drops the last
reference. Two handles allow clone-then-drop on different shards. The mutants
confirm it: the scan without tags, without the spin, and without the second
re-check are all caught within these bounds. The proofs remove the bounds for
the safety properties; they are also what covers several threads writing to
cells with `swap` and `store`, and nested read guards, which the run `rwlock`
leaves out because they may really deadlock.

In the allocator, two units of two slots are needed for an index to go stale and
for a unit to be half used; two shards for a group to pass through the filling
group while a thread allocates there. In `CollectorIteration` three slots are
enough for a chain of three objects, a cycle with an object behind it, a
downgraded object that owns another one, or a drop that makes a new object on a
slot just freed. An object that is found again by the upgrade of another one's
`Drop`, while it waits for its re-check and is garbage otherwise, takes five
objects (two downgraded ones with their `WeakSdarcInner`s and an owner); with three
slots a `Drop` clones, rescues and upgrades what it owns. The proof of
`Collected` covers the rest. `RoundsBounded` bounds the rounds by the objects
freed; 4 rounds leave room for iterations to end by themselves, and others reach
the cap. The view leaves out tags that no step reads. In `Startup` 170
and 171 cores are the two sides of the cap at 256 shards, and 256 and 257 the
two sides of what the environment may ask for. In `ScanMemoryOrder` 6 steps are
more than the counterexample of `scan_order_relaxed` takes.

The deadlock check is on in the `sdarc`, counter, lock, allocator and iteration
runs. It is off in `startup` and the memory-order runs, whose behaviours end
when calls are used up or the object is freed, and in `collector`, where the
collector stays parked when the bounded calls and timeouts are used up.

### Fairness

* `Sdarc`: the collector thread always takes a step when it can (it loops for
  ever), and a thread inside an operation goes on with it. Nothing makes a
  thread start an operation. Weak fairness of the collector is not enough
  to get past readers who never leave a gap on a shard; the code has no remedy
  either (it logs a warning), so `AbandonedIsFreed` has the end of such reading
  in its premise.
* `CollectorStatus`: the collector and the waiting threads keep running; strong
  fairness where they compete for the mutex, because `parking_lot` mutexes are
  eventually fair. Nothing is assumed of the timeout: the interval comes from the
  environment and may be arbitrarily long.
* `ShardedRwLock`: threads give their guards back, and a thread waiting for a
  lock that is released again and again gets it (`parking_lot`'s eventual
  fairness).
* `Startup`: a thread inside `get_collector` goes on, since a `OnceLock` wakes
  all its waiters when an initialisation ends.

## 4. Where the code and its comments disagree

Four runs expect a violation; `PROJECT.json` quotes the lines.

* `sdarc_drop_reads_inner`: `Drop for Sdarc` calls `inner_ref()` after the
  decrement. With a complete two-phase collection in between, it reads a freed
  object.
* `sdarc_cas_race`: `compare_and_set` publishes before it counts. A second
  writer can take the reference out of the cell and drop it; the sum is then zero
  although the caller's borrowed handle is alive, and the object is freed.
* `sdarc_buffered_entry`: an Acquire `fetch_add` does not order its own store
  before a later load. Where that store can be late, the collector misses the
  reader.
* `scan_order_relaxed`: the first phase of the scan observes a decrement with a
  Relaxed read-modify-write and removes its tag. The increments before that
  decrement need not be visible to the re-check of an earlier shard, which then
  finds no tag and a zero sum for an object that is held. It takes a clone behind
  the clearing pass (`FreedHeldOnlyIfClonedBehind`). Not on x86-64, where the
  orderings cannot be observed.

Two more behaviours at start are worth knowing; no comment promises otherwise.
`CollectorShared::new` spawns its thread (`thread_handle`) before it asks for
the shard count (`pending_to_track`). If the environment's count does not parse
or exceeds 256, and `collector_update_now` is the first call, the
initialisation unwinds in between; the spawned thread finds the `OnceLock`
empty, initialises again, spawns the next thread and unwinds too, and so on
for ever. The `OnceLock` is never filled, which is why `OneCollectorThread`
holds; `CallsReturn` has an accepted count as its premise, since a user thread may
have to wait for one initialisation after the other. And a count of 0 is accepted:
the collector thread then dies at its first spin, and a later
`collector_update_now_and_wait` waits for ever. `CollectorStarts` has shards as
its premise.

## 5. Proofs

Every invariant, action property and refinement that a passing run checks, and
the type invariants of the counter and the lock, are proved, for every value of
the constants that satisfies the named assumptions `SdarcAssumption`, `CounterAssumption`, `RwLockAssumption`,
`CollectorAssumption`, `IterationAssumption`, `AllocAssumption`,
`StartupAssumption` and `MemoryAssumption`. They ask for at least one shard, for
finite sets where something is counted, for names that are not in the sets they
are added to, and for bounds that are numbers. The bounds are arbitrary, so they
play no part in the results.

Some theorems have a hypothesis of their own:

| Hypothesis | Theorems | Without it |
|---|---|---|
| `SingleCasWriter` | `NeverFreedInUse`, `RecheckNeverNegative`, `CountsAddUp`, `UpgradeNeverFailsWhileStrong`, `Refinement` | run `sdarc_cas_race` |
| `MayNest = FALSE` | `Ordered` | a nested read waits behind a writer that waits for the first guard |

### SdarcProofs

**No use after free** (`NeverFreedInUse`, `RecheckNeverNegative`).
`NoUseAfterFree` is not inductive: it
says nothing of what the collector has learned half-way through a scan. The
inductive invariant `IndInv` adds

* the books: there are prefix sums `p` of the shard counts, the total of which is
  the number of references minus the uncounted `compare_and_set`s, and the
  critical section counter of a shard is the number of readers on it;
* `RecheckInv`: while the collector re-checks at shard `next` and no shard from
  `next` on is tagged, the sum it would end with, `sum + p[ShardCount] - p[next]`,
  is not negative, and if it is zero (and no back reference is left) the object is
  dead. A decrement ahead of the scan sets a tag there and makes this vacuous; a
  decrement behind it does not lower the expected sum; an increment can only raise
  it; and a dead object has nobody to increment it;
* `SpinInv`: while the collector spins before a re-check of an untagged object
  whose total is zero, a reader that holds the pointer is on a shard the spin
  still has to see at zero. So at the end of the spin there is none;
* `FreeInv`: past the last re-check the object is dead and stays dead.

Prefix sums are quantified (`\E p`), and `PrefixShift` says how one changed
shard shifts them.

**Accounting** (`CountsAddUp`). `Accounting` is about a recursive function, the
sum of the shards. The library's induction theorems take an operator as a
parameter and cannot be used. What can be used is that the naturals are well
founded: if the recursive sum differed from the prefix sums somewhere there would
be a first shard where it does, and there it cannot. The same argument gives the
sums and closures of the other modules (`LeastNat`, `LeastNumber`).

**Upgrade** (`UpgradeNeverFailsWhileStrong`). The property is an implication
between two temporal formulas, and `AliveInv` is preserved by the steps of
behaviours in which the object always has a strong reference: no re-check that
still counts is going to end with zero (`NeverZero`), so the back reference is
never cleared.

**Refinement**: with `refs` the handles, cells, pointers
about to be dropped or returned, and pointers loaded by readers, each step of
`Sdarc` is a step of `DeferredArc` or leaves it unchanged. The free maps to
`Free`, whose guard is what `FreeInv` provides.

### AtomicTaggedCounterProofs

For every word size, the successful exchange is the atomic decrement, and
everything else in the loop is a stutter (`CounterTypeCorrect`,
`CounterRefinement`).

### ShardedRwLockProofs

`WriterInv` says that a writer at position `next` of its loop owns the writer
bit of all shards before `next`, and that those have no readers. At the end of
the loop these are all shards (`LockTypeCorrect`, `Exclusion`,
`LockRefinement`). For `Ordered`, `BitInv` adds that whoever has the bit of a
shard is at or past this shard, `NestInv` that a thread inside a call holds no
read guard. In a set of threads that wait for each other take the writer that is
furthest: whom it waits for is further still, or does not wait.

### CollectorStatusProofs

`ObjectInv`: each used slot is in one pending list, in the map, or being freed.
`StatusInv` and `HolderInv` tie the status to the collector's loop and the mutex
to its holder. `OwedInv` follows what a waiting thread is owed: not in the lists
already taken while its iteration takes them, in `must` while it collects, and
gone afterwards. `TokenInv`: the unpark of a waiting thread is there until the
collector is about to begin the iteration that thread waits for. Theorems:
`StatusTypeCorrect`, `NoDoubleRegistration`, `WaitIsAFullCollection`,
`UnparkNeverLost`.

### CollectorIterationProofs

The inductive invariant `IInv` is built in layers.

* The objects (`ObjInv`): a counter is the number of handles, owners and
  references in content that is being dropped (`CountInv`); a slot that is not
  used is blank; a `WeakSdarcInner` belongs to at most one object, and its back
  reference to that one. Ownership cycles are allowed.
* The loop (`PhaseInv`, `ListedInv`): an object in `RequiresReChecking` is on the
  list of this pass or of the next one, unless the loop gave up.
* Who can come back (`ReadyInv`, `ReaderInv`): an object ready to be freed has no
  reference, no back reference and no reader, since the spin waited for the
  reader that had loaded the back reference before it was cleared.
* How long (`LagInv`): an object is re-checked at most twice before it is freed or
  leaves the list, so there are at most `3 * freed + 2` rounds.
* What is left (`DoomedInv`): `doomed` stays out of reach and only its members
  own its members; no part of it is kept alive by itself, and what
  nobody owns of it is on a list. So when the lists are empty there is nothing
  left: a non-empty rest would have an ownerless member.

Every user action has an effect of one of a few shapes (`UserEffect`), for which
`DoomedStep` shows once that what it finds leaves `doomed` and the rest keeps
its place; `ReachWithin` bounds what is reachable after a step by a set that the
step's references do not leave. `VisitEffect` does the same for the visits. That
`Garbage \ Leaked(Garbage)` has the properties of `doomed` at the start is
`LeakedFacts` and `GarbageListed`.

Theorems: `IterationTypeCorrect`, `ObjectsKnownOnce`, `BackReferencesLive`,
`InnerLoopBounded`, `GarbageCollected`, `OnlyGarbageFreed`.

### ShardedAllocProofs

`LockInv` and `PlaceInv` say where the units are: in one group, at one position, or
new in the hands of one thread; a thread that is in a unit of a group has locked
the group, so the unit is not in the filling group. `OwnerInv`, `SlotInv` and
`ValuesInv` are about slots and what they hold. `IndexInv` allows stale indexes
in the filling group only while `retain_mut` works on it. `ScanInv`: the flags the
collector has read as free are still free, because no thread allocates from
the filling group; that is why memory may be given back after reading the flags
one by one. `BackInv` follows the units with free slots through the maintenance.
Theorems: `AllocTypeCorrect`, `SlotsHaveOneOwner`, `ValuesDroppedOnce`,
`UnitsPlacedOnce`, `IndexesNeverStale`, `FreeSlotsComeBack`, and the refinement of
`SlotPool`, `ImplementsPool`.

### StartupProofs

`IndexInv`: an index was computed from a valid count and is below it.
`OnceInv`: one thread at a time initialises. If the shard count is accepted,
nothing panics behind the spawn, so what was spawned belongs to the
initialisation that fills the cell; if it is refused, the cell is never filled. Theorems: `StartupTypeCorrect`, `IndexesExact`, `OneCollector`.

### ScanMemoryOrderProofs

`MemInv` has four parts beside the types. `ViewInv`: views are positions of the
histories. `UseInv`: whoever knows a position at which a decrement took place knows
the use before it; decrements publish, and later Relaxed writes pass on what was
published. That is `FreedAfterUses`. `CountInv`: the latest counts add up to the
handles. `ScanInv`: the collector has cleared tags at positions whose counts add
up to its sum, so to zero once it re-checks; at each shard a value after that
position, as long as no tag is set, has only been incremented since (`Since`).
The re-check reads at or after these positions and stops at a tag, so its sum is
not negative (`RecheckAssertionHolds`); and if it is zero and the object is held,
the latest counts have a larger sum than the cleared ones, so some shard was
incremented after its tag was cleared (`FreedHeldNeedsClone`).

### Only model-checked

`AbandonedIsFreed`, `WaitReturns`, `UnparkedCollectorFrees`, `WritersGetIn`,
`ReadersGetIn`, `CallsReturn` and `CollectorStarts`: liveness under fairness is
out of the prover's reach. The four violations are counterexamples and need no proof.

## 6. Abstractions and limits

* One object at a time in `Sdarc`, one number per counter in
  `CollectorIteration`. They meet in `update_state`: `Sdarc` shows that a
  confirmed zero is one, `CollectorIteration` takes that and follows the loop.
* In `CollectorIteration` the data of an object owns another object at most once,
  and one upgrade at a time is between its load and its increment.
* What an iteration leaves: objects on cycles of strong references and what they
  own, for ever, as with any reference count; and garbage that the `Drop` of a
  freed value has found again, until a later iteration. A caller of
  `collector_update_now_and_wait` whose values upgrade weak references in `Drop`
  may have to call it more than once.
* `ScanMemoryOrder` has neither cells nor weak references: handles are cloned,
  sent and dropped. The orderings of cell accesses, of the reader critical
  section's exit and of the allocator's flags are not modelled.
* Integers are unbounded in `Sdarc`. Wrapping is in `AtomicTaggedCounter`, which
  wraps as a release build does; a build with overflow checks panics in the
  subtraction of the decrement at the lowest value.
* A panic in a value's drop is caught in `free_pointers` and changes nothing
  the models see.
* Bounds (`MaxHandles`, `MaxCount`, `MaxCalls`, `MaxTimeouts`, `MaxGuards`) are
  guards of the actions that start an operation; no operation is cut off in its
  middle.
* Further bounds: `MaxRounds` is the code's own cap, made small;
  `MaxSpawned`, `MaxCalls` and `MaxSteps` are guards of `Spawn`, `Call` and
  `UserStep`.

### Not modelled

* `lib.rs`: declarations and re-exports.
* Logging, the status report of the allocator (`get_status_report` takes all its
  locks in the collector's order, reads and formats), `Debug`, `Hash` and `Ord`
  implementations, the vtable and other type erasure.
* Callbacks that call back into the crate where it does not expect it:
  `init_func` that allocates (locks its group's mutex twice), a value's drop that
  calls `collector_update_now_and_wait` in the collector thread. Both block for
  ever; the code promises nothing about them.

## 7. Plan

Everything that changes state is modelled, and every safety property is proved.
What could be added:

1. Cells and the reader critical section under release-acquire memory, the way
   `ScanMemoryOrder` treats the counters.
2. A proof that a confirmed zero of `Sdarc` is the step `RecheckConfirms` of
   `CollectorIteration`. The two modules now meet by argument (section 6).
