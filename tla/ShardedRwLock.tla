--------------------------- MODULE ShardedRwLock ---------------------------
(***************************************************************************)
(* ShardedRwLock (src/src/sharded_rwlock.rs): a reader locks the shard of  *)
(* its thread, a writer locks every shard in ascending order.  Each shard  *)
(* is a parking_lot RwLock, which is external: a writer takes the writer   *)
(* bit, which holds off new readers and writers, and then waits until the  *)
(* readers of the shard are gone.                                          *)
(***************************************************************************)
EXTENDS Integers

CONSTANTS
    Threads, NoThread,
    ShardCount,
    MaxGuards,       \* bound on the read guards of one thread on one shard
    MayNest          \* may a thread ask for a guard while it holds one?

ASSUME RwLockAssumption ==
    /\ NoThread \notin Threads
    /\ ShardCount \in Nat \ {0}
    /\ MaxGuards \in Nat \ {0}
    /\ MayNest \in BOOLEAN

Shards == 0 .. ShardCount - 1

VARIABLES
    bit,       \* the thread that has the writer bit of each shard
    guards,    \* read guards of each thread on each shard
    pc,        \* idle, reading, locking, locked, unlocking
    next,      \* next shard of a writer's loop over the shards
    shardOf    \* current shard index of each thread

vars == <<bit, guards, pc, next, shardOf>>

TypeOK ==
    /\ bit \in [Shards -> Threads \cup {NoThread}]
    /\ guards \in [Threads -> [Shards -> Nat]]
    /\ pc \in [Threads -> {"idle", "reading", "locking", "locked", "unlocking"}]
    /\ next \in [Threads -> 0 .. ShardCount]
    /\ shardOf \in [Threads -> Shards]

Init ==
    /\ bit = [s \in Shards |-> NoThread]
    /\ guards = [t \in Threads |-> [s \in Shards |-> 0]]
    /\ pc = [t \in Threads |-> "idle"]
    /\ next = [t \in Threads |-> 0]
    /\ shardOf \in [Threads -> Shards]

Holds(t) == \E s \in Shards : guards[t][s] > 0
NoReaders(s) == \A t \in Threads : guards[t][s] = 0
MayAsk(t) == pc[t] = "idle" /\ (MayNest \/ ~Holds(t))

-----------------------------------------------------------------------------
(* read: the call, and the moment the lock of the shard is granted. *)
Read(t) ==
    /\ MayAsk(t)
    /\ guards[t][shardOf[t]] < MaxGuards
    /\ pc' = [pc EXCEPT ![t] = "reading"]
    /\ UNCHANGED <<bit, guards, next, shardOf>>

TakeReadGuard(t) ==
    /\ bit[shardOf[t]] = NoThread
    /\ guards' = [guards EXCEPT ![t][shardOf[t]] = @ + 1]

(* Mutant of ReadGranted: read first lets every waiting writer go ahead. *)
ReadGrantedAfterWriters(t) ==
    /\ pc[t] = "reading"
    /\ \A u \in Threads : pc[u] # "locking"
    /\ TakeReadGuard(t)
    /\ pc' = [pc EXCEPT ![t] = "idle"]
    /\ UNCHANGED <<bit, next, shardOf>>

ReadGranted(t) ==
    /\ pc[t] = "reading"
    /\ TakeReadGuard(t)
    /\ pc' = [pc EXCEPT ![t] = "idle"]
    /\ UNCHANGED <<bit, next, shardOf>>

(* try_read that succeeds; one that fails changes nothing. *)
TryRead(t) ==
    /\ MayAsk(t)
    /\ guards[t][shardOf[t]] < MaxGuards
    /\ TakeReadGuard(t)
    /\ UNCHANGED <<bit, pc, next, shardOf>>

(* Drop of a read guard unlocks the shard it was taken on, whatever the    *)
(* current shard of the thread.                                            *)
DropRead(t, s) ==
    /\ pc[t] = "idle"
    /\ guards[t][s] > 0
    /\ guards' = [guards EXCEPT ![t][s] = @ - 1]
    /\ UNCHANGED <<bit, pc, next, shardOf>>

-----------------------------------------------------------------------------
(* write: the loop over the shards. *)
Write(t) ==
    /\ MayAsk(t)
    /\ pc' = [pc EXCEPT ![t] = "locking"]
    /\ next' = [next EXCEPT ![t] = 0]
    /\ UNCHANGED <<bit, guards, shardOf>>

(* Mutant of ShardInLoop: each writer starts at the shard of its thread. *)
ShardFromOwn(t, k) == (k + shardOf[t]) % ShardCount

(* The shard that comes k-th in the loop of thread t. *)
ShardInLoop(t, k) == k

(* RwLock::write of one shard: the writer bit, then the readers. *)
SetWriterBit(t) ==
    /\ pc[t] = "locking"
    /\ bit[ShardInLoop(t, next[t])] = NoThread
    /\ bit' = [bit EXCEPT ![ShardInLoop(t, next[t])] = t]
    /\ UNCHANGED <<guards, pc, next, shardOf>>

(* Mutant of ShardLocked: does not wait for the readers of the shard. *)
ShardLockedAtOnce(t) ==
    /\ pc[t] = "locking"
    /\ bit[ShardInLoop(t, next[t])] = t
    /\ next' = [next EXCEPT ![t] = @ + 1]
    /\ pc' = [pc EXCEPT ![t] = IF next[t] + 1 = ShardCount THEN "locked" ELSE "locking"]
    /\ UNCHANGED <<bit, guards, shardOf>>

(* Mutant of ShardLocked: a writer that tries, gives up all its shards when *)
(* one has readers, and starts again.                                      *)
ShardLockedOrStartAgain(t) ==
    /\ pc[t] = "locking"
    /\ bit[ShardInLoop(t, next[t])] = t
    /\ IF NoReaders(ShardInLoop(t, next[t]))
       THEN /\ next' = [next EXCEPT ![t] = @ + 1]
            /\ pc' = [pc EXCEPT ![t] = IF next[t] + 1 = ShardCount THEN "locked" ELSE "locking"]
            /\ UNCHANGED bit
       ELSE /\ next' = [next EXCEPT ![t] = 0]
            /\ bit' = [s \in Shards |-> IF bit[s] = t THEN NoThread ELSE bit[s]]
            /\ UNCHANGED pc
    /\ UNCHANGED <<guards, shardOf>>

ShardLocked(t) ==
    /\ pc[t] = "locking"
    /\ bit[ShardInLoop(t, next[t])] = t
    /\ NoReaders(ShardInLoop(t, next[t]))
    /\ next' = [next EXCEPT ![t] = @ + 1]
    /\ pc' = [pc EXCEPT ![t] = IF next[t] + 1 = ShardCount THEN "locked" ELSE "locking"]
    /\ UNCHANGED <<bit, guards, shardOf>>

(* Drop for WriteGuardOfShardedRwLock: one unlock per shard. *)
DropWrite(t) ==
    /\ pc[t] = "locked"
    /\ pc' = [pc EXCEPT ![t] = "unlocking"]
    /\ next' = [next EXCEPT ![t] = 0]
    /\ UNCHANGED <<bit, guards, shardOf>>

UnlockShard(t) ==
    /\ pc[t] = "unlocking"
    /\ bit' = [bit EXCEPT ![next[t]] = NoThread]
    /\ next' = [next EXCEPT ![t] = @ + 1]
    /\ pc' = [pc EXCEPT ![t] = IF next[t] + 1 = ShardCount THEN "idle" ELSE "unlocking"]
    /\ UNCHANGED <<guards, shardOf>>

(* set_current_thread_shard_index *)
SetShard(t, s) ==
    /\ pc[t] = "idle"
    /\ s # shardOf[t]
    /\ shardOf' = [shardOf EXCEPT ![t] = s]
    /\ UNCHANGED <<bit, guards, pc, next>>

Next ==
    \E t \in Threads :
        \/ Read(t) \/ ReadGranted(t) \/ TryRead(t)
        \/ Write(t) \/ SetWriterBit(t) \/ ShardLocked(t) \/ DropWrite(t) \/ UnlockShard(t)
        \/ \E s \in Shards : DropRead(t, s) \/ SetShard(t, s)

Spec == Init /\ [][Next]_vars

(* Threads give their guards back; parking_lot hands a lock that is        *)
(* released over and over to every waiter eventually (eventual fairness).  *)
Fairness ==
    \A t \in Threads :
        /\ WF_vars(ShardLocked(t)) /\ WF_vars(DropWrite(t)) /\ WF_vars(UnlockShard(t))
        /\ WF_vars(\E s \in Shards : DropRead(t, s))
        /\ SF_vars(SetWriterBit(t)) /\ SF_vars(ReadGranted(t))

FairSpec == Spec /\ Fairness

-----------------------------------------------------------------------------
(* A write guard excludes every read guard, on whatever shard it was       *)
(* taken, and every other write guard.                                     *)
MutualExclusion ==
    \A t \in Threads : pc[t] = "locked" =>
        \A u \in Threads : ~Holds(u) /\ (pc[u] = "locked" => u = t)

(* The threads that t is blocked by. *)
WaitsFor(t) ==
    LET s == ShardInLoop(t, next[t])
    IN  CASE pc[t] = "reading" -> {bit[shardOf[t]]} \ {NoThread}
          [] pc[t] = "locking" /\ bit[s] = t -> {u \in Threads : guards[u][s] > 0}
          [] pc[t] = "locking" /\ bit[s] # t -> {bit[s]} \ {NoThread}
          [] OTHER -> {}

(* Threads that hold no guard while they ask for one never block each      *)
(* other in a circle: write locks all shards in the same order ("Different *)
(* locking order may cause deadlock").                                     *)
NoCircularWait ==
    \A D \in SUBSET Threads : D # {} => \E t \in D : WaitsFor(t) \cap D = {}

(* A call of write returns, also when readers keep coming. *)
WritersGetIn == \A t \in Threads : pc[t] = "locking" ~> pc[t] = "locked"

(* A call of read returns, also when writers keep coming. *)
ReadersGetIn == \A t \in Threads : pc[t] = "reading" ~> pc[t] = "idle"

(* The sharded lock is a reader-writer lock. *)
Readers == {t \in Threads : Holds(t)}
Writer == IF \E t \in Threads : pc[t] = "locked"
          THEN CHOOSE t \in Threads : pc[t] = "locked"
          ELSE NoThread
Abstract == INSTANCE RwLock WITH readers <- Readers, writer <- Writer
ImplementsRwLock == Abstract!Spec
=============================================================================
