------------------------ MODULE ShardedRwLockProofs ------------------------
(***************************************************************************)
(* ShardedRwLock is a reader-writer lock for any number of threads and     *)
(* shards, also when threads nest read guards and change their shard.      *)
(***************************************************************************)
EXTENDS ShardedRwLock, WellFoundedInduction, TLAPS

(* How far the loop of a writer has come, and what it owns. *)
Owns(t, s) == bit[s] = t /\ NoReaders(s)
WriterInv ==
    \A t \in Threads :
        /\ pc[t] = "locking" =>
             next[t] < ShardCount /\ \A s \in Shards : s < next[t] => Owns(t, s)
        /\ pc[t] = "locked" => \A s \in Shards : Owns(t, s)
        /\ pc[t] = "unlocking" =>
             next[t] < ShardCount /\ \A s \in Shards : s >= next[t] => bit[s] = t

IndInv == TypeOK /\ WriterInv

LEMMA IndInvInit == Init => IndInv
  BY RwLockAssumption DEF Init, IndInv, TypeOK, WriterInv, Shards

(* A writer's claim on a shard survives any step that neither takes the    *)
(* shard's bit away nor adds a read guard to it.                           *)
LEMMA WriterInvStep ==
    ASSUME WriterInv, NEW t \in Threads,
           \A u \in Threads \ {t} : pc'[u] = pc[u] /\ next'[u] = next[u],
           \A u \in Threads \ {t}, s \in Shards : bit[s] = u => bit'[s] = u,
           \A s \in Shards : bit[s] # NoThread /\ NoReaders(s) => NoReaders(s)',
           NoThread \notin Threads
    PROVE  \A u \in Threads \ {t} :
             /\ pc'[u] = "locking" =>
                  next'[u] < ShardCount /\ \A s \in Shards : s < next'[u] => Owns(u, s)'
             /\ pc'[u] = "locked" => \A s \in Shards : Owns(u, s)'
             /\ pc'[u] = "unlocking" =>
                  next'[u] < ShardCount /\ \A s \in Shards : s >= next'[u] => bit'[s] = u
  <1>1. \A u \in Threads \ {t}, s \in Shards : Owns(u, s) => Owns(u, s)'
    BY DEF Owns
  <1> QED  BY <1>1 DEF WriterInv

LEMMA IndInvStep == IndInv /\ [Next]_vars => IndInv'
  <1> SUFFICES ASSUME IndInv, [Next]_vars PROVE IndInv'
    OBVIOUS
  <1> USE RwLockAssumption
  <1>1. TypeOK /\ WriterInv
    BY DEF IndInv
  <1>2. CASE UNCHANGED vars
    BY <1>1, <1>2 DEF IndInv, vars, TypeOK, WriterInv, Owns, NoReaders
  <1>3. ASSUME NEW t \in Threads, Read(t) PROVE IndInv'
    BY <1>1, <1>3 DEF IndInv, Read, TypeOK, WriterInv, Owns, NoReaders
  <1>4. ASSUME NEW t \in Threads, ReadGranted(t) \/ TryRead(t) PROVE IndInv'
    <2>1. /\ bit[shardOf[t]] = NoThread /\ shardOf[t] \in Shards
          /\ guards' = [guards EXCEPT ![t][shardOf[t]] = @ + 1]
          /\ UNCHANGED <<bit, next, shardOf>>
          /\ pc[t] \in {"idle", "reading"} /\ pc'[t] = "idle"
          /\ pc' = [pc EXCEPT ![t] = "idle"]
      BY <1>1, <1>4 DEF ReadGranted, TryRead, TakeReadGuard, MayAsk, TypeOK
    <2>2. TypeOK'
      BY <1>1, <2>1 DEF TypeOK
    <2>3. \A s \in Shards : bit[s] # NoThread /\ NoReaders(s) => NoReaders(s)'
      BY <1>1, <2>1 DEF NoReaders, TypeOK
    <2>4. \A u \in Threads \ {t} : pc'[u] = pc[u] /\ next'[u] = next[u]
      BY <1>1, <2>1 DEF TypeOK
    <2>5. WriterInv'
      BY <1>1, <2>1, <2>3, <2>4, WriterInvStep DEF WriterInv
    <2> QED  BY <2>2, <2>5 DEF IndInv
  <1>5. ASSUME NEW t \in Threads, NEW s \in Shards, DropRead(t, s) PROVE IndInv'
    <2>1. TypeOK'
      BY <1>1, <1>5 DEF DropRead, TypeOK
    <2>2. \A r \in Shards : NoReaders(r) => NoReaders(r)'
      BY <1>1, <1>5 DEF NoReaders, DropRead, TypeOK
    <2>3. WriterInv'
      BY <1>1, <1>5, <2>2 DEF DropRead, WriterInv, Owns
    <2> QED  BY <2>1, <2>3 DEF IndInv
  <1>6. ASSUME NEW t \in Threads, Write(t) PROVE IndInv'
    <2>1. TypeOK'
      BY <1>1, <1>6 DEF Write, TypeOK
    <2>2. \A s \in Shards : ~ (s < 0)
      BY DEF Shards
    <2>3. WriterInv'
      BY <1>1, <1>6, <2>2 DEF Write, TypeOK, WriterInv, Owns, NoReaders
    <2> QED  BY <2>1, <2>3 DEF IndInv
  <1>7. ASSUME NEW t \in Threads, SetWriterBit(t) PROVE IndInv'
    <2>1. /\ pc[t] = "locking" /\ next[t] \in Shards /\ bit[next[t]] = NoThread
          /\ bit' = [bit EXCEPT ![next[t]] = t] /\ UNCHANGED <<guards, pc, next, shardOf>>
      BY <1>1, <1>7 DEF SetWriterBit, ShardInLoop, TypeOK, WriterInv, Shards
    <2>2. TypeOK'
      BY <1>1, <2>1 DEF TypeOK
    <2>3. WriterInv'
      BY <1>1, <2>1 DEF TypeOK, WriterInv, Owns, NoReaders
    <2> QED  BY <2>2, <2>3 DEF IndInv
  <1>8. ASSUME NEW t \in Threads, ShardLocked(t) PROVE IndInv'
    <2>1. /\ pc[t] = "locking" /\ next[t] \in Shards /\ Owns(t, next[t])
          /\ next' = [next EXCEPT ![t] = next[t] + 1] /\ UNCHANGED <<bit, guards, shardOf>>
          /\ pc' = [pc EXCEPT ![t] = IF next[t] + 1 = ShardCount THEN "locked" ELSE "locking"]
      BY <1>1, <1>8 DEF ShardLocked, ShardInLoop, TypeOK, WriterInv, Shards, Owns
    <2>2. TypeOK'
      BY <1>1, <2>1, SMTT(30) DEF TypeOK, Shards
    <2>3. \A s \in Shards : s < next[t] + 1 => Owns(t, s)
      BY <1>1, <2>1 DEF TypeOK, WriterInv, Shards
    <2>4. \A u \in Threads, s \in Shards : Owns(u, s)' <=> Owns(u, s)
      BY <2>1 DEF Owns, NoReaders
    <2>5. next[t] + 1 = ShardCount \/ next[t] + 1 < ShardCount
      BY <2>1 DEF Shards
    <2>6. \A s \in Shards : next[t] + 1 = ShardCount => s < next[t] + 1
      BY DEF Shards
    <2>7. WriterInv'
      BY <1>1, <2>1, <2>3, <2>4, <2>5, <2>6 DEF TypeOK, WriterInv
    <2> QED  BY <2>2, <2>7 DEF IndInv
  <1>9. ASSUME NEW t \in Threads, DropWrite(t) PROVE IndInv'
    <2>1. TypeOK'
      BY <1>1, <1>9 DEF DropWrite, TypeOK
    <2>2. \A s \in Shards : bit[s] = t
      BY <1>1, <1>9 DEF DropWrite, WriterInv, Owns
    <2>3. WriterInv'
      BY <1>1, <1>9, <2>2 DEF DropWrite, TypeOK, WriterInv, Owns, NoReaders
    <2> QED  BY <2>1, <2>3 DEF IndInv
  <1>10. ASSUME NEW t \in Threads, UnlockShard(t) PROVE IndInv'
    <2>1. /\ pc[t] = "unlocking" /\ next[t] \in Shards /\ bit[next[t]] = t
          /\ bit' = [bit EXCEPT ![next[t]] = NoThread]
          /\ next' = [next EXCEPT ![t] = next[t] + 1] /\ UNCHANGED <<guards, shardOf>>
          /\ pc' = [pc EXCEPT ![t] = IF next[t] + 1 = ShardCount THEN "idle" ELSE "unlocking"]
      BY <1>1, <1>10 DEF UnlockShard, TypeOK, WriterInv, Shards
    <2>2. TypeOK'
      BY <1>1, <2>1, SMTT(30) DEF TypeOK, Shards
    <2>3. \A s \in Shards : s >= next[t] + 1 => s # next[t] /\ bit[s] = t
      BY <1>1, <2>1 DEF WriterInv, Shards
    <2>4. \A s \in Shards : s # next[t] => bit'[s] = bit[s]
      BY <1>1, <2>1 DEF TypeOK
    <2>5. next[t] + 1 = ShardCount \/ next[t] + 1 < ShardCount
      BY <2>1 DEF Shards
    <2>6. \A u \in Threads \ {t}, s \in Shards : bit[s] = u => bit'[s] = u
      BY <2>1, <2>4
    <2>7. \A s \in Shards : NoReaders(s) => NoReaders(s)'
      BY <2>1 DEF NoReaders
    <2>8. \A u \in Threads \ {t} : pc'[u] = pc[u] /\ next'[u] = next[u]
      BY <1>1, <2>1 DEF TypeOK
    <2>9. WriterInv'
      <3>1. pc'[t] \in {"idle", "unlocking"}
            /\ (pc'[t] = "unlocking" => next'[t] < ShardCount) /\ next'[t] = next[t] + 1
        BY <1>1, <2>1, <2>5 DEF TypeOK
      <3> QED  BY <1>1, <2>3, <2>4, <2>6, <2>7, <2>8, <3>1, WriterInvStep DEF WriterInv
    <2> QED  BY <2>2, <2>9 DEF IndInv
  <1>11. ASSUME NEW t \in Threads, NEW s \in Shards, SetShard(t, s) PROVE IndInv'
    BY <1>1, <1>11 DEF IndInv, SetShard, TypeOK, WriterInv, Owns, NoReaders
  <1> QED
    BY <1>2, <1>3, <1>4, <1>5, <1>6, <1>7, <1>8, <1>9, <1>10, <1>11 DEF Next

LEMMA IndInvExcludes == IndInv => MutualExclusion
  <1> SUFFICES ASSUME IndInv, NEW t \in Threads, pc[t] = "locked", NEW u \in Threads
               PROVE  ~Holds(u) /\ (pc[u] = "locked" => u = t)
    BY DEF MutualExclusion
  <1>1. \A s \in Shards : Owns(t, s)
    BY DEF IndInv, WriterInv
  <1>2. ~Holds(u)
    BY <1>1 DEF Holds, Owns, NoReaders, IndInv, TypeOK
  <1>3. pc[u] = "locked" => \A s \in Shards : Owns(u, s)
    BY DEF IndInv, WriterInv
  <1>4. 0 \in Shards
    BY RwLockAssumption DEF Shards
  <1> QED  BY <1>1, <1>2, <1>3, <1>4 DEF Owns

(* ShardedRwLock::write excludes all readers and writers although a reader *)
(* locks a single shard, for any number of shards and threads.             *)
THEOREM Exclusion == Spec => []MutualExclusion
  <1>1. Spec => []IndInv
    BY IndInvInit, IndInvStep, PTL DEF Spec
  <1> QED  BY <1>1, IndInvExcludes, PTL

-----------------------------------------------------------------------------
(* Writer names the one thread that has a write guard. *)
LEMMA WriterIs ==
    ASSUME IndInv
    PROVE  /\ \A t \in Threads : pc[t] = "locked" => Writer = t
           /\ (\A t \in Threads : pc[t] # "locked") => Writer = NoThread
  BY IndInvExcludes DEF Writer, MutualExclusion

(* A step that moves no thread to or from "locked" keeps the writer. *)
LEMMA WriterSame ==
    ASSUME \A t \in Threads : pc'[t] = "locked" <=> pc[t] = "locked"
    PROVE  Writer' = Writer
  BY DEF Writer

(* The sharded lock implements the abstract reader-writer lock: a write    *)
(* guard is granted when the last shard is locked and given up when its    *)
(* drop starts, while no read guard exists on any shard.                   *)
THEOREM LockRefinement == Spec => ImplementsRwLock
  <1> USE RwLockAssumption
  <1>1. Init => Abstract!Init
    BY DEF Init, Abstract!Init, Readers, Writer, Holds
  <1>2. IndInv /\ IndInv' /\ [Next]_vars => [Abstract!Next]_Abstract!vars
    <2> SUFFICES ASSUME IndInv, IndInv', [Next]_vars
                 PROVE  [Abstract!Next]_Abstract!vars
      OBVIOUS
    <2>1. TypeOK /\ WriterInv /\ TypeOK' /\ WriterInv'
      BY DEF IndInv
    <2>2. ASSUME UNCHANGED guards,
                 \A t \in Threads : pc'[t] = "locked" <=> pc[t] = "locked"
          PROVE  UNCHANGED Abstract!vars
      <3>1. Readers' = Readers
        BY <2>2 DEF Readers, Holds
      <3> QED  BY <2>2, <3>1, WriterSame DEF Abstract!vars
    <2>3. CASE UNCHANGED vars
      BY <2>2, <2>3 DEF vars
    <2>4. ASSUME NEW t \in Threads, Read(t) \/ Write(t)
          PROVE  UNCHANGED Abstract!vars
      BY <2>1, <2>2, <2>4 DEF Read, Write, MayAsk, TypeOK
    <2>5. ASSUME NEW t \in Threads, ReadGranted(t) \/ TryRead(t)
          PROVE  Abstract!ReadLock(t)
      <3>1. /\ bit[shardOf[t]] = NoThread /\ shardOf[t] \in Shards
            /\ guards' = [guards EXCEPT ![t][shardOf[t]] = @ + 1]
            /\ pc[t] \in {"idle", "reading"} /\ pc' = [pc EXCEPT ![t] = "idle"]
        BY <2>1, <2>5 DEF ReadGranted, TryRead, TakeReadGuard, MayAsk, TypeOK
      <3>2. \A u \in Threads : pc[u] # "locked"
        BY <2>1, <3>1 DEF WriterInv, Owns
      <3>3. Writer = NoThread /\ Writer' = Writer
        <4>1. \A u \in Threads : pc'[u] # "locked"
          BY <2>1, <3>1, <3>2 DEF TypeOK
        <4> QED  BY <3>2, <4>1 DEF Writer
      <3>4. \A u \in Threads \ {t} : guards'[u] = guards[u]
        BY <2>1, <3>1 DEF TypeOK
      <3>5. guards'[t][shardOf[t]] > 0
        BY <2>1, <3>1 DEF TypeOK
      <3>6. Readers' = Readers \cup {t}
        BY <3>1, <3>4, <3>5 DEF Readers, Holds
      <3> QED  BY <3>3, <3>6 DEF Abstract!ReadLock
    <2>6. ASSUME NEW t \in Threads, NEW s \in Shards, DropRead(t, s)
          PROVE  [Abstract!Next]_Abstract!vars
      <3>1. Writer' = Writer
        BY <2>6, WriterSame DEF DropRead
      <3>2. \A u \in Threads \ {t} : guards'[u] = guards[u]
        BY <2>1, <2>6 DEF DropRead, TypeOK
      <3>3. t \in Readers
        BY <2>6 DEF DropRead, Readers, Holds
      <3>4. CASE Holds(t)'
        <4>1. Readers' = Readers
          BY <3>2, <3>3, <3>4 DEF Readers, Holds
        <4> QED  BY <3>1, <4>1 DEF Abstract!vars
      <3>5. CASE ~ Holds(t)'
        <4>1. Readers' = Readers \ {t}
          BY <3>2, <3>3, <3>5 DEF Readers, Holds
        <4> QED  BY <3>1, <4>1 DEF Abstract!Next, Abstract!ReadUnlock
      <3> QED  BY <3>4, <3>5
    <2>7. ASSUME NEW t \in Threads, SetWriterBit(t)
          PROVE  UNCHANGED Abstract!vars
      BY <2>2, <2>7 DEF SetWriterBit
    <2>8. ASSUME NEW t \in Threads, ShardLocked(t)
          PROVE  [Abstract!Next]_Abstract!vars
      <3>1. pc[t] = "locking" /\ UNCHANGED <<bit, guards>>
            /\ pc' = [pc EXCEPT ![t] = IF next[t] + 1 = ShardCount THEN "locked" ELSE "locking"]
        BY <2>8 DEF ShardLocked
      <3>2. CASE next[t] + 1 = ShardCount
        <4>1. pc'[t] = "locked" /\ \A u \in Threads \ {t} : pc'[u] = pc[u]
          BY <2>1, <3>1, <3>2 DEF TypeOK
        <4>2. \A u \in Threads : ~Holds(u)' /\ (pc'[u] = "locked" => u = t)
          <5>1. MutualExclusion'
            BY IndInvExcludes, PTL
          <5> QED  BY <4>1, <5>1 DEF MutualExclusion
        <4>3. \A u \in Threads : ~Holds(u) /\ pc[u] # "locked"
          BY <3>1, <4>1, <4>2 DEF Holds
        <4>4. Readers = {} /\ Readers' = {}
          BY <4>2, <4>3 DEF Readers
        <4>5. Writer = NoThread /\ Writer' = t
          BY <4>1, <4>2, <4>3 DEF Writer
        <4> QED  BY <4>4, <4>5 DEF Abstract!Next, Abstract!WriteLock
      <3>3. CASE next[t] + 1 # ShardCount
        BY <2>1, <2>2, <3>1, <3>3 DEF TypeOK
      <3> QED  BY <3>2, <3>3
    <2>9. ASSUME NEW t \in Threads, DropWrite(t)
          PROVE  Abstract!WriteUnlock(t)
      <3>1. Writer = t
        BY <2>9, WriterIs DEF DropWrite
      <3>2. \A u \in Threads : pc[u] = "locked" => u = t
        BY <2>9, IndInvExcludes DEF DropWrite, MutualExclusion
      <3>3. \A u \in Threads : pc'[u] # "locked"
        BY <2>1, <2>9, <3>2 DEF DropWrite, TypeOK
      <3>4. Writer' = NoThread /\ Readers' = Readers
        BY <2>9, <3>3 DEF DropWrite, Writer, Readers, Holds
      <3> QED  BY <3>1, <3>4 DEF Abstract!WriteUnlock
    <2>10. ASSUME NEW t \in Threads, UnlockShard(t)
           PROVE  UNCHANGED Abstract!vars
      BY <2>1, <2>2, <2>10 DEF UnlockShard, TypeOK
    <2>11. ASSUME NEW t \in Threads, NEW s \in Shards, SetShard(t, s)
           PROVE  UNCHANGED Abstract!vars
      BY <2>2, <2>11 DEF SetShard
    <2> QED
      BY <2>3, <2>4, <2>5, <2>6, <2>7, <2>8, <2>9, <2>10, <2>11 DEF Next, Abstract!Next
  <1>3. Spec => []IndInv
    BY IndInvInit, IndInvStep, PTL DEF Spec
  <1> QED  BY <1>1, <1>2, <1>3, PTL DEF Spec, Abstract!Spec, ImplementsRwLock

-----------------------------------------------------------------------------
(* Every state of the lock is well typed: in particular a guard is never   *)
(* dropped twice and the loops of a writer stay within the shards.         *)
THEOREM LockTypeCorrect == Spec => []TypeOK
  <1>1. IndInv => TypeOK
    BY DEF IndInv
  <1> QED  BY <1>1, IndInvInit, IndInvStep, PTL DEF Spec

(* Who has the writer bit of a shard, and where its loop is. *)
BitInv ==
    \A s \in Shards : bit[s] # NoThread =>
        /\ pc[bit[s]] \in {"locking", "locked", "unlocking"}
        /\ pc[bit[s]] = "locking" => s <= next[bit[s]]
        /\ pc[bit[s]] = "unlocking" => s >= next[bit[s]]

(* A thread that is inside a call holds no read guard, unless guards nest. *)
NestInv == MayNest \/ \A t \in Threads : pc[t] # "idle" => ~Holds(t)

LEMMA BitInvStep == IndInv /\ BitInv /\ [Next]_vars => BitInv'
  <1> SUFFICES ASSUME IndInv, BitInv, [Next]_vars PROVE BitInv'
    OBVIOUS
  <1> USE RwLockAssumption
  <1>1. TypeOK /\ WriterInv
    BY DEF IndInv
  <1>2. CASE UNCHANGED vars
    BY <1>2 DEF BitInv, vars
  <1>3. ASSUME NEW t \in Threads, UNCHANGED <<bit, next>>, pc[t] \in {"idle", "reading"},
               NEW p, pc' = [pc EXCEPT ![t] = p]
        PROVE  BitInv'
    BY <1>1, <1>3 DEF BitInv, TypeOK
  <1>4. ASSUME NEW t \in Threads, \/ Read(t) \/ ReadGranted(t) \/ TryRead(t)
                                  \/ \E s \in Shards : DropRead(t, s) \/ SetShard(t, s)
        PROVE  BitInv'
    <2>1. CASE Read(t) \/ ReadGranted(t)
      BY <1>3, <2>1 DEF Read, ReadGranted, MayAsk
    <2>2. CASE TryRead(t) \/ \E s \in Shards : DropRead(t, s) \/ SetShard(t, s)
      BY <2>2 DEF TryRead, DropRead, SetShard, BitInv
    <2> QED  BY <1>4, <2>1, <2>2
  <1>5. ASSUME NEW t \in Threads, Write(t) PROVE BitInv'
    <2>1. /\ pc[t] = "idle" /\ UNCHANGED bit
          /\ \A u \in Threads \ {t} : pc'[u] = pc[u] /\ next'[u] = next[u]
      BY <1>1, <1>5 DEF Write, MayAsk, TypeOK
    <2>2. \A s \in Shards : bit[s] # t
      BY <2>1 DEF BitInv
    <2> QED  BY <1>1, <2>1, <2>2 DEF BitInv, TypeOK
  <1>6. ASSUME NEW t \in Threads, SetWriterBit(t) PROVE BitInv'
    BY <1>1, <1>6 DEF SetWriterBit, ShardInLoop, BitInv, TypeOK, WriterInv, Shards
  <1>7. ASSUME NEW t \in Threads, ShardLocked(t) PROVE BitInv'
    <2>1. /\ pc[t] = "locking" /\ UNCHANGED bit /\ next'[t] = next[t] + 1
          /\ pc'[t] \in {"locking", "locked"} /\ next[t] \in Nat
          /\ \A u \in Threads \ {t} : pc'[u] = pc[u] /\ next'[u] = next[u]
      BY <1>1, <1>7 DEF ShardLocked, TypeOK
    <2>2. ASSUME NEW s \in Shards, bit[s] = t PROVE s <= next[t] + 1
      BY <2>1, <2>2, RwLockAssumption DEF BitInv, Shards
    <2> QED  BY <1>1, <2>1, <2>2 DEF BitInv, TypeOK
  <1>8. ASSUME NEW t \in Threads, DropWrite(t) PROVE BitInv'
    <2>1. /\ UNCHANGED bit /\ next'[t] = 0 /\ pc'[t] = "unlocking"
          /\ \A u \in Threads \ {t} : pc'[u] = pc[u] /\ next'[u] = next[u]
      BY <1>1, <1>8 DEF DropWrite, TypeOK
    <2>2. \A s \in Shards : s >= 0
      BY DEF Shards
    <2> QED  BY <1>1, <2>1, <2>2 DEF BitInv, TypeOK
  <1>9. ASSUME NEW t \in Threads, UnlockShard(t) PROVE BitInv'
    <2>1. /\ pc[t] = "unlocking" /\ next[t] \in Shards /\ next[t] < ShardCount
          /\ bit' = [bit EXCEPT ![next[t]] = NoThread] /\ next'[t] = next[t] + 1
          /\ pc'[t] = IF next[t] + 1 = ShardCount THEN "idle" ELSE "unlocking"
          /\ \A u \in Threads \ {t} : pc'[u] = pc[u] /\ next'[u] = next[u]
      BY <1>1, <1>9 DEF UnlockShard, TypeOK, WriterInv, Shards
    <2>2. \A s \in Shards : bit'[s] # NoThread => s # next[t] /\ bit'[s] = bit[s]
      BY <1>1, <2>1 DEF TypeOK
    <2>3. \A s \in Shards : bit'[s] = t => s >= next[t] + 1 /\ next[t] + 1 # ShardCount
      BY <2>1, <2>2 DEF BitInv, Shards
    <2> QED  BY <1>1, <2>1, <2>2, <2>3 DEF BitInv, TypeOK
  <1> QED  BY <1>2, <1>4, <1>5, <1>6, <1>7, <1>8, <1>9 DEF Next

LEMMA NestInvStep == TypeOK /\ NestInv /\ [Next]_vars => NestInv'
  <1> SUFFICES ASSUME TypeOK, NestInv, [Next]_vars, ~MayNest,
                      NEW t \in Threads, pc'[t] # "idle"
               PROVE  ~Holds(t)'
    BY DEF NestInv
  <1>1. CASE UNCHANGED vars
    BY <1>1 DEF NestInv, Holds, vars
  <1>2. ASSUME NEW u \in Threads, Read(u) \/ Write(u) PROVE ~Holds(t)'
    BY <1>2 DEF Read, Write, MayAsk, NestInv, Holds, TypeOK
  <1>3. ASSUME NEW u \in Threads, \/ ReadGranted(u) \/ TryRead(u)
                                  \/ \E s \in Shards : DropRead(u, s)
        PROVE  ~Holds(t)'
    <2>1. t # u /\ pc'[t] = pc[t] /\ guards'[t] = guards[t]
      BY <1>3 DEF ReadGranted, TryRead, DropRead, TakeReadGuard, MayAsk, TypeOK
    <2> QED  BY <2>1 DEF NestInv, Holds
  <1>4. ASSUME NEW u \in Threads, \/ SetWriterBit(u) \/ ShardLocked(u) \/ DropWrite(u)
                                  \/ UnlockShard(u) \/ \E s \in Shards : SetShard(u, s)
        PROVE  ~Holds(t)'
    <2>1. pc[t] # "idle" /\ guards' = guards
      BY <1>4 DEF SetWriterBit, ShardLocked, DropWrite, UnlockShard, SetShard, TypeOK
    <2> QED  BY <2>1 DEF NestInv, Holds
  <1> QED  BY <1>1, <1>2, <1>3, <1>4 DEF Next

(* A set of threads in which each waits for another one of the set. *)
LEMMA NoCycle ==
    ASSUME IndInv, BitInv, NestInv, ~MayNest
    PROVE  NoCircularWait
  <1> SUFFICES ASSUME NEW D \in SUBSET Threads, D # {},
                      \A t \in D : WaitsFor(t) \cap D # {}
               PROVE  FALSE
    BY DEF NoCircularWait
  <1> DEFINE L == {t \in D : pc[t] = "locking"}
             N == {ShardCount - next[t] : t \in L}
  <1>1. TypeOK /\ WriterInv
    BY DEF IndInv
  <1>2. \A t \in D : pc[t] \in {"reading", "locking"}
    BY DEF WaitsFor
  <1>3. \A t \in L : next[t] \in Shards /\ bit[next[t]] # t
    <2> SUFFICES ASSUME NEW t \in L PROVE next[t] \in Shards /\ bit[next[t]] # t
      OBVIOUS
    <2>1. next[t] \in Shards
      BY <1>1, RwLockAssumption DEF TypeOK, WriterInv, Shards
    <2>2. ASSUME bit[next[t]] = t PROVE FALSE
      <3>1. WaitsFor(t) = {u \in Threads : guards[u][next[t]] > 0}
        BY <2>2 DEF WaitsFor, ShardInLoop
      <3>2. PICK u \in D : guards[u][next[t]] > 0
        BY <3>1
      <3>3. Holds(u)
        BY <2>1, <3>2 DEF Holds
      <3> QED  BY <1>2, <3>3 DEF NestInv
    <2> QED  BY <2>1, <2>2
  (* A thread of D that waits for a writer bit waits for a writer of D     *)
  (* whose loop is further on.                                             *)
  <1>4. ASSUME NEW s \in Shards, bit[s] \in D
        PROVE  bit[s] \in L /\ s < next[bit[s]]
    <2>1. bit[s] \in L
      BY <1>2, <1>4, RwLockAssumption DEF BitInv
    <2>2. s <= next[bit[s]] /\ s # next[bit[s]]
      BY <1>3, <1>4, <2>1, RwLockAssumption DEF BitInv
    <2> QED  BY <1>3, <2>1, <2>2 DEF Shards
  <1>5. L # {}
    <2>1. PICK t \in D : TRUE
      OBVIOUS
    <2>2. CASE pc[t] = "reading"
      <3>1. bit[shardOf[t]] \in D /\ shardOf[t] \in Shards
        BY <1>1, <2>2 DEF WaitsFor, TypeOK
      <3> QED  BY <1>4, <3>1
    <2> QED  BY <1>2, <2>1, <2>2
  <1>6. \A t \in L : \E u \in L : next[t] < next[u]
    <2> SUFFICES ASSUME NEW t \in L PROVE \E u \in L : next[t] < next[u]
      OBVIOUS
    <2>1. bit[next[t]] \in D
      BY <1>3 DEF WaitsFor, ShardInLoop
    <2> QED  BY <1>3, <1>4, <2>1
  <1>7. N \in SUBSET Nat /\ N # {}
    BY <1>3, <1>5, RwLockAssumption DEF Shards
  <1>8. PICK m \in N : \A k \in N : ~(<<k, m>> \in OpToRel(<, Nat))
    <2> HIDE DEF N
    <2> QED  BY <1>7, NatLessThanWellFounded, WFMin
  <1>9. \A k \in N : ~(k < m)
    <2>1. \A k \in N : k \in Nat /\ m \in Nat
      BY <1>7
    <2> HIDE DEF N
    <2> QED  BY <1>8, <2>1 DEF OpToRel
  <1>10. PICK t \in L : m = ShardCount - next[t]
    OBVIOUS
  <1>11. PICK u \in L : next[t] < next[u]
    BY <1>6
  <1>12. ShardCount - next[u] < m
    BY <1>3, <1>10, <1>11, RwLockAssumption DEF Shards
  <1> QED  BY <1>9, <1>12

(* Threads that hold nothing while they ask never wait in a circle: every  *)
(* writer takes the shards in ascending order, so the writer that is       *)
(* furthest in its loop waits for nobody who waits.                        *)
THEOREM Ordered == ASSUME MayNest = FALSE PROVE Spec => []NoCircularWait
  <1>1. Init => BitInv /\ NestInv
    BY DEF Init, BitInv, NestInv
  <1>2. IndInv => TypeOK
    BY DEF IndInv
  <1>3. IndInv /\ BitInv /\ NestInv => NoCircularWait
    BY NoCycle
  <1> QED  BY <1>1, <1>2, <1>3, IndInvInit, IndInvStep, BitInvStep, NestInvStep, PTL DEF Spec
=============================================================================
