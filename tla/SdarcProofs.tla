---------------------------- MODULE SdarcProofs ----------------------------
(***************************************************************************)
(* Proofs about Sdarc, for every number of threads, shards, cells and for  *)
(* every bound.  The inductive invariant IndInv says what the collector    *)
(* knows at each point of its two-phase scan.  The last part is the proof  *)
(* that Sdarc implements DeferredArc.                                      *)
(***************************************************************************)
EXTENDS Sdarc, FiniteSetTheorems, WellFoundedInduction, TLAPS

(* p[k] is the sum of the reference counts of the shards before k. *)
Prefix == [0 .. ShardCount -> Int]
IsPrefix(p, c) ==
    /\ p[0] = 0
    /\ \A k \in Shards : p[k+1] = p[k] + ref_count(c[k])

(* The total of the counters is the number of counted references. *)
Counted(p) ==
    p[ShardCount] = handles + Cardinality(cells) + Cardinality(At({"storing"}))
                      - Cardinality(At({"casSet"}))

(* A compare_and_set in progress borrows a handle; the cell it has set     *)
(* stays set, because its thread is the only writer of the cells.          *)
CasBorrows ==
    /\ At({"casSet", "casSame"}) # {} => handles > 0
    /\ \A t \in At({"casSet", "casSame"}) : t \in CasThreads /\ cells # {}

InCS == {"loadEntered", "upgradeEntered", "loaded", "leaving"}
Readers(s) == {t \in Threads : pc[t] \in InCS /\ shardOf[t] = s}
CsCounts == \A s \in Shards : cs[s] = Cardinality(Readers(s))

Books(p) == IsPrefix(p, counter) /\ Counted(p) /\ CasBorrows /\ CsCounts

(* Nothing references the object and no reader is about to count it. *)
Dead == handles = 0 /\ cells = {} /\ At({"loaded", "storing"}) = {}

Untagged(k) == \A s \in Shards : s >= k => ~ tag(counter[s])

Control ==
    /\ cpc \in {"prescan", "clearTags"} => tracked = "DefaultState"
    /\ cpc \in {"recheck", "clearWeak"} => tracked = "RequiresReChecking"
    /\ cpc = "free" <=> tracked = "ReadyToFree"
    /\ cpc = "spin" => sum = 0
    /\ cpc # "panicked"

(* While the collector spins before a re-check: if no reference was        *)
(* dropped since the tags were cleared and there is none now, a reader     *)
(* that still holds the pointer is in a shard not yet seen at zero.        *)
SpinInv(p) ==
    cpc = "spin" /\ tracked = "RequiresReChecking" /\ Untagged(0)
        /\ p[ShardCount] = 0 /\ backRef # "set"
    => \A t \in At({"loaded"}) : shardOf[t] >= next \/ shardOf[t] \in toSpin

(* While the collector re-checks: the sum it is going to compute if        *)
(* nothing changes any more. *)
Expected(p) == sum + p[ShardCount] - p[next]
RecheckInv(p) ==
    cpc = "recheck" /\ Untagged(next) =>
        /\ Expected(p) >= 0
        /\ Expected(p) = 0 /\ backRef # "set" => Dead

(* Once the re-check has succeeded with no back reference left to clear,   *)
(* the object is dead for good; before its creation nothing refers to it.  *)
FreeInv ==
    /\ tracked = "Unborn" => Dead /\ backRef = "uninit"
    /\ cpc = "clearWeak" /\ backRef # "set" => Dead
    /\ tracked \in {"ReadyToFree", "Freed"} => Dead /\ backRef # "set"

Knows(p) == Control /\ SpinInv(p) /\ RecheckInv(p) /\ FreeInv

Inv(p) == TypeOK /\ Books(p) /\ Knows(p)
IndInv == \E p \in Prefix : Inv(p)

-----------------------------------------------------------------------------
(* What the operations of the tagged counter do to its count and its tag   *)
(* (increment, decrement_and_set_tag and clear_tag of tagged_counter.rs).  *)
LEMMA CounterFacts ==
    ASSUME NEW v \in Int
    PROVE  /\ ref_count(v) \in Int
           /\ increment(v) \in Int
           /\ ref_count(increment(v)) = ref_count(v) + 1
           /\ tag(increment(v)) <=> tag(v)
           /\ decrement_and_set_tag(v) \in Int
           /\ ref_count(decrement_and_set_tag(v)) = ref_count(v) - 1
           /\ tag(decrement_and_set_tag(v))
           /\ clear_tag(v) \in Int
           /\ ref_count(clear_tag(v)) = ref_count(v)
           /\ ~ tag(clear_tag(v))
  BY DEF ref_count, tag, increment, decrement_and_set_tag, clear_tag

(* Changing the count of one shard by d shifts every later prefix sum by d *)
(* (an increment or a decrement of one counter shard).                     *)
LEMMA PrefixShift ==
    ASSUME NEW c \in [Shards -> Int], NEW d \in [Shards -> Int],
           NEW p \in Prefix, IsPrefix(p, c),
           NEW s \in Shards, NEW delta \in Int,
           ref_count(d[s]) = ref_count(c[s]) + delta,
           \A r \in Shards \ {s} : ref_count(d[r]) = ref_count(c[r])
    PROVE  \E q \in Prefix :
              /\ IsPrefix(q, d)
              /\ \A k \in 0 .. ShardCount :
                    q[k] = IF k > s THEN p[k] + delta ELSE p[k]
  <1> DEFINE q == [k \in 0 .. ShardCount |-> IF k > s THEN p[k] + delta ELSE p[k]]
  <1>1. q \in Prefix
    BY SdarcAssumption DEF Prefix, Shards
  <1>2. q[0] = 0
    BY SdarcAssumption DEF IsPrefix, Shards
  <1>3. ASSUME NEW k \in Shards
        PROVE  q[k+1] = q[k] + ref_count(d[k])
    <2>a. k \in 0 .. ShardCount /\ k + 1 \in 0 .. ShardCount
      BY SdarcAssumption DEF Shards
    <2>b. c[k] \in Int /\ p[k] \in Int
      BY <2>a DEF Prefix
    <2>c. ref_count(c[k]) \in Int
      BY <2>b, CounterFacts
    <2>1. /\ k \in 0 .. ShardCount /\ k + 1 \in 0 .. ShardCount
          /\ p[k] \in Int /\ ref_count(c[k]) \in Int
          /\ p[k+1] = p[k] + ref_count(c[k])
      BY <2>a, <2>b, <2>c DEF IsPrefix
    <2>2. CASE k = s
      BY <2>1, <2>2 DEF Shards
    <2>3. CASE k # s
      <3>1. ref_count(d[k]) = ref_count(c[k])
        BY <2>3
      <3> HIDE DEF Shards
      <3>2. k > s <=> k + 1 > s
        BY <2>3 DEF Shards
      <3> QED  BY <2>1, <3>1, <3>2
    <2> QED  BY <2>2, <2>3
  <1>4. IsPrefix(q, d)
    BY <1>2, <1>3 DEF IsPrefix
  <1> QED  BY <1>1, <1>4

(* How a thread's move from one control point to another changes the       *)
(* number of threads at the points S.                                      *)
LEMMA MoveOne ==
    ASSUME NEW f \in [Threads -> PC], NEW t \in Threads, NEW v, NEW S
    PROVE  LET f2 == [f EXCEPT ![t] = v]
               A == {u \in Threads : f[u] \in S}
               B == {u \in Threads : f2[u] \in S}
           IN  /\ IsFiniteSet(A) /\ Cardinality(A) \in Nat
               /\ (f[t] \in S <=> v \in S) => B = A
               /\ f[t] \notin S /\ v \in S => Cardinality(B) = Cardinality(A) + 1
               /\ f[t] \in S /\ v \notin S => Cardinality(B) = Cardinality(A) - 1
  <1> DEFINE f2 == [f EXCEPT ![t] = v]
             A == {u \in Threads : f[u] \in S}
             B == {u \in Threads : f2[u] \in S}
  <1>1. IsFiniteSet(A) /\ Cardinality(A) \in Nat
    BY FS_Subset, FS_CardinalityType, SdarcAssumption
  <1>2. (f[t] \in S <=> v \in S) => B = A
    OBVIOUS
  <1>3. f[t] \notin S /\ v \in S => B = A \cup {t} /\ t \notin A
    OBVIOUS
  <1>4. f[t] \in S /\ v \notin S => B = A \ {t} /\ t \in A
    OBVIOUS
  <1> HIDE DEF A, B
  <1>5. f[t] \notin S /\ v \in S => Cardinality(B) = Cardinality(A) + 1
    BY <1>1, <1>3, FS_AddElement
  <1>6. f[t] \in S /\ v \notin S => Cardinality(B) = Cardinality(A) - 1
    BY <1>1, <1>4, FS_RemoveElement
  <1> QED  BY <1>1, <1>2, <1>5, <1>6 DEF A, B

(* MoveOne for a step in which thread t goes to the control point v. *)
LEMMA AtMove ==
    ASSUME TypeOK, NEW t \in Threads, NEW v \in PC, Goto(t, v), NEW S
    PROVE  /\ IsFiniteSet(At(S)) /\ Cardinality(At(S)) \in Nat
           /\ (pc[t] \in S <=> v \in S) => At(S)' = At(S)
           /\ pc[t] \notin S /\ v \in S => Cardinality(At(S)') = Cardinality(At(S)) + 1
           /\ pc[t] \in S /\ v \notin S => Cardinality(At(S)') = Cardinality(At(S)) - 1
  <1>1. pc \in [Threads -> PC]
    BY DEF TypeOK
  <1> QED  BY <1>1, MoveOne DEF At, Goto

(* The numbers that Counted adds up. *)
LEMMA Sizes ==
    ASSUME TypeOK
    PROVE  /\ Cardinality(cells) \in Nat /\ IsFiniteSet(cells)
           /\ Cardinality(cells) = 0 <=> cells = {}
           /\ \A S : /\ IsFiniteSet(At(S)) /\ Cardinality(At(S)) \in Nat
                     /\ Cardinality(At(S)) = 0 <=> At(S) = {}
  <1>1. IsFiniteSet(cells)
    BY FS_Subset, SdarcAssumption DEF TypeOK
  <1>2. ASSUME NEW S PROVE IsFiniteSet(At(S))
    BY FS_Subset, SdarcAssumption DEF At
  <1> QED  BY <1>1, <1>2, FS_CardinalityType, FS_EmptySet

(* A thread that increments at its shard (increment_ref_count_relaxed). *)
ShiftBy(p, q, s, delta) ==
    \A k \in 0 .. ShardCount : q[k] = IF k > s THEN p[k] + delta ELSE p[k]

LEMMA IncrementShift ==
    ASSUME TypeOK, NEW p \in Prefix, IsPrefix(p, counter),
           NEW t \in Threads, IncrementAt(t)
    PROVE  /\ counter' \in [Shards -> Int]
           /\ \A r \in Shards : tag(counter'[r]) <=> tag(counter[r])
           /\ \E q \in Prefix : IsPrefix(q, counter') /\ ShiftBy(p, q, shardOf[t], 1)
  <1> DEFINE s == shardOf[t]
  <1>1. s \in Shards /\ counter \in [Shards -> Int] /\ counter[s] \in Int
    BY DEF TypeOK
  <1>2. /\ counter' = [counter EXCEPT ![s] = increment(counter[s])]
        /\ increment(counter[s]) \in Int
        /\ ref_count(increment(counter[s])) = ref_count(counter[s]) + 1
        /\ tag(increment(counter[s])) <=> tag(counter[s])
    BY <1>1, CounterFacts DEF IncrementAt
  <1> HIDE DEF s
  <1>3. /\ counter' \in [Shards -> Int]
        /\ \A r \in Shards : tag(counter'[r]) <=> tag(counter[r])
        /\ ref_count(counter'[s]) = ref_count(counter[s]) + 1
        /\ \A r \in Shards \ {s} : ref_count(counter'[r]) = ref_count(counter[r])
    BY <1>1, <1>2
  <1> QED  BY <1>1, <1>3, PrefixShift DEF ShiftBy, s

(* A thread that decrements at its shard and sets its tag. *)
LEMMA DecrementShift ==
    ASSUME TypeOK, NEW p \in Prefix, IsPrefix(p, counter),
           NEW t \in Threads, DecrementAt(t)
    PROVE  /\ counter' \in [Shards -> Int]
           /\ tag(counter'[shardOf[t]])
           /\ \A r \in Shards \ {shardOf[t]} : tag(counter'[r]) <=> tag(counter[r])
           /\ \E q \in Prefix : IsPrefix(q, counter') /\ ShiftBy(p, q, shardOf[t], -1)
  <1> DEFINE s == shardOf[t]
  <1>1. s \in Shards /\ counter \in [Shards -> Int] /\ counter[s] \in Int
    BY DEF TypeOK
  <1>2. /\ counter' = [counter EXCEPT ![s] = decrement_and_set_tag(counter[s])]
        /\ decrement_and_set_tag(counter[s]) \in Int
        /\ ref_count(decrement_and_set_tag(counter[s])) = ref_count(counter[s]) - 1
        /\ tag(decrement_and_set_tag(counter[s]))
        /\ ref_count(counter[s]) \in Int
    BY <1>1, CounterFacts DEF DecrementAt
  <1> HIDE DEF s
  <1>3. /\ counter' \in [Shards -> Int]
        /\ tag(counter'[s])
        /\ \A r \in Shards \ {s} : tag(counter'[r]) <=> tag(counter[r])
        /\ ref_count(counter'[s]) = ref_count(counter[s]) + (-1)
        /\ \A r \in Shards \ {s} : ref_count(counter'[r]) = ref_count(counter[r])
    BY <1>1, <1>2
  <1> QED  BY <1>1, <1>3, PrefixShift DEF ShiftBy, s

-----------------------------------------------------------------------------
(* Type correctness, one step per action. *)
LEMMA TypeInit == Init => TypeOK
  BY SdarcAssumption DEF Init, TypeOK, Tracked, PC, CPC, Shards, NewCounter

LEMMA CounterTypes ==
    ASSUME TypeOK, NEW s \in Shards
    PROVE  /\ counter[s] \in Int
           /\ ref_count(counter[s]) \in Int
           /\ [counter EXCEPT ![s] = increment(@)] \in [Shards -> Int]
           /\ [counter EXCEPT ![s] = decrement_and_set_tag(@)] \in [Shards -> Int]
           /\ [counter EXCEPT ![s] = clear_tag(@)] \in [Shards -> Int]
  <1>1. counter \in [Shards -> Int] /\ counter[s] \in Int
    BY DEF TypeOK
  <1>2. /\ ref_count(counter[s]) \in Int
        /\ increment(counter[s]) \in Int
        /\ decrement_and_set_tag(counter[s]) \in Int
        /\ clear_tag(counter[s]) \in Int
    BY <1>1, CounterFacts
  <1> QED  BY <1>1, <1>2

LEMMA ThreadType ==
    ASSUME TypeOK, NEW t \in Threads,
           ThreadBegin(t) \/ ThreadContinue(t) \/ EnterLoad(t) \/ EnterUpgrade(t)
             \/ Leave(t)
    PROVE  TypeOK'
  <1>1. /\ shardOf[t] \in Shards
        /\ [counter EXCEPT ![shardOf[t]] = increment(@)] \in [Shards -> Int]
        /\ [counter EXCEPT ![shardOf[t]] = decrement_and_set_tag(@)] \in [Shards -> Int]
    BY CounterTypes DEF TypeOK
  <1>2. Borrowed \in {0, 1}
    BY DEF Borrowed
  <1>3. CASE New(t)
    BY <1>1, <1>3 DEF TypeOK, New, IncrementAt, Tracked
  <1>4. CASE Clone(t)
    BY <1>1, <1>4 DEF TypeOK, Clone, IncrementAt, collectorVars
  <1>5. CASE Drop(t)
    BY <1>1, <1>2, <1>5 DEF TypeOK, Drop, DecrementAt, Goto, PC, collectorVars
  <1>6. CASE DropNotify(t)
    BY <1>6 DEF TypeOK, DropNotify, Goto, PC, collectorVars
  <1>7. CASE EnterLoad(t) \/ EnterUpgrade(t)
    BY <1>1, <1>7 DEF TypeOK, EnterLoad, EnterUpgrade, Enter, Goto, PC, collectorVars
  <1>8. CASE Leave(t)
    BY <1>1, <1>8 DEF TypeOK, Leave, Goto, PC, collectorVars
  <1>9. CASE (\E c \in Cells : LoadPtr(t, c)) \/ LoadBackRef(t)
    BY <1>9 DEF TypeOK, LoadPtr, LoadBackRef, Goto, PC, collectorVars
  <1>10. CASE IncrementLoaded(t)
    BY <1>1, <1>10 DEF TypeOK, IncrementLoaded, IncrementAt, Goto, PC, collectorVars
  <1>11. CASE Downgrade(t)
    BY <1>11 DEF TypeOK, Downgrade, collectorVars, threadVars
  <1>12. ASSUME NEW c \in Cells, NEW in \in BOOLEAN, Swap(t, c, in)
         PROVE  TypeOK'
    BY <1>2, <1>12 DEF TypeOK, Swap, Put, collectorVars
  <1>13. ASSUME NEW c \in Cells, NEW in \in BOOLEAN, Store(t, c, in)
         PROVE  TypeOK'
    BY <1>2, <1>13 DEF TypeOK, Store, Put, Goto, PC, collectorVars
  <1>14. CASE StoreDropOld(t)
    BY <1>1, <1>14 DEF TypeOK, StoreDropOld, DecrementAt, Goto, PC, collectorVars
  <1>15. ASSUME NEW c \in Cells, NEW matches \in BOOLEAN, NEW in \in BOOLEAN,
                CompareAndSet(t, c, matches, in)
         PROVE  TypeOK'
    BY <1>15 DEF TypeOK, CompareAndSet, Put, Goto, PC, collectorVars
  <1>16. CASE CasIncrement(t)
    BY <1>1, <1>16 DEF TypeOK, CasIncrement, IncrementAt, Goto, PC, collectorVars
  <1>17. ASSUME NEW s \in Shards, SetShard(t, s)
         PROVE  TypeOK'
    BY <1>17 DEF TypeOK, SetShard, collectorVars
  <1> QED
    BY <1>3, <1>4, <1>5, <1>6, <1>7, <1>8, <1>9, <1>10, <1>11, <1>12, <1>13,
       <1>14, <1>15, <1>16, <1>17
       DEF ThreadBegin, ThreadContinue

LEMMA CollectorType ==
    ASSUME TypeOK, CollectorStep
    PROVE  TypeOK'
  <1>1. CASE BeginIteration
    BY <1>1, SdarcAssumption DEF TypeOK, BeginIteration, threadVars, Tracked, CPC
  <1>2. CASE SpinFirstPass
    BY <1>2, SdarcAssumption DEF TypeOK, SpinFirstPass, threadVars, Shards
  <1>3. CASE \E s \in Shards : SpinWait(s)
    BY <1>3 DEF TypeOK, SpinWait, threadVars
  <1>4. CASE StartUpdate
    BY <1>4, SdarcAssumption DEF TypeOK, StartUpdate, threadVars, CPC
  <1>5. ASSUME next < ShardCount
        PROVE  /\ next \in Shards /\ next + 1 \in 0 .. ShardCount
               /\ ref_count(counter[next]) \in Int
               /\ [counter EXCEPT ![next] = clear_tag(@)] \in [Shards -> Int]
    <2>1. next \in Shards /\ next + 1 \in 0 .. ShardCount
      BY <1>5, SdarcAssumption DEF TypeOK, Shards
    <2> QED  BY <2>1, CounterTypes
  <1>6. CASE PreScan
    BY <1>5, <1>6 DEF TypeOK, PreScan, threadVars
  <1>7. CASE PreScanEnd
    BY <1>7, SdarcAssumption DEF TypeOK, PreScanEnd, threadVars, CPC
  <1>8. CASE ClearTags
    BY <1>5, <1>8 DEF TypeOK, ClearTags, threadVars
  <1>9. CASE ClearTagsEnd
    BY <1>9, SdarcAssumption DEF TypeOK, ClearTagsEnd, threadVars, Tracked, CPC
  <1>10. CASE Recheck
    BY <1>5, <1>10, SdarcAssumption DEF TypeOK, Recheck, threadVars, Tracked, CPC
  <1>11. CASE RecheckEnd
    BY <1>11, SdarcAssumption DEF TypeOK, RecheckEnd, threadVars, Tracked, CPC
  <1>12. CASE ClearWeakBackRef
    BY <1>12 DEF TypeOK, ClearWeakBackRef, threadVars, Tracked, CPC
  <1>13. CASE FreePointers
    BY <1>13 DEF TypeOK, FreePointers, threadVars, Tracked, CPC
  <1> QED
    BY <1>1, <1>2, <1>3, <1>4, <1>6, <1>7, <1>8, <1>9, <1>10, <1>11, <1>12, <1>13
       DEF CollectorStep

LEMMA TypeStep == TypeOK /\ [Next]_vars => TypeOK'
  <1> SUFFICES ASSUME TypeOK, [Next]_vars PROVE TypeOK'
    OBVIOUS
  <1>1. CASE UNCHANGED vars
    BY <1>1 DEF TypeOK, vars
  <1>2. CASE Next
    BY <1>2, ThreadType, CollectorType DEF Next
  <1> QED  BY <1>1, <1>2

(* Every variable keeps its type: in particular handles never goes below   *)
(* zero and a scan never leaves the shards.                                *)
THEOREM TypeCorrect == Spec => []TypeOK
  BY TypeInit, TypeStep, PTL DEF Spec

-----------------------------------------------------------------------------
(* The total of the counters is never negative and is zero only if nothing *)
(* references the object: a reference missing from the total belongs to    *)
(* the single writer, which borrows a handle and has set a cell.           *)
LEMMA TotalFacts ==
    ASSUME SingleCasWriter, TypeOK, NEW p \in Prefix, Books(p)
    PROVE  /\ p[ShardCount] \in Nat
           /\ p[ShardCount] = 0 =>
                handles = 0 /\ cells = {} /\ At({"storing"}) = {}
  <1> DEFINE total == p[ShardCount]
             setting == Cardinality(At({"casSet"}))
             storing == Cardinality(At({"storing"}))
             filled == Cardinality(cells)
  <1>1. /\ filled \in Nat /\ storing \in Nat /\ setting \in Nat /\ handles \in Nat
        /\ filled = 0 <=> cells = {}
        /\ storing = 0 <=> At({"storing"}) = {}
        /\ setting = 0 <=> At({"casSet"}) = {}
    BY Sizes DEF TypeOK
  <1>2. total = handles + filled + storing - setting
    BY DEF Books, Counted
  <1>3. CASE At({"casSet"}) = {}
    BY <1>1, <1>2, <1>3
  <1>4. CASE At({"casSet"}) # {}
    <2>1. PICK w \in At({"casSet"}) : TRUE
      BY <1>4
    <2>2. w \in At({"casSet", "casSame"}) /\ At({"casSet"}) \subseteq At({"casSet", "casSame"})
      BY <2>1 DEF At
    <2>3. handles > 0 /\ cells # {}
      BY <2>2 DEF Books, CasBorrows
    <2>4. \A u \in At({"casSet"}) : u = w
      BY <2>1, <2>2 DEF Books, CasBorrows, SingleCasWriter
    <2>5. At({"casSet"}) = {w}
      BY <2>1, <2>4
    <2>6. setting = 1
      BY <2>5, FS_Singleton
    <2> HIDE DEF total, setting, storing, filled
    <2>7. total \in Nat /\ total > 0
      BY <1>1, <1>2, <2>3, <2>6
    <2> QED  BY <2>7 DEF total
  <1> QED  BY <1>3, <1>4

(* What a step of a thread may do to what the collector relies on. *)
Effect ==
    /\ UNCHANGED <<cpc, next, toSpin, sum>>
    /\ tracked' = tracked \/ (tracked = "Unborn" /\ tracked' = "Pending")
    /\ backRef' = backRef \/ backRef' = "set"
    /\ Dead /\ backRef # "set" /\ tracked' = tracked =>
         Dead' /\ backRef' = backRef /\ counter' = counter
    /\ \A u \in Threads :
         pc'[u] = "loaded" => \/ pc[u] = "loaded" /\ shardOf'[u] = shardOf[u]
                              \/ backRef = "set" \/ cells # {}

SameTags(R) == \A r \in R : tag(counter'[r]) <=> tag(counter[r])
Incremented(p, q) ==
    \E s \in Shards : ShiftBy(p, q, s, 1) /\ SameTags(Shards)
Decremented(p, q) ==
    \E s \in Shards : /\ ShiftBy(p, q, s, -1)
                      /\ tag(counter'[s])
                      /\ SameTags(Shards \ {s})
CounterEffect(p, q) ==
    \/ counter' = counter /\ q = p
    \/ Incremented(p, q)
    \/ Decremented(p, q)

(* A step of a thread that leaves the rest of a re-check untagged can only *)
(* raise the sum the re-check is going to compute: a decrement ahead of it *)
(* sets a tag, and one behind it is not seen.                              *)
LEMMA ExpectedNeverDrops ==
    ASSUME TypeOK, NEW p \in Prefix, NEW q \in Prefix,
           Effect, CounterEffect(p, q), Untagged(next)'
    PROVE  /\ Untagged(next)
           /\ Expected(p) \in Int
           /\ Expected(q)' = Expected(p) \/ Expected(q)' = Expected(p) + 1
  <1>a. ShardCount \in Nat /\ ShardCount > 0 /\ next \in 0 .. ShardCount
    BY SdarcAssumption DEF TypeOK
  <1>b. /\ \A k \in 0 .. ShardCount : p[k] \in Int /\ q[k] \in Int
        /\ ShardCount \in 0 .. ShardCount
    BY <1>a DEF Prefix
  <1>1. next' = next /\ sum' = sum /\ sum \in Int
    BY DEF Effect, TypeOK
  <1>2. Expected(q)' = sum + q[ShardCount] - q[next]
    BY <1>1 DEF Expected
  <1>3. /\ Untagged(next)
        /\ \/ q = p
           \/ \E s \in Shards : s >= next /\ ShiftBy(p, q, s, 1)
           \/ \E s \in Shards, d \in {1, -1} : s < next /\ ShiftBy(p, q, s, d)
    <2>1. CASE counter' = counter /\ q = p
      BY <1>1, <2>1 DEF Untagged
    <2>2. CASE Incremented(p, q)
      <3>1. PICK s \in Shards : ShiftBy(p, q, s, 1) /\ SameTags(Shards)
        BY <2>2 DEF Incremented
      <3>2. Untagged(next)
        BY <1>1, <3>1 DEF Untagged, SameTags
      <3>3. s >= next \/ s < next
        BY <1>a DEF Shards
      <3> QED  BY <3>1, <3>2, <3>3
    <2>3. CASE Decremented(p, q)
      <3>1. PICK s \in Shards : ShiftBy(p, q, s, -1) /\ tag(counter'[s])
                                /\ SameTags(Shards \ {s})
        BY <2>3 DEF Decremented
      <3>2. ~ (s >= next)
        BY <1>1, <3>1 DEF Untagged
      <3>3. s < next
        BY <3>2, <1>a DEF Shards
      <3>4. Untagged(next)
        BY <1>1, <3>1, <3>2 DEF Untagged, SameTags
      <3> QED  BY <3>1, <3>3, <3>4
    <2> QED  BY <2>1, <2>2, <2>3 DEF CounterEffect
  <1>4. Expected(q)' = Expected(p) \/ Expected(q)' = Expected(p) + 1
    <2>1. CASE q = p
      BY <1>2, <2>1 DEF Expected
    <2>2. ASSUME NEW s \in Shards, s >= next, ShiftBy(p, q, s, 1)
          PROVE  Expected(q)' = Expected(p) + 1
      <3>1. ShardCount > s /\ ~ (next > s) /\ ShardCount \in 0 .. ShardCount
        BY <1>a, <2>2 DEF Shards
      <3>2. q[ShardCount] = p[ShardCount] + 1 /\ q[next] = p[next]
        BY <1>a, <2>2, <3>1 DEF ShiftBy
      <3> QED  BY <1>a, <1>b, <1>1, <1>2, <3>2 DEF Expected
    <2>3. ASSUME NEW s \in Shards, s < next, NEW d \in {1, -1}, ShiftBy(p, q, s, d)
          PROVE  Expected(q)' = Expected(p)
      <3>1. ShardCount > s /\ next > s /\ ShardCount \in 0 .. ShardCount
        BY <1>a, <2>3 DEF Shards
      <3>2. q[ShardCount] = p[ShardCount] + d /\ q[next] = p[next] + d
        BY <1>a, <2>3, <3>1 DEF ShiftBy
      <3> QED  BY <1>a, <1>b, <1>1, <1>2, <3>2 DEF Expected
    <2> QED  BY <1>3, <2>1, <2>2, <2>3
  <1>5. Expected(p) \in Int
    BY <1>a, <1>b, <1>1 DEF Expected
  <1> QED  BY <1>3, <1>4, <1>5

(* What the collector knows survives every step of a thread. *)
LEMMA EffectKeepsKnows ==
    ASSUME SingleCasWriter, TypeOK, TypeOK',
           NEW p \in Prefix, NEW q \in Prefix,
           Books(p), Books(q)', Knows(p), Effect, CounterEffect(p, q)
    PROVE  Knows(q)'
  <1>1. /\ p[ShardCount] \in Nat
        /\ p[ShardCount] = 0 => handles = 0 /\ cells = {} /\ At({"storing"}) = {}
    BY TotalFacts
  <1>2. ShardCount \in Nat /\ ShardCount > 0 /\ next \in 0 .. ShardCount
    BY SdarcAssumption DEF TypeOK
  <1>3. \A k \in 0 .. ShardCount : p[k] \in Int /\ q[k] \in Int
    BY DEF Prefix
  <1>4. Control'
    BY DEF Knows, Control, Effect
  <1>5. FreeInv'
    <2>1. cpc' = cpc /\ (tracked' = tracked \/ (tracked = "Unborn" /\ tracked' = "Pending"))
      BY DEF Effect
    <2>2. CASE cpc = "clearWeak" /\ backRef' # "set"
      BY <2>1, <2>2 DEF Knows, Control, FreeInv, Effect
    <2>3. CASE tracked' \in {"ReadyToFree", "Freed"}
      BY <2>1, <2>3 DEF Knows, Control, FreeInv, Effect
    <2>4. CASE tracked' = "Unborn"
      BY <2>1, <2>4 DEF Knows, FreeInv, Effect
    <2> QED  BY <2>1, <2>2, <2>3, <2>4 DEF FreeInv
  <1>6. SpinInv(q)'
    <2> SUFFICES ASSUME cpc' = "spin", tracked' = "RequiresReChecking", Untagged(0)',
                        q[ShardCount] = 0, backRef' # "set",
                        NEW u \in At({"loaded"})'
                 PROVE  shardOf'[u] >= next' \/ shardOf'[u] \in toSpin'
      BY DEF SpinInv
    <2>1. cpc = "spin" /\ tracked = "RequiresReChecking" /\ backRef # "set"
          /\ next' = next /\ toSpin' = toSpin
      BY DEF Effect
    <2>2. counter' = counter /\ q = p
      <3>1. CASE Incremented(p, q)
        <4>1. PICK s \in Shards : ShiftBy(p, q, s, 1)
          BY <3>1 DEF Incremented
        <4>2. ShardCount \in 0 .. ShardCount /\ ShardCount > s
          BY <1>2 DEF Shards
        <4>3. q[ShardCount] = p[ShardCount] + 1
          BY <4>1, <4>2 DEF ShiftBy
        <4> QED  BY <4>3, <1>1
      <3>2. CASE Decremented(p, q)
        <4>1. PICK s \in Shards : tag(counter'[s])
          BY <3>2 DEF Decremented
        <4>2. s >= 0
          BY DEF Shards
        <4> QED  BY <4>1, <4>2 DEF Untagged
      <3> QED  BY <3>1, <3>2 DEF CounterEffect
    <2>3. cells = {} /\ Untagged(0) /\ p[ShardCount] = 0
      BY <1>1, <2>2 DEF Untagged
    <2>4. u \in Threads /\ pc'[u] = "loaded"
      BY DEF At
    <2>5. pc[u] = "loaded" /\ shardOf'[u] = shardOf[u]
      BY <2>1, <2>3, <2>4 DEF Effect
    <2>6. u \in At({"loaded"})
      BY <2>4, <2>5 DEF At
    <2> QED  BY <2>1, <2>3, <2>5, <2>6 DEF Knows, SpinInv
  <1>7. RecheckInv(q)'
    <2> SUFFICES ASSUME cpc' = "recheck", Untagged(next)'
                 PROVE  /\ Expected(q)' >= 0
                        /\ Expected(q)' = 0 /\ backRef' # "set" => Dead'
      BY DEF RecheckInv
    <2>1. /\ cpc = "recheck" /\ tracked = "RequiresReChecking"
          /\ next' = next /\ sum' = sum /\ sum \in Int
      BY DEF Effect, Knows, Control, TypeOK
    <2>2. /\ Expected(p) >= 0
          /\ Expected(p) = 0 /\ backRef # "set" => Dead
      BY <2>1, ExpectedNeverDrops DEF Knows, RecheckInv
    <2>3. /\ Expected(p) \in Int
          /\ Expected(q)' = Expected(p) \/ Expected(q)' = Expected(p) + 1
      BY ExpectedNeverDrops
    <2>4. ASSUME Expected(q)' = 0, backRef' # "set"
          PROVE  Dead'
      <3>1. Expected(p) = 0
        BY <2>2, <2>3, <2>4
      <3> QED  BY <2>1, <2>2, <2>4, <3>1 DEF Effect
    <2> QED  BY <2>2, <2>3, <2>4
  <1> QED  BY <1>4, <1>5, <1>6, <1>7 DEF Knows

-----------------------------------------------------------------------------
(* A thread enters a critical section and counts itself in its shard. *)
LEMMA CsEnter ==
    ASSUME TypeOK, CsCounts, NEW t \in Threads, NEW v \in PC, Goto(t, v),
           shardOf' = shardOf, pc[t] \notin InCS, v \in InCS,
           cs' = [cs EXCEPT ![shardOf[t]] = @ + 1]
    PROVE  CsCounts'
  <1> SUFFICES ASSUME NEW s \in Shards
               PROVE  cs'[s] = Cardinality(Readers(s)')
    BY DEF CsCounts
  <1>1. /\ pc \in [Threads -> PC] /\ shardOf[t] \in Shards
        /\ cs \in [Shards -> Int] /\ cs[s] = Cardinality(Readers(s))
    BY DEF TypeOK, CsCounts
  <1>2. IsFiniteSet(Readers(s))
    BY FS_Subset, SdarcAssumption DEF Readers
  <1>3. CASE s # shardOf[t]
    <2>1. Readers(s)' = Readers(s)
      BY <1>1, <1>3 DEF Readers, Goto
    <2> QED  BY <1>1, <1>3, <2>1
  <1>4. CASE s = shardOf[t]
    <2>1. Readers(s)' = Readers(s) \cup {t} /\ t \notin Readers(s)
      BY <1>1, <1>4 DEF Readers, Goto
    <2>2. Cardinality(Readers(s)') = Cardinality(Readers(s)) + 1
      BY <1>2, <2>1, FS_AddElement
    <2> QED  BY <1>1, <1>4, <2>2
  <1> QED  BY <1>3, <1>4

(* A thread leaves a critical section and uncounts itself. *)
LEMMA CsLeave ==
    ASSUME TypeOK, CsCounts, NEW t \in Threads, NEW v \in PC, Goto(t, v),
           shardOf' = shardOf, pc[t] \in InCS, v \notin InCS,
           cs' = [cs EXCEPT ![shardOf[t]] = @ - 1]
    PROVE  CsCounts'
  <1> SUFFICES ASSUME NEW s \in Shards
               PROVE  cs'[s] = Cardinality(Readers(s)')
    BY DEF CsCounts
  <1>1. /\ pc \in [Threads -> PC] /\ shardOf[t] \in Shards
        /\ cs \in [Shards -> Int] /\ cs[s] = Cardinality(Readers(s))
    BY DEF TypeOK, CsCounts
  <1>2. IsFiniteSet(Readers(s))
    BY FS_Subset, SdarcAssumption DEF Readers
  <1>3. CASE s # shardOf[t]
    <2>1. Readers(s)' = Readers(s)
      BY <1>1, <1>3 DEF Readers, Goto
    <2> QED  BY <1>1, <1>3, <2>1
  <1>4. CASE s = shardOf[t]
    <2>1. Readers(s)' = Readers(s) \ {t} /\ t \in Readers(s)
      BY <1>1, <1>4 DEF Readers, Goto
    <2>2. Cardinality(Readers(s)') = Cardinality(Readers(s)) - 1
      BY <1>2, <2>1, FS_RemoveElement
    <2> QED  BY <1>1, <1>4, <2>2
  <1> QED  BY <1>3, <1>4

(* A step in which nobody enters or leaves a critical section. *)
LEMMA CsSame ==
    ASSUME TypeOK, CsCounts, NEW t \in Threads, NEW v \in PC, Goto(t, v),
           shardOf' = shardOf, cs' = cs, pc[t] \in InCS <=> v \in InCS
    PROVE  CsCounts'
  <1>1. \A s \in Shards : Readers(s)' = Readers(s)
    BY DEF Readers, Goto, TypeOK
  <1> QED  BY <1>1 DEF CsCounts

(* A step that leaves the control points and shards of all threads alone   *)
(* leaves every count of threads alone.                                    *)
LEMMA NobodyMoves ==
    ASSUME UNCHANGED pc
    PROVE  /\ \A S : At(S)' = At(S)
           /\ UNCHANGED <<shardOf, cs>> /\ CsCounts => CsCounts'
  BY DEF At, CsCounts, Readers

LEMMA CellCount ==
    ASSUME TypeOK, NEW c \in Cells, NEW in \in BOOLEAN, Put(c, in)
    PROVE  /\ (c \in cells <=> in) => cells' = cells
           /\ c \notin cells /\ in => Cardinality(cells') = Cardinality(cells) + 1
           /\ c \in cells /\ ~in => Cardinality(cells') = Cardinality(cells) - 1
           /\ in => cells' # {}
  <1>1. IsFiniteSet(cells)
    BY Sizes
  <1> QED  BY <1>1, FS_AddElement, FS_RemoveElement DEF Put

(* A step of a thread keeps the books and has no other effect.  One lemma  *)
(* for the operations on handles, one for readers, one for cells.          *)
Keeps(p) == \E q \in Prefix : Books(q)' /\ CounterEffect(p, q) /\ Effect

LEMMA HandleSteps ==
    ASSUME TypeOK, NEW p \in Prefix, Books(p), NEW t \in Threads,
           New(t) \/ Clone(t) \/ Drop(t) \/ DropNotify(t) \/ Downgrade(t)
             \/ \E s \in Shards : SetShard(t, s)
    PROVE  Keeps(p)
  <1>1. /\ IsPrefix(p, counter) /\ Counted(p) /\ CasBorrows /\ CsCounts
        /\ handles \in Nat /\ shardOf[t] \in Shards
        /\ pc \in [Threads -> PC] /\ shardOf \in [Threads -> Shards]
    BY DEF Books, TypeOK
  <1>2. /\ Cardinality(cells) \in Nat /\ Cardinality(At({"storing"})) \in Nat
        /\ Cardinality(At({"casSet"})) \in Nat
    BY Sizes
  <1>3. /\ ShardCount \in 0 .. ShardCount /\ ShardCount > shardOf[t]
        /\ p[ShardCount] \in Int
    BY <1>1, SdarcAssumption DEF Shards, Prefix
  <1>4. CASE New(t) \/ Clone(t)
    <2>1. IncrementAt(t) /\ handles' = handles + 1
          /\ UNCHANGED <<cells, backRef, pc, shardOf, cs, cpc, next, toSpin, sum>>
      BY <1>4 DEF New, Clone, collectorVars
    <2>2. PICK q \in Prefix : IsPrefix(q, counter') /\ ShiftBy(p, q, shardOf[t], 1)
      BY <1>1, <2>1, IncrementShift
    <2>3. SameTags(Shards)
      BY <1>1, <2>1, IncrementShift DEF SameTags
    <2>4. CounterEffect(p, q)
      BY <1>1, <2>2, <2>3 DEF CounterEffect, Incremented
    <2>5. q[ShardCount] = p[ShardCount] + 1
      BY <1>3, <2>2 DEF ShiftBy
    <2>6. Counted(q)'
      BY <1>1, <1>2, <1>3, <2>1, <2>5, NobodyMoves DEF Counted
    <2>7. CasBorrows'
      BY <1>1, <2>1, NobodyMoves DEF CasBorrows
    <2>8. CsCounts'
      BY <1>1, <2>1, NobodyMoves
    <2>9. Effect
      BY <1>4, <2>1 DEF Effect, New, Clone, Dead, collectorVars
    <2> QED  BY <2>2, <2>4, <2>6, <2>7, <2>8, <2>9 DEF Keeps, Books
  <1>5. CASE Drop(t)
    <2>1. /\ DecrementAt(t) /\ handles' = handles - 1 /\ handles > Borrowed
          /\ pc[t] = "idle" /\ Goto(t, "dropped")
          /\ UNCHANGED <<tracked, cells, backRef, shardOf, cs, cpc, next, toSpin, sum>>
      BY <1>5 DEF Drop, collectorVars
    <2>2. PICK q \in Prefix : IsPrefix(q, counter') /\ ShiftBy(p, q, shardOf[t], -1)
      BY <1>1, <2>1, DecrementShift
    <2>3. tag(counter'[shardOf[t]]) /\ SameTags(Shards \ {shardOf[t]})
      BY <1>1, <2>1, DecrementShift DEF SameTags
    <2>4. CounterEffect(p, q)
      BY <1>1, <2>2, <2>3 DEF CounterEffect, Decremented
    <2>5. q[ShardCount] = p[ShardCount] - 1
      BY <1>3, <2>2 DEF ShiftBy
    <2>6. /\ At({"storing"})' = At({"storing"}) /\ At({"casSet"})' = At({"casSet"})
          /\ At({"casSet", "casSame"})' = At({"casSet", "casSame"})
      BY <2>1, AtMove DEF PC
    <2>7. Counted(q)'
      BY <1>1, <1>2, <1>3, <2>1, <2>5, <2>6 DEF Counted
    <2>8. CasBorrows'
      BY <1>1, <2>1, <2>6 DEF CasBorrows, Borrowed
    <2>9. CsCounts'
      BY <1>1, <2>1, CsSame DEF PC, InCS
    <2>10. Effect
      <3>1. handles > 0
        BY <1>1, <2>1 DEF Borrowed
      <3> QED  BY <1>1, <2>1, <3>1 DEF Effect, Dead, Goto
    <2> QED  BY <2>2, <2>4, <2>7, <2>8, <2>9, <2>10 DEF Keeps, Books
  <1>6. CASE DropNotify(t)
    <2>1. /\ pc[t] = "dropped" /\ Goto(t, "idle")
          /\ UNCHANGED <<tracked, counter, handles, cells, backRef, shardOf, cs,
                         cpc, next, toSpin, sum>>
      BY <1>6 DEF DropNotify, collectorVars
    <2>2. /\ At({"storing"})' = At({"storing"}) /\ At({"casSet"})' = At({"casSet"})
          /\ At({"casSet", "casSame"})' = At({"casSet", "casSame"})
          /\ At({"loaded", "storing"})' = At({"loaded", "storing"})
      BY <2>1, AtMove DEF PC
    <2>3. CsCounts'
      BY <1>1, <2>1, CsSame DEF PC, InCS
    <2>4. Books(p)'
      BY <1>1, <2>1, <2>2, <2>3 DEF Books, Counted, CasBorrows
    <2>5. Effect
      BY <1>1, <2>1, <2>2 DEF Effect, Dead, Goto
    <2> QED  BY <2>1, <2>4, <2>5 DEF Keeps, CounterEffect
  <1>7. CASE Downgrade(t)
    <2>1. /\ handles > 0 /\ backRef' = "set"
          /\ UNCHANGED <<tracked, counter, handles, cells, pc, shardOf, cs,
                         cpc, next, toSpin, sum>>
      BY <1>7 DEF Downgrade, collectorVars, threadVars
    <2>2. Books(p)'
      BY <1>1, <2>1, NobodyMoves DEF Books, Counted, CasBorrows
    <2>3. Effect
      BY <1>1, <2>1 DEF Effect, Dead
    <2> QED  BY <2>1, <2>2, <2>3 DEF Keeps, CounterEffect
  <1>8. ASSUME NEW s \in Shards, SetShard(t, s)
        PROVE  Keeps(p)
    <2>1. /\ pc[t] = "idle" /\ shardOf' = [shardOf EXCEPT ![t] = s]
          /\ UNCHANGED <<tracked, counter, handles, cells, backRef, pc, cs,
                         cpc, next, toSpin, sum>>
      BY <1>8 DEF SetShard, collectorVars
    <2>2. \A r \in Shards : Readers(r)' = Readers(r)
      BY <1>1, <2>1 DEF Readers, InCS
    <2>3. Books(p)'
      BY <1>1, <2>1, <2>2, NobodyMoves DEF Books, Counted, CasBorrows, CsCounts
    <2>4. Effect
      BY <1>1, <2>1, NobodyMoves DEF Effect, Dead
    <2> QED  BY <2>1, <2>3, <2>4 DEF Keeps, CounterEffect
  <1> QED  BY <1>4, <1>5, <1>6, <1>7, <1>8

LEMMA ReaderSteps ==
    ASSUME TypeOK, NEW p \in Prefix, Books(p), NEW t \in Threads,
           EnterLoad(t) \/ EnterUpgrade(t) \/ Leave(t) \/ LoadBackRef(t)
             \/ (\E c \in Cells : LoadPtr(t, c)) \/ IncrementLoaded(t)
    PROVE  Keeps(p)
  <1>1. /\ IsPrefix(p, counter) /\ Counted(p) /\ CasBorrows /\ CsCounts
        /\ handles \in Nat /\ shardOf[t] \in Shards /\ cs \in [Shards -> Int]
        /\ pc \in [Threads -> PC] /\ shardOf \in [Threads -> Shards]
    BY DEF Books, TypeOK
  <1>2. ASSUME NEW v \in InCS \cup {"idle"}, pc[t] \in InCS \cup {"idle"}, Goto(t, v),
               CsCounts',
               v = "loaded" => backRef = "set" \/ cells # {},
               UNCHANGED <<tracked, counter, handles, cells, backRef, shardOf,
                           cpc, next, toSpin, sum>>
        PROVE  Keeps(p)
    <2>1. v \in PC
      BY DEF InCS, PC
    <2>2. /\ At({"storing"})' = At({"storing"}) /\ At({"casSet"})' = At({"casSet"})
          /\ At({"casSet", "casSame"})' = At({"casSet", "casSame"})
      BY <1>2, <2>1, AtMove DEF InCS
    <2>3. Books(p)'
      BY <1>1, <1>2, <2>2 DEF Books, Counted, CasBorrows
    <2>4. \A u \in Threads : pc'[u] = "loaded" =>
             pc[u] = "loaded" \/ backRef = "set" \/ cells # {}
      BY <1>1, <1>2 DEF Goto
    <2>5. Dead /\ backRef # "set" => Dead'
      BY <1>1, <1>2, <2>2, <2>4 DEF Dead, At
    <2>6. Effect
      BY <1>2, <2>4, <2>5 DEF Effect
    <2> QED  BY <1>2, <2>3, <2>6 DEF Keeps, CounterEffect
  <1>3. CASE EnterLoad(t) \/ EnterUpgrade(t)
    <2>1. PICK v \in {"loadEntered", "upgradeEntered"} : Enter(t, v)
      BY <1>3 DEF EnterLoad, EnterUpgrade
    <2>2. CsCounts'
      BY <1>1, <2>1, CsEnter DEF Enter, PC, InCS
    <2> QED  BY <1>2, <2>1, <2>2 DEF Enter, collectorVars, InCS
  <1>4. CASE Leave(t)
    <2>1. CsCounts'
      BY <1>1, <1>4, CsLeave DEF Leave, PC, InCS
    <2> QED  BY <1>2, <1>4, <2>1 DEF Leave, collectorVars, InCS
  <1>5. CASE LoadBackRef(t) \/ \E c \in Cells : LoadPtr(t, c)
    <2>1. PICK v \in {"loaded", "leaving"} :
             /\ Goto(t, v) /\ pc[t] \in InCS
             /\ v = "loaded" => backRef = "set" \/ cells # {}
             /\ UNCHANGED <<tracked, counter, handles, cells, backRef, shardOf, cs,
                            cpc, next, toSpin, sum>>
      <3>1. CASE LoadBackRef(t)
        BY <3>1 DEF LoadBackRef, collectorVars, InCS
      <3>2. CASE \E c \in Cells : LoadPtr(t, c)
        BY <3>2 DEF LoadPtr, collectorVars, InCS
      <3> QED  BY <1>5, <3>1, <3>2
    <2>2. CsCounts'
      BY <1>1, <2>1, CsSame DEF PC, InCS
    <2> QED  BY <1>2, <2>1, <2>2 DEF InCS
  <1>6. CASE IncrementLoaded(t)
    <2>1. /\ IncrementAt(t) /\ handles' = handles + 1
          /\ pc[t] = "loaded" /\ Goto(t, "leaving")
          /\ UNCHANGED <<tracked, cells, backRef, shardOf, cs, cpc, next, toSpin, sum>>
      BY <1>6 DEF IncrementLoaded, collectorVars
    <2>2. PICK q \in Prefix : IsPrefix(q, counter') /\ ShiftBy(p, q, shardOf[t], 1)
      BY <1>1, <2>1, IncrementShift
    <2>3. CounterEffect(p, q)
      BY <1>1, <2>1, <2>2, IncrementShift DEF CounterEffect, Incremented, SameTags
    <2>4. /\ q[ShardCount] = p[ShardCount] + 1 /\ p[ShardCount] \in Int
      BY <1>1, <2>2, SdarcAssumption DEF ShiftBy, Shards, Prefix
    <2>5. /\ At({"storing"})' = At({"storing"}) /\ At({"casSet"})' = At({"casSet"})
          /\ At({"casSet", "casSame"})' = At({"casSet", "casSame"})
      BY <2>1, AtMove DEF PC
    <2>6. Counted(q)'
      BY <1>1, <2>1, <2>4, <2>5, Sizes DEF Counted
    <2>7. CasBorrows'
      BY <1>1, <2>1, <2>5 DEF CasBorrows
    <2>8. CsCounts'
      BY <1>1, <2>1, CsSame DEF PC, InCS
    <2>9. Effect
      <3>1. ~ Dead
        BY <2>1 DEF Dead, At
      <3> QED  BY <1>1, <2>1, <3>1 DEF Effect, Goto
    <2> QED  BY <2>2, <2>3, <2>6, <2>7, <2>8, <2>9 DEF Keeps, Books
  <1> QED  BY <1>3, <1>4, <1>5, <1>6

LEMMA CellSteps ==
    ASSUME SingleCasWriter, TypeOK, NEW p \in Prefix, Books(p), NEW t \in Threads,
           \/ \E c \in Cells, in \in BOOLEAN : Swap(t, c, in) \/ Store(t, c, in)
           \/ \E c \in Cells, matches, in \in BOOLEAN : CompareAndSet(t, c, matches, in)
           \/ StoreDropOld(t) \/ CasIncrement(t)
    PROVE  Keeps(p)
  <1>1. /\ IsPrefix(p, counter) /\ Counted(p) /\ CasBorrows /\ CsCounts
        /\ handles \in Nat /\ shardOf[t] \in Shards
        /\ pc \in [Threads -> PC] /\ shardOf \in [Threads -> Shards]
    BY DEF Books, TypeOK
  <1>2. p[ShardCount] \in Int
    BY SdarcAssumption DEF Prefix
  (* No compare_and_set is in progress when a thread writes a cell. *)
  <1>3. ASSUME t \in CasThreads \cup SwapThreads, pc[t] = "idle"
        PROVE  At({"casSet", "casSame"}) = {} /\ Borrowed = 0
    BY <1>1, <1>3 DEF CasBorrows, SingleCasWriter, At, Borrowed
  <1>4. ASSUME NEW c \in Cells, NEW in \in BOOLEAN, Swap(t, c, in)
        PROVE  Keeps(p)
    <2>1. /\ t \in SwapThreads /\ pc[t] = "idle" /\ (in => handles > Borrowed)
          /\ in \/ c \in cells
          /\ handles' = handles - (IF in THEN 1 ELSE 0) + (IF c \in cells THEN 1 ELSE 0)
          /\ Put(c, in)
          /\ UNCHANGED <<tracked, counter, backRef, pc, shardOf, cs, cpc, next, toSpin, sum>>
      BY <1>4 DEF Swap, collectorVars
    <2>2. At({"casSet", "casSame"}) = {} /\ Borrowed = 0
      BY <1>3, <2>1
    <2>3. Counted(p)'
      BY <1>1, <1>2, <2>1, Sizes, CellCount, NobodyMoves DEF Counted
    <2>4. CasBorrows'
      BY <2>1, <2>2, NobodyMoves DEF CasBorrows
    <2>5. Books(p)'
      BY <1>1, <2>1, <2>3, <2>4, NobodyMoves DEF Books
    <2>6. Effect
      BY <1>1, <2>1, <2>2 DEF Effect, Dead
    <2> QED  BY <2>1, <2>5, <2>6 DEF Keeps, CounterEffect
  <1>5. ASSUME NEW c \in Cells, NEW in \in BOOLEAN, Store(t, c, in)
        PROVE  Keeps(p)
    <2> DEFINE v == IF c \in cells THEN "storing" ELSE "idle"
    <2>1. /\ t \in SwapThreads /\ pc[t] = "idle" /\ (in => handles > Borrowed)
          /\ in \/ c \in cells
          /\ handles' = handles - (IF in THEN 1 ELSE 0)
          /\ Put(c, in) /\ Goto(t, v)
          /\ UNCHANGED <<tracked, counter, backRef, shardOf, cs, cpc, next, toSpin, sum>>
      BY <1>5 DEF Store, collectorVars
    <2>2. At({"casSet", "casSame"}) = {} /\ Borrowed = 0
      BY <1>3, <2>1
    <2>3. v \in PC /\ v \in {"storing", "idle"} /\ (v = "storing" <=> c \in cells)
      BY DEF PC
    <2> HIDE DEF v
    <2>4. /\ At({"casSet"})' = At({"casSet"})
          /\ At({"casSet", "casSame"})' = At({"casSet", "casSame"})
          /\ c \in cells =>
               Cardinality(At({"storing"})') = Cardinality(At({"storing"})) + 1
          /\ c \notin cells => At({"storing"})' = At({"storing"})
      BY <2>1, <2>3, AtMove
    <2>5. Counted(p)'
      BY <1>1, <1>2, <2>1, <2>4, Sizes, CellCount DEF Counted
    <2>6. CasBorrows'
      BY <2>2, <2>4 DEF CasBorrows
    <2>7. CsCounts'
      BY <1>1, <2>1, <2>3, CsSame DEF InCS
    <2>8. Books(p)'
      BY <1>1, <2>1, <2>5, <2>6, <2>7 DEF Books
    <2>9. Effect
      BY <1>1, <2>1, <2>2, <2>3 DEF Effect, Dead, Goto
    <2> QED  BY <2>1, <2>8, <2>9 DEF Keeps, CounterEffect
  <1>6. CASE StoreDropOld(t)
    <2>1. /\ DecrementAt(t) /\ pc[t] = "storing" /\ Goto(t, "dropped")
          /\ UNCHANGED <<tracked, handles, cells, backRef, shardOf, cs, cpc, next, toSpin, sum>>
      BY <1>6 DEF StoreDropOld, collectorVars
    <2>2. PICK q \in Prefix : IsPrefix(q, counter') /\ ShiftBy(p, q, shardOf[t], -1)
      BY <1>1, <2>1, DecrementShift
    <2>3. CounterEffect(p, q)
      BY <1>1, <2>1, <2>2, DecrementShift DEF CounterEffect, Decremented, SameTags
    <2>4. q[ShardCount] = p[ShardCount] - 1
      BY <1>1, <1>2, <2>2, SdarcAssumption DEF ShiftBy, Shards
    <2>5. /\ At({"casSet"})' = At({"casSet"})
          /\ At({"casSet", "casSame"})' = At({"casSet", "casSame"})
          /\ Cardinality(At({"storing"})') = Cardinality(At({"storing"})) - 1
      BY <2>1, AtMove DEF PC
    <2>6. Counted(q)'
      BY <1>1, <1>2, <2>1, <2>4, <2>5, Sizes DEF Counted
    <2>7. CasBorrows'
      BY <1>1, <2>1, <2>5 DEF CasBorrows
    <2>8. CsCounts'
      BY <1>1, <2>1, CsSame DEF PC, InCS
    <2>9. Effect
      <3>1. ~ Dead
        BY <2>1 DEF Dead, At
      <3> QED  BY <1>1, <2>1, <3>1 DEF Effect, Goto
    <2> QED  BY <2>2, <2>3, <2>6, <2>7, <2>8, <2>9 DEF Keeps, Books
  <1>7. ASSUME NEW c \in Cells, NEW matches \in BOOLEAN, NEW in \in BOOLEAN,
               CompareAndSet(t, c, matches, in)
        PROVE  Keeps(p)
    <2> DEFINE v == IF ~in THEN "idle" ELSE IF matches THEN "casSame" ELSE "casSet"
    <2>1. /\ t \in CasThreads /\ pc[t] = "idle" /\ handles > 0
          /\ matches \/ in
          /\ handles' = IF in THEN handles ELSE handles + 1
          /\ Put(c, in) /\ Goto(t, v)
          /\ UNCHANGED <<tracked, counter, backRef, shardOf, cs, cpc, next, toSpin, sum>>
      BY <1>7 DEF CompareAndSet, collectorVars
    <2>2. /\ v \in PC /\ v \in {"idle", "casSame", "casSet"}
          /\ v = "casSet" <=> in /\ ~matches
          /\ v # "idle" => in
      BY DEF PC
    <2> HIDE DEF v
    <2>3. matches <=> c \in cells
      BY <1>7 DEF CompareAndSet
    <2>4. /\ At({"storing"})' = At({"storing"})
          /\ in /\ ~matches => Cardinality(At({"casSet"})') = Cardinality(At({"casSet"})) + 1
          /\ ~ (in /\ ~matches) => At({"casSet"})' = At({"casSet"})
      BY <2>1, <2>2, AtMove
    <2>5. /\ in /\ ~matches => Cardinality(cells') = Cardinality(cells) + 1
          /\ in /\ matches => cells' = cells
          /\ ~in => Cardinality(cells') = Cardinality(cells) - 1
          /\ in => cells' # {}
      BY <1>7, <2>1, <2>3, CellCount DEF CompareAndSet
    <2>6. Counted(p)'
      BY <1>1, <1>2, <2>1, <2>4, <2>5, Sizes DEF Counted
    <2>7. At({"casSet", "casSame"})' \subseteq {t} /\ (At({"casSet", "casSame"})' # {} => in)
      BY <1>1, <1>3, <2>1, <2>2 DEF At, Goto
    <2>8. CasBorrows'
      BY <1>1, <2>1, <2>5, <2>7 DEF CasBorrows
    <2>9. CsCounts'
      BY <1>1, <2>1, <2>2, CsSame DEF InCS
    <2>10. Books(p)'
      BY <1>1, <2>1, <2>6, <2>8, <2>9 DEF Books
    <2>11. Effect
      BY <1>1, <2>1, <2>2 DEF Effect, Dead, Goto
    <2> QED  BY <2>1, <2>10, <2>11 DEF Keeps, CounterEffect
  <1>8. CASE CasIncrement(t)
    <2>1. /\ IncrementAt(t) /\ pc[t] \in {"casSet", "casSame"} /\ Goto(t, "idle")
          /\ handles' = IF pc[t] = "casSame" THEN handles + 1 ELSE handles
          /\ UNCHANGED <<tracked, cells, backRef, shardOf, cs, cpc, next, toSpin, sum>>
      BY <1>8 DEF CasIncrement, collectorVars
    <2>2. PICK q \in Prefix : IsPrefix(q, counter') /\ ShiftBy(p, q, shardOf[t], 1)
      BY <1>1, <2>1, IncrementShift
    <2>3. CounterEffect(p, q)
      BY <1>1, <2>1, <2>2, IncrementShift DEF CounterEffect, Incremented, SameTags
    <2>4. q[ShardCount] = p[ShardCount] + 1
      BY <1>1, <1>2, <2>2, SdarcAssumption DEF ShiftBy, Shards
    <2>5. /\ At({"storing"})' = At({"storing"})
          /\ pc[t] = "casSet" =>
               Cardinality(At({"casSet"})') = Cardinality(At({"casSet"})) - 1
          /\ pc[t] = "casSame" => At({"casSet"})' = At({"casSet"})
          /\ At({"casSet", "casSame"})' \subseteq At({"casSet", "casSame"})
      <3>1. At({"casSet", "casSame"})' \subseteq At({"casSet", "casSame"})
        BY <1>1, <2>1 DEF At, Goto
      <3> QED  BY <2>1, <3>1, AtMove DEF PC
    <2>6. Counted(q)'
      BY <1>1, <1>2, <2>1, <2>4, <2>5, Sizes DEF Counted
    <2>7. handles > 0
      BY <1>1, <2>1 DEF CasBorrows, At
    <2>8. CasBorrows'
      BY <1>1, <2>1, <2>5, <2>7 DEF CasBorrows
    <2>9. CsCounts'
      BY <1>1, <2>1, CsSame DEF PC, InCS
    <2>10. Effect
      BY <1>1, <2>1, <2>7 DEF Effect, Goto, Dead
    <2> QED  BY <2>2, <2>3, <2>6, <2>8, <2>9, <2>10 DEF Keeps, Books
  <1> QED  BY <1>4, <1>5, <1>6, <1>7, <1>8

-----------------------------------------------------------------------------
(* Clearing a tag changes no count, so the same prefix sums do. *)
LEMMA ClearTagsPrefix ==
    ASSUME TypeOK, NEW p \in Prefix, IsPrefix(p, counter), ClearTags
    PROVE  IsPrefix(p, counter')
  <1>1. next \in Shards /\ counter \in [Shards -> Int] /\ counter[next] \in Int
    BY SdarcAssumption DEF ClearTags, TypeOK, Shards
  <1>2. /\ counter' = [counter EXCEPT ![next] = clear_tag(counter[next])]
        /\ ref_count(clear_tag(counter[next])) = ref_count(counter[next])
    BY <1>1, CounterFacts DEF ClearTags
  <1>3. \A r \in Shards : ref_count(counter'[r]) = ref_count(counter[r])
    BY <1>1, <1>2
  <1> QED  BY <1>3 DEF IsPrefix

(* The collector changes nothing the books are about. *)
LEMMA CollectorBooks ==
    ASSUME TypeOK, NEW p \in Prefix, Books(p), CollectorStep
    PROVE  Books(p)' /\ UNCHANGED threadVars
  <1>1. UNCHANGED threadVars
    BY DEF CollectorStep, BeginIteration, SpinFirstPass, SpinWait, StartUpdate, PreScan,
           PreScanEnd, ClearTags, ClearTagsEnd, Recheck, RecheckEnd, ClearWeakBackRef,
           FreePointers
  <1>2. ClearTags \/ UNCHANGED counter
    BY DEF CollectorStep, BeginIteration, SpinFirstPass, SpinWait, StartUpdate, PreScan,
           PreScanEnd, ClearTagsEnd, Recheck, RecheckEnd, ClearWeakBackRef, FreePointers
  <1>3. IsPrefix(p, counter')
    BY <1>2, ClearTagsPrefix DEF Books
  <1>4. Counted(p)' /\ CasBorrows' /\ CsCounts'
    BY <1>1, NobodyMoves DEF threadVars, Books, Counted, CasBorrows
  <1> QED  BY <1>1, <1>3, <1>4 DEF Books

LEMMA CollectorKnows ==
    ASSUME SingleCasWriter, TypeOK, TypeOK', NEW p \in Prefix, Books(p), Knows(p),
           CollectorStep
    PROVE  Knows(p)'
  <1>1. UNCHANGED <<handles, cells, pc, shardOf, cs>>
    BY CollectorBooks DEF threadVars
  <1>2. Dead' <=> Dead
    BY <1>1, NobodyMoves DEF Dead
  <1>3. ShardCount \in Nat \ {0} /\ next \in 0 .. ShardCount /\ sum \in Int
    BY SdarcAssumption DEF TypeOK
  <1>4. /\ Control /\ SpinInv(p) /\ RecheckInv(p) /\ FreeInv
    BY DEF Knows
  <1>5. CASE BeginIteration
    <2>1. /\ cpc = "idle" /\ cpc' = "spin" /\ next' = 0 /\ sum' = 0 /\ backRef' = backRef
          /\ tracked' = tracked \/ (tracked = "Pending" /\ tracked' = "DefaultState")
      BY <1>5 DEF BeginIteration
    <2>2. Control' /\ RecheckInv(p)'
      BY <1>4, <2>1 DEF Control, RecheckInv
    <2>3. SpinInv(p)'
      <3>1. \A t \in Threads : shardOf[t] >= 0
        BY DEF TypeOK, Shards
      <3> QED  BY <1>1, <2>1, <3>1 DEF SpinInv, At
    <2>4. FreeInv'
      BY <1>2, <1>4, <2>1 DEF FreeInv
    <2> QED  BY <2>2, <2>3, <2>4 DEF Knows
  <1>6. CASE SpinFirstPass \/ \E s \in Shards : SpinWait(s)
    <2>1. /\ cpc = "spin" /\ UNCHANGED <<counter, backRef, tracked, cpc, sum>>
      BY <1>6 DEF SpinFirstPass, SpinWait
    <2>2. Control' /\ RecheckInv(p)' /\ FreeInv'
      BY <1>2, <1>4, <2>1 DEF Control, RecheckInv, FreeInv
    <2>3. SpinInv(p)'
      <3> SUFFICES ASSUME tracked = "RequiresReChecking", Untagged(0), p[ShardCount] = 0,
                          backRef # "set", NEW t \in At({"loaded"})
                   PROVE  shardOf[t] >= next' \/ shardOf[t] \in toSpin'
        BY <1>1, <2>1, NobodyMoves DEF SpinInv, Untagged
      <3>1. shardOf[t] >= next \/ shardOf[t] \in toSpin
        BY <1>4, <2>1 DEF SpinInv
      <3>2. t \in Readers(shardOf[t]) /\ shardOf[t] \in Shards
        BY DEF At, Readers, InCS, TypeOK
      <3>3. cs[shardOf[t]] # 0
        <4>1. IsFiniteSet(Readers(shardOf[t]))
          BY FS_Subset, SdarcAssumption DEF Readers
        <4>2. Cardinality(Readers(shardOf[t])) # 0
          BY <3>2, <4>1, FS_EmptySet
        <4> QED  BY <3>2, <4>2 DEF Books, CsCounts
      <3>4. CASE SpinFirstPass
        <4>1. CASE shardOf[t] = next
          BY <3>3, <3>4, <4>1 DEF SpinFirstPass
        <4>2. CASE shardOf[t] # next
          <5>1. next' = next + 1 /\ toSpin \subseteq toSpin'
            BY <3>4 DEF SpinFirstPass
          <5>2. shardOf[t] \in Int /\ next \in Int
            BY <1>3, <3>2 DEF Shards
          <5> QED  BY <3>1, <4>2, <5>1, <5>2
        <4> QED  BY <4>1, <4>2
      <3>5. CASE \E s \in Shards : SpinWait(s)
        BY <3>1, <3>3, <3>5 DEF SpinWait
      <3> QED  BY <1>6, <3>4, <3>5
    <2> QED  BY <2>2, <2>3 DEF Knows
  <1>7. CASE StartUpdate
    <2>1. /\ cpc = "spin" /\ next = ShardCount /\ toSpin = {} /\ next' = 0
          /\ UNCHANGED <<counter, backRef, tracked, sum>>
          /\ tracked = "DefaultState" => cpc' = "prescan"
          /\ tracked = "RequiresReChecking" => cpc' = "recheck"
          /\ tracked \notin {"DefaultState", "RequiresReChecking"} => cpc' = "idle"
      BY <1>7 DEF StartUpdate, SpinDone
    <2>2. Control' /\ FreeInv' /\ SpinInv(p)'
      BY <1>2, <1>4, <2>1 DEF Control, FreeInv, SpinInv
    <2>3. RecheckInv(p)'
      <3> SUFFICES ASSUME cpc' = "recheck", Untagged(0)
                   PROVE  /\ Expected(p)' >= 0
                          /\ Expected(p)' = 0 /\ backRef # "set" => Dead
        BY <1>2, <2>1 DEF RecheckInv, Untagged
      <3>1. tracked = "RequiresReChecking" /\ sum = 0
        BY <1>4, <2>1 DEF Control
      <3>2. p[0] = 0 /\ p[ShardCount] \in Nat
        BY TotalFacts DEF Books, IsPrefix
      <3>3. Expected(p)' = p[ShardCount]
        BY <2>1, <3>1, <3>2 DEF Expected
      <3>4. ASSUME p[ShardCount] = 0, backRef # "set"
            PROVE  Dead
        <4>1. handles = 0 /\ cells = {} /\ At({"storing"}) = {}
          BY <3>4, TotalFacts
        <4>2. \A t \in At({"loaded"}) : shardOf[t] >= ShardCount
          BY <1>4, <2>1, <3>1, <3>4 DEF SpinInv
        <4>3. \A t \in Threads : ~ (shardOf[t] >= ShardCount)
          BY <1>3 DEF TypeOK, Shards
        <4>4. At({"loaded", "storing"}) = {}
          BY <4>1, <4>2, <4>3 DEF At
        <4> QED  BY <4>1, <4>4 DEF Dead
      <3> QED  BY <3>2, <3>3, <3>4
    <2> QED  BY <2>2, <2>3 DEF Knows
  <1>8. CASE PreScan \/ PreScanEnd \/ ClearTags
    <2>1. /\ cpc \in {"prescan", "clearTags"} /\ cpc' \in {"prescan", "clearTags", "idle"}
          /\ tracked = "DefaultState" /\ UNCHANGED <<tracked, backRef>>
      BY <1>4, <1>8 DEF PreScan, PreScanEnd, ClearTags, Control
    <2> QED  BY <1>4, <2>1 DEF Knows, Control, SpinInv, RecheckInv, FreeInv
  <1>9. CASE ClearTagsEnd
    <2>1. /\ cpc = "clearTags" /\ cpc' = "idle" /\ backRef' = backRef
          /\ tracked' \in {"RequiresReChecking", "DefaultState"}
      BY <1>9 DEF ClearTagsEnd
    <2> QED  BY <1>4, <2>1 DEF Knows, Control, SpinInv, RecheckInv, FreeInv
  <1>10. CASE Recheck
    <2>1. cpc = "recheck" /\ tracked = "RequiresReChecking" /\ next < ShardCount
          /\ UNCHANGED <<counter, backRef, toSpin>>
      BY <1>4, <1>10 DEF Recheck, Control
    <2>2. CASE tag(counter[next])
      <3>1. tracked' = "DefaultState" /\ cpc' = "idle"
        BY <1>10, <2>2 DEF Recheck
      <3> QED  BY <1>4, <2>1, <3>1 DEF Knows, Control, SpinInv, RecheckInv, FreeInv
    <2>3. CASE ~ tag(counter[next])
      <3>1. /\ sum' = sum + ref_count(counter[next]) /\ next' = next + 1
            /\ UNCHANGED <<tracked, cpc>>
        BY <1>10, <2>3 DEF Recheck
      <3>2. next \in Shards /\ next + 1 \in 0 .. ShardCount /\ ShardCount \in 0 .. ShardCount
        BY <1>3, <2>1 DEF Shards
      <3>3. Untagged(next)' => Untagged(next)
        <4>1. \A s \in Shards : s >= next => s = next \/ s >= next + 1
          BY <1>3 DEF Shards
        <4> QED  BY <2>1, <2>3, <3>1, <4>1 DEF Untagged
      <3>4. p[next+1] = p[next] + ref_count(counter[next])
        BY <3>2 DEF Books, IsPrefix
      <3>5. ref_count(counter[next]) \in Int /\ p[next] \in Int /\ p[ShardCount] \in Int
        BY <1>3, <3>2, CounterTypes DEF Prefix
      <3>6. Expected(p)' = Expected(p)
        BY <1>3, <3>1, <3>4, <3>5 DEF Expected
      <3>7. RecheckInv(p)'
        BY <1>2, <1>4, <2>1, <3>3, <3>6 DEF RecheckInv
      <3> QED  BY <1>2, <1>4, <2>1, <3>1, <3>7 DEF Knows, Control, SpinInv, FreeInv
    <2> QED  BY <2>2, <2>3
  <1>11. CASE RecheckEnd
    <2>1. cpc = "recheck" /\ tracked = "RequiresReChecking" /\ next = ShardCount
          /\ UNCHANGED <<counter, backRef>>
      BY <1>4, <1>11 DEF RecheckEnd, Control
    <2>2. Untagged(next)
      BY <1>3, <2>1 DEF Untagged, Shards
    <2>3. p[ShardCount] \in Int
      BY <1>3 DEF Prefix
    <2>4. Expected(p) = sum
      BY <1>3, <2>1, <2>3 DEF Expected
    <2>5. sum >= 0 /\ (sum = 0 /\ backRef # "set" => Dead)
      BY <1>4, <2>1, <2>2, <2>4 DEF RecheckInv
    <2>6. CASE sum = 0
      <3>1. cpc' = "clearWeak" /\ tracked' = tracked
        BY <1>11, <2>6 DEF RecheckEnd
      <3> QED
        BY <1>2, <2>1, <2>5, <2>6, <3>1 DEF Knows, Control, SpinInv, RecheckInv, FreeInv
    <2>7. CASE sum > 0
      <3>1. cpc' = "idle" /\ tracked' = "DefaultState"
        BY <1>3, <1>11, <2>7 DEF RecheckEnd
      <3> QED  BY <3>1 DEF Knows, Control, SpinInv, RecheckInv, FreeInv
    <2> QED  BY <1>3, <2>5, <2>6, <2>7
  <1>12. CASE ClearWeakBackRef
    <2>1. CASE backRef = "set"
      <3>1. cpc' = "idle" /\ tracked' = "RequiresReChecking"
        BY <1>12, <2>1 DEF ClearWeakBackRef
      <3> QED  BY <3>1 DEF Knows, Control, SpinInv, RecheckInv, FreeInv
    <2>2. CASE backRef # "set"
      <3>1. /\ cpc = "clearWeak" /\ cpc' = "free" /\ tracked' = "ReadyToFree"
            /\ backRef' = backRef
        BY <1>12, <2>2 DEF ClearWeakBackRef
      <3> QED
        BY <1>2, <1>4, <2>2, <3>1 DEF Knows, Control, SpinInv, RecheckInv, FreeInv
    <2> QED  BY <2>1, <2>2
  <1>13. CASE FreePointers
    <2>1. /\ cpc = "free" /\ cpc' = "idle" /\ tracked' = "Freed" /\ backRef' = backRef
          /\ tracked = "ReadyToFree"
      BY <1>4, <1>13 DEF FreePointers, Control
    <2> QED  BY <1>2, <1>4, <2>1 DEF Knows, Control, SpinInv, RecheckInv, FreeInv
  <1> QED
    BY <1>5, <1>6, <1>7, <1>8, <1>9, <1>10, <1>11, <1>12, <1>13 DEF CollectorStep

-----------------------------------------------------------------------------
LEMMA IndInvInit == Init => IndInv
  <1> SUFFICES ASSUME Init PROVE IndInv
    OBVIOUS
  <1> DEFINE zero == [k \in 0 .. ShardCount |-> 0]
  <1>1. zero \in Prefix
    BY DEF Prefix
  <1>2. TypeOK
    BY TypeInit
  <1>3. \A S : "idle" \notin S => At(S) = {}
    BY DEF Init, At
  <1>4. /\ At({"storing"}) = {} /\ At({"casSet"}) = {} /\ At({"casSet", "casSame"}) = {}
        /\ At({"loaded", "storing"}) = {} /\ \A s \in Shards : Readers(s) = {}
    BY <1>3 DEF Init, Readers, InCS
  <1>5. IsPrefix(zero, counter)
    <2>1. ref_count(NewCounter) = 0
      BY DEF ref_count, NewCounter
    <2>2. \A k \in Shards : k \in 0 .. ShardCount /\ k + 1 \in 0 .. ShardCount
      BY SdarcAssumption DEF Shards
    <2>3. \A k \in Shards : ref_count(counter[k]) = 0
      BY <2>1 DEF Init
    <2> QED  BY <2>2, <2>3, SdarcAssumption DEF IsPrefix
  <1>6. Counted(zero) /\ CasBorrows /\ CsCounts
    BY <1>4, FS_EmptySet, SdarcAssumption DEF Init, Counted, CasBorrows, CsCounts
  <1>7. Knows(zero)
    BY <1>4 DEF Init, Knows, Control, SpinInv, RecheckInv, FreeInv, Dead
  <1> HIDE DEF zero
  <1> QED  BY <1>1, <1>2, <1>5, <1>6, <1>7 DEF IndInv, Inv, Books

LEMMA IndInvStep ==
    ASSUME SingleCasWriter
    PROVE  IndInv /\ [Next]_vars => IndInv'
  <1> SUFFICES ASSUME IndInv, [Next]_vars PROVE IndInv'
    OBVIOUS
  <1>1. PICK p \in Prefix : TypeOK /\ Books(p) /\ Knows(p)
    BY DEF IndInv, Inv
  <1>2. TypeOK'
    BY <1>1, TypeStep
  <1>3. CASE UNCHANGED vars
    <2>1. Inv(p)'
      <3>1. \A S : At(S)' = At(S)
        BY <1>3 DEF vars, At
      <3>2. Books(p)'
        BY <1>1, <1>3, <3>1, NobodyMoves DEF vars, Books, Counted, CasBorrows
      <3>3. Knows(p)'
        BY <1>1, <1>3, <3>1
           DEF vars, Knows, Control, SpinInv, RecheckInv, FreeInv, Dead, Untagged, Expected
      <3> QED  BY <1>2, <3>2, <3>3 DEF Inv
    <2> QED  BY <2>1 DEF IndInv
  <1>4. CASE CollectorStep
    BY <1>1, <1>2, <1>4, CollectorBooks, CollectorKnows DEF IndInv, Inv
  <1>5. CASE \E t \in Threads : ThreadBegin(t) \/ ThreadContinue(t)
                             \/ EnterLoad(t) \/ EnterUpgrade(t) \/ Leave(t)
    <2>1. Keeps(p)
      BY <1>1, <1>5, HandleSteps, ReaderSteps, CellSteps DEF ThreadBegin, ThreadContinue
    <2>2. PICK q \in Prefix : Books(q)' /\ CounterEffect(p, q) /\ Effect
      BY <2>1 DEF Keeps
    <2>3. Knows(q)'
      BY <1>1, <1>2, <2>2, EffectKeepsKnows
    <2> QED  BY <1>2, <2>2, <2>3 DEF IndInv, Inv
  <1> QED  BY <1>3, <1>4, <1>5 DEF Next

(* The inductive invariant holds in every reachable state, when one thread *)
(* does all writes to the cells or nobody calls compare_and_set.           *)
THEOREM Invariance ==
    ASSUME SingleCasWriter
    PROVE  Spec => []IndInv
  BY IndInvInit, IndInvStep, PTL DEF Spec

LEMMA IndInvSafe == IndInv => NoUseAfterFree /\ CollectorNeverPanics
  <1> SUFFICES ASSUME IndInv PROVE NoUseAfterFree /\ CollectorNeverPanics
    OBVIOUS
  <1>1. PICK p \in Prefix : TypeOK /\ Books(p) /\ Knows(p)
    BY DEF IndInv, Inv
  <1>2. CollectorNeverPanics
    BY <1>1 DEF Knows, Control, CollectorNeverPanics
  <1>3. ASSUME tracked = "Freed"
        PROVE  /\ handles = 0 /\ cells = {}
               /\ At({"loaded", "storing", "casSet", "casSame"}) = {}
    <2>1. Dead
      BY <1>1, <1>3 DEF Knows, FreeInv
    <2>2. At({"casSet", "casSame"}) = {}
      BY <1>1, <2>1 DEF Books, CasBorrows, Dead
    <2> QED  BY <2>1, <2>2 DEF Dead, At
  <1> QED  BY <1>2, <1>3 DEF NoUseAfterFree

(* The collector frees the object only when no handle, cell, reader or     *)
(* pending operation can reach it any more, for any number of threads,     *)
(* shards and cells.                                                       *)
THEOREM NeverFreedInUse ==
    ASSUME SingleCasWriter
    PROVE  Spec => []NoUseAfterFree
  BY Invariance, IndInvSafe, PTL

(* The assertion of update_state never fails: a re-check that sees no tag  *)
(* never computes a negative sum, although it reads the shards one by one. *)
THEOREM RecheckNeverNegative ==
    ASSUME SingleCasWriter
    PROVE  Spec => []CollectorNeverPanics
  BY Invariance, IndInvSafe, PTL

-----------------------------------------------------------------------------
(* The least-number principle, for a set of naturals. *)
LEMMA LeastNat ==
    ASSUME NEW S \in SUBSET Nat, S # {}
    PROVE  \E m \in S : \A k \in S : ~(k < m)
  <1>1. PICK m \in S : \A k \in S : ~(<<k, m>> \in OpToRel(<, Nat))
    BY NatLessThanWellFounded, WFMin
  <1>2. \A k \in S : ~(k < m)
    BY <1>1 DEF OpToRel
  <1> QED  BY <1>2

(* Prefix sums are determined by the counts they add up. *)
LEMMA PrefixUnique ==
    ASSUME NEW c, NEW p, NEW q, IsPrefix(p, c), IsPrefix(q, c)
    PROVE  \A k \in 0 .. ShardCount : p[k] = q[k]
  <1> DEFINE W == {k \in 0 .. ShardCount : p[k] # q[k]}
  <1> SUFFICES ASSUME W # {} PROVE FALSE
    OBVIOUS
  <1>1. W \in SUBSET Nat
    BY SdarcAssumption
  <1>2. PICK m \in W : \A k \in W : ~(k < m)
    <2> HIDE DEF W
    <2> QED  BY <1>1, LeastNat
  <1>3. m # 0
    BY DEF IsPrefix
  <1>4. /\ m - 1 \in Shards /\ m - 1 \in 0 .. ShardCount
        /\ m - 1 < m /\ (m - 1) + 1 = m
    BY <1>3, SdarcAssumption DEF Shards
  <1>5. p[m-1] = q[m-1]
    BY <1>2, <1>4
  <1> QED  BY <1>4, <1>5 DEF IsPrefix

(* RefCountSum, defined by recursion, is the last prefix sum. *)
LEMMA SumIsPrefix ==
    ASSUME NEW p \in Prefix, IsPrefix(p, counter)
    PROVE  RefCountSum = p[ShardCount]
  <1> DEFINE Sums(f) == [k \in 0 .. ShardCount |->
                            IF k = 0 THEN 0 ELSE f[k-1] + ref_count(counter[k-1])]
             F == CHOOSE f : f = Sums(f)
  <1>1. RefCountSum = F[ShardCount]
    BY DEF RefCountSum
  <1>2. \A k \in 0 .. ShardCount : k # 0 => k - 1 \in Shards /\ (k - 1) + 1 = k
    BY SdarcAssumption DEF Shards
  <1>3. p = Sums(p)
    <2>1. \A k \in 0 .. ShardCount : p[k] = Sums(p)[k]
      BY <1>2 DEF IsPrefix
    <2> QED  BY <2>1 DEF Prefix
  <1>4. F = Sums(F)
    <2> HIDE DEF Sums
    <2> QED  BY <1>3
  <1>5. IsPrefix(F, counter)
    <2> HIDE DEF F
    <2>1. 0 \in 0 .. ShardCount
          /\ \A k \in Shards : k + 1 \in 0 .. ShardCount /\ k + 1 # 0 /\ (k + 1) - 1 = k
      BY SdarcAssumption DEF Shards
    <2>2. \A k \in 0 .. ShardCount :
             F[k] = IF k = 0 THEN 0 ELSE F[k-1] + ref_count(counter[k-1])
      BY <1>4
    <2> QED  BY <2>1, <2>2 DEF IsPrefix
  <1>6. ShardCount \in 0 .. ShardCount
    BY SdarcAssumption
  <1> HIDE DEF F
  <1> QED  BY <1>1, <1>5, <1>6, PrefixUnique

(* The books are right: the sum of the counters over the shards is the     *)
(* number of references, less those a compare_and_set has published and    *)
(* not counted yet, whatever shard each increment and decrement went to.   *)
THEOREM CountsAddUp ==
    ASSUME SingleCasWriter
    PROVE  Spec => []Accounting
  <1>1. IndInv => Accounting
    <2> SUFFICES ASSUME IndInv PROVE Accounting
      OBVIOUS
    <2>1. PICK p \in Prefix : TypeOK /\ Books(p)
      BY DEF IndInv, Inv
    <2>2. RefCountSum = p[ShardCount]
      BY <2>1, SumIsPrefix DEF Books
    <2>3. \A S : IsFiniteSet(At(S)) /\ Cardinality(At(S)) \in Nat
      BY FS_Subset, FS_CardinalityType, SdarcAssumption DEF At
    <2>4. ASSUME NEW a, a # "casSame"
          PROVE  Cardinality(At({a, "casSame"}))
                   = Cardinality(At({a})) + Cardinality(At({"casSame"}))
      <3> DEFINE A == At({a})
                 B == At({"casSame"})
      <3>1. At({a, "casSame"}) = A \cup B /\ A \cap B = {}
        BY <2>4 DEF At
      <3>2. IsFiniteSet(A) /\ IsFiniteSet(B) /\ Cardinality(A) \in Nat /\ Cardinality(B) \in Nat
        BY <2>3
      <3> HIDE DEF A, B
      <3>3. Cardinality(A \cup B) = Cardinality(A) + Cardinality(B) - Cardinality(A \cap B)
        BY <3>2, FS_Union
      <3>4. Cardinality(A \cap B) = 0
        BY <3>1, FS_EmptySet
      <3>5. Cardinality(A \cup B) = Cardinality(A) + Cardinality(B)
        BY <3>2, <3>3, <3>4
      <3> QED  BY <3>1, <3>5 DEF A, B
    <2>5. handles \in Nat /\ Cardinality(cells) \in Nat
      BY <2>1, Sizes DEF TypeOK
    <2>6. /\ Cardinality(At({"storing", "casSame"}))
               = Cardinality(At({"storing"})) + Cardinality(At({"casSame"}))
          /\ Cardinality(At({"casSet", "casSame"}))
               = Cardinality(At({"casSet"})) + Cardinality(At({"casSame"}))
      BY <2>4
    <2> QED  BY <2>1, <2>2, <2>3, <2>5, <2>6 DEF Accounting, Strong, Books, Counted
  <1> QED  BY <1>1, Invariance, PTL
-----------------------------------------------------------------------------
(* In a behaviour in which the object always has a strong reference, no    *)
(* re-check is going to end with zero, so the collector never gets to      *)
(* clearing the back reference.                                            *)
Alive == tracked = "Unborn" \/ Strong > 0

NeverZero(p) ==
    /\ backRef # "null"
    /\ cpc # "clearWeak"
    /\ cpc = "recheck" /\ Untagged(next) => Expected(p) > 0

AliveInv == \E p \in Prefix : Inv(p) /\ NeverZero(p)

(* A strong reference is in the total, or belongs to a compare_and_set     *)
(* that borrows one which is.                                              *)
LEMMA StrongIsCounted ==
    ASSUME SingleCasWriter, TypeOK, NEW p \in Prefix, Books(p), Strong > 0
    PROVE  p[ShardCount] > 0
  <1>1. /\ p[ShardCount] \in Nat
        /\ p[ShardCount] = 0 => handles = 0 /\ cells = {} /\ At({"storing"}) = {}
    BY TotalFacts
  <1> SUFFICES ASSUME p[ShardCount] = 0 PROVE FALSE
    BY <1>1
  <1>2. handles = 0 /\ cells = {} /\ At({"storing"}) = {}
    BY <1>1
  <1>3. At({"casSet", "casSame"}) = {}
    BY <1>2 DEF Books, CasBorrows
  <1>4. At({"storing", "casSame"}) = {}
    BY <1>2, <1>3 DEF At
  <1>5. Strong = 0
    BY <1>2, <1>4, FS_EmptySet DEF Strong
  <1> QED  BY <1>5

LEMMA AliveInvStep ==
    ASSUME SingleCasWriter, AliveInv, Alive, [Next]_vars
    PROVE  AliveInv'
  <1>1. PICK p \in Prefix : TypeOK /\ Books(p) /\ Knows(p) /\ NeverZero(p)
    BY DEF AliveInv, Inv
  <1>2. TypeOK'
    BY <1>1, TypeStep
  <1>3. CASE UNCHANGED vars
    <2>1. \A S : At(S)' = At(S)
      BY <1>3 DEF vars, At
    <2>2. Books(p)'
      BY <1>1, <1>3, <2>1, NobodyMoves DEF vars, Books, Counted, CasBorrows
    <2>3. Knows(p)'
      BY <1>1, <1>3, <2>1
         DEF vars, Knows, Control, SpinInv, RecheckInv, FreeInv, Dead, Untagged, Expected
    <2>4. NeverZero(p)'
      BY <1>1, <1>3 DEF vars, NeverZero, Untagged, Expected
    <2> QED  BY <1>2, <2>2, <2>3, <2>4 DEF AliveInv, Inv
  <1>4. CASE CollectorStep
    <2>1. Books(p)' /\ Knows(p)'
      BY <1>1, <1>2, <1>4, CollectorBooks, CollectorKnows
    <2>2. NeverZero(p)'
      <3>1. ShardCount \in Nat \ {0} /\ next \in 0 .. ShardCount /\ sum \in Int
        BY <1>1, SdarcAssumption DEF TypeOK
      <3>2. /\ cpc # "clearWeak" /\ backRef # "null" /\ Control
            /\ cpc = "recheck" /\ Untagged(next) => Expected(p) > 0
        BY <1>1 DEF NeverZero, Knows
      <3>3. CASE StartUpdate
        <4>1. /\ UNCHANGED <<backRef, sum, counter>> /\ next' = 0 /\ cpc = "spin"
              /\ cpc' # "clearWeak"
              /\ cpc' = "recheck" => tracked = "RequiresReChecking"
          BY <3>3 DEF StartUpdate
        <4>2. ASSUME cpc' = "recheck"
              PROVE  Expected(p)' > 0
          <5>1. p[ShardCount] > 0
            BY <1>1, <4>1, <4>2, StrongIsCounted DEF Alive
          <5>2. p[ShardCount] \in Int /\ p[0] = 0 /\ sum = 0
            BY <1>1, <3>1, <3>2, <4>1 DEF Prefix, Books, IsPrefix, Control
          <5> QED  BY <4>1, <5>1, <5>2 DEF Expected
        <4> QED  BY <3>2, <4>1, <4>2 DEF NeverZero
      <3>4. CASE Recheck
        <4>1. UNCHANGED <<backRef, counter>> /\ next < ShardCount /\ cpc = "recheck"
          BY <3>4 DEF Recheck
        <4>2. CASE tag(counter[next])
          <5>1. cpc' = "idle"
            BY <3>4, <4>2 DEF Recheck
          <5> QED  BY <3>2, <4>1, <5>1 DEF NeverZero
        <4>3. CASE ~ tag(counter[next])
          <5>1. /\ sum' = sum + ref_count(counter[next]) /\ next' = next + 1
                /\ cpc' = "recheck"
            BY <3>4, <4>1, <4>3 DEF Recheck
          <5>2. next \in Shards /\ next + 1 \in 0 .. ShardCount /\ ShardCount \in 0 .. ShardCount
            BY <3>1, <4>1 DEF Shards
          <5>3. Untagged(next)' => Untagged(next)
            <6>1. \A s \in Shards : s >= next => s = next \/ s >= next + 1
              BY <3>1 DEF Shards
            <6> QED  BY <4>1, <4>3, <5>1, <6>1 DEF Untagged
          <5>4. p[next+1] = p[next] + ref_count(counter[next])
            BY <1>1, <5>2 DEF Books, IsPrefix
          <5>5. ref_count(counter[next]) \in Int /\ p[next] \in Int /\ p[ShardCount] \in Int
            BY <1>1, <3>1, <5>2, CounterTypes DEF Prefix
          <5>6. Expected(p)' = Expected(p)
            BY <3>1, <5>1, <5>4, <5>5 DEF Expected
          <5> QED  BY <3>2, <4>1, <5>1, <5>3, <5>6 DEF NeverZero
        <4> QED  BY <4>2, <4>3
      <3>5. CASE RecheckEnd
        <4>1. cpc = "recheck" /\ next = ShardCount /\ backRef' = backRef
          BY <3>5 DEF RecheckEnd
        <4>2. Untagged(next)
          BY <3>1, <4>1 DEF Untagged, Shards
        <4>3. p[ShardCount] \in Int
          BY <3>1 DEF Prefix
        <4>4. sum > 0
          BY <3>1, <3>2, <4>1, <4>2, <4>3 DEF Expected
        <4>5. cpc' = "idle"
          BY <3>1, <3>5, <4>4 DEF RecheckEnd
        <4> QED  BY <3>2, <4>1, <4>5 DEF NeverZero
      <3>6. CASE ~ (StartUpdate \/ Recheck \/ RecheckEnd)
        <4>1. backRef' = backRef /\ cpc' \notin {"clearWeak", "recheck"}
          BY <1>4, <3>2, <3>6
             DEF CollectorStep, BeginIteration, SpinFirstPass, SpinWait, PreScan, PreScanEnd,
                 ClearTags, ClearTagsEnd, ClearWeakBackRef, FreePointers
        <4> QED  BY <3>2, <4>1 DEF NeverZero
      <3> QED  BY <3>3, <3>4, <3>5, <3>6
    <2> QED  BY <1>2, <2>1, <2>2 DEF AliveInv, Inv
  <1>5. CASE \E t \in Threads : ThreadBegin(t) \/ ThreadContinue(t)
                             \/ EnterLoad(t) \/ EnterUpgrade(t) \/ Leave(t)
    <2>1. Keeps(p)
      BY <1>1, <1>5, HandleSteps, ReaderSteps, CellSteps DEF ThreadBegin, ThreadContinue
    <2>2. PICK q \in Prefix : Books(q)' /\ CounterEffect(p, q) /\ Effect
      BY <2>1 DEF Keeps
    <2>3. Knows(q)'
      BY <1>1, <1>2, <2>2, EffectKeepsKnows
    <2>4. NeverZero(q)'
      <3>1. cpc' = cpc /\ backRef' # "null"
        BY <1>1, <2>2 DEF Effect, NeverZero
      <3>2. ASSUME cpc = "recheck", Untagged(next)'
            PROVE  Expected(q)' > 0
        <4>1. /\ Untagged(next) /\ Expected(p) \in Int
              /\ Expected(q)' = Expected(p) \/ Expected(q)' = Expected(p) + 1
          BY <1>1, <2>2, <3>2, ExpectedNeverDrops
        <4> QED  BY <1>1, <3>2, <4>1 DEF NeverZero
      <3> QED  BY <1>1, <3>1, <3>2 DEF NeverZero
    <2> QED  BY <1>2, <2>2, <2>3, <2>4 DEF AliveInv, Inv
  <1> QED  BY <1>3, <1>4, <1>5 DEF Next

(* upgrade succeeds as long as the strong count never reaches zero: the    *)
(* collector, which reads the shards one by one while references move      *)
(* between them, never clears the back reference of such an object.        *)
THEOREM UpgradeNeverFailsWhileStrong ==
    ASSUME SingleCasWriter
    PROVE  Spec => UpgradeSucceedsWhileStrong
  <1>1. Init => AliveInv
    <2> SUFFICES ASSUME Init PROVE AliveInv
      OBVIOUS
    <2>1. PICK p \in Prefix : Inv(p)
      BY IndInvInit DEF IndInv
    <2>2. NeverZero(p)
      BY DEF Init, NeverZero
    <2> QED  BY <2>1, <2>2 DEF AliveInv
  <1>2. AliveInv /\ (tracked = "Unborn" \/ Strong > 0) /\ [Next]_vars => AliveInv'
    BY AliveInvStep DEF Alive
  <1>3. AliveInv => backRef # "null"
    BY DEF AliveInv, NeverZero
  <1> QED  BY <1>1, <1>2, <1>3, PTL DEF Spec, UpgradeSucceedsWhileStrong

-----------------------------------------------------------------------------
(* Sdarc implements DeferredArc: every step of the threads and of the      *)
(* collector, seen through Life, Refs and Weak, is a step of the abstract  *)
(* object or changes nothing.                                              *)

(* What Refs adds up, and the bounds that the invariant gives. *)
LEMMA RefsFacts ==
    ASSUME IndInv
    PROVE  /\ TypeOK /\ CasBorrows /\ FreeInv /\ Control
           /\ Cardinality(cells) \in Nat /\ handles \in Nat
           /\ Cardinality(At({"storing", "casSame"})) \in Nat
           /\ Cardinality(At({"loaded"})) \in Nat
           /\ Refs \in Nat
           /\ handles > 0 \/ cells # {} \/ At({"storing", "loaded"}) # {} =>
                Refs > 0 /\ Life = "allocated"
           /\ Dead => Refs = 0
  <1>1. PICK p \in Prefix : TypeOK /\ Books(p) /\ Knows(p)
    BY DEF IndInv, Inv
  <1>2. TypeOK /\ CasBorrows /\ FreeInv /\ Control
    BY <1>1 DEF Books, Knows
  <1>3. /\ Cardinality(cells) \in Nat /\ handles \in Nat
        /\ Cardinality(At({"storing", "casSame"})) \in Nat
        /\ Cardinality(At({"loaded"})) \in Nat
        /\ Cardinality(cells) = 0 <=> cells = {}
        /\ Cardinality(At({"storing", "casSame"})) = 0 <=> At({"storing", "casSame"}) = {}
        /\ Cardinality(At({"loaded"})) = 0 <=> At({"loaded"}) = {}
    BY <1>2, Sizes DEF TypeOK
  <1>4. Refs \in Nat
    BY <1>3 DEF Refs, Strong
  <1>5. At({"storing", "loaded"}) # {} =>
          At({"storing", "casSame"}) # {} \/ At({"loaded"}) # {}
    BY DEF At
  <1>6. ASSUME handles > 0 \/ cells # {} \/ At({"storing", "loaded"}) # {}
        PROVE  Refs > 0 /\ Life = "allocated"
    <2>1. Refs > 0
      BY <1>3, <1>5, <1>6, SMTT(30) DEF Refs, Strong
    <2>2. ~ Dead
      BY <1>3, <1>6 DEF Dead, At
    <2>3. tracked \notin {"Unborn", "Freed"}
      BY <1>2, <2>2 DEF FreeInv
    <2> QED  BY <2>1, <2>3 DEF Life
  <1>7. ASSUME Dead PROVE Refs = 0
    <2>1. At({"casSet", "casSame"}) = {}
      BY <1>2, <1>7 DEF CasBorrows, Dead
    <2>2. At({"storing", "casSame"}) = {} /\ At({"loaded"}) = {}
      BY <1>7, <2>1 DEF Dead, At
    <2> QED  BY <1>3, <1>7, <2>2 DEF Refs, Strong, Dead
  <1> QED  BY <1>2, <1>3, <1>4, <1>6, <1>7

(* The four ways in which a step of a thread shows in the abstract object. *)
AbsSame == UNCHANGED <<Life, Refs, Weak>>
AbsMore == Refs' = Refs + 1 /\ UNCHANGED <<Life, Weak>>
AbsLess == Refs' = Refs - 1 /\ UNCHANGED <<Life, Weak>>

LEMMA AbsStep ==
    ASSUME IndInv,
           \/ AbsSame
           \/ AbsMore /\ Life = "allocated" /\ (Refs > 0 \/ Weak = "live")
           \/ AbsLess /\ Refs > 0
    PROVE  [Abstract!Next]_Abstract!vars
  <1>1. CASE AbsSame
    BY <1>1 DEF AbsSame, Abstract!vars
  <1>2. CASE AbsMore /\ Life = "allocated" /\ Refs > 0
    BY <1>2 DEF AbsMore, Abstract!Next, Abstract!Acquire
  <1>3. CASE AbsMore /\ Life = "allocated" /\ Weak = "live"
    BY <1>3 DEF AbsMore, Abstract!Next, Abstract!Upgrade
  <1>4. CASE AbsLess /\ Refs > 0
    BY <1>4 DEF AbsLess, Abstract!Next, Abstract!Release
  <1> QED  BY <1>1, <1>2, <1>3, <1>4

LEMMA HandleRefines ==
    ASSUME IndInv, NEW t \in Threads,
           New(t) \/ Clone(t) \/ Drop(t) \/ DropNotify(t) \/ Downgrade(t)
             \/ \E s \in Shards : SetShard(t, s)
    PROVE  [Abstract!Next]_Abstract!vars
  <1>1. CASE New(t)
    <2>1. Dead /\ Refs = 0
      BY <1>1, RefsFacts DEF New, FreeInv
    <2>2. Refs' = Refs + 1
      BY <1>1, RefsFacts, NobodyMoves DEF New, Refs, Strong
    <2>3. Life = "unborn" /\ Life' = "allocated" /\ Weak' = Weak
      BY <1>1 DEF New, Life, Weak
    <2> QED  BY <2>1, <2>2, <2>3 DEF Abstract!Next, Abstract!New
  <1>2. CASE Clone(t)
    <2>1. AbsMore
      BY <1>2, RefsFacts, NobodyMoves DEF Clone, AbsMore, Refs, Strong, Life, Weak, collectorVars
    <2>2. Refs > 0 /\ Life = "allocated"
      BY <1>2, RefsFacts DEF Clone
    <2> QED  BY <2>1, <2>2, AbsStep
  <1>3. CASE Drop(t)
    <2>1. /\ At({"storing", "casSame"})' = At({"storing", "casSame"})
          /\ At({"loaded"})' = At({"loaded"})
      BY <1>3, RefsFacts, AtMove DEF Drop, PC
    <2>2. AbsLess
      BY <1>3, <2>1, RefsFacts DEF Drop, AbsLess, Refs, Strong, Life, Weak, collectorVars
    <2>3. handles > 0
      BY <1>3, RefsFacts DEF Drop, Borrowed
    <2> QED  BY <2>2, <2>3, RefsFacts, AbsStep
  <1>4. CASE DropNotify(t)
    <2>1. /\ At({"storing", "casSame"})' = At({"storing", "casSame"})
          /\ At({"loaded"})' = At({"loaded"})
      BY <1>4, RefsFacts, AtMove DEF DropNotify, PC
    <2>2. AbsSame
      BY <1>4, <2>1 DEF DropNotify, AbsSame, Refs, Strong, Life, Weak, collectorVars
    <2> QED  BY <2>2, AbsStep
  <1>5. CASE Downgrade(t)
    <2>1. Refs' = Refs /\ Life' = Life
      BY <1>5, NobodyMoves DEF Downgrade, Refs, Strong, Life, collectorVars, threadVars
    <2>2. Weak = "none" /\ Weak' = "live"
      BY <1>5 DEF Downgrade, Weak
    <2>3. Refs > 0
      BY <1>5, RefsFacts DEF Downgrade
    <2> QED  BY <2>1, <2>2, <2>3 DEF Abstract!Next, Abstract!Downgrade
  <1>6. ASSUME NEW s \in Shards, SetShard(t, s)
        PROVE  [Abstract!Next]_Abstract!vars
    <2>1. AbsSame
      BY <1>6, NobodyMoves DEF SetShard, AbsSame, Refs, Strong, Life, Weak, collectorVars
    <2> QED  BY <2>1, AbsStep
  <1> QED  BY <1>1, <1>2, <1>3, <1>4, <1>5, <1>6

LEMMA ReaderRefines ==
    ASSUME IndInv, NEW t \in Threads,
           EnterLoad(t) \/ EnterUpgrade(t) \/ Leave(t) \/ LoadBackRef(t)
             \/ (\E c \in Cells : LoadPtr(t, c)) \/ IncrementLoaded(t)
    PROVE  [Abstract!Next]_Abstract!vars
  <1>1. ASSUME NEW v \in {"loadEntered", "upgradeEntered", "leaving", "idle"},
               pc[t] \in {"loadEntered", "upgradeEntered", "leaving", "idle"}, Goto(t, v),
               UNCHANGED <<tracked, handles, cells, backRef>>
        PROVE  [Abstract!Next]_Abstract!vars
    <2>1. v \in PC
      BY DEF PC
    <2>2. /\ At({"storing", "casSame"})' = At({"storing", "casSame"})
          /\ At({"loaded"})' = At({"loaded"})
      BY <1>1, <2>1, RefsFacts, AtMove
    <2>3. AbsSame
      BY <1>1, <2>2 DEF AbsSame, Refs, Strong, Life, Weak
    <2> QED  BY <2>3, AbsStep
  <1>2. ASSUME pc[t] \in {"loadEntered", "upgradeEntered"}, Goto(t, "loaded"),
               backRef = "set" \/ cells # {},
               UNCHANGED <<tracked, handles, cells, backRef>>
        PROVE  [Abstract!Next]_Abstract!vars
    <2>1. /\ At({"storing", "casSame"})' = At({"storing", "casSame"})
          /\ Cardinality(At({"loaded"})') = Cardinality(At({"loaded"})) + 1
      BY <1>2, RefsFacts, AtMove DEF PC
    <2>2. AbsMore
      BY <1>2, <2>1, RefsFacts DEF AbsMore, Refs, Strong, Life, Weak
    <2>3. Life = "allocated" /\ (Refs > 0 \/ Weak = "live")
      BY <1>2, RefsFacts DEF Life, Weak, FreeInv
    <2> QED  BY <2>2, <2>3, AbsStep
  <1>3. CASE EnterLoad(t) \/ EnterUpgrade(t)
    BY <1>1, <1>3 DEF EnterLoad, EnterUpgrade, Enter, collectorVars
  <1>4. CASE Leave(t)
    BY <1>1, <1>4 DEF Leave, collectorVars
  <1>5. CASE LoadBackRef(t)
    BY <1>1, <1>2, <1>5 DEF LoadBackRef, collectorVars
  <1>6. CASE \E c \in Cells : LoadPtr(t, c)
    BY <1>1, <1>2, <1>6 DEF LoadPtr, collectorVars
  <1>7. CASE IncrementLoaded(t)
    <2>1. /\ At({"storing", "casSame"})' = At({"storing", "casSame"})
          /\ Cardinality(At({"loaded"})') = Cardinality(At({"loaded"})) - 1
      BY <1>7, RefsFacts, AtMove DEF IncrementLoaded, PC
    <2>2. AbsSame
      BY <1>7, <2>1, RefsFacts
         DEF IncrementLoaded, AbsSame, Refs, Strong, Life, Weak, collectorVars
    <2> QED  BY <2>2, AbsStep
  <1> QED  BY <1>3, <1>4, <1>5, <1>6, <1>7

LEMMA CellRefines ==
    ASSUME IndInv, NEW t \in Threads,
           \/ \E c \in Cells, in \in BOOLEAN : Swap(t, c, in) \/ Store(t, c, in)
           \/ \E c \in Cells, matches, in \in BOOLEAN : CompareAndSet(t, c, matches, in)
           \/ StoreDropOld(t) \/ CasIncrement(t)
    PROVE  [Abstract!Next]_Abstract!vars
  <1>1. ASSUME NEW c \in Cells, NEW in \in BOOLEAN, Swap(t, c, in)
        PROVE  [Abstract!Next]_Abstract!vars
    <2>1. handles' + Cardinality(cells') = handles + Cardinality(cells)
      BY <1>1, RefsFacts, CellCount DEF Swap
    <2>2. /\ UNCHANGED <<At({"storing", "casSame"}), At({"loaded"})>>
          /\ handles' \in Nat /\ Cardinality(cells') \in Nat
      <3>1. TypeOK'
        BY <1>1, RefsFacts, ThreadType DEF ThreadBegin
      <3>2. Cardinality(cells') \in Nat
        BY <3>1, FS_Subset, FS_CardinalityType, SdarcAssumption DEF TypeOK
      <3> QED  BY <1>1, <3>1, <3>2, NobodyMoves DEF Swap, TypeOK
    <2>3. AbsSame
      BY <1>1, <2>1, <2>2, RefsFacts DEF Swap, AbsSame, Refs, Strong, Life, Weak, collectorVars
    <2> QED  BY <2>3, AbsStep
  <1>2. ASSUME NEW c \in Cells, NEW in \in BOOLEAN, Store(t, c, in)
        PROVE  [Abstract!Next]_Abstract!vars
    <2>1. /\ c \in cells =>
               Cardinality(At({"storing", "casSame"})')
                 = Cardinality(At({"storing", "casSame"})) + 1
          /\ c \notin cells => At({"storing", "casSame"})' = At({"storing", "casSame"})
          /\ At({"loaded"})' = At({"loaded"})
      BY <1>2, RefsFacts, AtMove DEF Store, PC
    <2>2. /\ in => handles' = handles - 1
          /\ ~in => handles' = handles
          /\ in \/ c \in cells
      BY <1>2, RefsFacts DEF Store
    <2>3. /\ (c \in cells <=> in) => cells' = cells
          /\ c \notin cells /\ in => Cardinality(cells') = Cardinality(cells) + 1
          /\ c \in cells /\ ~in => Cardinality(cells') = Cardinality(cells) - 1
      BY <1>2, RefsFacts, CellCount DEF Store
    <2>4. Refs' = Refs
      BY <2>1, <2>2, <2>3, RefsFacts DEF Refs, Strong
    <2>5. AbsSame
      BY <1>2, <2>4 DEF Store, AbsSame, Life, Weak, collectorVars
    <2> QED  BY <2>5, AbsStep
  <1>3. CASE StoreDropOld(t)
    <2>1. /\ Cardinality(At({"storing", "casSame"})')
               = Cardinality(At({"storing", "casSame"})) - 1
          /\ At({"loaded"})' = At({"loaded"})
      BY <1>3, RefsFacts, AtMove DEF StoreDropOld, PC
    <2>2. AbsLess
      BY <1>3, <2>1, RefsFacts
         DEF StoreDropOld, AbsLess, Refs, Strong, Life, Weak, collectorVars
    <2>3. At({"storing", "loaded"}) # {}
      BY <1>3 DEF StoreDropOld, At
    <2> QED  BY <2>2, <2>3, RefsFacts, AbsStep
  <1>4. ASSUME NEW c \in Cells, NEW matches \in BOOLEAN, NEW in \in BOOLEAN,
               CompareAndSet(t, c, matches, in)
        PROVE  [Abstract!Next]_Abstract!vars
    <2>1. /\ in /\ matches =>
               Cardinality(At({"storing", "casSame"})')
                 = Cardinality(At({"storing", "casSame"})) + 1
          /\ ~ (in /\ matches) => At({"storing", "casSame"})' = At({"storing", "casSame"})
          /\ At({"loaded"})' = At({"loaded"})
      BY <1>4, RefsFacts, AtMove DEF CompareAndSet, PC
    <2>2. /\ in => handles' = handles
          /\ ~in => handles' = handles + 1
          /\ handles > 0 /\ (matches \/ in) /\ (matches <=> c \in cells)
      BY <1>4 DEF CompareAndSet
    <2>3. /\ (c \in cells <=> in) => cells' = cells
          /\ c \notin cells /\ in => Cardinality(cells') = Cardinality(cells) + 1
          /\ c \in cells /\ ~in => Cardinality(cells') = Cardinality(cells) - 1
      BY <1>4, RefsFacts, CellCount DEF CompareAndSet
    <2>4. IF in THEN Refs' = Refs + 1 ELSE Refs' = Refs
      BY <2>1, <2>2, <2>3, RefsFacts DEF Refs, Strong
    <2>5. UNCHANGED <<Life, Weak>>
      BY <1>4 DEF CompareAndSet, Life, Weak, collectorVars
    <2>6. Refs > 0 /\ Life = "allocated"
      BY <2>2, RefsFacts
    <2> QED  BY <2>4, <2>5, <2>6, AbsStep DEF AbsMore, AbsSame
  <1>5. CASE CasIncrement(t)
    <2>1. /\ pc[t] = "casSame" =>
               Cardinality(At({"storing", "casSame"})')
                 = Cardinality(At({"storing", "casSame"})) - 1
          /\ pc[t] = "casSet" => At({"storing", "casSame"})' = At({"storing", "casSame"})
          /\ At({"loaded"})' = At({"loaded"})
      BY <1>5, RefsFacts, AtMove DEF CasIncrement, PC
    <2>2. AbsSame
      BY <1>5, <2>1, RefsFacts
         DEF CasIncrement, AbsSame, Refs, Strong, Life, Weak, collectorVars
    <2> QED  BY <2>2, AbsStep
  <1> QED  BY <1>1, <1>2, <1>3, <1>4, <1>5

LEMMA CollectorRefines ==
    ASSUME IndInv, CollectorStep
    PROVE  [Abstract!Next]_Abstract!vars
  <1>1. UNCHANGED threadVars
    BY DEF CollectorStep, BeginIteration, SpinFirstPass, SpinWait, StartUpdate, PreScan,
           PreScanEnd, ClearTags, ClearTagsEnd, Recheck, RecheckEnd, ClearWeakBackRef,
           FreePointers
  <1>2. Refs' = Refs
    BY <1>1, NobodyMoves DEF threadVars, Refs, Strong
  <1>3. CASE FreePointers
    <2>1. tracked = "ReadyToFree" /\ tracked' = "Freed" /\ backRef' = backRef
      BY <1>3, RefsFacts DEF FreePointers, Control
    <2>2. Refs = 0 /\ Weak # "live"
      BY <2>1, RefsFacts DEF FreeInv, Weak
    <2> QED  BY <1>2, <2>1, <2>2 DEF Life, Weak, Abstract!Next, Abstract!Free
  <1>4. CASE ClearWeakBackRef
    <2>1. Life' = Life
      BY <1>4, RefsFacts DEF ClearWeakBackRef, Control, Life
    <2>2. CASE backRef = "set"
      BY <1>2, <1>4, <2>1, <2>2
         DEF ClearWeakBackRef, Weak, Abstract!Next, Abstract!ClearWeak
    <2>3. CASE backRef # "set"
      BY <1>2, <1>4, <2>1, <2>3 DEF ClearWeakBackRef, Weak, Abstract!vars
    <2> QED  BY <2>2, <2>3
  <1>5. CASE ~ FreePointers /\ ~ ClearWeakBackRef
    <2>1. UNCHANGED backRef
      BY <1>5 DEF CollectorStep, BeginIteration, SpinFirstPass, SpinWait, StartUpdate,
             PreScan, PreScanEnd, ClearTags, ClearTagsEnd, Recheck, RecheckEnd
    <2>2. UNCHANGED tracked
            \/ {tracked, tracked'} \subseteq {"Pending", "DefaultState", "RequiresReChecking"}
      BY <1>5, RefsFacts
         DEF CollectorStep, BeginIteration, SpinFirstPass, SpinWait, StartUpdate, PreScan,
             PreScanEnd, ClearTags, ClearTagsEnd, Recheck, RecheckEnd, Control
    <2> QED  BY <1>2, <2>1, <2>2, AbsStep DEF AbsSame, Life, Weak
  <1> QED  BY <1>3, <1>4, <1>5

(* Sdarc implements DeferredArc: whatever the threads and the collector    *)
(* do, the object is only acquired through a reference or a live weak      *)
(* link, and only freed when neither is left.                              *)
THEOREM Refinement ==
    ASSUME SingleCasWriter
    PROVE  Spec => ImplementsDeferredArc
  <1>1. Init => Abstract!Init
    <2> SUFFICES ASSUME Init PROVE Abstract!Init
      OBVIOUS
    <2>1. IndInv /\ Dead
      <3>1. IndInv
        BY IndInvInit
      <3> QED  BY <3>1, RefsFacts DEF Init, FreeInv
    <2> QED  BY <2>1, RefsFacts DEF Init, Abstract!Init, Life, Weak
  <1>2. IndInv /\ [Next]_vars => [Abstract!Next]_Abstract!vars
    <2> SUFFICES ASSUME IndInv, [Next]_vars PROVE [Abstract!Next]_Abstract!vars
      OBVIOUS
    <2>1. CASE UNCHANGED vars
      <3>1. AbsSame
        BY <2>1, NobodyMoves DEF vars, AbsSame, Refs, Strong, Life, Weak
      <3> QED  BY <3>1, AbsStep
    <2>2. CASE CollectorStep
      BY <2>2, CollectorRefines
    <2>3. CASE \E t \in Threads : ThreadBegin(t) \/ ThreadContinue(t)
                               \/ EnterLoad(t) \/ EnterUpgrade(t) \/ Leave(t)
      BY <2>3, HandleRefines, ReaderRefines, CellRefines DEF ThreadBegin, ThreadContinue
    <2> QED  BY <2>1, <2>2, <2>3 DEF Next
  <1> QED  BY <1>1, <1>2, Invariance, PTL DEF Spec, Abstract!Spec, ImplementsDeferredArc
=============================================================================
