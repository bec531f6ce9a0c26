------------------------- MODULE ShardedAllocProofs -------------------------
(***************************************************************************)
(* Proofs about ShardedAlloc, for any number of threads, units, slots per  *)
(* unit and shards.                                                        *)
(***************************************************************************)
EXTENDS ShardedAlloc, FiniteSetTheorems, SequenceTheorems, TLAPS

UnitsOf(g) == RangeOf(group[g].units)
Grouped(u) == \E g \in Groups : u \in UnitsOf(g)
Distinct(q) == \A m, n \in 1 .. Len(q) : q[m] = q[n] => m = n

InAllocate(t) == th[t].pc \in {"choose", "scan", "init", "unwind"}
HasUnit(t) == th[t].pc \in {"scan", "init", "unwind"}

(* A thread inside allocate_and_init holds the mutex of its group. *)
LockInv == \A t \in Threads : InAllocate(t) => lock[th[t].s] = t

(* Where the units are: in one group, at one position, or new.  A thread   *)
(* that is in a unit of a group has locked that group, so the unit is not  *)
(* in the filling group.                                                   *)
PlaceInv ==
    /\ \A u \in Units :
          u \in live <=> Grouped(u) \/ \E t \in Threads : th[t].fresh /\ th[t].u = u
    /\ \A g \in Groups : Distinct(group[g].units)
    /\ \A g, h \in Groups : g # h => UnitsOf(g) \cap UnitsOf(h) = {}
    /\ \A t \in Threads :
          th[t].fresh => HasUnit(t) /\ th[t].u \in Units /\ ~Grouped(th[t].u)
    /\ \A t, r \in Threads : th[t].fresh /\ th[r].fresh /\ th[t].u = th[r].u => t = r
    /\ \A t \in Threads : HasUnit(t) /\ ~th[t].fresh => th[t].u \in UnitsOf(th[t].s)

(* Thread t has taken slot i of u and not yet made a box of it, or is      *)
(* about to reset its flag.                                                *)
Holds(t, u, i) == th[t].pc \in {"init", "dealloc"} /\ th[t].u = u /\ th[t].i = i

(* OneOwner, slot by slot. *)
OwnerInv ==
    /\ \A u \in live, i \in Slots :
          flag[u][i] = 1 <=> <<u, i>> \in boxes \/ \E t \in Threads : Holds(t, u, i)
    /\ \A t \in Threads, u \in Units, i \in Slots : Holds(t, u, i) => <<u, i>> \notin boxes
    /\ \A t, r \in Threads, u \in Units, i \in Slots :
          Holds(t, u, i) /\ Holds(r, u, i) => t = r

(* Slots are owned in live units, those of boxes and of threads that give  *)
(* one back in units of a group; the first slot of a new unit is free.     *)
SlotInv ==
    /\ \A t \in Threads : th[t].pc \in {"init", "dealloc"} => th[t].i \in Slots
    /\ \A t \in Threads : th[t].pc = "dealloc" => Grouped(th[t].u)
    /\ \A b \in boxes : Grouped(b[1])
    /\ \A t \in Threads : th[t].fresh /\ th[t].pc = "scan" => th[t].i = 0

(* The slots that hold a value for shard s. *)
Filled(u, i, s) ==
    \/ <<u, i>> \in boxes
    \/ \E t \in Threads : th[t].pc = "init" /\ Holds(t, u, i) /\ s < th[t].k

ValuesInv ==
    \A u \in Units, i \in Slots, s \in Shards :
       values[u][i][s] = IF Filled(u, i, s) THEN 1 ELSE 0

(* The indexes to check are positions below n, each at most once. *)
IndexesBelow(q, n) == Distinct(q) /\ \A m \in 1 .. Len(q) : q[m] < n

(* Indexes are stale in the filling group only while retain_mut works on   *)
(* it; afterwards they are rebuilt from the left.                          *)
IndexInv ==
    /\ \A g \in Groups : (g = Filling => co.pc # "retain") =>
          IndexesBelow(group[g].check, Len(group[g].units))
    /\ co.pc = "index" => IndexesBelow(group[Filling].check, co.p)

(* The position of the collector's scan.  The flags it has read as free    *)
(* are still free: no thread allocates from the filling group.             *)
ScanInv ==
    /\ co.pc \in {"out", "back"} => co.s \in Shards
    /\ co.pc \in {"retain", "index"} => co.p <= Len(group[Filling].units)
    /\ co.pc = "retain" /\ co.j > 0 =>
          /\ co.p < Len(group[Filling].units)
          /\ \A i \in Slots : i < co.j => flag[UnitAt(co.p)][i] = 0
    /\ co.pc = "index" => co.j \in Slots

(* How far the maintenance is with the units that had a free slot, or only *)
(* free slots, when it began.                                              *)
BackInv ==
    LET units == group[Filling].units IN
    co.pc \in {"retain", "index"} =>
       /\ \A u \in UnitsOf(Filling) :
             /\ u \in co.free => \E i \in Slots : flag[u][i] = 0
             /\ u \in co.idle => \A i \in Slots : flag[u][i] = 0
       /\ \A n \in 1 .. Len(units) :
             n <= co.p \/ co.pc = "index" => units[n] \notin co.idle
       /\ co.pc = "index" =>
             /\ \A n \in 1 .. Len(units) : n <= co.p /\ units[n] \in co.free =>
                   n - 1 \in RangeOf(group[Filling].check)
             /\ co.p < Len(units) /\ UnitAt(co.p) \in co.free =>
                   \E i \in Slots : i >= co.j /\ flag[UnitAt(co.p)][i] = 0

IInv ==
    /\ TypeOK /\ LockInv /\ PlaceInv /\ OwnerInv /\ SlotInv /\ ValuesInv
    /\ IndexInv /\ ScanInv /\ BackInv

-----------------------------------------------------------------------------
LEMMA ShardsAreGroups == /\ \A s \in Shards : s \in Groups /\ s # Filling
                         /\ Filling \in Groups /\ Filling \in Nat
  BY AllocAssumption DEF Shards, Groups, Filling

(* Facts about the unit a thread works in. *)
LEMMA UnitFacts ==
    ASSUME TypeOK, PlaceInv, SlotInv, NEW t \in Threads
    PROVE  /\ th[t].pc \in {"scan", "init", "unwind", "dealloc"} =>
                 th[t].u \in Units /\ th[t].u \in live
           /\ th[t].pc \in {"scan", "init", "unwind"} => th[t].u \notin UnitsOf(Filling)
           /\ th[t].pc \in {"init", "dealloc"} => th[t].i \in Slots
           /\ At(t, "scan") <=> th[t].pc = "scan"
           /\ At(t, "init") <=> th[t].pc = "init"
           /\ At(t, "dealloc") <=> th[t].pc = "dealloc"
<1>1. \A g \in Groups : UnitsOf(g) \subseteq Units
  BY DEF UnitsOf, RangeOf, TypeOK, GroupState
<1>2. th[t].s \in Groups /\ th[t].s # Filling /\ Filling \in Groups
  BY ShardsAreGroups DEF TypeOK, ThreadState
<1>3. th[t].pc \in {"scan", "init", "unwind", "dealloc"} =>
         th[t].u \in Units /\ th[t].u \in live
  BY <1>1, <1>2 DEF PlaceInv, SlotInv, HasUnit, Grouped
<1>4. th[t].pc \in {"scan", "init", "unwind"} => th[t].u \notin UnitsOf(Filling)
  BY <1>2 DEF PlaceInv, HasUnit, Grouped
<1>5. QED
  BY <1>3, <1>4 DEF SlotInv, At

(* What a step does to the record of one thread, and to one flag. *)

LEMMA IdleState == Idle \in ThreadState
  BY AllocAssumption DEF Idle, ThreadState, Shards

LEMMA Zeros == 0 \in 0 .. SlotCount /\ 0 \in 0 .. ShardCount /\ 0 \in Slots /\ 0 \in Shards
  BY AllocAssumption DEF Slots, Shards

LEMMA ThreadMoves ==
    ASSUME TypeOK, NEW t \in Threads, NEW r \in ThreadState, Become(t, r)
    PROVE  /\ th' \in [Threads -> ThreadState]
           /\ th'[t] = r
           /\ \A x \in Threads \ {t} : th'[x] = th[x]
  BY DEF TypeOK, Become

LEMMA FlagMoves ==
    ASSUME TypeOK, NEW u \in Units, NEW i \in Slots, NEW v \in 0 .. 1,
           flag' = [flag EXCEPT ![u][i] = v]
    PROVE  /\ flag' \in [Units -> [Slots -> 0 .. 1]]
           /\ flag'[u][i] = v
           /\ \A x \in Units, y \in Slots : <<x, y>> # <<u, i>> => flag'[x][y] = flag[x][y]
  BY DEF TypeOK

LEMMA LockMoves ==
    ASSUME TypeOK, NEW s \in Shards, NEW o \in Threads \cup {NoOne},
           lock' = [lock EXCEPT ![s] = o]
    PROVE  /\ lock' \in [Shards -> Threads \cup {NoOne}]
           /\ lock'[s] = o
           /\ \A r \in Shards \ {s} : lock'[r] = lock[r]
  BY DEF TypeOK

LEMMA ValuesMove ==
    ASSUME TypeOK, NEW u \in Units, NEW i \in Slots, NEW S, NEW d \in Int,
           AddValues(u, i, S, d)
    PROVE  /\ values' \in [Units -> [Slots -> [Shards -> Int]]]
           /\ \A s \in Shards : values'[u][i][s] = values[u][i][s] + IF s \in S THEN d ELSE 0
           /\ \A x \in Units, y \in Slots :
                 <<x, y>> # <<u, i>> => values'[x][y] = values[x][y]
  BY DEF TypeOK, AddValues

LEMMA LockEffect ==
    ASSUME TypeOK, NEW t \in Threads, Lock(t)
    PROVE  /\ th[t].pc = "idle" /\ shardOf[t] \in Shards /\ lock[shardOf[t]] = NoOne
           /\ th' \in [Threads -> ThreadState]
           /\ th'[t].pc = "choose" /\ th'[t].s = shardOf[t] /\ ~th'[t].fresh
           /\ \A x \in Threads \ {t} : th'[x] = th[x]
           /\ lock' \in [Shards -> Threads \cup {NoOne}]
           /\ lock'[shardOf[t]] = t
           /\ \A r \in Shards \ {shardOf[t]} : lock'[r] = lock[r]
           /\ UNCHANGED <<live, flag, values, group, boxes, shardOf, co>>
<1>1. shardOf[t] \in Shards
  BY DEF TypeOK
<1> DEFINE r == [Idle EXCEPT !.pc = "choose", !.s = shardOf[t]]
<1>2. r \in ThreadState
  BY <1>1, IdleState DEF ThreadState
<1>3. r.pc = "choose" /\ r.s = shardOf[t] /\ ~r.fresh
  BY DEF Idle
<1> HIDE DEF r
<1>4. Become(t, r) /\ lock' = [lock EXCEPT ![shardOf[t]] = t]
  BY DEF Lock, r
<1>5. QED
  BY <1>1, <1>2, <1>3, <1>4, ThreadMoves, LockMoves DEF Lock, At

LEMMA NewUnitEffect ==
    ASSUME TypeOK, NEW t \in Threads, NEW u \in Units, NewUnit(t, u)
    PROVE  /\ th[t].pc = "choose" /\ u \notin live
           /\ th' \in [Threads -> ThreadState]
           /\ th'[t].pc = "scan" /\ th'[t].s = th[t].s /\ th'[t].u = u
           /\ th'[t].i = 0 /\ th'[t].fresh
           /\ \A x \in Threads \ {t} : th'[x] = th[x]
           /\ live' = live \cup {u}
           /\ flag' \in [Units -> [Slots -> 0 .. 1]]
           /\ \A i \in Slots : flag'[u][i] = 0
           /\ \A x \in Units \ {u} : flag'[x] = flag[x]
           /\ UNCHANGED <<values, group, lock, boxes, shardOf, co>>
<1> DEFINE r == [th[t] EXCEPT !.pc = "scan", !.u = u, !.i = 0, !.fresh = TRUE]
<1>1. th[t] \in ThreadState
  BY DEF TypeOK
<1>2. r \in ThreadState
  BY <1>1, Zeros DEF ThreadState
<1>3. r.pc = "scan" /\ r.s = th[t].s /\ r.u = u /\ r.i = 0 /\ r.fresh
  BY <1>1 DEF ThreadState
<1> HIDE DEF r
<1>4. Become(t, r)
  BY DEF NewUnit, r
<1>5. /\ flag' \in [Units -> [Slots -> 0 .. 1]]
      /\ \A i \in Slots : flag'[u][i] = 0
      /\ \A x \in Units \ {u} : flag'[x] = flag[x]
  BY DEF NewUnit, TypeOK
<1>6. QED
  BY <1>2, <1>3, <1>4, <1>5, ThreadMoves DEF NewUnit, At

LEMMA NoMemoryEffect ==
    ASSUME TypeOK, NEW t \in Threads, NoMemory(t)
    PROVE  /\ th[t].pc = "choose" /\ th[t].s \in Shards
           /\ th' \in [Threads -> ThreadState] /\ th'[t] = Idle
           /\ \A x \in Threads \ {t} : th'[x] = th[x]
           /\ lock' \in [Shards -> Threads \cup {NoOne}]
           /\ \A r \in Shards \ {th[t].s} : lock'[r] = lock[r]
           /\ UNCHANGED <<live, flag, values, group, boxes, shardOf, co>>
<1>1. th[t].s \in Shards
  BY DEF TypeOK, ThreadState
<1>2. QED
  BY <1>1, IdleState, ThreadMoves, LockMoves DEF NoMemory, At

LEMMA PickUnitEffect ==
    ASSUME TypeOK, IndexInv, NEW t \in Threads, PickUnit(t)
    PROVE  /\ th[t].pc = "choose"
           /\ th' \in [Threads -> ThreadState]
           /\ th'[t].pc = "scan" /\ th'[t].s = th[t].s /\ th'[t].fresh = th[t].fresh
           /\ th'[t].u \in UnitsOf(th[t].s)
           /\ \A x \in Threads \ {t} : th'[x] = th[x]
           /\ UNCHANGED <<live, flag, values, group, lock, boxes, shardOf, co>>
<1> DEFINE g == group[th[t].s]
           u == g.units[g.check[1] + 1]
           r == [th[t] EXCEPT !.pc = "scan", !.u = u, !.i = 0]
<1>1. th[t] \in ThreadState /\ th[t].s \in Shards
  BY DEF TypeOK, ThreadState
<1>2. th[t].s \in Groups /\ th[t].s # Filling
  BY <1>1, AllocAssumption DEF Groups, Shards, Filling
<1>3. g.units \in Seq(Units) /\ g.check \in Seq(Nat)
  BY <1>2 DEF TypeOK, GroupState
<1>4. g.check # <<>>
  BY DEF PickUnit
<1>5. 1 \in 1 .. Len(g.check) /\ g.check[1] \in Nat
  BY <1>3, <1>4
<1>6. g.check[1] < Len(g.units)
  BY <1>2, <1>5 DEF IndexInv, IndexesBelow
<1>7. Len(g.units) \in Nat
  BY <1>3
<1>8. u \in UnitsOf(th[t].s) /\ u \in Units
  <2>1. g.check[1] + 1 \in 1 .. Len(g.units)
    BY <1>5, <1>6, <1>7, SMTT(60)
  <2>2. u \in Units
    BY <1>3, <2>1
  <2>3. QED
    BY <2>1, <2>2 DEF UnitsOf, RangeOf
<1> HIDE DEF u
<1>9. r \in ThreadState
  BY <1>1, <1>8, Zeros DEF ThreadState
<1>10. r.pc = "scan" /\ r.s = th[t].s /\ r.u = u /\ r.fresh = th[t].fresh
  BY <1>1 DEF ThreadState
<1> HIDE DEF r
<1>11. Become(t, r)
  BY DEF PickUnit, r, u
<1>12. QED
  BY <1>8, <1>9, <1>10, <1>11, ThreadMoves DEF PickUnit, At

LEMMA SwapFlagEffect ==
    ASSUME TypeOK, PlaceInv, SlotInv, NEW t \in Threads, SwapFlag(t)
    PROVE  /\ th[t].pc = "scan" /\ th[t].u \in Units /\ th[t].i \in Slots
           /\ th' \in [Threads -> ThreadState]
           /\ th'[t].s = th[t].s /\ th'[t].u = th[t].u /\ th'[t].fresh = th[t].fresh
           /\ flag[th[t].u][th[t].i] = 0 =>
                th'[t].pc = "init" /\ th'[t].i = th[t].i /\ th'[t].k = 0
           /\ flag[th[t].u][th[t].i] # 0 => th'[t].pc = "scan"
           /\ \A x \in Threads \ {t} : th'[x] = th[x]
           /\ flag' \in [Units -> [Slots -> 0 .. 1]]
           /\ flag'[th[t].u][th[t].i] = 1
           /\ \A x \in Units, y \in Slots :
                 <<x, y>> # <<th[t].u, th[t].i>> => flag'[x][y] = flag[x][y]
           /\ UNCHANGED <<live, values, group, lock, boxes, shardOf, co>>
<1>0. th[t].u \in Units
  BY UnitFacts DEF SwapFlag
<1>1. th[t] \in ThreadState
  BY DEF TypeOK
<1>2. th[t].i \in Slots /\ th[t].i + 1 \in 0 .. SlotCount
  BY <1>1, AllocAssumption DEF SwapFlag, ThreadState, Slots
<1> DEFINE a == [th[t] EXCEPT !.pc = "init", !.k = 0]
           b == [th[t] EXCEPT !.i = th[t].i + 1]
           r == IF flag[th[t].u][th[t].i] = 0 THEN a ELSE b
<1>3. /\ a \in ThreadState
      /\ a.pc = "init" /\ a.s = th[t].s /\ a.u = th[t].u /\ a.fresh = th[t].fresh
      /\ a.i = th[t].i /\ a.k = 0
  BY <1>1, Zeros DEF ThreadState
<1>4. /\ b \in ThreadState
      /\ b.pc = th[t].pc /\ b.s = th[t].s /\ b.u = th[t].u /\ b.fresh = th[t].fresh
  BY <1>1, <1>2 DEF ThreadState
<1> HIDE DEF a, b
<1>5. Become(t, r) /\ r \in ThreadState
  BY <1>3, <1>4 DEF SwapFlag, a, b
<1>6. /\ th' \in [Threads -> ThreadState] /\ th'[t] = r
      /\ \A x \in Threads \ {t} : th'[x] = th[x]
  BY <1>5, ThreadMoves
<1>7. /\ flag' \in [Units -> [Slots -> 0 .. 1]]
      /\ flag'[th[t].u][th[t].i] = 1
      /\ \A x \in Units, y \in Slots :
            <<x, y>> # <<th[t].u, th[t].i>> => flag'[x][y] = flag[x][y]
  <2>1. flag' = [flag EXCEPT ![th[t].u][th[t].i] = 1] /\ 1 \in 0 .. 1
    BY DEF SwapFlag
  <2>2. QED
    BY <1>0, <1>2, <2>1, FlagMoves, ZenonT(60)
<1>8. QED
  BY <1>0, <1>2, <1>3, <1>4, <1>6, <1>7 DEF SwapFlag, At

LEMMA SeqFromFunction ==
    ASSUME NEW S, NEW n \in Nat, NEW q \in [1 .. n -> S]
    PROVE  q \in Seq(S) /\ Len(q) = n /\ DOMAIN q = 1 .. n
  OBVIOUS

(* swap_remove(0) keeps the elements other than the first, each once. *)
LEMMA SwapRemove ==
    ASSUME NEW q \in Seq(Nat)
    PROVE  /\ SwapRemoveFirst(q) \in Seq(Nat)
           /\ \A n \in Nat : IndexesBelow(q, n) => IndexesBelow(SwapRemoveFirst(q), n)
<1> DEFINE l == Len(q)
           w == SwapRemoveFirst(q)
<1>1. l \in Nat /\ \A n \in 1 .. l : q[n] \in Nat
  OBVIOUS
<1>2. CASE l = 0
  <2>1. 1 .. l - 1 = {} /\ 1 .. 0 = {}
    BY <1>2
  <2>2. w \in [1 .. 0 -> Nat]
    BY <2>1 DEF SwapRemoveFirst
  <2>3. w \in Seq(Nat) /\ Len(w) = 0
    BY <2>2, SeqFromFunction
  <2>4. QED
    BY <2>3 DEF IndexesBelow, Distinct
<1>3. CASE l # 0
  <2>1. l - 1 \in Nat /\ l \in 1 .. l
    BY <1>1, <1>3
  <2>2. w \in [1 .. l - 1 -> Nat]
    BY <1>1, <2>1 DEF SwapRemoveFirst
  <2>3. w \in Seq(Nat) /\ Len(w) = l - 1
    BY <2>1, <2>2, SeqFromFunction
  <2>4. \A n \in 1 .. l - 1 : w[n] = q[IF n = 1 THEN l ELSE n]
    BY <2>1 DEF SwapRemoveFirst
  <2> HIDE DEF w
  <2>5. ASSUME NEW n \in Nat, IndexesBelow(q, n)
        PROVE  IndexesBelow(w, n)
    <3>1. ASSUME NEW a \in 1 .. l - 1
          PROVE  w[a] < n
      BY <1>1, <2>1, <2>4, <2>5 DEF IndexesBelow
    <3>2. ASSUME NEW a \in 1 .. l - 1, NEW b \in 1 .. l - 1, w[a] = w[b]
          PROVE  a = b
      <4> DEFINE c == IF a = 1 THEN l ELSE a
                 d == IF b = 1 THEN l ELSE b
      <4>1. c \in 1 .. l /\ d \in 1 .. l
        BY <1>1, <2>1
      <4>2. q[c] = q[d]
        BY <2>4, <3>2
      <4>3. c = d
        BY <2>5, <4>1, <4>2 DEF IndexesBelow, Distinct
      <4>4. QED
        BY <1>1, <4>3
    <3>3. QED
      BY <2>3, <3>1, <3>2 DEF IndexesBelow, Distinct
  <2>6. QED
    BY <2>3, <2>5 DEF w
<1>4. QED
  BY <1>2, <1>3

LEMMA WithCheck ==
    ASSUME NEW g \in GroupState, NEW c \in Seq(Nat)
    PROVE  /\ [g EXCEPT !.check = c] \in GroupState
           /\ [g EXCEPT !.check = c].units = g.units
           /\ [g EXCEPT !.check = c].check = c
  BY DEF GroupState

LEMMA WithUnits ==
    ASSUME NEW g \in GroupState, NEW q \in Seq(Units)
    PROVE  /\ [g EXCEPT !.units = q] \in GroupState
           /\ [g EXCEPT !.units = q].units = q
  BY DEF GroupState

(* retain_mut: one element goes, the later ones move up. *)
LEMMA RemoveAt ==
    ASSUME NEW q \in Seq(Units), NEW p \in Nat, p < Len(q)
    PROVE  LET w == SubSeq(q, 1, p) \o SubSeq(q, p + 2, Len(q)) IN
           /\ w \in Seq(Units) /\ Len(w) = Len(q) - 1
           /\ \A n \in 1 .. Len(w) : w[n] = q[IF n <= p THEN n ELSE n + 1]
<1> DEFINE a == SubSeq(q, 1, p)
           b == SubSeq(q, p + 2, Len(q))
           l == Len(q)
<1>1. l \in Nat
  OBVIOUS
<1>2. /\ a \in Seq(Units) /\ Len(a) = p
      /\ \A n \in 1 .. p : a[n] = q[n]
  BY <1>1
<1>3. b \in Seq(Units) /\ Len(b) = l - p - 1
  <2>1. \A n \in p + 2 .. l : n \in 1 .. l
    BY <1>1
  <2>2. b \in Seq(Units)
    BY <1>1, <2>1, SubSeqProperties
  <2>3. QED
    BY <1>1, <2>1, <2>2, SubSeqProperties
<1>4. \A n \in 1 .. l - p - 1 : b[n] = q[n + p + 1]
  <2>1. \A n \in p + 2 .. l : n \in 1 .. l
    BY <1>1
  <2>2. QED
    BY <1>1, <2>1, <1>3, SubSeqProperties
<1> HIDE DEF a, b
<1> DEFINE w == a \o b
<1>5. w \in Seq(Units) /\ Len(w) = l - 1
  BY <1>1, <1>2, <1>3, SMTT(60)
<1>6. ASSUME NEW n \in 1 .. l - 1
      PROVE  w[n] = q[IF n <= p THEN n ELSE n + 1]
  <2>1. CASE n <= p
    BY <1>1, <1>2, <1>3, <2>1
  <2>2. CASE n > p
    <3>1. n \in 1 .. Len(a) + Len(b) /\ n - p \in 1 .. l - p - 1 /\ ~(n <= p)
      BY <1>1, <1>2, <1>3, <2>2
    <3>2. w[n] = b[n - p]
      BY <1>2, <1>3, <3>1, ConcatProperties
    <3>3. b[n - p] = q[n - p + p + 1] /\ n - p + p + 1 = n + 1
      BY <1>1, <1>4, <3>1
    <3>4. QED
      BY <3>1, <3>2, <3>3
  <2>3. n <= p \/ n > p
    BY <1>1
  <2>4. QED
    BY <2>1, <2>2, <2>3
<1>7. QED
  BY <1>5, <1>6 DEF a, b

LEMMA GroupMoves ==
    ASSUME TypeOK, NEW g \in Groups, NEW r \in GroupState,
           group' = [group EXCEPT ![g] = r]
    PROVE  /\ group' \in [Groups -> GroupState]
           /\ group'[g] = r
           /\ \A h \in Groups \ {g} : group'[h] = group[h]
  BY DEF TypeOK

LEMMA ScanFailedEffect ==
    ASSUME TypeOK, NEW t \in Threads, ScanFailed(t)
    PROVE  /\ th[t].pc = "scan" /\ th[t].i = SlotCount /\ th[t].s \in Shards
           /\ th' \in [Threads -> ThreadState]
           /\ th'[t].pc = "choose" /\ th'[t].s = th[t].s /\ th'[t].fresh = th[t].fresh
           /\ \A x \in Threads \ {t} : th'[x] = th[x]
           /\ group' \in [Groups -> GroupState]
           /\ group'[th[t].s].units = group[th[t].s].units
           /\ group'[th[t].s].check = SwapRemoveFirst(group[th[t].s].check)
           /\ \A h \in Groups \ {th[t].s} : group'[h] = group[h]
           /\ UNCHANGED <<live, flag, values, lock, boxes, shardOf, co>>
<1>1. th[t] \in ThreadState /\ th[t].s \in Shards
  BY DEF TypeOK, ThreadState
<1> DEFINE r == [th[t] EXCEPT !.pc = "choose"]
           g == group[th[t].s]
           h == [g EXCEPT !.check = SwapRemoveFirst(g.check)]
<1>2. r \in ThreadState /\ r.pc = "choose" /\ r.s = th[t].s /\ r.fresh = th[t].fresh
  BY <1>1 DEF ThreadState
<1>3. g \in GroupState /\ g.check \in Seq(Nat)
  BY <1>1, ShardsAreGroups DEF TypeOK, GroupState
<1>4. SwapRemoveFirst(g.check) \in Seq(Nat)
  BY <1>3, SwapRemove
<1>5. h \in GroupState /\ h.units = g.units /\ h.check = SwapRemoveFirst(g.check)
  BY <1>3, <1>4 DEF GroupState
<1>6. Become(t, r) /\ group' = [group EXCEPT ![th[t].s] = h]
  BY DEF ScanFailed
<1> HIDE DEF r, h
<1>7. /\ group' \in [Groups -> GroupState]
      /\ group'[th[t].s] = h
      /\ \A x \in Groups \ {th[t].s} : group'[x] = group[x]
  BY <1>1, <1>5, <1>6, ShardsAreGroups, GroupMoves
<1>8. QED
  BY <1>1, <1>2, <1>5, <1>6, <1>7, ThreadMoves DEF ScanFailed, At

LEMMA InitShardEffect ==
    ASSUME TypeOK, PlaceInv, SlotInv, NEW t \in Threads, InitShard(t)
    PROVE  /\ th[t].u \in Units /\ th[t].i \in Slots
           /\ th[t].pc = "init" /\ th[t].k \in Shards
           /\ th' \in [Threads -> ThreadState]
           /\ th'[t].pc = "init" /\ th'[t].s = th[t].s /\ th'[t].u = th[t].u
           /\ th'[t].i = th[t].i /\ th'[t].fresh = th[t].fresh
           /\ th'[t].k = th[t].k + 1
           /\ \A x \in Threads \ {t} : th'[x] = th[x]
           /\ values' \in [Units -> [Slots -> [Shards -> Int]]]
           /\ \A s \in Shards : values'[th[t].u][th[t].i][s] =
                 values[th[t].u][th[t].i][s] + IF s \in {th[t].k} THEN 1 ELSE 0
           /\ \A x \in Units, y \in Slots :
                 <<x, y>> # <<th[t].u, th[t].i>> => values'[x][y] = values[x][y]
           /\ UNCHANGED <<live, flag, group, lock, boxes, shardOf, co>>
<1>0. th[t].u \in Units /\ th[t].i \in Slots
  BY UnitFacts DEF InitShard
<1>1. th[t] \in ThreadState
  BY DEF TypeOK
<1>2. th[t].k \in Shards /\ th[t].k + 1 \in 0 .. ShardCount
  BY <1>1, AllocAssumption DEF InitShard, MoreShards, ThreadState, Shards
<1> DEFINE r == [th[t] EXCEPT !.k = th[t].k + 1]
<1>3. /\ r \in ThreadState /\ r.pc = th[t].pc /\ r.s = th[t].s /\ r.u = th[t].u
      /\ r.i = th[t].i /\ r.fresh = th[t].fresh /\ r.k = th[t].k + 1
  BY <1>1, <1>2 DEF ThreadState
<1>4. Become(t, r) /\ AddValues(th[t].u, th[t].i, {th[t].k}, 1)
  BY DEF InitShard
<1> HIDE DEF r
<1>5. /\ values' \in [Units -> [Slots -> [Shards -> Int]]]
      /\ \A s \in Shards : values'[th[t].u][th[t].i][s] =
            values[th[t].u][th[t].i][s] + IF s \in {th[t].k} THEN 1 ELSE 0
      /\ \A x \in Units, y \in Slots :
            <<x, y>> # <<th[t].u, th[t].i>> => values'[x][y] = values[x][y]
  BY <1>4, <1>0, ValuesMove
<1>6. QED
  BY <1>0, <1>2, <1>3, <1>4, <1>5, ThreadMoves DEF InitShard, At

LEMMA InitPanicsEffect ==
    ASSUME TypeOK, PlaceInv, SlotInv, NEW t \in Threads, InitPanics(t)
    PROVE  /\ th[t].u \in Units /\ th[t].i \in Slots
           /\ th[t].pc = "init"
           /\ th' \in [Threads -> ThreadState]
           /\ th'[t].pc = "unwind" /\ th'[t].s = th[t].s /\ th'[t].u = th[t].u
           /\ th'[t].fresh = th[t].fresh
           /\ \A x \in Threads \ {t} : th'[x] = th[x]
           /\ values' \in [Units -> [Slots -> [Shards -> Int]]]
           /\ \A s \in Shards : values'[th[t].u][th[t].i][s] =
                 values[th[t].u][th[t].i][s] + IF s \in 0 .. th[t].k - 1 THEN -1 ELSE 0
           /\ \A x \in Units, y \in Slots :
                 <<x, y>> # <<th[t].u, th[t].i>> => values'[x][y] = values[x][y]
           /\ flag' \in [Units -> [Slots -> 0 .. 1]]
           /\ flag'[th[t].u][th[t].i] = 0
           /\ \A x \in Units, y \in Slots :
                 <<x, y>> # <<th[t].u, th[t].i>> => flag'[x][y] = flag[x][y]
           /\ UNCHANGED <<live, group, lock, boxes, shardOf, co>>
<1>0. th[t].u \in Units /\ th[t].i \in Slots
  BY UnitFacts DEF InitPanics
<1>1. th[t] \in ThreadState
  BY DEF TypeOK
<1> DEFINE r == [th[t] EXCEPT !.pc = "unwind"]
<1>2. /\ r \in ThreadState /\ r.pc = "unwind" /\ r.s = th[t].s /\ r.u = th[t].u
      /\ r.fresh = th[t].fresh
  BY <1>1 DEF ThreadState
<1> DEFINE S == 0 .. th[t].k - 1
<1>3. /\ Become(t, r) /\ AddValues(th[t].u, th[t].i, S, -1)
      /\ flag' = [flag EXCEPT ![th[t].u][th[t].i] = 0]
  BY DEF InitPanics, shard_indexes_until
<1> HIDE DEF r, S
<1>4. /\ values' \in [Units -> [Slots -> [Shards -> Int]]]
      /\ \A s \in Shards : values'[th[t].u][th[t].i][s] =
            values[th[t].u][th[t].i][s] + IF s \in S THEN -1 ELSE 0
      /\ \A x \in Units, y \in Slots :
            <<x, y>> # <<th[t].u, th[t].i>> => values'[x][y] = values[x][y]
  BY <1>3, <1>0, ValuesMove
<1>5. 0 \in 0 .. 1
  OBVIOUS
<1>6. /\ flag' \in [Units -> [Slots -> 0 .. 1]]
      /\ flag'[th[t].u][th[t].i] = 0
      /\ \A x \in Units, y \in Slots :
            <<x, y>> # <<th[t].u, th[t].i>> => flag'[x][y] = flag[x][y]
  BY <1>3, <1>5, <1>0, FlagMoves, ZenonT(60)
<1>7. QED
  BY <1>0, <1>2, <1>3, <1>4, <1>6, ThreadMoves DEF InitPanics, At, S

LEMMA UnwindEffect ==
    ASSUME TypeOK, NEW t \in Threads, Unwind(t)
    PROVE  /\ th[t].pc = "unwind" /\ th[t].s \in Shards
           /\ th' \in [Threads -> ThreadState] /\ th'[t] = Idle
           /\ \A x \in Threads \ {t} : th'[x] = th[x]
           /\ live' = IF th[t].fresh THEN live \ {th[t].u} ELSE live
           /\ lock' \in [Shards -> Threads \cup {NoOne}]
           /\ \A r \in Shards \ {th[t].s} : lock'[r] = lock[r]
           /\ UNCHANGED <<flag, values, group, boxes, shardOf, co>>
<1>1. th[t].s \in Shards
  BY DEF TypeOK, ThreadState
<1>2. QED
  BY <1>1, IdleState, ThreadMoves, LockMoves DEF Unwind, At

LEMMA FinishEffect ==
    ASSUME TypeOK, PlaceInv, SlotInv, NEW t \in Threads, Finish(t)
    PROVE  /\ th[t].u \in Units /\ th[t].i \in Slots
           /\ th[t].pc = "init" /\ th[t].k = ShardCount /\ th[t].s \in Shards
           /\ th' \in [Threads -> ThreadState] /\ th'[t] = Idle
           /\ \A x \in Threads \ {t} : th'[x] = th[x]
           /\ boxes' = boxes \cup {<<th[t].u, th[t].i>>}
           /\ boxes' \subseteq Units \X Slots
           /\ lock' \in [Shards -> Threads \cup {NoOne}]
           /\ \A r \in Shards \ {th[t].s} : lock'[r] = lock[r]
           /\ group' \in [Groups -> GroupState]
           /\ ~th[t].fresh => group' = group
           /\ th[t].fresh =>
                /\ group'[th[t].s].units = Append(group[th[t].s].units, th[t].u)
                /\ group'[th[t].s].check =
                      Append(group[th[t].s].check, Len(group[th[t].s].units))
                /\ \A h \in Groups \ {th[t].s} : group'[h] = group[h]
           /\ UNCHANGED <<live, flag, values, shardOf, co>>
<1>0. th[t].u \in Units /\ th[t].i \in Slots
  BY UnitFacts DEF Finish
<1> DEFINE g == group[th[t].s]
           r == [units |-> Append(g.units, th[t].u), check |-> Append(g.check, Len(g.units))]
<1>1. th[t].s \in Shards /\ th[t].fresh \in BOOLEAN
  BY DEF TypeOK, ThreadState
<1>2. g.units \in Seq(Units) /\ g.check \in Seq(Nat)
  BY <1>1, ShardsAreGroups DEF TypeOK, GroupState
<1>3. r \in GroupState
  BY <1>0, <1>2 DEF GroupState
<1>4. /\ r.units = Append(g.units, th[t].u)
      /\ r.check = Append(g.check, Len(g.units))
  OBVIOUS
<1>5. group' = IF th[t].fresh THEN [group EXCEPT ![th[t].s] = r] ELSE group
  BY DEF Finish
<1> HIDE DEF r
<1>6. group' \in [Groups -> GroupState]
  BY <1>1, <1>3, <1>5, ShardsAreGroups, GroupMoves DEF TypeOK
<1>7. th[t].fresh => /\ group'[th[t].s] = r
                     /\ \A h \in Groups \ {th[t].s} : group'[h] = group[h]
  BY <1>1, <1>3, <1>5, ShardsAreGroups, GroupMoves
<1>8. boxes' \subseteq Units \X Slots
  BY <1>0 DEF Finish, TypeOK
<1>9. QED
  BY <1>0, <1>1, <1>4, <1>5, <1>6, <1>7, <1>8, IdleState, ThreadMoves, LockMoves
     DEF Finish, At

LEMMA DropBoxEffect ==
    ASSUME TypeOK, NEW t \in Threads, NEW b \in boxes, DropBox(t, b)
    PROVE  /\ th[t].pc = "idle" /\ b \in Units \X Slots
           /\ th' \in [Threads -> ThreadState]
           /\ th'[t].pc = "dealloc" /\ th'[t].u = b[1] /\ th'[t].i = b[2] /\ ~th'[t].fresh
           /\ \A x \in Threads \ {t} : th'[x] = th[x]
           /\ boxes' = boxes \ {b}
           /\ values' \in [Units -> [Slots -> [Shards -> Int]]]
           /\ \A s \in Shards : values'[b[1]][b[2]][s] = values[b[1]][b[2]][s] - 1
           /\ \A x \in Units, y \in Slots :
                 <<x, y>> # <<b[1], b[2]>> => values'[x][y] = values[x][y]
           /\ UNCHANGED <<live, flag, group, lock, shardOf, co>>
<1>1. b \in Units \X Slots /\ b[1] \in Units /\ b[2] \in Slots
  BY DEF TypeOK
<1> DEFINE r == [Idle EXCEPT !.pc = "dealloc", !.u = b[1], !.i = b[2]]
<1>2. b[2] \in 0 .. SlotCount
  BY <1>1, AllocAssumption DEF Slots
<1>3. r \in ThreadState
  BY <1>1, <1>2, IdleState DEF ThreadState
<1>4. r.pc = "dealloc" /\ r.u = b[1] /\ r.i = b[2] /\ ~r.fresh
  BY DEF Idle
<1>5. Become(t, r) /\ AddValues(b[1], b[2], Shards, -1)
  BY DEF DropBox
<1> HIDE DEF r
<1>6. /\ values' \in [Units -> [Slots -> [Shards -> Int]]]
      /\ \A s \in Shards : values'[b[1]][b[2]][s] =
            values[b[1]][b[2]][s] + IF s \in Shards THEN -1 ELSE 0
      /\ \A x \in Units, y \in Slots :
            <<x, y>> # <<b[1], b[2]>> => values'[x][y] = values[x][y]
  BY <1>1, <1>5, ValuesMove
<1>7. \A s \in Shards : values'[b[1]][b[2]][s] = values[b[1]][b[2]][s] - 1
  BY <1>1, <1>6 DEF TypeOK
<1>8. QED
  BY <1>1, <1>3, <1>4, <1>5, <1>6, <1>7, ThreadMoves DEF DropBox, At

LEMMA DeallocEffect ==
    ASSUME TypeOK, PlaceInv, SlotInv, NEW t \in Threads, deallocate_without_dropping(t)
    PROVE  /\ th[t].u \in Units /\ th[t].i \in Slots
           /\ th[t].pc = "dealloc"
           /\ th' \in [Threads -> ThreadState] /\ th'[t] = Idle
           /\ \A x \in Threads \ {t} : th'[x] = th[x]
           /\ flag' \in [Units -> [Slots -> 0 .. 1]]
           /\ flag'[th[t].u][th[t].i] = 0
           /\ \A x \in Units, y \in Slots :
                 <<x, y>> # <<th[t].u, th[t].i>> => flag'[x][y] = flag[x][y]
           /\ UNCHANGED <<live, values, group, lock, boxes, shardOf, co>>
<1>0. th[t].u \in Units /\ th[t].i \in Slots
  BY UnitFacts DEF deallocate_without_dropping
<1>1. flag' = [flag EXCEPT ![th[t].u][th[t].i] = 0] /\ 0 \in 0 .. 1 /\ Become(t, Idle)
  BY DEF deallocate_without_dropping
<1>2. /\ flag' \in [Units -> [Slots -> 0 .. 1]]
      /\ flag'[th[t].u][th[t].i] = 0
      /\ \A x \in Units, y \in Slots :
            <<x, y>> # <<th[t].u, th[t].i>> => flag'[x][y] = flag[x][y]
  BY <1>0, <1>1, FlagMoves, ZenonT(60)
<1>3. QED
  BY <1>0, <1>1, <1>2, IdleState, ThreadMoves DEF deallocate_without_dropping, At

LEMMA SetShardEffect ==
    ASSUME TypeOK, NEW t \in Threads, NEW s \in Shards,
           set_current_thread_shard_index(t, s)
    PROVE  /\ shardOf' \in [Threads -> Shards]
           /\ UNCHANGED <<live, flag, values, group, lock, boxes, th, co>>
  BY DEF set_current_thread_shard_index, TypeOK

-----------------------------------------------------------------------------
(* What the collector's steps do. *)

LEMMA SwapEffect ==
    ASSUME TypeOK, co.s \in Shards, SwapGroups
    PROVE  /\ lock[co.s] = NoOne
           /\ group' \in [Groups -> GroupState]
           /\ group'[co.s] = group[Filling] /\ group'[Filling] = group[co.s]
           /\ \A h \in Groups \ {co.s, Filling} : group'[h] = group[h]
           /\ UNCHANGED <<live, flag, values, lock, boxes, th, shardOf>>
  BY ShardsAreGroups DEF SwapGroups, Swapped, TypeOK

LEMMA BeginEffect ==
    ASSUME TypeOK, group' \in [Groups -> GroupState], NEW s \in Groups,
           BeginMaintenance(s)
    PROVE  /\ co' \in ScanState
           /\ co'.pc = "retain" /\ co'.s = s /\ co'.p = 0 /\ co'.j = 0
           /\ co'.free = {u \in RangeOf(group'[Filling].units) :
                             \E i \in Slots : flag[u][i] = 0}
           /\ co'.idle = {u \in RangeOf(group'[Filling].units) :
                             \A i \in Slots : flag[u][i] = 0}
<1>1. group'[Filling].units \in Seq(Units)
  BY ShardsAreGroups DEF GroupState
<1>2. RangeOf(group'[Filling].units) \subseteq Units
  BY <1>1 DEF RangeOf
<1>3. QED
  BY <1>2, Zeros DEF BeginMaintenance, ScanState

LEMMA FillingType ==
    ASSUME TypeOK
    PROVE  /\ group[Filling] \in GroupState
           /\ group[Filling].units \in Seq(Units) /\ group[Filling].check \in Seq(Nat)
           /\ Len(group[Filling].units) \in Nat
           /\ \A n \in 1 .. Len(group[Filling].units) :
                 /\ group[Filling].units[n] \in Units
                 /\ group[Filling].units[n] \in UnitsOf(Filling)
  BY ShardsAreGroups DEF TypeOK, GroupState, UnitsOf, RangeOf

LEMMA NextUnitState ==
    ASSUME TypeOK
    PROVE  /\ NextUnit \in ScanState
           /\ NextUnit.pc = co.pc /\ NextUnit.s = co.s
           /\ NextUnit.p = co.p + 1 /\ NextUnit.j = 0
           /\ NextUnit.free = co.free /\ NextUnit.idle = co.idle
<1>1. co \in ScanState /\ co.p \in Nat /\ co.p + 1 \in Nat
  BY DEF TypeOK, ScanState
<1>2. QED
  BY <1>1, Zeros DEF NextUnit, ScanState

LEMMA NextFlagState ==
    ASSUME TypeOK, co.j < SlotCount
    PROVE  LET r == [co EXCEPT !.j = @ + 1] IN
           /\ r \in ScanState
           /\ r.pc = co.pc /\ r.s = co.s /\ r.p = co.p /\ r.j = co.j + 1
           /\ r.free = co.free /\ r.idle = co.idle
<1>1. co.j + 1 \in 0 .. SlotCount
  BY AllocAssumption DEF TypeOK, ScanState
<1>2. QED
  BY <1>1 DEF TypeOK, ScanState

LEMMA MaintainEffect ==
    ASSUME TypeOK, Maintain
    PROVE  /\ co' \in ScanState /\ co.pc = "idle" /\ co'.pc = "out" /\ co'.s = 0
           /\ UNCHANGED <<live, flag, values, group, lock, boxes, th, shardOf>>
  BY Zeros, ShardsAreGroups DEF Maintain, TypeOK, ScanState

LEMMA RetainEffect ==
    ASSUME TypeOK, Retain
    PROVE  LET v == UnitAt(co.p) IN
           /\ co.pc = "retain" /\ co.p < Len(group[Filling].units) /\ co.j \in Slots
           /\ co.p + 1 \in 1 .. Len(group[Filling].units)
           /\ v \in Units /\ v \in UnitsOf(Filling)
           /\ co' \in ScanState /\ co'.pc = "retain" /\ co'.s = co.s
           /\ co'.free = co.free /\ co'.idle = co.idle
           /\ flag[v][co.j] = 1 => co'.p = co.p + 1 /\ co'.j = 0
           /\ flag[v][co.j] # 1 => co'.p = co.p /\ co'.j = co.j + 1
           /\ UNCHANGED <<live, flag, values, group, lock, boxes, th, shardOf>>
<1>1. co.pc = "retain" /\ co.p < Len(group[Filling].units) /\ co.j < SlotCount
  BY DEF Retain, Scanning
<1>2. co.p \in Nat /\ co.j \in Slots
  BY <1>1, AllocAssumption DEF TypeOK, ScanState, Slots
<1>3. co.p + 1 \in 1 .. Len(group[Filling].units)
  BY <1>1, <1>2, FillingType
<1>4. UnitAt(co.p) \in Units /\ UnitAt(co.p) \in UnitsOf(Filling)
  BY <1>3, FillingType DEF UnitAt
<1>5. co' = IF flag[UnitAt(co.p)][co.j] = 1 THEN NextUnit ELSE [co EXCEPT !.j = @ + 1]
  BY DEF Retain, Keeps
<1>6. QED
  BY <1>1, <1>2, <1>3, <1>4, <1>5, NextUnitState, NextFlagState DEF Retain

LEMMA RemoveEffect ==
    ASSUME TypeOK, Remove
    PROVE  LET v == UnitAt(co.p)
               q == group[Filling].units
               w == group'[Filling].units IN
           /\ co.pc = "retain" /\ co.p < Len(q) /\ co.j = SlotCount
           /\ co.p + 1 \in 1 .. Len(q)
           /\ v \in Units /\ v \in UnitsOf(Filling)
           /\ live' = live \ {v}
           /\ group' \in [Groups -> GroupState]
           /\ w \in Seq(Units) /\ Len(w) = Len(q) - 1
           /\ \A n \in 1 .. Len(w) : w[n] = q[IF n <= co.p THEN n ELSE n + 1]
           /\ \A h \in Groups \ {Filling} : group'[h] = group[h]
           /\ co' \in ScanState /\ co'.pc = "retain" /\ co'.s = co.s
           /\ co'.p = co.p /\ co'.j = 0
           /\ co'.free = co.free \ {v} /\ co'.idle = co.idle \ {v}
           /\ UNCHANGED <<flag, values, lock, boxes, th, shardOf>>
<1> DEFINE q == group[Filling].units
           w == SubSeq(q, 1, co.p) \o SubSeq(q, co.p + 2, Len(q))
           r == [group[Filling] EXCEPT !.units = w]
<1>1. co.pc = "retain" /\ co.p < Len(q) /\ co.j = SlotCount
  BY DEF Remove, Scanning
<1>2. co.p \in Nat /\ co.p + 1 \in 1 .. Len(q)
  BY <1>1, FillingType DEF TypeOK, ScanState
<1>3. UnitAt(co.p) \in Units /\ UnitAt(co.p) \in UnitsOf(Filling)
  BY <1>2, FillingType DEF UnitAt
<1>4. /\ w \in Seq(Units) /\ Len(w) = Len(q) - 1
      /\ \A n \in 1 .. Len(w) : w[n] = q[IF n <= co.p THEN n ELSE n + 1]
  BY <1>1, <1>2, FillingType, RemoveAt
<1>5. r \in GroupState /\ r.units = w
  BY <1>4, FillingType, WithUnits
<1>6. group' = [group EXCEPT ![Filling] = r]
  BY DEF Remove
<1> HIDE DEF r, w
<1>7. /\ group' \in [Groups -> GroupState] /\ group'[Filling] = r
      /\ \A h \in Groups \ {Filling} : group'[h] = group[h]
  BY <1>5, <1>6, GroupMoves, ShardsAreGroups
<1>8. /\ co' \in ScanState /\ co'.pc = "retain" /\ co'.s = co.s
      /\ co'.p = co.p /\ co'.j = 0
      /\ co'.free = co.free \ {UnitAt(co.p)} /\ co'.idle = co.idle \ {UnitAt(co.p)}
  BY <1>1, Zeros DEF Remove, TypeOK, ScanState
<1>9. QED
  BY <1>1, <1>2, <1>3, <1>4, <1>5, <1>7, <1>8 DEF Remove

LEMMA ClearEffect ==
    ASSUME TypeOK, ClearIndexes
    PROVE  /\ co.pc = "retain" /\ co.p = Len(group[Filling].units)
           /\ group' \in [Groups -> GroupState]
           /\ group'[Filling].units = group[Filling].units
           /\ group'[Filling].check = <<>>
           /\ \A h \in Groups \ {Filling} : group'[h] = group[h]
           /\ co' \in ScanState /\ co'.pc = "index" /\ co'.s = co.s
           /\ co'.p = 0 /\ co'.j = 0 /\ co'.free = co.free /\ co'.idle = co.idle
           /\ UNCHANGED <<live, flag, values, lock, boxes, th, shardOf>>
<1> DEFINE r == [group[Filling] EXCEPT !.check = <<>>]
<1>1. r \in GroupState /\ r.units = group[Filling].units /\ r.check = <<>>
  <2>1. <<>> \in Seq(Nat)
    OBVIOUS
  <2>2. QED
    BY <2>1, FillingType, WithCheck
<1>2. group' = [group EXCEPT ![Filling] = r]
  BY DEF ClearIndexes, Cleared
<1> HIDE DEF r
<1>3. /\ group' \in [Groups -> GroupState] /\ group'[Filling] = r
      /\ \A h \in Groups \ {Filling} : group'[h] = group[h]
  BY <1>1, <1>2, GroupMoves, ShardsAreGroups
<1>4. /\ co' \in ScanState /\ co'.pc = "index" /\ co'.s = co.s
      /\ co'.p = 0 /\ co'.j = 0 /\ co'.free = co.free /\ co'.idle = co.idle
  BY Zeros DEF ClearIndexes, TypeOK, ScanState
<1>5. QED
  BY <1>1, <1>3, <1>4 DEF ClearIndexes

LEMMA IndexEffect ==
    ASSUME TypeOK, ScanInv, Index
    PROVE  LET v == UnitAt(co.p) IN
           /\ co.pc = "index" /\ co.p < Len(group[Filling].units) /\ co.j \in Slots
           /\ co.p + 1 \in 1 .. Len(group[Filling].units)
           /\ v \in Units /\ v \in UnitsOf(Filling)
           /\ group' \in [Groups -> GroupState]
           /\ group'[Filling].units = group[Filling].units
           /\ group'[Filling].check = IF flag[v][co.j] = 0
                                      THEN Append(group[Filling].check, co.p)
                                      ELSE group[Filling].check
           /\ \A h \in Groups \ {Filling} : group'[h] = group[h]
           /\ co' \in ScanState /\ co'.pc = "index" /\ co'.s = co.s
           /\ co'.free = co.free /\ co'.idle = co.idle
           /\ flag[v][co.j] = 0 \/ co.j = SlotCount - 1 => co'.p = co.p + 1 /\ co'.j = 0
           /\ ~(flag[v][co.j] = 0 \/ co.j = SlotCount - 1) =>
                 co'.p = co.p /\ co'.j = co.j + 1 /\ co'.j \in Slots
           /\ UNCHANGED <<live, flag, values, lock, boxes, th, shardOf>>
<1> DEFINE v == UnitAt(co.p)
           free == flag[v][co.j] = 0
           q == group[Filling].check
           r == [group[Filling] EXCEPT !.check = Append(q, co.p)]
<1>1. co.pc = "index" /\ co.p < Len(group[Filling].units) /\ co.j \in Slots
  BY DEF Index, Scanning, ScanInv
<1>2. co.p \in Nat /\ co.p + 1 \in 1 .. Len(group[Filling].units)
  BY <1>1, FillingType DEF TypeOK, ScanState
<1>3. v \in Units /\ v \in UnitsOf(Filling)
  BY <1>2, FillingType DEF UnitAt
<1>4. /\ r \in GroupState /\ r.units = group[Filling].units
      /\ r.check = Append(q, co.p)
  <2>1. Append(q, co.p) \in Seq(Nat)
    BY <1>2, FillingType
  <2>2. QED
    BY <2>1, FillingType, WithCheck
<1>5. group' = IF free THEN [group EXCEPT ![Filling] = r] ELSE group
  BY DEF Index
<1> HIDE DEF r
<1>6. free => /\ group' \in [Groups -> GroupState] /\ group'[Filling] = r
              /\ \A h \in Groups \ {Filling} : group'[h] = group[h]
  BY <1>4, <1>5, GroupMoves, ShardsAreGroups
<1>7. ~free => group' = group /\ group' \in [Groups -> GroupState]
  BY <1>5 DEF TypeOK
<1>8. co' = IF free \/ co.j = SlotCount - 1 THEN NextUnit ELSE [co EXCEPT !.j = @ + 1]
  BY DEF Index, LastFlag
<1>9. co.j < SlotCount /\ (co.j # SlotCount - 1 => co.j + 1 \in Slots)
  BY <1>1, AllocAssumption DEF Slots
<1>10. /\ co' \in ScanState /\ co'.pc = "index" /\ co'.s = co.s
       /\ co'.free = co.free /\ co'.idle = co.idle
       /\ free \/ co.j = SlotCount - 1 => co'.p = co.p + 1 /\ co'.j = 0
       /\ ~(free \/ co.j = SlotCount - 1) =>
             co'.p = co.p /\ co'.j = co.j + 1 /\ co'.j \in Slots
  BY <1>1, <1>8, <1>9, NextUnitState, NextFlagState
<1>11. QED
  BY <1>1, <1>2, <1>3, <1>4, <1>6, <1>7, <1>10 DEF Index

LEMMA IndexEndEffect ==
    ASSUME TypeOK, IndexEnd
    PROVE  /\ co.pc = "index" /\ co.p = Len(group[Filling].units)
           /\ co' \in ScanState /\ co'.s = co.s
           /\ co'.pc = IF co.s = Filling THEN "idle" ELSE "back"
           /\ UNCHANGED <<live, flag, values, group, lock, boxes, th, shardOf>>
  BY Zeros DEF IndexEnd, TypeOK, ScanState

LEMMA SwapOutEffect ==
    ASSUME TypeOK, ScanInv, SwapOut
    PROVE  /\ co.pc = "out" /\ co.s \in Shards /\ SwapGroups /\ BeginMaintenance(co.s)
           /\ co' \in ScanState /\ co'.pc = "retain" /\ co'.p = 0 /\ co'.j = 0
<1>1. co.pc = "out" /\ co.s \in Shards /\ SwapGroups /\ BeginMaintenance(co.s)
  BY DEF SwapOut, ScanInv
<1>2. QED
  BY <1>1, SwapEffect, BeginEffect, ShardsAreGroups

LEMMA SwapBackEffect ==
    ASSUME TypeOK, ScanInv, SwapBack
    PROVE  /\ co.pc = "back" /\ co.s \in Shards /\ SwapGroups
           /\ co' \in ScanState
           /\ \/ /\ BeginMaintenance(Filling)
                 /\ co'.pc = "retain" /\ co'.p = 0 /\ co'.j = 0
              \/ co'.pc = "out" /\ co'.s \in Shards
<1>1. co.pc = "back" /\ co.s \in Shards /\ SwapGroups
  BY DEF SwapBack, ScanInv
<1>2. CASE co.s + 1 = Filling
  BY <1>1, <1>2, SwapEffect, BeginEffect, ShardsAreGroups DEF SwapBack
<1>3. CASE co.s + 1 # Filling
  <2>1. co' = [co EXCEPT !.pc = "out", !.s = @ + 1]
    BY <1>3 DEF SwapBack
  <2>2. co.s + 1 \in Shards
    BY <1>1, <1>3, AllocAssumption DEF Shards, Filling
  <2>3. QED
    BY <1>1, <2>1, <2>2, ShardsAreGroups DEF TypeOK, ScanState
<1>4. QED
  BY <1>2, <1>3

LEMMA TypeStep ==
    ASSUME TypeOK, PlaceInv, SlotInv, IndexInv, ScanInv, [Next]_vars
    PROVE  TypeOK'
<1>1. ASSUME NEW t \in Threads, Lock(t)
      PROVE  TypeOK'
  BY <1>1, LockEffect DEF TypeOK
<1>2. ASSUME NEW t \in Threads, NEW u \in Units, NewUnit(t, u)
      PROVE  TypeOK'
  BY <1>2, NewUnitEffect DEF TypeOK
<1>3. ASSUME NEW t \in Threads, NoMemory(t)
      PROVE  TypeOK'
  BY <1>3, NoMemoryEffect DEF TypeOK
<1>4. ASSUME NEW t \in Threads, PickUnit(t)
      PROVE  TypeOK'
  BY <1>4, PickUnitEffect DEF TypeOK
<1>5. ASSUME NEW t \in Threads, SwapFlag(t)
      PROVE  TypeOK'
  BY <1>5, SwapFlagEffect DEF TypeOK
<1>6. ASSUME NEW t \in Threads, ScanFailed(t)
      PROVE  TypeOK'
  BY <1>6, ScanFailedEffect DEF TypeOK
<1>7. ASSUME NEW t \in Threads, InitShard(t)
      PROVE  TypeOK'
  BY <1>7, InitShardEffect DEF TypeOK
<1>8. ASSUME NEW t \in Threads, InitPanics(t)
      PROVE  TypeOK'
  BY <1>8, InitPanicsEffect DEF TypeOK
<1>9. ASSUME NEW t \in Threads, Unwind(t)
      PROVE  TypeOK'
  BY <1>9, UnwindEffect DEF TypeOK
<1>10. ASSUME NEW t \in Threads, Finish(t)
      PROVE  TypeOK'
  BY <1>10, FinishEffect DEF TypeOK
<1>11. ASSUME NEW t \in Threads, NEW b \in boxes, DropBox(t, b)
      PROVE  TypeOK'
  BY <1>11, DropBoxEffect DEF TypeOK
<1>12. ASSUME NEW t \in Threads, deallocate_without_dropping(t)
      PROVE  TypeOK'
  BY <1>12, DeallocEffect DEF TypeOK
<1>13. ASSUME NEW t \in Threads, NEW s \in Shards, set_current_thread_shard_index(t, s)
      PROVE  TypeOK'
  BY <1>13 DEF set_current_thread_shard_index, TypeOK
<1>14. CASE Maintain
  BY <1>14, MaintainEffect DEF TypeOK
<1>15. CASE SwapOut
  BY <1>15, SwapOutEffect, SwapEffect DEF TypeOK
<1>16. CASE Retain
  BY <1>16, RetainEffect DEF TypeOK
<1>17. CASE Remove
  BY <1>17, RemoveEffect DEF TypeOK
<1>18. CASE ClearIndexes
  BY <1>18, ClearEffect DEF TypeOK
<1>19. CASE Index
  BY <1>19, IndexEffect DEF TypeOK
<1>20. CASE IndexEnd
  BY <1>20, IndexEndEffect DEF TypeOK
<1>21. CASE SwapBack
  BY <1>21, SwapBackEffect, SwapEffect DEF TypeOK
<1>22. CASE UNCHANGED vars
  BY <1>22 DEF vars, TypeOK
<1>23. QED
  BY <1>1, <1>2, <1>3, <1>4, <1>5, <1>6, <1>7, <1>8, <1>9, <1>10, <1>11,
     <1>12, <1>13, <1>14, <1>15, <1>16, <1>17, <1>18, <1>19, <1>20, <1>21,
     <1>22
     DEF Next, ThreadStep, CollectorStep

(* A step of a thread that only touches a mutex it holds or that is free. *)
LEMMA LockFrame ==
    ASSUME TypeOK, LockInv, NEW t \in Threads,
           \A x \in Threads \ {t} : th'[x] = th[x],
           InAllocate(t)' => lock'[th'[t].s] = t,
           \A s \in Shards : \/ lock'[s] = lock[s]
                             \/ lock[s] = NoOne
                             \/ InAllocate(t) /\ s = th[t].s
    PROVE  LockInv'
<1>1. SUFFICES ASSUME NEW x \in Threads \ {t}, InAllocate(x)'
               PROVE  lock'[th'[x].s] = x
  BY DEF LockInv
<1>2. InAllocate(x) /\ th[x].s \in Shards
  BY <1>1 DEF InAllocate, TypeOK, ThreadState
<1>3. lock[th[x].s] = x /\ x # NoOne /\ x # t
  BY <1>1, <1>2, AllocAssumption DEF LockInv
<1>4. QED
  BY <1>2, <1>3 DEF LockInv

LEMMA LockStep ==
    ASSUME TypeOK, LockInv, PlaceInv, SlotInv, IndexInv, ScanInv, [Next]_vars
    PROVE  LockInv'
<1>1. ASSUME NEW t \in Threads, Lock(t)
      PROVE  LockInv'
  BY <1>1, LockEffect, LockFrame DEF LockInv, InAllocate
<1>2. ASSUME NEW t \in Threads, NEW u \in Units, NewUnit(t, u)
      PROVE  LockInv'
  BY <1>2, NewUnitEffect, LockFrame DEF LockInv, InAllocate
<1>3. ASSUME NEW t \in Threads, NoMemory(t)
      PROVE  LockInv'
  BY <1>3, NoMemoryEffect, LockFrame DEF LockInv, InAllocate, Idle
<1>4. ASSUME NEW t \in Threads, PickUnit(t)
      PROVE  LockInv'
  BY <1>4, PickUnitEffect, LockFrame DEF LockInv, InAllocate
<1>5. ASSUME NEW t \in Threads, SwapFlag(t)
      PROVE  LockInv'
  BY <1>5, SwapFlagEffect, LockFrame DEF LockInv, InAllocate
<1>6. ASSUME NEW t \in Threads, ScanFailed(t)
      PROVE  LockInv'
  BY <1>6, ScanFailedEffect, LockFrame DEF LockInv, InAllocate
<1>7. ASSUME NEW t \in Threads, InitShard(t)
      PROVE  LockInv'
  BY <1>7, InitShardEffect, LockFrame DEF LockInv, InAllocate
<1>8. ASSUME NEW t \in Threads, InitPanics(t)
      PROVE  LockInv'
  BY <1>8, InitPanicsEffect, LockFrame DEF LockInv, InAllocate
<1>9. ASSUME NEW t \in Threads, Unwind(t)
      PROVE  LockInv'
  BY <1>9, UnwindEffect, LockFrame DEF LockInv, InAllocate, Idle
<1>10. ASSUME NEW t \in Threads, Finish(t)
      PROVE  LockInv'
  BY <1>10, FinishEffect, LockFrame DEF LockInv, InAllocate, Idle
<1>11. ASSUME NEW t \in Threads, NEW b \in boxes, DropBox(t, b)
      PROVE  LockInv'
  BY <1>11, DropBoxEffect, LockFrame DEF LockInv, InAllocate
<1>12. ASSUME NEW t \in Threads, deallocate_without_dropping(t)
      PROVE  LockInv'
  BY <1>12, DeallocEffect, LockFrame DEF LockInv, InAllocate, Idle
<1>13. ASSUME NEW t \in Threads, NEW s \in Shards, set_current_thread_shard_index(t, s)
      PROVE  LockInv'
  BY <1>13, SetShardEffect DEF LockInv, InAllocate
<1>14. CASE Maintain
  BY <1>14, MaintainEffect DEF LockInv, InAllocate
<1>15. CASE SwapOut
  BY <1>15, SwapOutEffect, SwapEffect DEF LockInv, InAllocate
<1>16. CASE Retain
  BY <1>16, RetainEffect DEF LockInv, InAllocate
<1>17. CASE Remove
  BY <1>17, RemoveEffect DEF LockInv, InAllocate
<1>18. CASE ClearIndexes
  BY <1>18, ClearEffect DEF LockInv, InAllocate
<1>19. CASE Index
  BY <1>19, IndexEffect DEF LockInv, InAllocate
<1>20. CASE IndexEnd
  BY <1>20, IndexEndEffect DEF LockInv, InAllocate
<1>21. CASE SwapBack
  BY <1>21, SwapBackEffect, SwapEffect DEF LockInv, InAllocate
<1>22. CASE UNCHANGED vars
  BY <1>22 DEF vars, LockInv, InAllocate
<1>23. QED
  BY <1>1, <1>2, <1>3, <1>4, <1>5, <1>6, <1>7, <1>8, <1>9, <1>10, <1>11,
     <1>12, <1>13, <1>14, <1>15, <1>16, <1>17, <1>18, <1>19, <1>20, <1>21,
     <1>22
     DEF Next, ThreadStep, CollectorStep

-----------------------------------------------------------------------------
(* The places of the units. *)

LEMMA RangeAppend ==
    ASSUME NEW S, NEW q \in Seq(S), NEW e \in S
    PROVE  /\ RangeOf(Append(q, e)) = RangeOf(q) \cup {e}
           /\ Distinct(q) /\ e \notin RangeOf(q) => Distinct(Append(q, e))
<1> DEFINE w == Append(q, e)
           l == Len(q)
<1>1. /\ l \in Nat /\ Len(w) = l + 1 /\ w[l + 1] = e
      /\ \A n \in 1 .. l : w[n] = q[n]
      /\ \A n \in 1 .. l + 1 : n \in 1 .. l \/ n = l + 1
      /\ \A n \in 1 .. l : n \in 1 .. l + 1
      /\ l + 1 \in 1 .. l + 1
  OBVIOUS
<1> HIDE DEF w, l
<1>2. RangeOf(w) = RangeOf(q) \cup {e}
  BY <1>1 DEF RangeOf, l
<1>3. ASSUME Distinct(q), e \notin RangeOf(q), NEW m \in 1 .. l + 1,
             NEW n \in 1 .. l + 1, w[m] = w[n]
      PROVE  m = n
  <2>1. \A x \in 1 .. l : q[x] # e
    BY <1>3 DEF RangeOf, l
  <2>2. QED
    BY <1>1, <1>3, <2>1 DEF Distinct, l
<1>4. QED
  BY <1>1, <1>2, <1>3 DEF Distinct, w

LEMMA RangeRemove ==
    ASSUME NEW q \in Seq(Units), NEW w \in Seq(Units), NEW p \in Nat,
           p + 1 \in 1 .. Len(q), Len(w) = Len(q) - 1,
           \A n \in 1 .. Len(w) : w[n] = q[IF n <= p THEN n ELSE n + 1],
           Distinct(q)
    PROVE  RangeOf(w) = RangeOf(q) \ {q[p + 1]} /\ Distinct(w)
<1> DEFINE f(n) == IF n <= p THEN n ELSE n + 1
<1>1. Len(q) \in Nat
  OBVIOUS
<1>2. \A n \in 1 .. Len(w) : f(n) \in 1 .. Len(q) /\ f(n) # p + 1 /\ w[n] = q[f(n)]
  BY <1>1
<1>3. ASSUME NEW n \in 1 .. Len(q), n # p + 1
      PROVE  \E m \in 1 .. Len(w) : f(m) = n
  <2>1. CASE n <= p
    BY <1>1, <2>1
  <2>2. CASE n > p
    <3>1. n - 1 \in 1 .. Len(w) /\ f(n - 1) = n
      BY <1>1, <1>3, <2>2
    <3>2. QED
      BY <3>1
  <2>3. QED
    BY <2>1, <2>2
<1>4. \A m, n \in 1 .. Len(w) : f(m) = f(n) => m = n
  BY <1>1
<1> HIDE DEF f
<1>5. RangeOf(w) = RangeOf(q) \ {q[p + 1]}
  <2>1. ASSUME NEW n \in 1 .. Len(w)
        PROVE  w[n] \in RangeOf(q) /\ w[n] # q[p + 1]
    BY <1>2 DEF RangeOf, Distinct
  <2>2. ASSUME NEW n \in 1 .. Len(q), q[n] # q[p + 1]
        PROVE  q[n] \in RangeOf(w)
    <3>1. PICK m \in 1 .. Len(w) : f(m) = n
      BY <1>3, <2>2
    <3>2. w[m] = q[n]
      BY <1>2, <3>1
    <3>3. QED
      BY <3>2 DEF RangeOf
  <2>3. QED
    BY <2>1, <2>2 DEF RangeOf
<1>6. Distinct(w)
  BY <1>2, <1>4 DEF Distinct
<1>7. QED
  BY <1>5, <1>6

(* A step of a thread that neither makes, moves nor drops a unit. *)
LEMMA PlaceThread ==
    ASSUME TypeOK, PlaceInv, NEW t \in Threads,
           \A x \in Threads \ {t} : th'[x] = th[x],
           \A g \in Groups : group'[g].units = group[g].units,
           live' = live,
           th'[t].fresh <=> th[t].fresh,
           th[t].fresh => th'[t].u = th[t].u /\ HasUnit(t)',
           HasUnit(t)' /\ ~th'[t].fresh => th'[t].u \in UnitsOf(th'[t].s) /\ th'[t].s \in Groups
    PROVE  PlaceInv'
<1>1. \A x \in Threads : (th'[x].fresh <=> th[x].fresh) /\ (th[x].fresh => th'[x].u = th[x].u)
  OBVIOUS
<1>2. \A g \in Groups : RangeOf(group'[g].units) = RangeOf(group[g].units)
  OBVIOUS
<1>3. \A u \in Units : u \in live' <=>
         \/ \E g \in Groups : u \in RangeOf(group'[g].units)
         \/ \E x \in Threads : th'[x].fresh /\ th'[x].u = u
  BY <1>1, <1>2 DEF PlaceInv, Grouped, UnitsOf
<1>4. \A g \in Groups : Distinct(group'[g].units)
  BY DEF PlaceInv
<1>5. \A g, h \in Groups :
         g # h => RangeOf(group'[g].units) \cap RangeOf(group'[h].units) = {}
  BY <1>2 DEF PlaceInv, UnitsOf
<1>6. ASSUME NEW x \in Threads, th'[x].fresh
      PROVE  /\ HasUnit(x)' /\ th'[x].u \in Units
             /\ ~\E g \in Groups : th'[x].u \in RangeOf(group'[g].units)
  <2>1. th[x].fresh /\ th'[x].u = th[x].u
    BY <1>1, <1>6
  <2>2. HasUnit(x)'
    BY <2>1 DEF PlaceInv, HasUnit
  <2>3. QED
    BY <1>2, <2>1, <2>2 DEF PlaceInv, Grouped, UnitsOf
<1>7. \A x, y \in Threads : th'[x].fresh /\ th'[y].fresh /\ th'[x].u = th'[y].u => x = y
  BY <1>1 DEF PlaceInv
<1>8. ASSUME NEW x \in Threads, HasUnit(x)', ~th'[x].fresh
      PROVE  th'[x].u \in RangeOf(group'[th'[x].s].units)
  <2>1. CASE x = t
    BY <1>2, <1>8, <2>1 DEF UnitsOf
  <2>2. CASE x # t
    <3>1. th'[x] = th[x] /\ th[x].s \in Groups
      BY <2>2, ShardsAreGroups DEF TypeOK, ThreadState
    <3>2. QED
      BY <1>2, <1>8, <3>1 DEF PlaceInv, UnitsOf, HasUnit
  <2>3. QED
    BY <2>1, <2>2
<1>9. QED
  BY <1>3, <1>4, <1>5, <1>6, <1>7, <1>8 DEF PlaceInv, Grouped, UnitsOf

LEMMA OwnShard ==
    ASSUME TypeOK, NEW t \in Threads
    PROVE  th[t].s \in Shards /\ th[t].s \in Groups /\ th[t].s # Filling
  BY ShardsAreGroups DEF TypeOK, ThreadState

(* The groups trade places, or nothing that concerns the units changes. *)
LEMMA PlaceSwap ==
    ASSUME TypeOK, LockInv, PlaceInv, co.s \in Shards, SwapGroups
    PROVE  PlaceInv'
<1> DEFINE f(g) == IF g = co.s THEN Filling ELSE IF g = Filling THEN co.s ELSE g
<1>1. \A g \in Groups : /\ f(g) \in Groups /\ f(f(g)) = g
                        /\ RangeOf(group'[g].units) = RangeOf(group[f(g)].units)
                        /\ group'[g] = group[f(g)]
  BY SwapEffect, ShardsAreGroups
<1>2. \A g, h \in Groups : f(g) = f(h) => g = h
  BY <1>1
<1> HIDE DEF f
<1>3. UNCHANGED <<live, th>> /\ lock[co.s] = NoOne
  BY SwapEffect
<1>4. \A u : (\E g \in Groups : u \in RangeOf(group'[g].units)) <=> Grouped(u)
  BY <1>1 DEF Grouped, UnitsOf
<1>5. \A t \in Threads : HasUnit(t) => /\ th[t].s \in Groups
                                       /\ group'[th[t].s] = group[th[t].s]
  <2>1. SUFFICES ASSUME NEW t \in Threads, HasUnit(t)
                 PROVE  th[t].s \in Groups /\ group'[th[t].s] = group[th[t].s]
    OBVIOUS
  <2>2. th[t].s \in Shards
    BY DEF TypeOK, ThreadState
  <2>3. lock[th[t].s] = t /\ t # NoOne
    BY <2>1, AllocAssumption DEF LockInv, InAllocate, HasUnit
  <2>4. QED
    BY <1>3, <2>2, <2>3, SwapEffect, ShardsAreGroups
<1>6. \A u \in Units : u \in live' <=>
         \/ \E g \in Groups : u \in RangeOf(group'[g].units)
         \/ \E x \in Threads : th'[x].fresh /\ th'[x].u = u
  BY <1>3, <1>4 DEF PlaceInv
<1>7. \A g \in Groups : Distinct(group'[g].units)
  BY <1>1 DEF PlaceInv
<1>8. \A g, h \in Groups :
         g # h => RangeOf(group'[g].units) \cap RangeOf(group'[h].units) = {}
  BY <1>1, <1>2 DEF PlaceInv, UnitsOf
<1>9. \A x \in Threads : th'[x].fresh =>
         /\ HasUnit(x)' /\ th'[x].u \in Units
         /\ ~\E g \in Groups : th'[x].u \in RangeOf(group'[g].units)
  BY <1>3, <1>4 DEF PlaceInv, HasUnit
<1>10. \A x \in Threads : HasUnit(x)' /\ ~th'[x].fresh =>
          th'[x].u \in RangeOf(group'[th'[x].s].units)
  BY <1>3, <1>5 DEF PlaceInv, UnitsOf, HasUnit
<1>11. QED
  BY <1>3, <1>6, <1>7, <1>8, <1>9, <1>10 DEF PlaceInv, Grouped, UnitsOf

LEMMA PlaceSame ==
    ASSUME TypeOK, PlaceInv, UNCHANGED <<live, th>>,
           \A g \in Groups : group'[g].units = group[g].units
    PROVE  PlaceInv'
<1>1. CASE Threads = {}
  BY <1>1 DEF PlaceInv, Grouped, UnitsOf
<1>2. ASSUME NEW t \in Threads
      PROVE  PlaceInv'
  BY PlaceThread, ShardsAreGroups DEF PlaceInv, HasUnit, TypeOK, ThreadState
<1>3. QED
  BY <1>1, <1>2

LEMMA PlaceStep ==
    ASSUME TypeOK, LockInv, PlaceInv, SlotInv, IndexInv, ScanInv, [Next]_vars
    PROVE  PlaceInv'
<1>1. ASSUME NEW t \in Threads, Lock(t)
      PROVE  PlaceInv'
  BY <1>1, LockEffect, PlaceThread DEF PlaceInv, HasUnit
<1>2. ASSUME NEW t \in Threads, NEW u \in Units, NewUnit(t, u)
      PROVE  PlaceInv'
  <2>1. \A g \in Groups : u \notin RangeOf(group[g].units)
    BY <1>2, NewUnitEffect DEF PlaceInv, Grouped, UnitsOf
  <2>2. ~th[t].fresh /\ \A x \in Threads : th[x].fresh => th[x].u # u
    BY <1>2, NewUnitEffect DEF PlaceInv, HasUnit
  <2>3. \A x \in Units : x \in live' <=>
           \/ \E g \in Groups : x \in RangeOf(group'[g].units)
           \/ \E y \in Threads : th'[y].fresh /\ th'[y].u = x
    <3>1. /\ live' = live \cup {u} /\ group' = group
          /\ th'[t].fresh /\ th'[t].u = u
          /\ \A y \in Threads \ {t} : th'[y] = th[y]
      BY <1>2, NewUnitEffect
    <3>2. \A x \in Units : (\E y \in Threads : th'[y].fresh /\ th'[y].u = x) <=>
             x = u \/ \E y \in Threads : th[y].fresh /\ th[y].u = x
      BY <2>2, <3>1
    <3>3. QED
      BY <3>1, <3>2 DEF PlaceInv, Grouped, UnitsOf
  <2>4. \A x \in Threads : th'[x].fresh =>
           /\ HasUnit(x)' /\ th'[x].u \in Units
           /\ ~\E g \in Groups : th'[x].u \in RangeOf(group'[g].units)
    BY <1>2, <2>1, NewUnitEffect DEF PlaceInv, HasUnit, Grouped, UnitsOf
  <2>5. \A x, y \in Threads : th'[x].fresh /\ th'[y].fresh /\ th'[x].u = th'[y].u => x = y
    BY <1>2, <2>2, NewUnitEffect DEF PlaceInv
  <2>6. \A x \in Threads : HasUnit(x)' /\ ~th'[x].fresh =>
           th'[x].u \in RangeOf(group'[th'[x].s].units)
    BY <1>2, NewUnitEffect DEF PlaceInv, HasUnit, UnitsOf
  <2>7. group' = group
    BY <1>2, NewUnitEffect
  <2>8. /\ \A g \in Groups : Distinct(group'[g].units)
        /\ \A g, h \in Groups :
              g # h => RangeOf(group'[g].units) \cap RangeOf(group'[h].units) = {}
    BY <2>7 DEF PlaceInv, UnitsOf
  <2>9. QED
    BY <2>3, <2>4, <2>5, <2>6, <2>8 DEF PlaceInv, Grouped, UnitsOf
<1>3. ASSUME NEW t \in Threads, NoMemory(t)
      PROVE  PlaceInv'
  BY <1>3, NoMemoryEffect, PlaceThread DEF PlaceInv, HasUnit, Idle
<1>4. ASSUME NEW t \in Threads, PickUnit(t)
      PROVE  PlaceInv'
  BY <1>4, PickUnitEffect, PlaceThread, OwnShard DEF PlaceInv, HasUnit
<1>5. ASSUME NEW t \in Threads, SwapFlag(t)
      PROVE  PlaceInv'
  BY <1>5, SwapFlagEffect, PlaceThread, OwnShard DEF PlaceInv, HasUnit
<1>6. ASSUME NEW t \in Threads, ScanFailed(t)
      PROVE  PlaceInv'
  <2>1. ~th[t].fresh
    BY <1>6, ScanFailedEffect, AllocAssumption DEF SlotInv
  <2>2. \A g \in Groups : group'[g].units = group[g].units
    BY <1>6, ScanFailedEffect
  <2>3. QED
    BY <1>6, <2>1, <2>2, ScanFailedEffect, PlaceThread DEF PlaceInv, HasUnit
<1>7. ASSUME NEW t \in Threads, InitShard(t)
      PROVE  PlaceInv'
  BY <1>7, InitShardEffect, PlaceThread, OwnShard DEF PlaceInv, HasUnit
<1>8. ASSUME NEW t \in Threads, InitPanics(t)
      PROVE  PlaceInv'
  BY <1>8, InitPanicsEffect, PlaceThread, OwnShard DEF PlaceInv, HasUnit
<1>9. ASSUME NEW t \in Threads, Unwind(t)
      PROVE  PlaceInv'
  <2>1. CASE ~th[t].fresh
    BY <1>9, <2>1, UnwindEffect, PlaceThread DEF PlaceInv, HasUnit, Idle
  <2>2. CASE th[t].fresh
    <3>1. /\ \A x \in Threads : th'[x].fresh <=> x # t /\ th[x].fresh
          /\ \A x \in Threads : x # t /\ th[x].fresh => th[x].u # th[t].u
      BY <1>9, <2>2, UnwindEffect DEF PlaceInv, Idle
    <3>2. \A x \in Units : x \in live' <=>
             \/ \E g \in Groups : x \in RangeOf(group'[g].units)
             \/ \E y \in Threads : th'[y].fresh /\ th'[y].u = x
      BY <1>9, <2>2, <3>1, UnwindEffect DEF PlaceInv, Grouped, UnitsOf
    <3>3. group' = group /\ \A x \in Threads \ {t} : th'[x] = th[x]
      BY <1>9, UnwindEffect
    <3>4. ~HasUnit(t)'
      BY <1>9, UnwindEffect DEF HasUnit, Idle
    <3>5. /\ \A g \in Groups : Distinct(group'[g].units)
          /\ \A g, h \in Groups :
                g # h => RangeOf(group'[g].units) \cap RangeOf(group'[h].units) = {}
      BY <3>3 DEF PlaceInv, UnitsOf
    <3>6. \A x \in Threads : th'[x].fresh =>
             /\ HasUnit(x)' /\ th'[x].u \in Units
             /\ ~\E g \in Groups : th'[x].u \in RangeOf(group'[g].units)
      BY <3>1, <3>3 DEF PlaceInv, HasUnit, Grouped, UnitsOf
    <3>7. \A x, y \in Threads :
             th'[x].fresh /\ th'[y].fresh /\ th'[x].u = th'[y].u => x = y
      BY <3>1, <3>3 DEF PlaceInv
    <3>8. \A x \in Threads : HasUnit(x)' /\ ~th'[x].fresh =>
             th'[x].u \in RangeOf(group'[th'[x].s].units)
      BY <3>3, <3>4 DEF PlaceInv, HasUnit, UnitsOf
    <3>9. QED
      BY <3>2, <3>5, <3>6, <3>7, <3>8 DEF PlaceInv, Grouped, UnitsOf
  <2>3. QED
    BY <2>1, <2>2
<1>10. ASSUME NEW t \in Threads, Finish(t)
      PROVE  PlaceInv'
  <2>1. CASE ~th[t].fresh
    BY <1>10, <2>1, FinishEffect, PlaceThread, SMTT(60) DEF PlaceInv, HasUnit, Idle
  <2>2. CASE th[t].fresh
    <3> DEFINE s == th[t].s
               u == th[t].u
    <3>1. s \in Groups /\ u \in Units /\ group[s].units \in Seq(Units)
      BY <1>10, FinishEffect, ShardsAreGroups DEF TypeOK, GroupState
    <3>2. /\ \A x \in Threads : th'[x].fresh <=> x # t /\ th[x].fresh
          /\ \A x \in Threads : x # t /\ th[x].fresh => th[x].u # u
          /\ \A g \in Groups : u \notin RangeOf(group[g].units)
      <4>1. ~th'[t].fresh /\ \A x \in Threads \ {t} : th'[x] = th[x]
        BY <1>10, FinishEffect, SMTT(60) DEF Idle
      <4>2. QED
        BY <2>2, <4>1 DEF PlaceInv, Grouped, UnitsOf
    <3>3. /\ RangeOf(group'[s].units) = RangeOf(group[s].units) \cup {u}
          /\ Distinct(group'[s].units)
          /\ \A h \in Groups \ {s} : group'[h] = group[h]
      <4>1. /\ group'[s].units = Append(group[s].units, u)
            /\ \A h \in Groups \ {s} : group'[h] = group[h]
        BY <1>10, <2>2, FinishEffect
      <4>2. Distinct(group[s].units)
        BY <3>1 DEF PlaceInv
      <4>3. QED
        BY <3>1, <3>2, <4>1, <4>2, RangeAppend, SMTT(60)
    <3>4. \A x : (\E g \in Groups : x \in RangeOf(group'[g].units)) <=> Grouped(x) \/ x = u
      BY <3>1, <3>3 DEF Grouped, UnitsOf
    <3>5. \A x \in Units : x \in live' <=>
             \/ \E g \in Groups : x \in RangeOf(group'[g].units)
             \/ \E y \in Threads : th'[y].fresh /\ th'[y].u = x
      BY <1>10, <2>2, <3>2, <3>4, FinishEffect, SMTT(60) DEF PlaceInv
    <3>6. \A g \in Groups : Distinct(group'[g].units)
      BY <3>3 DEF PlaceInv
    <3>7. \A g, h \in Groups :
             g # h => RangeOf(group'[g].units) \cap RangeOf(group'[h].units) = {}
      BY <3>1, <3>2, <3>3, SMTT(60) DEF PlaceInv, UnitsOf
    <3>8. \A x \in Threads : th'[x].fresh =>
             /\ HasUnit(x)' /\ th'[x].u \in Units
             /\ ~\E g \in Groups : th'[x].u \in RangeOf(group'[g].units)
      BY <1>10, <3>2, <3>4, FinishEffect DEF PlaceInv, HasUnit
    <3>9. \A x \in Threads : HasUnit(x)' /\ ~th'[x].fresh =>
             th'[x].u \in RangeOf(group'[th'[x].s].units)
      <4>1. SUFFICES ASSUME NEW x \in Threads, HasUnit(x)', ~th'[x].fresh
                     PROVE  th'[x].u \in RangeOf(group'[th'[x].s].units)
        OBVIOUS
      <4>2. x # t
        BY <1>10, <4>1, FinishEffect, SMTT(60) DEF HasUnit, Idle
      <4>3. th'[x] = th[x] /\ th[x].s \in Groups
        BY <1>10, <4>2, FinishEffect, ShardsAreGroups DEF TypeOK, ThreadState
      <4>4. th[x].u \in RangeOf(group[th[x].s].units)
        BY <4>1, <4>3 DEF PlaceInv, HasUnit, UnitsOf
      <4>5. QED
        BY <3>3, <4>3, <4>4
    <3>10. \A x, y \in Threads :
              th'[x].fresh /\ th'[y].fresh /\ th'[x].u = th'[y].u => x = y
      BY <1>10, <3>2, FinishEffect DEF PlaceInv
    <3>11. QED
      BY <3>5, <3>6, <3>7, <3>8, <3>9, <3>10 DEF PlaceInv, Grouped, UnitsOf
  <2>3. QED
    BY <2>1, <2>2
<1>11. ASSUME NEW t \in Threads, NEW b \in boxes, DropBox(t, b)
      PROVE  PlaceInv'
  BY <1>11, DropBoxEffect, PlaceThread DEF PlaceInv, HasUnit
<1>12. ASSUME NEW t \in Threads, deallocate_without_dropping(t)
      PROVE  PlaceInv'
  BY <1>12, DeallocEffect, PlaceThread DEF PlaceInv, HasUnit, Idle
<1>13. ASSUME NEW t \in Threads, NEW s \in Shards, set_current_thread_shard_index(t, s)
      PROVE  PlaceInv'
  BY <1>13, SetShardEffect, PlaceSame
<1>14. CASE Maintain
  BY <1>14, MaintainEffect, PlaceSame
<1>15. CASE SwapOut
  BY <1>15, SwapOutEffect, PlaceSwap
<1>16. CASE Retain
  BY <1>16, RetainEffect, PlaceSame
<1>17. CASE Remove
  <2> DEFINE v == UnitAt(co.p)
  <2>1. /\ RangeOf(group'[Filling].units) = RangeOf(group[Filling].units) \ {v}
        /\ Distinct(group'[Filling].units)
    <3>1. co.p \in Nat
      BY DEF TypeOK, ScanState
    <3> DEFINE q == group[Filling].units
               w == group'[Filling].units
    <3>2. /\ q \in Seq(Units) /\ w \in Seq(Units)
          /\ co.p + 1 \in 1 .. Len(q) /\ Len(w) = Len(q) - 1
          /\ \A n \in 1 .. Len(w) : w[n] = q[IF n <= co.p THEN n ELSE n + 1]
      BY <1>17, RemoveEffect, FillingType
    <3>3. Distinct(q)
      BY ShardsAreGroups DEF PlaceInv
    <3> HIDE DEF q, w
    <3>4. RangeOf(w) = RangeOf(q) \ {q[co.p + 1]} /\ Distinct(w)
      BY <3>1, <3>2, <3>3, RangeRemove
    <3>5. QED
      BY <3>4 DEF q, w, UnitAt
  <2>2. /\ v \in Units /\ v \in RangeOf(group[Filling].units) /\ Filling \in Groups
        /\ live' = live \ {v} /\ th' = th
        /\ \A h \in Groups \ {Filling} : group'[h] = group[h]
    BY <1>17, RemoveEffect, ShardsAreGroups DEF UnitsOf
  <2> HIDE DEF v
  <2>3. \A x : (\E g \in Groups : x \in RangeOf(group'[g].units)) <=> Grouped(x) /\ x # v
    BY <2>1, <2>2 DEF PlaceInv, Grouped, UnitsOf
  <2>4. \A x \in Threads : th[x].fresh => th[x].u # v
    BY <2>2 DEF PlaceInv, Grouped, UnitsOf
  <2>5. \A x \in Units : x \in live' <=>
           \/ \E g \in Groups : x \in RangeOf(group'[g].units)
           \/ \E y \in Threads : th'[y].fresh /\ th'[y].u = x
    BY <2>2, <2>3, <2>4 DEF PlaceInv
  <2>6. \A g \in Groups : Distinct(group'[g].units)
    BY <2>1, <2>2 DEF PlaceInv
  <2>7. \A g, h \in Groups :
           g # h => RangeOf(group'[g].units) \cap RangeOf(group'[h].units) = {}
    BY <2>1, <2>2 DEF PlaceInv, UnitsOf
  <2>8. \A x \in Threads : th'[x].fresh =>
           /\ HasUnit(x)' /\ th'[x].u \in Units
           /\ ~\E g \in Groups : th'[x].u \in RangeOf(group'[g].units)
    BY <2>2, <2>3 DEF PlaceInv, HasUnit
  <2>9. \A x \in Threads : HasUnit(x)' /\ ~th'[x].fresh =>
           th'[x].u \in RangeOf(group'[th'[x].s].units)
    BY <2>2, OwnShard DEF PlaceInv, HasUnit, UnitsOf
  <2>10. QED
    BY <2>2, <2>5, <2>6, <2>7, <2>8, <2>9 DEF PlaceInv, Grouped, UnitsOf
<1>18. CASE ClearIndexes
  BY <1>18, ClearEffect, PlaceSame
<1>19. CASE Index
  BY <1>19, IndexEffect, PlaceSame
<1>20. CASE IndexEnd
  BY <1>20, IndexEndEffect, PlaceSame
<1>21. CASE SwapBack
  BY <1>21, SwapBackEffect, PlaceSwap
<1>22. CASE UNCHANGED vars
  BY <1>22, PlaceSame DEF vars
<1>23. QED
  BY <1>1, <1>2, <1>3, <1>4, <1>5, <1>6, <1>7, <1>8, <1>9, <1>10, <1>11,
     <1>12, <1>13, <1>14, <1>15, <1>16, <1>17, <1>18, <1>19, <1>20, <1>21,
     <1>22
     DEF Next, ThreadStep, CollectorStep

-----------------------------------------------------------------------------
(* The owners of the slots. *)

(* A step that neither takes nor gives back a slot. *)
LEMMA OwnerFrame ==
    ASSUME TypeOK, OwnerInv, boxes' = boxes, live' \subseteq live,
           \A x \in Threads, u \in Units, i \in Slots : Holds(x, u, i)' <=> Holds(x, u, i),
           \A u \in Units, i \in Slots : flag'[u][i] = flag[u][i]
    PROVE  OwnerInv'
<1>1. live \subseteq Units
  BY DEF TypeOK
<1>2. \A u \in live', i \in Slots :
         flag'[u][i] = 1 <=> <<u, i>> \in boxes' \/ \E x \in Threads : Holds(x, u, i)'
  BY <1>1 DEF OwnerInv
<1>3. \A x \in Threads, u \in Units, i \in Slots :
         Holds(x, u, i)' => <<u, i>> \notin boxes'
  BY DEF OwnerInv
<1>4. \A x, y \in Threads, u \in Units, i \in Slots :
         Holds(x, u, i)' /\ Holds(y, u, i)' => x = y
  BY DEF OwnerInv
<1>5. QED
  BY <1>2, <1>3, <1>4 DEF OwnerInv

(* A step in which thread t takes slot <<a, c>>, gives it back, or hands   *)
(* it to a box or takes it from one.                                       *)
LEMMA OwnerMove ==
    ASSUME TypeOK, OwnerInv, NEW t \in Threads, NEW a \in Units, NEW c \in Slots,
           live' = live,
           \A x \in Threads \ {t} : th'[x] = th[x],
           \A x \in Units, y \in Slots : <<x, y>> # <<a, c>> =>
              /\ flag'[x][y] = flag[x][y]
              /\ <<x, y>> \in boxes' <=> <<x, y>> \in boxes
              /\ ~Holds(t, x, y) /\ ~Holds(t, x, y)',
           \A x \in Threads \ {t} : ~Holds(x, a, c),
           flag'[a][c] = 1 <=> <<a, c>> \in boxes' \/ Holds(t, a, c)',
           Holds(t, a, c)' => <<a, c>> \notin boxes'
    PROVE  OwnerInv'
<1>1. live \subseteq Units
  BY DEF TypeOK
<1>2. \A x \in Threads \ {t}, u \in Units, i \in Slots : Holds(x, u, i)' <=> Holds(x, u, i)
  BY DEF Holds
<1>3. ASSUME NEW u \in live, NEW i \in Slots
      PROVE  flag'[u][i] = 1 <=> <<u, i>> \in boxes' \/ \E x \in Threads : Holds(x, u, i)'
  <2>1. CASE <<u, i>> = <<a, c>>
    BY <1>2, <2>1
  <2>2. CASE <<u, i>> # <<a, c>>
    BY <1>1, <1>2, <2>2 DEF OwnerInv
  <2>3. QED
    BY <2>1, <2>2
<1>4. ASSUME NEW x \in Threads, NEW u \in Units, NEW i \in Slots, Holds(x, u, i)'
      PROVE  <<u, i>> \notin boxes'
  <2>1. CASE <<u, i>> = <<a, c>>
    BY <1>2, <1>4, <2>1
  <2>2. CASE <<u, i>> # <<a, c>>
    BY <1>2, <1>4, <2>2 DEF OwnerInv
  <2>3. QED
    BY <2>1, <2>2
<1>5. ASSUME NEW x \in Threads, NEW y \in Threads, NEW u \in Units, NEW i \in Slots,
             Holds(x, u, i)', Holds(y, u, i)'
      PROVE  x = y
  <2>1. CASE <<u, i>> = <<a, c>>
    BY <1>2, <1>5, <2>1
  <2>2. CASE <<u, i>> # <<a, c>>
    <3>1. x # t /\ y # t
      BY <1>5, <2>2
    <3>2. Holds(x, u, i) /\ Holds(y, u, i)
      BY <1>2, <1>5, <3>1
    <3>3. QED
      BY <3>2 DEF OwnerInv
  <2>3. QED
    BY <2>1, <2>2
<1>6. QED
  BY <1>3, <1>4, <1>5 DEF OwnerInv

LEMMA OwnerStep ==
    ASSUME TypeOK, PlaceInv, OwnerInv, SlotInv, IndexInv, ScanInv, [Next]_vars
    PROVE  OwnerInv'
<1>1. ASSUME NEW t \in Threads, Lock(t)
      PROVE  OwnerInv'
  BY <1>1, LockEffect, OwnerFrame DEF Holds
<1>2. ASSUME NEW t \in Threads, NEW u \in Units, NewUnit(t, u)
      PROVE  OwnerInv'
  <2>1. \A x \in Threads, i \in Slots : ~Holds(x, u, i) /\ <<u, i>> \notin boxes
    BY <1>2, NewUnitEffect, UnitFacts DEF Holds, SlotInv, PlaceInv
  <2>2. \A x \in Threads, v \in Units, i \in Slots : Holds(x, v, i)' <=> Holds(x, v, i)
    BY <1>2, NewUnitEffect DEF Holds
  <2>3. live' = live \cup {u} /\ boxes' = boxes /\ live \subseteq Units
    BY <1>2, NewUnitEffect DEF TypeOK
  <2>4. \A v \in live', i \in Slots :
           flag'[v][i] = 1 <=> <<v, i>> \in boxes' \/ \E x \in Threads : Holds(x, v, i)'
    <3>1. ASSUME NEW i \in Slots
          PROVE  /\ flag'[u][i] # 1 /\ <<u, i>> \notin boxes'
                 /\ \A x \in Threads : ~Holds(x, u, i)'
      BY <1>2, <2>1, <2>2, <2>3, NewUnitEffect
    <3>2. ASSUME NEW v \in live, NEW i \in Slots, v # u
          PROVE  flag'[v][i] = 1 <=> <<v, i>> \in boxes' \/ \E x \in Threads : Holds(x, v, i)'
      <4>1. flag'[v] = flag[v] /\ v \in Units
        BY <1>2, <2>3, <3>2, NewUnitEffect
      <4>2. QED
        BY <2>2, <2>3, <4>1 DEF OwnerInv
    <3>3. ASSUME NEW v \in live', NEW i \in Slots
          PROVE  flag'[v][i] = 1 <=> <<v, i>> \in boxes' \/ \E x \in Threads : Holds(x, v, i)'
      <4>1. CASE v = u
        BY <3>1, <4>1
      <4>2. CASE v # u
        BY <2>3, <3>2, <4>2
      <4>3. QED
        BY <4>1, <4>2
    <3>4. QED
      BY <3>3
  <2>5. \A x \in Threads, v \in Units, i \in Slots :
           Holds(x, v, i)' => <<v, i>> \notin boxes'
    BY <2>2, <2>3 DEF OwnerInv
  <2>6. \A x, y \in Threads, v \in Units, i \in Slots :
           Holds(x, v, i)' /\ Holds(y, v, i)' => x = y
    BY <2>2 DEF OwnerInv
  <2>7. QED
    BY <2>4, <2>5, <2>6 DEF OwnerInv
<1>3. ASSUME NEW t \in Threads, NoMemory(t)
      PROVE  OwnerInv'
  BY <1>3, NoMemoryEffect, OwnerFrame DEF Holds, Idle
<1>4. ASSUME NEW t \in Threads, PickUnit(t)
      PROVE  OwnerInv'
  BY <1>4, PickUnitEffect, OwnerFrame DEF Holds
<1>5. ASSUME NEW t \in Threads, SwapFlag(t)
      PROVE  OwnerInv'
  <2> DEFINE u == th[t].u
             i == th[t].i
  <2>1. u \in Units /\ i \in Slots /\ u \in live /\ flag[u][i] \in 0 .. 1
    <3>1. u \in Units /\ i \in Slots /\ u \in live
      BY <1>5, SwapFlagEffect, UnitFacts
    <3>2. QED
      BY <3>1 DEF TypeOK
  <2>2. CASE flag[u][i] = 0
    <3>1. <<u, i>> \notin boxes /\ \A x \in Threads : ~Holds(x, u, i)
      BY <2>1, <2>2 DEF OwnerInv
    <3>2. \A x \in Units, y \in Slots :
             ~Holds(t, x, y) /\ (Holds(t, x, y)' <=> <<x, y>> = <<u, i>>)
      BY <1>5, <2>2, SwapFlagEffect DEF Holds
    <3>3. QED
      BY <1>5, <2>1, <2>2, <3>1, <3>2, SwapFlagEffect, OwnerMove
  <2>3. CASE flag[u][i] = 1
    <3>1. \A x \in Threads, v \in Units, j \in Slots : Holds(x, v, j)' <=> Holds(x, v, j)
      BY <1>5, <2>3, SwapFlagEffect DEF Holds
    <3>2. \A x \in Units, y \in Slots : flag'[x][y] = flag[x][y]
      BY <1>5, <2>3, SwapFlagEffect
    <3>3. QED
      BY <1>5, <3>1, <3>2, SwapFlagEffect, OwnerFrame
  <2>4. QED
    BY <2>1, <2>2, <2>3
<1>6. ASSUME NEW t \in Threads, ScanFailed(t)
      PROVE  OwnerInv'
  BY <1>6, ScanFailedEffect, OwnerFrame DEF Holds
<1>7. ASSUME NEW t \in Threads, InitShard(t)
      PROVE  OwnerInv'
  BY <1>7, InitShardEffect, OwnerFrame DEF Holds
<1>8. ASSUME NEW t \in Threads, InitPanics(t)
      PROVE  OwnerInv'
  <2>1. th[t].u \in Units /\ th[t].i \in Slots /\ Holds(t, th[t].u, th[t].i)
    BY <1>8, InitPanicsEffect DEF Holds
  <2>2. \A x \in Threads \ {t} : ~Holds(x, th[t].u, th[t].i)
    BY <2>1 DEF OwnerInv
  <2>3. <<th[t].u, th[t].i>> \notin boxes
    BY <2>1 DEF OwnerInv
  <2>4. \A x \in Units, y \in Slots :
           ~Holds(t, x, y)' /\ (Holds(t, x, y) => <<x, y>> = <<th[t].u, th[t].i>>)
    BY <1>8, InitPanicsEffect DEF Holds
  <2>5. /\ live' = live /\ \A x \in Threads \ {t} : th'[x] = th[x]
        /\ \A x \in Units, y \in Slots : <<x, y>> # <<th[t].u, th[t].i>> =>
              flag'[x][y] = flag[x][y] /\ (<<x, y>> \in boxes' <=> <<x, y>> \in boxes)
    BY <1>8, <2>1, InitPanicsEffect
  <2>6. flag'[th[t].u][th[t].i] = 0 /\ <<th[t].u, th[t].i>> \notin boxes'
    BY <1>8, <2>1, <2>2, <2>3, <2>4, InitPanicsEffect
  <2>7. QED
    BY <2>1, <2>2, <2>4, <2>5, <2>6, OwnerMove
<1>9. ASSUME NEW t \in Threads, Unwind(t)
      PROVE  OwnerInv'
  BY <1>9, UnwindEffect, OwnerFrame DEF Holds, Idle
<1>10. ASSUME NEW t \in Threads, Finish(t)
      PROVE  OwnerInv'
  <2>1. /\ th[t].u \in Units /\ th[t].i \in Slots /\ th[t].u \in live
        /\ Holds(t, th[t].u, th[t].i)
    BY <1>10, FinishEffect, UnitFacts DEF Holds
  <2>2. \A x \in Threads \ {t} : ~Holds(x, th[t].u, th[t].i)
    BY <2>1 DEF OwnerInv
  <2>3. flag[th[t].u][th[t].i] = 1
    BY <2>1 DEF OwnerInv
  <2>4. \A x \in Units, y \in Slots :
           ~Holds(t, x, y)' /\ (Holds(t, x, y) => <<x, y>> = <<th[t].u, th[t].i>>)
    BY <1>10, FinishEffect DEF Holds, Idle
  <2>5. /\ live' = live /\ \A x \in Threads \ {t} : th'[x] = th[x]
        /\ \A x \in Units, y \in Slots : <<x, y>> # <<th[t].u, th[t].i>> =>
              flag'[x][y] = flag[x][y] /\ (<<x, y>> \in boxes' <=> <<x, y>> \in boxes)
    BY <1>10, <2>1, FinishEffect
  <2>6. flag'[th[t].u][th[t].i] = 1 /\ <<th[t].u, th[t].i>> \in boxes'
    BY <1>10, <2>1, <2>2, <2>3, <2>4, FinishEffect
  <2>7. QED
    BY <2>1, <2>2, <2>4, <2>5, <2>6, OwnerMove
<1>11. ASSUME NEW t \in Threads, NEW b \in boxes, DropBox(t, b)
      PROVE  OwnerInv'
  <2>1. b[1] \in Units /\ b[2] \in Slots /\ b = <<b[1], b[2]>>
    BY <1>11, DropBoxEffect
  <2>2. \A x \in Threads : ~Holds(x, b[1], b[2])
    BY <2>1 DEF OwnerInv
  <2>3. flag[b[1]][b[2]] = 1
    BY <2>1 DEF OwnerInv, SlotInv, PlaceInv
  <2>4. \A x \in Units, y \in Slots :
           ~Holds(t, x, y) /\ (Holds(t, x, y)' <=> <<x, y>> = <<b[1], b[2]>>)
    BY <1>11, DropBoxEffect DEF Holds
  <2>5. /\ live' = live /\ \A x \in Threads \ {t} : th'[x] = th[x]
        /\ \A x \in Units, y \in Slots : <<x, y>> # <<b[1], b[2]>> =>
              flag'[x][y] = flag[x][y] /\ (<<x, y>> \in boxes' <=> <<x, y>> \in boxes)
    BY <1>11, <2>1, DropBoxEffect
  <2>6. flag'[b[1]][b[2]] = 1 /\ <<b[1], b[2]>> \notin boxes'
    BY <1>11, <2>1, <2>2, <2>3, <2>4, DropBoxEffect
  <2>7. QED
    BY <2>1, <2>2, <2>4, <2>5, <2>6, OwnerMove
<1>12. ASSUME NEW t \in Threads, deallocate_without_dropping(t)
      PROVE  OwnerInv'
  <2>1. th[t].u \in Units /\ th[t].i \in Slots /\ Holds(t, th[t].u, th[t].i)
    BY <1>12, DeallocEffect DEF Holds
  <2>2. \A x \in Threads \ {t} : ~Holds(x, th[t].u, th[t].i)
    BY <2>1 DEF OwnerInv
  <2>3. <<th[t].u, th[t].i>> \notin boxes
    BY <2>1 DEF OwnerInv
  <2>4. \A x \in Units, y \in Slots :
           ~Holds(t, x, y)' /\ (Holds(t, x, y) => <<x, y>> = <<th[t].u, th[t].i>>)
    BY <1>12, DeallocEffect DEF Holds, Idle
  <2>5. /\ live' = live /\ \A x \in Threads \ {t} : th'[x] = th[x]
        /\ \A x \in Units, y \in Slots : <<x, y>> # <<th[t].u, th[t].i>> =>
              flag'[x][y] = flag[x][y] /\ (<<x, y>> \in boxes' <=> <<x, y>> \in boxes)
    BY <1>12, <2>1, DeallocEffect
  <2>6. flag'[th[t].u][th[t].i] = 0 /\ <<th[t].u, th[t].i>> \notin boxes'
    BY <1>12, <2>1, <2>2, <2>3, <2>4, DeallocEffect
  <2>7. QED
    BY <2>1, <2>2, <2>4, <2>5, <2>6, OwnerMove
<1>13. ASSUME NEW t \in Threads, NEW s \in Shards, set_current_thread_shard_index(t, s)
      PROVE  OwnerInv'
  BY <1>13, SetShardEffect, OwnerFrame DEF Holds
<1>14. CASE Maintain
  BY <1>14, MaintainEffect, OwnerFrame DEF Holds
<1>15. CASE SwapOut
  BY <1>15, SwapOutEffect, SwapEffect, OwnerFrame DEF Holds
<1>16. CASE Retain
  BY <1>16, RetainEffect, OwnerFrame DEF Holds
<1>17. CASE Remove
  BY <1>17, RemoveEffect, OwnerFrame DEF Holds
<1>18. CASE ClearIndexes
  BY <1>18, ClearEffect, OwnerFrame DEF Holds
<1>19. CASE Index
  BY <1>19, IndexEffect, OwnerFrame DEF Holds
<1>20. CASE IndexEnd
  BY <1>20, IndexEndEffect, OwnerFrame DEF Holds
<1>21. CASE SwapBack
  BY <1>21, SwapBackEffect, SwapEffect, OwnerFrame DEF Holds
<1>22. CASE UNCHANGED vars
  BY <1>22, OwnerFrame DEF vars, Holds
<1>23. QED
  BY <1>1, <1>2, <1>3, <1>4, <1>5, <1>6, <1>7, <1>8, <1>9, <1>10, <1>11,
     <1>12, <1>13, <1>14, <1>15, <1>16, <1>17, <1>18, <1>19, <1>20, <1>21,
     <1>22
     DEF Next, ThreadStep, CollectorStep

LEMMA SlotFrame ==
    ASSUME TypeOK, SlotInv, NEW t \in Threads,
           \A x \in Threads \ {t} : th'[x] = th[x],
           \A u : Grouped(u) => \E g \in Groups : u \in RangeOf(group'[g].units),
           \A b \in boxes' :
              b \in boxes \/ \E g \in Groups : b[1] \in RangeOf(group'[g].units),
           th'[t].pc \in {"init", "dealloc"} => th'[t].i \in Slots,
           th'[t].pc = "dealloc" =>
              \E g \in Groups : th'[t].u \in RangeOf(group'[g].units),
           th'[t].fresh /\ th'[t].pc = "scan" => th'[t].i = 0
    PROVE  SlotInv'
<1>1. \A x \in Threads : th'[x].pc \in {"init", "dealloc"} => th'[x].i \in Slots
  BY DEF SlotInv
<1>2. \A x \in Threads : th'[x].pc = "dealloc" =>
         \E g \in Groups : th'[x].u \in RangeOf(group'[g].units)
  BY DEF SlotInv
<1>3. \A b \in boxes' : \E g \in Groups : b[1] \in RangeOf(group'[g].units)
  BY DEF SlotInv
<1>4. \A x \in Threads : th'[x].fresh /\ th'[x].pc = "scan" => th'[x].i = 0
  BY DEF SlotInv
<1>5. QED
  BY <1>1, <1>2, <1>3, <1>4 DEF SlotInv, Grouped, UnitsOf

(* A step that does not concern threads or boxes. *)
LEMMA SlotSame ==
    ASSUME SlotInv, UNCHANGED <<th, boxes>>,
           \A t \in Threads : th[t].pc = "dealloc" =>
              \E g \in Groups : th[t].u \in RangeOf(group'[g].units),
           \A b \in boxes : \E g \in Groups : b[1] \in RangeOf(group'[g].units)
    PROVE  SlotInv'
  BY DEF SlotInv, Grouped, UnitsOf

LEMMA GroupTypes ==
    ASSUME TypeOK, NEW g \in Groups
    PROVE  group[g].units \in Seq(Units) /\ group[g].check \in Seq(Nat)
  BY DEF TypeOK, GroupState

LEMMA SameGrouped ==
    ASSUME \A g \in Groups : group'[g].units = group[g].units
    PROVE  \A u : Grouped(u) => \E g \in Groups : u \in RangeOf(group'[g].units)
  BY DEF Grouped, UnitsOf

LEMMA SwapGrouped ==
    ASSUME TypeOK, co.s \in Shards, SwapGroups
    PROVE  \A u : Grouped(u) => \E g \in Groups : u \in RangeOf(group'[g].units)
<1>1. /\ co.s \in Groups /\ Filling \in Groups
      /\ group'[co.s] = group[Filling] /\ group'[Filling] = group[co.s]
      /\ \A h \in Groups \ {co.s, Filling} : group'[h] = group[h]
  BY SwapEffect, ShardsAreGroups
<1>2. QED
  BY <1>1 DEF Grouped, UnitsOf

(* Where the collector has found no used slot, nobody owns one. *)
LEMMA RemoveUnowned ==
    ASSUME TypeOK, PlaceInv, OwnerInv, ScanInv, Remove
    PROVE  \A i \in Slots : /\ <<UnitAt(co.p), i>> \notin boxes
                            /\ \A t \in Threads : ~Holds(t, UnitAt(co.p), i)
<1>1. /\ UnitAt(co.p) \in Units /\ UnitAt(co.p) \in UnitsOf(Filling)
      /\ co.pc = "retain" /\ co.j = SlotCount
  BY RemoveEffect
<1>2. UnitAt(co.p) \in live
  BY <1>1, ShardsAreGroups DEF PlaceInv, Grouped
<1>3. SlotCount > 0 /\ \A i \in Slots : i < SlotCount
  BY AllocAssumption DEF Slots
<1>4. \A i \in Slots : flag[UnitAt(co.p)][i] = 0
  BY <1>1, <1>3 DEF ScanInv
<1>5. QED
  BY <1>2, <1>4 DEF OwnerInv

(* A new unit has no owned slot, so its first slot is taken. *)
LEMMA FreshIsFree ==
    ASSUME TypeOK, PlaceInv, OwnerInv, SlotInv, NEW t \in Threads,
           th[t].fresh, th[t].pc = "scan"
    PROVE  flag[th[t].u][th[t].i] = 0
<1>1. /\ th[t].u \in Units /\ th[t].u \in live /\ ~Grouped(th[t].u)
      /\ th[t].i = 0 /\ 0 \in Slots
  BY UnitFacts, Zeros DEF PlaceInv, SlotInv
<1>2. <<th[t].u, 0>> \notin boxes
  BY <1>1 DEF SlotInv
<1>3. ASSUME NEW x \in Threads, Holds(x, th[t].u, 0)
      PROVE  FALSE
  BY <1>1, <1>3, OwnShard DEF Holds, SlotInv, PlaceInv, HasUnit, Grouped
<1>4. flag[th[t].u][0] # 1 /\ flag[th[t].u][0] \in 0 .. 1
  BY <1>1, <1>2, <1>3 DEF OwnerInv, TypeOK
<1>5. QED
  BY <1>1, <1>4

LEMMA SlotStep ==
    ASSUME TypeOK, LockInv, PlaceInv, OwnerInv, SlotInv, IndexInv, ScanInv, [Next]_vars
    PROVE  SlotInv'
<1>1. ASSUME NEW t \in Threads, Lock(t)
      PROVE  SlotInv'
  BY <1>1, LockEffect, SlotFrame, SameGrouped
<1>2. ASSUME NEW t \in Threads, NEW u \in Units, NewUnit(t, u)
      PROVE  SlotInv'
  BY <1>2, NewUnitEffect, SlotFrame, SameGrouped
<1>3. ASSUME NEW t \in Threads, NoMemory(t)
      PROVE  SlotInv'
  BY <1>3, NoMemoryEffect, SlotFrame, SameGrouped DEF Idle
<1>4. ASSUME NEW t \in Threads, PickUnit(t)
      PROVE  SlotInv'
  <2>1. ~th[t].fresh
    BY <1>4, PickUnitEffect DEF PlaceInv, HasUnit
  <2>2. QED
    BY <1>4, <2>1, PickUnitEffect, SlotFrame, SameGrouped
<1>5. ASSUME NEW t \in Threads, SwapFlag(t)
      PROVE  SlotInv'
  <2>1. th[t].fresh => flag[th[t].u][th[t].i] = 0
    BY <1>5, SwapFlagEffect, FreshIsFree
  <2>2. QED
    BY <1>5, <2>1, SwapFlagEffect, SlotFrame, SameGrouped
<1>6. ASSUME NEW t \in Threads, ScanFailed(t)
      PROVE  SlotInv'
  <2>1. \A g \in Groups : group'[g].units = group[g].units
    BY <1>6, ScanFailedEffect
  <2>2. QED
    BY <1>6, <2>1, ScanFailedEffect, SlotFrame, SameGrouped
<1>7. ASSUME NEW t \in Threads, InitShard(t)
      PROVE  SlotInv'
  BY <1>7, InitShardEffect, SlotFrame, SameGrouped
<1>8. ASSUME NEW t \in Threads, InitPanics(t)
      PROVE  SlotInv'
  BY <1>8, InitPanicsEffect, SlotFrame, SameGrouped
<1>9. ASSUME NEW t \in Threads, Unwind(t)
      PROVE  SlotInv'
  BY <1>9, UnwindEffect, SlotFrame, SameGrouped DEF Idle
<1>10. ASSUME NEW t \in Threads, Finish(t)
      PROVE  SlotInv'
  <2>1. \E g \in Groups : th[t].u \in RangeOf(group'[g].units)
    <3>1. CASE th[t].fresh
      <4>1. /\ th[t].s \in Groups /\ th[t].u \in Units
            /\ group[th[t].s].units \in Seq(Units)
            /\ group'[th[t].s].units = Append(group[th[t].s].units, th[t].u)
        BY <1>10, <3>1, FinishEffect, OwnShard, GroupTypes
      <4>2. RangeOf(group'[th[t].s].units) = RangeOf(group[th[t].s].units) \cup {th[t].u}
        BY <4>1, RangeAppend, SMTT(60)
      <4>3. QED
        BY <4>1, <4>2
    <3>2. CASE ~th[t].fresh
      BY <1>10, <3>2, FinishEffect, OwnShard DEF PlaceInv, HasUnit, UnitsOf
    <3>3. QED
      BY <3>1, <3>2
  <2>2. \A u : Grouped(u) => \E g \in Groups : u \in RangeOf(group'[g].units)
    <3>1. CASE th[t].fresh
      <4>1. /\ RangeOf(group'[th[t].s].units) =
                  RangeOf(group[th[t].s].units) \cup {th[t].u}
            /\ \A h \in Groups \ {th[t].s} : group'[h] = group[h]
        <5>1. /\ th[t].s \in Groups /\ th[t].u \in Units
              /\ group[th[t].s].units \in Seq(Units)
              /\ group'[th[t].s].units = Append(group[th[t].s].units, th[t].u)
          BY <1>10, <3>1, FinishEffect, OwnShard, GroupTypes
        <5>2. RangeOf(group'[th[t].s].units) =
                 RangeOf(group[th[t].s].units) \cup {th[t].u}
          BY <5>1, RangeAppend, SMTT(60)
        <5>3. QED
          BY <1>10, <3>1, <5>2, FinishEffect
      <4>2. QED
        BY <4>1 DEF Grouped, UnitsOf
    <3>2. CASE ~th[t].fresh
      BY <1>10, <3>2, FinishEffect, SameGrouped
    <3>3. QED
      BY <3>1, <3>2
  <2>3. QED
    BY <1>10, <2>1, <2>2, FinishEffect, SlotFrame, SMTT(60) DEF Idle
<1>11. ASSUME NEW t \in Threads, NEW b \in boxes, DropBox(t, b)
      PROVE  SlotInv'
  <2>1. \E g \in Groups : b[1] \in RangeOf(group[g].units)
    BY DEF SlotInv, Grouped, UnitsOf
  <2>2. b[1] \in Units /\ b[2] \in Slots
    BY <1>11, DropBoxEffect
  <2>3. QED
    BY <1>11, <2>1, <2>2, DropBoxEffect, SlotFrame, SameGrouped, SMTT(60)
<1>12. ASSUME NEW t \in Threads, deallocate_without_dropping(t)
      PROVE  SlotInv'
  BY <1>12, DeallocEffect, SlotFrame, SameGrouped DEF Idle
<1>13. ASSUME NEW t \in Threads, NEW s \in Shards, set_current_thread_shard_index(t, s)
      PROVE  SlotInv'
  BY <1>13, SetShardEffect, SlotSame, SameGrouped DEF SlotInv
<1>14. CASE Maintain
  BY <1>14, MaintainEffect, SlotSame, SameGrouped DEF SlotInv
<1>15. CASE SwapOut
  BY <1>15, SwapOutEffect, SwapEffect, SlotSame, SwapGrouped DEF SlotInv
<1>16. CASE Retain
  BY <1>16, RetainEffect, SlotSame, SameGrouped DEF SlotInv
<1>17. CASE Remove
  <2> DEFINE v == UnitAt(co.p)
  <2>1. \A x \in Units : Grouped(x) /\ x # v =>
           \E g \in Groups : x \in RangeOf(group'[g].units)
    <3>1. SUFFICES ASSUME NEW x \in Units, x # v,
                          NEW g \in Groups, x \in RangeOf(group[g].units)
                   PROVE  x \in RangeOf(group'[g].units)
      BY DEF Grouped, UnitsOf
    <3>2. CASE g # Filling
      BY <1>17, <3>1, <3>2, RemoveEffect
    <3>3. CASE g = Filling
      <4> DEFINE q == group[Filling].units
                 w == group'[Filling].units
      <4>1. /\ Len(q) \in Nat /\ co.p \in Nat
            /\ Len(w) = Len(q) - 1 /\ co.p + 1 \in 1 .. Len(q)
            /\ \A n \in 1 .. Len(w) : w[n] = q[IF n <= co.p THEN n ELSE n + 1]
        BY <1>17, RemoveEffect, FillingType DEF TypeOK, ScanState
      <4>2. PICK n \in 1 .. Len(q) : q[n] = x
        BY <3>1, <3>3 DEF RangeOf
      <4>3. n # co.p + 1
        BY <3>1, <4>2 DEF UnitAt
      <4> HIDE DEF q, w
      <4>4. CASE n <= co.p
        <5>1. n \in 1 .. Len(w) /\ w[n] = x
          BY <4>1, <4>2, <4>4
        <5>2. QED
          BY <3>3, <5>1 DEF RangeOf, w
      <4>5. CASE n > co.p
        <5>1. n - 1 \in 1 .. Len(w) /\ ~(n - 1 <= co.p) /\ n - 1 + 1 = n
          BY <4>1, <4>2, <4>3, <4>5
        <5>2. w[n - 1] = x
          BY <4>1, <4>2, <5>1
        <5>3. QED
          BY <3>3, <5>1, <5>2 DEF RangeOf, w
      <4>6. QED
        BY <4>1, <4>4, <4>5
    <3>4. QED
      BY <3>2, <3>3
  <2>2. \A t \in Threads : th[t].pc = "dealloc" => th[t].u # v /\ th[t].u \in Units
    BY <1>17, RemoveUnowned, UnitFacts DEF Holds
  <2>3. \A b \in boxes : b[1] # v /\ b[1] \in Units
    <3>1. SUFFICES ASSUME NEW b \in boxes PROVE b[1] # v /\ b[1] \in Units
      OBVIOUS
    <3>2. b[1] \in Units /\ b[2] \in Slots /\ b = <<b[1], b[2]>>
      BY DEF TypeOK
    <3>3. QED
      BY <1>17, <3>2, RemoveUnowned
  <2>4. QED
    BY <1>17, <2>1, <2>2, <2>3, RemoveEffect, SlotSame DEF SlotInv
<1>18. CASE ClearIndexes
  BY <1>18, ClearEffect, SlotSame, SameGrouped DEF SlotInv
<1>19. CASE Index
  BY <1>19, IndexEffect, SlotSame, SameGrouped DEF SlotInv
<1>20. CASE IndexEnd
  BY <1>20, IndexEndEffect, SlotSame, SameGrouped DEF SlotInv
<1>21. CASE SwapBack
  BY <1>21, SwapBackEffect, SwapEffect, SlotSame, SwapGrouped DEF SlotInv
<1>22. CASE UNCHANGED vars
  BY <1>22, SlotSame, SameGrouped DEF vars, SlotInv
<1>23. QED
  BY <1>1, <1>2, <1>3, <1>4, <1>5, <1>6, <1>7, <1>8, <1>9, <1>10, <1>11,
     <1>12, <1>13, <1>14, <1>15, <1>16, <1>17, <1>18, <1>19, <1>20, <1>21,
     <1>22
     DEF Next, ThreadStep, CollectorStep

-----------------------------------------------------------------------------
(* The values in the slots. *)
LEMMA ValuesFrame ==
    ASSUME ValuesInv, values' = values,
           \A u \in Units, i \in Slots, s \in Shards : Filled(u, i, s)' <=> Filled(u, i, s)
    PROVE  ValuesInv'
  BY DEF ValuesInv

LEMMA ValuesAtSlot ==
    ASSUME ValuesInv, NEW a \in Units, NEW c \in Slots,
           \A x \in Units, y \in Slots, s \in Shards : <<x, y>> # <<a, c>> =>
              values'[x][y] = values[x][y] /\ (Filled(x, y, s)' <=> Filled(x, y, s)),
           \A s \in Shards : values'[a][c][s] = IF Filled(a, c, s)' THEN 1 ELSE 0
    PROVE  ValuesInv'
<1>1. ASSUME NEW x \in Units, NEW y \in Slots, NEW s \in Shards
      PROVE  values'[x][y][s] = IF Filled(x, y, s)' THEN 1 ELSE 0
  <2>1. CASE <<x, y>> = <<a, c>>
    BY <2>1
  <2>2. CASE <<x, y>> # <<a, c>>
    BY <2>2 DEF ValuesInv
  <2>3. QED
    BY <2>1, <2>2
<1>2. QED
  BY <1>1 DEF ValuesInv

LEMMA ValuesStep ==
    ASSUME TypeOK, PlaceInv, OwnerInv, SlotInv, ValuesInv, IndexInv, ScanInv, [Next]_vars
    PROVE  ValuesInv'
<1>1. ASSUME NEW t \in Threads, Lock(t)
      PROVE  ValuesInv'
  BY <1>1, LockEffect, ValuesFrame DEF Filled, Holds
<1>2. ASSUME NEW t \in Threads, NEW u \in Units, NewUnit(t, u)
      PROVE  ValuesInv'
  BY <1>2, NewUnitEffect, ValuesFrame DEF Filled, Holds
<1>3. ASSUME NEW t \in Threads, NoMemory(t)
      PROVE  ValuesInv'
  BY <1>3, NoMemoryEffect, ValuesFrame DEF Filled, Holds, Idle
<1>4. ASSUME NEW t \in Threads, PickUnit(t)
      PROVE  ValuesInv'
  BY <1>4, PickUnitEffect, ValuesFrame DEF Filled, Holds
<1>5. ASSUME NEW t \in Threads, SwapFlag(t)
      PROVE  ValuesInv'
  <2>1. \A s \in Shards : ~(s < 0)
    BY AllocAssumption DEF Shards
  <2>2. \/ th'[t].pc = "scan"
        \/ th'[t].pc = "init" /\ th'[t].k = 0
    <3>1. CASE flag[th[t].u][th[t].i] = 0
      BY <1>5, <3>1, SwapFlagEffect
    <3>2. CASE flag[th[t].u][th[t].i] # 0
      BY <1>5, <3>2, SwapFlagEffect
    <3>3. QED
      BY <3>1, <3>2
  <2>3. th[t].pc = "scan" /\ \A x \in Threads \ {t} : th'[x] = th[x]
    BY <1>5, SwapFlagEffect
  <2>4. ASSUME NEW u \in Units, NEW i \in Slots, NEW s \in Shards, NEW x \in Threads
        PROVE  th'[x].pc = "init" /\ Holds(x, u, i)' /\ s < th'[x].k
                  <=> th[x].pc = "init" /\ Holds(x, u, i) /\ s < th[x].k
    BY <2>1, <2>2, <2>3 DEF Holds
  <2>5. boxes' = boxes /\ values' = values
    BY <1>5, SwapFlagEffect
  <2>6. \A u \in Units, i \in Slots, s \in Shards : Filled(u, i, s)' <=> Filled(u, i, s)
    BY <2>4, <2>5 DEF Filled
  <2>7. QED
    BY <2>5, <2>6, ValuesFrame
<1>6. ASSUME NEW t \in Threads, ScanFailed(t)
      PROVE  ValuesInv'
  BY <1>6, ScanFailedEffect, ValuesFrame DEF Filled, Holds
<1>7. ASSUME NEW t \in Threads, InitShard(t)
      PROVE  ValuesInv'
  <2>0. PICK a \in Units, c \in Slots : th[t].u = a /\ th[t].i = c
    BY <1>7, InitShardEffect
  <2>1. Holds(t, a, c)
    BY <1>7, <2>0, InitShardEffect DEF Holds
  <2>2. <<a, c>> \notin boxes /\ \A x \in Threads \ {t} : ~Holds(x, a, c)
    BY <2>1 DEF OwnerInv
  <2>3. \A s \in Shards : Filled(a, c, s) <=> s < th[t].k
    BY <1>7, <2>1, <2>2, InitShardEffect DEF Filled
  <2>4. \A s \in Shards : Filled(a, c, s)' <=> s < th[t].k + 1
    <3>1. /\ boxes' = boxes /\ Holds(t, a, c)'
          /\ th'[t].pc = "init" /\ th'[t].k = th[t].k + 1
          /\ \A x \in Threads \ {t} : ~Holds(x, a, c)'
      BY <1>7, <2>0, <2>2, InitShardEffect DEF Holds
    <3>2. QED
      BY <2>2, <3>1 DEF Filled
  <2>5. \A x \in Units, y \in Slots, s \in Shards : <<x, y>> # <<a, c>> =>
           values'[x][y] = values[x][y] /\ (Filled(x, y, s)' <=> Filled(x, y, s))
    <3>1. ASSUME NEW x \in Units, NEW y \in Slots, NEW s \in Shards,
                 <<x, y>> # <<a, c>>, NEW z \in Threads
          PROVE  th'[z].pc = "init" /\ Holds(z, x, y)' /\ s < th'[z].k
                    <=> th[z].pc = "init" /\ Holds(z, x, y) /\ s < th[z].k
      <4>1. CASE z = t
        <5>1. th'[t].u = a /\ th'[t].i = c
          BY <1>7, <2>0, InitShardEffect
        <5>2. ~Holds(t, x, y) /\ ~Holds(t, x, y)'
          BY <2>0, <3>1, <5>1 DEF Holds
        <5>3. QED
          BY <4>1, <5>2
      <4>2. CASE z # t
        <5>1. th'[z] = th[z]
          BY <1>7, <4>2, InitShardEffect
        <5>2. QED
          BY <5>1 DEF Holds
      <4>3. QED
        BY <4>1, <4>2
    <3>2. /\ boxes' = boxes
          /\ \A x \in Units, y \in Slots :
                <<x, y>> # <<a, c>> => values'[x][y] = values[x][y]
      BY <1>7, <2>0, InitShardEffect
    <3>3. QED
      BY <3>1, <3>2 DEF Filled
  <2>6. ASSUME NEW s \in Shards
        PROVE  values'[a][c][s] = IF Filled(a, c, s)' THEN 1 ELSE 0
    <3>1. values[a][c][s] = IF s < th[t].k THEN 1 ELSE 0
      BY <2>1, <2>3 DEF ValuesInv
    <3>2. values'[a][c][s] = values[a][c][s] + IF s = th[t].k THEN 1 ELSE 0
      BY <1>7, <2>0, InitShardEffect
    <3>3. s \in Int /\ th[t].k \in Int
      BY <1>7, InitShardEffect, AllocAssumption DEF Shards
    <3>4. QED
      BY <2>4, <3>1, <3>2, <3>3
  <2>7. QED
    BY <2>1, <2>5, <2>6, ValuesAtSlot
<1>8. ASSUME NEW t \in Threads, InitPanics(t)
      PROVE  ValuesInv'
  <2>0. PICK a \in Units, c \in Slots : th[t].u = a /\ th[t].i = c
    BY <1>8, InitPanicsEffect
  <2>1. Holds(t, a, c)
    BY <1>8, <2>0, InitPanicsEffect DEF Holds
  <2>2. <<a, c>> \notin boxes /\ \A x \in Threads \ {t} : ~Holds(x, a, c)
    BY <2>1 DEF OwnerInv
  <2>3. \A s \in Shards : Filled(a, c, s) <=> s < th[t].k
    BY <1>8, <2>1, <2>2, InitPanicsEffect DEF Filled
  <2>4. \A s \in Shards : ~Filled(a, c, s)'
    <3>1. boxes' = boxes /\ \A x \in Threads : ~Holds(x, a, c)'
      BY <1>8, <2>0, <2>2, InitPanicsEffect DEF Holds
    <3>2. QED
      BY <2>2, <3>1 DEF Filled
  <2>5. \A x \in Units, y \in Slots, s \in Shards : <<x, y>> # <<a, c>> =>
           values'[x][y] = values[x][y] /\ (Filled(x, y, s)' <=> Filled(x, y, s))
    <3>1. ASSUME NEW x \in Units, NEW y \in Slots, NEW s \in Shards,
                 <<x, y>> # <<a, c>>, NEW z \in Threads
          PROVE  th'[z].pc = "init" /\ Holds(z, x, y)' /\ s < th'[z].k
                    <=> th[z].pc = "init" /\ Holds(z, x, y) /\ s < th[z].k
      BY <1>8, <2>0, <3>1, InitPanicsEffect DEF Holds
    <3>2. /\ boxes' = boxes
          /\ \A x \in Units, y \in Slots :
                <<x, y>> # <<a, c>> => values'[x][y] = values[x][y]
      BY <1>8, <2>0, InitPanicsEffect
    <3>3. QED
      BY <3>1, <3>2 DEF Filled
  <2>6. ASSUME NEW s \in Shards
        PROVE  values'[a][c][s] = IF Filled(a, c, s)' THEN 1 ELSE 0
    <3>1. values[a][c][s] = IF s < th[t].k THEN 1 ELSE 0
      BY <2>1, <2>3 DEF ValuesInv
    <3>2. values'[a][c][s] = values[a][c][s] + IF s \in 0 .. th[t].k - 1 THEN -1 ELSE 0
      BY <1>8, <2>0, InitPanicsEffect
    <3>3. s \in Nat /\ th[t].k \in Nat
      BY AllocAssumption DEF Shards, TypeOK, ThreadState
    <3>4. QED
      BY <2>4, <3>1, <3>2, <3>3
  <2>7. QED
    BY <2>1, <2>5, <2>6, ValuesAtSlot
<1>9. ASSUME NEW t \in Threads, Unwind(t)
      PROVE  ValuesInv'
  BY <1>9, UnwindEffect, ValuesFrame DEF Filled, Holds, Idle
<1>10. ASSUME NEW t \in Threads, Finish(t)
      PROVE  ValuesInv'
  <2>0. PICK a \in Units, c \in Slots : th[t].u = a /\ th[t].i = c
    BY <1>10, FinishEffect
  <2>1. Holds(t, a, c)
    BY <1>10, <2>0, FinishEffect DEF Holds
  <2>2. <<a, c>> \notin boxes /\ \A x \in Threads \ {t} : ~Holds(x, a, c)
    BY <2>1 DEF OwnerInv
  <2>3. \A s \in Shards : Filled(a, c, s) <=> s < th[t].k
    BY <1>10, <2>1, <2>2, FinishEffect DEF Filled
  <2>4. \A s \in Shards : Filled(a, c, s)
    BY <1>10, <2>3, FinishEffect, AllocAssumption DEF Shards
  <2>5. \A s \in Shards : Filled(a, c, s)'
    BY <1>10, <2>0, FinishEffect DEF Filled
  <2>6. \A x \in Units, y \in Slots, s \in Shards : <<x, y>> # <<a, c>> =>
           (Filled(x, y, s)' <=> Filled(x, y, s))
    BY <1>10, <2>0, FinishEffect, SMTT(60) DEF Filled, Holds, Idle
  <2>7. \A x \in Units, y \in Slots, s \in Shards : Filled(x, y, s)' <=> Filled(x, y, s)
    BY <2>4, <2>5, <2>6
  <2>8. QED
    BY <1>10, <2>7, FinishEffect, ValuesFrame
<1>11. ASSUME NEW t \in Threads, NEW b \in boxes, DropBox(t, b)
      PROVE  ValuesInv'
  <2> DEFINE a == b[1]
             c == b[2]
  <2>1. a \in Units /\ c \in Slots /\ b = <<a, c>>
    BY <1>11, DropBoxEffect
  <2>2. \A x \in Threads : ~Holds(x, a, c)
    BY <2>1 DEF OwnerInv
  <2>3. \A s \in Shards : ~Filled(a, c, s)'
    <3>1. <<a, c>> \notin boxes'
      BY <1>11, <2>1, DropBoxEffect
    <3>2. \A x \in Threads : th'[x].pc = "init" => ~Holds(x, a, c)'
      BY <1>11, <2>2, DropBoxEffect DEF Holds
    <3>3. QED
      BY <3>1, <3>2 DEF Filled
  <2>4. ASSUME NEW x \in Units, NEW y \in Slots, NEW s \in Shards, <<x, y>> # <<a, c>>
        PROVE  values'[x][y] = values[x][y] /\ (Filled(x, y, s)' <=> Filled(x, y, s))
    <3>1. <<x, y>> \in boxes' <=> <<x, y>> \in boxes
      BY <1>11, <2>1, <2>4, DropBoxEffect
    <3>2. /\ th[t].pc # "init" /\ th'[t].pc # "init"
          /\ \A z \in Threads \ {t} : th'[z] = th[z]
      BY <1>11, DropBoxEffect
    <3>3. Filled(x, y, s)' <=> Filled(x, y, s)
      BY <3>1, <3>2 DEF Filled, Holds
    <3>4. QED
      BY <1>11, <2>4, <3>3, DropBoxEffect
  <2>5. \A s \in Shards : values[a][c][s] = 1
    BY <2>1 DEF ValuesInv, Filled
  <2>6. \A s \in Shards : values'[a][c][s] = 0
    BY <1>11, <2>5, DropBoxEffect, SMTT(60)
  <2>7. QED
    BY <2>1, <2>3, <2>4, <2>6, ValuesAtSlot
<1>12. ASSUME NEW t \in Threads, deallocate_without_dropping(t)
      PROVE  ValuesInv'
  BY <1>12, DeallocEffect, ValuesFrame DEF Filled, Holds, Idle
<1>13. ASSUME NEW t \in Threads, NEW s \in Shards, set_current_thread_shard_index(t, s)
      PROVE  ValuesInv'
  BY <1>13, SetShardEffect, ValuesFrame DEF Filled, Holds
<1>14. CASE Maintain
  BY <1>14, MaintainEffect, ValuesFrame DEF Filled, Holds
<1>15. CASE SwapOut
  BY <1>15, SwapOutEffect, SwapEffect, ValuesFrame DEF Filled, Holds
<1>16. CASE Retain
  BY <1>16, RetainEffect, ValuesFrame DEF Filled, Holds
<1>17. CASE Remove
  BY <1>17, RemoveEffect, ValuesFrame DEF Filled, Holds
<1>18. CASE ClearIndexes
  BY <1>18, ClearEffect, ValuesFrame DEF Filled, Holds
<1>19. CASE Index
  BY <1>19, IndexEffect, ValuesFrame DEF Filled, Holds
<1>20. CASE IndexEnd
  BY <1>20, IndexEndEffect, ValuesFrame DEF Filled, Holds
<1>21. CASE SwapBack
  BY <1>21, SwapBackEffect, SwapEffect, ValuesFrame DEF Filled, Holds
<1>22. CASE UNCHANGED vars
  BY <1>22, ValuesFrame DEF vars, Filled, Holds
<1>23. QED
  BY <1>1, <1>2, <1>3, <1>4, <1>5, <1>6, <1>7, <1>8, <1>9, <1>10, <1>11,
     <1>12, <1>13, <1>14, <1>15, <1>16, <1>17, <1>18, <1>19, <1>20, <1>21,
     <1>22
     DEF Next, ThreadStep, CollectorStep

-----------------------------------------------------------------------------
(* The indexes to check, and the collector's scan. *)

LEMMA IndexesGrow ==
    ASSUME NEW q, NEW m \in Nat, NEW n \in Nat, m <= n, q \in Seq(Nat), IndexesBelow(q, m)
    PROVE  IndexesBelow(q, n)
  BY DEF IndexesBelow

LEMMA IndexesAppend ==
    ASSUME NEW q \in Seq(Nat), NEW n \in Nat, IndexesBelow(q, n)
    PROVE  IndexesBelow(Append(q, n), n + 1)
<1> DEFINE w == Append(q, n)
           l == Len(q)
<1>1. /\ l \in Nat /\ Len(w) = l + 1 /\ w[l + 1] = n
      /\ \A m \in 1 .. l : w[m] = q[m] /\ q[m] \in Nat
      /\ \A m \in 1 .. l + 1 : m \in 1 .. l \/ m = l + 1
  OBVIOUS
<1> HIDE DEF w
<1>2. \A m \in 1 .. l : q[m] < n
  BY DEF IndexesBelow
<1>3. \A m \in 1 .. l + 1 : w[m] < n + 1
  BY <1>1, <1>2
<1>4. ASSUME NEW a \in 1 .. l + 1, NEW b \in 1 .. l + 1, w[a] = w[b]
      PROVE  a = b
  <2>1. CASE a \in 1 .. l /\ b \in 1 .. l
    BY <1>1, <1>4, <2>1 DEF IndexesBelow, Distinct
  <2>2. CASE a = l + 1 \/ b = l + 1
    BY <1>1, <1>2, <1>4, <2>2
  <2>3. QED
    BY <1>1, <2>1, <2>2
<1>5. QED
  BY <1>1, <1>3, <1>4 DEF IndexesBelow, Distinct, w

(* A step that leaves the groups and the phase of the collector alone. *)
LEMMA IndexSame ==
    ASSUME IndexInv, UNCHANGED <<group, co>>
    PROVE  IndexInv'
  BY DEF IndexInv

(* A step of a thread that changes the group of its shard, and no other. *)
LEMMA IndexOther ==
    ASSUME IndexInv, co' = co, NEW s \in Shards,
           \A h \in Groups \ {s} : group'[h] = group[h],
           IndexesBelow(group[s].check, Len(group[s].units)) =>
              IndexesBelow(group'[s].check, Len(group'[s].units))
    PROVE  IndexInv'
  BY ShardsAreGroups DEF IndexInv

LEMMA IndexSwap ==
    ASSUME TypeOK, IndexInv, co.s \in Shards, SwapGroups, co.pc \in {"out", "back"},
           co'.pc # "index"
    PROVE  IndexInv'
<1>1. \A g \in Groups : \E h \in Groups : group'[g] = group[h]
  BY SwapEffect, ShardsAreGroups
<1>2. \A h \in Groups : IndexesBelow(group[h].check, Len(group[h].units))
  BY DEF IndexInv
<1>3. QED
  BY <1>1, <1>2 DEF IndexInv

LEMMA IndexStep ==
    ASSUME TypeOK, PlaceInv, SlotInv, IndexInv, ScanInv, [Next]_vars
    PROVE  IndexInv'
<1>1. ASSUME NEW t \in Threads, Lock(t)
      PROVE  IndexInv'
  BY <1>1, LockEffect, IndexSame
<1>2. ASSUME NEW t \in Threads, NEW u \in Units, NewUnit(t, u)
      PROVE  IndexInv'
  BY <1>2, NewUnitEffect, IndexSame
<1>3. ASSUME NEW t \in Threads, NoMemory(t)
      PROVE  IndexInv'
  BY <1>3, NoMemoryEffect, IndexSame
<1>4. ASSUME NEW t \in Threads, PickUnit(t)
      PROVE  IndexInv'
  BY <1>4, PickUnitEffect, IndexSame
<1>5. ASSUME NEW t \in Threads, SwapFlag(t)
      PROVE  IndexInv'
  BY <1>5, SwapFlagEffect, IndexSame
<1>6. ASSUME NEW t \in Threads, ScanFailed(t)
      PROVE  IndexInv'
  <2>1. th[t].s \in Groups /\ th[t].s \in Shards
    BY OwnShard
  <2>2. /\ group[th[t].s].check \in Seq(Nat) /\ Len(group[th[t].s].units) \in Nat
    BY <2>1, GroupTypes
  <2>3. IndexesBelow(group[th[t].s].check, Len(group[th[t].s].units)) =>
           IndexesBelow(group'[th[t].s].check, Len(group'[th[t].s].units))
    BY <1>6, <2>2, ScanFailedEffect, SwapRemove
  <2>4. QED
    BY <1>6, <2>1, <2>3, ScanFailedEffect, IndexOther
<1>7. ASSUME NEW t \in Threads, InitShard(t)
      PROVE  IndexInv'
  BY <1>7, InitShardEffect, IndexSame
<1>8. ASSUME NEW t \in Threads, InitPanics(t)
      PROVE  IndexInv'
  BY <1>8, InitPanicsEffect, IndexSame
<1>9. ASSUME NEW t \in Threads, Unwind(t)
      PROVE  IndexInv'
  BY <1>9, UnwindEffect, IndexSame
<1>10. ASSUME NEW t \in Threads, Finish(t)
      PROVE  IndexInv'
  <2>1. CASE ~th[t].fresh
    BY <1>10, <2>1, FinishEffect, IndexSame
  <2>2. CASE th[t].fresh
    <3> DEFINE s == th[t].s
               q == group[s].units
    <3>1. s \in Groups /\ s \in Shards /\ th[t].u \in Units
      BY <1>10, OwnShard, FinishEffect
    <3>2. group[s].check \in Seq(Nat) /\ q \in Seq(Units) /\ Len(q) \in Nat
      BY <3>1, GroupTypes
    <3>3. /\ group'[s].units = Append(q, th[t].u)
          /\ group'[s].check = Append(group[s].check, Len(q))
          /\ \A h \in Groups \ {s} : group'[h] = group[h]
          /\ co' = co
      BY <1>10, <2>2, FinishEffect
    <3>4. Len(group'[s].units) = Len(q) + 1
      <4>1. Len(Append(q, th[t].u)) = Len(q) + 1
        BY <3>1, <3>2
      <4>2. QED
        BY <3>3, <4>1
    <3>5. IndexesBelow(group[s].check, Len(q)) =>
             IndexesBelow(group'[s].check, Len(group'[s].units))
      BY <3>2, <3>3, <3>4, IndexesAppend
    <3>6. QED
      BY <3>1, <3>3, <3>5, IndexOther
  <2>3. QED
    BY <2>1, <2>2
<1>11. ASSUME NEW t \in Threads, NEW b \in boxes, DropBox(t, b)
      PROVE  IndexInv'
  BY <1>11, DropBoxEffect, IndexSame
<1>12. ASSUME NEW t \in Threads, deallocate_without_dropping(t)
      PROVE  IndexInv'
  BY <1>12, DeallocEffect, IndexSame
<1>13. ASSUME NEW t \in Threads, NEW s \in Shards, set_current_thread_shard_index(t, s)
      PROVE  IndexInv'
  BY <1>13, SetShardEffect, IndexSame
<1>14. CASE Maintain
  BY <1>14, MaintainEffect DEF IndexInv
<1>15. CASE SwapOut
  BY <1>15, SwapOutEffect, IndexSwap
<1>16. CASE Retain
  BY <1>16, RetainEffect DEF IndexInv
<1>17. CASE Remove
  BY <1>17, RemoveEffect DEF IndexInv
<1>18. CASE ClearIndexes
  <2>1. \A n \in Nat : IndexesBelow(<<>>, n)
    BY DEF IndexesBelow, Distinct
  <2>2. co'.p \in Nat /\ Len(group'[Filling].units) \in Nat
    BY <1>18, ClearEffect, FillingType
  <2>3. QED
    BY <1>18, <2>1, <2>2, ClearEffect DEF IndexInv
<1>19. CASE Index
  <2> DEFINE q == group[Filling].check
             l == Len(group[Filling].units)
  <2>1. /\ q \in Seq(Nat) /\ l \in Nat /\ co.p \in Nat /\ co.p + 1 <= l
        /\ co.pc = "index" /\ IndexesBelow(q, co.p)
    BY <1>19, IndexEffect, FillingType DEF IndexInv, TypeOK, ScanState
  <2>2. IndexesBelow(q, co.p + 1) /\ IndexesBelow(Append(q, co.p), co.p + 1)
    BY <2>1, IndexesGrow, IndexesAppend
  <2>3. /\ co'.p \in {co.p, co.p + 1} /\ co'.pc = "index"
        /\ group'[Filling].check = q \/ (co'.p = co.p + 1 /\
                                         group'[Filling].check = Append(q, co.p))
    BY <1>19, IndexEffect
  <2>4. IndexesBelow(group'[Filling].check, co'.p)
    BY <2>1, <2>2, <2>3
  <2>5. /\ group'[Filling].check \in Seq(Nat) /\ co'.p \in Nat /\ co'.p <= l
        /\ group'[Filling].units = group[Filling].units
    <3>1. Append(q, co.p) \in Seq(Nat)
      BY <2>1
    <3>2. group'[Filling].units = group[Filling].units
      BY <1>19, IndexEffect
    <3>3. group'[Filling].check \in Seq(Nat)
      BY <2>1, <2>3, <3>1
    <3>4. co'.p \in Nat /\ co'.p <= l
      BY <2>1, <2>3
    <3>5. QED
      BY <3>2, <3>3, <3>4
  <2>6. IndexesBelow(group'[Filling].check, Len(group'[Filling].units))
    BY <2>1, <2>4, <2>5, IndexesGrow
  <2>7. QED
    BY <1>19, <2>3, <2>4, <2>6, IndexEffect DEF IndexInv
<1>20. CASE IndexEnd
  BY <1>20, IndexEndEffect DEF IndexInv
<1>21. CASE SwapBack
  BY <1>21, SwapBackEffect, IndexSwap
<1>22. CASE UNCHANGED vars
  BY <1>22, IndexSame DEF vars
<1>23. QED
  BY <1>1, <1>2, <1>3, <1>4, <1>5, <1>6, <1>7, <1>8, <1>9, <1>10, <1>11,
     <1>12, <1>13, <1>14, <1>15, <1>16, <1>17, <1>18, <1>19, <1>20, <1>21,
     <1>22
     DEF Next, ThreadStep, CollectorStep

(* Threads leave the filling group alone, but for the flags they reset. *)
FillingFrame ==
    /\ co' = co /\ group'[Filling] = group[Filling]
    /\ \A u \in UnitsOf(Filling), i \in Slots : flag[u][i] = 0 => flag'[u][i] = 0

LEMMA ThreadsLeaveFilling ==
    ASSUME TypeOK, PlaceInv, SlotInv, IndexInv, NEW t \in Threads, ThreadStep(t)
    PROVE  FillingFrame
<1>1. UnitsOf(Filling) \subseteq Units /\ Filling \in Groups
  BY FillingType, ShardsAreGroups DEF UnitsOf, RangeOf
<1>2. CASE UNCHANGED <<group, flag, co>>
  BY <1>2 DEF FillingFrame
<1>3. ASSUME NEW u \in Units, NewUnit(t, u)
      PROVE  FillingFrame
  BY <1>1, <1>3, NewUnitEffect DEF FillingFrame, PlaceInv, Grouped
<1>4. CASE SwapFlag(t)
  <2>1. th[t].u \notin UnitsOf(Filling)
    BY <1>4, SwapFlagEffect, UnitFacts
  <2>2. QED
    BY <1>1, <1>4, <2>1, SwapFlagEffect DEF FillingFrame
<1>5. CASE ScanFailed(t)
  BY <1>1, <1>5, ScanFailedEffect, OwnShard DEF FillingFrame
<1>6. CASE InitPanics(t)
  <2>1. co' = co /\ group' = group
    BY <1>6, InitPanicsEffect
  <2>2. ASSUME NEW u \in Units, NEW i \in Slots, flag[u][i] = 0
        PROVE  flag'[u][i] = 0
    <3>1. CASE <<u, i>> = <<th[t].u, th[t].i>>
      BY <1>6, <3>1, InitPanicsEffect
    <3>2. CASE <<u, i>> # <<th[t].u, th[t].i>>
      BY <1>6, <2>2, <3>2, InitPanicsEffect
    <3>3. QED
      BY <3>1, <3>2
  <2>3. QED
    BY <1>1, <2>1, <2>2 DEF FillingFrame
<1>7. CASE Finish(t)
  BY <1>1, <1>7, FinishEffect, OwnShard DEF FillingFrame
<1>8. CASE deallocate_without_dropping(t)
  BY <1>1, <1>8, DeallocEffect DEF FillingFrame
<1>9. QED
  BY <1>2, <1>3, <1>4, <1>5, <1>6, <1>7, <1>8
     DEF ThreadStep, Lock, NoMemory, PickUnit, InitShard, Unwind, DropBox,
         set_current_thread_shard_index

LEMMA ScanStep ==
    ASSUME TypeOK, PlaceInv, SlotInv, IndexInv, ScanInv, [Next]_vars
    PROVE  ScanInv'
<1>1. ASSUME FillingFrame
      PROVE  ScanInv'
  <2>1. ASSUME co.pc = "retain", co.j > 0, NEW i \in Slots, i < co.j
        PROVE  flag'[UnitAt(co.p)][i] = 0
    <3>1. co.p + 1 \in 1 .. Len(group[Filling].units)
      BY <2>1, FillingType DEF ScanInv, TypeOK, ScanState
    <3>2. UnitAt(co.p) \in UnitsOf(Filling) /\ flag[UnitAt(co.p)][i] = 0
      BY <2>1, <3>1, FillingType DEF ScanInv, UnitAt
    <3>3. QED
      BY <1>1, <3>2 DEF FillingFrame
  <2>2. QED
    BY <1>1, <2>1 DEF ScanInv, UnitAt, FillingFrame
<1>2. CASE Maintain
  BY <1>2, MaintainEffect, Zeros DEF ScanInv
<1>3. CASE SwapOut
  <2>1. co'.pc = "retain" /\ co'.p = 0 /\ co'.j = 0
    BY <1>3, SwapOutEffect
  <2>2. Len(group'[Filling].units) \in Nat
    BY <1>3, SwapOutEffect, SwapEffect, ShardsAreGroups DEF GroupState
  <2>3. QED
    BY <2>1, <2>2 DEF ScanInv
<1>4. CASE SwapBack
  <2>1. Len(group'[Filling].units) \in Nat
    BY <1>4, SwapBackEffect, SwapEffect, ShardsAreGroups DEF GroupState
  <2>2. QED
    BY <1>4, <2>1, SwapBackEffect DEF ScanInv
<1>5. CASE Retain
  <2>1. /\ co.pc = "retain" /\ co'.pc = "retain" /\ group' = group /\ flag' = flag
        /\ co.p < Len(group[Filling].units) /\ co.j \in Slots
    BY <1>5, RetainEffect
  <2>2. co.p \in Nat /\ co.j \in Nat /\ Len(group[Filling].units) \in Nat
    BY FillingType DEF TypeOK, ScanState
  <2>3. CASE flag[UnitAt(co.p)][co.j] = 1
    BY <1>5, <2>1, <2>2, <2>3, RetainEffect DEF ScanInv
  <2>4. CASE flag[UnitAt(co.p)][co.j] # 1
    <3>1. flag[UnitAt(co.p)][co.j] = 0
      <4>1. UnitAt(co.p) \in Units
        BY <1>5, RetainEffect
      <4>2. QED
        BY <2>1, <2>4, <4>1 DEF TypeOK
    <3>2. co'.p = co.p /\ co'.j = co.j + 1
      BY <1>5, <2>4, RetainEffect
    <3>3. \A i \in Slots : i < co.j + 1 => flag[UnitAt(co.p)][i] = 0
      BY <2>1, <2>2, <3>1 DEF ScanInv, Slots
    <3>4. QED
      BY <2>1, <2>2, <3>2, <3>3 DEF ScanInv, UnitAt
  <2>5. QED
    BY <2>3, <2>4
<1>6. CASE Remove
  <2>1. /\ co'.pc = "retain" /\ co'.p = co.p /\ co'.j = 0
        /\ co.p + 1 \in 1 .. Len(group[Filling].units)
        /\ Len(group'[Filling].units) = Len(group[Filling].units) - 1
    BY <1>6, RemoveEffect
  <2>2. co.p \in Nat /\ Len(group[Filling].units) \in Nat
    BY FillingType DEF TypeOK, ScanState
  <2>3. QED
    BY <2>1, <2>2 DEF ScanInv
<1>7. CASE ClearIndexes
  BY <1>7, ClearEffect, FillingType, Zeros DEF ScanInv
<1>8. CASE Index
  <2>1. /\ co'.pc = "index" /\ co'.j \in Slots /\ co'.p \in {co.p, co.p + 1}
        /\ co.p + 1 \in 1 .. Len(group[Filling].units)
        /\ group'[Filling].units = group[Filling].units
    BY <1>8, IndexEffect, Zeros
  <2>2. co.p \in Nat /\ Len(group[Filling].units) \in Nat
    BY FillingType DEF TypeOK, ScanState
  <2>3. QED
    BY <2>1, <2>2 DEF ScanInv
<1>9. CASE IndexEnd
  <2>1. co.s # Filling => co.s \in Shards
    BY DEF TypeOK, ScanState, Groups
  <2>2. QED
    BY <1>9, <2>1, IndexEndEffect DEF ScanInv
<1>10. CASE UNCHANGED vars
  BY <1>10 DEF vars, ScanInv, UnitAt
<1>11. QED
  BY <1>1, <1>2, <1>3, <1>4, <1>5, <1>6, <1>7, <1>8, <1>9, <1>10,
     ThreadsLeaveFilling DEF Next, CollectorStep

-----------------------------------------------------------------------------
(* The progress of the maintenance with the units it found free or idle. *)

LEMMA BackThread ==
    ASSUME TypeOK, ScanInv, BackInv, FillingFrame
    PROVE  BackInv'
<1>1. /\ co' = co /\ group'[Filling] = group[Filling]
      /\ \A u \in UnitsOf(Filling), i \in Slots : flag[u][i] = 0 => flag'[u][i] = 0
  BY DEF FillingFrame
<1>2. ASSUME co.p < Len(group[Filling].units)
      PROVE  UnitAt(co.p) \in UnitsOf(Filling)
  BY <1>2, FillingType DEF UnitAt, TypeOK, ScanState
<1>3. QED
  BY <1>1, <1>2 DEF BackInv, UnitsOf, UnitAt

LEMMA BackBegin ==
    ASSUME TypeOK, group' \in [Groups -> GroupState], NEW s \in Groups,
           BeginMaintenance(s), flag' = flag
    PROVE  BackInv'
<1>1. /\ co'.pc = "retain" /\ co'.p = 0
      /\ co'.free = {u \in RangeOf(group'[Filling].units) :
                        \E i \in Slots : flag[u][i] = 0}
      /\ co'.idle = {u \in RangeOf(group'[Filling].units) :
                        \A i \in Slots : flag[u][i] = 0}
  BY BeginEffect
<1>2. \A n \in 1 .. Len(group'[Filling].units) : ~(n <= co'.p)
  BY <1>1
<1>3. QED
  BY <1>1, <1>2 DEF BackInv, UnitsOf

LEMMA BackStep ==
    ASSUME TypeOK, PlaceInv, SlotInv, IndexInv, ScanInv, BackInv, [Next]_vars
    PROVE  BackInv'
<1>1. ASSUME NEW t \in Threads, ThreadStep(t)
      PROVE  BackInv'
  BY <1>1, ThreadsLeaveFilling, BackThread
<1>2. CASE Maintain
  BY <1>2, MaintainEffect DEF BackInv
<1>3. CASE SwapOut
  <2>1. group' \in [Groups -> GroupState] /\ flag' = flag /\ co.s \in Groups
    BY <1>3, SwapOutEffect, SwapEffect, ShardsAreGroups
  <2>2. QED
    BY <1>3, <2>1, SwapOutEffect, BackBegin
<1>4. CASE SwapBack
  <2>1. group' \in [Groups -> GroupState] /\ flag' = flag /\ Filling \in Groups
    BY <1>4, SwapBackEffect, SwapEffect, ShardsAreGroups
  <2>2. CASE co'.pc = "out"
    BY <2>2 DEF BackInv
  <2>3. CASE BeginMaintenance(Filling)
    BY <2>1, <2>3, BackBegin
  <2>4. QED
    BY <1>4, <2>2, <2>3, SwapBackEffect
<1>5. CASE Retain
  <2> DEFINE q == group[Filling].units
  <2>1. /\ co.pc = "retain" /\ co'.pc = "retain" /\ group' = group /\ flag' = flag
        /\ co.j \in Slots /\ co'.free = co.free /\ co'.idle = co.idle
        /\ co.p + 1 \in 1 .. Len(q) /\ UnitAt(co.p) \in UnitsOf(Filling)
        /\ UnitAt(co.p) = q[co.p + 1] /\ co.p \in Nat /\ Len(q) \in Nat
    BY <1>5, RetainEffect, FillingType DEF UnitAt, TypeOK, ScanState
  <2>2. \A n \in 1 .. Len(q) : n <= co'.p => q[n] \notin co.idle
    <3>1. CASE flag[UnitAt(co.p)][co.j] = 1
      <4>1. UnitAt(co.p) \notin co.idle
        BY <2>1, <3>1 DEF BackInv
      <4>2. co'.p = co.p + 1
        BY <1>5, <3>1, RetainEffect
      <4>3. \A n \in 1 .. Len(q) : n <= co.p => q[n] \notin co.idle
        BY <2>1 DEF BackInv
      <4>4. QED
        BY <2>1, <4>1, <4>2, <4>3
    <3>2. CASE flag[UnitAt(co.p)][co.j] # 1
      <4>1. co'.p = co.p
        BY <1>5, <3>2, RetainEffect
      <4>2. QED
        BY <2>1, <4>1 DEF BackInv
    <3>3. QED
      BY <3>1, <3>2
  <2>3. QED
    BY <2>1, <2>2 DEF BackInv, UnitsOf
<1>6. CASE Remove
  <2>1. PICK v, q, w, p : v = UnitAt(co.p) /\ q = group[Filling].units
                          /\ w = group'[Filling].units /\ p = co.p
    OBVIOUS
  <2>2. /\ co.pc = "retain" /\ co'.pc = "retain" /\ flag' = flag /\ co'.p = p
        /\ p \in Nat /\ p + 1 \in 1 .. Len(q) /\ Len(w) = Len(q) - 1
        /\ q \in Seq(Units) /\ w \in Seq(Units) /\ Len(q) \in Nat
        /\ \A n \in 1 .. Len(w) : w[n] = q[IF n <= p THEN n ELSE n + 1]
        /\ co'.free = co.free \ {v} /\ co'.idle = co.idle \ {v}
        /\ v = q[p + 1]
    BY <1>6, <2>1, RemoveEffect, FillingType DEF UnitAt, TypeOK, ScanState
  <2>3. RangeOf(w) = RangeOf(q) \ {v}
    <3>1. Distinct(q)
      BY <2>1, ShardsAreGroups DEF PlaceInv
    <3>2. RangeOf(w) = RangeOf(q) \ {q[p + 1]}
      BY ONLY <2>2, <3>1, RangeRemove, SMTT(60)
    <3>3. QED
      BY <2>2, <3>2
  <2>4. \A n \in 1 .. Len(w) : n <= p => w[n] \notin co'.idle
    <3>1. \A n \in 1 .. Len(q) : n <= p => q[n] \notin co.idle
      BY <2>1, <2>2 DEF BackInv
    <3>2. QED
      BY <2>2, <3>1
  <2>5. \A u \in RangeOf(w) :
           /\ u \in co'.free => \E i \in Slots : flag'[u][i] = 0
           /\ u \in co'.idle => \A i \in Slots : flag'[u][i] = 0
    BY <2>1, <2>2, <2>3 DEF BackInv, UnitsOf
  <2>6. QED
    BY <2>1, <2>2, <2>4, <2>5 DEF BackInv, UnitsOf
<1>7. CASE ClearIndexes
  <2>1. PICK q : q = group[Filling].units
    OBVIOUS
  <2>2. /\ co.pc = "retain" /\ co.p = Len(q) /\ co'.pc = "index" /\ co'.p = 0
        /\ co'.j = 0 /\ co'.free = co.free /\ co'.idle = co.idle /\ flag' = flag
        /\ group'[Filling].units = q /\ Len(q) \in Nat
        /\ \A n \in 1 .. Len(q) : q[n] \in UnitsOf(Filling)
    BY <1>7, <2>1, ClearEffect, FillingType
  <2>3. \A n \in 1 .. Len(q) : q[n] \notin co.idle /\ ~(n <= 0)
    BY <2>1, <2>2 DEF BackInv
  <2>4. \A u \in RangeOf(q) :
           /\ u \in co.free => \E i \in Slots : flag[u][i] = 0
           /\ u \in co.idle => \A i \in Slots : flag[u][i] = 0
    BY <2>1, <2>2 DEF BackInv, UnitsOf
  <2>5. \A i \in Slots : i >= 0
    BY DEF Slots
  <2>6. 0 < Len(q) => q[0 + 1] \in RangeOf(q)
    BY <2>2 DEF RangeOf
  <2>7. QED
    BY <2>2, <2>3, <2>4, <2>5, <2>6 DEF BackInv, UnitsOf, UnitAt
<1>8. CASE Index
  <2>1. PICK v, q, c, p, j : /\ v = UnitAt(co.p) /\ q = group[Filling].units
                             /\ c = group[Filling].check /\ p = co.p /\ j = co.j
    OBVIOUS
  <2>2. /\ co.pc = "index" /\ co'.pc = "index" /\ flag' = flag
        /\ co'.free = co.free /\ co'.idle = co.idle
        /\ group'[Filling].units = q /\ q \in Seq(Units) /\ c \in Seq(Nat)
        /\ p \in Nat /\ Len(q) \in Nat /\ p + 1 \in 1 .. Len(q) /\ v = q[p + 1]
        /\ j \in Slots /\ j \in Nat /\ v \in Units
    BY <1>8, <2>1, IndexEffect, FillingType DEF UnitAt, TypeOK, ScanState, Slots
  <2>3. /\ \A u \in RangeOf(q) :
              /\ u \in co.free => \E i \in Slots : flag[u][i] = 0
              /\ u \in co.idle => \A i \in Slots : flag[u][i] = 0
        /\ \A n \in 1 .. Len(q) : q[n] \notin co.idle
        /\ \A n \in 1 .. Len(q) : n <= p /\ q[n] \in co.free => n - 1 \in RangeOf(c)
        /\ v \in co.free => \E i \in Slots : i >= j /\ flag[v][i] = 0
    BY <2>1, <2>2, SMTT(60) DEF BackInv, UnitsOf
  <2>4. CASE flag[v][j] = 0
    <3>1. group'[Filling].check = Append(c, p) /\ co'.p = p + 1 /\ co'.j = 0
      BY <1>8, <2>1, <2>4, IndexEffect
    <3>2. RangeOf(Append(c, p)) = RangeOf(c) \cup {p}
      BY <2>2, RangeAppend
    <3>3. \A n \in 1 .. Len(q) :
             n <= p + 1 /\ q[n] \in co.free => n - 1 \in RangeOf(Append(c, p))
      BY <2>2, <2>3, <3>2
    <3>4. p + 1 < Len(q) => q[p + 1 + 1] \in RangeOf(q)
      BY <2>2 DEF RangeOf
    <3>5. \A i \in Slots : i >= 0
      BY DEF Slots
    <3>6. p + 1 < Len(q) /\ q[p + 1 + 1] \in co.free =>
             \E i \in Slots : i >= 0 /\ flag[q[p + 1 + 1]][i] = 0
      BY <2>3, <3>4, <3>5
    <3>7. PICK d, r : d = Append(c, p) /\ r = p + 1
      OBVIOUS
    <3>8. QED
      BY <2>2, <2>3, <3>1, <3>3, <3>6, <3>7 DEF BackInv, UnitsOf, UnitAt
  <2>5. CASE flag[v][j] # 0 /\ j = SlotCount - 1
    <3>1. group'[Filling].check = c /\ co'.p = p + 1 /\ co'.j = 0
      BY <1>8, <2>1, <2>5, IndexEffect
    <3>2. v \notin co.free
      <4>1. \A i \in Slots : i >= j => i = j
        BY <2>5, AllocAssumption DEF Slots
      <4>2. QED
        BY <2>3, <2>5, <4>1
    <3>3. \A n \in 1 .. Len(q) :
             n <= p + 1 /\ q[n] \in co.free => n - 1 \in RangeOf(c)
      BY <2>2, <2>3, <3>2
    <3>4. p + 1 < Len(q) => q[p + 1 + 1] \in RangeOf(q)
      BY <2>2 DEF RangeOf
    <3>5. \A i \in Slots : i >= 0
      BY DEF Slots
    <3>6. p + 1 < Len(q) /\ q[p + 1 + 1] \in co.free =>
             \E i \in Slots : i >= 0 /\ flag[q[p + 1 + 1]][i] = 0
      BY <2>3, <3>4, <3>5
    <3>7. PICK r : r = p + 1
      OBVIOUS
    <3>8. QED
      BY <2>2, <2>3, <3>1, <3>3, <3>6, <3>7 DEF BackInv, UnitsOf, UnitAt
  <2>6. CASE flag[v][j] # 0 /\ j # SlotCount - 1
    <3>1. group'[Filling].check = c /\ co'.p = p /\ co'.j = j + 1
      BY <1>8, <2>1, <2>6, IndexEffect
    <3>2. v \in co.free => \E i \in Slots : i >= j + 1 /\ flag[v][i] = 0
      <4>1. \A i \in Slots : i >= j /\ i # j => i >= j + 1
        BY <2>2 DEF Slots
      <4>2. QED
        BY <2>3, <2>6, <4>1
    <3>3. QED
      BY <2>2, <2>3, <3>1, <3>2 DEF BackInv, UnitsOf, UnitAt
  <2>7. QED
    BY <2>4, <2>5, <2>6
<1>9. CASE IndexEnd
  BY <1>9, IndexEndEffect DEF BackInv
<1>10. CASE UNCHANGED vars
  BY <1>10 DEF vars, BackInv, UnitsOf, UnitAt
<1>11. QED
  BY <1>1, <1>2, <1>3, <1>4, <1>5, <1>6, <1>7, <1>8, <1>9, <1>10
     DEF Next, CollectorStep

-----------------------------------------------------------------------------
(* The invariant, and what follows from it. *)

LEMMA InitHolds == ASSUME Init PROVE IInv
<1>1. TypeOK
  <2>1. EmptyGroup \in GroupState
    BY DEF EmptyGroup, GroupState
  <2>2. group \in [Groups -> GroupState] /\ th \in [Threads -> ThreadState]
    BY <2>1, IdleState DEF Init
  <2>3. co \in ScanState
    BY Zeros, ShardsAreGroups DEF Init, ScanState
  <2>4. values \in [Units -> [Slots -> [Shards -> Int]]]
        /\ flag \in [Units -> [Slots -> 0 .. 1]]
    BY DEF Init
  <2>5. QED
    BY <2>2, <2>3, <2>4 DEF Init, TypeOK
<1>2. /\ \A t \in Threads : th[t] = Idle
      /\ \A g \in Groups : group[g].units = <<>> /\ group[g].check = <<>>
      /\ live = {} /\ boxes = {} /\ co.pc = "idle"
  BY DEF Init, EmptyGroup
<1>3. \A g \in Groups : Len(group[g].units) = 0 /\ Len(group[g].check) = 0
  BY <1>2
<1>4. \A g \in Groups : UnitsOf(g) = {} /\ Distinct(group[g].units)
  BY <1>3 DEF UnitsOf, RangeOf, Distinct
<1>5. \A t \in Threads : /\ th[t].pc = "idle" /\ ~th[t].fresh
                         /\ \A u, i : ~Holds(t, u, i)
  BY <1>2 DEF Idle, Holds
<1>6. LockInv
  BY <1>5 DEF LockInv, InAllocate
<1>7. PlaceInv
  BY <1>2, <1>4, <1>5 DEF PlaceInv, Grouped, HasUnit
<1>8. OwnerInv /\ SlotInv
  BY <1>2, <1>5 DEF OwnerInv, SlotInv
<1>9. ValuesInv
  BY <1>2, <1>5 DEF ValuesInv, Filled, Init
<1>10. IndexInv
  BY <1>2, <1>3 DEF IndexInv, IndexesBelow, Distinct
<1>11. ScanInv /\ BackInv
  BY <1>2 DEF ScanInv, BackInv
<1>12. QED
  BY <1>1, <1>6, <1>7, <1>8, <1>9, <1>10, <1>11 DEF IInv

LEMMA Inductive == Spec => []IInv
<1>1. IInv /\ [Next]_vars => IInv'
  BY TypeStep, LockStep, PlaceStep, OwnerStep, SlotStep, ValuesStep, IndexStep,
     ScanStep, BackStep DEF IInv
<1>2. QED
  BY <1>1, InitHolds, PTL DEF Spec

(* The state of the allocator has its type; in particular the unit and the *)
(* slot a thread is in lie in the range of the flags.                      *)
THEOREM AllocTypeCorrect == Spec => []TypeOK
<1>1. IInv => TypeOK
  BY DEF IInv
<1>2. QED
  BY <1>1, Inductive, PTL

LEMMA HeldByHolds ==
    ASSUME TypeOK, PlaceInv, SlotInv, NEW t \in Threads
    PROVE  /\ HeldBy(t) \subseteq Units \X Slots
           /\ \A u \in Units, i \in Slots : <<u, i>> \in HeldBy(t) <=> Holds(t, u, i)
<1>1. th[t].pc \in {"init", "dealloc"} => th[t].u \in Units /\ th[t].i \in Slots
  BY UnitFacts
<1>2. QED
  BY <1>1 DEF HeldBy, Holds

LEMMA OwnersApart == ASSUME IInv PROVE OneOwner
<1>1. TypeOK /\ PlaceInv /\ SlotInv /\ OwnerInv
  BY DEF IInv
<1>2. live \subseteq Units /\ boxes \subseteq Units \X Slots
  BY <1>1 DEF TypeOK
<1>3. ASSUME NEW u \in live, NEW i \in Slots
      PROVE  flag[u][i] = 1 <=> <<u, i>> \in Owned
  <2>1. <<u, i>> \in Owned <=> <<u, i>> \in boxes \/ \E t \in Threads : Holds(t, u, i)
    BY <1>1, <1>2, HeldByHolds DEF Owned
  <2>2. QED
    BY <1>1, <2>1 DEF OwnerInv
<1>4. ASSUME NEW t \in Threads, NEW b \in HeldBy(t)
      PROVE  b \notin boxes /\ \A r \in Threads \ {t} : b \notin HeldBy(r)
  <2>1. PICK u \in Units, i \in Slots : b = <<u, i>>
    BY <1>1, <1>4, HeldByHolds
  <2>2. QED
    BY <1>1, <1>4, <2>1, HeldByHolds DEF OwnerInv
<1>5. QED
  BY <1>3, <1>4 DEF OneOwner

(* A slot never has two owners, and its flag tells whether it has one, for *)
(* any number of threads that swap the flags of the same unit: the two     *)
(* assertions of the allocator on the flag hold.                           *)
THEOREM SlotsHaveOneOwner == Spec => []OneOwner
  BY OwnersApart, Inductive, PTL

(* What init_func makes of a slot is dropped exactly once, whether it runs *)
(* to the end or panics at any shard.                                      *)
THEOREM ValuesDroppedOnce == Spec => []ValuesMatch
<1>1. ASSUME IInv PROVE ValuesMatch
  <2>1. TypeOK /\ PlaceInv /\ SlotInv /\ ValuesInv
    BY <1>1 DEF IInv
  <2>2. ASSUME NEW u \in Units, NEW i \in Slots, NEW s \in Shards
        PROVE  values[u][i][s] =
                 IF \/ <<u, i>> \in boxes
                    \/ \E t \in Threads :
                          th[t].pc = "init" /\ <<u, i>> \in HeldBy(t) /\ s < th[t].k
                 THEN 1 ELSE 0
    <3>1. \A t \in Threads : <<u, i>> \in HeldBy(t) <=> Holds(t, u, i)
      BY <2>1, HeldByHolds
    <3>2. QED
      BY <2>1, <3>1 DEF ValuesInv, Filled
  <2>3. QED
    BY <2>2 DEF ValuesMatch
<1>2. QED
  BY <1>1, Inductive, PTL

LEMMA DistinctCount ==
    ASSUME NEW S, NEW q \in Seq(S), Distinct(q)
    PROVE  NoRepeats(q)
<1>1. q \in [1 .. Len(q) -> RangeOf(q)] /\ Len(q) \in Nat
  BY DEF RangeOf
<1>2. q \in Bijection(1 .. Len(q), RangeOf(q))
  BY <1>1 DEF Bijection, Injection, Surjection, IsInjective, Distinct, RangeOf
<1>3. Cardinality(RangeOf(q)) = Len(q)
  BY <1>1, <1>2, FS_CountingElements DEF ExistsBijection
<1>4. QED
  BY <1>3 DEF NoRepeats

(* No unit is lost and none is in two groups, although the collector moves *)
(* the groups of all shards through the filling group and new units are    *)
(* appended to a group that may have been swapped since.                   *)
THEOREM UnitsPlacedOnce == Spec => []PlacedOnce
<1>1. ASSUME IInv PROVE PlacedOnce
  <2>1. TypeOK /\ PlaceInv
    BY <1>1 DEF IInv
  <2>2. live \subseteq Units /\ \A g \in Groups : UnitsOf(g) \subseteq Units
    BY <2>1, GroupTypes DEF TypeOK, UnitsOf, RangeOf
  <2>3. \A t \in Threads : Fresh(t) \subseteq Units
    BY <2>1 DEF Fresh, PlaceInv
  <2>4. live = (UNION {UnitsOf(g) : g \in Groups}) \cup UNION {Fresh(t) : t \in Threads}
    <3>1. \A u \in Units : u \in live <=> \/ \E g \in Groups : u \in UnitsOf(g)
                                          \/ \E t \in Threads : u \in Fresh(t)
      BY <2>1 DEF PlaceInv, Grouped, Fresh
    <3>2. QED
      BY <2>2, <2>3, <3>1
  <2>5. \A g \in Groups : NoRepeats(group[g].units)
    BY <2>1, GroupTypes, DistinctCount DEF PlaceInv
  <2>6. \A g \in Groups, t \in Threads : UnitsOf(g) \cap Fresh(t) = {}
    BY <2>1 DEF PlaceInv, Grouped, Fresh
  <2>7. QED
    BY <2>1, <2>4, <2>5, <2>6 DEF PlacedOnce, PlaceInv, UnitsOf
<1>2. QED
  BY <1>1, Inductive, PTL

(* The indexes a thread takes a unit from are positions of its group:      *)
(* retain_mut moves units while the group is out of reach of the threads,  *)
(* and the indexes are rebuilt before it comes back.                       *)
THEOREM IndexesNeverStale == Spec => []IndexesValid
<1>1. ASSUME IInv PROVE IndexesValid
  <2>1. TypeOK /\ IndexInv
    BY <1>1 DEF IInv
  <2>2. ASSUME NEW s \in Shards
        PROVE  /\ \A n \in RangeOf(group[s].check) : n < Len(group[s].units)
               /\ NoRepeats(group[s].check)
    <3>1. s \in Groups /\ s # Filling /\ group[s].check \in Seq(Nat)
      BY <2>1, ShardsAreGroups, GroupTypes
    <3>2. IndexesBelow(group[s].check, Len(group[s].units))
      BY <2>1, <3>1 DEF IndexInv
    <3>3. QED
      BY <3>1, <3>2, DistinctCount DEF IndexesBelow, RangeOf
  <2>3. QED
    BY <2>2 DEF IndexesValid
<1>2. QED
  BY <1>1, Inductive, PTL

(* The maintenance of a group offers every unit that had a free slot when  *)
(* it began, or gives its memory back, and keeps no unit that was idle:    *)
(* has_any_free_slot and is_any_slot_used read the flags one by one while  *)
(* threads reset others.                                                   *)
THEOREM FreeSlotsComeBack == Spec => SlotsComeBack
<1>1. ASSUME IInv, [Next]_vars, co.pc = "index", co'.pc # "index"
      PROVE  LET g == group[Filling] IN
             \A n \in 1 .. Len(g.units) :
                /\ g.units[n] \in co.free => n - 1 \in RangeOf(g.check)
                /\ g.units[n] \notin co.idle
  <2>1. TypeOK /\ PlaceInv /\ SlotInv /\ IndexInv /\ ScanInv /\ BackInv
    BY <1>1 DEF IInv
  <2>2. IndexEnd
    <3>1. \A t \in Threads : ~ThreadStep(t)
      BY <1>1, <2>1, ThreadsLeaveFilling DEF FillingFrame
    <3>2. ~Index
      BY <1>1, <2>1, IndexEffect
    <3>3. QED
      BY <1>1, <3>1, <3>2 DEF Next, CollectorStep, vars, Maintain, SwapOut, Retain,
         Remove, ClearIndexes, SwapBack, Scanning
  <2>3. co.p = Len(group[Filling].units) /\ Len(group[Filling].units) \in Nat
    BY <2>1, <2>2, IndexEndEffect, FillingType
  <2>4. QED
    BY <1>1, <2>1, <2>3 DEF BackInv
<1>2. QED
  BY <1>1, Inductive, PTL DEF Spec, SlotsComeBack

-----------------------------------------------------------------------------
(* The allocator implements the abstract pool. *)

LEMMA OwnedSame ==
    ASSUME NEW t \in Threads, \A x \in Threads \ {t} : th'[x] = th[x],
           boxes' \cup HeldBy(t)' = boxes \cup HeldBy(t)
    PROVE  Owned' = Owned
<1>1. \A x \in Threads \ {t} : HeldBy(x)' = HeldBy(x)
  BY DEF HeldBy
<1>2. QED
  BY <1>1 DEF Owned

LEMMA OwnedUnchanged == ASSUME boxes' = boxes, th' = th PROVE Owned' = Owned
  BY DEF Owned, HeldBy

LEMMA OwnedMore ==
    ASSUME NEW t \in Threads, \A x \in Threads \ {t} : th'[x] = th[x], NEW b,
           boxes' = boxes, HeldBy(t) = {}, HeldBy(t)' = {b}
    PROVE  Owned' = Owned \cup {b}
<1>1. \A x \in Threads \ {t} : HeldBy(x)' = HeldBy(x)
  BY DEF HeldBy
<1>2. QED
  BY <1>1 DEF Owned

LEMMA OwnedLess ==
    ASSUME NEW t \in Threads, \A x \in Threads \ {t} : th'[x] = th[x], NEW b,
           boxes' = boxes, HeldBy(t) = {b}, HeldBy(t)' = {}, OneOwner
    PROVE  Owned' = Owned \ {b} /\ b \in Owned
<1>1. \A x \in Threads \ {t} : HeldBy(x)' = HeldBy(x)
  BY DEF HeldBy
<1>2. b \notin boxes /\ \A x \in Threads \ {t} : b \notin HeldBy(x)
  BY DEF OneOwner
<1>3. QED
  BY <1>1, <1>2 DEF Owned

PoolSame == live' = live /\ Owned' = Owned

LEMMA ThreadRefines ==
    ASSUME IInv, NEW t \in Threads, ThreadStep(t)
    PROVE  Pool!Next \/ PoolSame
<1>1. TypeOK /\ PlaceInv /\ OwnerInv /\ SlotInv /\ IndexInv
  BY DEF IInv
<1>2. OneOwner
  BY OwnersApart
<1>3. ASSUME \/ Lock(t) \/ NoMemory(t) \/ PickUnit(t) \/ ScanFailed(t) \/ InitShard(t)
      PROVE  PoolSame
  <2>1. /\ \A x \in Threads \ {t} : th'[x] = th[x]
        /\ live' = live /\ boxes' = boxes
    BY <1>1, <1>3, LockEffect, NoMemoryEffect, PickUnitEffect, ScanFailedEffect,
       InitShardEffect
  <2>2. HeldBy(t)' = HeldBy(t)
    <3>1. CASE InitShard(t)
      BY <1>1, <3>1, InitShardEffect DEF HeldBy
    <3>2. CASE ~InitShard(t)
      BY <1>1, <1>3, <3>2, LockEffect, NoMemoryEffect, PickUnitEffect,
         ScanFailedEffect DEF HeldBy, Idle
    <3>3. QED
      BY <3>1, <3>2
  <2>3. QED
    BY <2>1, <2>2, OwnedSame DEF PoolSame
<1>4. ASSUME NEW u \in Units, NewUnit(t, u)
      PROVE  Pool!Next
  <2>1. /\ u \notin live /\ live' = live \cup {u} /\ boxes' = boxes
        /\ \A x \in Threads \ {t} : th'[x] = th[x]
        /\ HeldBy(t) = {} /\ HeldBy(t)' = {}
    BY <1>1, <1>4, NewUnitEffect DEF HeldBy
  <2>2. Owned' = Owned
    BY <2>1, OwnedSame
  <2>3. QED
    BY <2>1, <2>2 DEF Pool!Next, Pool!Map
<1>5. CASE SwapFlag(t)
  <2>1. PICK a, c : a = th[t].u /\ c = th[t].i
    OBVIOUS
  <2>2. /\ a \in Units /\ c \in Slots /\ live' = live /\ boxes' = boxes
        /\ \A x \in Threads \ {t} : th'[x] = th[x]
        /\ HeldBy(t) = {}
    BY <1>1, <1>5, <2>1, SwapFlagEffect DEF HeldBy
  <2>3. CASE flag[a][c] # 0
    <3>1. HeldBy(t)' = {}
      BY <1>1, <1>5, <2>1, <2>3, SwapFlagEffect DEF HeldBy
    <3>2. QED
      BY <2>2, <3>1, OwnedSame DEF PoolSame
  <2>4. CASE flag[a][c] = 0
    <3>1. HeldBy(t)' = {<<a, c>>}
      BY <1>1, <1>5, <2>1, <2>4, SwapFlagEffect DEF HeldBy
    <3>2. Owned' = Owned \cup {<<a, c>>}
      BY <2>2, <3>1, OwnedMore
    <3>3. a \in live
      BY <1>1, <1>5, <2>1, SwapFlagEffect, UnitFacts
    <3>4. <<a, c>> \notin Owned
      BY <1>2, <2>2, <2>4, <3>3 DEF OneOwner
    <3>5. QED
      BY <2>2, <3>2, <3>3, <3>4 DEF Pool!Next, Pool!Take
  <2>5. QED
    BY <2>3, <2>4
<1>6. ASSUME InitPanics(t) \/ deallocate_without_dropping(t)
      PROVE  Pool!Next
  <2>1. PICK a, c : a = th[t].u /\ c = th[t].i
    OBVIOUS
  <2>2. /\ a \in Units /\ c \in Slots /\ live' = live /\ boxes' = boxes
        /\ \A x \in Threads \ {t} : th'[x] = th[x]
    BY <1>1, <1>6, <2>1, InitPanicsEffect, DeallocEffect
  <2>3. HeldBy(t) = {<<a, c>>} /\ HeldBy(t)' = {}
    BY <1>1, <1>6, <2>1, InitPanicsEffect, DeallocEffect DEF HeldBy, Idle
  <2>4. Owned' = Owned \ {<<a, c>>} /\ <<a, c>> \in Owned
    BY <1>2, <2>2, <2>3, OwnedLess
  <2>5. QED
    BY <2>2, <2>4 DEF Pool!Next, Pool!Give
<1>7. CASE Unwind(t)
  <2>1. /\ boxes' = boxes /\ \A x \in Threads \ {t} : th'[x] = th[x]
        /\ HeldBy(t) = {} /\ HeldBy(t)' = {}
    BY <1>1, <1>7, UnwindEffect DEF HeldBy, Idle
  <2>2. Owned' = Owned
    BY <2>1, OwnedSame
  <2>3. CASE ~th[t].fresh
    BY <1>1, <1>7, <2>2, <2>3, UnwindEffect DEF PoolSame
  <2>4. CASE th[t].fresh
    <3>1. PICK a : a = th[t].u
      OBVIOUS
    <3>2. a \in Units /\ a \in live /\ live' = live \ {a} /\ ~Grouped(a)
      BY <1>1, <1>7, <2>4, <3>1, UnwindEffect, UnitFacts DEF PlaceInv
    <3>3. ASSUME NEW i \in Slots, <<a, i>> \in Owned
          PROVE  FALSE
      <4>1. <<a, i>> \notin boxes
        BY <1>1, <3>2 DEF SlotInv
      <4>2. PICK r \in Threads : <<a, i>> \in HeldBy(r)
        BY <3>3, <4>1 DEF Owned
      <4>3. th[r].u = a /\ th[r].pc \in {"init", "dealloc"}
        BY <4>2 DEF HeldBy
      <4>4. th[r].pc = "init"
        BY <1>1, <3>2, <4>3 DEF SlotInv
      <4>5. CASE th[r].fresh
        BY <1>1, <1>7, <2>4, <3>1, <4>3, <4>4, <4>5, UnwindEffect DEF PlaceInv
      <4>6. CASE ~th[r].fresh
        BY <1>1, <3>2, <4>3, <4>4, <4>6, OwnShard DEF PlaceInv, HasUnit, Grouped
      <4>7. QED
        BY <4>5, <4>6
    <3>4. QED
      BY <2>2, <3>2, <3>3 DEF Pool!Next, Pool!Unmap
  <2>5. QED
    BY <2>3, <2>4
<1>8. CASE Finish(t)
  <2>1. PICK b : b = <<th[t].u, th[t].i>>
    OBVIOUS
  <2>2. /\ boxes' = boxes \cup {b} /\ \A x \in Threads \ {t} : th'[x] = th[x]
        /\ live' = live
    BY <1>1, <1>8, <2>1, FinishEffect
  <2>3. HeldBy(t) = {b} /\ HeldBy(t)' = {}
    BY <1>1, <1>8, <2>1, FinishEffect, SMTT(60) DEF HeldBy, Idle
  <2>4. QED
    BY <2>2, <2>3, OwnedSame DEF PoolSame
<1>9. ASSUME NEW b \in boxes, DropBox(t, b)
      PROVE  PoolSame
  <2>1. /\ boxes' = boxes \ {b} /\ \A x \in Threads \ {t} : th'[x] = th[x]
        /\ live' = live /\ b = <<b[1], b[2]>>
    BY <1>1, <1>9, DropBoxEffect
  <2>2. HeldBy(t) = {} /\ HeldBy(t)' = {b}
    BY <1>1, <1>9, <2>1, DropBoxEffect DEF HeldBy
  <2>3. QED
    BY <2>1, <2>2, OwnedSame DEF PoolSame
<1>10. ASSUME NEW s \in Shards, set_current_thread_shard_index(t, s)
       PROVE  PoolSame
  BY <1>1, <1>10, SetShardEffect, OwnedUnchanged DEF PoolSame
<1>11. QED
  BY <1>3, <1>4, <1>5, <1>6, <1>7, <1>8, <1>9, <1>10 DEF ThreadStep

LEMMA CollectorRefines ==
    ASSUME IInv, CollectorStep
    PROVE  Pool!Next \/ PoolSame
<1>1. TypeOK /\ PlaceInv /\ OwnerInv /\ SlotInv /\ ScanInv
  BY DEF IInv
<1>2. boxes' = boxes /\ th' = th
  BY DEF CollectorStep, Maintain, SwapOut, Retain, Remove, ClearIndexes, Index,
         IndexEnd, SwapBack, SwapGroups
<1>3. Owned' = Owned
  BY <1>2, OwnedUnchanged
<1>4. CASE Remove
  <2>1. PICK v : v = UnitAt(co.p)
    OBVIOUS
  <2>2. v \in Units /\ live' = live \ {v} /\ v \in live
    BY <1>1, <1>4, <2>1, RemoveEffect, ShardsAreGroups DEF PlaceInv, Grouped
  <2>3. \A i \in Slots : <<v, i>> \notin Owned
    BY <1>1, <1>4, <2>1, <2>2, RemoveUnowned, HeldByHolds DEF Owned
  <2>4. QED
    BY <1>3, <2>2, <2>3 DEF Pool!Next, Pool!Unmap
<1>5. CASE ~Remove
  <2>1. live' = live
    BY <1>5 DEF CollectorStep, Maintain, SwapOut, Retain, ClearIndexes, Index,
       IndexEnd, SwapBack, SwapGroups
  <2>2. QED
    BY <1>3, <2>1 DEF PoolSame
<1>6. QED
  BY <1>4, <1>5

(* The allocator is a pool of slots: a slot is handed out when nobody owns *)
(* it, and the memory of a unit is given back only while none of its slots *)
(* is owned, for any number of threads that give slots back while the      *)
(* collector reads the flags one after the other.                          *)
THEOREM ImplementsPool == Spec => PoolSpec
<1>1. Init => Pool!Init
  <2> SUFFICES ASSUME Init PROVE Pool!Init
    OBVIOUS
  <2>1. \A t \in Threads : HeldBy(t) = {}
    BY DEF Init, HeldBy, Idle
  <2>2. QED
    BY <2>1 DEF Init, Pool!Init, Owned
<1>2. IInv /\ [Next]_vars => [Pool!Next]_Pool!vars
  <2> SUFFICES ASSUME IInv, [Next]_vars PROVE Pool!Next \/ PoolSame
    BY DEF PoolSame, Pool!vars
  <2>1. CASE UNCHANGED vars
    BY <2>1, OwnedUnchanged DEF vars, PoolSame
  <2>2. QED
    BY <2>1, ThreadRefines, CollectorRefines DEF Next
<1>3. QED
  BY <1>1, <1>2, Inductive, PTL DEF Spec, PoolSpec, Pool!Spec
=============================================================================
