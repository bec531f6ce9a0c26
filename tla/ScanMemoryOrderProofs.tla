----------------------- MODULE ScanMemoryOrderProofs -----------------------
(***************************************************************************)
(* Proofs about ScanMemoryOrder, for every number of shards and of steps:  *)
(* what the scan guarantees with the Relaxed clearing that the code has.   *)
(*                                                                         *)
(* Two arguments.  A view that has a position of a counter also has the    *)
(* uses before the decrements up to it (UseInv): for a thread because the  *)
(* counter is its own or it was told, for a published view because every   *)
(* write of a counter continues the release sequence, for the collector    *)
(* once its re-check has read the counter.  And since the tag of a shard   *)
(* was cleared its untagged values have only grown (Since), while the       *)
(* counts that the clearing pass read add up to zero (ScanInv): so what    *)
(* the re-check reads is not negative; and if no counter grew, the         *)
(* handles, which the latest counts add up to (CountInv), are all gone.    *)
(***************************************************************************)
EXTENDS ScanMemoryOrder, WellFoundedInduction, TLAPS


(* p[n] is the sum of e over the shards before n. *)
IsSum(p, e) ==
    /\ p \in [0 .. ShardCount -> Int]
    /\ p[0] = 0
    /\ \A n \in Shards : p[n+1] = p[n] + e[n]
Total(e) == (CHOOSE p : IsSum(p, e))[ShardCount]

(* The least-number principle, for a set of naturals. *)
LEMMA LeastNat ==
    ASSUME NEW S \in SUBSET Nat, S # {}
    PROVE  \E m \in S : \A n \in S : ~(n < m)
  <1>1. PICK m \in S : \A n \in S : ~(<<n, m>> \in OpToRel(<, Nat))
    BY NatLessThanWellFounded, WFMin
  <1>2. \A n \in S : ~(n < m)
    BY <1>1 DEF OpToRel
  <1> QED  BY <1>2

(* What holds at 0 and passes from n to n + 1 holds up to ShardCount. *)
LEMMA UpTo ==
    ASSUME NEW G \in SUBSET (0 .. ShardCount), 0 \in G,
           \A n \in Shards : n \in G => n + 1 \in G
    PROVE  \A n \in 0 .. ShardCount : n \in G
  <1> DEFINE W == {n \in 0 .. ShardCount : n \notin G}
  <1> SUFFICES ASSUME W # {} PROVE FALSE
    OBVIOUS
  <1>1. W \in SUBSET Nat
    BY MemoryAssumption
  <1>2. PICK m \in W : \A n \in W : ~(n < m)
    <2> HIDE DEF W
    <2> QED  BY <1>1, LeastNat
  <1>3. /\ m - 1 \in Shards /\ m - 1 \in 0 .. ShardCount
        /\ m - 1 < m /\ (m - 1) + 1 = m
    BY MemoryAssumption DEF Shards
  <1>4. m - 1 \in G
    BY <1>2, <1>3
  <1> QED  BY <1>3, <1>4

(* Shards are numbered from 0, there is at least one. *)
LEMMA ShardFacts ==
    /\ ShardCount \in Nat /\ ShardCount > 0
    /\ 0 \in 0 .. ShardCount /\ ShardCount \in 0 .. ShardCount
    /\ \A s \in Shards : /\ s \in Nat /\ s < ShardCount /\ s + 1 \in 0 .. ShardCount
                         /\ s \in 0 .. ShardCount
    /\ \A n \in 0 .. ShardCount : n < ShardCount => n \in Shards
  BY MemoryAssumption DEF Shards

(* Every function on the shards can be summed. *)
LEMMA SumExists ==
    ASSUME NEW e \in [Shards -> Int]
    PROVE  \E p : IsSum(p, e)
  <1> DEFINE Upto(p, m) == /\ p \in [0 .. ShardCount -> Int] /\ p[0] = 0
                           /\ \A n \in Shards : n < m => p[n+1] = p[n] + e[n]
             G == {m \in 0 .. ShardCount : \E p : Upto(p, m)}
  <1>1. 0 \in G
    <2> DEFINE z == [n \in 0 .. ShardCount |-> 0]
    <2>1. Upto(z, 0)
      BY ShardFacts
    <2> QED  BY <2>1, ShardFacts
  <1>2. ASSUME NEW m \in Shards, m \in G
        PROVE  m + 1 \in G
    <2>1. PICK p : Upto(p, m)
      BY <1>2
    <2> DEFINE q == [p EXCEPT ![m+1] = p[m] + e[m]]
    <2>2. p[m] + e[m] \in Int
      BY <2>1, ShardFacts
    <2>3. q \in [0 .. ShardCount -> Int] /\ q[0] = 0
      BY <2>1, <2>2, ShardFacts
    <2>4. ASSUME NEW n \in Shards, n < m + 1
          PROVE  q[n+1] = q[n] + e[n]
      <3>1. n # m + 1 /\ (n < m \/ n = m) /\ (n < m => n + 1 # m + 1)
        BY <2>4, ShardFacts
      <3>2. q[n] = p[n]
        BY <2>1, <3>1, ShardFacts
      <3>3. CASE n = m
        BY <2>1, <3>2, <3>3, ShardFacts
      <3>4. CASE n < m
        BY <2>1, <3>1, <3>2, <3>4, ShardFacts
      <3> QED  BY <3>1, <3>3, <3>4
    <2>5. Upto(q, m + 1)
      BY <2>3, <2>4
    <2> QED  BY <2>5, ShardFacts
  <1>3. ShardCount \in G
    <2> HIDE DEF G
    <2>1. G \in SUBSET (0 .. ShardCount)
      BY DEF G
    <2> QED  BY <1>1, <1>2, <2>1, UpTo, ShardFacts
  <1> QED  BY <1>3, ShardFacts DEF IsSum

(* A total is the end of a sum, and an integer. *)
LEMMA TotalIsSum ==
    ASSUME NEW e \in [Shards -> Int]
    PROVE  Total(e) \in Int /\ \E p : IsSum(p, e) /\ Total(e) = p[ShardCount]
  <1>1. IsSum(CHOOSE p : IsSum(p, e), e)
    BY SumExists
  <1> QED  BY <1>1, ShardFacts DEF Total, IsSum

(* Changing the value of one shard by d changes the total by d. *)
LEMMA TotalShift ==
    ASSUME NEW e \in [Shards -> Int], NEW f \in [Shards -> Int],
           NEW s \in Shards, NEW d \in Int, f[s] = e[s] + d,
           \A r \in Shards \ {s} : f[r] = e[r]
    PROVE  Total(f) = Total(e) + d
  <1>1. PICK p : IsSum(p, e) /\ Total(e) = p[ShardCount]
    BY TotalIsSum
  <1>2. PICK q : IsSum(q, f) /\ Total(f) = q[ShardCount]
    BY TotalIsSum
  <1> DEFINE G == {n \in 0 .. ShardCount : q[n] = IF n > s THEN p[n] + d ELSE p[n]}
  <1>3. 0 \in G
    BY <1>1, <1>2, ShardFacts DEF IsSum
  <1>4. ASSUME NEW n \in Shards, n \in G
        PROVE  n + 1 \in G
    <2>1. /\ p[n+1] = p[n] + e[n] /\ q[n+1] = q[n] + f[n]
          /\ p[n] \in Int /\ e[n] \in Int /\ n + 1 \in 0 .. ShardCount /\ n \in Nat /\ s \in Nat
      BY <1>1, <1>2, ShardFacts DEF IsSum
    <2>2. q[n] = IF n > s THEN p[n] + d ELSE p[n]
      BY <1>4
    <2>3. CASE n = s
      <3>1. q[n+1] = p[n+1] + d
        BY <2>1, <2>2, <2>3
      <3> QED  BY <2>1, <2>3, <3>1
    <2>4. CASE n # s
      <3>1. f[n] = e[n] /\ (n + 1 > s <=> n > s)
        BY <2>1, <2>4
      <3> QED  BY <2>1, <2>2, <3>1
    <2> QED  BY <2>3, <2>4
  <1>5. ShardCount \in G
    <2> HIDE DEF G
    <2>1. G \in SUBSET (0 .. ShardCount)
      BY DEF G
    <2> QED  BY <1>3, <1>4, <2>1, UpTo, ShardFacts
  <1> QED  BY <1>1, <1>2, <1>5, ShardFacts

(* The total is monotone. *)
LEMMA TotalMono ==
    ASSUME NEW e \in [Shards -> Int], NEW f \in [Shards -> Int],
           \A r \in Shards : e[r] <= f[r]
    PROVE  Total(e) <= Total(f)
  <1>1. PICK p : IsSum(p, e) /\ Total(e) = p[ShardCount]
    BY TotalIsSum
  <1>2. PICK q : IsSum(q, f) /\ Total(f) = q[ShardCount]
    BY TotalIsSum
  <1> DEFINE G == {n \in 0 .. ShardCount : p[n] <= q[n]}
  <1>3. 0 \in G
    BY <1>1, <1>2, ShardFacts DEF IsSum
  <1>4. ASSUME NEW n \in Shards, n \in G
        PROVE  n + 1 \in G
    <2>1. /\ p[n+1] = p[n] + e[n] /\ q[n+1] = q[n] + f[n] /\ n + 1 \in 0 .. ShardCount
          /\ p[n] \in Int /\ q[n] \in Int /\ e[n] \in Int /\ f[n] \in Int
      BY <1>1, <1>2, ShardFacts DEF IsSum
    <2>2. p[n] <= q[n] /\ e[n] <= f[n]
      BY <1>4
    <2> QED  BY <2>1, <2>2
  <1>5. ShardCount \in G
    <2> HIDE DEF G
    <2>1. G \in SUBSET (0 .. ShardCount)
      BY DEF G
    <2> QED  BY <1>3, <1>4, <2>1, UpTo, ShardFacts
  <1> QED  BY <1>1, <1>2, <1>5

(* Functions that are ordered and have the same total are equal. *)
LEMMA TotalStrict ==
    ASSUME NEW e \in [Shards -> Int], NEW f \in [Shards -> Int],
           \A r \in Shards : e[r] <= f[r], Total(f) <= Total(e),
           NEW s \in Shards
    PROVE  e[s] = f[s]
  <1> DEFINE g == [e EXCEPT ![s] = f[s]]
  <1>1. g \in [Shards -> Int] /\ \A r \in Shards : g[r] <= f[r]
    BY DEF Shards
  <1>2. /\ f[s] - e[s] \in Int /\ g[s] = e[s] + (f[s] - e[s])
        /\ \A r \in Shards \ {s} : g[r] = e[r]
    OBVIOUS
  <1> HIDE DEF g
  <1>3. Total(g) = Total(e) + (f[s] - e[s])
    BY <1>1, <1>2, TotalShift
  <1>4. Total(g) <= Total(f)
    BY <1>1, TotalMono
  <1>5. Total(e) \in Int /\ Total(f) \in Int /\ e[s] \in Int /\ f[s] \in Int
    BY TotalIsSum
  <1>6. e[s] <= f[s] /\ Total(e) + (f[s] - e[s]) <= Total(f) /\ Total(f) <= Total(e)
    BY <1>3, <1>4
  <1>7. \A a, b, x, y \in Int : x <= y /\ a + (y - x) <= b /\ b <= a => x = y
    OBVIOUS
  <1> QED  BY <1>5, <1>6, <1>7

(* The total of nothing. *)
LEMMA TotalZero ==
    ASSUME NEW e, e = [s \in Shards |-> 0]
    PROVE  Total(e) = 0
  <1>0. e \in [Shards -> Int]
    OBVIOUS
  <1>1. PICK p : IsSum(p, e) /\ Total(e) = p[ShardCount]
    BY <1>0, TotalIsSum
  <1> DEFINE G == {n \in 0 .. ShardCount : p[n] = 0}
  <1>2. 0 \in G
    BY <1>1, ShardFacts DEF IsSum
  <1>3. ASSUME NEW n \in Shards, n \in G
        PROVE  n + 1 \in G
    BY <1>1, <1>3, ShardFacts DEF IsSum
  <1>4. ShardCount \in G
    <2> HIDE DEF G
    <2>1. G \in SUBSET (0 .. ShardCount)
      BY DEF G
    <2> QED  BY <1>2, <1>3, <2>1, UpTo, ShardFacts
  <1> QED  BY <1>1, <1>4

-----------------------------------------------------------------------------
Agents == Users \cup {Collector}
Views == [Places -> Nat]
Entry == [count : Int, tag : BOOLEAN, view : Views]

MemType ==
    /\ history \in [Shards -> Seq(Entry)]
    /\ view \in [Agents -> Views]
    /\ hold \in [Users -> Nat]
    /\ pc \in {"pre", "clear", "recheck", "freed"}
    /\ k \in 0 .. ShardCount
    /\ sum \in Int
    /\ steps \in Nat

(* Views are positions of the histories. *)
ViewInv ==
    /\ \A s \in Shards : Len(history[s]) > 0
    /\ \A a \in Agents, s \in Shards : 1 <= view[a][s] /\ view[a][s] <= Len(history[s])
    /\ \A s \in Shards : \A j \in 1 .. Len(history[s]) : \A r \in Shards :
          history[s][j].view[r] <= Len(history[r])
(* A view with a position of counter s has the uses before the decrements  *)
(* up to that position.                                                    *)
DecIn(h, s, j) == j > 1 /\ h[s][j].count < h[s][j - 1].count
KnownOf(h, v, s) == \A j \in 1 .. Len(h[s]) : DecIn(h, s, j) /\ j <= v[s] => j <= v[Use(s)]
Known(h, v) == \A s \in Shards : KnownOf(h, v, s)

UseInv ==
    /\ \A t \in Users : Known(history, view[t])
    /\ \A s \in Shards : \A i \in 1 .. Len(history[s]) : Known(history, history[s][i].view)
    /\ \A s \in Shards : \A j \in 1 .. Len(history[s]) :
          DecIn(history, s, j) => j <= view[s][Use(s)]
    /\ \A s \in Shards : \A i, j \in 1 .. Len(history[s]) :
          DecIn(history, s, j) /\ j <= i => j <= history[s][i].view[Use(s)]
    /\ pc = "recheck" => \A s \in Shards : s < k => KnownOf(history, view[Collector], s)
    /\ pc = "freed" => Known(history, view[Collector])

(* The latest counts add up to the handles there are. *)
Counts(h) == [s \in Shards |-> h[s][Len(h[s])].count]
CountInv == Total(Counts(history)) = Total(hold)

(* Since the tag of counter s was cleared, at position p, the untagged     *)
(* values have not fallen, nothing but clones and drops changed the        *)
(* counter, and without a clone the count has not grown.                   *)
Since(h, s, p) ==
    /\ p \in 1 .. Len(h[s])
    /\ \A j \in p .. Len(h[s]) : ~ h[s][j].tag => h[s][p].count <= h[s][j].count
    /\ \A j \in p + 1 .. Len(h[s]) : h[s][j].count # h[s][j - 1].count
    /\ \/ h[s][Len(h[s])].count <= h[s][p].count
       \/ \E j \in p + 1 .. Len(h[s]) : h[s][j].count > h[s][j - 1].count

(* The clearing pass has done the shards before n, at the positions c, and *)
(* has read the counts m.                                                  *)
Cleared(h, v, c, m, n) ==
    \A s \in Shards : s < n => Since(h, s, c[s]) /\ h[s][c[s]].count = m[s] /\ c[s] <= v[s]
Before(m, n) == [s \in Shards |-> IF s < n THEN m[s] ELSE 0]

ScanInv ==
    /\ pc = "clear" => \E c \in [Shards -> Nat], m \in [Shards -> Int] :
          Cleared(history, view[Collector], c, m, k) /\ sum = Total(Before(m, k))
    /\ pc = "recheck" => \E c \in [Shards -> Nat], m \in [Shards -> Int] :
          /\ Cleared(history, view[Collector], c, m, ShardCount) /\ Total(m) = 0
          /\ Total(Before(m, k)) <= sum
    /\ pc = "freed" => \E c \in [Shards -> Nat], m \in [Shards -> Int] :
          Cleared(history, view[Collector], c, m, ShardCount) /\ Total(m) = 0

MemInv == MemType /\ ViewInv /\ UseInv /\ CountInv /\ ScanInv


-----------------------------------------------------------------------------
(* Counters and uses are different places of a view. *)
LEMMA PlaceFacts ==
    /\ Shards \subseteq Places /\ Users = Shards
    /\ Collector \in Agents /\ Collector \notin Users
    /\ \A t \in Users : t \in Agents /\ Use(t) \in Places /\ Use(t) \notin Shards
    /\ \A t, u \in Users : Use(t) = Use(u) => t = u
  BY MemoryAssumption DEF Shards, Users, Agents, Collector, Places, Use

(* A join is the least view that is past both. *)
LEMMA JoinFacts ==
    ASSUME NEW v \in Views, NEW w \in Views
    PROVE  /\ Join(v, w) \in Views
           /\ \A x \in Places : /\ v[x] <= Join(v, w)[x] /\ w[x] <= Join(v, w)[x]
                                /\ Join(v, w)[x] \in {v[x], w[x]}
  BY DEF Join, Views

(* The history of s gets one more value, e. *)
Grows(s, e) ==
    /\ history' \in [Shards -> Seq(Entry)]
    /\ \A r \in Shards \ {s} : history'[r] = history[r]
    /\ Len(history'[s]) = Len(history[s]) + 1
    /\ \A j \in 1 .. Len(history[s]) : history'[s][j] = history[s][j]
    /\ history'[s][Len(history[s]) + 1] = e

(* There is a latest value of each counter. *)
LEMMA LatestFacts ==
    ASSUME MemType, ViewInv, NEW s \in Shards
    PROVE  /\ Len(history[s]) \in 1 .. Len(history[s]) /\ Len(history[s]) \in Nat
           /\ Latest(s) = history[s][Len(history[s])]
           /\ \A j \in 1 .. Len(history[s]) : history[s][j] \in Entry
           /\ Latest(s) \in Entry
  <1>1. history[s] \in Seq(Entry) /\ Len(history[s]) > 0
    BY DEF MemType, ViewInv
  <1>2. Len(history[s]) \in 1 .. Len(history[s]) /\ Len(history[s]) \in Nat
    BY <1>1
  <1>3. \A j \in 1 .. Len(history[s]) : history[s][j] \in Entry
    BY <1>1
  <1> QED  BY <1>2, <1>3 DEF Latest

(* A write appends a value and leaves the older ones. *)
LEMMA GrowFacts ==
    ASSUME MemType, NEW s \in Shards, NEW e \in Entry,
           history' = [history EXCEPT ![s] = Append(@, e)]
    PROVE  Grows(s, e)
  <1>1. history \in [Shards -> Seq(Entry)] /\ history[s] \in Seq(Entry)
    BY DEF MemType
  <1> DEFINE h == Append(history[s], e)
  <1>2. /\ h \in Seq(Entry) /\ Len(h) = Len(history[s]) + 1
        /\ \A j \in 1 .. Len(history[s]) : h[j] = history[s][j]
        /\ h[Len(history[s]) + 1] = e
    BY <1>1
  <1>3. history' = [history EXCEPT ![s] = h]
    OBVIOUS
  <1> HIDE DEF h
  <1>4. history'[s] = h /\ \A r \in Shards \ {s} : history'[r] = history[r]
    BY <1>1, <1>3
  <1>5. history' \in [Shards -> Seq(Entry)]
    BY <1>1, <1>2, <1>3
  <1> QED  BY <1>2, <1>4, <1>5 DEF Grows

(* What a read-modify-write of counter s by thread a does: e is the new    *)
(* value and mine the view of the thread after it.                         *)
Written(a, now, s, count, tag, acquire, release, e, mine) ==
    /\ Grows(s, e)
    /\ view' = [view EXCEPT ![a] = mine]
    /\ view' \in [Agents -> Views]
    /\ e.count = count /\ e.tag = tag
    /\ mine[s] = Len(history[s]) + 1
    /\ \A x \in Places \ {s} :
          /\ now[x] <= mine[x]
          /\ mine[x] = now[x] \/ mine[x] = Latest(s).view[x]
          /\ acquire => Latest(s).view[x] <= mine[x]
          /\ ~ acquire => mine[x] = now[x]
    /\ ~ release => e.view = Latest(s).view
    /\ release => \A x \in Places :
          /\ Latest(s).view[x] <= e.view[x] /\ mine[x] <= e.view[x]
          /\ e.view[x] = Latest(s).view[x] \/ e.view[x] = mine[x]

(* What a read-modify-write does to history and view. *)
LEMMA UpdateFacts ==
    ASSUME MemType, ViewInv, NEW a \in Agents, NEW now \in Views, NEW s \in Shards,
           NEW count \in Int, NEW tag \in BOOLEAN,
           NEW acquire \in BOOLEAN, NEW release \in BOOLEAN,
           Update(a, now, s, count, tag, acquire, release)
    PROVE  \E e \in Entry, mine \in Views :
              Written(a, now, s, count, tag, acquire, release, e, mine)
  <1> DEFINE old == Latest(s)
             seen == IF acquire THEN Join(now, old.view) ELSE now
             mine == [seen EXCEPT ![s] = Len(history[s]) + 1]
             published == IF release THEN Join(old.view, mine) ELSE old.view
             e == [count |-> count, tag |-> tag, view |-> published]
  <1>1. history' = [history EXCEPT ![s] = Append(@, e)] /\ view' = [view EXCEPT ![a] = mine]
    BY DEF Update
  <1>2. old \in Entry /\ old.view \in Views /\ Len(history[s]) \in Nat
    BY LatestFacts DEF Entry
  <1>3. seen \in Views
    BY <1>2, JoinFacts
  <1>4. \A x \in Places : /\ now[x] <= seen[x] /\ (seen[x] = now[x] \/ seen[x] = old.view[x])
                          /\ acquire => old.view[x] <= seen[x]
                          /\ ~ acquire => seen[x] = now[x]
    <2>1. \A x \in Places : now[x] \in Nat
      BY DEF Views
    <2> QED  BY <1>2, <2>1, JoinFacts
  <1>5. mine \in Views /\ mine[s] = Len(history[s]) + 1 /\ \A x \in Places \ {s} : mine[x] = seen[x]
    <2> HIDE DEF seen
    <2> QED  BY <1>2, <1>3, PlaceFacts DEF Views
  <1>6. /\ published \in Views
        /\ ~ release => published = old.view
        /\ release => \A x \in Places :
              /\ old.view[x] <= published[x] /\ mine[x] <= published[x]
              /\ published[x] = old.view[x] \/ published[x] = mine[x]
    <2> HIDE DEF mine, old
    <2> QED  BY <1>2, <1>5, JoinFacts
  <1>7. e \in Entry /\ e.count = count /\ e.tag = tag /\ e.view = published
    <2> HIDE DEF published
    <2> QED  BY <1>6 DEF Entry
  <1> HIDE DEF e, mine, published, seen
  <1>8. Grows(s, e)
    BY <1>1, <1>7, GrowFacts
  <1>9. view' \in [Agents -> Views]
    BY <1>1, <1>5 DEF MemType
  <1>10. \A x \in Places \ {s} :
                    /\ now[x] <= mine[x]
                    /\ mine[x] = now[x] \/ mine[x] = old.view[x]
                    /\ acquire => old.view[x] <= mine[x]
                    /\ ~ acquire => mine[x] = now[x]
    BY <1>4, <1>5
  <1>11. Written(a, now, s, count, tag, acquire, release, e, mine)
    BY <1>1, <1>5, <1>6, <1>7, <1>8, <1>9, <1>10 DEF Written
  <1> QED  BY <1>5, <1>7, <1>11

-----------------------------------------------------------------------------
(* What each step does, in terms of the values and views it leaves. *)
UserWrites(t, e) ==
    /\ e \in Entry /\ Grows(t, e)
    /\ view' \in [Agents -> Views]
    /\ \A a \in Agents \ {t} : view'[a] = view[a]
    /\ view'[t][t] = Len(history[t]) + 1
    /\ \A x \in Places \ {t, Use(t)} : view'[t][x] = view[t][x]
    /\ hold[t] > 0
    /\ hold' \in [Users -> Nat] /\ \A u \in Users \ {t} : hold'[u] = hold[u]
    /\ pc # "freed" /\ UNCHANGED <<pc, k, sum>> /\ steps' = steps + 1

CloneWrites(t, e) ==
    /\ UserWrites(t, e)
    /\ view'[t][Use(t)] = view[t][Use(t)]
    /\ e.count = Latest(t).count + 1 /\ e.tag = Latest(t).tag /\ e.view = Latest(t).view
    /\ hold'[t] = hold[t] + 1

DropWrites(t, e) ==
    /\ UserWrites(t, e)
    /\ view'[t][Use(t)] = Len(history[t]) + 1
    /\ e.count = Latest(t).count - 1 /\ e.tag
    /\ \A x \in Places :
          /\ Latest(t).view[x] <= e.view[x] /\ view'[t][x] <= e.view[x]
          /\ e.view[x] = Latest(t).view[x] \/ e.view[x] = view'[t][x]
    /\ hold'[t] = hold[t] - 1

SendMoves(t, u) ==
    /\ t # u /\ hold[t] > 0 /\ pc # "freed"
    /\ view' \in [Agents -> Views]
    /\ \A a \in Agents \ {u} : view'[a] = view[a]
    /\ \A x \in Places : /\ view[u][x] <= view'[u][x] /\ view[t][x] <= view'[u][x]
                         /\ view'[u][x] = view[u][x] \/ view'[u][x] = view[t][x]
    /\ hold' \in [Users -> Nat] /\ \A w \in Users \ {t, u} : hold'[w] = hold[w]
    /\ hold'[t] = hold[t] - 1 /\ hold'[u] = hold[u] + 1
    /\ UNCHANGED <<history, pc, k, sum, steps>>

ClearWrites(e) ==
    /\ k \in Shards /\ pc = "clear" /\ e \in Entry /\ Grows(k, e)
    /\ view' \in [Agents -> Views]
    /\ \A t \in Users : view'[t] = view[t]
    /\ view'[Collector][k] = Len(history[k]) + 1
    /\ \A x \in Places \ {k} : view'[Collector][x] = view[Collector][x]
    /\ e.count = Latest(k).count /\ ~ e.tag /\ e.view = Latest(k).view
    /\ k' = k + 1 /\ sum' = sum + Latest(k).count
    /\ UNCHANGED <<hold, pc, steps>>

Reads(i, acquire) ==
    /\ k \in Shards /\ i \in 1 .. Len(history[k])
    /\ view' \in [Agents -> Views]
    /\ \A t \in Users : view'[t] = view[t]
    /\ view[Collector][k] <= i /\ view'[Collector][k] = i
    /\ \A x \in Places \ {k} :
          /\ view[Collector][x] <= view'[Collector][x]
          /\ view'[Collector][x] = view[Collector][x]
                \/ view'[Collector][x] = history[k][i].view[x]
          /\ acquire => history[k][i].view[x] <= view'[Collector][x]
    /\ UNCHANGED <<history, hold, steps>>

(* An increment publishes nothing new. *)
LEMMA CloneFacts ==
    ASSUME MemType, ViewInv, NEW t \in Users, Clone(t)
    PROVE  \E e : CloneWrites(t, e)
  <1>1. t \in Shards /\ t \in Agents /\ view[t] \in Views /\ view \in [Agents -> Views]
        /\ t \in Places /\ Use(t) \in Places /\ Use(t) # t
    BY PlaceFacts DEF MemType
  <1>2. Latest(t) \in Entry /\ Latest(t).count + 1 \in Int /\ Latest(t).tag \in BOOLEAN
        /\ Latest(t).view \in Views
    BY <1>1, LatestFacts DEF Entry
  <1>3. PICK e \in Entry, mine \in Views :
              /\ Grows(t, e)
              /\ view' = [view EXCEPT ![t] = mine]
              /\ view' \in [Agents -> Views]
              /\ e.count = Latest(t).count + 1 /\ e.tag = Latest(t).tag
              /\ mine[t] = Len(history[t]) + 1
              /\ \A x \in Places \ {t} : mine[x] = view[t][x]
              /\ e.view = Latest(t).view
    <2>1. Update(t, view[t], t, Latest(t).count + 1, Latest(t).tag, FALSE, FALSE)
      BY DEF Clone
    <2>2. PICK e \in Entry, mine \in Views :
             Written(t, view[t], t, Latest(t).count + 1, Latest(t).tag, FALSE, FALSE, e, mine)
      BY <1>1, <1>2, <2>1, UpdateFacts
    <2> QED  BY <2>2 DEF Written
  <1>4. view'[t] = mine /\ \A a \in Agents \ {t} : view'[a] = view[a]
    BY <1>1, <1>3
  <1>5. /\ hold[t] > 0 /\ pc # "freed" /\ UNCHANGED <<pc, k, sum>> /\ steps' = steps + 1
        /\ hold' = [hold EXCEPT ![t] = hold[t] + 1]
    BY DEF Clone, UserStep
  <1>6. /\ hold' \in [Users -> Nat] /\ hold'[t] = hold[t] + 1
        /\ \A u \in Users \ {t} : hold'[u] = hold[u]
    BY <1>5 DEF MemType
  <1> QED  BY <1>1, <1>3, <1>4, <1>5, <1>6 DEF CloneWrites, UserWrites

(* A decrement publishes the view of its thread, with its last use. *)
LEMMA DropFacts ==
    ASSUME MemType, ViewInv, NEW t \in Users, Drop(t)
    PROVE  \E e : DropWrites(t, e)
  <1>1. t \in Shards /\ t \in Agents /\ view[t] \in Views /\ view \in [Agents -> Views]
        /\ t \in Places /\ Use(t) \in Places /\ Use(t) # t
    BY PlaceFacts DEF MemType
  <1>2. Latest(t) \in Entry /\ Latest(t).count - 1 \in Int /\ Latest(t).view \in Views
    BY <1>1, LatestFacts DEF Entry
  <1> DEFINE now == [view[t] EXCEPT ![Use(t)] = Len(history[t]) + 1]
  <1>3. now \in Views /\ now[Use(t)] = Len(history[t]) + 1
        /\ \A x \in Places \ {Use(t)} : now[x] = view[t][x]
    BY <1>1, LatestFacts DEF Views
  <1>4. Update(t, now, t, Latest(t).count - 1, TRUE, FALSE, TRUE)
    BY DEF Drop, DecrementReleases
  <1> HIDE DEF now
  <1>5. PICK e \in Entry, mine \in Views :
              /\ Grows(t, e)
              /\ view' = [view EXCEPT ![t] = mine]
              /\ view' \in [Agents -> Views]
              /\ e.count = Latest(t).count - 1 /\ e.tag = TRUE
              /\ mine[t] = Len(history[t]) + 1
              /\ \A x \in Places \ {t} : mine[x] = now[x]
              /\ \A x \in Places :
                    /\ Latest(t).view[x] <= e.view[x] /\ mine[x] <= e.view[x]
                    /\ e.view[x] = Latest(t).view[x] \/ e.view[x] = mine[x]
    <2>1. PICK e \in Entry, mine \in Views :
             Written(t, now, t, Latest(t).count - 1, TRUE, FALSE, TRUE, e, mine)
      BY <1>1, <1>2, <1>3, <1>4, UpdateFacts
    <2> QED  BY <2>1 DEF Written
  <1>6. view'[t] = mine /\ \A a \in Agents \ {t} : view'[a] = view[a]
    BY <1>1, <1>5
  <1>7. /\ hold[t] > 0 /\ pc # "freed" /\ UNCHANGED <<pc, k, sum>> /\ steps' = steps + 1
        /\ hold' = [hold EXCEPT ![t] = hold[t] - 1]
    BY DEF Drop, UserStep
  <1>8. /\ hold' \in [Users -> Nat] /\ hold'[t] = hold[t] - 1
        /\ \A u \in Users \ {t} : hold'[u] = hold[u]
    BY <1>7 DEF MemType
  <1>9. UserWrites(t, e)
    BY <1>1, <1>3, <1>5, <1>6, <1>7, <1>8 DEF UserWrites
  <1> QED  BY <1>1, <1>3, <1>5, <1>6, <1>8, <1>9 DEF DropWrites

(* Sending a handle tells the receiver what the sender knows. *)
LEMMA SendFacts ==
    ASSUME MemType, NEW t \in Users, NEW u \in Users, Send(t, u)
    PROVE  SendMoves(t, u)
  <1>1. t \in Agents /\ u \in Agents /\ view[t] \in Views /\ view[u] \in Views
        /\ view \in [Agents -> Views] /\ hold \in [Users -> Nat] /\ t # u /\ hold[t] > 0
    BY PlaceFacts DEF MemType, Send
  <1>2. view' = [view EXCEPT ![u] = Join(view[u], view[t])]
    BY DEF Send
  <1>3. view'[u] = Join(view[u], view[t]) /\ \A a \in Agents \ {u} : view'[a] = view[a]
    BY <1>1, <1>2
  <1>4. view' \in [Agents -> Views]
    BY <1>1, <1>2, JoinFacts
  <1>5. \A x \in Places : /\ view[u][x] <= view'[u][x] /\ view[t][x] <= view'[u][x]
                          /\ view'[u][x] = view[u][x] \/ view'[u][x] = view[t][x]
    BY <1>1, <1>3, JoinFacts
  <1>6. /\ hold' \in [Users -> Nat] /\ \A w \in Users \ {t, u} : hold'[w] = hold[w]
        /\ hold'[t] = hold[t] - 1 /\ hold'[u] = hold[u] + 1
    BY <1>1 DEF Send
  <1> QED  BY <1>1, <1>3, <1>4, <1>5, <1>6 DEF Send, SendMoves

(* Clearing a tag keeps count and view of the counter. *)
LEMMA ClearFacts ==
    ASSUME MemType, ViewInv, ClearTag
    PROVE  \E e : ClearWrites(e)
  <1>1. k \in Shards /\ Collector \in Agents /\ view[Collector] \in Views
        /\ view \in [Agents -> Views] /\ pc = "clear"
    BY PlaceFacts, ShardFacts DEF MemType, ClearTag, InLoop
  <1>2. Latest(k) \in Entry /\ Latest(k).count \in Int
    BY <1>1, LatestFacts DEF Entry
  <1>3. Update(Collector, view[Collector], k, Latest(k).count, FALSE, FALSE, FALSE)
    BY DEF ClearTag
  <1>4. PICK e \in Entry, mine \in Views :
              /\ Grows(k, e)
              /\ view' = [view EXCEPT ![Collector] = mine]
              /\ view' \in [Agents -> Views]
              /\ e.count = Latest(k).count /\ e.tag = FALSE
              /\ mine[k] = Len(history[k]) + 1
              /\ \A x \in Places \ {k} : mine[x] = view[Collector][x]
              /\ e.view = Latest(k).view
    <2>1. PICK e \in Entry, mine \in Views :
             Written(Collector, view[Collector], k, Latest(k).count, FALSE, FALSE,
                     FALSE, e, mine)
      BY <1>1, <1>2, <1>3, UpdateFacts
    <2> QED  BY <2>1 DEF Written
  <1>5. view'[Collector] = mine /\ \A t \in Users : view'[t] = view[t]
    BY <1>1, <1>4, PlaceFacts
  <1> QED  BY <1>1, <1>4, <1>5 DEF ClearWrites, ClearTag

(* A load only moves the collector's view. *)
LEMMA ReadFacts ==
    ASSUME MemType, ViewInv, k \in Shards, NEW i \in 1 .. Len(history[k]),
           NEW acquire \in BOOLEAN, ReadAt(k, i, acquire), UNCHANGED <<history, hold, steps>>
    PROVE  Reads(i, acquire)
  <1>1. Collector \in Agents /\ view[Collector] \in Views /\ view \in [Agents -> Views]
        /\ k \in Places
    BY PlaceFacts DEF MemType
  <1>2. history[k][i] \in Entry /\ history[k][i].view \in Views
    BY LatestFacts DEF Entry
  <1> DEFINE seen == IF acquire THEN Join(view[Collector], history[k][i].view)
                                ELSE view[Collector]
             mine == [seen EXCEPT ![k] = i]
  <1>3. view' = [view EXCEPT ![Collector] = mine]
    BY DEF ReadAt
  <1>4. /\ seen \in Views
        /\ \A x \in Places : /\ view[Collector][x] <= seen[x]
                             /\ seen[x] = view[Collector][x] \/ seen[x] = history[k][i].view[x]
                             /\ acquire => history[k][i].view[x] <= seen[x]
    <2>1. \A x \in Places : view[Collector][x] \in Nat
      BY <1>1 DEF Views
    <2> QED  BY <1>1, <1>2, <2>1, JoinFacts
  <1> HIDE DEF seen
  <1>5. mine \in Views /\ mine[k] = i /\ \A x \in Places \ {k} : mine[x] = seen[x]
    BY <1>1, <1>4 DEF Views
  <1> HIDE DEF mine
  <1>6. view'[Collector] = mine /\ \A t \in Users : view'[t] = view[t]
    BY <1>1, <1>3, PlaceFacts
  <1>7. view' \in [Agents -> Views]
    BY <1>1, <1>3, <1>5
  <1>8. view[Collector][k] <= i
    BY <1>1 DEF ReadAt, Views
  <1> QED  BY <1>4, <1>5, <1>6, <1>7, <1>8 DEF Reads

PreReads(i) == /\ Reads(i, FALSE) /\ pc = "pre" /\ pc' = "pre" /\ k' = k + 1
               /\ sum' = sum + history[k][i].count
RecheckReads(i) ==
    /\ Reads(i, TRUE) /\ pc = "recheck"
    /\ IF history[k][i].tag
       THEN pc' = "pre" /\ k' = 0 /\ sum' = 0
       ELSE pc' = pc /\ k' = k + 1 /\ sum' = sum + history[k][i].count
LoopEnds ==
    /\ UNCHANGED <<history, view, hold, steps>>
    /\ k = ShardCount /\ k' = 0 /\ sum' = 0
    /\ \/ pc = "pre" /\ pc' \in {"pre", "clear"}
       \/ pc = "clear" /\ pc' = IF sum = 0 THEN "recheck" ELSE "pre"
       \/ pc = "recheck" /\ pc' = IF sum = 0 THEN "freed" ELSE "pre"

(* Every step is one of these. *)
LEMMA StepKinds ==
    ASSUME MemType, ViewInv, Next
    PROVE  \/ \E t \in Users : \E e : CloneWrites(t, e) \/ DropWrites(t, e)
           \/ \E t, u \in Users : SendMoves(t, u)
           \/ \E e : ClearWrites(e)
           \/ \E i : PreReads(i) \/ RecheckReads(i)
           \/ LoopEnds
  <1>1. ASSUME NEW t \in Users, Clone(t) \/ Drop(t)
        PROVE  \E e : CloneWrites(t, e) \/ DropWrites(t, e)
    BY <1>1, CloneFacts, DropFacts
  <1>2. ASSUME NEW t \in Users, NEW u \in Users, Send(t, u)
        PROVE  SendMoves(t, u)
    BY <1>2, SendFacts
  <1>3. CASE ClearTag
    BY <1>3, ClearFacts
  <1>4. ASSUME k \in Shards, NEW i \in 1 .. Len(history[k]), PreRead(i)
        PROVE  PreReads(i)
    <2>1. Reads(i, FALSE)
      BY <1>4, ReadFacts DEF PreRead
    <2> QED  BY <1>4, <2>1 DEF PreRead, PreReads, InLoop
  <1>5. ASSUME k \in Shards, NEW i \in 1 .. Len(history[k]), Recheck(i)
        PROVE  RecheckReads(i)
    <2>1. Reads(i, TRUE)
      BY <1>5, ReadFacts DEF Recheck
    <2> QED  BY <1>5, <2>1 DEF Recheck, RecheckReads, InLoop, StopsAtTag
  <1>6. CASE PreEnd \/ ClearEnd \/ RecheckEnd
    <2>1. PreEnd => LoopEnds
      BY DEF PreEnd, EndOfLoop, LoopEnds
    <2>2. ClearEnd => LoopEnds
      BY DEF ClearEnd, EndOfLoop, LoopEnds
    <2>3. RecheckEnd => LoopEnds
      BY DEF RecheckEnd, EndOfLoop, LoopEnds
    <2> QED  BY <1>6, <2>1, <2>2, <2>3
  <1> QED  BY <1>1, <1>2, <1>3, <1>4, <1>5, <1>6 DEF Next, CollectorStep

-----------------------------------------------------------------------------
(* Every step keeps the types. *)
LEMMA TypeStep ==
    ASSUME MemType, ViewInv, Next
    PROVE  MemType'
  <1>1. ASSUME NEW t \in Users, NEW e, UserWrites(t, e)
        PROVE  MemType'
    BY <1>1 DEF MemType, UserWrites, Grows
  <1>2. ASSUME NEW t \in Users, NEW u \in Users, SendMoves(t, u)
        PROVE  MemType'
    BY <1>2 DEF MemType, SendMoves
  <1>3. ASSUME NEW e, ClearWrites(e)
        PROVE  MemType'
    <2>1. Latest(k).count \in Int /\ k + 1 \in 0 .. ShardCount
      BY <1>3, LatestFacts, ShardFacts DEF ClearWrites, Entry
    <2> QED  BY <1>3, <2>1 DEF MemType, ClearWrites, Grows
  <1>4. ASSUME NEW i, PreReads(i) \/ RecheckReads(i)
        PROVE  MemType'
    <2>1. k \in Shards /\ i \in 1 .. Len(history[k])
      BY <1>4 DEF PreReads, RecheckReads, Reads
    <2>2. history[k][i].count \in Int /\ k + 1 \in 0 .. ShardCount /\ 0 \in 0 .. ShardCount
      BY <2>1, LatestFacts, ShardFacts DEF Entry
    <2>3. /\ view' \in [Agents -> Views] /\ UNCHANGED <<history, hold, steps>>
          /\ pc' \in {"pre", "recheck"}
          /\ (k' = k + 1 /\ sum' = sum + history[k][i].count) \/ (k' = 0 /\ sum' = 0)
      BY <1>4 DEF PreReads, RecheckReads, Reads
    <2> QED  BY <2>2, <2>3 DEF MemType
  <1>5. ASSUME LoopEnds
        PROVE  MemType'
    BY <1>5, ShardFacts DEF MemType, LoopEnds
  <1> QED  BY <1>1, <1>2, <1>3, <1>4, <1>5, StepKinds DEF CloneWrites, DropWrites

(* A value at a position of the new history is an old one or the new one. *)
LEMMA Values ==
    ASSUME MemType, NEW s \in Shards, NEW e, Grows(s, e), NEW r \in Shards
    PROVE  /\ Len(history[r]) \in Nat /\ Len(history'[r]) \in Nat
           /\ Len(history[r]) <= Len(history'[r])
           /\ \A j \in 1 .. Len(history[r]) :
                 j \in 1 .. Len(history'[r]) /\ history'[r][j] = history[r][j]
           /\ \A j \in 1 .. Len(history'[r]) :
                 \/ j \in 1 .. Len(history[r]) /\ history'[r][j] = history[r][j]
                 \/ r = s /\ j = Len(history[s]) + 1 /\ history'[r][j] = e
  <1>1. Len(history[r]) \in Nat /\ Len(history'[r]) \in Nat
    BY DEF MemType, Grows
  <1>2. CASE r = s
    BY <1>1, <1>2 DEF Grows
  <1>3. CASE r # s
    BY <1>1, <1>3 DEF Grows
  <1> QED  BY <1>2, <1>3

(* Positions and counts are numbers. *)
LEMMA NatFacts ==
    ASSUME MemType
    PROVE  /\ \A a \in Agents, x \in Places : view[a][x] \in Nat
           /\ \A s \in Shards : \A j \in 1 .. Len(history[s]) :
                 /\ history[s][j] \in Entry /\ history[s][j].count \in Int
                 /\ history[s][j].view \in Views
                 /\ \A x \in Places : history[s][j].view[x] \in Nat
           /\ \A s \in Shards : Len(history[s]) \in Nat
           /\ \A t \in Users : hold[t] \in Nat
  <1>1. \A a \in Agents, x \in Places : view[a][x] \in Nat
    BY DEF MemType, Views
  <1>2. \A s \in Shards : history[s] \in Seq(Entry) /\ Len(history[s]) \in Nat
    BY DEF MemType
  <1>3. \A s \in Shards : \A j \in 1 .. Len(history[s]) : history[s][j] \in Entry
    BY <1>2
  <1>4. \A en \in Entry : en.count \in Int /\ en.view \in Views /\ \A x \in Places : en.view[x] \in Nat
    BY DEF Entry, Views
  <1> QED  BY <1>1, <1>2, <1>3, <1>4 DEF MemType

(* The published views stay within the histories when one grows. *)
LEMMA GrowViews ==
    ASSUME MemType, ViewInv, NEW s \in Shards, NEW e \in Entry, Grows(s, e),
           \A r \in Shards : e.view[r] <= Len(history'[r])
    PROVE  /\ \A r \in Shards : Len(history'[r]) > 0
           /\ \A u \in Shards : \A j \in 1 .. Len(history'[u]) : \A r \in Shards :
                 history'[u][j].view[r] <= Len(history'[r])
  <1>1. ASSUME NEW r \in Shards
        PROVE  Len(history'[r]) > 0
    BY Values DEF ViewInv
  <1>2. ASSUME NEW u \in Shards, NEW j \in 1 .. Len(history'[u]), NEW r \in Shards
        PROVE  history'[u][j].view[r] <= Len(history'[r])
    <2>1. CASE j \in 1 .. Len(history[u]) /\ history'[u][j] = history[u][j]
      <3>1. history[u][j].view[r] <= Len(history[r]) /\ Len(history[r]) <= Len(history'[r])
        BY <2>1, Values DEF ViewInv
      <3>2. history[u][j].view[r] \in Nat /\ Len(history[r]) \in Nat /\ Len(history'[r]) \in Nat
        BY <2>1, NatFacts, PlaceFacts, Values
      <3> QED  BY <2>1, <3>1, <3>2
    <2>2. CASE u = s /\ history'[u][j] = e
      BY <2>2
    <2> QED  BY <2>1, <2>2, Values
  <1> QED  BY <1>1, <1>2

(* Every step keeps views within the histories. *)
LEMMA ViewStep ==
    ASSUME MemType, ViewInv, Next
    PROVE  ViewInv'
  <1>0. /\ \A a \in Agents, s \in Shards :
              view[a][s] \in Nat /\ 1 <= view[a][s] /\ view[a][s] <= Len(history[s])
        /\ \A s \in Shards : Len(history[s]) \in Nat
    BY NatFacts, PlaceFacts DEF ViewInv
  <1>1. ASSUME NEW t \in Users, NEW e, CloneWrites(t, e) \/ DropWrites(t, e)
        PROVE  ViewInv'
    <2>1. UserWrites(t, e) /\ e \in Entry /\ Grows(t, e) /\ t \in Shards /\ t \in Agents
      BY <1>1, PlaceFacts DEF CloneWrites, DropWrites, UserWrites
    <2>2. \A r \in Shards : r # t => view'[t][r] = view[t][r]
      BY <2>1, PlaceFacts DEF UserWrites
    <2>3. \A a \in Agents, s \in Shards : 1 <= view'[a][s] /\ view'[a][s] <= Len(history'[s])
      <3> SUFFICES ASSUME NEW a \in Agents, NEW s \in Shards
                   PROVE  1 <= view'[a][s] /\ view'[a][s] <= Len(history'[s])
        OBVIOUS
      <3>1. CASE a = t /\ s = t
        BY <1>0, <2>1, <3>1 DEF UserWrites, Grows
      <3>2. CASE ~ (a = t /\ s = t)
        <4>1. view'[a][s] = view[a][s]
          BY <2>1, <2>2, <3>2 DEF UserWrites
        <4>2. Len(history[s]) <= Len(history'[s]) /\ Len(history'[s]) \in Nat
          BY <2>1, Values
        <4> QED  BY <1>0, <4>1, <4>2
      <3> QED  BY <3>1, <3>2
    <2>4. \A r \in Shards : e.view[r] <= Len(history'[r])
      <3> SUFFICES ASSUME NEW r \in Shards PROVE e.view[r] <= Len(history'[r])
        OBVIOUS
      <3>1. Latest(t).view[r] <= Len(history'[r])
        <4>1. Latest(t).view[r] <= Len(history[r]) /\ Latest(t).view[r] \in Nat
          BY <2>1, LatestFacts, NatFacts, PlaceFacts DEF ViewInv
        <4>2. Len(history[r]) \in Nat /\ Len(history'[r]) \in Nat
              /\ Len(history[r]) <= Len(history'[r])
          BY <2>1, Values
        <4> QED  BY <4>1, <4>2
      <3>2. e.view[r] = Latest(t).view[r] \/ e.view[r] = view'[t][r]
        BY <1>1, PlaceFacts DEF CloneWrites, DropWrites
      <3> QED  BY <2>1, <2>3, <3>1, <3>2
    <2> QED  BY <2>1, <2>3, <2>4, GrowViews DEF ViewInv
  <1>2. ASSUME NEW t \in Users, NEW u \in Users, SendMoves(t, u)
        PROVE  ViewInv'
    <2>1. /\ history' = history /\ t \in Agents /\ u \in Agents
          /\ \A a \in Agents \ {u} : view'[a] = view[a]
          /\ \A s \in Shards : view'[u][s] = view[u][s] \/ view'[u][s] = view[t][s]
      BY <1>2, PlaceFacts DEF SendMoves
    <2>2. ASSUME NEW a \in Agents, NEW s \in Shards
          PROVE  1 <= view'[a][s] /\ view'[a][s] <= Len(history[s])
      BY <1>0, <2>1
    <2> QED  BY <2>1, <2>2 DEF ViewInv
  <1>3. ASSUME NEW e, ClearWrites(e)
        PROVE  ViewInv'
    <2>1. k \in Shards /\ e \in Entry /\ Grows(k, e) /\ Collector \in Agents
      BY <1>3, PlaceFacts DEF ClearWrites
    <2>2. \A r \in Shards : /\ Latest(k).view[r] <= Len(history[r]) /\ Latest(k).view[r] \in Nat
                            /\ Len(history[r]) <= Len(history'[r])
                            /\ Len(history[r]) \in Nat /\ Len(history'[r]) \in Nat
      <3>1. \A r \in Shards : /\ Latest(k).view[r] <= Len(history[r])
                              /\ Latest(k).view[r] \in Nat
        BY <2>1, LatestFacts, NatFacts, PlaceFacts DEF ViewInv
      <3> QED  BY <2>1, <3>1, Values
    <2>3. \A a \in Agents, s \in Shards : 1 <= view'[a][s] /\ view'[a][s] <= Len(history'[s])
      <3> SUFFICES ASSUME NEW a \in Agents, NEW s \in Shards
                   PROVE  1 <= view'[a][s] /\ view'[a][s] <= Len(history'[s])
        OBVIOUS
      <3>1. CASE a \in Users
        BY <1>0, <1>3, <2>2, <3>1 DEF ClearWrites
      <3>2. CASE a = Collector /\ s = k
        BY <1>0, <1>3, <2>1, <3>2 DEF ClearWrites, Grows
      <3>3. CASE a = Collector /\ s # k
        <4>1. view'[Collector][s] = view[Collector][s]
          BY <1>3, <3>3, PlaceFacts DEF ClearWrites
        <4> QED  BY <1>0, <2>1, <2>2, <3>3, <4>1
      <3> QED  BY <3>1, <3>2, <3>3 DEF Agents
    <2>4. \A r \in Shards : e.view[r] <= Len(history'[r])
      BY <1>3, <2>2 DEF ClearWrites
    <2> QED  BY <2>1, <2>3, <2>4, GrowViews DEF ViewInv
  <1>4. ASSUME NEW i, NEW acquire, Reads(i, acquire)
        PROVE  ViewInv'
    <2>1. k \in Shards /\ i \in 1 .. Len(history[k]) /\ history' = history
          /\ Collector \in Agents
      BY <1>4, PlaceFacts DEF Reads
    <2>2. \A r \in Shards : history[k][i].view[r] <= Len(history[r])
                            /\ history[k][i].view[r] \in Nat
      BY <2>1, NatFacts, PlaceFacts DEF ViewInv
    <2>3. ASSUME NEW a \in Agents, NEW s \in Shards
          PROVE  1 <= view'[a][s] /\ view'[a][s] <= Len(history[s])
      <3>1. CASE a \in Users
        BY <1>0, <1>4, <3>1 DEF Reads
      <3>2. CASE a = Collector /\ s = k
        BY <1>4, <2>1, <3>2 DEF Reads
      <3>3. CASE a = Collector /\ s # k
        <4>1. /\ view[Collector][s] <= view'[Collector][s]
              /\ view'[Collector][s] = view[Collector][s]
                    \/ view'[Collector][s] = history[k][i].view[s]
          BY <1>4, <3>3, PlaceFacts DEF Reads
        <4> QED  BY <1>0, <2>1, <2>2, <3>3, <4>1
      <3> QED  BY <3>1, <3>2, <3>3 DEF Agents
    <2> QED  BY <2>1, <2>3 DEF ViewInv
  <1>5. ASSUME LoopEnds
        PROVE  ViewInv'
    BY <1>5 DEF LoopEnds, ViewInv
  <1> QED  BY <1>1, <1>2, <1>3, <1>4, <1>5, StepKinds DEF PreReads, RecheckReads

(* Which values are decrements does not change when a history grows; the   *)
(* new value is one only if its count is below the latest.                 *)
LEMMA DecGrows ==
    ASSUME MemType, ViewInv, NEW s \in Shards, NEW e \in Entry, Grows(s, e),
           NEW r \in Shards, NEW j \in 1 .. Len(history'[r]), DecIn(history', r, j)
    PROVE  \/ j \in 1 .. Len(history[r]) /\ DecIn(history, r, j)
           \/ r = s /\ j = Len(history[s]) + 1 /\ e.count < Latest(s).count
  <1>1. j \in Nat /\ j > 1 /\ history'[r][j].count < history'[r][j-1].count
    BY Values DEF DecIn
  <1>2. CASE j \in 1 .. Len(history[r])
    <2>1. j - 1 \in 1 .. Len(history[r])
      BY <1>1, <1>2, NatFacts
    <2>2. history'[r][j] = history[r][j] /\ history'[r][j-1] = history[r][j-1]
      BY <1>2, <2>1, Values
    <2> QED  BY <1>1, <1>2, <2>2 DEF DecIn
  <1>3. CASE r = s /\ j = Len(history[s]) + 1
    <2>1. Len(history[s]) \in 1 .. Len(history[s]) /\ j - 1 = Len(history[s])
          /\ Latest(s) = history[s][Len(history[s])]
      BY <1>3, LatestFacts
    <2>2. history'[s][j] = e /\ history'[s][j-1] = Latest(s)
      BY <1>3, <2>1 DEF Grows
    <2> QED  BY <1>1, <1>3, <2>2
  <1> QED  BY <1>2, <1>3, Values

(* What is known of the counters stays known when one of them grows. *)
LEMMA KnownGrows ==
    ASSUME MemType, ViewInv, NEW s \in Shards, NEW e \in Entry, Grows(s, e)
    PROVE  \A v \in Views : \A r \in Shards :
              v[r] <= Len(history[r]) /\ KnownOf(history, v, r) => KnownOf(history', v, r)
  <1> SUFFICES ASSUME NEW v \in Views, NEW r \in Shards, v[r] <= Len(history[r]),
                      KnownOf(history, v, r), NEW j \in 1 .. Len(history'[r]),
                      DecIn(history', r, j), j <= v[r]
               PROVE  j <= v[Use(r)]
    BY DEF KnownOf
  <1>1. v[r] \in Nat /\ Len(history[r]) \in Nat
    BY PlaceFacts, NatFacts DEF Views
  <1>2. j # Len(history[r]) + 1
    BY <1>1
  <1> QED  BY <1>2, DecGrows DEF KnownOf

(* What two views know, their join knows. *)
LEMMA KnownJoin ==
    ASSUME NEW h, NEW v \in Views, NEW w \in Views, NEW u \in Views, NEW r \in Shards,
           KnownOf(h, v, r), KnownOf(h, w, r),
           v[Use(r)] <= u[Use(r)], w[Use(r)] <= u[Use(r)], u[r] = v[r] \/ u[r] = w[r],
           Len(h[r]) \in Nat
    PROVE  KnownOf(h, u, r)
  <1> SUFFICES ASSUME NEW j \in 1 .. Len(h[r]), DecIn(h, r, j), j <= u[r]
               PROVE  j <= u[Use(r)]
    BY DEF KnownOf
  <1>1. v[Use(r)] \in Nat /\ w[Use(r)] \in Nat /\ u[Use(r)] \in Nat /\ j \in Nat
    BY PlaceFacts DEF Views
  <1>2. j <= v[Use(r)] \/ j <= w[Use(r)]
    BY DEF KnownOf
  <1> QED  BY <1>1, <1>2

(* A clone or a drop: the thread knows its own decrements, and publishes   *)
(* them with the one it makes.                                             *)
LEMMA UseUserStep ==
    ASSUME MemType, ViewInv, UseInv, NEW t \in Users, NEW e,
           CloneWrites(t, e) \/ DropWrites(t, e), MemType'
    PROVE  UseInv'
  <1>1. UserWrites(t, e) /\ e \in Entry /\ Grows(t, e) /\ t \in Shards /\ t \in Agents
        /\ Collector # t /\ Collector \in Agents /\ Use(t) \in Places /\ Use(t) \notin Shards
    BY PlaceFacts DEF CloneWrites, DropWrites, UserWrites
  <1> DEFINE n == Len(history[t])
  <1>2. /\ n \in Nat /\ n > 0 /\ n \in 1 .. n /\ Latest(t) = history[t][n] /\ Len(history'[t]) = n + 1
        /\ Latest(t).view \in Views /\ Latest(t).count \in Int /\ e.view \in Views
        /\ history'[t][n + 1] = e
    BY <1>1, LatestFacts DEF Entry, Grows, ViewInv
  <1>3. /\ \A a \in Agents, x \in Places : view[a][x] \in Nat /\ view'[a][x] \in Nat
        /\ \A a \in Agents : view[a] \in Views /\ view'[a] \in Views
        /\ view'[t][t] = n + 1
        /\ \A a \in Agents \ {t} : view'[a] = view[a]
        /\ \A x \in Places \ {t, Use(t)} : view'[t][x] = view[t][x]
    BY <1>1 DEF MemType, UserWrites, Views
  <1>4. \A j \in 1 .. n : DecIn(history, t, j) =>
           j <= view[t][Use(t)] /\ j <= Latest(t).view[Use(t)]
    BY <1>1, <1>2 DEF UseInv
  (* the new use and the new position *)
  <1>5. /\ \A j \in 1 .. n + 1 : DecIn(history', t, j) => j <= view'[t][Use(t)]
        /\ \A j \in 1 .. n + 1 : DecIn(history', t, j) => j <= e.view[Use(t)]
        /\ Latest(t).view[Use(t)] <= e.view[Use(t)]
    <2>1. CASE CloneWrites(t, e)
      <3>1. ASSUME NEW j \in 1 .. n + 1, DecIn(history', t, j)
            PROVE  j \in 1 .. n /\ DecIn(history, t, j)
        <4>1. ~ (e.count < Latest(t).count)
          BY <1>2, <2>1 DEF CloneWrites
        <4> QED  BY <1>1, <1>2, <3>1, <4>1, DecGrows
      <3>2. e.view = Latest(t).view /\ view'[t][Use(t)] = view[t][Use(t)]
            /\ Latest(t).view[Use(t)] \in Nat
        BY <1>1, <1>2, <2>1 DEF CloneWrites, Views
      <3> QED  BY <1>4, <3>1, <3>2
    <2>2. CASE DropWrites(t, e)
      <3>1. /\ view'[t][Use(t)] = n + 1 /\ n + 1 <= e.view[Use(t)] /\ e.view[Use(t)] \in Nat
            /\ Latest(t).view[Use(t)] <= e.view[Use(t)]
        BY <1>1, <1>2, <2>2 DEF DropWrites, Views
      <3>2. \A j \in 1 .. n + 1 : j <= n + 1 /\ j \in Nat
        BY <1>2
      <3> QED  BY <1>2, <3>1, <3>2
    <2> QED  BY <2>1, <2>2
  <1> HIDE DEF n
  (* the views of the threads *)
  <1>6. ASSUME NEW u \in Users, NEW r \in Shards
        PROVE  KnownOf(history', view'[u], r)
    <2>0. u \in Agents /\ r \in Places /\ Use(r) \in Places /\ Use(r) # t /\ (r # t => Use(r) # Use(t))
          /\ r # Use(t)
      BY <1>1, PlaceFacts
    <2>1. KnownOf(history', view[u], r)
      <3>1. view[u] \in Views /\ view[u][r] <= Len(history[r]) /\ KnownOf(history, view[u], r)
        BY <1>3, <2>0 DEF UseInv, ViewInv, Known
      <3> QED  BY <1>1, <3>1, KnownGrows
    <2>2. CASE u # t
      BY <1>3, <2>0, <2>1, <2>2
    <2>3. CASE u = t /\ r # t
      <3>1. view'[u][r] = view[u][r] /\ view'[u][Use(r)] = view[u][Use(r)]
        BY <1>3, <2>0, <2>3
      <3> QED  BY <2>1, <3>1 DEF KnownOf
    <2>4. CASE u = t /\ r = t
      BY <1>2, <1>5, <2>4 DEF KnownOf
    <2> QED  BY <2>2, <2>3, <2>4
  (* the published views *)
  <1>7. ASSUME NEW s \in Shards, NEW i \in 1 .. Len(history[s]), NEW r \in Shards
        PROVE  KnownOf(history', history[s][i].view, r)
    <2>1. history[s][i].view \in Views /\ history[s][i].view[r] <= Len(history[r])
          /\ KnownOf(history, history[s][i].view, r)
      BY NatFacts DEF UseInv, ViewInv, Known
    <2> QED  BY <1>1, <2>1, KnownGrows
  <1>8. ASSUME NEW r \in Shards
        PROVE  KnownOf(history', e.view, r)
    <2>0. r \in Places /\ Use(r) \in Places
      BY PlaceFacts
    <2>1. KnownOf(history', Latest(t).view, r)
      BY <1>1, <1>2, <1>7 DEF n
    <2>2. CASE CloneWrites(t, e)
      BY <2>1, <2>2 DEF CloneWrites
    <2>3. CASE DropWrites(t, e)
      <3>1. /\ Latest(t).view[Use(r)] <= e.view[Use(r)] /\ view'[t][Use(r)] <= e.view[Use(r)]
            /\ e.view[r] = Latest(t).view[r] \/ e.view[r] = view'[t][r]
        BY <2>0, <2>3 DEF DropWrites
      <3>2. KnownOf(history', view'[t], r) /\ view'[t] \in Views /\ Len(history'[r]) \in Nat
        BY <1>1, <1>3, <1>6, Values
      <3> QED  BY <1>2, <2>1, <3>1, <3>2, KnownJoin
    <2> QED  BY <2>2, <2>3
  <1>9. ASSUME NEW s \in Shards, NEW i \in 1 .. Len(history'[s])
        PROVE  Known(history', history'[s][i].view)
    BY <1>1, <1>7, <1>8, <1>9, Values DEF Known
  (* decrements of a counter *)
  <1>10. ASSUME NEW s \in Shards, NEW j \in 1 .. Len(history'[s]), DecIn(history', s, j)
         PROVE  j <= view'[s][Use(s)]
    <2>1. CASE s = t
      BY <1>2, <1>5, <1>10, <2>1
    <2>2. CASE s # t
      <3>1. history'[s] = history[s] /\ view'[s] = view[s]
        BY <1>1, <1>3, <2>2, PlaceFacts DEF Grows
      <3> QED  BY <1>10, <3>1 DEF UseInv, DecIn
    <2> QED  BY <2>1, <2>2
  <1>11. ASSUME NEW s \in Shards, NEW i \in 1 .. Len(history'[s]), NEW j \in 1 .. Len(history'[s]),
                DecIn(history', s, j), j <= i
         PROVE  j <= history'[s][i].view[Use(s)]
    <2>0. Len(history[s]) \in Nat /\ j \in Nat /\ i \in Nat
      BY NatFacts, <1>1, Values
    <2>1. CASE i \in 1 .. Len(history[s]) /\ history'[s][i] = history[s][i]
      <3>1. j \in 1 .. Len(history[s]) /\ DecIn(history, s, j)
        <4>1. j # Len(history[s]) + 1
          BY <1>11, <2>0, <2>1
        <4> QED  BY <1>1, <1>11, <4>1, DecGrows
      <3> QED  BY <1>11, <2>1, <3>1 DEF UseInv
    <2>2. CASE s = t /\ history'[s][i] = e
      BY <1>2, <1>5, <1>11, <2>2
    <2> QED  BY <1>1, <2>1, <2>2, Values
  (* the collector *)
  <1>12. ASSUME NEW s \in Shards, KnownOf(history, view[Collector], s)
         PROVE  KnownOf(history', view'[Collector], s)
    <2>1. view'[Collector] = view[Collector] /\ view[Collector] \in Views
          /\ view[Collector][s] <= Len(history[s])
      BY <1>1, <1>3 DEF ViewInv
    <2> QED  BY <1>1, <1>12, <2>1, KnownGrows
  <1>13. pc' = pc /\ k' = k /\ pc # "freed"
    BY <1>1 DEF UserWrites
  <1>14. \A u \in Users : Known(history', view'[u])
    BY <1>6 DEF Known
  <1>15. pc' = "recheck" => \A s \in Shards : s < k' => KnownOf(history', view'[Collector], s)
    BY <1>12, <1>13 DEF UseInv
  <1> QED  BY <1>9, <1>10, <1>11, <1>13, <1>14, <1>15 DEF UseInv

(* Every step keeps what views know. *)
LEMMA UseStep ==
    ASSUME MemType, ViewInv, UseInv, Next, MemType'
    PROVE  UseInv'
  <1>0. /\ \A a \in Agents : view[a] \in Views /\ view'[a] \in Views
        /\ \A a \in Agents, x \in Places : view[a][x] \in Nat /\ view'[a][x] \in Nat
        /\ \A r \in Shards : Len(history[r]) \in Nat
        /\ \A r \in Shards : r \in Agents /\ r \in Places /\ Use(r) \in Places /\ Use(r) \notin Shards
        /\ Collector \in Agents
    BY PlaceFacts DEF MemType, Views
  <1>1. ASSUME NEW t \in Users, NEW e, CloneWrites(t, e) \/ DropWrites(t, e)
        PROVE  UseInv'
    BY <1>1, UseUserStep
  <1>2. ASSUME NEW t \in Users, NEW u \in Users, SendMoves(t, u)
        PROVE  UseInv'
    <2>1. /\ history' = history /\ pc' = pc /\ k' = k /\ pc # "freed"
          /\ t \in Agents /\ u \in Agents /\ u # Collector
          /\ \A a \in Agents \ {u} : view'[a] = view[a]
          /\ \A x \in Places : /\ view[u][x] <= view'[u][x] /\ view[t][x] <= view'[u][x]
                               /\ view'[u][x] = view[u][x] \/ view'[u][x] = view[t][x]
      BY <1>2, PlaceFacts DEF SendMoves
    <2>2. ASSUME NEW w \in Users, NEW r \in Shards
          PROVE  KnownOf(history, view'[w], r)
      <3>1. KnownOf(history, view[w], r) /\ KnownOf(history, view[t], r) /\ w \in Agents
        BY PlaceFacts DEF UseInv, Known
      <3>2. CASE w = u
        BY <1>0, <2>1, <3>1, <3>2, KnownJoin
      <3>3. CASE w # u
        BY <2>1, <3>1, <3>3
      <3> QED  BY <3>2, <3>3
    <2>3. ASSUME NEW s \in Shards, NEW j \in 1 .. Len(history[s]), DecIn(history, s, j)
          PROVE  j <= view'[s][Use(s)]
      <3>1. j <= view[s][Use(s)] /\ j \in Nat
        BY <2>3 DEF UseInv
      <3>2. view[s][Use(s)] <= view'[s][Use(s)]
        BY <1>0, <2>1
      <3> QED  BY <1>0, <3>1, <3>2
    <2>4. \A w \in Users : Known(history, view'[w])
      BY <2>2 DEF Known
    <2>5. view'[Collector] = view[Collector]
      BY <1>0, <2>1
    <2> QED  BY <2>1, <2>3, <2>4, <2>5 DEF UseInv
  <1>3. ASSUME NEW e, ClearWrites(e)
        PROVE  UseInv'
    <2>1. /\ k \in Shards /\ e \in Entry /\ Grows(k, e) /\ e.view = Latest(k).view
          /\ e.count = Latest(k).count /\ \A u \in Users : view'[u] = view[u]
          /\ pc = "clear" /\ pc' = pc
      BY <1>3 DEF ClearWrites
    <2>2. /\ Len(history[k]) \in 1 .. Len(history[k]) /\ Latest(k) = history[k][Len(history[k])]
          /\ Latest(k).count \in Int
      BY <2>1, LatestFacts DEF Entry
    <2>3. ASSUME NEW s \in Shards, NEW j \in 1 .. Len(history'[s]), DecIn(history', s, j)
          PROVE  j \in 1 .. Len(history[s]) /\ DecIn(history, s, j)
      <3>1. ~ (e.count < Latest(k).count)
        BY <2>1, <2>2
      <3> QED  BY <2>1, <2>3, <3>1, DecGrows
    <2>4. ASSUME NEW u \in Users
          PROVE  Known(history', view'[u])
      <3>1. /\ view'[u] = view[u] /\ view[u] \in Views /\ Known(history, view[u])
            /\ \A r \in Shards : view[u][r] <= Len(history[r])
        BY <1>0, <2>1, PlaceFacts DEF UseInv, ViewInv
      <3> QED  BY <2>1, <3>1, KnownGrows DEF Known
    <2>5. ASSUME NEW s \in Shards, NEW i \in 1 .. Len(history[s])
          PROVE  Known(history', history[s][i].view)
      <3>1. /\ history[s][i].view \in Views /\ Known(history, history[s][i].view)
            /\ \A r \in Shards : history[s][i].view[r] <= Len(history[r])
        BY NatFacts DEF UseInv, ViewInv
      <3> QED  BY <2>1, <3>1, KnownGrows DEF Known
    <2>6. ASSUME NEW s \in Shards, NEW i \in 1 .. Len(history'[s])
          PROVE  Known(history', history'[s][i].view)
      <3>1. CASE i \in 1 .. Len(history[s]) /\ history'[s][i] = history[s][i]
        BY <2>5, <3>1
      <3>2. CASE history'[s][i] = e
        <4>1. Known(history', history[k][Len(history[k])].view)
          BY <2>1, <2>2, <2>5
        <4> QED  BY <2>1, <2>2, <3>2, <4>1
      <3> QED  BY <2>1, <3>1, <3>2, Values
    <2>7. ASSUME NEW s \in Shards, NEW j \in 1 .. Len(history'[s]), DecIn(history', s, j)
          PROVE  j <= view'[s][Use(s)]
      BY <2>1, <2>3, <2>7, PlaceFacts DEF UseInv
    <2>8. ASSUME NEW s \in Shards, NEW i \in 1 .. Len(history'[s]), NEW j \in 1 .. Len(history'[s]),
                 DecIn(history', s, j), j <= i
          PROVE  j <= history'[s][i].view[Use(s)]
      <3>1. j \in 1 .. Len(history[s]) /\ DecIn(history, s, j)
        BY <2>3, <2>8
      <3>2. CASE i \in 1 .. Len(history[s]) /\ history'[s][i] = history[s][i]
        BY <2>8, <3>1, <3>2 DEF UseInv
      <3>3. CASE s = k /\ history'[s][i] = e
        <4>1. j <= Len(history[k])
          BY <1>0, <3>1, <3>3
        <4>2. j <= history[k][Len(history[k])].view[Use(k)]
          BY <2>1, <2>2, <3>1, <3>3, <4>1 DEF UseInv
        <4> QED  BY <2>1, <2>2, <3>3, <4>2
      <3> QED  BY <2>1, <3>2, <3>3, Values
    <2> QED  BY <2>1, <2>4, <2>6, <2>7, <2>8 DEF UseInv
  <1>4. ASSUME NEW i, PreReads(i)
        PROVE  UseInv'
    <2>1. history' = history /\ \A u \in Users : view'[u] = view[u]
      BY <1>4 DEF PreReads, Reads
    <2> QED  BY <1>4, <2>1, PlaceFacts DEF UseInv, PreReads
  <1>5. ASSUME NEW i, RecheckReads(i)
        PROVE  UseInv'
    <2>1. /\ k \in Shards /\ i \in 1 .. Len(history[k]) /\ history' = history
          /\ \A u \in Users : view'[u] = view[u]
          /\ view'[Collector][k] = i
          /\ \A x \in Places \ {k} :
                /\ view[Collector][x] <= view'[Collector][x]
                /\ view'[Collector][x] = view[Collector][x]
                      \/ view'[Collector][x] = history[k][i].view[x]
                /\ history[k][i].view[x] <= view'[Collector][x]
      BY <1>5 DEF RecheckReads, Reads
    <2>2. history[k][i].view \in Views /\ Known(history, history[k][i].view)
      BY <2>1, NatFacts DEF UseInv
    <2>3. ASSUME NEW s \in Shards, s < k + 1, pc = "recheck"
          PROVE  KnownOf(history, view'[Collector], s)
      <3>1. CASE s = k
        <4> SUFFICES ASSUME NEW j \in 1 .. Len(history[k]), DecIn(history, k, j), j <= i
                     PROVE  j <= view'[Collector][Use(k)]
          BY <2>1, <3>1 DEF KnownOf
        <4>1. j <= history[k][i].view[Use(k)]
          BY <2>1 DEF UseInv
        <4>2. history[k][i].view[Use(k)] <= view'[Collector][Use(k)]
          BY <1>0, <2>1
        <4>3. history[k][i].view[Use(k)] \in Nat /\ view'[Collector][Use(k)] \in Nat /\ j \in Nat
          BY <1>0, <2>1, <2>2 DEF Views
        <4> QED  BY <4>1, <4>2, <4>3
      <3>2. CASE s # k
        <4>1. s < k
          BY <2>1, <2>3, <3>2, ShardFacts
        <4>2. KnownOf(history, view[Collector], s) /\ KnownOf(history, history[k][i].view, s)
          BY <2>2, <2>3, <4>1 DEF UseInv, Known
        <4>3. /\ view[Collector][Use(s)] <= view'[Collector][Use(s)]
              /\ history[k][i].view[Use(s)] <= view'[Collector][Use(s)]
              /\ view'[Collector][s] = view[Collector][s]
                      \/ view'[Collector][s] = history[k][i].view[s]
          BY <1>0, <2>1, <3>2
        <4> QED  BY <1>0, <2>2, <4>2, <4>3, KnownJoin
      <3> QED  BY <3>1, <3>2
    <2>4. pc = "recheck" /\ (pc' = "pre" \/ (pc' = pc /\ k' = k + 1))
      BY <1>5 DEF RecheckReads
    <2>5. pc' = "recheck" => \A s \in Shards : s < k' => KnownOf(history, view'[Collector], s)
      BY <2>3, <2>4
    <2>6. pc' # "freed"
      BY <2>4
    <2> QED  BY <2>1, <2>5, <2>6, PlaceFacts DEF UseInv
  <1>6. ASSUME LoopEnds
        PROVE  UseInv'
    <2>1. history' = history /\ view' = view /\ k = ShardCount /\ k' = 0
      BY <1>6 DEF LoopEnds
    <2>2. pc' = "freed" => pc = "recheck"
      BY <1>6 DEF LoopEnds
    <2>3. pc' = "freed" => Known(history, view[Collector])
      BY <2>1, <2>2, ShardFacts DEF UseInv, Known
    <2>4. \A s \in Shards : ~ (s < 0)
      BY ShardFacts
    <2> QED  BY <2>1, <2>3, <2>4 DEF UseInv
  <1> QED  BY <1>1, <1>2, <1>3, <1>4, <1>5, <1>6, StepKinds

-----------------------------------------------------------------------------
(* The latest counts are integers. *)
LEMMA CountsType ==
    ASSUME MemType, ViewInv
    PROVE  /\ Counts(history) \in [Shards -> Int]
           /\ \A s \in Shards : Counts(history)[s] = Latest(s).count
  <1>1. \A s \in Shards : Latest(s).count \in Int
    BY LatestFacts DEF Entry
  <1> QED  BY <1>1 DEF Counts, Latest

(* The latest counts after a write of counter s. *)
LEMMA CountsGrow ==
    ASSUME MemType, ViewInv, NEW s \in Shards, NEW e \in Entry, Grows(s, e),
           NEW d \in Int, e.count = Latest(s).count + d
    PROVE  /\ Counts(history') \in [Shards -> Int]
           /\ Total(Counts(history')) = Total(Counts(history)) + d
  <1>1. history'[s][Len(history'[s])] = e /\ \A r \in Shards \ {s} : history'[r] = history[r]
    BY DEF Grows
  <1>2. /\ Counts(history')[s] = Counts(history)[s] + d
        /\ \A r \in Shards \ {s} : Counts(history')[r] = Counts(history)[r]
    BY <1>1, CountsType DEF Counts
  <1>3. Counts(history') \in [Shards -> Int]
    <2>1. \A r \in Shards : Counts(history')[r] \in Int
      BY <1>2, CountsType
    <2> QED  BY <2>1 DEF Counts
  <1> QED  BY <1>2, <1>3, CountsType, TotalShift

(* Clones, drops and sends keep the latest counts at the handles. *)
LEMMA CountStep ==
    ASSUME MemType, ViewInv, CountInv, Next, MemType'
    PROVE  CountInv'
  <1>0. /\ hold \in [Shards -> Int] /\ hold' \in [Shards -> Int] /\ Users = Shards
        /\ Total(hold) \in Int /\ Total(Counts(history)) = Total(hold)
        /\ \A s \in Shards : hold[s] \in Int /\ hold'[s] \in Int
    <2>1. hold \in [Shards -> Int] /\ hold' \in [Shards -> Int]
      BY PlaceFacts DEF MemType
    <2> QED  BY <2>1, TotalIsSum, PlaceFacts DEF CountInv
  <1>1. ASSUME NEW t \in Users, NEW e, NEW d \in Int, UserWrites(t, e),
               e.count = Latest(t).count + d, hold'[t] = hold[t] + d
        PROVE  CountInv'
    <2>1. e \in Entry /\ Grows(t, e) /\ t \in Shards /\ \A u \in Shards \ {t} : hold'[u] = hold[u]
      BY <1>0, <1>1 DEF UserWrites
    <2>2. Total(hold') = Total(hold) + d
      BY <1>0, <1>1, <2>1, TotalShift
    <2>3. Total(Counts(history')) = Total(Counts(history)) + d
      BY <1>1, <2>1, CountsGrow
    <2> QED  BY <1>0, <2>2, <2>3 DEF CountInv
  <1>2. ASSUME NEW t \in Users, NEW e, CloneWrites(t, e) \/ DropWrites(t, e)
        PROVE  CountInv'
    <2>0. Latest(t).count \in Int /\ hold[t] \in Int /\ 1 \in Int /\ -1 \in Int
      BY <1>0, LatestFacts DEF Entry
    <2>1. CASE CloneWrites(t, e)
      BY <1>1, <2>0, <2>1 DEF CloneWrites
    <2>2. CASE DropWrites(t, e)
      <3>1. UserWrites(t, e) /\ e.count = Latest(t).count + (-1) /\ hold'[t] = hold[t] + (-1)
        BY <2>0, <2>2 DEF DropWrites
      <3> QED  BY <1>1, <2>0, <3>1
    <2> QED  BY <1>2, <2>1, <2>2
  <1>3. ASSUME NEW t \in Users, NEW u \in Users, SendMoves(t, u)
        PROVE  CountInv'
    <2>1. /\ t # u /\ history' = history /\ hold'[t] = hold[t] - 1 /\ hold'[u] = hold[u] + 1
          /\ \A w \in Users \ {t, u} : hold'[w] = hold[w]
      BY <1>3 DEF SendMoves
    <2> DEFINE g == [hold EXCEPT ![t] = hold[t] - 1]
    <2>2. /\ g \in [Shards -> Int] /\ g[t] = hold[t] + (-1) /\ -1 \in Int
          /\ \A w \in Shards \ {t} : g[w] = hold[w]
      BY <1>0
    <2>3. hold'[u] = g[u] + 1 /\ \A w \in Shards \ {u} : hold'[w] = g[w]
      BY <1>0, <2>1, <2>2
    <2> HIDE DEF g
    <2>4. Total(g) = Total(hold) + (-1)
      BY <1>0, <2>2, TotalShift
    <2>5. Total(hold') = Total(g) + 1
      BY <1>0, <2>2, <2>3, TotalShift
    <2> QED  BY <1>0, <2>1, <2>4, <2>5 DEF CountInv
  <1>4. ASSUME NEW e, ClearWrites(e)
        PROVE  CountInv'
    <2>1. k \in Shards /\ e \in Entry /\ Grows(k, e) /\ e.count = Latest(k).count /\ hold' = hold
      BY <1>4 DEF ClearWrites
    <2>2. Latest(k).count \in Int /\ e.count = Latest(k).count + 0
      BY <2>1, LatestFacts DEF Entry
    <2>3. Total(Counts(history')) = Total(Counts(history)) + 0
      BY <2>1, <2>2, CountsGrow
    <2> QED  BY <1>0, <2>1, <2>3 DEF CountInv
  <1>5. ASSUME NEW i, PreReads(i) \/ RecheckReads(i)
        PROVE  CountInv'
    BY <1>0, <1>5 DEF PreReads, RecheckReads, Reads, CountInv
  <1>6. ASSUME LoopEnds
        PROVE  CountInv'
    BY <1>0, <1>6 DEF LoopEnds, CountInv
  <1> QED  BY <1>2, <1>3, <1>4, <1>5, <1>6, StepKinds

-----------------------------------------------------------------------------
(* Sums of the counts before a shard. *)
LEMMA BeforeFacts ==
    ASSUME NEW m \in [Shards -> Int]
    PROVE  /\ Total(Before(m, 0)) = 0
           /\ Before(m, ShardCount) = m
           /\ \A n \in 0 .. ShardCount : Before(m, n) \in [Shards -> Int]
           /\ \A n \in Shards : Total(Before(m, n + 1)) = Total(Before(m, n)) + m[n]
  <1>1. Before(m, 0) = [s \in Shards |-> 0]
    BY ShardFacts DEF Before
  <1>2. Before(m, ShardCount) = m
    BY ShardFacts DEF Before
  <1>3. \A n : Before(m, n) \in [Shards -> Int]
    BY DEF Before
  <1>4. ASSUME NEW n \in Shards
        PROVE  Total(Before(m, n + 1)) = Total(Before(m, n)) + m[n]
    <2>1. /\ Before(m, n + 1)[n] = Before(m, n)[n] + m[n]
          /\ \A r \in Shards \ {n} : Before(m, n + 1)[r] = Before(m, n)[r]
      BY ShardFacts DEF Before
    <2>2. m[n] \in Int
      OBVIOUS
    <2> QED  BY <1>3, <2>1, <2>2, TotalShift
  <1> QED  BY <1>1, <1>2, <1>3, <1>4, TotalZero

(* A clone or a drop keeps what holds since the tag was cleared: a drop    *)
(* sets the tag, a clone leaves it and adds to the count.                  *)
LEMMA SinceUser ==
    ASSUME MemType, ViewInv, NEW t \in Users, NEW e, CloneWrites(t, e) \/ DropWrites(t, e),
           NEW s \in Shards, NEW p \in Nat, Since(history, s, p)
    PROVE  Since(history', s, p) /\ history'[s][p] = history[s][p]
  <1>1. e \in Entry /\ Grows(t, e) /\ t \in Shards
    BY PlaceFacts DEF CloneWrites, DropWrites, UserWrites
  <1>2. CASE s # t
    <2>1. history'[s] = history[s]
      BY <1>1, <1>2 DEF Grows
    <2> QED  BY <2>1 DEF Since
  <1>3. CASE s = t
    <2> DEFINE n == Len(history[s])
               h == history[s]
               g == history'[s]
    <2>1. /\ n \in Nat /\ n \in 1 .. n /\ Len(g) = n + 1 /\ g[n + 1] = e /\ Latest(s) = h[n]
          /\ \A j \in 1 .. n : g[j] = h[j]
          /\ \A j \in 1 .. n : h[j].count \in Int
      BY <1>1, <1>3, LatestFacts, NatFacts DEF Grows
    <2>2. /\ p \in 1 .. n
          /\ \A j \in p .. n : ~ h[j].tag => h[p].count <= h[j].count
          /\ \A j \in p + 1 .. n : h[j].count # h[j - 1].count
          /\ h[n].count <= h[p].count \/ \E j \in p + 1 .. n : h[j].count > h[j - 1].count
      BY DEF Since
    <2>3. \/ e.count = h[n].count + 1 /\ e.tag = h[n].tag
          \/ e.count = h[n].count - 1 /\ e.tag
      <3>1. CASE CloneWrites(t, e)
        BY <1>3, <2>1, <3>1 DEF CloneWrites
      <3>2. CASE DropWrites(t, e)
        BY <1>3, <2>1, <3>2 DEF DropWrites
      <3> QED  BY <3>1, <3>2
    <2> HIDE DEF n, h, g
    <2>4. g[p] = h[p] /\ p \in 1 .. n + 1 /\ g[n] = h[n] /\ n \in p .. n /\ p <= n
          /\ (n + 1) - 1 = n
      <3>1. p \in 1 .. n /\ n \in Nat /\ n \in 1 .. n
        BY <2>1, <2>2
      <3>2. p \in 1 .. n + 1 /\ n \in p .. n /\ p <= n /\ (n + 1) - 1 = n
        BY <3>1
      <3> QED  BY <2>1, <3>1, <3>2
    <2>5. ASSUME NEW j \in p .. n + 1, ~ g[j].tag
          PROVE  g[p].count <= g[j].count
      <3>1. CASE j \in p .. n
        <4>1. j \in 1 .. n
          BY <2>1, <2>2, <3>1
        <4> QED  BY <2>1, <2>2, <2>4, <2>5, <3>1, <4>1
      <3>2. CASE j = n + 1
        <4>1. ~ e.tag /\ e.count = h[n].count + 1 /\ ~ h[n].tag
          BY <2>1, <2>3, <2>5, <3>2
        <4>2. h[p].count <= h[n].count
          BY <2>2, <2>4, <4>1
        <4> QED  BY <2>1, <2>2, <2>4, <3>2, <4>1, <4>2
      <3> QED  BY <2>1, <2>2, <3>1, <3>2
    <2>6. ASSUME NEW j \in p + 1 .. n + 1
          PROVE  g[j].count # g[j - 1].count
      <3>1. CASE j \in p + 1 .. n
        <4>1. j \in 1 .. n /\ j - 1 \in 1 .. n
          BY <2>1, <2>2, <3>1
        <4> QED  BY <2>1, <2>2, <3>1, <4>1
      <3>2. CASE j = n + 1
        <4>1. g[j].count = e.count /\ g[j - 1].count = h[n].count /\ h[n].count \in Int
          BY <2>1, <2>4, <3>2
        <4>2. e.count = h[n].count + 1 \/ e.count = h[n].count - 1
          BY <2>3
        <4> QED  BY <4>1, <4>2
      <3> QED  BY <2>1, <2>2, <3>1, <3>2
    <2>7. \/ g[n + 1].count <= g[p].count
          \/ \E j \in p + 1 .. n + 1 : g[j].count > g[j - 1].count
      <3>1. CASE e.count = h[n].count + 1
        <4>1. n + 1 \in p + 1 .. n + 1 /\ g[n + 1].count > g[(n + 1) - 1].count
          BY <2>1, <2>2, <2>4, <3>1
        <4> QED  BY <4>1
      <3>2. CASE e.count = h[n].count - 1 /\ h[n].count <= h[p].count
        BY <2>1, <2>2, <2>4, <3>2
      <3>3. CASE \E j \in p + 1 .. n : h[j].count > h[j - 1].count
        <4>1. PICK j \in p + 1 .. n : h[j].count > h[j - 1].count
          BY <3>3
        <4>2. j \in 1 .. n /\ j - 1 \in 1 .. n /\ j \in p + 1 .. n + 1
          BY <2>1, <2>2
        <4> QED  BY <2>1, <4>1, <4>2
      <3> QED  BY <2>2, <2>3, <3>1, <3>2, <3>3
    <2>8. history'[s] = g /\ history[s] = h /\ Len(g) = n + 1
      BY <2>1 DEF g, h
    <2> QED  BY <2>4, <2>5, <2>6, <2>7, <2>8 DEF Since
  <1> QED  BY <1>2, <1>3

(* Nothing of what the clearing pass has done is lost by the step of a     *)
(* thread.                                                                 *)
LEMMA ScanUserStep ==
    ASSUME MemType, ViewInv, ScanInv, NEW t \in Users, NEW e,
           CloneWrites(t, e) \/ DropWrites(t, e)
    PROVE  ScanInv'
  <1>1. /\ pc' = pc /\ k' = k /\ sum' = sum /\ pc # "freed"
        /\ view'[Collector] = view[Collector]
    BY PlaceFacts DEF CloneWrites, DropWrites, UserWrites
  <1>2. ASSUME NEW c \in [Shards -> Nat], NEW m \in [Shards -> Int], NEW n,
               Cleared(history, view[Collector], c, m, n)
        PROVE  Cleared(history', view[Collector], c, m, n)
    <2> SUFFICES ASSUME NEW s \in Shards, s < n
                 PROVE  /\ Since(history', s, c[s]) /\ history'[s][c[s]].count = m[s]
                        /\ c[s] <= view[Collector][s]
      BY DEF Cleared
    <2>1. Since(history, s, c[s]) /\ history[s][c[s]].count = m[s] /\ c[s] <= view[Collector][s]
          /\ c[s] \in Nat
      BY <1>2 DEF Cleared
    <2> QED  BY <2>1, SinceUser
  <1> QED  BY <1>1, <1>2 DEF ScanInv

(* A load of the collector only moves its view on. *)
LEMMA ClearedLater ==
    ASSUME MemType, MemType', ViewInv, history' = history,
           \A s \in Shards : view[Collector][s] <= view'[Collector][s],
           NEW c \in [Shards -> Nat], NEW m, NEW n, Cleared(history, view[Collector], c, m, n)
    PROVE  Cleared(history', view'[Collector], c, m, n)
  <1> SUFFICES ASSUME NEW s \in Shards, s < n
               PROVE  /\ Since(history', s, c[s]) /\ history'[s][c[s]].count = m[s]
                      /\ c[s] <= view'[Collector][s]
    BY DEF Cleared
  <1>1. Since(history, s, c[s]) /\ history[s][c[s]].count = m[s] /\ c[s] <= view[Collector][s]
    BY DEF Cleared
  <1>2. c[s] \in Nat /\ view[Collector][s] \in Nat /\ view'[Collector][s] \in Nat
    BY PlaceFacts DEF MemType, Views
  <1> QED  BY <1>1, <1>2

(* Clearing a tag starts the tail of its shard. *)
LEMMA ScanClearStep ==
    ASSUME MemType, ViewInv, ScanInv, NEW e, ClearWrites(e)
    PROVE  ScanInv'
  <1>1. /\ k \in Shards /\ pc = "clear" /\ pc' = "clear" /\ e \in Entry /\ Grows(k, e)
        /\ view'[Collector][k] = Len(history[k]) + 1
        /\ \A s \in Shards \ {k} : view'[Collector][s] = view[Collector][s]
        /\ e.count = Latest(k).count /\ ~ e.tag
        /\ k' = k + 1 /\ sum' = sum + Latest(k).count
    BY PlaceFacts DEF ClearWrites
  <1>2. PICK c \in [Shards -> Nat], m \in [Shards -> Int] :
           Cleared(history, view[Collector], c, m, k) /\ sum = Total(Before(m, k))
    BY <1>1 DEF ScanInv
  <1>3. /\ Latest(k).count \in Int /\ Len(history[k]) \in Nat
        /\ Len(history'[k]) = Len(history[k]) + 1 /\ history'[k][Len(history[k]) + 1] = e
        /\ \A r \in Shards \ {k} : history'[r] = history[r]
    BY <1>1, LatestFacts DEF Entry, Grows
  <1> DEFINE d == [c EXCEPT ![k] = Len(history[k]) + 1]
             q == [m EXCEPT ![k] = Latest(k).count]
  <1>4. /\ d \in [Shards -> Nat] /\ d[k] = Len(history[k]) + 1
        /\ \A s \in Shards \ {k} : d[s] = c[s]
    BY <1>1, <1>3
  <1>5. /\ q \in [Shards -> Int] /\ q[k] = Latest(k).count
        /\ \A s \in Shards \ {k} : q[s] = m[s]
    BY <1>1, <1>3
  <1> HIDE DEF d, q
  <1>6. Since(history', k, d[k])
    <2> DEFINE n == Len(history[k]) + 1
    <2>1. n \in Nat /\ n \in 1 .. n /\ Len(history'[k]) = n /\ d[k] = n /\ history'[k][n] = e
          /\ e.count \in Int
      BY <1>1, <1>3, <1>4
    <2>2. (\A j \in n .. n : j = n) /\ \A j \in n + 1 .. n : FALSE
      BY <2>1
    <2> HIDE DEF n
    <2>3. e.count <= e.count
      BY <2>1
    <2> QED  BY <2>1, <2>2, <2>3 DEF Since
  <1>7. Cleared(history', view'[Collector], d, q, k + 1)
    <2> SUFFICES ASSUME NEW s \in Shards, s < k + 1
                 PROVE  /\ Since(history', s, d[s]) /\ history'[s][d[s]].count = q[s]
                        /\ d[s] <= view'[Collector][s]
      BY DEF Cleared
    <2>1. CASE s = k
      BY <1>1, <1>3, <1>4, <1>5, <1>6, <2>1
    <2>2. CASE s # k
      <3>1. s < k
        BY <1>1, <2>2, ShardFacts
      <3>2. Since(history, s, c[s]) /\ history[s][c[s]].count = m[s] /\ c[s] <= view[Collector][s]
        BY <1>2, <3>1 DEF Cleared
      <3>3. /\ history'[s] = history[s] /\ d[s] = c[s] /\ q[s] = m[s]
            /\ view'[Collector][s] = view[Collector][s]
        BY <1>1, <1>3, <1>4, <1>5, <2>2
      <3> QED  BY <3>2, <3>3 DEF Since
    <2> QED  BY <2>1, <2>2
  <1>8. sum' = Total(Before(q, k + 1))
    <2>1. Total(Before(q, k + 1)) = Total(Before(q, k)) + q[k]
      BY <1>1, <1>5, BeforeFacts
    <2>2. Before(q, k) = Before(m, k)
      <3>1. \A s \in Shards : s < k => q[s] = m[s]
        BY <1>1, <1>5, ShardFacts
      <3> QED  BY <3>1 DEF Before
    <2> QED  BY <1>1, <1>2, <1>5, <2>1, <2>2
  <1>9. pc' # "recheck" /\ pc' # "freed"
    BY <1>1
  <1>10. Cleared(history', view'[Collector], d, q, k') /\ sum' = Total(Before(q, k'))
    BY <1>1, <1>7, <1>8
  <1>11. \E c1 \in [Shards -> Nat], m1 \in [Shards -> Int] :
            Cleared(history', view'[Collector], c1, m1, k') /\ sum' = Total(Before(m1, k'))
    BY <1>4, <1>5, <1>10
  <1> QED  BY <1>9, <1>11 DEF ScanInv

(* What the re-check reads has not fallen since the tag was cleared. *)
LEMMA ScanReadStep ==
    ASSUME MemType, ViewInv, ScanInv, MemType', NEW i, RecheckReads(i)
    PROVE  ScanInv'
  <1>1. /\ k \in Shards /\ i \in 1 .. Len(history[k]) /\ history' = history /\ pc = "recheck"
        /\ view[Collector][k] <= i
        /\ IF history[k][i].tag
           THEN pc' = "pre" /\ k' = 0 /\ sum' = 0
           ELSE pc' = "recheck" /\ k' = k + 1 /\ sum' = sum + history[k][i].count
    BY DEF RecheckReads, Reads
  <1>2. \A s \in Shards : view[Collector][s] <= view'[Collector][s]
    <2>1. \A s \in Shards \ {k} : view[Collector][s] <= view'[Collector][s]
      BY PlaceFacts DEF RecheckReads, Reads
    <2>2. view[Collector][k] <= view'[Collector][k]
      BY DEF RecheckReads, Reads
    <2> QED  BY <2>1, <2>2
  <1>3. CASE history[k][i].tag
    <2>1. pc' = "pre"
      BY <1>1, <1>3
    <2> QED  BY <2>1 DEF ScanInv
  <1>4. CASE ~ history[k][i].tag
    <2>1. PICK c \in [Shards -> Nat], m \in [Shards -> Int] :
             /\ Cleared(history, view[Collector], c, m, ShardCount) /\ Total(m) = 0
             /\ Total(Before(m, k)) <= sum
      BY <1>1 DEF ScanInv
    <2>2. Cleared(history', view'[Collector], c, m, ShardCount)
      BY <1>1, <1>2, <2>1, ClearedLater
    <2>3. Since(history, k, c[k]) /\ history[k][c[k]].count = m[k] /\ c[k] <= view[Collector][k]
          /\ c[k] \in Nat
      BY <1>1, <2>1, ShardFacts DEF Cleared
    <2>4. i \in c[k] .. Len(history[k])
      <3>1. view[Collector][k] \in Nat /\ Len(history[k]) \in Nat
        BY <1>1, NatFacts, PlaceFacts
      <3> QED  BY <1>1, <2>3, <3>1
    <2>5. m[k] <= history[k][i].count
      BY <1>4, <2>3, <2>4 DEF Since
    <2>6. Total(Before(m, k + 1)) <= sum'
      <3>1. Total(Before(m, k + 1)) = Total(Before(m, k)) + m[k]
        BY <1>1, BeforeFacts
      <3>2. Total(Before(m, k)) \in Int
        <4>1. Before(m, k) \in [Shards -> Int]
          BY BeforeFacts DEF MemType
        <4> QED  BY <4>1, TotalIsSum
      <3>3. history[k][i].count \in Int /\ m[k] \in Int /\ sum \in Int
        BY <1>1, NatFacts DEF MemType
      <3>4. sum' = sum + history[k][i].count
        BY <1>1, <1>4
      <3> QED  BY <2>1, <2>5, <3>1, <3>2, <3>3, <3>4
    <2>7. pc' = "recheck" /\ k' = k + 1
      BY <1>1, <1>4
    <2>8. \E c1 \in [Shards -> Nat], m1 \in [Shards -> Int] :
             /\ Cleared(history', view'[Collector], c1, m1, ShardCount) /\ Total(m1) = 0
             /\ Total(Before(m1, k')) <= sum'
      BY <2>1, <2>2, <2>6, <2>7
    <2> QED  BY <2>7, <2>8 DEF ScanInv
  <1> QED  BY <1>3, <1>4

(* The clearing pass ends in a re-check only with the sum zero. *)
LEMMA ScanEndStep ==
    ASSUME MemType, ViewInv, ScanInv, LoopEnds
    PROVE  ScanInv'
  <1>1. /\ history' = history /\ view' = view /\ k = ShardCount /\ k' = 0 /\ sum' = 0
        /\ pc' \in {"pre", "clear", "recheck", "freed"}
        /\ pc' = "recheck" => pc = "clear" /\ sum = 0
        /\ pc' = "freed" => pc = "recheck"
    BY DEF LoopEnds
  <1>2. ASSUME pc' = "clear"
        PROVE  \E c \in [Shards -> Nat], m \in [Shards -> Int] :
                  Cleared(history', view'[Collector], c, m, k') /\ sum' = Total(Before(m, k'))
    <2> DEFINE z == [s \in Shards |-> 0]
    <2>1. z \in [Shards -> Nat] /\ z \in [Shards -> Int]
      OBVIOUS
    <2> HIDE DEF z
    <2>2. Cleared(history', view'[Collector], z, z, 0)
      BY ShardFacts DEF Cleared
    <2>3. Total(Before(z, 0)) = 0
      BY <2>1, BeforeFacts
    <2> QED  BY <1>1, <2>1, <2>2, <2>3
  <1>3. ASSUME pc' = "recheck"
        PROVE  \E c \in [Shards -> Nat], m \in [Shards -> Int] :
                  /\ Cleared(history', view'[Collector], c, m, ShardCount) /\ Total(m) = 0
                  /\ Total(Before(m, k')) <= sum'
    <2>1. pc = "clear" /\ sum = 0
      BY <1>1, <1>3
    <2>2. PICK c \in [Shards -> Nat], m \in [Shards -> Int] :
             Cleared(history, view[Collector], c, m, k) /\ sum = Total(Before(m, k))
      BY <2>1 DEF ScanInv
    <2>3. Total(Before(m, 0)) = 0 /\ Before(m, ShardCount) = m
      BY BeforeFacts
    <2>4. Total(m) = 0 /\ Total(Before(m, k')) <= sum'
      BY <1>1, <2>1, <2>2, <2>3
    <2>5. Cleared(history', view'[Collector], c, m, ShardCount)
      BY <1>1, <2>2
    <2> QED  BY <2>4, <2>5
  <1>4. ASSUME pc' = "freed"
        PROVE  \E c \in [Shards -> Nat], m \in [Shards -> Int] :
                  Cleared(history', view'[Collector], c, m, ShardCount) /\ Total(m) = 0
    BY <1>1, <1>4 DEF ScanInv
  <1> QED  BY <1>2, <1>3, <1>4 DEF ScanInv

-----------------------------------------------------------------------------
(* At first each counter has one value, and nothing was dropped. *)
LEMMA MemInit == Init => MemInv
  <1> SUFFICES ASSUME Init
               PROVE  MemInv
    OBVIOUS
  <1>1. /\ Nothing \in Views /\ \A x \in Places : Nothing[x] = 0
        /\ \A s \in Shards : s \in Places
    BY PlaceFacts DEF Nothing, Views
  <1>2. \A s \in Shards : /\ Len(history[s]) = 1 /\ history[s] \in Seq(Entry)
                          /\ history[s][1].view = Nothing
                          /\ history[s][1].count = IF s = ShardCount - 1 THEN 1 ELSE 0
    <2> SUFFICES ASSUME NEW s \in Shards
                 PROVE  /\ Len(history[s]) = 1 /\ history[s] \in Seq(Entry)
                        /\ history[s][1].view = Nothing
                        /\ history[s][1].count = IF s = ShardCount - 1 THEN 1 ELSE 0
      OBVIOUS
    <2> DEFINE e == [count |-> IF s = ShardCount - 1 THEN 1 ELSE 0, tag |-> FALSE,
                     view |-> Nothing]
    <2>1. history[s] = <<e>>
      BY DEF Init
    <2>2. e \in Entry /\ e.view = Nothing /\ e.count = IF s = ShardCount - 1 THEN 1 ELSE 0
      BY <1>1 DEF Entry
    <2> HIDE DEF e
    <2> QED  BY <2>1, <2>2
  <1>3. history = [s \in Shards |-> history[s]]
    BY DEF Init
  <1>4. /\ view \in [Agents -> Views]
        /\ \A a \in Agents : \A s \in Shards : view[a][s] = 1
    BY PlaceFacts DEF Init, Agents, Views
  <1>5. /\ hold \in [Users -> Nat] /\ hold = [s \in Shards |-> hold[s]]
        /\ \A s \in Shards : hold[s] = IF s = ShardCount - 1 THEN 1 ELSE 0
    BY PlaceFacts DEF Init
  <1>6. MemType
    <2>1. history \in [Shards -> Seq(Entry)]
      BY <1>2, <1>3
    <2>2. /\ pc \in {"pre", "clear", "recheck", "freed"} /\ k \in 0 .. ShardCount
          /\ sum \in Int /\ steps \in Nat
      BY ShardFacts DEF Init
    <2> QED  BY <1>4, <1>5, <2>1, <2>2 DEF MemType
  <1>7. ViewInv
    BY <1>1, <1>2, <1>4 DEF ViewInv
  <1>8. UseInv
    <2>1. ASSUME NEW s \in Shards, NEW j \in 1 .. Len(history[s])
          PROVE  ~ DecIn(history, s, j)
      BY <1>2, <2>1 DEF DecIn
    <2> QED  BY <2>1 DEF UseInv, Known, KnownOf, Init
  <1>9. CountInv
    <2>1. Counts(history) = hold
      BY <1>2, <1>5 DEF Counts
    <2> QED  BY <2>1 DEF CountInv
  <1>10. ScanInv
    BY DEF Init, ScanInv
  <1> QED  BY <1>6, <1>7, <1>8, <1>9, <1>10 DEF MemInv

(* The invariant is inductive. *)
LEMMA MemInvStep ==
    ASSUME MemInv, [Next]_vars
    PROVE  MemInv'
  <1>0. MemType /\ ViewInv /\ UseInv /\ CountInv /\ ScanInv
    BY DEF MemInv
  <1>1. CASE Next
    <2>1. MemType' /\ ViewInv'
      BY <1>0, <1>1, TypeStep, ViewStep
    <2>2. UseInv' /\ CountInv'
      BY <1>0, <1>1, <2>1, UseStep, CountStep
    <2>3. ScanInv'
      <3>1. ASSUME NEW t \in Users, NEW e, CloneWrites(t, e) \/ DropWrites(t, e)
            PROVE  ScanInv'
        BY <1>0, <3>1, ScanUserStep
      <3>2. ASSUME NEW t \in Users, NEW u \in Users, SendMoves(t, u)
            PROVE  ScanInv'
        <4>1. view'[Collector] = view[Collector] /\ UNCHANGED <<history, pc, k, sum>>
          BY <3>2, PlaceFacts DEF SendMoves
        <4> QED  BY <1>0, <4>1 DEF ScanInv
      <3>3. ASSUME NEW e, ClearWrites(e)
            PROVE  ScanInv'
        BY <1>0, <3>3, ScanClearStep
      <3>4. ASSUME NEW i, RecheckReads(i)
            PROVE  ScanInv'
        BY <1>0, <2>1, <3>4, ScanReadStep
      <3>5. ASSUME NEW i, PreReads(i)
            PROVE  ScanInv'
        BY <3>5 DEF PreReads, ScanInv
      <3>6. CASE LoopEnds
        BY <1>0, <3>6, ScanEndStep
      <3> QED  BY <1>0, <1>1, <3>1, <3>2, <3>3, <3>4, <3>5, <3>6, StepKinds
    <2> QED  BY <2>1, <2>2, <2>3 DEF MemInv
  <1>2. CASE UNCHANGED vars
    <2>1. /\ history' = history /\ view' = view /\ hold' = hold /\ pc' = pc
          /\ k' = k /\ sum' = sum /\ steps' = steps
      BY <1>2 DEF vars
    <2>2. MemType' /\ ViewInv' /\ CountInv'
      BY <1>0, <2>1 DEF MemType, ViewInv, CountInv
    <2>3. UseInv' /\ ScanInv'
      BY <1>0, <2>1 DEF UseInv, ScanInv
    <2> QED  BY <2>2, <2>3 DEF MemInv
  <1> QED  BY <1>1, <1>2

-----------------------------------------------------------------------------
(* The assertion of collector.rs after the re-check never fails, however   *)
(* many shards, threads and steps there are and whatever old values the    *)
(* loads return: with the Relaxed clearing of the code.                    *)
THEOREM RecheckAssertionHolds == Spec => []RecheckNotNegative
  <1>1. ASSUME MemInv
        PROVE  RecheckNotNegative
    <2> SUFFICES ASSUME pc = "recheck", k = ShardCount
                 PROVE  sum >= 0
      BY DEF RecheckNotNegative
    <2>1. PICK m \in [Shards -> Int] : Total(m) = 0 /\ Total(Before(m, k)) <= sum
      BY <1>1 DEF MemInv, ScanInv
    <2>2. Before(m, k) = m
      BY BeforeFacts
    <2>3. sum \in Int
      BY <1>1 DEF MemInv, MemType
    <2> QED  BY <2>1, <2>2, <2>3
  <1>2. MemInv /\ [Next]_vars => MemInv'
    BY MemInvStep
  <1> QED  BY <1>1, <1>2, MemInit, PTL DEF Spec

(* When the collector drops the content it has seen every use through a    *)
(* handle whose decrement its re-check has seen: the Release decrement     *)
(* reaches the Acquire load also through later Relaxed writes of the       *)
(* counter, the clearing of the tag among them.                            *)
THEOREM FreedAfterUses == Spec => []FreedAfterSeenUses
  <1>1. ASSUME MemInv
        PROVE  FreedAfterSeenUses
    <2> SUFFICES ASSUME pc = "freed", NEW s \in Shards, NEW j \in 1 .. view[Collector][s],
                        Decremented(s, j)
                 PROVE  j <= view[Collector][Use(s)]
      BY DEF FreedAfterSeenUses
    <2>1. /\ view[Collector][s] <= Len(history[s]) /\ view[Collector][s] \in Nat
          /\ Len(history[s]) \in Nat
      BY <1>1, NatFacts, PlaceFacts DEF MemInv, ViewInv
    <2>2. j \in 1 .. Len(history[s]) /\ j <= view[Collector][s]
      BY <2>1
    <2>3. DecIn(history, s, j)
      BY DEF DecIn, Decremented
    <2> QED  BY <1>1, <2>2, <2>3 DEF MemInv, UseInv, Known, KnownOf
  <1>2. MemInv /\ [Next]_vars => MemInv'
    BY MemInvStep
  <1> QED  BY <1>1, <1>2, MemInit, PTL DEF Spec

(* An object that the scan frees while a thread has a handle of it was     *)
(* cloned on a shard whose tag the same scan had already cleared: without  *)
(* a clone behind it the Relaxed scan frees only what nobody holds.        *)
THEOREM FreedHeldNeedsClone == Spec => []FreedHeldOnlyIfClonedBehind
  <1>1. ASSUME MemInv
        PROVE  FreedHeldOnlyIfClonedBehind
    <2> SUFFICES ASSUME pc = "freed", NEW t \in Users, hold[t] > 0,
                        \A s \in Shards : ~ ClonedBehind(s)
                 PROVE  FALSE
      BY DEF FreedHeldOnlyIfClonedBehind
    <2>0. MemType /\ ViewInv /\ CountInv /\ t \in Shards
      BY <1>1, PlaceFacts DEF MemInv
    <2>1. PICK c \in [Shards -> Nat], m \in [Shards -> Int] :
             Cleared(history, view[Collector], c, m, ShardCount) /\ Total(m) = 0
      BY <1>1 DEF MemInv, ScanInv
    <2>2. ASSUME NEW s \in Shards
          PROVE  Counts(history)[s] <= m[s]
      <3>1. Since(history, s, c[s]) /\ history[s][c[s]].count = m[s] /\ c[s] \in Nat
        BY <2>1, ShardFacts DEF Cleared
      <3>2. Len(history[s]) \in Nat /\ c[s] \in 1 .. Len(history[s])
            /\ \A j \in 1 .. Len(history[s]) : history[s][j].count \in Int
        BY <2>0, <3>1, NatFacts DEF Since
      <3>3. ASSUME NEW j \in c[s] + 1 .. Len(history[s]),
                   history[s][j].count > history[s][j - 1].count
            PROVE  ClonedBehind(s)
        <4>1. j \in 1 .. Len(history[s]) /\ j > 1 /\ j \in Nat
          BY <3>2
        <4>2. Incremented(s, j)
          BY <3>3, <4>1 DEF Incremented
        <4>3. ASSUME NEW i \in j .. Len(history[s])
              PROVE  ~ ClearedAt(s, i)
          <5>1. i \in c[s] + 1 .. Len(history[s])
            BY <3>2, <4>1
          <5> QED  BY <3>1, <5>1 DEF Since, ClearedAt
        <4> QED  BY <4>1, <4>2, <4>3 DEF ClonedBehind
      <3>4. history[s][Len(history[s])].count <= history[s][c[s]].count
        BY <3>1, <3>3 DEF Since
      <3> QED  BY <3>1, <3>4 DEF Counts
    <2> DEFINE z == [s \in Shards |-> 0]
    <2>3. /\ z \in [Shards -> Int] /\ hold \in [Shards -> Int] /\ z[t] = 0
          /\ \A s \in Shards : z[s] <= hold[s]
      BY <2>0, PlaceFacts DEF MemType
    <2>4. Total(z) = 0
      BY TotalZero
    <2> HIDE DEF z
    <2>5. Total(Counts(history)) <= 0
      BY <2>0, <2>1, <2>2, CountsType, TotalMono
    <2>6. Total(hold) <= Total(z)
      BY <2>0, <2>4, <2>5 DEF CountInv
    <2>7. z[t] = hold[t]
      BY <2>0, <2>3, <2>6, TotalStrict
    <2>8. hold[t] = 0
      BY <2>3, <2>7
    <2> QED  BY <2>8
  <1>2. MemInv /\ [Next]_vars => MemInv'
    BY MemInvStep
  <1> QED  BY <1>1, <1>2, MemInit, PTL DEF Spec
=============================================================================
