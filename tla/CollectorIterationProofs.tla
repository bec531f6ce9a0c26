---------------------- MODULE CollectorIterationProofs ----------------------
(***************************************************************************)
(* Proofs about CollectorIteration, for any number of objects, any         *)
(* references between them and any cap on the rounds of the inner loop.    *)
(***************************************************************************)
EXTENDS CollectorIteration, FiniteSetTheorems, WellFoundedInduction, TLAPS

(* The objects whose data holds a Sdarc of o, and those whose              *)
(* weak_inner_ref does.                                                    *)
Parents(o) == {p \in Slots : o \in obj[p].children}
Weaks(o) == {p \in Slots : obj[p].weak = o}
Owners(o) == {p \in Slots : o \in Refs(p)}
Bit(b) == IF b THEN 1 ELSE 0

(* A slot that is not in use is blank. *)
BlankInv == \A o \in Slots : ~obj[o].used => obj[o] = Unused

(* A counter counts the user handles, the owners, and the Sdarc in the     *)
(* content that is about to be dropped.                                    *)
CountInv ==
    \A o \in Slots : obj[o].count =
       obj[o].handles + Cardinality(Parents(o)) + Cardinality(Weaks(o)) + Bit(o \in dying.refs)

(* A WeakSdarcInner belongs to one object. *)
WeakInv ==
    \A o \in Slots : obj[o].weak # Null => obj[obj[o].weak].back \in {o, Null}

ObjInv == BlankInv /\ CountInv /\ WeakInv /\ BackRefLive

(* What belongs to each phase. *)
PhaseInv ==
    /\ pc # "drop" => dying = NoContent
    /\ pc # "wait" => rounds < MaxRounds
    /\ pc \notin {"spin", "visit"} => todo = {}
    /\ pc = "spin" => recheck = {} /\ local = {}
    /\ pc = "visit" => local = {}
    /\ pc = "wait" => recheck = {} /\ local = {}
    /\ \A o \in Slots : state[o] = "ReadyToFree" => pc \in {"visit", "free", "drop"}
    /\ todo \cap recheck = {}

(* An object that is ready to be freed is out of everybody's reach. *)
ReadyInv ==
    \A o \in Slots : state[o] = "ReadyToFree" =>
       obj[o].count = 0 /\ ~HasBackRef(o) /\ reader # o

(* The object of a reader whose back reference is null by now is not       *)
(* visited again in this pass: the spin of the next one waits for it.      *)
ReaderInv ==
    reader # Null =>
       /\ obj[reader].used /\ obj[reader].weak # Null
       /\ HasBackRef(reader) \/ (pc = "visit" => reader \notin todo)

(* Where the objects to re-check are. *)
ListedInv ==
    \A o \in Slots : state[o] = "RequiresReChecking" =>
       CASE pc = "wait" -> rounds = MaxRounds
         [] pc \in {"spin", "visit"} -> o \in todo \cup recheck
         [] OTHER -> o \in recheck

(* Passes since the last object was freed. *)
Lag == rounds - 3 * freed

(* The next re-check of o clears its back reference. *)
Uncleared(o) == ~obj[o].tag /\ obj[o].count = 0 /\ HasBackRef(o)

(* An object is re-checked at most twice before it is freed or leaves the  *)
(* list: the first time its back reference is cleared.                     *)
LagInv ==
    /\ IF pc = "wait" THEN Lag <= 2 ELSE Lag <= 1
    /\ pc \in {"spin", "visit"} =>
          \A o \in todo : /\ state[o] = "Default" => Lag <= -1
                          /\ Uncleared(o) /\ state[o] # "untracked" => Lag <= 0
    /\ \A o \in recheck : /\ state[o] = "RequiresReChecking"
                          /\ Lag <= 0 /\ (Uncleared(o) => Lag <= -1)
    /\ pc = "drop" \/ local # {} => Lag <= -2

(* The garbage of the start of the iteration stays out of reach and is     *)
(* owned by its own kind, without a cycle: every part of it has an object  *)
(* that no other in the part owns.  What nobody owns is on a list.         *)
DoomedInv ==
    pc # "wait" =>
       /\ doomed \subseteq Tracked
       /\ doomed \cap Reachable = {}
       /\ \A o \in doomed : Owners(o) \subseteq doomed
       /\ \A D \in SUBSET doomed : D # {} => \E o \in D : Owners(o) \cap D = {}
       /\ \A o \in doomed :
             /\ state[o] = "RequiresReChecking" => obj[o].count = 0 /\ ~obj[o].tag
             /\ obj[o].count = 0 => \/ state[o] = "ReadyToFree"
                                    \/ o \in todo \cup recheck \cup local

IInv ==
    /\ TypeOK /\ ObjInv /\ KnownOnce /\ PhaseInv /\ ReadyInv /\ ReaderInv
    /\ ListedInv /\ LagInv /\ DoomedInv /\ Collected

-----------------------------------------------------------------------------
(* The closure under an edge function. *)

LEMMA LeastNumber ==
    ASSUME NEW S \in SUBSET Nat, S # {}
    PROVE  \E m \in S : \A k \in S : ~(k < m)
<1>1. PICK m \in S : \A k \in S : ~(<<k, m>> \in OpToRel(<, Nat))
  BY NatLessThanWellFounded, WFMin
<1>2. QED
  BY <1>1 DEF OpToRel

Grow(T, E) == T \cup UNION {E[o] : o \in T}

(* f computes the closure of S up to n rounds. *)
Grows(f, n, S, E) ==
    /\ f \in [0 .. n -> SUBSET Slots]
    /\ f[0] = S
    /\ \A k \in 0 .. n : k # 0 => f[k] = Grow(f[k - 1], E)

LEMMA GrowType ==
    ASSUME NEW T \in SUBSET Slots, NEW E \in [Slots -> SUBSET Slots]
    PROVE  Grow(T, E) \in SUBSET Slots /\ T \subseteq Grow(T, E)
  BY DEF Grow

LEMMA GrowsExists ==
    ASSUME NEW S \in SUBSET Slots, NEW E \in [Slots -> SUBSET Slots], NEW n \in Nat
    PROVE  \E f : Grows(f, n, S, E)
<1> DEFINE B == {k \in Nat : ~\E f : Grows(f, k, S, E)}
<1> SUFFICES ASSUME B # {} PROVE FALSE
  OBVIOUS
<1>1. PICK m \in B : \A k \in B : ~(k < m)
  <2>1. B \in SUBSET Nat
    OBVIOUS
  <2> HIDE DEF B
  <2>2. QED
    BY <2>1, LeastNumber
<1>2. m \in Nat /\ ~\E f : Grows(f, m, S, E)
  OBVIOUS
<1>3. CASE m = 0
  <2>1. Grows([k \in 0 .. 0 |-> S], 0, S, E)
    BY DEF Grows
  <2>2. QED
    BY <1>2, <1>3, <2>1
<1>4. CASE m # 0
  <2>1. m - 1 \in Nat /\ m - 1 < m
    BY <1>2, <1>4
  <2>2. PICK f : Grows(f, m - 1, S, E)
    BY <1>1, <2>1
  <2> DEFINE g == [k \in 0 .. m |-> IF k = m THEN Grow(f[m - 1], E) ELSE f[k]]
  <2>3. /\ \A k \in 0 .. m : k # m => k \in 0 .. m - 1
        /\ \A k \in 0 .. m : k # 0 => k - 1 \in 0 .. m /\ k - 1 # m
        /\ m - 1 \in 0 .. m - 1 /\ 0 \in 0 .. m
    BY <1>2, <1>4
  <2>4. g \in [0 .. m -> SUBSET Slots]
    <3>1. Grow(f[m - 1], E) \in SUBSET Slots
      BY <2>2, <2>3, GrowType DEF Grows
    <3>2. \A k \in 0 .. m : k # m => f[k] \in SUBSET Slots
      BY <2>2, <2>3 DEF Grows
    <3>3. QED
      BY <3>1, <3>2
  <2>5. g[0] = S
    BY <1>4, <2>2, <2>3 DEF Grows
  <2>6. ASSUME NEW k \in 0 .. m, k # 0
        PROVE  g[k] = Grow(g[k - 1], E)
    <3>1. g[k - 1] = f[k - 1]
      BY <2>3, <2>6
    <3>2. CASE k = m
      BY <3>1, <3>2
    <3>3. CASE k # m
      <4>1. f[k] = Grow(f[k - 1], E)
        BY <2>2, <2>3, <2>6, <3>3 DEF Grows
      <4>2. QED
        BY <3>1, <3>3, <4>1
    <3>4. QED
      BY <3>2, <3>3
  <2>7. Grows(g, m, S, E)
    BY <2>4, <2>5, <2>6 DEF Grows
  <2>8. QED
    BY <1>2, <2>7
<1>5. QED
  BY <1>3, <1>4

LEMMA ClosureIs ==
    ASSUME NEW S \in SUBSET Slots, NEW E \in [Slots -> SUBSET Slots]
    PROVE  \E f : /\ Grows(f, Cardinality(Slots), S, E)
                  /\ Closure(S, E) = f[Cardinality(Slots)]
                  /\ Cardinality(Slots) \in Nat
<1> DEFINE N == Cardinality(Slots)
           G(f) == [k \in 0 .. N |-> IF k = 0 THEN S
                                     ELSE f[k - 1] \cup UNION {E[o] : o \in f[k - 1]}]
           F == CHOOSE f : f = G(f)
<1>1. N \in Nat
  BY IterationAssumption, FS_CardinalityType
<1>2. PICK f : Grows(f, N, S, E)
  BY <1>1, GrowsExists
<1>3. f = G(f)
  <2>1. \A k \in 0 .. N : f[k] = G(f)[k]
    BY <1>2 DEF Grows, Grow
  <2>2. QED
    BY <1>2, <2>1 DEF Grows
<1>4. F = G(F)
  <2> HIDE DEF G
  <2>1. QED
    BY <1>3
<1>5. Closure(S, E) = F[N]
  BY DEF Closure
<1> HIDE DEF F
<1>6. \A k \in 0 .. N : F[k] = IF k = 0 THEN S ELSE Grow(F[k - 1], E)
  BY <1>4 DEF Grow
<1> DEFINE W == {k \in 0 .. N : F[k] # f[k]}
<1>7. W = {}
  <2>1. SUFFICES ASSUME W # {} PROVE FALSE
    OBVIOUS
  <2>2. PICK m \in W : \A k \in W : ~(k < m)
    <3>1. W \in SUBSET Nat
      BY <1>1
    <3> HIDE DEF W
    <3>2. QED
      BY <2>1, <3>1, LeastNumber
  <2>3. m # 0 /\ m - 1 \in 0 .. N /\ m - 1 < m
    <3>1. m # 0
      BY <1>2, <1>6 DEF Grows
    <3>2. QED
      BY <1>1, <3>1
  <2>4. F[m - 1] = f[m - 1]
    BY <2>2, <2>3
  <2>5. F[m] = f[m]
    BY <1>2, <1>6, <2>3, <2>4 DEF Grows
  <2>6. QED
    BY <2>5
<1>8. F[N] = f[N]
  BY <1>1, <1>7
<1>9. QED
  BY <1>1, <1>2, <1>5, <1>8

(* A set that contains S and is closed under E contains the closure. *)
LEMMA ClosureWithin ==
    ASSUME NEW S \in SUBSET Slots, NEW E \in [Slots -> SUBSET Slots], NEW T,
           S \subseteq T, \A o \in Slots \cap T : E[o] \subseteq T
    PROVE  Closure(S, E) \subseteq T /\ Closure(S, E) \subseteq Slots
<1> DEFINE N == Cardinality(Slots)
<1>1. PICK f : Grows(f, N, S, E) /\ Closure(S, E) = f[N] /\ N \in Nat
  BY ClosureIs
<1> HIDE DEF N
<1> DEFINE W == {k \in 0 .. N : ~(f[k] \subseteq T)}
<1>2. W = {}
  <2>1. SUFFICES ASSUME W # {} PROVE FALSE
    OBVIOUS
  <2>2. PICK m \in W : \A k \in W : ~(k < m)
    <3>1. W \in SUBSET Nat
      BY <1>1
    <3> HIDE DEF W
    <3>2. QED
      BY <2>1, <3>1, LeastNumber
  <2>3. m # 0 /\ m - 1 \in 0 .. N /\ m - 1 < m
    <3>1. m # 0
      BY <1>1 DEF Grows
    <3>2. QED
      BY <1>1, <3>1
  <2>4. f[m - 1] \subseteq T /\ f[m - 1] \subseteq Slots
    BY <1>1, <2>2, <2>3 DEF Grows
  <2>5. f[m] = Grow(f[m - 1], E)
    BY <1>1, <2>3 DEF Grows
  <2>6. f[m] \subseteq T
    BY <2>4, <2>5 DEF Grow
  <2>7. QED
    BY <2>6
<1>3. QED
  BY <1>1, <1>2 DEF Grows

(* The closure contains S and is closed under E: as many rounds as there   *)
(* are slots are enough.                                                   *)
LEMMA ClosureClosed ==
    ASSUME NEW S \in SUBSET Slots, NEW E \in [Slots -> SUBSET Slots]
    PROVE  S \subseteq Closure(S, E) /\ \A o \in Closure(S, E) : E[o] \subseteq Closure(S, E)
<1> DEFINE N == Cardinality(Slots)
<1>1. PICK f : Grows(f, N, S, E) /\ Closure(S, E) = f[N] /\ N \in Nat
  BY ClosureIs
<1>2. IsFiniteSet(Slots) /\ \A T \in SUBSET Slots : IsFiniteSet(T) /\ Cardinality(T) \in Nat
  BY IterationAssumption, FS_Subset, FS_CardinalityType
<1>3. \A T \in SUBSET Slots : Cardinality(T) = N => T = Slots
  BY <1>2, FS_Subset
<1> HIDE DEF N
<1> DEFINE Fine(k) == /\ S \subseteq f[k]
                      /\ Grow(f[k], E) = f[k] \/ Cardinality(f[k]) >= k
           W == {k \in 0 .. N : ~Fine(k)}
<1>4. W = {}
  <2>1. SUFFICES ASSUME W # {} PROVE FALSE
    OBVIOUS
  <2>2. PICK m \in W : \A k \in W : ~(k < m)
    <3>1. W \in SUBSET Nat
      BY <1>1
    <3> HIDE DEF W
    <3>2. QED
      BY <2>1, <3>1, LeastNumber
  <2>3. m \in 0 .. N /\ m # 0 /\ m - 1 \in 0 .. N /\ m - 1 < m
    <3>1. 0 \in 0 .. N /\ f[0] = S /\ Cardinality(S) >= 0
      BY <1>1, <1>2 DEF Grows
    <3>2. m # 0
      BY <3>1
    <3>3. QED
      BY <1>1, <3>2
  <2>4. PICK a, b : a = f[m - 1] /\ b = f[m]
    OBVIOUS
  <2>5. a \in SUBSET Slots /\ b \in SUBSET Slots /\ b = Grow(a, E) /\ a \subseteq b
    BY <1>1, <2>3, <2>4, GrowType DEF Grows
  <2>6. S \subseteq a /\ (Grow(a, E) = a \/ Cardinality(a) >= m - 1)
    BY <2>2, <2>3, <2>4
  <2>7. CASE a = b
    BY <2>2, <2>4, <2>5, <2>6, <2>7
  <2>8. CASE a # b
    <3>1. Cardinality(a) < Cardinality(b) /\ Cardinality(a) \in Nat /\ Cardinality(b) \in Nat
      BY <1>2, <2>5, <2>8, FS_Subset
    <3>2. Cardinality(b) >= m
      BY <2>3, <2>5, <2>6, <2>8, <3>1
    <3>3. Fine(m)
      BY <2>4, <2>5, <2>6, <3>2
    <3>4. QED
      BY <3>3
  <2>9. QED
    BY <2>7, <2>8
<1>5. PICK c : c = f[N]
  OBVIOUS
<1>6. c \in SUBSET Slots /\ S \subseteq c /\ (Grow(c, E) = c \/ Cardinality(c) >= N)
  BY <1>1, <1>4, <1>5 DEF Grows
<1>7. CASE Grow(c, E) = c
  BY <1>1, <1>5, <1>6, <1>7 DEF Grow
<1>8. CASE Cardinality(c) >= N
  <2>1. Cardinality(c) <= N /\ Cardinality(c) \in Nat
    BY <1>2, <1>6, FS_Subset DEF N
  <2>2. c = Slots
    BY <1>1, <1>3, <1>6, <1>8, <2>1
  <2>3. QED
    BY <1>1, <1>5, <1>6, <2>2
<1>9. QED
  BY <1>6, <1>7, <1>8

-----------------------------------------------------------------------------
(* Facts about a state. *)

LEMMA OwnerSets ==
    ASSUME TypeOK, NEW o \in Slots
    PROVE  /\ IsFiniteSet(Parents(o)) /\ Cardinality(Parents(o)) \in Nat
           /\ IsFiniteSet(Weaks(o)) /\ Cardinality(Weaks(o)) \in Nat
           /\ Owners(o) = Parents(o) \cup Weaks(o)
<1>1. Parents(o) \subseteq Slots /\ Weaks(o) \subseteq Slots
  BY DEF Parents, Weaks
<1>2. Owners(o) = Parents(o) \cup Weaks(o)
  BY IterationAssumption DEF Owners, Parents, Weaks, Refs
<1>3. QED
  BY <1>1, <1>2, IterationAssumption, FS_Subset, FS_CardinalityType

(* A counter at zero means that nothing refers to the object; one that is  *)
(* referred to is in use.                                                  *)
LEMMA CountFacts ==
    ASSUME TypeOK, ObjInv, NEW o \in Slots
    PROVE  /\ obj[o].count = 0 => obj[o].handles = 0 /\ Owners(o) = {} /\ o \notin dying.refs
           /\ obj[o].handles > 0 \/ Owners(o) # {} \/ o \in dying.refs =>
                 obj[o].count > 0 /\ obj[o].used
<1>1. /\ IsFiniteSet(Parents(o)) /\ Cardinality(Parents(o)) \in Nat
      /\ IsFiniteSet(Weaks(o)) /\ Cardinality(Weaks(o)) \in Nat
      /\ Owners(o) = Parents(o) \cup Weaks(o)
  BY OwnerSets
<1>2. /\ Parents(o) # {} => Cardinality(Parents(o)) > 0
      /\ Weaks(o) # {} => Cardinality(Weaks(o)) > 0
  BY <1>1, FS_EmptySet
<1>3. obj[o].count \in Nat /\ obj[o].handles \in Nat
  BY DEF TypeOK, Inner
<1>4. obj[o].count = obj[o].handles + Cardinality(Parents(o)) + Cardinality(Weaks(o))
                        + Bit(o \in dying.refs)
  BY DEF ObjInv, CountInv
<1>5. ~obj[o].used => obj[o].count = 0
  BY DEF ObjInv, BlankInv, Unused
<1>6. Bit(o \in dying.refs) \in Nat /\ (o \in dying.refs => Bit(o \in dying.refs) = 1)
  BY DEF Bit
<1>7. obj[o].count = 0 => obj[o].handles = 0 /\ Owners(o) = {} /\ o \notin dying.refs
  <2> SUFFICES ASSUME obj[o].count = 0
               PROVE  obj[o].handles = 0 /\ Owners(o) = {} /\ o \notin dying.refs
    OBVIOUS
  <2>1. /\ obj[o].handles = 0 /\ Cardinality(Parents(o)) = 0 /\ Cardinality(Weaks(o)) = 0
        /\ Bit(o \in dying.refs) = 0
    BY <1>1, <1>3, <1>4, <1>6
  <2>2. QED
    BY <1>1, <1>2, <1>6, <2>1
<1>8. QED
  BY <1>3, <1>5, <1>7

(* What an object owns is counted, and both are in use. *)
LEMMA Referred ==
    ASSUME TypeOK, ObjInv, NEW p \in Slots, NEW o \in Refs(p)
    PROVE  o \in Slots /\ p \in Owners(o) /\ obj[o].count > 0 /\ obj[o].used /\ obj[p].used
<1>1. o \in Slots
  BY DEF TypeOK, Inner, Refs
<1>2. p \in Owners(o)
  BY DEF Owners
<1>3. obj[p].used
  BY DEF ObjInv, BlankInv, Unused, Refs
<1>4. QED
  BY <1>1, <1>2, <1>3, CountFacts

(* What user code can use has a counter above zero, ... *)
LEMMA InReachCounted ==
    ASSUME TypeOK, ObjInv, NEW o \in InReach
    PROVE  o \in Slots /\ obj[o].count > 0 /\ obj[o].used
<1> DEFINE T == {x \in Slots : obj[x].count > 0 /\ obj[x].used}
           E == [x \in Slots |-> obj[x].children]
           S == Held \cup Borrowed
<1>1. E \in [Slots -> SUBSET Slots] /\ S \in SUBSET Slots
  BY DEF TypeOK, Inner, Held, Borrowed
<1>2. S \subseteq T
  BY CountFacts DEF Held, Borrowed, TypeOK
<1>3. \A x \in Slots \cap T : E[x] \subseteq T
  BY Referred DEF Refs
<1>4. InReach = Closure(S, E)
  BY DEF InReach
<1> HIDE DEF T, E, S
<1>5. InReach \subseteq T
  BY <1>1, <1>2, <1>3, <1>4, ClosureWithin
<1>6. QED
  BY <1>5 DEF T

(* LeadsTo(S) contains S and what it leads to in one step. *)
LEMMA LeadsToClosed ==
    ASSUME TypeOK, NEW S \in SUBSET Slots
    PROVE  /\ S \subseteq LeadsTo(S) /\ LeadsTo(S) \subseteq Slots
           /\ \A x \in LeadsTo(S) : /\ Refs(x) \subseteq LeadsTo(S)
                                    /\ obj[x].back \in LeadsTo(S) \cup {Null}
<1> DEFINE E == [o \in Slots |-> Refs(o) \cup ({obj[o].back} \ {Null})]
<1>1. E \in [Slots -> SUBSET Slots]
  BY DEF TypeOK, Inner, Refs
<1>2. \A x \in Slots : Refs(x) \subseteq E[x] /\ obj[x].back \in E[x] \cup {Null}
  OBVIOUS
<1>3. LeadsTo(S) = Closure(S, E)
  BY DEF LeadsTo
<1> HIDE DEF E
<1>4. S \subseteq LeadsTo(S) /\ \A x \in LeadsTo(S) : E[x] \subseteq LeadsTo(S)
  BY <1>1, <1>3, ClosureClosed
<1>5. \A x \in Slots : E[x] \subseteq Slots
  BY <1>1
<1>6. LeadsTo(S) \subseteq Slots
  BY <1>1, <1>3, <1>5, ClosureWithin
<1>7. QED
  BY <1>2, <1>4, <1>6

(* A set that contains what user code has, and all that it leads to. *)
Region(T) ==
    /\ T \subseteq Slots /\ Held \subseteq T /\ reader \in T \cup {Null}
    /\ \A x \in T : Refs(x) \subseteq T /\ obj[x].back \in T \cup {Null}

Found(o) == Reachable \cup LeadsTo({o})

LEMMA ReachRegion ==
    ASSUME TypeOK
    PROVE  Region(Reachable)
<1>1. Held \cup ({reader} \ {Null}) \in SUBSET Slots
  BY DEF TypeOK, Held
<1>2. QED
  BY <1>1, LeadsToClosed DEF Region, Reachable

LEMMA FoundRegion ==
    ASSUME TypeOK, NEW o \in Slots
    PROVE  Region(Found(o)) /\ o \in Found(o)
<1>1. Region(Reachable)
  BY ReachRegion
<1>2. {o} \in SUBSET Slots
  OBVIOUS
<1>3. /\ o \in LeadsTo({o}) /\ LeadsTo({o}) \subseteq Slots
      /\ \A x \in LeadsTo({o}) : /\ Refs(x) \subseteq LeadsTo({o})
                                 /\ obj[x].back \in LeadsTo({o}) \cup {Null}
  BY <1>2, LeadsToClosed
<1>4. QED
  BY <1>1, <1>3 DEF Region, Found

(* While no content is being dropped, user code reaches no garbage. *)
LEMMA InReachReachable ==
    ASSUME TypeOK, dying = NoContent
    PROVE  InReach \subseteq Reachable
<1> DEFINE E == [x \in Slots |-> obj[x].children]
           S == Held \cup Borrowed
<1>1. E \in [Slots -> SUBSET Slots] /\ S \in SUBSET Slots
  BY DEF TypeOK, Inner, Held, Borrowed
<1>2. Region(Reachable)
  BY ReachRegion
<1>3. S \subseteq Reachable
  BY <1>2 DEF Region, Borrowed, NoContent
<1>4. \A x \in Slots \cap Reachable : E[x] \subseteq Reachable
  BY <1>2 DEF Region, Refs
<1>5. InReach = Closure(S, E)
  BY DEF InReach
<1> HIDE DEF E, S
<1>6. QED
  BY <1>1, <1>3, <1>4, <1>5, ClosureWithin

(* What user code can reach after a step. *)
LEMMA ReachWithin ==
    ASSUME obj' \in [Slots -> Inner], NEW T \in SUBSET Slots,
           Held' \subseteq T, reader' \in T \cup {Null},
           \A x \in T : Refs(x)' \subseteq T /\ obj'[x].back \in T \cup {Null}
    PROVE  Reachable' \subseteq T
<1> DEFINE S == Held' \cup ({reader'} \ {Null})
           E == [o \in Slots |-> Refs(o)' \cup ({obj'[o].back} \ {Null})]
<1>1. S \in SUBSET Slots
  OBVIOUS
<1>2. E \in [Slots -> SUBSET Slots]
  BY DEF Inner, Refs
<1>3. S \subseteq T /\ \A x \in Slots \cap T : E[x] \subseteq T
  OBVIOUS
<1>4. Reachable' = Closure(S, E)
  BY DEF Reachable, LeadsTo
<1> HIDE DEF E, S
<1>5. QED
  BY <1>1, <1>2, <1>3, <1>4, ClosureWithin

-----------------------------------------------------------------------------
(* Steps that leave the references between objects alone, and move the     *)
(* counters with the handles and the content that is being dropped.        *)
SameLinks ==
    \A p \in Slots : /\ obj'[p].used = obj[p].used
                     /\ obj'[p].children = obj[p].children
                     /\ obj'[p].weak = obj[p].weak
                     /\ obj'[p].back = obj[p].back

Recount ==
    /\ obj' \in [Slots -> Inner]
    /\ SameLinks
    /\ \A p \in Slots : ~obj[p].used => obj'[p] = obj[p]
    /\ \A p \in Slots : obj'[p].count = obj[p].count + (obj'[p].handles - obj[p].handles)
                            + (Bit(p \in dying'.refs) - Bit(p \in dying.refs))

(* Then who owns whom, and which back references are set, is the same. *)
LEMMA SameLinksKeep ==
    ASSUME TypeOK, SameLinks
    PROVE  /\ Used' = Used
           /\ \A o \in Slots : /\ Refs(o)' = Refs(o) /\ Owners(o)' = Owners(o)
                               /\ Parents(o)' = Parents(o) /\ Weaks(o)' = Weaks(o)
                               /\ HasBackRef(o)' = HasBackRef(o)
<1>1. Used' = Used
  BY DEF SameLinks, Used
<1>2. \A o \in Slots : Refs(o)' = Refs(o)
  BY DEF SameLinks, Refs
<1>3. \A o \in Slots : /\ Owners(o)' = Owners(o)
                       /\ Parents(o)' = Parents(o) /\ Weaks(o)' = Weaks(o)
  BY <1>2 DEF SameLinks, Owners, Parents, Weaks
<1>4. ASSUME NEW o \in Slots PROVE HasBackRef(o)' = HasBackRef(o)
  <2>1. obj[o].weak \in Slots \cup {Null} /\ obj'[o].weak = obj[o].weak
    BY DEF TypeOK, Inner, SameLinks
  <2>2. obj[o].weak # Null => obj'[obj[o].weak].back = obj[obj[o].weak].back
    BY <2>1 DEF SameLinks
  <2>3. QED
    BY <2>1, <2>2 DEF HasBackRef
<1>5. QED
  BY <1>1, <1>2, <1>3, <1>4

(* Such a step keeps the books. *)
LEMMA RecountObjInv ==
    ASSUME TypeOK, ObjInv, Recount
    PROVE  ObjInv'
<1>1. SameLinks
  BY DEF Recount
<1>2. Used' = Used /\ \A o \in Slots : Parents(o)' = Parents(o) /\ Weaks(o)' = Weaks(o)
  BY <1>1, SameLinksKeep
<1>3. BlankInv'
  BY DEF ObjInv, BlankInv, Recount, SameLinks
<1>4. CountInv'
  <2> SUFFICES ASSUME NEW o \in Slots
               PROVE  obj'[o].count = obj'[o].handles + Cardinality(Parents(o)')
                                         + Cardinality(Weaks(o)') + Bit(o \in dying'.refs)
    BY DEF CountInv
  <2>1. obj[o].count = obj[o].handles + Cardinality(Parents(o)) + Cardinality(Weaks(o))
                          + Bit(o \in dying.refs)
    BY DEF ObjInv, CountInv
  <2>2. /\ Cardinality(Parents(o)') = Cardinality(Parents(o)) /\ Cardinality(Parents(o)) \in Nat
        /\ Cardinality(Weaks(o)') = Cardinality(Weaks(o)) /\ Cardinality(Weaks(o)) \in Nat
    BY <1>2, OwnerSets
  <2>3. obj[o].count \in Nat /\ obj[o].handles \in Nat /\ obj'[o].handles \in Nat
    BY DEF TypeOK, Inner, Recount
  <2>4. Bit(o \in dying.refs) \in {0, 1} /\ Bit(o \in dying'.refs) \in {0, 1}
    BY DEF Bit
  <2>5. obj'[o].count = obj[o].count + (obj'[o].handles - obj[o].handles)
                            + (Bit(o \in dying'.refs) - Bit(o \in dying.refs))
    BY DEF Recount
  <2>6. QED
    BY <2>1, <2>2, <2>3, <2>4, <2>5
<1>5. WeakInv'
  <2> SUFFICES ASSUME NEW o \in Slots, obj'[o].weak # Null
               PROVE  obj'[obj'[o].weak].back \in {o, Null}
    BY DEF WeakInv
  <2>1. obj'[o].weak = obj[o].weak /\ obj'[o].children = obj[o].children /\ obj[o].weak \in Slots
    BY <1>1 DEF SameLinks, TypeOK, Inner
  <2>2. obj'[obj[o].weak].back = obj[obj[o].weak].back
    BY <1>1, <2>1 DEF SameLinks
  <2>3. QED
    BY <2>1, <2>2 DEF ObjInv, WeakInv
<1>6. BackRefLive'
  <2> SUFFICES ASSUME NEW w \in Used, obj'[w].back # Null
               PROVE  obj'[obj'[w].back].weak = w
    BY <1>2 DEF BackRefLive
  <2>1. w \in Slots /\ obj'[w].back = obj[w].back /\ obj[w].back \in Slots
    BY <1>1 DEF SameLinks, TypeOK, Inner, Used
  <2>2. obj'[obj[w].back].weak = obj[obj[w].back].weak
    BY <1>1, <2>1 DEF SameLinks
  <2>3. QED
    BY <2>1, <2>2 DEF ObjInv, BackRefLive
<1>7. QED
  BY <1>3, <1>4, <1>5, <1>6 DEF ObjInv

-----------------------------------------------------------------------------
(* The updates of an SdarcInner. *)

SameFields(s, r) ==
    s.used = r.used /\ s.children = r.children /\ s.weak = r.weak /\ s.back = r.back

LEMMA TagUpdate ==
    ASSUME NEW r \in Inner, NEW t \in BOOLEAN, NEW s, s = [r EXCEPT !.tag = t]
    PROVE  /\ s \in Inner /\ SameFields(s, r) /\ s.tag = t
           /\ s.count = r.count /\ s.handles = r.handles
<1>1. s \in Inner
  BY DEF Inner
<1>2. s.tag = t
  BY DEF Inner
<1>3. s.used = r.used
  BY DEF Inner
<1>4. /\ s.children = r.children /\ s.weak = r.weak /\ s.back = r.back
      /\ s.count = r.count /\ s.handles = r.handles
  BY DEF Inner
<1>5. QED
  BY <1>1, <1>2, <1>3, <1>4 DEF SameFields

LEMMA MoreUpdate ==
    ASSUME NEW r \in Inner, NEW s, s = [r EXCEPT !.count = @ + 1, !.handles = @ + 1]
    PROVE  /\ s \in Inner /\ SameFields(s, r) /\ s.tag = r.tag
           /\ s.count = r.count + 1 /\ s.handles = r.handles + 1
<1>1. s.used = r.used /\ s.tag = r.tag
  BY DEF Inner
<1>2. /\ s.children = r.children /\ s.weak = r.weak /\ s.back = r.back
      /\ s.count = r.count + 1 /\ s.handles = r.handles + 1
  BY DEF Inner
<1>3. s \in Inner
  <2>1. PICK c, h : c = r.count + 1 /\ h = r.handles + 1
    OBVIOUS
  <2>2. c \in Nat /\ h \in Nat
    BY <2>1 DEF Inner
  <2>3. s = [r EXCEPT !.count = c, !.handles = h]
    BY <2>1
  <2>4. QED
    BY <2>2, <2>3 DEF Inner
<1>4. QED
  BY <1>1, <1>2, <1>3 DEF SameFields

LEMMA DecUpdate ==
    ASSUME NEW r \in Inner, NEW s, s = [r EXCEPT !.count = @ - 1, !.tag = TRUE], r.count > 0
    PROVE  /\ s \in Inner /\ SameFields(s, r) /\ s.tag = TRUE
           /\ s.count = r.count - 1 /\ s.handles = r.handles
<1>1. s.tag = TRUE
  BY DEF Inner
<1>2. s.used = r.used
  BY DEF Inner
<1>3. /\ s.children = r.children /\ s.weak = r.weak /\ s.back = r.back
      /\ s.count = r.count - 1 /\ s.handles = r.handles
  BY DEF Inner
<1>4. s \in Inner
  <2>1. PICK c : c = r.count - 1
    OBVIOUS
  <2>2. c \in Nat
    BY <2>1 DEF Inner
  <2>3. s = [r EXCEPT !.count = c, !.tag = TRUE]
    BY <2>1
  <2>4. QED
    BY <2>2, <2>3 DEF Inner
<1>5. QED
  BY <1>1, <1>2, <1>3, <1>4 DEF SameFields

LEMMA HandlesUpdate ==
    ASSUME NEW r \in Inner, NEW s, s = [r EXCEPT !.handles = @ - 1], r.handles > 0
    PROVE  /\ s \in Inner /\ SameFields(s, r) /\ s.tag = r.tag
           /\ s.count = r.count /\ s.handles = r.handles - 1
<1>1. s.tag = r.tag /\ s.used = r.used
  BY DEF Inner
<1>2. /\ s.children = r.children /\ s.weak = r.weak /\ s.back = r.back
      /\ s.count = r.count /\ s.handles = r.handles - 1
  BY DEF Inner
<1>3. s \in Inner
  <2>1. PICK h : h = r.handles - 1
    OBVIOUS
  <2>2. h \in Nat
    BY <2>1 DEF Inner
  <2>3. s = [r EXCEPT !.handles = h]
    BY <2>1
  <2>4. QED
    BY <2>2, <2>3 DEF Inner
<1>4. QED
  BY <1>1, <1>2, <1>3 DEF SameFields

-----------------------------------------------------------------------------
(* The other steps.  New: nobody owns the new object. *)

(* A slot that is not in use refers to nothing and nothing refers to it. *)
LEMMA Blank ==
    ASSUME TypeOK, ObjInv, NEW o \in Slots, o \notin Used
    PROVE  /\ obj[o] = Unused /\ Owners(o) = {} /\ o \notin dying.refs /\ o \notin Held
           /\ Refs(o) = {} /\ obj[o].weak = Null /\ obj[o].back = Null /\ obj[o].count = 0
           /\ obj[o].handles = 0 /\ obj[o].children = {} /\ ~obj[o].used
<1>1. obj[o] = Unused /\ ~obj[o].used
  BY DEF Used, ObjInv, BlankInv
<1>2. /\ obj[o].weak = Null /\ obj[o].back = Null /\ obj[o].count = 0
      /\ obj[o].handles = 0 /\ obj[o].children = {}
  BY <1>1 DEF Unused
<1>3. Owners(o) = {} /\ o \notin dying.refs
  BY <1>2, CountFacts
<1>4. QED
  BY <1>1, <1>2, <1>3 DEF Refs, Held

NewEffect(o, C) ==
    /\ obj' \in [Slots -> Inner]
    /\ obj'[o].used /\ obj'[o].weak = Null /\ obj'[o].children = C /\ obj'[o].back = Null
    /\ obj'[o].count = 1 /\ obj'[o].handles = 1 /\ obj'[o].tag = FALSE
    /\ \A x \in Slots \ {o} :
          /\ obj'[x].used = obj[x].used /\ obj'[x].children = obj[x].children
          /\ obj'[x].weak = obj[x].weak /\ obj'[x].back = obj[x].back
          /\ obj'[x].count = obj[x].count /\ obj'[x].tag = obj[x].tag
          /\ obj'[x].handles = IF x \in C THEN obj[x].handles - 1 ELSE obj[x].handles
          /\ ~obj[x].used => obj'[x] = obj[x]

LEMMA NewObj ==
    ASSUME TypeOK, ObjInv, NEW o \in Slots \ Used, NEW C \in SUBSET Held, New(o, C)
    PROVE  NewEffect(o, C)
<1>1. C \subseteq Slots /\ o \notin C /\ \A x \in C : obj[x].handles > 0 /\ obj[x].used
  BY Blank, CountFacts DEF Held
<1>2. obj' = [x \in Slots |->
                 IF x = o THEN [NewInner EXCEPT !.handles = 1, !.children = C]
                 ELSE IF x \in C THEN [obj[x] EXCEPT !.handles = @ - 1] ELSE obj[x]]
  BY DEF New
<1>3. obj'[o] = [used |-> TRUE, count |-> 1, tag |-> FALSE, handles |-> 1,
                 children |-> C, weak |-> Null, back |-> Null, isWeak |-> FALSE]
  BY <1>2 DEF NewInner, Unused
<1>4. \A x \in Slots : obj[x] \in Inner
  BY DEF TypeOK
<1>5. ASSUME NEW x \in Slots \ {o}
      PROVE  /\ obj'[x] \in Inner
             /\ obj'[x].used = obj[x].used /\ obj'[x].children = obj[x].children
             /\ obj'[x].weak = obj[x].weak /\ obj'[x].back = obj[x].back
             /\ obj'[x].count = obj[x].count /\ obj'[x].tag = obj[x].tag
             /\ obj'[x].handles = IF x \in C THEN obj[x].handles - 1 ELSE obj[x].handles
             /\ ~obj[x].used => obj'[x] = obj[x]
  BY <1>1, <1>2, <1>4 DEF Inner
<1>6. obj'[o] \in Inner
  BY <1>1, <1>3 DEF Inner
<1>7. obj' \in [Slots -> Inner]
  <2>1. \A x \in Slots : obj'[x] \in Inner
    BY <1>5, <1>6
  <2>2. QED
    BY <1>2, <2>1
<1>8. QED
  BY <1>3, <1>5, <1>7 DEF NewEffect

(* The new object has no owner; the handles it takes over become owned     *)
(* references.                                                             *)
LEMMA NewObjInv ==
    ASSUME TypeOK, ObjInv, NEW o \in Slots \ Used, NEW C \in SUBSET Held, New(o, C)
    PROVE  ObjInv'
<1>0. NewEffect(o, C)
  BY NewObj
<1>1. C \subseteq Slots /\ o \notin C /\ \A x \in C : obj[x].handles \in Nat \ {0}
  BY Blank DEF Held, TypeOK, Inner
<1>2. Owners(o) = {} /\ Refs(o) = {} /\ o \notin dying.refs
  BY Blank
<1>3. dying' = dying
  BY DEF New, loopVars
<1>5. /\ Parents(o)' = {} /\ Weaks(o)' = {}
      /\ \A x \in Slots \ {o} : /\ Parents(x)' = IF x \in C THEN Parents(x) \cup {o} ELSE Parents(x)
                                /\ Weaks(x)' = Weaks(x) /\ o \notin Parents(x)
  <2>1. Parents(o) = {} /\ Weaks(o) = {} /\ obj[o].children = {} /\ obj[o].weak = Null
    BY <1>2, OwnerSets, Blank
  <2>2. Parents(o)' = {} /\ Weaks(o)' = {}
    BY <1>0, <1>1, <2>1, IterationAssumption DEF NewEffect, Parents, Weaks
  <2>3. ASSUME NEW x \in Slots \ {o}
        PROVE  /\ Parents(x)' = IF x \in C THEN Parents(x) \cup {o} ELSE Parents(x)
               /\ Weaks(x)' = Weaks(x) /\ o \notin Parents(x)
    BY <1>0, <1>1, <2>1, IterationAssumption DEF NewEffect, Parents, Weaks
  <2>4. QED
    BY <2>2, <2>3
<1>6. BlankInv'
  BY <1>0 DEF ObjInv, BlankInv, NewEffect
<1>7. CountInv'
  <2> SUFFICES ASSUME NEW x \in Slots
               PROVE  obj'[x].count = obj'[x].handles + Cardinality(Parents(x)')
                                         + Cardinality(Weaks(x)') + Bit(x \in dying'.refs)
    BY DEF CountInv
  <2>1. CASE x = o
    <3>1. Parents(x)' = {} /\ Weaks(x)' = {} /\ ~(x \in dying'.refs)
      BY <1>2, <1>3, <1>5, <2>1
    <3>2. /\ Cardinality(Parents(x)') = 0 /\ Cardinality(Weaks(x)') = 0
          /\ Bit(x \in dying'.refs) = 0
      BY <3>1, FS_EmptySet DEF Bit
    <3>3. obj'[x].count = 1 /\ obj'[x].handles = 1
      BY <1>0, <2>1 DEF NewEffect
    <3>4. QED
      BY <3>2, <3>3
  <2>2. CASE x # o
    <3>1. /\ obj'[x].count = obj[x].count
          /\ obj'[x].handles = IF x \in C THEN obj[x].handles - 1 ELSE obj[x].handles
          /\ Parents(x)' = IF x \in C THEN Parents(x) \cup {o} ELSE Parents(x)
          /\ Weaks(x)' = Weaks(x) /\ o \notin Parents(x) /\ obj[x].handles \in Nat
      BY <1>0, <1>5, <2>2 DEF TypeOK, Inner, NewEffect
    <3>2. /\ IsFiniteSet(Parents(x)) /\ Cardinality(Parents(x)) \in Nat
          /\ Cardinality(Weaks(x)) \in Nat
      BY OwnerSets
    <3>3. Cardinality(Parents(x) \cup {o}) = Cardinality(Parents(x)) + 1
      BY <3>1, <3>2, FS_AddElement
    <3>4. obj[x].count = obj[x].handles + Cardinality(Parents(x)) + Cardinality(Weaks(x))
                            + Bit(x \in dying.refs)
      BY DEF ObjInv, CountInv
    <3>5. Bit(x \in dying.refs) \in {0, 1}
      BY DEF Bit
    <3>6. Cardinality(Weaks(x)') = Cardinality(Weaks(x))
      BY <3>1
    <3>7. CASE x \in C
      <4>1. Cardinality(Parents(x)') = Cardinality(Parents(x)) + 1
        BY <3>1, <3>3, <3>7
      <4>2. QED
        BY <1>3, <3>1, <3>2, <3>4, <3>5, <3>6, <3>7, <4>1
    <3>8. CASE x \notin C
      <4>1. Cardinality(Parents(x)') = Cardinality(Parents(x))
        BY <3>1, <3>8
      <4>2. QED
        BY <1>3, <3>1, <3>2, <3>4, <3>5, <3>6, <3>8, <4>1
    <3>9. QED
      BY <3>7, <3>8
  <2>3. QED
    BY <2>1, <2>2
<1>8. WeakInv'
  <2> SUFFICES ASSUME NEW x \in Slots, obj'[x].weak # Null
               PROVE  obj'[obj'[x].weak].back \in {x, Null}
    BY DEF WeakInv
  <2>1. x # o /\ obj'[x].weak = obj[x].weak
    BY <1>0 DEF NewEffect
  <2>2. obj[x].weak \in Refs(x)
    BY <2>1 DEF Refs
  <2>3. obj[x].weak \in Slots \ {o}
    BY <1>2, <2>2, Referred
  <2>4. obj'[obj[x].weak].back = obj[obj[x].weak].back
    BY <1>0, <2>3 DEF NewEffect
  <2>5. QED
    BY <2>1, <2>4 DEF ObjInv, WeakInv
<1>9. BackRefLive'
  <2> SUFFICES ASSUME NEW w \in Slots, obj'[w].used, obj'[w].back # Null
               PROVE  obj'[obj'[w].back].weak = w
    BY DEF BackRefLive, Used
  <2>1. w # o /\ obj'[w].back = obj[w].back /\ w \in Used
    BY <1>0 DEF Used, NewEffect
  <2>2. obj[w].back \in Slots /\ obj[obj[w].back].weak = w
    BY <2>1 DEF TypeOK, Inner, ObjInv, BackRefLive
  <2>3. obj[w].back # o
    BY <2>2, Blank, IterationAssumption
  <2>4. QED
    BY <1>0, <2>1, <2>2, <2>3 DEF NewEffect
<1>10. QED
  BY <1>6, <1>7, <1>8, <1>9 DEF ObjInv

(* Downgrade: the WeakSdarcInner has one owner, and owns nothing. *)
DowngradeEffect(o, w) ==
    /\ obj' \in [Slots -> Inner]
    /\ o # w /\ obj[o].used /\ obj[o].count > 0 /\ obj[o].weak = Null /\ w \notin Used
    /\ obj'[w].used /\ obj'[w].weak = Null /\ obj'[w].children = {} /\ obj'[w].back = o
    /\ obj'[w].count = 2 /\ obj'[w].handles = 1 /\ obj'[w].tag = FALSE
    /\ obj'[o].weak = w
    /\ \A x \in Slots \ {w} :
          /\ obj'[x].used = obj[x].used /\ obj'[x].children = obj[x].children
          /\ obj'[x].back = obj[x].back
          /\ obj'[x].count = obj[x].count /\ obj'[x].tag = obj[x].tag
          /\ obj'[x].handles = obj[x].handles
          /\ x # o => obj'[x] = obj[x]

LEMMA DowngradeObj ==
    ASSUME TypeOK, ObjInv, NEW o \in Slots, NEW w \in Slots, Downgrade(o, w)
    PROVE  DowngradeEffect(o, w)
<1>1. o # w /\ obj[o].used /\ obj[o].count > 0 /\ obj[o].weak = Null /\ w \notin Used
  BY InReachCounted DEF Downgrade, Used
<1>2. obj' = [obj EXCEPT ![o].weak = w,
                          ![w] = [NewInner EXCEPT !.count = 2, !.handles = 1, !.back = o,
                                                     !.isWeak = TRUE]]
  BY DEF Downgrade
<1>3. \A x \in Slots : obj[x] \in Inner
  BY DEF TypeOK
<1>4. obj'[w] = [used |-> TRUE, count |-> 2, tag |-> FALSE, handles |-> 1,
                 children |-> {}, weak |-> Null, back |-> o, isWeak |-> TRUE]
  BY <1>1, <1>2 DEF NewInner, Unused, TypeOK
<1>5. obj'[o] = [obj[o] EXCEPT !.weak = w] /\ \A x \in Slots \ {w, o} : obj'[x] = obj[x]
  BY <1>1, <1>2 DEF TypeOK
<1>6. /\ obj'[o] \in Inner /\ obj'[o].weak = w
      /\ obj'[o].used = obj[o].used /\ obj'[o].children = obj[o].children
      /\ obj'[o].back = obj[o].back
      /\ obj'[o].count = obj[o].count /\ obj'[o].tag = obj[o].tag
      /\ obj'[o].handles = obj[o].handles
  BY <1>3, <1>5 DEF Inner
<1>7. obj'[w] \in Inner
  BY <1>4 DEF Inner
<1>8. obj' \in [Slots -> Inner]
  <2>1. \A x \in Slots : obj'[x] \in Inner
    BY <1>3, <1>5, <1>6, <1>7
  <2>2. QED
    BY <1>2, <2>1 DEF TypeOK
<1>9. ASSUME NEW x \in Slots \ {w}
      PROVE  /\ obj'[x].used = obj[x].used /\ obj'[x].children = obj[x].children
             /\ obj'[x].back = obj[x].back
             /\ obj'[x].count = obj[x].count /\ obj'[x].tag = obj[x].tag
             /\ obj'[x].handles = obj[x].handles
             /\ x # o => obj'[x] = obj[x]
  BY <1>5, <1>6
<1>10. /\ obj'[w].used /\ obj'[w].weak = Null /\ obj'[w].children = {} /\ obj'[w].back = o
       /\ obj'[w].count = 2 /\ obj'[w].handles = 1 /\ obj'[w].tag = FALSE
  BY <1>4
<1>11. QED
  BY <1>1, <1>6, <1>8, <1>9, <1>10 DEF DowngradeEffect

LEMMA DowngradeObjInv ==
    ASSUME TypeOK, ObjInv, NEW o \in Slots, NEW w \in Slots, Downgrade(o, w)
    PROVE  ObjInv'
<1>0. DowngradeEffect(o, w)
  BY DowngradeObj
<1>1. o # w /\ w \notin Used /\ Owners(w) = {} /\ Refs(w) = {} /\ w \notin dying.refs
  BY <1>0, Blank DEF DowngradeEffect
<1>2. dying' = dying
  BY DEF Downgrade, loopVars
<1>3. /\ obj[w].children = {} /\ obj[w].weak = Null /\ Null # w
      /\ Parents(w) = {} /\ Weaks(w) = {}
  BY <1>1, Blank, OwnerSets, IterationAssumption
<1>4. /\ Parents(w)' = {} /\ Weaks(w)' = {o}
      /\ \A x \in Slots \ {w} : Parents(x)' = Parents(x) /\ Weaks(x)' = Weaks(x)
  <2>1. \A x \in Slots : obj'[x].children = obj[x].children
    BY <1>0, <1>3 DEF DowngradeEffect
  <2>2. \A x \in Slots : obj'[x].weak = IF x = o THEN w ELSE obj[x].weak
    BY <1>0, <1>3 DEF DowngradeEffect
  <2>3. obj[o].weak = Null
    BY <1>0 DEF DowngradeEffect
  <2>4. QED
    BY <1>3, <2>1, <2>2, <2>3, IterationAssumption DEF Parents, Weaks
<1>5. BlankInv'
  BY <1>0 DEF ObjInv, BlankInv, DowngradeEffect
<1>6. CountInv'
  <2> SUFFICES ASSUME NEW x \in Slots
               PROVE  obj'[x].count = obj'[x].handles + Cardinality(Parents(x)')
                                         + Cardinality(Weaks(x)') + Bit(x \in dying'.refs)
    BY DEF CountInv
  <2>1. CASE x = w
    <3>1. Parents(x)' = {} /\ Weaks(x)' = {o} /\ ~(x \in dying'.refs)
      BY <1>1, <1>2, <1>4, <2>1
    <3>2. /\ Cardinality(Parents(x)') = 0 /\ Cardinality(Weaks(x)') = 1
          /\ Bit(x \in dying'.refs) = 0
      BY <3>1, FS_EmptySet, FS_Singleton DEF Bit
    <3>3. obj'[x].count = 2 /\ obj'[x].handles = 1
      BY <1>0, <2>1 DEF DowngradeEffect
    <3>4. QED
      BY <3>2, <3>3
  <2>2. CASE x # w
    BY <1>0, <1>2, <1>4, <2>2 DEF ObjInv, CountInv, DowngradeEffect
  <2>3. QED
    BY <2>1, <2>2
<1>7. WeakInv'
  <2> SUFFICES ASSUME NEW x \in Slots, obj'[x].weak # Null
               PROVE  obj'[obj'[x].weak].back \in {x, Null}
    BY DEF WeakInv
  <2>1. CASE x = o
    BY <1>0, <1>1, <2>1 DEF DowngradeEffect
  <2>2. CASE x # o
    <3>1. x # w /\ obj'[x] = obj[x]
      BY <1>0, <2>2 DEF DowngradeEffect
    <3>2. obj[x].weak \in Refs(x)
      BY <3>1 DEF Refs
    <3>3. obj[x].weak \in Slots \ {w}
      BY <1>1, <3>2, Referred
    <3>4. obj'[obj[x].weak].back = obj[obj[x].weak].back
      BY <1>0, <3>3 DEF DowngradeEffect
    <3>5. QED
      BY <3>1, <3>4 DEF ObjInv, WeakInv
  <2>3. QED
    BY <2>1, <2>2
<1>8. BackRefLive'
  <2> SUFFICES ASSUME NEW v \in Slots, obj'[v].used, obj'[v].back # Null
               PROVE  obj'[obj'[v].back].weak = v
    BY DEF BackRefLive, Used
  <2>1. CASE v = w
    BY <1>0, <2>1 DEF DowngradeEffect
  <2>2. CASE v # w
    <3>1. obj'[v].back = obj[v].back /\ v \in Used
      BY <1>0, <2>2 DEF Used, DowngradeEffect
    <3>2. obj[v].back \in Slots /\ obj[obj[v].back].weak = v
      BY <3>1 DEF TypeOK, Inner, ObjInv, BackRefLive
    <3>3. obj[v].back # w /\ obj[v].back # o
      BY <1>0, <1>1, <3>2, Blank, IterationAssumption DEF DowngradeEffect
    <3>4. QED
      BY <1>0, <3>1, <3>2, <3>3 DEF DowngradeEffect
  <2>3. QED
    BY <2>1, <2>2
<1>9. QED
  BY <1>5, <1>6, <1>7, <1>8 DEF ObjInv

(* RecheckClears: a back reference becomes null. *)
ClearEffect(o) ==
    /\ obj' \in [Slots -> Inner]
    /\ obj[o].count = 0 /\ obj[o].weak \in Slots /\ obj'[obj[o].weak].back = Null
    /\ \A x \in Slots :
          /\ obj'[x].used = obj[x].used /\ obj'[x].children = obj[x].children
          /\ obj'[x].weak = obj[x].weak
          /\ obj'[x].count = obj[x].count /\ obj'[x].tag = obj[x].tag
          /\ obj'[x].handles = obj[x].handles
          /\ x # obj[o].weak => obj'[x] = obj[x]

LEMMA ClearObj ==
    ASSUME TypeOK, NEW o \in Slots, RecheckClears(o)
    PROVE  ClearEffect(o)
<1>1. \A x \in Slots : obj[x] \in Inner
  BY DEF TypeOK
<1>2. obj[o].weak \in Slots /\ obj[o].count = 0
  BY <1>1 DEF RecheckClears, HasBackRef, Inner
<1>3. PICK w \in Slots : w = obj[o].weak
  BY <1>2
<1>4. obj' = [obj EXCEPT ![w].back = Null]
  BY <1>3 DEF RecheckClears
<1>5. obj'[w] = [obj[w] EXCEPT !.back = Null] /\ \A x \in Slots \ {w} : obj'[x] = obj[x]
  BY <1>4 DEF TypeOK
<1>6. /\ obj'[w] \in Inner /\ obj'[w].back = Null
      /\ obj'[w].used = obj[w].used /\ obj'[w].children = obj[w].children
      /\ obj'[w].weak = obj[w].weak
      /\ obj'[w].count = obj[w].count /\ obj'[w].tag = obj[w].tag
      /\ obj'[w].handles = obj[w].handles
  BY <1>1, <1>5 DEF Inner
<1>7. obj' \in [Slots -> Inner]
  <2>1. \A x \in Slots : obj'[x] \in Inner
    BY <1>1, <1>5, <1>6
  <2>2. QED
    BY <1>4, <2>1 DEF TypeOK
<1>8. QED
  BY <1>2, <1>3, <1>5, <1>6, <1>7 DEF ClearEffect

LEMMA ClearObjInv ==
    ASSUME TypeOK, ObjInv, NEW o \in Slots, RecheckClears(o)
    PROVE  ObjInv'
<1>0. ClearEffect(o)
  BY ClearObj
<1>1. dying' = dying
  BY DEF RecheckClears, Visited
<1>3. \A x \in Slots : Parents(x)' = Parents(x) /\ Weaks(x)' = Weaks(x)
  BY <1>0 DEF ClearEffect, Parents, Weaks
<1>4. BlankInv'
  <2> SUFFICES ASSUME NEW x \in Slots, ~obj'[x].used PROVE obj'[x] = Unused
    BY DEF BlankInv
  <2>1. obj[x] = Unused
    BY <1>0 DEF ClearEffect, ObjInv, BlankInv
  <2>2. obj[o].weak \in Refs(o)
    BY <1>0, IterationAssumption DEF ClearEffect, Refs
  <2>3. obj[obj[o].weak].used
    BY <2>2, Referred
  <2>4. x # obj[o].weak
    BY <1>0, <2>3 DEF ClearEffect
  <2>5. QED
    BY <1>0, <2>1, <2>4 DEF ClearEffect
<1>5. CountInv'
  BY <1>0, <1>1, <1>3 DEF ClearEffect, ObjInv, CountInv
<1>6. WeakInv'
  <2> SUFFICES ASSUME NEW x \in Slots, obj'[x].weak # Null
               PROVE  obj'[obj'[x].weak].back \in {x, Null}
    BY DEF WeakInv
  <2>1. obj'[x].weak = obj[x].weak /\ obj'[x].children = obj[x].children /\ obj[x].weak \in Slots
    BY <1>0 DEF ClearEffect, TypeOK, Inner
  <2>2. obj'[obj[x].weak].back \in {obj[obj[x].weak].back, Null}
    BY <1>0, <2>1 DEF ClearEffect
  <2>3. QED
    BY <2>1, <2>2 DEF ObjInv, WeakInv
<1>7. BackRefLive'
  <2> SUFFICES ASSUME NEW v \in Slots, obj'[v].used, obj'[v].back # Null
               PROVE  obj'[obj'[v].back].weak = v
    BY DEF BackRefLive, Used
  <2>1. obj'[v].back = obj[v].back /\ v \in Used
    BY <1>0 DEF ClearEffect, Used
  <2>2. obj[v].back \in Slots /\ obj[obj[v].back].weak = v
    BY <2>1 DEF TypeOK, Inner, ObjInv, BackRefLive
  <2>3. QED
    BY <1>0, <2>1, <2>2 DEF ClearEffect
<1>8. QED
  BY <1>4, <1>5, <1>6, <1>7 DEF ObjInv

(* StoreIn and TakeOut: a reference of o changes between a handle and an   *)
(* owned reference of p, which may be o itself.                            *)
MoveEffect(p, o, d) ==
    /\ obj' \in [Slots -> Inner] /\ d \in {1, -1}
    /\ \A x \in Slots :
          /\ obj'[x].used = obj[x].used /\ obj'[x].weak = obj[x].weak
          /\ obj'[x].back = obj[x].back
          /\ obj'[x].count = obj[x].count /\ obj'[x].tag = obj[x].tag
          /\ obj'[x].handles = IF x = o THEN obj[x].handles + d ELSE obj[x].handles
          /\ x # p => obj'[x].children = obj[x].children
          /\ x # p /\ x # o => obj'[x] = obj[x]
    /\ obj[p].used /\ obj[o].used
    /\ IF d = 1 THEN o \in obj[p].children /\ obj'[p].children = obj[p].children \ {o}
                ELSE o \notin obj[p].children /\ obj'[p].children = obj[p].children \cup {o}

LEMMA HandlesSet ==
    ASSUME NEW r \in Inner, NEW h \in Nat, NEW s, s = [r EXCEPT !.handles = h]
    PROVE  /\ s \in Inner /\ SameFields(s, r) /\ s.tag = r.tag
           /\ s.count = r.count /\ s.handles = h
<1>1. s \in Inner
  BY DEF Inner
<1>2. s.tag = r.tag /\ s.used = r.used
  BY DEF Inner
<1>3. /\ s.children = r.children /\ s.weak = r.weak /\ s.back = r.back
      /\ s.count = r.count /\ s.handles = h
  BY DEF Inner
<1>4. QED
  BY <1>1, <1>2, <1>3 DEF SameFields

(* The two updates of such a step, one after the other. *)
LEMMA Moves ==
    ASSUME TypeOK, NEW p \in Slots, NEW o \in Slots, NEW d \in {1, -1}, NEW C \in SUBSET Slots,
           obj[o].handles + d \in Nat, obj[p].used, obj[o].used,
           obj' = [[obj EXCEPT ![o].handles = @ + d] EXCEPT ![p].children = C],
           IF d = 1 THEN o \in obj[p].children /\ C = obj[p].children \ {o}
                    ELSE o \notin obj[p].children /\ C = obj[p].children \cup {o}
    PROVE  MoveEffect(p, o, d)
<1>1. PICK f : f = [obj EXCEPT ![o].handles = @ + d]
  OBVIOUS
<1>2. \A x \in Slots : obj[x] \in Inner
  BY DEF TypeOK
<1>3. f[o] = [obj[o] EXCEPT !.handles = @ + d] /\ \A x \in Slots \ {o} : f[x] = obj[x]
  BY <1>1 DEF TypeOK
<1>4. /\ f[o] \in Inner /\ SameFields(f[o], obj[o]) /\ f[o].tag = obj[o].tag
      /\ f[o].count = obj[o].count /\ f[o].handles = obj[o].handles + d
  <2>1. PICK h \in Nat : h = obj[o].handles + d
    OBVIOUS
  <2>2. f[o] = [obj[o] EXCEPT !.handles = h]
    BY <1>3, <2>1
  <2>3. obj[o] \in Inner
    BY <1>2
  <2>4. QED
    BY <2>1, <2>2, <2>3, HandlesSet
<1>5. ASSUME NEW x \in Slots
      PROVE  /\ f[x] \in Inner /\ f[x].used = obj[x].used /\ f[x].children = obj[x].children
             /\ f[x].weak = obj[x].weak /\ f[x].back = obj[x].back
             /\ f[x].tag = obj[x].tag /\ f[x].count = obj[x].count
             /\ f[x].handles = IF x = o THEN obj[x].handles + d ELSE obj[x].handles
  <2>1. CASE x = o
    BY <1>4, <2>1 DEF SameFields
  <2>2. CASE x # o
    BY <1>2, <1>3, <2>2
  <2>3. QED
    BY <2>1, <2>2
<1>6. DOMAIN f = Slots
  BY <1>1 DEF TypeOK
<1>7. obj' = [f EXCEPT ![p].children = C]
  BY <1>1
<1>8. obj'[p] = [f[p] EXCEPT !.children = C] /\ \A x \in Slots \ {p} : obj'[x] = f[x]
  BY <1>6, <1>7
<1>9. /\ obj'[p] \in Inner /\ obj'[p].children = C /\ obj'[p].used = f[p].used
      /\ obj'[p].weak = f[p].weak /\ obj'[p].back = f[p].back /\ obj'[p].tag = f[p].tag
      /\ obj'[p].count = f[p].count /\ obj'[p].handles = f[p].handles
  <2>1. PICK r \in Inner : r = f[p]
    BY <1>5
  <2>2. PICK s : s = obj'[p]
    OBVIOUS
  <2>3. s = [r EXCEPT !.children = C]
    BY <1>8, <2>1, <2>2
  <2>4. s \in Inner
    BY <2>3 DEF Inner
  <2>5. s.children = C /\ s.used = r.used /\ s.tag = r.tag
    BY <2>3 DEF Inner
  <2>6. s.weak = r.weak /\ s.back = r.back /\ s.count = r.count /\ s.handles = r.handles
    BY <2>3 DEF Inner
  <2>7. QED
    BY <2>1, <2>2, <2>4, <2>5, <2>6
<1>10. obj' \in [Slots -> Inner]
  <2>1. \A x \in Slots : obj'[x] \in Inner
    BY <1>5, <1>8, <1>9
  <2>2. QED
    BY <1>6, <1>7, <2>1
<1>11. ASSUME NEW x \in Slots
       PROVE  /\ obj'[x].used = obj[x].used /\ obj'[x].weak = obj[x].weak
              /\ obj'[x].back = obj[x].back
              /\ obj'[x].count = obj[x].count /\ obj'[x].tag = obj[x].tag
              /\ obj'[x].handles = IF x = o THEN obj[x].handles + d ELSE obj[x].handles
              /\ x # p => obj'[x].children = obj[x].children
              /\ x # p /\ x # o => obj'[x] = obj[x]
  <2>1. CASE x = p
    BY <1>5, <1>9, <2>1
  <2>2. CASE x # p
    <3>1. obj'[x] = f[x]
      BY <1>8, <2>2
    <3>2. x # o => f[x] = obj[x]
      BY <1>3
    <3>3. QED
      BY <1>5, <2>2, <3>1, <3>2
  <2>3. QED
    BY <2>1, <2>2
<1>12. QED
  BY <1>9, <1>10, <1>11 DEF MoveEffect

(* The reference stays counted. *)
LEMMA MoveObjInv ==
    ASSUME TypeOK, ObjInv, NEW p \in Slots, NEW o \in Slots, NEW d, MoveEffect(p, o, d),
           dying' = dying
    PROVE  ObjInv'
<1>1. \A x \in Slots : Weaks(x)' = Weaks(x)
  BY DEF MoveEffect, Weaks
<1>2. \A x \in Slots \ {o} : Parents(x)' = Parents(x)
  BY DEF MoveEffect, Parents
<1>3. IF d = 1 THEN p \in Parents(o) /\ Parents(o)' = Parents(o) \ {p}
               ELSE p \notin Parents(o) /\ Parents(o)' = Parents(o) \cup {p}
  BY DEF MoveEffect, Parents
<1>4. BlankInv'
  BY DEF MoveEffect, ObjInv, BlankInv
<1>5. CountInv'
  <2> SUFFICES ASSUME NEW x \in Slots
               PROVE  obj'[x].count = obj'[x].handles + Cardinality(Parents(x)')
                                         + Cardinality(Weaks(x)') + Bit(x \in dying'.refs)
    BY DEF CountInv
  <2>1. obj[x].count = obj[x].handles + Cardinality(Parents(x)) + Cardinality(Weaks(x))
                          + Bit(x \in dying.refs)
    BY DEF ObjInv, CountInv
  <2>2. /\ IsFiniteSet(Parents(x)) /\ Cardinality(Parents(x)) \in Nat
        /\ Cardinality(Weaks(x)) \in Nat
    BY OwnerSets
  <2>3. /\ obj'[x].count = obj[x].count /\ obj[x].handles \in Nat /\ d \in {1, -1}
        /\ obj'[x].handles = IF x = o THEN obj[x].handles + d ELSE obj[x].handles
    BY DEF MoveEffect, TypeOK, Inner
  <2>4. Bit(x \in dying'.refs) = Bit(x \in dying.refs) /\ Bit(x \in dying.refs) \in {0, 1}
    BY DEF Bit
  <2>5. Cardinality(Weaks(x)') = Cardinality(Weaks(x))
    BY <1>1
  <2>6. CASE x # o
    <3>1. Cardinality(Parents(x)') = Cardinality(Parents(x))
      BY <1>2, <2>6
    <3>2. QED
      BY <2>1, <2>2, <2>3, <2>4, <2>5, <2>6, <3>1
  <2>7. CASE x = o
    <3>1. Cardinality(Parents(x)') = Cardinality(Parents(x)) - d
      <4>1. CASE d = 1
        <5>1. p \in Parents(x) /\ Parents(x)' = Parents(x) \ {p}
          BY <1>3, <2>7, <4>1
        <5>2. Cardinality(Parents(x) \ {p}) = Cardinality(Parents(x)) - 1
          BY <2>2, <5>1, FS_RemoveElement
        <5>3. QED
          BY <4>1, <5>1, <5>2
      <4>2. CASE d = -1
        <5>1. p \notin Parents(x) /\ Parents(x)' = Parents(x) \cup {p}
          BY <1>3, <2>7, <4>2
        <5>2. Cardinality(Parents(x) \cup {p}) = Cardinality(Parents(x)) + 1
          BY <2>2, <5>1, FS_AddElement
        <5>3. QED
          BY <2>2, <4>2, <5>1, <5>2
      <4>3. QED
        BY <2>3, <4>1, <4>2
    <3>2. QED
      BY <2>1, <2>2, <2>3, <2>4, <2>5, <2>7, <3>1
  <2>8. QED
    BY <2>6, <2>7
<1>6. WeakInv'
  <2> SUFFICES ASSUME NEW x \in Slots, obj'[x].weak # Null
               PROVE  obj'[obj'[x].weak].back \in {x, Null}
    BY DEF WeakInv
  <2>1. obj'[x].weak = obj[x].weak /\ obj[x].weak \in Slots
    BY DEF MoveEffect, TypeOK, Inner
  <2>2. obj'[obj[x].weak].back = obj[obj[x].weak].back
    BY <2>1 DEF MoveEffect
  <2>3. QED
    BY <2>1, <2>2 DEF ObjInv, WeakInv
<1>7. BackRefLive'
  <2> SUFFICES ASSUME NEW v \in Slots, obj'[v].used, obj'[v].back # Null
               PROVE  obj'[obj'[v].back].weak = v
    BY DEF BackRefLive, Used
  <2>1. obj'[v].back = obj[v].back /\ v \in Used
    BY DEF MoveEffect, Used
  <2>2. obj[v].back \in Slots /\ obj[obj[v].back].weak = v
    BY <2>1 DEF TypeOK, Inner, ObjInv, BackRefLive
  <2>3. QED
    BY <2>1, <2>2 DEF MoveEffect
<1>8. QED
  BY <1>4, <1>5, <1>6, <1>7 DEF ObjInv

(* FreeSlot: the references of the freed object are dropped, or wait in    *)
(* dying.                                                                  *)
FreeEffect(o) ==
    /\ obj' \in [Slots -> Inner]
    /\ obj[o].count = 0 /\ ~HasBackRef(o) /\ reader # o /\ state[o] = "ReadyToFree"
    /\ o \notin Held /\ Owners(o) = {} /\ obj[o].weak # o /\ o \notin obj[o].children
    /\ obj'[o] = Unused
    /\ dying.refs = {} /\ dying'.refs = obj[o].children
    /\ \A x \in Slots \ {o} :
          /\ obj'[x].used = obj[x].used /\ obj'[x].children = obj[x].children
          /\ obj'[x].weak = obj[x].weak /\ obj'[x].back = obj[x].back
          /\ obj'[x].handles = obj[x].handles
          /\ IF x = obj[o].weak THEN obj'[x].count = obj[x].count - 1 /\ obj[x].count > 0
                                ELSE obj'[x] = obj[x]

(* FreeSlot finds an object that nothing refers to. *)
LEMMA FreeObj ==
    ASSUME TypeOK, ObjInv, PhaseInv, ReadyInv, NEW o \in Slots, FreeSlot(o)
    PROVE  FreeEffect(o)
<1>1. \A x \in Slots : obj[x] \in Inner
  BY DEF TypeOK
<1>2. obj[o].count = 0 /\ ~HasBackRef(o) /\ reader # o /\ state[o] = "ReadyToFree"
  BY DEF FreeSlot, ReadyInv
<1>3. o \notin Held /\ Owners(o) = {} /\ o \notin Refs(o)
  BY <1>2, CountFacts DEF Held, Owners
<1>4. obj[o].weak # o /\ o \notin obj[o].children
  BY <1>3, IterationAssumption DEF Refs
<1>5. dying.refs = {} /\ dying'.refs = obj[o].children
  BY DEF FreeSlot, PhaseInv, NoContent
<1>6. PICK w : w = obj[o].weak
  OBVIOUS
<1>7. obj' = [x \in Slots |->
                IF x \in {w}
                THEN [[obj EXCEPT ![o] = Unused][x] EXCEPT !.count = @ - 1, !.tag = TRUE]
                ELSE [obj EXCEPT ![o] = Unused][x]]
  <2>1. obj' = Dec([obj EXCEPT ![o] = Unused], {w})
    BY <1>6 DEF FreeSlot
  <2>2. QED
    BY <2>1, Zenon DEF Dec
<1>8. obj'[o] = Unused
  BY <1>4, <1>6, <1>7 DEF TypeOK
<1>9. Unused \in Inner
  BY DEF Unused, Inner
<1>10. ASSUME NEW x \in Slots \ {o}, x # w
       PROVE  obj'[x] = obj[x]
  BY <1>7, <1>10 DEF TypeOK
<1>11. ASSUME w \in Slots
       PROVE  /\ obj'[w].used = obj[w].used /\ obj'[w].children = obj[w].children
              /\ obj'[w].weak = obj[w].weak /\ obj'[w].back = obj[w].back
              /\ obj'[w].handles = obj[w].handles
              /\ obj'[w].count = obj[w].count - 1 /\ obj[w].count > 0
              /\ obj'[w] \in Inner
  <2>1. obj[w].count > 0 /\ obj[w] \in Inner
    <3>1. w \in Refs(o)
      BY <1>6, <1>11, IterationAssumption DEF Refs
    <3>2. QED
      BY <1>1, <1>11, <3>1, Referred
  <2>2. obj'[w] = [obj[w] EXCEPT !.count = @ - 1, !.tag = TRUE]
    BY <1>4, <1>6, <1>7, <1>11 DEF TypeOK
  <2>3. QED
    BY <2>1, <2>2, DecUpdate DEF SameFields
<1>12. obj' \in [Slots -> Inner]
  <2>1. \A x \in Slots : obj'[x] \in Inner
    BY <1>1, <1>8, <1>9, <1>10, <1>11
  <2>2. QED
    BY <1>7, <2>1
<1>13. QED
  BY <1>2, <1>3, <1>4, <1>5, <1>6, <1>8, <1>10, <1>11, <1>12 DEF FreeEffect

(* Each reference the freed object owned is given up, or counted by dying. *)
LEMMA FreeObjInv ==
    ASSUME TypeOK, ObjInv, PhaseInv, ReadyInv, NEW o \in Slots, FreeSlot(o)
    PROVE  ObjInv'
<1>0. FreeEffect(o)
  BY FreeObj
<1>1. obj'[o].children = {} /\ obj'[o].weak = Null
  BY <1>0 DEF FreeEffect, Unused
<1>2. \A x \in Slots : Parents(x)' = Parents(x) \ {o} /\ Weaks(x)' = Weaks(x) \ {o}
  BY <1>0, <1>1, IterationAssumption DEF FreeEffect, Parents, Weaks
<1>3. BlankInv'
  <2> SUFFICES ASSUME NEW x \in Slots, ~obj'[x].used PROVE obj'[x] = Unused
    BY DEF BlankInv
  <2>1. CASE x = o
    BY <1>0, <2>1 DEF FreeEffect
  <2>2. CASE x # o
    <3>1. obj[x] = Unused
      BY <1>0, <2>2 DEF FreeEffect, ObjInv, BlankInv
    <3>2. x # obj[o].weak
      BY <1>0, <2>2, <3>1 DEF FreeEffect, Unused
    <3>3. QED
      BY <1>0, <2>2, <3>1, <3>2 DEF FreeEffect
  <2>3. QED
    BY <2>1, <2>2
<1>4. CountInv'
  <2> SUFFICES ASSUME NEW x \in Slots
               PROVE  obj'[x].count = obj'[x].handles + Cardinality(Parents(x)')
                                         + Cardinality(Weaks(x)') + Bit(x \in dying'.refs)
    BY DEF CountInv
  <2>1. CASE x = o
    <3>1. Parents(x) = {} /\ Weaks(x) = {}
      BY <1>0, <2>1, OwnerSets DEF FreeEffect
    <3>2. Parents(x)' = {} /\ Weaks(x)' = {} /\ ~(x \in dying'.refs)
      BY <1>0, <1>2, <2>1, <3>1 DEF FreeEffect
    <3>3. /\ Cardinality(Parents(x)') = 0 /\ Cardinality(Weaks(x)') = 0
          /\ Bit(x \in dying'.refs) = 0
      BY <3>2, FS_EmptySet DEF Bit
    <3>4. obj'[x].count = 0 /\ obj'[x].handles = 0
      BY <1>0, <2>1 DEF FreeEffect, Unused
    <3>5. QED
      BY <3>3, <3>4
  <2>2. CASE x # o
    <3>1. /\ IsFiniteSet(Parents(x)) /\ Cardinality(Parents(x)) \in Nat
          /\ IsFiniteSet(Weaks(x)) /\ Cardinality(Weaks(x)) \in Nat
      BY OwnerSets
    <3>2. /\ obj[x].count = obj[x].handles + Cardinality(Parents(x)) + Cardinality(Weaks(x))
          /\ obj[x].handles \in Nat /\ obj'[x].handles = obj[x].handles
      <4>1. Bit(x \in dying.refs) = 0
        BY <1>0 DEF FreeEffect, Bit
      <4>2. obj[x].count = obj[x].handles + Cardinality(Parents(x)) + Cardinality(Weaks(x))
                              + Bit(x \in dying.refs)
        BY DEF ObjInv, CountInv
      <4>3. obj[x].handles \in Nat /\ obj'[x].handles = obj[x].handles
        BY <1>0, <2>2 DEF TypeOK, Inner, FreeEffect
      <4>4. QED
        BY <3>1, <4>1, <4>2, <4>3
    <3>3. Cardinality(Parents(x)') = Cardinality(Parents(x)) - Bit(x \in dying'.refs)
      <4>1. o \in Parents(x) <=> x \in dying'.refs
        BY <1>0 DEF FreeEffect, Parents
      <4>2. CASE o \in Parents(x)
        <5>1. Cardinality(Parents(x) \ {o}) = Cardinality(Parents(x)) - 1
          BY <3>1, <4>2, FS_RemoveElement
        <5>2. Bit(x \in dying'.refs) = 1
          BY <4>1, <4>2 DEF Bit
        <5>3. Parents(x)' = Parents(x) \ {o}
          BY <1>2
        <5>4. QED
          BY <5>1, <5>2, <5>3
      <4>3. CASE o \notin Parents(x)
        <5>1. Parents(x)' = Parents(x)
          BY <1>2, <4>3
        <5>2. Bit(x \in dying'.refs) = 0
          BY <4>1, <4>3 DEF Bit
        <5>3. QED
          BY <3>1, <5>1, <5>2
      <4>4. QED
        BY <4>2, <4>3
    <3>4. obj'[x].count - Cardinality(Weaks(x)') = obj[x].count - Cardinality(Weaks(x))
      <4>1. CASE x = obj[o].weak
        <5>1. Cardinality(Weaks(x) \ {o}) = Cardinality(Weaks(x)) - 1
          BY <3>1, <4>1, FS_RemoveElement DEF Weaks
        <5>2. obj'[x].count = obj[x].count - 1 /\ obj[x].count \in Nat
          BY <1>0, <2>2, <4>1 DEF FreeEffect, TypeOK, Inner
        <5>3. Weaks(x)' = Weaks(x) \ {o}
          BY <1>2
        <5>4. Cardinality(Weaks(x)') = Cardinality(Weaks(x)) - 1
          BY <5>1, <5>3
        <5>5. QED
          BY <3>1, <5>2, <5>4
      <4>2. CASE x # obj[o].weak
        <5>1. Weaks(x)' = Weaks(x)
          BY <1>2, <4>2 DEF Weaks
        <5>2. obj'[x].count = obj[x].count
          BY <1>0, <2>2, <4>2 DEF FreeEffect
        <5>3. QED
          BY <5>1, <5>2
      <4>3. QED
        BY <4>1, <4>2
    <3>5. obj'[x].count \in Nat /\ obj[x].count \in Nat /\ Bit(x \in dying'.refs) \in {0, 1}
      BY <1>0 DEF FreeEffect, TypeOK, Inner, Bit
    <3>6. Cardinality(Weaks(x)') \in Nat
      BY <1>2, <3>1, FS_Subset, FS_CardinalityType
    <3>7. QED
      BY <3>1, <3>2, <3>3, <3>4, <3>5, <3>6
  <2>3. QED
    BY <2>1, <2>2
<1>5. WeakInv'
  <2> SUFFICES ASSUME NEW x \in Slots, obj'[x].weak # Null
               PROVE  obj'[obj'[x].weak].back \in {x, Null}
    BY DEF WeakInv
  <2>1. x # o
    BY <1>0 DEF FreeEffect, Unused
  <2>2. obj'[x].weak = obj[x].weak
    BY <1>0, <2>1 DEF FreeEffect
  <2>3. obj[x].weak \in Refs(x)
    BY <2>2 DEF Refs
  <2>4. obj[x].weak \in Slots \ {o}
    BY <1>0, <2>3, Referred DEF FreeEffect
  <2>5. obj'[obj[x].weak].back = obj[obj[x].weak].back
    BY <1>0, <2>4 DEF FreeEffect
  <2>6. QED
    BY <2>2, <2>5 DEF ObjInv, WeakInv
<1>6. BackRefLive'
  <2> SUFFICES ASSUME NEW v \in Slots, obj'[v].used, obj'[v].back # Null
               PROVE  obj'[obj'[v].back].weak = v
    BY DEF BackRefLive, Used
  <2>1. v # o
    BY <1>0 DEF FreeEffect, Unused
  <2>2. obj'[v].back = obj[v].back /\ v \in Used
    BY <1>0, <2>1 DEF FreeEffect, Used
  <2>3. obj[v].back \in Slots /\ obj[obj[v].back].weak = v
    BY <2>2 DEF TypeOK, Inner, ObjInv, BackRefLive
  <2>4. obj[v].back # o
    BY <1>0, <2>2, <2>3, IterationAssumption DEF FreeEffect, HasBackRef
  <2>5. QED
    BY <1>0, <2>2, <2>3, <2>4 DEF FreeEffect
<1>7. QED
  BY <1>3, <1>4, <1>5, <1>6 DEF ObjInv

-----------------------------------------------------------------------------
(* What the steps that only count do. *)

(* One more or one less handle of x. *)
HandleEffect(x, d) ==
    /\ Recount
    /\ obj'[x].count = obj[x].count + d
    /\ obj'[x].handles = obj[x].handles + d
    /\ \A p \in Slots \ {x} : obj'[p] = obj[p]

LEMMA MoreHandles ==
    ASSUME TypeOK, NEW x \in Slots, obj[x].used, dying' = dying,
           obj' = [Inc(obj, x) EXCEPT ![x].handles = @ + 1]
    PROVE  HandleEffect(x, 1) /\ obj'[x].tag = obj[x].tag
<1>1. \A p \in Slots : obj[p] \in Inner
  BY DEF TypeOK
<1>2. obj'[x] = [obj[x] EXCEPT !.count = @ + 1, !.handles = @ + 1]
  BY <1>1 DEF TypeOK, Inc, Inner
<1>3. \A p \in Slots \ {x} : obj'[p] = obj[p]
  BY DEF TypeOK, Inc
<1>4. /\ obj'[x] \in Inner /\ obj'[x].count = obj[x].count + 1 /\ obj'[x].handles = obj[x].handles + 1
      /\ obj'[x].used = obj[x].used /\ obj'[x].children = obj[x].children
      /\ obj'[x].weak = obj[x].weak /\ obj'[x].back = obj[x].back /\ obj'[x].tag = obj[x].tag
  <2>1. obj[x] \in Inner
    BY <1>1
  <2>2. /\ obj'[x] \in Inner /\ SameFields(obj'[x], obj[x]) /\ obj'[x].tag = obj[x].tag
        /\ obj'[x].count = obj[x].count + 1 /\ obj'[x].handles = obj[x].handles + 1
    BY <1>2, <2>1, MoreUpdate
  <2>3. QED
    BY <2>2 DEF SameFields
<1>5. obj' \in [Slots -> Inner]
  <2>1. \A p \in Slots : obj'[p] \in Inner
    BY <1>1, <1>3, <1>4
  <2>2. QED
    BY <2>1 DEF TypeOK, Inc
<1>6. SameLinks
  BY <1>3, <1>4 DEF SameLinks
<1>7. ASSUME NEW p \in Slots
      PROVE  obj'[p].count = obj[p].count + (obj'[p].handles - obj[p].handles)
                            + (Bit(p \in dying'.refs) - Bit(p \in dying.refs))
  <2>1. obj[p].count \in Nat /\ obj[p].handles \in Nat
    BY <1>1 DEF Inner
  <2>2. Bit(p \in dying.refs) \in {0, 1}
    BY DEF Bit
  <2>3. QED
    BY <1>3, <1>4, <2>1, <2>2
<1>8. Recount
  BY <1>3, <1>5, <1>6, <1>7 DEF Recount
<1>9. QED
  BY <1>3, <1>4, <1>8 DEF HandleEffect

LEMMA LessHandles ==
    ASSUME TypeOK, ObjInv, NEW x \in Slots, obj[x].handles > 0, dying' = dying,
           obj' = [Dec(obj, {x}) EXCEPT ![x].handles = @ - 1]
    PROVE  HandleEffect(x, -1) /\ obj'[x].tag = TRUE
<1>1. \A p \in Slots : obj[p] \in Inner
  BY DEF TypeOK
<1>2. PICK r : r = [obj[x] EXCEPT !.count = @ - 1, !.tag = TRUE]
  OBVIOUS
<1>3. PICK f : f = Dec(obj, {x})
  OBVIOUS
<1>4. f = [p \in Slots |-> IF p \in {x} THEN [obj[p] EXCEPT !.count = @ - 1, !.tag = TRUE] ELSE obj[p]]
  BY <1>3, Zenon DEF Dec
<1>5. obj'[x] = [r EXCEPT !.handles = @ - 1] /\ \A p \in Slots \ {x} : obj'[p] = obj[p]
  <2>1. f[x] = r /\ \A p \in Slots \ {x} : f[p] = obj[p]
    BY <1>2, <1>4
  <2>2. obj' = [f EXCEPT ![x].handles = @ - 1] /\ DOMAIN f = Slots
    BY <1>3, <1>4
  <2>3. QED
    BY <2>1, <2>2
<1>6. /\ obj'[x] \in Inner /\ obj'[x].count = obj[x].count - 1 /\ obj'[x].handles = obj[x].handles - 1
      /\ obj'[x].used = obj[x].used /\ obj'[x].children = obj[x].children
      /\ obj'[x].weak = obj[x].weak /\ obj'[x].back = obj[x].back /\ obj'[x].tag = TRUE
      /\ obj[x].used
  <2>1. obj[x].count > 0 /\ obj[x].used
    BY CountFacts
  <2>2. /\ r \in Inner /\ SameFields(r, obj[x]) /\ r.tag = TRUE
        /\ r.count = obj[x].count - 1 /\ r.handles = obj[x].handles
    BY <1>1, <1>2, <2>1, DecUpdate
  <2>3. /\ obj'[x] \in Inner /\ SameFields(obj'[x], r) /\ obj'[x].tag = r.tag
        /\ obj'[x].count = r.count /\ obj'[x].handles = r.handles - 1
    BY <1>5, <2>2, HandlesUpdate
  <2>4. QED
    BY <2>1, <2>2, <2>3 DEF SameFields
<1>7. obj' \in [Slots -> Inner]
  <2>1. \A p \in Slots : obj'[p] \in Inner
    BY <1>1, <1>5, <1>6
  <2>2. QED
    BY <1>3, <1>4, <2>1
<1>8. SameLinks
  BY <1>5, <1>6 DEF SameLinks
<1>9. ASSUME NEW p \in Slots
      PROVE  obj'[p].count = obj[p].count + (obj'[p].handles - obj[p].handles)
                            + (Bit(p \in dying'.refs) - Bit(p \in dying.refs))
  <2>1. obj[p].count \in Nat /\ obj[p].handles \in Nat
    BY <1>1 DEF Inner
  <2>2. Bit(p \in dying.refs) \in {0, 1}
    BY DEF Bit
  <2>3. CASE p = x
    <3>1. obj'[p].count = obj[p].count - 1 /\ obj'[p].handles = obj[p].handles - 1
      BY <1>6, <2>3
    <3>2. QED
      BY <2>1, <2>2, <3>1
  <2>4. CASE p # x
    <3>1. obj'[p].count = obj[p].count /\ obj'[p].handles = obj[p].handles
      BY <1>5, <2>4
    <3>2. QED
      BY <2>1, <2>2, <3>1
  <2>5. QED
    BY <2>3, <2>4
<1>10. Recount
  BY <1>5, <1>6, <1>7, <1>8, <1>9 DEF Recount
<1>11. QED
  BY <1>1, <1>5, <1>6, <1>10 DEF HandleEffect, Inner

(* The tag of x is set or cleared. *)
TagEffect(x, t) ==
    /\ Recount
    /\ obj'[x].tag = t /\ obj'[x].count = obj[x].count /\ obj'[x].handles = obj[x].handles
    /\ \A p \in Slots \ {x} : obj'[p] = obj[p]

LEMMA Tags ==
    ASSUME TypeOK, NEW x \in Slots, NEW t \in BOOLEAN, obj[x].used, dying'.refs = dying.refs,
           obj' = [obj EXCEPT ![x].tag = t]
    PROVE  TagEffect(x, t)
<1>1. \A p \in Slots : obj[p] \in Inner
  BY DEF TypeOK
<1>2. obj'[x] = [obj[x] EXCEPT !.tag = t] /\ \A p \in Slots \ {x} : obj'[p] = obj[p]
  BY DEF TypeOK
<1>3. /\ obj'[x] \in Inner /\ obj'[x].count = obj[x].count /\ obj'[x].handles = obj[x].handles
      /\ obj'[x].used = obj[x].used /\ obj'[x].children = obj[x].children
      /\ obj'[x].weak = obj[x].weak /\ obj'[x].back = obj[x].back /\ obj'[x].tag = t
  <2>1. obj[x] \in Inner /\ obj'[x] = [obj[x] EXCEPT !.tag = t]
    BY <1>1, <1>2
  <2>2. /\ obj'[x] \in Inner /\ SameFields(obj'[x], obj[x]) /\ obj'[x].tag = t
        /\ obj'[x].count = obj[x].count /\ obj'[x].handles = obj[x].handles
    BY <2>1, TagUpdate
  <2>3. QED
    BY <2>2 DEF SameFields
<1>4. obj' \in [Slots -> Inner]
  <2>1. \A p \in Slots : obj'[p] \in Inner
    BY <1>1, <1>2, <1>3
  <2>2. QED
    BY <2>1 DEF TypeOK
<1>5. SameLinks
  BY <1>2, <1>3 DEF SameLinks
<1>6. ASSUME NEW p \in Slots
      PROVE  obj'[p].count = obj[p].count + (obj'[p].handles - obj[p].handles)
                            + (Bit(p \in dying'.refs) - Bit(p \in dying.refs))
  <2>1. obj[p].count \in Nat /\ obj[p].handles \in Nat
    BY <1>1 DEF Inner
  <2>2. Bit(p \in dying.refs) \in {0, 1}
    BY DEF Bit
  <2>3. QED
    BY <1>2, <1>3, <2>1, <2>2
<1>7. Recount
  BY <1>2, <1>4, <1>5, <1>6 DEF Recount
<1>8. QED
  BY <1>2, <1>3, <1>7 DEF TagEffect

LEMMA Idle ==
    ASSUME TypeOK, obj' = obj, dying'.refs = dying.refs
    PROVE  Recount
<1>1. ASSUME NEW p \in Slots
      PROVE  obj'[p].count = obj[p].count + (obj'[p].handles - obj[p].handles)
                            + (Bit(p \in dying'.refs) - Bit(p \in dying.refs))
  <2>1. obj[p].count \in Nat /\ obj[p].handles \in Nat
    BY DEF TypeOK, Inner
  <2>2. Bit(p \in dying.refs) \in {0, 1}
    BY DEF Bit
  <2>3. QED
    BY <2>1, <2>2
<1>2. QED
  BY <1>1 DEF Recount, SameLinks, TypeOK

(* The content that was being dropped is gone. *)
ContentEffect ==
    /\ Recount
    /\ \A p \in dying.refs : obj[p].count > 0
    /\ \A p \in Slots \ dying.refs : obj'[p] = obj[p]
    /\ \A p \in Slots : obj'[p].handles = obj[p].handles

LEMMA Contents ==
    ASSUME TypeOK, ObjInv, DropContent
    PROVE  ContentEffect
<1>1. \A p \in Slots : obj[p] \in Inner
  BY DEF TypeOK
<1>2. obj' = [p \in Slots |-> IF p \in dying.refs THEN [obj[p] EXCEPT !.count = @ - 1, !.tag = TRUE]
                              ELSE obj[p]]
  BY DEF DropContent, Dec
<1>3. dying.refs \subseteq Slots /\ dying'.refs = {}
  BY DEF TypeOK, DropContent, NoContent
<1>4. \A p \in dying.refs : obj[p].count > 0 /\ obj[p].used
  BY <1>3, CountFacts
<1>5. \A p \in Slots \ dying.refs : obj'[p] = obj[p]
  BY <1>2
<1>6. ASSUME NEW p \in dying.refs
      PROVE  /\ obj'[p] \in Inner /\ obj'[p].count = obj[p].count - 1 /\ obj'[p].handles = obj[p].handles
             /\ obj'[p].used = obj[p].used /\ obj'[p].children = obj[p].children
             /\ obj'[p].weak = obj[p].weak /\ obj'[p].back = obj[p].back /\ obj'[p].tag = TRUE
  <2>1. obj'[p] = [obj[p] EXCEPT !.count = @ - 1, !.tag = TRUE]
    BY <1>2, <1>3, <1>6
  <2>2. obj[p] \in Inner /\ obj[p].count > 0
    BY <1>1, <1>3, <1>4, <1>6
  <2>3. /\ obj'[p] \in Inner /\ SameFields(obj'[p], obj[p]) /\ obj'[p].tag = TRUE
        /\ obj'[p].count = obj[p].count - 1 /\ obj'[p].handles = obj[p].handles
    BY <2>1, <2>2, DecUpdate
  <2>4. QED
    BY <2>3 DEF SameFields
<1>7. obj' \in [Slots -> Inner]
  <2>1. \A p \in Slots : obj'[p] \in Inner
    BY <1>1, <1>5, <1>6
  <2>2. QED
    BY <1>2, <2>1
<1>8. SameLinks
  BY <1>5, <1>6 DEF SameLinks
<1>9. ASSUME NEW p \in Slots
      PROVE  obj'[p].count = obj[p].count + (obj'[p].handles - obj[p].handles)
                            + (Bit(p \in dying'.refs) - Bit(p \in dying.refs))
  <2>1. obj[p].count \in Nat /\ obj[p].handles \in Nat
    BY <1>1 DEF Inner
  <2>2. Bit(p \in dying'.refs) = 0 /\ Bit(p \in dying.refs) = IF p \in dying.refs THEN 1 ELSE 0
    BY <1>3 DEF Bit
  <2>3. CASE p \in dying.refs
    <3>1. obj'[p].count = obj[p].count - 1 /\ obj'[p].handles = obj[p].handles
      BY <1>6, <2>3
    <3>2. QED
      BY <2>1, <2>2, <2>3, <3>1
  <2>4. CASE p \notin dying.refs
    BY <1>5, <2>1, <2>2, <2>4
  <2>5. QED
    BY <2>3, <2>4
<1>10. \A p \in Slots : ~obj[p].used => obj'[p] = obj[p]
  BY <1>4, <1>5
<1>11. Recount
  BY <1>7, <1>8, <1>9, <1>10 DEF Recount
<1>12. QED
  BY <1>4, <1>5, <1>6, <1>11 DEF ContentEffect


-----------------------------------------------------------------------------
(* What the steps of user code have in common, also those of a Drop in the *)
(* collector thread: they disturb only objects that are referred to or     *)
(* that a reader has loaded.                                               *)

Kept(x) ==
    /\ obj'[x].count = obj[x].count /\ obj'[x].tag = obj[x].tag
    /\ obj'[x].weak = obj[x].weak /\ HasBackRef(x)' = HasBackRef(x)

(* A handle is made or dropped. *)
Counted(x) ==
    /\ obj[x].count > 0 \/ x = reader
    /\ obj'[x].tag = TRUE \/ obj'[x].count > 0
    /\ obj'[x].weak = obj[x].weak /\ HasBackRef(x)' = HasBackRef(x)

(* The WeakSdarcInner of the object is made. *)
Downgraded(x) ==
    /\ obj[x].count > 0 /\ obj[x].weak = Null
    /\ obj'[x].count = obj[x].count /\ obj'[x].weak # Null

(* What stays garbage is not touched, and gets no new owner. *)
DoomedKept ==
    pc # "wait" =>
       /\ doomed' \cap Reachable' = {}
       /\ \A x \in doomed' : /\ obj'[x].count = obj[x].count /\ obj'[x].tag = obj[x].tag
                             /\ Owners(x)' \subseteq Owners(x) \cap doomed'

UserEffect ==
    /\ UNCHANGED <<state, pc, todo, recheck, rounds, freed>>
    /\ dying' \in [refs : SUBSET Slots, loud : BOOLEAN]
    /\ local \subseteq local' /\ local' \subseteq Slots
    /\ pc # "drop" => dying' = dying /\ local' = local
    /\ obj' \in [Slots -> Inner] /\ ObjInv' /\ reader' \in Slots \cup {Null}
    /\ Used \subseteq Used' /\ pending' = pending \cup (Used' \ Used)
    /\ \A x \in Used : Kept(x) \/ Counted(x) \/ Downgraded(x)
    /\ reader' \in {reader, Null} \/ (reader' \in Used /\ HasBackRef(reader'))
    /\ doomed' \subseteq doomed /\ DoomedKept

(* User code that stays within T, which it may reach now that it has found *)
(* an object there, and makes the objects N.                               *)
LEMMA DoomedStep ==
    ASSUME TypeOK, DoomedInv, KnownOnce, obj' \in [Slots -> Inner],
           NEW T, Region(T), NEW N \in SUBSET (Slots \ Used),
           pc # "wait" => doomed' = doomed \ T,
           Held' \subseteq T \cup N, reader' \in T \cup N \cup {Null},
           \A x \in T \cup N : Refs(x)' \subseteq T \cup N /\ obj'[x].back \in T \cup N \cup {Null},
           \A x \in Slots \ (T \cup N) :
              /\ obj'[x].count = obj[x].count /\ obj'[x].tag = obj[x].tag
              /\ Refs(x)' \subseteq Refs(x) \cup T
    PROVE  DoomedKept
<1> SUFFICES ASSUME pc # "wait"
             PROVE  /\ doomed' \cap Reachable' = {}
                    /\ \A x \in doomed' :
                          /\ obj'[x].count = obj[x].count /\ obj'[x].tag = obj[x].tag
                          /\ Owners(x)' \subseteq Owners(x) \cap doomed'
  BY DEF DoomedKept
<1>1. T \cup N \in SUBSET Slots
  BY DEF Region
<1>2. doomed' \subseteq Slots \ (T \cup N)
  BY DEF DoomedInv, KnownOnce, TypeOK
<1>3. Reachable' \subseteq T \cup N
  BY <1>1, ReachWithin
<1>4. ASSUME NEW x \in doomed', NEW p \in Owners(x)'
      PROVE  p \in Owners(x) \cap doomed'
  <2>1. p \in Slots /\ x \in Refs(p)' /\ x \in Slots \ (T \cup N) /\ x \in doomed
    BY <1>2, <1>4 DEF Owners
  <2>2. p \notin T \cup N
    BY <2>1
  <2>3. x \in Refs(p)
    BY <2>1, <2>2
  <2>4. p \in Owners(x)
    BY <2>1, <2>3 DEF Owners
  <2>5. p \in doomed
    BY <2>1, <2>4 DEF DoomedInv
  <2>6. QED
    BY <2>2, <2>4, <2>5
<1>5. QED
  BY <1>2, <1>3, <1>4

LEMMA FindsFound ==
    ASSUME DoomedInv, NEW o, Finds(o)
    PROVE  doomed' \subseteq doomed /\ (pc # "wait" => doomed' = doomed \ Found(o))
  BY DEF DoomedInv, Finds, Found

LEMMA FindsNothing ==
    ASSUME DoomedInv, doomed' = doomed
    PROVE  doomed' \subseteq doomed /\ (pc # "wait" => doomed' = doomed \ Reachable)
  BY DEF DoomedInv

(* A handle that is made or dropped touches only an object that is         *)
(* referred to or read.                                                    *)
LEMMA HandleUser ==
    ASSUME TypeOK, ObjInv, KnownOnce, DoomedInv,
           NEW x \in Slots, NEW d \in {1, -1}, HandleEffect(x, d),
           obj'[x].tag = TRUE \/ obj'[x].count > 0, obj[x].count > 0 \/ x = reader,
           UNCHANGED <<state, pc, todo, recheck, rounds, freed, pending, dying>>,
           local \subseteq local', local' \subseteq Slots, pc # "drop" => local' = local,
           reader' \in {reader, Null},
           NEW T, Region(T), x \in T,
           doomed' \subseteq doomed, pc # "wait" => doomed' = doomed \ T
    PROVE  UserEffect
<1>1. Recount /\ SameLinks /\ \A p \in Slots \ {x} : obj'[p] = obj[p]
  BY DEF HandleEffect, Recount
<1>2. /\ Used' = Used
      /\ \A o \in Slots : Refs(o)' = Refs(o) /\ HasBackRef(o)' = HasBackRef(o)
  BY <1>1, SameLinksKeep
<1>3. ObjInv' /\ obj' \in [Slots -> Inner]
  BY <1>1, RecountObjInv DEF Recount
<1>4. \A p \in Used : Kept(p) \/ Counted(p)
  <2> SUFFICES ASSUME NEW p \in Used PROVE Kept(p) \/ Counted(p)
    OBVIOUS
  <2>1. p \in Slots /\ HasBackRef(p)' = HasBackRef(p) /\ obj'[p].weak = obj[p].weak
    BY <1>1, <1>2 DEF Used, SameLinks
  <2>2. CASE p = x
    BY <2>1, <2>2 DEF Counted
  <2>3. CASE p # x
    BY <1>1, <2>1, <2>3 DEF Kept
  <2>4. QED
    BY <2>2, <2>3
<1>5. DoomedKept
  <2>1. PICK N \in SUBSET (Slots \ Used) : N = {}
    OBVIOUS
  <2>2. Held' \subseteq T \cup N /\ reader' \in T \cup N \cup {Null}
    BY <1>1 DEF Held, Region
  <2>3. \A p \in T \cup N : Refs(p)' \subseteq T \cup N /\ obj'[p].back \in T \cup N \cup {Null}
    BY <1>1, <1>2, <2>1 DEF Region, SameLinks
  <2>4. \A p \in Slots \ (T \cup N) :
           /\ obj'[p].count = obj[p].count /\ obj'[p].tag = obj[p].tag
           /\ Refs(p)' \subseteq Refs(p) \cup T
    BY <1>1, <1>2
  <2>5. QED
    BY <1>3, <2>2, <2>3, <2>4, DoomedStep
<1>6. QED
  BY <1>2, <1>3, <1>4, <1>5 DEF UserEffect, TypeOK

LEMMA CloneUser ==
    ASSUME TypeOK, ObjInv, KnownOnce, DoomedInv, NEW o \in Slots, Clone(o)
    PROVE  UserEffect
<1>1. o \in InReach /\ obj' = [Inc(obj, o) EXCEPT ![o].handles = @ + 1] /\ Finds(o)
  BY DEF Clone
<1>2. /\ UNCHANGED <<state, pc, todo, recheck, rounds, freed, pending, dying>>
      /\ local' = local /\ reader' = reader
  BY DEF Clone, loopVars
<1>3. obj[o].count > 0 /\ obj[o].used
  BY <1>1, InReachCounted
<1>4. HandleEffect(o, 1)
  BY <1>1, <1>2, <1>3, MoreHandles
<1>5. obj'[o].count > 0
  BY <1>3, <1>4 DEF HandleEffect, TypeOK, Inner
<1>6. Region(Found(o)) /\ o \in Found(o)
  BY FoundRegion
<1>7. doomed' \subseteq doomed /\ (pc # "wait" => doomed' = doomed \ Found(o))
  BY <1>1, FindsFound
<1>8. local \subseteq local' /\ local' \subseteq Slots
  BY <1>2 DEF TypeOK
<1>9. QED
  BY <1>2, <1>3, <1>4, <1>5, <1>6, <1>7, <1>8, HandleUser

(* Drop, in a user thread or in the collector thread. *)
LEMMA DropUser ==
    ASSUME TypeOK, ObjInv, KnownOnce, DoomedInv, NEW o \in Slots, Drop(o) \/ DropInCollector(o)
    PROVE  UserEffect
<1>1. obj[o].handles > 0 /\ obj' = [Dec(obj, {o}) EXCEPT ![o].handles = @ - 1]
  BY DEF Drop, DropInCollector, Held
<1>2. /\ UNCHANGED <<state, pc, todo, recheck, rounds, freed, pending, dying>>
      /\ reader' = reader /\ doomed' = doomed /\ local' \in {local, local \cup {o}}
      /\ pc # "drop" => local' = local
  BY DEF Drop, DropInCollector, loopVars
<1>3. obj[o].count > 0
  BY <1>1, CountFacts
<1>4. HandleEffect(o, -1) /\ obj'[o].tag = TRUE
  BY <1>1, <1>2, LessHandles
<1>5. Region(Reachable) /\ o \in Reachable
  BY <1>1, ReachRegion DEF Region, Held
<1>6. doomed' \subseteq doomed /\ (pc # "wait" => doomed' = doomed \ Reachable)
  BY <1>2, FindsNothing
<1>7. local \subseteq local' /\ local' \subseteq Slots
  BY <1>2 DEF TypeOK
<1>8. QED
  BY <1>2, <1>3, <1>4, <1>5, <1>6, <1>7, HandleUser

LEMMA DowngradeAgainUser ==
    ASSUME TypeOK, ObjInv, KnownOnce, DoomedInv, NEW o \in Slots, DowngradeAgain(o)
    PROVE  UserEffect
<1>1. PICK w : w = obj[o].weak
  OBVIOUS
<1>2. o \in InReach /\ w # Null /\ obj' = [Inc(obj, w) EXCEPT ![w].handles = @ + 1] /\ Finds(w)
  BY <1>1 DEF DowngradeAgain
<1>3. /\ UNCHANGED <<state, pc, todo, recheck, rounds, freed, pending, dying>>
      /\ local' = local /\ reader' = reader
  BY DEF DowngradeAgain, loopVars
<1>4. w \in Refs(o)
  BY <1>1, <1>2 DEF Refs
<1>5. w \in Slots /\ obj[w].count > 0 /\ obj[w].used
  BY <1>4, Referred
<1>6. HandleEffect(w, 1)
  BY <1>2, <1>3, <1>5, MoreHandles
<1>7. obj'[w].count > 0
  BY <1>5, <1>6 DEF HandleEffect, TypeOK, Inner
<1>8. Region(Found(w)) /\ w \in Found(w)
  BY <1>5, FoundRegion
<1>9. doomed' \subseteq doomed /\ (pc # "wait" => doomed' = doomed \ Found(w))
  BY <1>2, FindsFound
<1>10. local \subseteq local' /\ local' \subseteq Slots
  BY <1>3 DEF TypeOK
<1>11. QED
  BY <1>3, <1>5, <1>6, <1>7, <1>8, <1>9, <1>10, HandleUser

LEMMA UpgradeIncrementUser ==
    ASSUME TypeOK, ObjInv, KnownOnce, DoomedInv, ReaderInv, UpgradeIncrement
    PROVE  UserEffect
<1>1. PICK x : x = reader
  OBVIOUS
<1>2. x \in Slots /\ obj[x].used
  BY <1>1 DEF UpgradeIncrement, TypeOK, ReaderInv
<1>3. obj' = [Inc(obj, x) EXCEPT ![x].handles = @ + 1]
  BY <1>1 DEF UpgradeIncrement
<1>4. /\ UNCHANGED <<state, pc, todo, recheck, rounds, freed, pending, dying>>
      /\ local' = local /\ reader' = Null /\ doomed' = doomed
  BY DEF UpgradeIncrement, loopVars
<1>5. HandleEffect(x, 1)
  BY <1>2, <1>3, <1>4, MoreHandles
<1>6. obj'[x].count > 0
  BY <1>2, <1>5 DEF HandleEffect, TypeOK, Inner
<1>7. Region(Reachable) /\ x \in Reachable
  BY <1>1, <1>2, ReachRegion, IterationAssumption DEF Region
<1>8. doomed' \subseteq doomed /\ (pc # "wait" => doomed' = doomed \ Reachable)
  BY <1>4, FindsNothing
<1>9. local \subseteq local' /\ local' \subseteq Slots
  BY <1>4 DEF TypeOK
<1>10. QED
  BY <1>1, <1>2, <1>4, <1>5, <1>6, <1>7, <1>8, <1>9, HandleUser

(* A reader only loads the live owner of the WeakSdarcInner, whose back    *)
(* reference is not cleared yet.                                           *)
LEMMA UpgradeLoadUser ==
    ASSUME TypeOK, ObjInv, KnownOnce, DoomedInv, NEW w \in Slots, UpgradeLoad(w)
    PROVE  UserEffect
<1>1. PICK b : b = obj[w].back
  OBVIOUS
<1>2. w \in InReach /\ b # Null /\ reader' = b /\ obj' = obj /\ Finds(b)
  BY <1>1 DEF UpgradeLoad
<1>3. /\ UNCHANGED <<state, pc, todo, recheck, rounds, freed, pending, dying>>
      /\ local' = local
  BY DEF UpgradeLoad, loopVars
<1>4. Recount
  BY <1>2, <1>3, Idle
<1>5. ObjInv' /\ obj' \in [Slots -> Inner]
  BY <1>4, RecountObjInv DEF Recount
<1>6. w \in Used
  BY <1>2, InReachCounted DEF Used
<1>7. b \in Slots /\ obj[b].weak = w
  BY <1>1, <1>2, <1>6 DEF TypeOK, Inner, ObjInv, BackRefLive
<1>8. HasBackRef(b)
  BY <1>1, <1>2, <1>7, IterationAssumption DEF HasBackRef
<1>9. b \in Used
  <2>1. w \in Refs(b)
    BY <1>7, IterationAssumption DEF Refs
  <2>2. QED
    BY <1>7, <2>1, Referred DEF Used
<1>10. Used' = Used /\ \A x \in Used : Kept(x)
  BY <1>2 DEF Used, Kept, HasBackRef
<1>11. Region(Found(b)) /\ b \in Found(b)
  BY <1>7, FoundRegion
<1>12. doomed' \subseteq doomed /\ (pc # "wait" => doomed' = doomed \ Found(b))
  BY <1>2, FindsFound
<1>13. DoomedKept
  <2>1. Held' = Held /\ \A p \in Slots : Refs(p)' = Refs(p)
    BY <1>2 DEF Held, Refs
  <2>0. PICK N \in SUBSET (Slots \ Used) : N = {}
    OBVIOUS
  <2>2. PICK T : T = Found(b)
    OBVIOUS
  <2>3. Held' \subseteq T \cup N /\ reader' \in T \cup N \cup {Null}
    BY <1>2, <1>11, <2>1, <2>2 DEF Region
  <2>4. \A p \in T \cup N : Refs(p)' \subseteq T \cup N /\ obj'[p].back \in T \cup N \cup {Null}
    BY <2>0, <1>2, <1>11, <2>1, <2>2 DEF Region
  <2>5. \A p \in Slots \ (T \cup N) :
           /\ obj'[p].count = obj[p].count /\ obj'[p].tag = obj[p].tag
           /\ Refs(p)' \subseteq Refs(p) \cup T
    BY <1>2, <2>1
  <2>6. Region(T) /\ (pc # "wait" => doomed' = doomed \ T)
    BY <1>11, <1>12, <2>2
  <2>7. QED
    BY <1>5, <2>3, <2>4, <2>5, <2>6, DoomedStep
<1>14. reader' \in Used /\ HasBackRef(reader') /\ reader' \in Slots
  BY <1>2, <1>7, <1>8, <1>9
<1>15. QED
  BY <1>3, <1>5, <1>10, <1>12, <1>13, <1>14 DEF UserEffect, TypeOK

(* A step that changes no counter, and no weak_inner_ref or back_ref. *)
LEMMA KeptAll ==
    ASSUME TypeOK, \A x \in Slots : /\ obj'[x].count = obj[x].count /\ obj'[x].tag = obj[x].tag
                                    /\ obj'[x].weak = obj[x].weak /\ obj'[x].back = obj[x].back
    PROVE  \A x \in Used : Kept(x)
<1> SUFFICES ASSUME NEW x \in Used PROVE Kept(x)
  OBVIOUS
<1>1. x \in Slots /\ obj[x].weak \in Slots \cup {Null}
  BY DEF Used, TypeOK, Inner
<1>2. HasBackRef(x)' = HasBackRef(x)
  BY <1>1 DEF HasBackRef
<1>3. QED
  BY <1>1, <1>2 DEF Kept

(* A handle is moved into the data of p, or out of it: what is moved was   *)
(* no garbage, or is none from now on.                                     *)
LEMMA MoveUser ==
    ASSUME TypeOK, ObjInv, KnownOnce, DoomedInv,
           NEW p \in Slots, NEW o \in Slots, NEW d, MoveEffect(p, o, d),
           UNCHANGED <<pending, reader, loopVars>>,
           NEW T, Region(T), o \in T,
           doomed' \subseteq doomed, pc # "wait" => doomed' = doomed \ T
    PROVE  UserEffect
<1>1. /\ UNCHANGED <<state, pc, todo, recheck, rounds, freed, pending, dying>>
      /\ local' = local /\ reader' = reader
  BY DEF loopVars
<1>2. ObjInv' /\ obj' \in [Slots -> Inner]
  BY <1>1, MoveObjInv DEF MoveEffect
<1>3. \A x \in Slots : /\ obj'[x].count = obj[x].count /\ obj'[x].tag = obj[x].tag
                       /\ obj'[x].weak = obj[x].weak /\ obj'[x].back = obj[x].back
                       /\ obj'[x].used = obj[x].used
  BY DEF MoveEffect
<1>4. Used' = Used /\ \A x \in Used : Kept(x)
  BY <1>3, KeptAll DEF Used
<1>5. \A x \in Slots : Refs(x)' \subseteq Refs(x) \cup {o}
  BY <1>3 DEF MoveEffect, Refs
<1>6. DoomedKept
  <2>1. PICK N \in SUBSET (Slots \ Used) : N = {}
    OBVIOUS
  <2>2. Held' \subseteq Held \cup {o}
    BY DEF MoveEffect, Held
  <2>3. Held' \subseteq T \cup N /\ reader' \in T \cup N \cup {Null}
    BY <1>1, <2>1, <2>2 DEF Region
  <2>4. \A x \in T \cup N : Refs(x)' \subseteq T \cup N /\ obj'[x].back \in T \cup N \cup {Null}
    BY <1>3, <1>5, <2>1 DEF Region
  <2>5. \A x \in Slots \ (T \cup N) :
           /\ obj'[x].count = obj[x].count /\ obj'[x].tag = obj[x].tag
           /\ Refs(x)' \subseteq Refs(x) \cup T
    BY <1>3, <1>5
  <2>6. QED
    BY <1>2, <2>3, <2>4, <2>5, DoomedStep
<1>7. QED
  BY <1>1, <1>2, <1>4, <1>6 DEF UserEffect, TypeOK

LEMMA StoreInUser ==
    ASSUME TypeOK, ObjInv, KnownOnce, DoomedInv, NEW p \in Slots, NEW o \in Slots, StoreIn(p, o)
    PROVE  UserEffect
<1>0. PICK d \in {1, -1} : d = -1
  OBVIOUS
<1>1. obj[p].used
  BY InReachCounted DEF StoreIn
<1>2. o \in Held /\ obj[o].handles + d \in Nat /\ obj[o].used
  BY <1>0, CountFacts DEF StoreIn, Held, TypeOK, Inner
<1>3. PICK C : C = obj[p].children \cup {o}
  OBVIOUS
<1>4. C \in SUBSET Slots /\ o \notin obj[p].children
  BY <1>3 DEF StoreIn, TypeOK, Inner
<1>5. obj' = [[obj EXCEPT ![o].handles = @ + d] EXCEPT ![p].children = C]
  <2>1. obj \in [Slots -> Inner]
    BY DEF TypeOK
  <2>2. PICK f : f = [obj EXCEPT ![o].handles = @ - 1]
    OBVIOUS
  <2>3. f[p].children = obj[p].children
    BY <2>1, <2>2 DEF Inner
  <2>4. [obj EXCEPT ![o].handles = @ + d] = f
    <3>1. obj[o].handles + d = obj[o].handles - 1
      BY <1>0, <2>1 DEF Inner
    <3>2. QED
      BY <2>2, <3>1
  <2>5. obj' = [f EXCEPT ![p].children = @ \cup {o}]
    BY <2>2 DEF StoreIn
  <2>6. [f EXCEPT ![p].children = @ \cup {o}] = [f EXCEPT ![p].children = C]
    BY <1>3, <2>3
  <2>7. QED
    BY <2>4, <2>5, <2>6
<1>6. MoveEffect(p, o, d)
  <2>1. IF d = 1 THEN o \in obj[p].children /\ C = obj[p].children \ {o}
                 ELSE o \notin obj[p].children /\ C = obj[p].children \cup {o}
    BY <1>0, <1>3, <1>4
  <2>2. QED
    BY <1>1, <1>2, <1>4, <1>5, <2>1, Moves
<1>7. Region(Reachable) /\ o \in Reachable
  BY <1>2, ReachRegion DEF Region
<1>8. doomed' \subseteq doomed /\ (pc # "wait" => doomed' = doomed \ Reachable)
  BY FindsNothing DEF StoreIn
<1>9. UNCHANGED <<pending, reader, loopVars>>
  BY DEF StoreIn
<1>10. QED
  BY <1>6, <1>7, <1>8, <1>9, MoveUser

LEMMA TakeOutUser ==
    ASSUME TypeOK, ObjInv, KnownOnce, DoomedInv, NEW p \in Slots, NEW o \in Slots, TakeOut(p, o)
    PROVE  UserEffect
<1>1. obj[p].used
  BY InReachCounted DEF TakeOut
<1>2. o \in Refs(p) /\ o \in obj[p].children
  BY DEF TakeOut, Refs
<1>3. obj[o].used /\ obj[o].handles + 1 \in Nat
  BY <1>2, Referred DEF TypeOK, Inner
<1>4. PICK C : C = obj[p].children \ {o}
  OBVIOUS
<1>5. C \in SUBSET Slots
  BY <1>4 DEF TypeOK, Inner
<1>6. obj' = [[obj EXCEPT ![o].handles = @ + 1] EXCEPT ![p].children = C]
  <2>1. obj \in [Slots -> Inner]
    BY DEF TypeOK
  <2>2. PICK f : f = [obj EXCEPT ![o].handles = @ + 1]
    OBVIOUS
  <2>3. f[p].children = obj[p].children
    BY <2>1, <2>2 DEF Inner
  <2>4. obj' = [f EXCEPT ![p].children = @ \ {o}]
    BY <2>2 DEF TakeOut
  <2>5. [f EXCEPT ![p].children = @ \ {o}] = [f EXCEPT ![p].children = C]
    BY <1>4, <2>3
  <2>6. QED
    BY <2>2, <2>4, <2>5
<1>7. MoveEffect(p, o, 1)
  BY <1>1, <1>2, <1>3, <1>4, <1>5, <1>6, Moves
<1>8. Region(Found(o)) /\ o \in Found(o)
  BY FoundRegion
<1>9. doomed' \subseteq doomed /\ (pc # "wait" => doomed' = doomed \ Found(o))
  BY FindsFound DEF TakeOut
<1>10. UNCHANGED <<pending, reader, loopVars>>
  BY DEF TakeOut
<1>11. QED
  BY <1>7, <1>8, <1>9, <1>10, MoveUser

(* A Drop in the collector thread moves a Sdarc out of the content. *)
LEMMA RescueUser ==
    ASSUME TypeOK, ObjInv, KnownOnce, DoomedInv, NEW o \in Slots, Rescue(o)
    PROVE  UserEffect
<1>1. /\ pc = "drop" /\ o \in dying.refs /\ Finds(o)
      /\ obj' = [obj EXCEPT ![o].handles = @ + 1]
      /\ dying' = [dying EXCEPT !.refs = @ \ {o}]
      /\ UNCHANGED <<state, pc, todo, recheck, rounds, freed, pending>>
      /\ local' = local /\ reader' = reader
  BY DEF Rescue
<1>2. /\ dying' \in [refs : SUBSET Slots, loud : BOOLEAN]
      /\ dying'.refs = dying.refs \ {o}
  BY <1>1 DEF TypeOK
<1>3. obj[o].used
  BY <1>1, CountFacts
<1>4. \A x \in Slots : obj[x] \in Inner
  BY DEF TypeOK
<1>5. /\ obj'[o] = [obj[o] EXCEPT !.handles = @ + 1]
      /\ \A x \in Slots \ {o} : obj'[x] = obj[x]
  BY <1>1 DEF TypeOK
<1>6. /\ obj'[o] \in Inner /\ SameFields(obj'[o], obj[o]) /\ obj'[o].tag = obj[o].tag
      /\ obj'[o].count = obj[o].count /\ obj'[o].handles = obj[o].handles + 1
  <2>1. PICK h : h = obj[o].handles + 1
    OBVIOUS
  <2>2. h \in Nat
    BY <1>4, <2>1 DEF Inner
  <2>3. obj'[o] = [obj[o] EXCEPT !.handles = h]
    BY <1>5, <2>1
  <2>4. QED
    BY <1>4, <2>1, <2>2, <2>3, HandlesSet
<1>7. obj' \in [Slots -> Inner]
  <2>1. \A x \in Slots : obj'[x] \in Inner
    BY <1>4, <1>5, <1>6
  <2>2. QED
    BY <1>1, <2>1 DEF TypeOK
<1>8. /\ SameLinks
      /\ \A x \in Slots : /\ obj'[x].count = obj[x].count /\ obj'[x].tag = obj[x].tag
                          /\ obj'[x].weak = obj[x].weak /\ obj'[x].back = obj[x].back
  BY <1>5, <1>6 DEF SameLinks, SameFields
<1>9. ASSUME NEW x \in Slots
      PROVE  obj'[x].count = obj[x].count + (obj'[x].handles - obj[x].handles)
                            + (Bit(x \in dying'.refs) - Bit(x \in dying.refs))
  <2>1. obj[x].count \in Nat /\ obj[x].handles \in Nat
    BY <1>4 DEF Inner
  <2>2. CASE x = o
    <3>1. Bit(x \in dying.refs) = 1 /\ Bit(x \in dying'.refs) = 0
      BY <1>1, <1>2, <2>2 DEF Bit
    <3>2. obj'[x].count = obj[x].count /\ obj'[x].handles = obj[x].handles + 1
      BY <1>6, <2>2
    <3>3. QED
      BY <2>1, <3>1, <3>2
  <2>3. CASE x # o
    <3>1. Bit(x \in dying'.refs) = Bit(x \in dying.refs) /\ Bit(x \in dying.refs) \in {0, 1}
      BY <1>2, <2>3 DEF Bit
    <3>2. obj'[x].count = obj[x].count /\ obj'[x].handles = obj[x].handles
      BY <1>5, <2>3
    <3>3. QED
      BY <2>1, <3>1, <3>2
  <2>4. QED
    BY <2>2, <2>3
<1>10. \A x \in Slots : ~obj[x].used => obj'[x] = obj[x]
  BY <1>3, <1>5
<1>11. Recount
  BY <1>7, <1>8, <1>9, <1>10 DEF Recount
<1>12. ObjInv'
  BY <1>11, RecountObjInv
<1>13. Used' = Used /\ \A x \in Slots : Refs(x)' = Refs(x)
  BY <1>8, SameLinksKeep
<1>14. \A x \in Used : Kept(x)
  BY <1>8, KeptAll
<1>15. doomed' \subseteq doomed /\ (pc # "wait" => doomed' = doomed \ Found(o))
  BY <1>1, FindsFound
<1>16. DoomedKept
  <2>0. PICK N \in SUBSET (Slots \ Used) : N = {}
    OBVIOUS
  <2>1. PICK T : T = Found(o)
    OBVIOUS
  <2>2. Region(T) /\ o \in T /\ (pc # "wait" => doomed' = doomed \ T)
    BY <1>15, <2>1, FoundRegion
  <2>3. Held' \subseteq Held \cup {o}
    BY <1>5 DEF Held
  <2>4. Held' \subseteq T \cup N /\ reader' \in T \cup N \cup {Null}
    BY <1>1, <2>2, <2>3 DEF Region
  <2>5. \A x \in T \cup N : Refs(x)' \subseteq T \cup N /\ obj'[x].back \in T \cup N \cup {Null}
    BY <2>0, <1>8, <1>13, <2>1, <2>2 DEF Region
  <2>6. \A x \in Slots \ (T \cup N) :
           /\ obj'[x].count = obj[x].count /\ obj'[x].tag = obj[x].tag
           /\ Refs(x)' \subseteq Refs(x) \cup T
    BY <1>8, <1>13
  <2>7. QED
    BY <1>7, <2>2, <2>4, <2>5, <2>6, DoomedStep
<1>17. QED
  BY <1>1, <1>2, <1>7, <1>12, <1>13, <1>14, <1>15, <1>16 DEF UserEffect, TypeOK

(* HasBackRef reads the WeakSdarcInner, which exists already. *)
LEMMA SameBackRef ==
    ASSUME TypeOK, ObjInv, NEW x \in Used, NEW n, n \notin Used, obj'[x].weak = obj[x].weak,
           \A p \in Slots \ {n} : obj'[p].back = obj[p].back
    PROVE  HasBackRef(x)' = HasBackRef(x)
<1>1. CASE obj[x].weak = Null
  BY <1>1 DEF HasBackRef
<1>2. CASE obj[x].weak # Null
  <2>1. x \in Slots /\ obj[x].weak \in Refs(x)
    BY <1>2 DEF Refs, Used
  <2>2. obj[x].weak \in Slots /\ obj[obj[x].weak].used
    BY <2>1, Referred
  <2>3. obj[x].weak \in Slots \ {n}
    BY <2>2 DEF Used
  <2>4. QED
    BY <2>3 DEF HasBackRef
<1>3. QED
  BY <1>1, <1>2

LEMMA NewUser ==
    ASSUME TypeOK, ObjInv, KnownOnce, DoomedInv,
           NEW o \in Slots \ Used, NEW C \in SUBSET Held, New(o, C)
    PROVE  UserEffect
<1>0. NewEffect(o, C)
  BY NewObj
<1>1. /\ UNCHANGED <<state, pc, todo, recheck, rounds, freed, dying>>
      /\ local' = local /\ reader' = reader /\ pending' = pending \cup {o} /\ doomed' = doomed
  BY DEF New, loopVars
<1>2. ObjInv'
  BY NewObjInv
<1>3. Used' = Used \cup {o}
  BY <1>0 DEF NewEffect, Used
<1>4. \A x \in Used : Kept(x)
  <2> SUFFICES ASSUME NEW x \in Used PROVE Kept(x)
    OBVIOUS
  <2>1. x \in Slots /\ x # o
    BY DEF Used
  <2>2. /\ obj'[x].count = obj[x].count /\ obj'[x].tag = obj[x].tag
        /\ obj'[x].weak = obj[x].weak
    BY <1>0, <2>1 DEF NewEffect
  <2>3. \A p \in Slots \ {o} : obj'[p].back = obj[p].back
    BY <1>0 DEF NewEffect
  <2>4. HasBackRef(x)' = HasBackRef(x)
    BY <2>2, <2>3, SameBackRef
  <2>5. QED
    BY <2>2, <2>4 DEF Kept
<1>5. doomed' \subseteq doomed /\ (pc # "wait" => doomed' = doomed \ Reachable)
  BY <1>1, FindsNothing
<1>6. DoomedKept
  <2>1. PICK N \in SUBSET (Slots \ Used) : N = {o}
    OBVIOUS
  <2>2. Region(Reachable)
    BY ReachRegion
  <2>3. Refs(o)' = C /\ \A p \in Slots \ {o} : Refs(p)' = Refs(p)
    BY <1>0 DEF NewEffect, Refs
  <2>4. obj'[o].back = Null /\ \A p \in Slots \ {o} : obj'[p].back = obj[p].back
    BY <1>0 DEF NewEffect
  <2>5. Held' \subseteq Held \cup {o}
    <3> SUFFICES ASSUME NEW x \in Slots, obj'[x].handles > 0, x # o PROVE obj[x].handles > 0
      BY DEF Held
    <3>1. obj[x].handles \in Nat /\ (obj'[x].handles = obj[x].handles - 1 \/ obj'[x].handles = obj[x].handles)
      BY <1>0 DEF NewEffect, TypeOK, Inner
    <3>2. QED
      BY <3>1
  <2>6. /\ Held' \subseteq Reachable \cup N /\ reader' \in Reachable \cup N \cup {Null}
        /\ C \subseteq Reachable
    BY <1>1, <2>1, <2>2, <2>5 DEF Region
  <2>7. ASSUME NEW x \in Reachable \cup N
        PROVE  /\ Refs(x)' \subseteq Reachable \cup N
               /\ obj'[x].back \in Reachable \cup N \cup {Null}
    <3>1. CASE x = o
      BY <2>3, <2>4, <2>6, <3>1
    <3>2. CASE x # o
      <4>1. x \in Reachable /\ x \in Slots \ {o}
        BY <2>1, <2>2, <3>2 DEF Region
      <4>2. Refs(x)' = Refs(x) /\ obj'[x].back = obj[x].back
        BY <2>3, <2>4, <4>1
      <4>3. QED
        BY <2>2, <4>1, <4>2 DEF Region
    <3>3. QED
      BY <3>1, <3>2
  <2>8. \A x \in Slots \ (Reachable \cup N) :
           /\ obj'[x].count = obj[x].count /\ obj'[x].tag = obj[x].tag
           /\ Refs(x)' \subseteq Refs(x) \cup Reachable
    BY <1>0, <2>1, <2>3 DEF NewEffect
  <2>9. obj' \in [Slots -> Inner]
    BY <1>0 DEF NewEffect
  <2>10. QED
    BY <1>5, <2>2, <2>6, <2>7, <2>8, <2>9, DoomedStep
<1>7. pending' = pending \cup (Used' \ Used) /\ Used \subseteq Used'
  BY <1>1, <1>3
<1>8. obj' \in [Slots -> Inner]
  BY <1>0 DEF NewEffect
<1>9. QED
  BY <1>1, <1>2, <1>4, <1>5, <1>6, <1>7, <1>8 DEF UserEffect, TypeOK

LEMMA DowngradeUser ==
    ASSUME TypeOK, ObjInv, KnownOnce, DoomedInv,
           NEW o \in Slots, NEW w \in Slots, Downgrade(o, w)
    PROVE  UserEffect
<1>0. DowngradeEffect(o, w)
  BY DowngradeObj
<1>1. /\ UNCHANGED <<state, pc, todo, recheck, rounds, freed, dying>>
      /\ local' = local /\ reader' = reader /\ pending' = pending \cup {w} /\ Finds(o)
  BY DEF Downgrade, loopVars
<1>2. ObjInv'
  BY DowngradeObjInv
<1>3. Used' = Used \cup {w} /\ w \notin Used
  BY <1>0 DEF DowngradeEffect, Used
<1>4. \A p \in Slots \ {w} : obj'[p].back = obj[p].back
  BY <1>0 DEF DowngradeEffect
<1>5. \A x \in Used : Kept(x) \/ Downgraded(x)
  <2> SUFFICES ASSUME NEW x \in Used PROVE Kept(x) \/ Downgraded(x)
    OBVIOUS
  <2>1. x \in Slots /\ x # w
    BY <1>3 DEF Used
  <2>2. CASE x = o
    <3>1. obj'[x].count = obj[x].count /\ obj'[x].weak = w /\ obj[x].weak = Null /\ obj[x].count > 0
      BY <1>0, <2>1, <2>2 DEF DowngradeEffect
    <3>2. QED
      BY <3>1, IterationAssumption DEF Downgraded
  <2>3. CASE x # o
    <3>1. obj'[x] = obj[x]
      BY <1>0, <2>1, <2>3 DEF DowngradeEffect
    <3>2. HasBackRef(x)' = HasBackRef(x)
      BY <1>3, <1>4, <3>1, SameBackRef
    <3>3. QED
      BY <3>1, <3>2 DEF Kept
  <2>4. QED
    BY <2>2, <2>3
<1>6. doomed' \subseteq doomed /\ (pc # "wait" => doomed' = doomed \ Found(o))
  BY <1>1, FindsFound
<1>7. obj' \in [Slots -> Inner]
  BY <1>0 DEF DowngradeEffect
<1>8. DoomedKept
  <2>0. PICK N \in SUBSET (Slots \ Used) : N = {w}
    BY <1>3
  <2>1. PICK T : T = Found(o)
    OBVIOUS
  <2>2. Region(T) /\ o \in T /\ (pc # "wait" => doomed' = doomed \ T)
    BY <1>6, <2>1, FoundRegion
  <2>3. Refs(w)' = {} /\ \A p \in Slots : Refs(p)' \subseteq Refs(p) \cup {w}
    BY <1>0 DEF DowngradeEffect, Refs
  <2>4. Held' \subseteq Held \cup {w}
    BY <1>0 DEF DowngradeEffect, Held
  <2>5. Held' \subseteq T \cup N /\ reader' \in T \cup N \cup {Null}
    BY <2>0, <1>1, <2>1, <2>2, <2>4 DEF Region
  <2>6. ASSUME NEW x \in T \cup N
        PROVE  Refs(x)' \subseteq T \cup N /\ obj'[x].back \in T \cup N \cup {Null}
    <3>1. CASE x = w
      <4>1. obj'[w].back = o
        BY <1>0 DEF DowngradeEffect
      <4>2. QED
        BY <2>2, <2>3, <3>1, <4>1
    <3>2. CASE x # w
      <4>1. x \in T /\ x \in Slots \ {w}
        BY <2>0, <2>1, <2>2, <3>2 DEF Region
      <4>2. Refs(x) \subseteq T /\ obj[x].back \in T \cup {Null}
        BY <2>2, <4>1 DEF Region
      <4>3. QED
        BY <2>0, <1>4, <2>1, <2>3, <4>1, <4>2
    <3>3. QED
      BY <3>1, <3>2
  <2>7. ASSUME NEW x \in Slots \ (T \cup N)
        PROVE  /\ obj'[x].count = obj[x].count /\ obj'[x].tag = obj[x].tag
               /\ Refs(x)' \subseteq Refs(x) \cup T
    <3>1. obj'[x] = obj[x]
      BY <2>0, <1>0, <2>1, <2>2, <2>7 DEF DowngradeEffect
    <3>2. QED
      BY <3>1 DEF Refs
  <2>8. QED
    BY <1>7, <2>2, <2>5, <2>6, <2>7, DoomedStep
<1>9. pending' = pending \cup (Used' \ Used) /\ Used \subseteq Used'
  BY <1>1, <1>3
<1>10. QED
  BY <1>1, <1>2, <1>5, <1>6, <1>7, <1>8, <1>9 DEF UserEffect, TypeOK

(* All steps of user code are of this kind. *)
LEMMA UserSteps ==
    ASSUME TypeOK, ObjInv, KnownOnce, DoomedInv, ReaderInv,
           \/ UserStep \/ UpgradeIncrement
           \/ \E o \in Slots : DropInCollector(o) \/ Rescue(o)
    PROVE  UserEffect
<1>1. CASE UpgradeIncrement
  BY <1>1, UpgradeIncrementUser
<1>2. ASSUME NEW o \in Slots,
             \/ Clone(o) \/ Drop(o) \/ DowngradeAgain(o) \/ UpgradeLoad(o)
             \/ DropInCollector(o) \/ Rescue(o)
      PROVE  UserEffect
  BY <1>2, CloneUser, DropUser, DowngradeAgainUser, UpgradeLoadUser, RescueUser
<1>3. ASSUME NEW o \in Slots, NEW w \in Slots, Downgrade(o, w) \/ StoreIn(o, w) \/ TakeOut(o, w)
      PROVE  UserEffect
  BY <1>3, DowngradeUser, StoreInUser, TakeOutUser
<1>4. ASSUME NEW o \in Slots \ Used, NEW C \in SUBSET Held, New(o, C)
      PROVE  UserEffect
  BY <1>4, NewUser
<1>5. QED
  BY <1>1, <1>2, <1>3, <1>4 DEF UserStep

(* Steps of that kind keep the invariant, whatever phase the collector is  *)
(* in.                                                                     *)
LEMMA UserKeeps ==
    ASSUME IInv, UserEffect
    PROVE  IInv'
<1>1. /\ state' = state /\ pc' = pc /\ todo' = todo /\ recheck' = recheck
      /\ rounds' = rounds /\ freed' = freed /\ local \subseteq local'
      /\ pc # "drop" => dying' = dying /\ local' = local
  BY DEF UserEffect
<1>2. TypeOK'
  <2>1. pending' \subseteq Slots /\ doomed' \subseteq Slots
    BY DEF UserEffect, IInv, TypeOK, Used
  <2>2. QED
    BY <1>1, <2>1 DEF UserEffect, IInv, TypeOK
<1>3. KnownOnce'
  <2>1. Tracked' = Tracked
    BY <1>1 DEF Tracked
  <2>2. QED
    BY <2>1 DEF UserEffect, IInv, KnownOnce
<1>4. PhaseInv' /\ ListedInv' /\ Collected'
  <2>1. doomed' \subseteq doomed
    BY DEF UserEffect
  <2>2. PhaseInv'
    BY <1>1 DEF IInv, PhaseInv
  <2>3. ListedInv' /\ Collected'
    BY <1>1, <2>1 DEF IInv, ListedInv, Collected
  <2>4. QED
    BY <2>2, <2>3
<1>5. ReadyInv'
  <2> SUFFICES ASSUME NEW o \in Slots, state[o] = "ReadyToFree"
               PROVE  obj'[o].count = 0 /\ ~HasBackRef(o)' /\ reader' # o
    BY <1>1 DEF ReadyInv
  <2>1. o \in Used
    BY DEF IInv, KnownOnce, Tracked
  <2>2. obj[o].count = 0 /\ ~HasBackRef(o) /\ reader # o
    BY DEF IInv, ReadyInv
  <2>3. Kept(o)
    BY <2>1, <2>2 DEF UserEffect, Counted, Downgraded
  <2>4. reader' # o
    BY <2>2, IterationAssumption DEF UserEffect
  <2>5. QED
    BY <2>2, <2>3, <2>4 DEF Kept
<1>6. ReaderInv'
  <2> SUFFICES ASSUME reader' # Null
               PROVE  /\ obj'[reader'].used /\ obj'[reader'].weak # Null
                      /\ HasBackRef(reader)' \/ (pc = "visit" => reader' \notin todo)
    BY <1>1 DEF ReaderInv
  <2>1. PICK r : r = reader'
    OBVIOUS
  <2>2. /\ r \in Slots /\ obj[r].used /\ obj[r].weak # Null
        /\ HasBackRef(r) \/ (pc = "visit" => r \notin todo)
    BY <2>1 DEF UserEffect, IInv, ReaderInv, TypeOK, Used, HasBackRef
  <2>3. Kept(r) \/ Counted(r)
    BY <2>2 DEF UserEffect, Downgraded, Used
  <2>4. obj'[r].weak # Null /\ HasBackRef(r)' = HasBackRef(r)
    BY <2>2, <2>3 DEF Kept, Counted
  <2>5. obj'[r].used
    BY <2>2 DEF UserEffect, Used
  <2>6. HasBackRef(reader)' = HasBackRef(r)'
    BY <2>1 DEF HasBackRef
  <2>7. QED
    BY <2>1, <2>2, <2>4, <2>5, <2>6
<1>7. LagInv'
  <2>1. ASSUME NEW o \in Slots, state[o] # "untracked", Uncleared(o)'
        PROVE  Uncleared(o)
    <3>1. o \in Used
      BY <2>1 DEF IInv, KnownOnce, Tracked
    <3>2. Kept(o)
      BY <2>1, <3>1 DEF UserEffect, Counted, Downgraded, Uncleared
    <3>3. QED
      BY <2>1, <3>2 DEF Kept, Uncleared
  <2>2. Lag' = Lag
    BY <1>1 DEF Lag
  <2>3. todo \subseteq Slots /\ recheck \subseteq Slots
    BY DEF IInv, TypeOK
  <2>4. LagInv
    BY DEF IInv
  <2>5. IF pc' = "wait" THEN Lag' <= 2 ELSE Lag' <= 1
    BY <1>1, <2>2, <2>4 DEF LagInv
  <2>6. pc' \in {"spin", "visit"} =>
          \A o \in todo' : /\ state'[o] = "Default" => Lag' <= -1
                           /\ Uncleared(o)' /\ state'[o] # "untracked" => Lag' <= 0
    <3> SUFFICES ASSUME pc \in {"spin", "visit"}, NEW o \in todo
                 PROVE  /\ state[o] = "Default" => Lag <= -1
                        /\ Uncleared(o)' /\ state[o] # "untracked" => Lag <= 0
      BY <1>1, <2>2
    <3>1. /\ state[o] = "Default" => Lag <= -1
          /\ Uncleared(o) /\ state[o] # "untracked" => Lag <= 0
      BY <2>4 DEF LagInv
    <3>2. QED
      BY <2>1, <2>3, <3>1
  <2>7. \A o \in recheck' : /\ state'[o] = "RequiresReChecking"
                            /\ Lag' <= 0 /\ (Uncleared(o)' => Lag' <= -1)
    <3> SUFFICES ASSUME NEW o \in recheck
                 PROVE  /\ state[o] = "RequiresReChecking"
                        /\ Lag <= 0 /\ (Uncleared(o)' => Lag <= -1)
      BY <1>1, <2>2
    <3>1. state[o] = "RequiresReChecking" /\ Lag <= 0 /\ (Uncleared(o) => Lag <= -1)
      BY <2>4 DEF LagInv
    <3>2. QED
      BY <2>1, <2>3, <3>1
  <2>8. pc' = "drop" \/ local' # {} => Lag' <= -2
    BY <1>1, <2>2, <2>4 DEF LagInv
  <2>9. QED
    BY <2>5, <2>6, <2>7, <2>8 DEF LagInv
<1>8. DoomedInv'
  <2> SUFFICES ASSUME pc # "wait"
               PROVE  /\ doomed' \subseteq Tracked'
                      /\ doomed' \cap Reachable' = {}
                      /\ \A o \in doomed' : Owners(o)' \subseteq doomed'
                      /\ \A D \in SUBSET doomed' : D # {} => \E o \in D : Owners(o)' \cap D = {}
                      /\ \A o \in doomed' :
                            /\ state'[o] = "RequiresReChecking" => obj'[o].count = 0 /\ ~obj'[o].tag
                            /\ obj'[o].count = 0 => \/ state'[o] = "ReadyToFree"
                                                    \/ o \in todo' \cup recheck' \cup local'
    BY <1>1 DEF DoomedInv
  <2>1. /\ doomed' \cap Reachable' = {}
        /\ \A x \in doomed' : /\ obj'[x].count = obj[x].count /\ obj'[x].tag = obj[x].tag
                              /\ Owners(x)' \subseteq Owners(x) \cap doomed'
    BY DEF UserEffect, DoomedKept
  <2>2. doomed' \subseteq doomed /\ Tracked' = Tracked /\ doomed \subseteq Tracked
    BY <1>1 DEF UserEffect, IInv, DoomedInv, Tracked
  <2>3. ASSUME NEW D \in SUBSET doomed', D # {}
        PROVE  \E o \in D : Owners(o)' \cap D = {}
    <3>1. D \in SUBSET doomed
      BY <2>2
    <3>2. PICK o \in D : Owners(o) \cap D = {}
      BY <2>3, <3>1 DEF IInv, DoomedInv
    <3>3. QED
      BY <2>1, <3>2
  <2>4. ASSUME NEW o \in doomed'
        PROVE  /\ state'[o] = "RequiresReChecking" => obj'[o].count = 0 /\ ~obj'[o].tag
               /\ obj'[o].count = 0 => \/ state'[o] = "ReadyToFree"
                                       \/ o \in todo' \cup recheck' \cup local'
    <3>1. o \in doomed /\ obj'[o].count = obj[o].count /\ obj'[o].tag = obj[o].tag
      BY <2>1, <2>2, <2>4
    <3>2. /\ state[o] = "RequiresReChecking" => obj[o].count = 0 /\ ~obj[o].tag
          /\ obj[o].count = 0 => \/ state[o] = "ReadyToFree"
                                 \/ o \in todo \cup recheck \cup local
      BY <3>1 DEF IInv, DoomedInv
    <3>3. QED
      BY <1>1, <3>1, <3>2
  <2>5. QED
    BY <2>1, <2>2, <2>3, <2>4
<1>9. QED
  BY <1>2, <1>3, <1>4, <1>5, <1>6, <1>7, <1>8 DEF IInv, UserEffect

-----------------------------------------------------------------------------
(* Steps of the collector put nothing in reach, and give nothing a new     *)
(* owner; the garbage they free owns nothing any more.                     *)
LEMMA ShapeKeeps ==
    ASSUME TypeOK, DoomedInv, pc # "wait", obj' \in [Slots -> Inner],
           Held' \subseteq Held, reader' = reader,
           \A x \in Slots : Refs(x)' \subseteq Refs(x) /\ obj'[x].back \in {obj[x].back, Null},
           doomed' \subseteq doomed, \A p \in doomed \ doomed' : Refs(p)' = {}
    PROVE  /\ doomed' \cap Reachable' = {}
           /\ \A o \in doomed' : Owners(o)' \subseteq doomed'
           /\ \A D \in SUBSET doomed' : D # {} => \E o \in D : Owners(o)' \cap D = {}
<1>1. Region(Reachable)
  BY ReachRegion
<1>2. PICK T \in SUBSET Slots : T = Reachable
  BY <1>1 DEF Region
<1>3. Held' \subseteq T /\ reader' \in T \cup {Null}
  BY <1>1, <1>2 DEF Region
<1>4. \A x \in T : Refs(x)' \subseteq T /\ obj'[x].back \in T \cup {Null}
  BY <1>1, <1>2 DEF Region
<1>5. Reachable' \subseteq Reachable
  BY <1>2, <1>3, <1>4, ReachWithin
<1>6. doomed' \cap Reachable' = {}
  BY <1>5 DEF DoomedInv
<1>7. ASSUME NEW o \in doomed' PROVE Owners(o)' \subseteq Owners(o) \cap doomed'
  <2> SUFFICES ASSUME NEW p \in Slots, o \in Refs(p)' PROVE p \in Owners(o) \cap doomed'
    BY DEF Owners
  <2>1. p \in Owners(o) /\ o \in doomed
    BY <1>7 DEF Owners
  <2>2. p \in doomed
    BY <2>1 DEF DoomedInv
  <2>3. QED
    BY <2>1, <2>2
<1>8. ASSUME NEW D \in SUBSET doomed', D # {} PROVE \E o \in D : Owners(o)' \cap D = {}
  <2>1. D \in SUBSET doomed
    OBVIOUS
  <2>2. PICK o \in D : Owners(o) \cap D = {}
    BY <1>8, <2>1 DEF DoomedInv
  <2>3. QED
    BY <1>7, <2>2
<1>9. QED
  BY <1>6, <1>7, <1>8

-----------------------------------------------------------------------------
(* A visit of o, which moves it to s. *)

VisitEffect(o, s) ==
    /\ pc = "visit" /\ o \in todo /\ state[o] # "untracked"
    /\ s \in {"Default", "RequiresReChecking", "ReadyToFree"}
    /\ Visited(o, s)
    /\ obj' \in [Slots -> Inner] /\ ObjInv'
    /\ \A x \in Slots : /\ obj'[x].used = obj[x].used /\ obj'[x].count = obj[x].count
                        /\ obj'[x].handles = obj[x].handles /\ obj'[x].weak = obj[x].weak
                        /\ Refs(x)' = Refs(x) /\ obj'[x].back \in {obj[x].back, Null}
    /\ \A x \in Slots \ {o} : obj'[x].tag = obj[x].tag /\ HasBackRef(x)' = HasBackRef(x)
    /\ s = "Default" => o \notin doomed \/ obj[o].count # 0
    /\ s = "RequiresReChecking" =>
          /\ o \notin doomed \/ (obj'[o].tag = FALSE /\ obj[o].count = 0)
          /\ state[o] = "Default" \/ (Uncleared(o) /\ ~Uncleared(o)')
    /\ s = "ReadyToFree" => obj[o].count = 0 /\ ~HasBackRef(o)' /\ reader # o

(* A visit that touches no more than the tag. *)
LEMMA VisitTag ==
    ASSUME TypeOK, ObjInv, NEW o \in Slots,
           Recount, \A p \in Slots \ {o} : obj'[p] = obj[p],
           obj'[o].count = obj[o].count, obj'[o].handles = obj[o].handles
    PROVE  /\ obj' \in [Slots -> Inner] /\ ObjInv'
           /\ \A x \in Slots : /\ obj'[x].used = obj[x].used /\ obj'[x].count = obj[x].count
                               /\ obj'[x].handles = obj[x].handles /\ obj'[x].weak = obj[x].weak
                               /\ Refs(x)' = Refs(x) /\ obj'[x].back \in {obj[x].back, Null}
           /\ \A x \in Slots : HasBackRef(x)' = HasBackRef(x)
           /\ \A x \in Slots \ {o} : obj'[x].tag = obj[x].tag
<1>1. SameLinks /\ obj' \in [Slots -> Inner]
  BY DEF Recount
<1>2. \A x \in Slots : Refs(x)' = Refs(x) /\ HasBackRef(x)' = HasBackRef(x)
  BY <1>1, SameLinksKeep
<1>3. ObjInv'
  BY RecountObjInv
<1>4. \A x \in Slots : obj'[x].count = obj[x].count /\ obj'[x].handles = obj[x].handles
  OBVIOUS
<1>5. QED
  BY <1>1, <1>2, <1>3, <1>4 DEF SameLinks

LEMMA VisitDefaultVisit ==
    ASSUME TypeOK, ObjInv, KnownOnce, NEW o \in Slots, VisitDefault(o)
    PROVE  \E s : VisitEffect(o, s)
<1>1. pc = "visit" /\ o \in todo /\ state[o] = "Default" /\ obj[o].used
  BY DEF VisitDefault, Visiting, KnownOnce, Tracked, Used
<1>2. CASE obj[o].count = 0
  <2>1. obj' = [obj EXCEPT ![o].tag = FALSE] /\ Visited(o, "RequiresReChecking")
    BY <1>2 DEF VisitDefault
  <2>2. dying' = dying
    BY <2>1 DEF Visited
  <2>3. TagEffect(o, FALSE)
    BY <1>1, <2>1, <2>2, Tags
  <2>4. /\ Recount /\ obj'[o].tag = FALSE /\ obj'[o].count = obj[o].count
        /\ obj'[o].handles = obj[o].handles /\ \A p \in Slots \ {o} : obj'[p] = obj[p]
    BY <2>3 DEF TagEffect
  <2>5. VisitEffect(o, "RequiresReChecking")
    BY <1>1, <1>2, <2>1, <2>4, VisitTag DEF VisitEffect
  <2>6. QED
    BY <2>5
<1>3. CASE obj[o].count # 0
  <2>1. obj' = obj /\ Visited(o, "Default")
    BY <1>3 DEF VisitDefault
  <2>2. dying' = dying
    BY <2>1 DEF Visited
  <2>3. Recount
    BY <2>1, <2>2, Idle
  <2>4. VisitEffect(o, "Default")
    BY <1>1, <1>3, <2>1, <2>3, VisitTag DEF VisitEffect
  <2>5. QED
    BY <2>4
<1>4. QED
  BY <1>2, <1>3

(* A false zero is read only of an object that is no garbage. *)
LEMMA FalseZeroVisit ==
    ASSUME TypeOK, ObjInv, KnownOnce, PhaseInv, DoomedInv, NEW o \in Slots, NEW t \in BOOLEAN,
           FalseZero(o, t)
    PROVE  \E s : VisitEffect(o, s)
<1>1. pc = "visit" /\ o \in todo /\ state[o] = "Default" /\ obj[o].used
  BY DEF FalseZero, Visiting, KnownOnce, Tracked, Used
<1>2. obj' = [obj EXCEPT ![o].tag = t] /\ Visited(o, "RequiresReChecking")
  BY DEF FalseZero
<1>3. dying' = dying
  BY <1>2 DEF Visited
<1>4. TagEffect(o, t)
  BY <1>1, <1>2, <1>3, Tags
<1>5. /\ Recount /\ obj'[o].count = obj[o].count
      /\ obj'[o].handles = obj[o].handles /\ \A p \in Slots \ {o} : obj'[p] = obj[p]
  BY <1>4 DEF TagEffect
<1>6. o \notin doomed
  <2>1. InReach \subseteq Reachable
    BY <1>1, InReachReachable DEF PhaseInv
  <2>2. Region(Reachable)
    BY ReachRegion
  <2>3. o \in Reachable
    BY <2>1, <2>2, IterationAssumption DEF FalseZero, Region
  <2>4. QED
    BY <1>1, <2>3 DEF DoomedInv
<1>7. VisitEffect(o, "RequiresReChecking")
  BY <1>1, <1>2, <1>5, <1>6, VisitTag DEF VisitEffect
<1>8. QED
  BY <1>7

(* Garbage never fails its re-check. *)
LEMMA RecheckFailsVisit ==
    ASSUME TypeOK, ObjInv, DoomedInv, NEW o \in Slots, RecheckFails(o)
    PROVE  \E s : VisitEffect(o, s)
<1>1. pc = "visit" /\ o \in todo /\ state[o] = "RequiresReChecking"
  BY DEF RecheckFails, Visiting
<1>2. obj' = obj /\ Visited(o, "Default")
  BY DEF RecheckFails, AfterTag
<1>3. dying' = dying
  BY <1>2 DEF Visited
<1>4. Recount
  BY <1>2, <1>3, Idle
<1>5. o \notin doomed
  BY <1>1 DEF DoomedInv, RecheckFails
<1>6. VisitEffect(o, "Default")
  BY <1>1, <1>2, <1>4, <1>5, VisitTag DEF VisitEffect
<1>7. QED
  BY <1>6

(* No reader is left that loaded the back reference before it was cleared. *)
LEMMA RecheckConfirmsVisit ==
    ASSUME TypeOK, ObjInv, ReaderInv, NEW o \in Slots, RecheckConfirms(o)
    PROVE  \E s : VisitEffect(o, s)
<1>1. pc = "visit" /\ o \in todo /\ state[o] = "RequiresReChecking"
  BY DEF RecheckConfirms, Visiting
<1>2. obj' = obj /\ Visited(o, "ReadyToFree") /\ obj[o].count = 0 /\ ~HasBackRef(o)
  BY DEF RecheckConfirms
<1>3. dying' = dying
  BY <1>2 DEF Visited
<1>4. Recount
  BY <1>2, <1>3, Idle
<1>5. reader # o
  BY <1>1, <1>2, IterationAssumption DEF ReaderInv
<1>6. HasBackRef(o)' = HasBackRef(o)
  BY <1>2 DEF HasBackRef
<1>7. VisitEffect(o, "ReadyToFree")
  BY <1>1, <1>2, <1>4, <1>5, <1>6, VisitTag DEF VisitEffect
<1>8. QED
  BY <1>7

(* Clearing a back reference touches that of one object only. *)
LEMMA RecheckClearsVisit ==
    ASSUME TypeOK, ObjInv, NEW o \in Slots, RecheckClears(o)
    PROVE  \E s : VisitEffect(o, s)
<1>0. ClearEffect(o) /\ ObjInv'
  BY ClearObj, ClearObjInv
<1>1. pc = "visit" /\ o \in todo /\ state[o] = "RequiresReChecking"
  BY DEF RecheckClears, Visiting
<1>2. Visited(o, "RequiresReChecking") /\ obj[o].count = 0 /\ ~obj[o].tag /\ HasBackRef(o)
  BY DEF RecheckClears, AfterClearing
<1>3. ASSUME NEW x \in Slots
      PROVE  /\ obj'[x].used = obj[x].used /\ obj'[x].count = obj[x].count
             /\ obj'[x].handles = obj[x].handles /\ obj'[x].weak = obj[x].weak
             /\ Refs(x)' = Refs(x) /\ obj'[x].back \in {obj[x].back, Null}
             /\ obj'[x].tag = obj[x].tag
  BY <1>0 DEF ClearEffect, Refs
<1>4. ASSUME NEW x \in Slots \ {o}
      PROVE  HasBackRef(x)' = HasBackRef(x)
  <2>1. CASE obj[x].weak = Null
    BY <1>3, <2>1 DEF HasBackRef
  <2>2. CASE obj[x].weak # Null
    <3>1. obj[x].weak \in Slots /\ obj[obj[x].weak].back \in {x, Null}
      BY <2>2 DEF TypeOK, Inner, ObjInv, WeakInv
    <3>2. obj[o].weak # Null /\ obj[obj[o].weak].back = o
      BY <1>2 DEF HasBackRef, ObjInv, WeakInv
    <3>3. obj[x].weak # obj[o].weak
      BY <1>4, <3>1, <3>2, IterationAssumption
    <3>4. obj'[obj[x].weak].back = obj[obj[x].weak].back /\ obj'[x].weak = obj[x].weak
      BY <1>0, <3>1, <3>3 DEF ClearEffect
    <3>5. QED
      BY <3>4 DEF HasBackRef
  <2>3. QED
    BY <2>1, <2>2
<1>5. ~HasBackRef(o)'
  BY <1>0 DEF ClearEffect, HasBackRef
<1>6. Uncleared(o) /\ ~Uncleared(o)'
  BY <1>2, <1>5 DEF Uncleared
<1>7. obj'[o].tag = FALSE
  <2>1. obj[o].tag = FALSE
    BY <1>2 DEF TypeOK, Inner
  <2>2. QED
    BY <1>3, <2>1
<1>8. obj' \in [Slots -> Inner]
  BY <1>0 DEF ClearEffect
<1>9. VisitEffect(o, "RequiresReChecking")
  BY <1>0, <1>1, <1>2, <1>3, <1>4, <1>6, <1>7, <1>8 DEF VisitEffect
<1>10. QED
  BY <1>9

(* A visit keeps the invariant. *)
LEMMA VisitKeeps ==
    ASSUME IInv, NEW o \in Slots, NEW s, VisitEffect(o, s)
    PROVE  IInv'
<1>1. /\ pending' = pending /\ reader' = reader /\ pc = "visit" /\ pc' = "visit" /\ local' = local
      /\ dying' = dying /\ rounds' = rounds /\ doomed' = doomed /\ freed' = freed
      /\ todo' = todo \ {o} /\ recheck \subseteq recheck' /\ recheck' \subseteq recheck \cup {o}
      /\ o \in todo /\ local = {}
  BY DEF VisitEffect, Visited, IInv, PhaseInv
<1>2. /\ state'[o] = s /\ state[o] # "untracked" /\ s # "untracked"
      /\ \A x \in Slots \ {o} : state'[x] = state[x]
      /\ state' \in [Slots -> {"untracked", "Default", "RequiresReChecking", "ReadyToFree"}]
  BY DEF VisitEffect, Visited, IInv, TypeOK
<1>3. /\ \A x \in Slots : /\ obj'[x].used = obj[x].used /\ obj'[x].count = obj[x].count
                          /\ obj'[x].handles = obj[x].handles /\ obj'[x].weak = obj[x].weak
                          /\ Refs(x)' = Refs(x) /\ obj'[x].back \in {obj[x].back, Null}
      /\ \A x \in Slots \ {o} : obj'[x].tag = obj[x].tag /\ HasBackRef(x)' = HasBackRef(x)
      /\ ObjInv' /\ obj' \in [Slots -> Inner]
  BY DEF VisitEffect
<1>4. /\ o \in recheck' <=> s = "RequiresReChecking"
      /\ o \notin recheck /\ o \notin todo'
  BY <1>1 DEF VisitEffect, Visited, IInv, PhaseInv
<1>5. TypeOK'
  BY <1>1, <1>2, <1>3 DEF IInv, TypeOK
<1>6. KnownOnce'
  <2>1. Tracked' = Tracked /\ Used' = Used
    BY <1>2, <1>3 DEF Tracked, Used
  <2>2. QED
    BY <1>1, <2>1 DEF IInv, KnownOnce
<1>7. PhaseInv'
  BY <1>1, <1>4 DEF IInv, PhaseInv
<1>8. ReadyInv'
  <2> SUFFICES ASSUME NEW x \in Slots, state'[x] = "ReadyToFree"
               PROVE  obj'[x].count = 0 /\ ~HasBackRef(x)' /\ reader # x
    BY <1>1 DEF ReadyInv
  <2>1. CASE x = o
    BY <1>2, <1>3, <2>1 DEF VisitEffect
  <2>2. CASE x # o
    BY <1>2, <1>3, <2>2 DEF IInv, ReadyInv
  <2>3. QED
    BY <2>1, <2>2
<1>9. ReaderInv'
  <2> SUFFICES ASSUME reader # Null
               PROVE  /\ obj'[reader].used /\ obj'[reader].weak # Null
                      /\ HasBackRef(reader)' \/ reader \notin todo'
    BY <1>1 DEF ReaderInv
  <2>1. PICK r : r = reader
    OBVIOUS
  <2>2. /\ r \in Slots /\ obj[r].used /\ obj[r].weak # Null
        /\ HasBackRef(r) \/ r \notin todo
    BY <1>1, <2>1 DEF IInv, TypeOK, ReaderInv
  <2>3. HasBackRef(r)' \/ r \notin todo'
    BY <1>1, <1>3, <2>2
  <2>4. HasBackRef(reader)' = HasBackRef(r)'
    BY <1>1, <2>1 DEF HasBackRef
  <2>5. QED
    BY <1>3, <2>1, <2>2, <2>3, <2>4
<1>10. ListedInv'
  <2> SUFFICES ASSUME NEW x \in Slots, state'[x] = "RequiresReChecking"
               PROVE  x \in todo' \cup recheck'
    BY <1>1 DEF ListedInv
  <2>1. CASE x = o
    BY <1>2, <1>4, <2>1
  <2>2. CASE x # o
    <3>1. x \in todo \cup recheck
      BY <1>1, <1>2, <2>2 DEF IInv, ListedInv
    <3>2. QED
      BY <1>1, <2>2, <3>1
  <2>3. QED
    BY <2>1, <2>2
<1>11. LagInv'
  <2>1. Lag' = Lag /\ Lag \in Int
    BY <1>1 DEF Lag, IInv, TypeOK
  <2>2. \A x \in Slots \ {o} : Uncleared(x)' = Uncleared(x)
    BY <1>3 DEF Uncleared
  <2>3. LagInv /\ todo \subseteq Slots /\ recheck \subseteq Slots
    BY DEF IInv, TypeOK
  <2>4. Lag' <= 1 /\ (pc' = "drop" \/ local' # {} => Lag' <= -2)
    BY <1>1, <2>1, <2>3 DEF LagInv
  <2>5. \A x \in todo' : /\ state'[x] = "Default" => Lag' <= -1
                         /\ Uncleared(x)' /\ state'[x] # "untracked" => Lag' <= 0
    <3> SUFFICES ASSUME NEW x \in todo \ {o}
                 PROVE  /\ state'[x] = "Default" => Lag <= -1
                        /\ Uncleared(x)' /\ state'[x] # "untracked" => Lag <= 0
      BY <1>1, <2>1
    <3>1. state'[x] = state[x] /\ Uncleared(x)' = Uncleared(x)
      BY <1>2, <2>2, <2>3
    <3>2. QED
      BY <1>1, <2>3, <3>1 DEF LagInv
  <2>6. \A x \in recheck' : /\ state'[x] = "RequiresReChecking"
                            /\ Lag' <= 0 /\ (Uncleared(x)' => Lag' <= -1)
    <3> SUFFICES ASSUME NEW x \in recheck'
                 PROVE  /\ state'[x] = "RequiresReChecking"
                        /\ Lag <= 0 /\ (Uncleared(x)' => Lag <= -1)
      BY <2>1
    <3>1. CASE x = o
      <4>1. s = "RequiresReChecking" /\ state'[x] = s
        BY <1>2, <1>4, <3>1
      <4>2. CASE state[o] = "Default"
        <5>1. Lag <= -1
          BY <1>1, <2>3, <4>2 DEF LagInv
        <5>2. QED
          BY <2>1, <4>1, <5>1
      <4>3. CASE Uncleared(o) /\ ~Uncleared(o)'
        <5>1. Lag <= 0
          BY <1>1, <1>2, <2>3, <4>3 DEF LagInv
        <5>2. QED
          BY <3>1, <4>1, <4>3, <5>1
      <4>4. QED
        BY <4>1, <4>2, <4>3 DEF VisitEffect
    <3>2. CASE x # o
      <4>1. x \in recheck
        BY <1>1, <3>2
      <4>2. state'[x] = state[x] /\ Uncleared(x)' = Uncleared(x)
        BY <1>2, <2>2, <2>3, <3>2, <4>1
      <4>3. QED
        BY <2>3, <4>1, <4>2 DEF LagInv
    <3>3. QED
      BY <3>1, <3>2
  <2>7. QED
    BY <1>1, <2>4, <2>5, <2>6 DEF LagInv
<1>12. DoomedInv'
  <2>1. /\ doomed \subseteq Tracked
        /\ \A x \in doomed :
             /\ state[x] = "RequiresReChecking" => obj[x].count = 0 /\ ~obj[x].tag
             /\ obj[x].count = 0 => \/ state[x] = "ReadyToFree"
                                    \/ x \in todo \cup recheck \cup local
    BY <1>1 DEF IInv, DoomedInv
  <2>2. doomed' \subseteq Tracked'
    BY <1>1, <1>2, <2>1 DEF Tracked
  <2>3. /\ doomed' \cap Reachable' = {}
        /\ \A x \in doomed' : Owners(x)' \subseteq doomed'
        /\ \A D \in SUBSET doomed' : D # {} => \E x \in D : Owners(x)' \cap D = {}
    <3>1. Held' \subseteq Held
      BY <1>3 DEF Held
    <3>2. TypeOK /\ DoomedInv /\ pc # "wait"
      BY <1>1 DEF IInv
    <3>3. QED
      BY <1>1, <1>3, <3>1, <3>2, ShapeKeeps
  <2>4. ASSUME NEW x \in doomed
        PROVE  /\ state'[x] = "RequiresReChecking" => obj'[x].count = 0 /\ ~obj'[x].tag
               /\ obj'[x].count = 0 => \/ state'[x] = "ReadyToFree"
                                       \/ x \in todo' \cup recheck' \cup local'
    <3>1. x \in Slots
      BY DEF IInv, TypeOK
    <3>2. CASE x = o
      <4>1. CASE s = "Default"
        BY <1>2, <1>3, <3>2, <4>1, <2>4 DEF VisitEffect
      <4>2. CASE s = "RequiresReChecking"
        <5>1. obj'[o].tag = FALSE /\ obj'[o].count = 0
          BY <1>3, <2>4, <3>2, <4>2 DEF VisitEffect
        <5>2. QED
          BY <1>4, <3>2, <4>2, <5>1
      <4>3. CASE s = "ReadyToFree"
        BY <1>2, <3>2, <4>3
      <4>4. QED
        BY <4>1, <4>2, <4>3 DEF VisitEffect
    <3>3. CASE x # o
      <4>1. state'[x] = state[x] /\ obj'[x].count = obj[x].count /\ obj'[x].tag = obj[x].tag
        BY <1>2, <1>3, <3>1, <3>3
      <4>2. x \in todo \cup recheck \cup local => x \in todo' \cup recheck' \cup local'
        BY <1>1, <3>3
      <4>3. QED
        BY <2>1, <4>1, <4>2
    <3>4. QED
      BY <3>2, <3>3
  <2>5. QED
    BY <1>1, <2>2, <2>3, <2>4 DEF DoomedInv
<1>13. Collected'
  BY <1>1 DEF Collected
<1>14. QED
  BY <1>3, <1>5, <1>6, <1>7, <1>8, <1>9, <1>10, <1>11, <1>12, <1>13 DEF IInv

LEMMA VisitSteps ==
    ASSUME IInv, NEW o \in Slots,
           \/ VisitDefault(o) \/ FalseZero(o, TRUE) \/ FalseZero(o, FALSE)
           \/ RecheckFails(o) \/ RecheckClears(o) \/ RecheckConfirms(o)
    PROVE  IInv'
<1>1. TypeOK /\ ObjInv /\ KnownOnce /\ PhaseInv /\ DoomedInv /\ ReaderInv
  BY DEF IInv
<1>2. \E s : VisitEffect(o, s)
  BY <1>1, VisitDefaultVisit, FalseZeroVisit, RecheckFailsVisit, RecheckClearsVisit,
     RecheckConfirmsVisit
<1>3. QED
  BY <1>2, VisitKeeps

-----------------------------------------------------------------------------
(* The drop of the content of a freed object. *)
-----------------------------------------------------------------------------
(* The Sdarcs in the data of a freed object are dropped: they were         *)
(* referred to, and are listed for the next pass.                          *)
LEMMA DropContentKeeps ==
    ASSUME IInv, DropContent
    PROVE  IInv'
<1>0. ContentEffect /\ TypeOK /\ ObjInv
  BY Contents DEF IInv
<1>1. /\ pending' = pending /\ reader' = reader /\ state' = state /\ todo' = todo
      /\ recheck' = recheck /\ rounds' = rounds /\ doomed' = doomed /\ freed' = freed
      /\ pc = "drop" /\ pc' = "free" /\ local' = local \cup dying.refs /\ dying' = NoContent
      /\ todo = {} /\ Lag <= -2
  BY DEF DropContent, IInv, PhaseInv, LagInv
<1>2. SameLinks /\ obj' \in [Slots -> Inner] /\ ObjInv'
  BY <1>0, RecountObjInv DEF ContentEffect, Recount
<1>3. /\ Used' = Used
      /\ \A x \in Slots : Refs(x)' = Refs(x) /\ HasBackRef(x)' = HasBackRef(x)
  BY <1>0, <1>2, SameLinksKeep
<1>4. \A x \in Slots : /\ obj'[x].weak = obj[x].weak /\ obj'[x].back = obj[x].back
                       /\ obj'[x].handles = obj[x].handles /\ obj'[x].used = obj[x].used
                       /\ obj'[x] = obj[x] \/ (obj[x].count > 0 /\ x \in local')
  BY <1>0, <1>1, <1>2 DEF SameLinks, ContentEffect
<1>5. TypeOK'
  <2>1. NoContent \in [refs : SUBSET Slots, loud : BOOLEAN]
    BY DEF NoContent
  <2>2. dying.refs \subseteq Slots
    BY <1>0 DEF TypeOK
  <2>3. QED
    BY <1>0, <1>1, <1>2, <2>1, <2>2 DEF TypeOK
<1>6. KnownOnce'
  <2>1. Tracked' = Tracked
    BY <1>1 DEF Tracked
  <2>2. QED
    BY <1>1, <1>3, <2>1 DEF IInv, KnownOnce
<1>7. PhaseInv' /\ ListedInv' /\ Collected'
  <2>1. PhaseInv'
    BY <1>1 DEF IInv, PhaseInv
  <2>2. ListedInv' /\ Collected'
    BY <1>1 DEF IInv, ListedInv, Collected
  <2>3. QED
    BY <2>1, <2>2
<1>8. ReadyInv'
  <2> SUFFICES ASSUME NEW o \in Slots, state[o] = "ReadyToFree"
               PROVE  obj'[o].count = 0 /\ ~HasBackRef(o)' /\ reader # o
    BY <1>1 DEF ReadyInv
  <2>1. obj[o].count = 0 /\ ~HasBackRef(o) /\ reader # o
    BY DEF IInv, ReadyInv
  <2>2. QED
    BY <1>3, <1>4, <2>1
<1>9. ReaderInv'
  <2> SUFFICES ASSUME reader # Null
               PROVE  obj'[reader].used /\ obj'[reader].weak # Null
    BY <1>1 DEF ReaderInv
  <2>1. reader \in Slots /\ obj[reader].used /\ obj[reader].weak # Null
    BY DEF IInv, TypeOK, ReaderInv
  <2>2. QED
    BY <1>4, <2>1
<1>10. LagInv'
  <2>1. Lag' = Lag /\ Lag \in Int
    BY <1>1 DEF Lag, IInv, TypeOK
  <2>2. \A o \in recheck : state[o] = "RequiresReChecking"
    BY DEF IInv, LagInv
  <2>3. QED
    BY <1>1, <2>1, <2>2 DEF LagInv
<1>11. DoomedInv'
  <2>1. /\ doomed \subseteq Tracked /\ doomed \subseteq Slots
        /\ \A x \in doomed :
             /\ state[x] = "RequiresReChecking" => obj[x].count = 0 /\ ~obj[x].tag
             /\ obj[x].count = 0 => \/ state[x] = "ReadyToFree"
                                    \/ x \in todo \cup recheck \cup local
    BY <1>1 DEF IInv, DoomedInv, TypeOK
  <2>2. doomed' \subseteq Tracked'
    BY <1>1, <2>1 DEF Tracked
  <2>3. /\ doomed' \cap Reachable' = {}
        /\ \A x \in doomed' : Owners(x)' \subseteq doomed'
        /\ \A D \in SUBSET doomed' : D # {} => \E x \in D : Owners(x)' \cap D = {}
    <3>1. Held' \subseteq Held
      BY <1>4 DEF Held
    <3>2. TypeOK /\ DoomedInv /\ pc # "wait"
      BY <1>1 DEF IInv
    <3>3. QED
      BY <1>1, <1>2, <1>3, <1>4, <3>1, <3>2, ShapeKeeps
  <2>4. ASSUME NEW x \in doomed
        PROVE  /\ state[x] = "RequiresReChecking" => obj'[x].count = 0 /\ ~obj'[x].tag
               /\ obj'[x].count = 0 => \/ state[x] = "ReadyToFree"
                                       \/ x \in todo \cup recheck \cup local'
    <3>1. CASE obj'[x] = obj[x]
      BY <1>1, <2>1, <3>1
    <3>2. CASE obj[x].count > 0 /\ x \in local'
      <4>1. state[x] # "RequiresReChecking"
        BY <2>1, <3>2
      <4>2. QED
        BY <3>2, <4>1
    <3>3. QED
      BY <1>4, <2>1, <3>1, <3>2
  <2>5. QED
    BY <1>1, <2>2, <2>3, <2>4 DEF DoomedInv
<1>12. QED
  BY <1>2, <1>5, <1>6, <1>7, <1>8, <1>9, <1>10, <1>11 DEF IInv

(* Freeing an object keeps the invariant, and makes room for three more    *)
(* passes.                                                                 *)
LEMMA FreeSlotKeeps ==
    ASSUME IInv, NEW o \in Slots, FreeSlot(o)
    PROVE  IInv'
<1>0. FreeEffect(o) /\ ObjInv'
  BY FreeObj, FreeObjInv DEF IInv
<1>1. /\ pc = "free" /\ state[o] = "ReadyToFree" /\ pc' = "drop"
      /\ pending' = pending /\ reader' = reader /\ todo' = todo /\ recheck' = recheck
      /\ rounds' = rounds /\ doomed' = doomed \ {o} /\ freed' = freed + 1
      /\ local' = local \cup ({obj[o].weak} \ {Null}) /\ todo = {}
  BY DEF FreeSlot, IInv, PhaseInv
<1>2. /\ state'[o] = "untracked" /\ \A x \in Slots \ {o} : state'[x] = state[x]
      /\ state' \in [Slots -> {"untracked", "Default", "RequiresReChecking", "ReadyToFree"}]
  BY DEF FreeSlot, Removed, IInv, TypeOK
<1>3. TypeOK'
  <2>1. obj[o].weak \in Slots \cup {Null} /\ obj[o].children \subseteq Slots
        /\ obj[o].isWeak \in BOOLEAN
    BY DEF IInv, TypeOK, Inner
  <2>2. dying' \in [refs : SUBSET Slots, loud : BOOLEAN]
    BY <2>1 DEF FreeSlot
  <2>3. local' \subseteq Slots /\ freed' \in Nat /\ doomed' \subseteq Slots
    BY <1>1, <2>1 DEF IInv, TypeOK
  <2>4. obj' \in [Slots -> Inner]
    BY <1>0 DEF FreeEffect
  <2>5. QED
    BY <1>1, <1>2, <2>2, <2>3, <2>4 DEF IInv, TypeOK
<1>4. Used' = Used \ {o} /\ o \in Used /\ Tracked' = Tracked \ {o} /\ o \in Tracked
  <2>1. Tracked' = Tracked \ {o} /\ o \in Tracked
    BY <1>1, <1>2 DEF Tracked
  <2>2. ~obj'[o].used
    BY <1>0 DEF FreeEffect, Unused
  <2>3. Used' = Used \ {o}
    BY <1>0, <2>2 DEF FreeEffect, Used
  <2>4. QED
    BY <2>1, <2>3 DEF IInv, KnownOnce
<1>5. KnownOnce'
  BY <1>1, <1>4 DEF IInv, KnownOnce
<1>6. PhaseInv' /\ Collected'
  BY <1>1, <1>2 DEF IInv, PhaseInv, Collected
<1>7. ListedInv'
  <2> SUFFICES ASSUME NEW x \in Slots, state'[x] = "RequiresReChecking"
               PROVE  x \in recheck
    BY <1>1 DEF ListedInv
  <2>1. x # o
    BY <1>2
  <2>2. QED
    BY <1>1, <1>2, <2>1 DEF IInv, ListedInv
<1>8. ASSUME NEW x \in Slots \ {o}
      PROVE  /\ obj'[x].used = obj[x].used /\ obj'[x].weak = obj[x].weak /\ HasBackRef(x)' = HasBackRef(x)
             /\ Refs(x)' = Refs(x) /\ obj'[x].back = obj[x].back
             /\ \/ obj'[x].count = obj[x].count /\ obj'[x].tag = obj[x].tag
                \/ obj[x].count > 0 /\ obj'[x].tag = TRUE /\ x \in local'
  <2>1. /\ obj'[x].used = obj[x].used /\ obj'[x].weak = obj[x].weak /\ obj'[x].back = obj[x].back
        /\ obj'[x].children = obj[x].children
    BY <1>0, <1>8 DEF FreeEffect
  <2>2. HasBackRef(x)' = HasBackRef(x)
    <3>1. CASE obj[x].weak = Null
      BY <2>1, <3>1 DEF HasBackRef
    <3>2. CASE obj[x].weak # Null
      <4>1. obj[x].weak \in Slots /\ x \in Owners(obj[x].weak)
        BY <3>2 DEF IInv, TypeOK, Inner, Owners, Refs
      <4>2. obj[x].weak # o
        BY <1>0, <4>1 DEF FreeEffect
      <4>3. obj'[obj[x].weak].back = obj[obj[x].weak].back
        BY <1>0, <4>1, <4>2 DEF FreeEffect
      <4>4. QED
        BY <2>1, <4>3 DEF HasBackRef
    <3>3. QED
      BY <3>1, <3>2
  <2>3. CASE x # obj[o].weak
    BY <1>0, <1>8, <2>1, <2>2, <2>3 DEF FreeEffect, Refs
  <2>4. CASE x = obj[o].weak
    <3>1. obj[x].count > 0 /\ x \in local'
      BY <1>0, <1>1, <1>8, <2>4, IterationAssumption DEF FreeEffect
    <3>2. obj[x] \in Inner /\ obj'[x] = [obj[x] EXCEPT !.count = @ - 1, !.tag = TRUE]
      <4>1. obj[x] \in Inner /\ obj \in [Slots -> Inner]
        BY DEF IInv, TypeOK
      <4>2. obj' = Dec([obj EXCEPT ![o] = Unused], {obj[o].weak})
        BY DEF FreeSlot
      <4>3. PICK f : f = [obj EXCEPT ![o] = Unused]
        OBVIOUS
      <4>4. obj'[x] = [f[x] EXCEPT !.count = @ - 1, !.tag = TRUE]
        BY <2>4, <4>2, <4>3 DEF Dec
      <4>5. f[x] = obj[x]
        BY <1>8, <4>1, <4>3
      <4>6. QED
        BY <4>1, <4>4, <4>5
    <3>3. obj'[x].tag = TRUE
      BY <3>1, <3>2, DecUpdate
    <3>4. QED
      BY <2>1, <2>2, <3>1, <3>3 DEF Refs
  <2>5. QED
    BY <2>3, <2>4
<1>9. ReadyInv'
  <2> SUFFICES ASSUME NEW x \in Slots, state'[x] = "ReadyToFree"
               PROVE  obj'[x].count = 0 /\ ~HasBackRef(x)' /\ reader # x
    BY <1>1 DEF ReadyInv
  <2>1. x # o /\ state[x] = "ReadyToFree"
    BY <1>2
  <2>2. obj[x].count = 0 /\ ~HasBackRef(x) /\ reader # x
    BY <2>1 DEF IInv, ReadyInv
  <2>3. HasBackRef(x)' = HasBackRef(x)
    BY <1>8, <2>1
  <2>4. obj'[x].count = obj[x].count \/ obj[x].count > 0
    BY <1>8, <2>1
  <2>5. QED
    BY <2>2, <2>3, <2>4
<1>10. ReaderInv'
  <2> SUFFICES ASSUME reader # Null
               PROVE  obj'[reader].used /\ obj'[reader].weak # Null
    BY <1>1 DEF ReaderInv
  <2>1. reader \in Slots \ {o} /\ obj[reader].used /\ obj[reader].weak # Null
    BY <1>0 DEF IInv, TypeOK, ReaderInv, FreeEffect
  <2>2. QED
    BY <1>8, <2>1
<1>11. LagInv'
  <2>1. Lag' <= -2 /\ Lag' \in Int
    <3>1. Lag <= 1 /\ rounds \in Int /\ freed \in Int
      BY <1>1 DEF IInv, LagInv, TypeOK
    <3>2. QED
      BY <1>1, <3>1 DEF Lag
  <2>2. \A x \in recheck : state'[x] = "RequiresReChecking"
    <3> SUFFICES ASSUME NEW x \in recheck PROVE state'[x] = "RequiresReChecking"
      OBVIOUS
    <3>1. x \in Slots /\ state[x] = "RequiresReChecking"
      BY DEF IInv, TypeOK, LagInv
    <3>2. QED
      BY <1>1, <1>2, <3>1
  <2>3. QED
    BY <1>1, <2>1, <2>2 DEF LagInv
<1>12. DoomedInv'
  <2>1. /\ doomed \subseteq Tracked /\ doomed \subseteq Slots
        /\ \A x \in doomed :
             /\ state[x] = "RequiresReChecking" => obj[x].count = 0 /\ ~obj[x].tag
             /\ obj[x].count = 0 => \/ state[x] = "ReadyToFree"
                                    \/ x \in todo \cup recheck \cup local
    BY <1>1 DEF IInv, DoomedInv, TypeOK
  <2>2. doomed' \subseteq Tracked'
    BY <1>1, <1>4, <2>1
  <2>3. Refs(o)' = {} /\ obj'[o].back = Null /\ obj'[o].handles = 0
    BY <1>0 DEF FreeEffect, Refs, Unused
  <2>4. /\ doomed' \cap Reachable' = {}
        /\ \A x \in doomed' : Owners(x)' \subseteq doomed'
        /\ \A D \in SUBSET doomed' : D # {} => \E x \in D : Owners(x)' \cap D = {}
    <3>1. Held' \subseteq Held
      BY <1>0, <2>3 DEF FreeEffect, Held
    <3>2. TypeOK /\ DoomedInv /\ pc # "wait" /\ obj' \in [Slots -> Inner]
      BY <1>0, <1>1 DEF IInv, FreeEffect
    <3>3. \A x \in Slots : Refs(x)' \subseteq Refs(x) /\ obj'[x].back \in {obj[x].back, Null}
      BY <1>8, <2>3
    <3>4. doomed' \subseteq doomed /\ \A p \in doomed \ doomed' : Refs(p)' = {}
      BY <1>1, <2>3
    <3>5. QED
      BY <1>1, <3>1, <3>2, <3>3, <3>4, ShapeKeeps
  <2>5. ASSUME NEW x \in doomed'
        PROVE  /\ state'[x] = "RequiresReChecking" => obj'[x].count = 0 /\ ~obj'[x].tag
               /\ obj'[x].count = 0 => \/ state'[x] = "ReadyToFree"
                                       \/ x \in todo' \cup recheck' \cup local'
    <3>1. x \in doomed /\ x \in Slots \ {o} /\ state'[x] = state[x]
      BY <1>1, <1>2, <2>1, <2>5
    <3>2. CASE obj'[x].count = obj[x].count /\ obj'[x].tag = obj[x].tag
      <4>1. x \in todo \cup recheck \cup local => x \in todo' \cup recheck' \cup local'
        BY <1>1
      <4>2. QED
        BY <2>1, <3>1, <3>2, <4>1
    <3>3. CASE obj[x].count > 0 /\ x \in local'
      <4>1. state[x] # "RequiresReChecking"
        BY <2>1, <3>1, <3>3
      <4>2. QED
        BY <3>1, <3>3, <4>1
    <3>4. QED
      BY <1>8, <3>1, <3>2, <3>3
  <2>6. QED
    BY <2>2, <2>4, <2>5 DEF DoomedInv
<1>13. QED
  BY <1>0, <1>3, <1>5, <1>6, <1>7, <1>9, <1>10, <1>11, <1>12 DEF IInv
-----------------------------------------------------------------------------
(* The steps between the phases. *)

LEMMA IdleKeeps ==
    ASSUME TypeOK, ObjInv, obj' = obj, dying' = dying
    PROVE  /\ ObjInv' /\ Used' = Used /\ Held' = Held
           /\ \A x \in Slots : Refs(x)' = Refs(x) /\ HasBackRef(x)' = HasBackRef(x)
<1>1. Recount
  BY Idle
<1>2. ObjInv'
  BY <1>1, RecountObjInv
<1>3. QED
  BY <1>2 DEF Used, Held, Refs, HasBackRef

LEMMA IdleShape ==
    ASSUME TypeOK, DoomedInv, pc # "wait", obj' = obj, reader' = reader, doomed' = doomed
    PROVE  /\ doomed' \cap Reachable' = {}
           /\ \A x \in doomed' : Owners(x)' \subseteq doomed'
           /\ \A D \in SUBSET doomed' : D # {} => \E x \in D : Owners(x)' \cap D = {}
<1>1. Held' \subseteq Held /\ obj' \in [Slots -> Inner]
  BY DEF Held, TypeOK
<1>2. \A x \in Slots : Refs(x)' \subseteq Refs(x) /\ obj'[x].back \in {obj[x].back, Null}
  BY DEF Refs
<1>3. QED
  BY <1>1, <1>2, ShapeKeeps

LEMMA VisitUntrackedKeeps ==
    ASSUME IInv, NEW o \in Slots, VisitUntracked(o)
    PROVE  IInv'
<1>1. /\ pc = "visit" /\ pc' = "visit" /\ o \in todo /\ state[o] = "untracked" /\ todo' = todo \ {o}
      /\ obj' = obj /\ pending' = pending /\ reader' = reader /\ state' = state
      /\ recheck' = recheck /\ local' = local /\ dying' = dying /\ rounds' = rounds
      /\ doomed' = doomed /\ freed' = freed
  BY DEF VisitUntracked, Visiting, objVars
<1>2. /\ ObjInv' /\ Used' = Used /\ Held' = Held /\ Tracked' = Tracked
      /\ \A x \in Slots : Refs(x)' = Refs(x) /\ HasBackRef(x)' = HasBackRef(x)
  BY <1>1, IdleKeeps DEF IInv, Tracked
<1>3. TypeOK' /\ KnownOnce' /\ PhaseInv' /\ Collected'
  BY <1>1, <1>2 DEF IInv, TypeOK, KnownOnce, PhaseInv, Collected
<1>4. ReadyInv'
  BY <1>1, <1>2 DEF IInv, ReadyInv
<1>5. ReaderInv'
  BY <1>1 DEF IInv, ReaderInv, HasBackRef
<1>6. ListedInv'
  BY <1>1 DEF IInv, ListedInv
<1>7. LagInv'
  <2>1. Lag' = Lag /\ \A x : Uncleared(x)' = Uncleared(x)
    BY <1>1 DEF Lag, Uncleared, HasBackRef
  <2>2. QED
    BY <1>1, <2>1 DEF IInv, LagInv
<1>8. DoomedInv'
  <2>1. o \notin doomed
    BY <1>1 DEF IInv, DoomedInv, Tracked
  <2>2. /\ doomed' \cap Reachable' = {}
        /\ \A x \in doomed' : Owners(x)' \subseteq doomed'
        /\ \A D \in SUBSET doomed' : D # {} => \E x \in D : Owners(x)' \cap D = {}
    BY <1>1, IdleShape DEF IInv
  <2>3. QED
    BY <1>1, <1>2, <2>1, <2>2 DEF IInv, DoomedInv
<1>9. QED
  BY <1>2, <1>3, <1>4, <1>5, <1>6, <1>7, <1>8 DEF IInv

LEMMA SpinKeeps ==
    ASSUME IInv, Spin
    PROVE  IInv'
<1>1. /\ pc = "spin" /\ pc' = "visit" /\ reader = Null /\ todo' = todo
      /\ obj' = obj /\ pending' = pending /\ reader' = reader /\ state' = state
      /\ recheck' = recheck /\ local' = local /\ dying' = dying /\ rounds' = rounds
      /\ doomed' = doomed /\ freed' = freed
  BY DEF Spin, objVars
<1>2. /\ ObjInv' /\ Used' = Used /\ Held' = Held /\ Tracked' = Tracked
      /\ \A x \in Slots : Refs(x)' = Refs(x) /\ HasBackRef(x)' = HasBackRef(x)
  BY <1>1, IdleKeeps DEF IInv, Tracked
<1>3. TypeOK' /\ KnownOnce' /\ PhaseInv' /\ Collected'
  BY <1>1, <1>2 DEF IInv, TypeOK, KnownOnce, PhaseInv, Collected
<1>4. ReadyInv' /\ ReaderInv'
  BY <1>1, <1>2 DEF IInv, ReadyInv, ReaderInv
<1>5. ListedInv'
  BY <1>1 DEF IInv, ListedInv
<1>6. LagInv'
  <2>1. Lag' = Lag /\ \A x : Uncleared(x)' = Uncleared(x)
    BY <1>1 DEF Lag, Uncleared, HasBackRef
  <2>2. QED
    BY <1>1, <2>1 DEF IInv, LagInv
<1>7. DoomedInv'
  <2>1. /\ doomed' \cap Reachable' = {}
        /\ \A x \in doomed' : Owners(x)' \subseteq doomed'
        /\ \A D \in SUBSET doomed' : D # {} => \E x \in D : Owners(x)' \cap D = {}
    BY <1>1, IdleShape DEF IInv
  <2>2. QED
    BY <1>1, <1>2, <2>1 DEF IInv, DoomedInv
<1>8. QED
  BY <1>2, <1>3, <1>4, <1>5, <1>6, <1>7 DEF IInv

LEMMA VisitsDoneKeeps ==
    ASSUME IInv, VisitsDone
    PROVE  IInv'
<1>1. /\ pc = "visit" /\ pc' = "free" /\ todo = {} /\ todo' = todo
      /\ obj' = obj /\ pending' = pending /\ reader' = reader /\ state' = state
      /\ recheck' = recheck /\ local' = local /\ dying' = dying /\ rounds' = rounds
      /\ doomed' = doomed /\ freed' = freed
  BY DEF VisitsDone, objVars
<1>2. /\ ObjInv' /\ Used' = Used /\ Held' = Held /\ Tracked' = Tracked
      /\ \A x \in Slots : Refs(x)' = Refs(x) /\ HasBackRef(x)' = HasBackRef(x)
  BY <1>1, IdleKeeps DEF IInv, Tracked
<1>3. TypeOK' /\ KnownOnce' /\ PhaseInv' /\ Collected'
  BY <1>1, <1>2 DEF IInv, TypeOK, KnownOnce, PhaseInv, Collected
<1>4. ReadyInv' /\ ReaderInv'
  BY <1>1, <1>2 DEF IInv, ReadyInv, ReaderInv
<1>5. ListedInv'
  BY <1>1 DEF IInv, ListedInv
<1>6. LagInv'
  <2>1. Lag' = Lag /\ \A x : Uncleared(x)' = Uncleared(x)
    BY <1>1 DEF Lag, Uncleared, HasBackRef
  <2>2. QED
    BY <1>1, <2>1 DEF IInv, LagInv
<1>7. DoomedInv'
  <2>1. /\ doomed' \cap Reachable' = {}
        /\ \A x \in doomed' : Owners(x)' \subseteq doomed'
        /\ \A D \in SUBSET doomed' : D # {} => \E x \in D : Owners(x)' \cap D = {}
    BY <1>1, IdleShape DEF IInv
  <2>2. QED
    BY <1>1, <1>2, <2>1 DEF IInv, DoomedInv
<1>8. QED
  BY <1>2, <1>3, <1>4, <1>5, <1>6, <1>7 DEF IInv

(* A set that keeps itself alive is leaked, and so is what it owns. *)
LEMMA LeakedFacts ==
    ASSUME NEW G
    PROVE  /\ \A C \in SUBSET G : (\A o \in C : \E p \in C : o \in Refs(p)) => C \subseteq Leaked(G)
           /\ \A p \in Leaked(G), o \in G : o \in Refs(p) => o \in Leaked(G)
<1>1. ASSUME NEW C \in SUBSET G, \A o \in C : \E p \in C : o \in Refs(p)
      PROVE  C \subseteq Leaked(G)
  BY <1>1 DEF Leaked
<1>2. ASSUME NEW p \in Leaked(G), NEW o \in G, o \in Refs(p)
      PROVE  o \in Leaked(G)
  <2>1. PICK C \in SUBSET G : p \in C /\ \A x \in C : \E q \in C : x \in Refs(q)
    BY DEF Leaked
  <2>2. C \cup {o} \in SUBSET G /\ \A x \in C \cup {o} : \E q \in C \cup {o} : x \in Refs(q)
    BY <1>2, <2>1
  <2>3. QED
    BY <1>1, <2>2
<1>3. QED
  BY <1>1, <1>2

(* What is garbage at the start of the iteration has no cycle: cycles and  *)
(* what they own are set apart.                                            *)
LEMMA TakeKeeps ==
    ASSUME IInv, Take
    PROVE  IInv'
<1>1. /\ pc = "wait" /\ pc' = "spin" /\ rounds' = -1 /\ freed' = 0 /\ pending' = {}
      /\ obj' = obj /\ reader' = reader /\ recheck' = recheck /\ local' = local /\ dying' = dying
      /\ todo' = Tracked \cup pending
      /\ doomed' = IF rounds < MaxRounds THEN Garbage \ Leaked(Garbage) ELSE {}
      /\ state' = [o \in Slots |-> IF o \in pending THEN "Default" ELSE state[o]]
  BY DEF Take
<1>2. /\ ObjInv' /\ Used' = Used /\ Held' = Held
      /\ \A x \in Slots : Refs(x)' = Refs(x) /\ HasBackRef(x)' = HasBackRef(x)
  BY <1>1, IdleKeeps DEF IInv
<1>3. Tracked' = Used /\ Tracked \cup pending = Used
  <2>1. Tracked \cup pending = Used /\ pending \subseteq Slots
    BY DEF IInv, KnownOnce, TypeOK
  <2>2. Tracked' = Tracked \cup pending
    BY <1>1, <2>1 DEF Tracked
  <2>3. QED
    BY <2>1, <2>2
<1>4. TypeOK'
  <2>1. Tracked \cup pending \subseteq Slots
    BY DEF IInv, TypeOK, Tracked
  <2>2. rounds' \in -1 .. MaxRounds
    BY <1>1, IterationAssumption
  <2>3. doomed' \subseteq Slots
    BY <1>1 DEF Garbage, Used
  <2>4. QED
    BY <1>1, <2>1, <2>2, <2>3 DEF IInv, TypeOK
<1>5. KnownOnce'
  BY <1>1, <1>2, <1>3 DEF KnownOnce
<1>6. \A o \in Slots : /\ state'[o] # "ReadyToFree"
                       /\ state'[o] = "RequiresReChecking" =>
                             state[o] = "RequiresReChecking" /\ ~(rounds < MaxRounds)
  <2> SUFFICES ASSUME NEW o \in Slots
               PROVE  /\ state'[o] # "ReadyToFree"
                      /\ state'[o] = "RequiresReChecking" =>
                            state[o] = "RequiresReChecking" /\ ~(rounds < MaxRounds)
    OBVIOUS
  <2>1. state[o] # "ReadyToFree"
    BY <1>1 DEF IInv, PhaseInv
  <2>2. state[o] = "RequiresReChecking" => rounds = MaxRounds
    BY <1>1 DEF IInv, ListedInv
  <2>3. state'[o] = "Default" \/ state'[o] = state[o]
    BY <1>1
  <2>4. QED
    BY <2>1, <2>2, <2>3, IterationAssumption
<1>7. recheck = {} /\ local = {}
  BY <1>1 DEF IInv, PhaseInv
<1>8. PhaseInv'
  <2>1. rounds' < MaxRounds /\ dying = NoContent
    BY <1>1, IterationAssumption DEF IInv, PhaseInv
  <2>2. QED
    BY <1>1, <1>6, <1>7, <2>1 DEF PhaseInv
<1>9. ReadyInv' /\ Collected'
  BY <1>1, <1>6 DEF ReadyInv, Collected
<1>10. ReaderInv'
  <2>1. HasBackRef(reader)' = HasBackRef(reader)
    BY <1>1 DEF HasBackRef
  <2>2. QED
    BY <1>1, <2>1 DEF IInv, ReaderInv
<1>11. ListedInv'
  <2> SUFFICES ASSUME NEW o \in Slots, state'[o] = "RequiresReChecking" PROVE o \in todo'
    BY <1>1 DEF ListedInv
  <2>1. QED
    BY <1>1, <1>6 DEF Tracked
<1>12. LagInv'
  <2>1. Lag' = -1
    BY <1>1 DEF Lag
  <2>2. QED
    BY <1>1, <1>7, <2>1 DEF LagInv
<1>13. DoomedInv'
  <2>1. CASE rounds < MaxRounds
    <3>1. /\ doomed' = Garbage \ Leaked(Garbage) /\ Garbage = Used \ Reachable
          /\ Used \subseteq Slots /\ Region(Reachable)
      BY <1>1, <2>1, ReachRegion DEF Garbage, Used, IInv
    <3>2. doomed' \subseteq Used \ Reachable /\ doomed' \subseteq Tracked'
      BY <1>3, <3>1
    <3>3. Reachable' \subseteq Reachable
      <4>1. PICK T \in SUBSET Slots : T = Reachable
        BY <3>1 DEF Region
      <4>2. Held' \subseteq T /\ reader' \in T \cup {Null}
        BY <1>1, <1>2, <3>1, <4>1 DEF Region
      <4>3. \A x \in T : Refs(x)' \subseteq T /\ obj'[x].back \in T \cup {Null}
        BY <1>1, <1>2, <3>1, <4>1 DEF Region
      <4>4. obj' \in [Slots -> Inner]
        BY <1>4 DEF TypeOK
      <4>5. QED
        BY <4>1, <4>2, <4>3, <4>4, ReachWithin
    <3>4. \A x \in Slots : Owners(x)' = Owners(x)
      BY <1>2 DEF Owners
    <3>5. ASSUME NEW o \in doomed', NEW p \in Owners(o) PROVE p \in doomed'
      <4>1. p \in Slots /\ o \in Refs(p) /\ o \in Used \ Reachable /\ o \notin Leaked(Garbage)
        BY <3>1, <3>5 DEF Owners
      <4>2. p \in Used
        BY <4>1, Referred DEF Used, IInv
      <4>3. p \notin Reachable
        BY <3>1, <4>1 DEF Region
      <4>4. p \notin Leaked(Garbage)
        BY <3>1, <4>1, LeakedFacts
      <4>5. QED
        BY <3>1, <4>2, <4>3, <4>4
    <3>6. ASSUME NEW D \in SUBSET doomed', D # {} PROVE \E o \in D : Owners(o) \cap D = {}
      <4>1. D \in SUBSET Garbage /\ D \cap Leaked(Garbage) = {} /\ D \subseteq Slots
        BY <3>1
      <4>2. PICK o \in D : ~ \E p \in D : o \in Refs(p)
        BY <3>6, <4>1, LeakedFacts
      <4>3. QED
        BY <4>2 DEF Owners
    <3>7. ASSUME NEW o \in doomed'
          PROVE  state'[o] # "RequiresReChecking" /\ o \in todo'
      BY <1>1, <1>3, <1>6, <2>1, <3>1, <3>2
    <3>8. doomed' \cap Reachable' = {}
      BY <3>2, <3>3
    <3>9. /\ \A o \in doomed' : Owners(o)' \subseteq doomed'
          /\ \A D \in SUBSET doomed' : D # {} => \E o \in D : Owners(o)' \cap D = {}
      <4>1. doomed' \subseteq Slots
        BY <3>1
      <4>2. \A o \in doomed' : Owners(o)' = Owners(o)
        BY <3>4, <4>1
      <4>3. \A o \in doomed' : Owners(o)' \subseteq doomed'
        BY <3>5, <4>2
      <4>4. ASSUME NEW D \in SUBSET doomed', D # {}
            PROVE  \E o \in D : Owners(o)' \cap D = {}
        <5>1. PICK o \in D : Owners(o) \cap D = {}
          BY <3>6, <4>4
        <5>2. o \in doomed'
          OBVIOUS
        <5>3. QED
          BY <4>2, <5>1, <5>2
      <4>5. QED
        BY <4>3, <4>4
    <3>10. QED
      BY <3>2, <3>7, <3>8, <3>9 DEF DoomedInv
  <2>2. CASE ~(rounds < MaxRounds)
    <3>1. doomed' = {}
      BY <1>1, <2>2
    <3>2. QED
      BY <3>1 DEF DoomedInv
  <2>3. QED
    BY <2>1, <2>2
<1>14. QED
  BY <1>2, <1>4, <1>5, <1>8, <1>9, <1>10, <1>11, <1>12, <1>13 DEF IInv

(* Garbage that is left has a part that nobody owns, which is on a list. *)
LEMMA GarbageListed ==
    ASSUME IInv, pc = "free", \A o \in Slots : state[o] # "ReadyToFree", doomed # {}
    PROVE  recheck \cup local # {}
<1>1. /\ DoomedInv /\ ObjInv /\ TypeOK /\ doomed \subseteq Slots /\ todo = {}
      /\ dying = NoContent /\ pc # "wait"
  BY DEF IInv, TypeOK, PhaseInv
<1>2. PICK o \in doomed : Owners(o) \cap doomed = {}
  BY <1>1 DEF DoomedInv
<1>3. o \in Slots /\ Owners(o) = {}
  BY <1>1, <1>2 DEF DoomedInv
<1>4. obj[o].count = 0
  <2>1. obj[o].handles = 0
    <3>1. Region(Reachable) /\ o \notin Reachable
      BY <1>1, ReachRegion DEF DoomedInv
    <3>2. QED
      BY <1>1, <1>3, <3>1 DEF Region, Held, TypeOK, Inner
  <2>2. Cardinality(Parents(o)) = 0 /\ Cardinality(Weaks(o)) = 0
    <3>1. Parents(o) = {} /\ Weaks(o) = {}
      BY <1>1, <1>3, OwnerSets
    <3>2. QED
      BY <3>1, FS_EmptySet
  <2>3. Bit(o \in dying.refs) = 0
    BY <1>1 DEF NoContent, Bit
  <2>4. obj[o].count = obj[o].handles + Cardinality(Parents(o)) + Cardinality(Weaks(o))
                          + Bit(o \in dying.refs)
    BY <1>1, <1>3 DEF ObjInv, CountInv
  <2>5. QED
    BY <2>1, <2>2, <2>3, <2>4
<1>5. o \in todo \cup recheck \cup local
  BY <1>1, <1>2, <1>3, <1>4 DEF DoomedInv
<1>6. QED
  BY <1>1, <1>5

(* The end of a pass: what is to be re-checked is on the list of the next  *)
(* one; when there is no next one, no garbage is left or the loop gave up. *)
LEMMA PassDoneKeeps ==
    ASSUME IInv, PassDone
    PROVE  IInv'
<1>1. /\ pc = "free" /\ \A o \in Slots : state[o] # "ReadyToFree"
      /\ rounds' = rounds + 1
      /\ todo' = IF rounds' = MaxRounds THEN {} ELSE recheck \cup local
      /\ pc' = IF todo' = {} THEN "wait" ELSE "spin"
      /\ recheck' = {} /\ local' = {} /\ todo = {}
      /\ obj' = obj /\ pending' = pending /\ reader' = reader /\ state' = state
      /\ dying' = dying /\ doomed' = doomed /\ freed' = freed
  BY DEF PassDone, NextRecheck, objVars, IInv, PhaseInv
<1>2. /\ ObjInv' /\ Used' = Used /\ Held' = Held /\ Tracked' = Tracked
      /\ \A x \in Slots : Refs(x)' = Refs(x) /\ HasBackRef(x)' = HasBackRef(x)
  BY <1>1, IdleKeeps DEF IInv, Tracked
<1>3. rounds \in Int /\ rounds < MaxRounds /\ MaxRounds \in Nat \ {0} /\ rounds >= -1 /\ freed \in Nat
  BY <1>1, IterationAssumption DEF IInv, PhaseInv, TypeOK
<1>4. TypeOK'
  <2>1. rounds' \in -1 .. MaxRounds
    BY <1>1, <1>3
  <2>2. todo' \subseteq Slots /\ pc' \in {"wait", "spin"}
    BY <1>1 DEF IInv, TypeOK
  <2>3. QED
    BY <1>1, <2>1, <2>2 DEF IInv, TypeOK
<1>5. KnownOnce'
  BY <1>1, <1>2 DEF IInv, KnownOnce
<1>6. PhaseInv'
  <2>1. pc' # "wait" => rounds' < MaxRounds
    BY <1>1, <1>3
  <2>2. dying = NoContent
    BY <1>1 DEF IInv, PhaseInv
  <2>3. QED
    BY <1>1, <2>1, <2>2 DEF PhaseInv
<1>7. ReadyInv' /\ ReaderInv'
  <2>1. pc' # "visit" /\ HasBackRef(reader)' = HasBackRef(reader)
    BY <1>1 DEF HasBackRef
  <2>2. QED
    BY <1>1, <1>2, <2>1 DEF IInv, ReadyInv, ReaderInv
<1>8. ListedInv'
  <2> SUFFICES ASSUME NEW o \in Slots, state[o] = "RequiresReChecking"
               PROVE  IF pc' = "wait" THEN rounds' = MaxRounds ELSE o \in todo'
    BY <1>1 DEF ListedInv
  <2>1. o \in recheck
    BY <1>1 DEF IInv, ListedInv
  <2>2. QED
    BY <1>1, <2>1
<1>9. LagInv'
  <2>1. Lag' = Lag + 1 /\ Lag \in Int
    BY <1>1, <1>3 DEF Lag
  <2>2. \A x : Uncleared(x)' = Uncleared(x)
    BY <1>1 DEF Uncleared, HasBackRef
  <2>3. /\ Lag <= 1
        /\ \A o \in recheck : /\ state[o] = "RequiresReChecking"
                              /\ Lag <= 0 /\ (Uncleared(o) => Lag <= -1)
        /\ local # {} => Lag <= -2
    BY <1>1 DEF IInv, LagInv
  <2>4. CASE todo' = {}
    <3>1. pc' = "wait" /\ Lag' <= 2
      BY <1>1, <2>1, <2>3, <2>4
    <3>2. QED
      BY <1>1, <3>1 DEF LagInv
  <2>5. CASE todo' # {}
    <3>1. pc' = "spin" /\ todo' = recheck \cup local
      BY <1>1, <2>5
    <3>2. Lag' <= 1
      <4>1. recheck # {} \/ local # {}
        BY <2>5, <3>1
      <4>2. Lag <= 0
        BY <2>1, <2>3, <4>1
      <4>3. QED
        BY <2>1, <4>2
    <3>3. ASSUME NEW o \in todo'
          PROVE  /\ state[o] = "Default" => Lag' <= -1
                 /\ Uncleared(o) /\ state[o] # "untracked" => Lag' <= 0
      <4>1. CASE o \in recheck
        BY <2>1, <2>3, <4>1
      <4>2. CASE o \in local
        <5>1. Lag <= -2
          BY <2>3, <4>2
        <5>2. Lag' <= -1 /\ Lag' <= 0
          BY <2>1, <5>1
        <5>3. QED
          BY <5>2
      <4>3. QED
        BY <3>1, <4>1, <4>2
    <3>4. QED
      BY <1>1, <2>2, <3>1, <3>2, <3>3 DEF LagInv
  <2>6. QED
    BY <2>4, <2>5
<1>10. DoomedInv'
  <2> SUFFICES ASSUME pc' # "wait" PROVE DoomedInv'
    BY DEF DoomedInv
  <2>1. todo' = recheck \cup local
    BY <1>1
  <2>2. /\ doomed \subseteq Tracked
        /\ \A x \in doomed :
             /\ state[x] = "RequiresReChecking" => obj[x].count = 0 /\ ~obj[x].tag
             /\ obj[x].count = 0 => \/ state[x] = "ReadyToFree"
                                    \/ x \in todo \cup recheck \cup local
    BY <1>1 DEF IInv, DoomedInv
  <2>3. \A x \in doomed : obj[x].count = 0 => state[x] = "ReadyToFree" \/ x \in todo'
    BY <1>1, <2>1, <2>2
  <2>4. /\ doomed' \cap Reachable' = {}
        /\ \A x \in doomed' : Owners(x)' \subseteq doomed'
        /\ \A D \in SUBSET doomed' : D # {} => \E x \in D : Owners(x)' \cap D = {}
    BY <1>1, IdleShape DEF IInv
  <2>5. QED
    BY <1>1, <1>2, <2>2, <2>3, <2>4 DEF DoomedInv
<1>11. Collected'
  <2> SUFFICES ASSUME pc' = "wait", rounds' < MaxRounds PROVE doomed = {}
    BY <1>1 DEF Collected
  <2>1. recheck \cup local = {}
    <3>1. rounds' # MaxRounds
      BY <1>1, <1>3
    <3>2. QED
      BY <1>1, <3>1
  <2>2. QED
    BY <1>1, <2>1, GarbageListed
<1>12. QED
  BY <1>2, <1>4, <1>5, <1>6, <1>7, <1>8, <1>9, <1>10, <1>11 DEF IInv

-----------------------------------------------------------------------------
LEMMA InitIInv == Init => IInv
<1> SUFFICES ASSUME Init PROVE IInv
  OBVIOUS
<1>1. TypeOK
  <2>1. Unused \in Inner
    BY DEF Unused, Inner
  <2>2. 0 \in -1 .. MaxRounds
    BY IterationAssumption
  <2>3. QED
    BY <2>1, <2>2 DEF Init, TypeOK, NoContent
<1>2. \A o \in Slots : obj[o] = Unused /\ state[o] = "untracked"
  BY DEF Init
<1>3. \A o \in Slots : /\ ~obj[o].used /\ obj[o].count = 0 /\ obj[o].handles = 0
                       /\ obj[o].weak = Null /\ obj[o].back = Null /\ Refs(o) = {}
  BY <1>2 DEF Unused, Refs
<1>4. \A o \in Slots : Parents(o) = {} /\ Weaks(o) = {}
  BY <1>2, IterationAssumption DEF Parents, Weaks, Unused
<1>5. CountInv
  <2> SUFFICES ASSUME NEW o \in Slots
               PROVE  obj[o].count = obj[o].handles + Cardinality(Parents(o))
                                        + Cardinality(Weaks(o)) + Bit(o \in dying.refs)
    BY DEF CountInv
  <2>1. Cardinality(Parents(o)) = 0 /\ Cardinality(Weaks(o)) = 0
    BY <1>4, FS_EmptySet
  <2>2. Bit(o \in dying.refs) = 0
    BY DEF Init, NoContent, Bit
  <2>3. QED
    BY <1>3, <2>1, <2>2
<1>6. ObjInv
  <2>1. BlankInv /\ WeakInv /\ BackRefLive
    BY <1>2, <1>3 DEF BlankInv, WeakInv, BackRefLive, Used
  <2>2. QED
    BY <1>5, <2>1 DEF ObjInv
<1>7. KnownOnce
  BY <1>2, <1>3 DEF Init, KnownOnce, Tracked, Used
<1>8. PhaseInv /\ ReadyInv /\ ReaderInv /\ ListedInv /\ DoomedInv /\ Collected
  BY <1>2 DEF Init, PhaseInv, ReadyInv, ReaderInv, ListedInv, DoomedInv, Collected
<1>9. LagInv
  BY DEF Init, LagInv, Lag
<1>10. QED
  BY <1>1, <1>6, <1>7, <1>8, <1>9 DEF IInv

LEMMA StepIInv == IInv /\ [Next]_vars => IInv'
<1> SUFFICES ASSUME IInv, [Next]_vars PROVE IInv'
  OBVIOUS
<1>1. ASSUME \/ UserStep \/ UpgradeIncrement
             \/ \E o \in Slots : DropInCollector(o) \/ Rescue(o)
      PROVE  IInv'
  <2>1. UserEffect
    BY <1>1, UserSteps DEF IInv
  <2>2. QED
    BY <2>1, UserKeeps
<1>2. CASE Take
  BY <1>2, TakeKeeps
<1>3. CASE Spin
  BY <1>3, SpinKeeps
<1>4. CASE VisitStep
  BY <1>4, VisitUntrackedKeeps, VisitSteps DEF VisitStep
<1>5. CASE VisitsDone
  BY <1>5, VisitsDoneKeeps
<1>6. CASE FreeStep
  <2>1. ASSUME NEW o \in Slots, FreeSlot(o) PROVE IInv'
    BY <2>1, FreeSlotKeeps
  <2>2. CASE DropContent
    BY <2>2, DropContentKeeps
  <2>3. QED
    BY <1>1, <1>6, <2>1, <2>2 DEF FreeStep
<1>7. CASE PassDone
  BY <1>7, PassDoneKeeps
<1>8. CASE UNCHANGED vars
  <2>1. /\ obj' = obj /\ pending' = pending /\ reader' = reader /\ state' = state /\ pc' = pc
        /\ todo' = todo /\ recheck' = recheck /\ local' = local /\ dying' = dying
        /\ rounds' = rounds /\ doomed' = doomed /\ freed' = freed
    BY <1>8 DEF vars, objVars, loopVars
  <2>2. UserEffect
    <3>1. ObjInv' /\ Used' = Used
      BY <2>1, IdleKeeps DEF IInv
    <3>2. \A x \in Used : Kept(x)
      BY <2>1 DEF Kept, HasBackRef
    <3>3. DoomedKept
      <4> SUFFICES ASSUME pc # "wait"
                   PROVE  /\ doomed' \cap Reachable' = {}
                          /\ \A x \in doomed' :
                                /\ obj'[x].count = obj[x].count /\ obj'[x].tag = obj[x].tag
                                /\ Owners(x)' \subseteq Owners(x) \cap doomed'
        BY DEF DoomedKept
      <4>1. /\ doomed' \cap Reachable' = {}
            /\ \A x \in doomed' : Owners(x)' \subseteq doomed'
        BY <2>1, IdleShape DEF IInv
      <4>2. \A x \in doomed' : Owners(x)' = Owners(x)
        BY <2>1 DEF Owners, Refs
      <4>3. QED
        BY <2>1, <4>1, <4>2
    <3>4. QED
      BY <2>1, <3>1, <3>2, <3>3 DEF UserEffect, IInv, TypeOK
  <2>3. QED
    BY <2>2, UserKeeps
<1>9. QED
  BY <1>1, <1>2, <1>3, <1>4, <1>5, <1>6, <1>7, <1>8 DEF Next, CollectorStep

LEMMA AlwaysIInv == Spec => []IInv
  BY InitIInv, StepIInv, PTL DEF Spec

(* The variables of the collector loop keep their types: in particular no  *)
(* counter goes below zero, whatever drops in the collector thread do.     *)
THEOREM IterationTypeCorrect == Spec => []TypeOK
<1>1. IInv => TypeOK
  BY DEF IInv
<1>2. QED
  BY <1>1, AlwaysIInv, PTL

(* Every object is tracked, or waits to be, and never both: the assertion  *)
(* of take_new_counters_to_track holds, although slots are reused while    *)
(* the drops of their old content run.                                     *)
THEOREM ObjectsKnownOnce == Spec => []KnownOnce
<1>1. IInv => KnownOnce
  BY DEF IInv
<1>2. QED
  BY <1>1, AlwaysIInv, PTL

(* A back reference that is not null refers to the live owner of the       *)
(* WeakSdarcInner.                                                         *)
THEOREM BackReferencesLive == Spec => []BackRefLive
<1>1. IInv => BackRefLive
  BY DEF IInv, ObjInv
<1>2. QED
  BY <1>1, AlwaysIInv, PTL

(* The inner loop frees an object at least every third pass, for any       *)
(* number of objects: it cannot run on without progress.                   *)
THEOREM InnerLoopBounded == Spec => []RoundsBounded
<1>1. IInv => RoundsBounded
  <2> SUFFICES ASSUME IInv PROVE RoundsBounded
    OBVIOUS
  <2>1. rounds \in Int /\ freed \in Nat
    BY DEF IInv, TypeOK
  <2>2. Lag <= 2
    BY <2>1 DEF IInv, LagInv, Lag
  <2>3. QED
    BY <2>1, <2>2 DEF RoundsBounded, Lag
<1>2. QED
  BY <1>1, AlwaysIInv, PTL

(* One outer iteration frees all that was garbage when it began, for any   *)
(* graph of objects, unless it gave up or the one before did.  Cycles, and *)
(* what the drop of freed content has found again, are left.               *)
THEOREM GarbageCollected == Spec => []Collected
<1>1. IInv => Collected
  BY DEF IInv
<1>2. QED
  BY <1>1, AlwaysIInv, PTL

(* No object is freed while a user handle, the content of another object   *)
(* or a reader refers to it.                                               *)
THEOREM OnlyGarbageFreed == Spec => FreesOnlyGarbage
<1> DEFINE Safe == \A o \in Slots : obj[o].used /\ ~obj'[o].used => ~Referenced(o)
<1>1. ASSUME IInv, [Next]_vars PROVE Safe \/ UNCHANGED vars
  <2>1. ASSUME \/ UserStep \/ UpgradeIncrement
               \/ \E o \in Slots : DropInCollector(o) \/ Rescue(o)
        PROVE  Safe
    <3>1. UserEffect
      BY <1>1, <2>1, UserSteps DEF IInv
    <3>2. Used \subseteq Used'
      BY <3>1 DEF UserEffect
    <3>3. QED
      BY <3>2 DEF Used
  <2>2. CASE Take \/ Spin \/ VisitsDone \/ PassDone
    <3>1. obj' = obj
      BY <2>2 DEF Take, Spin, VisitsDone, PassDone, objVars
    <3>2. QED
      BY <3>1
  <2>3. CASE VisitStep
    <3>1. PICK o \in Slots : \/ VisitUntracked(o) \/ VisitDefault(o)
                             \/ FalseZero(o, TRUE) \/ FalseZero(o, FALSE)
                             \/ RecheckFails(o) \/ RecheckClears(o) \/ RecheckConfirms(o)
      BY <2>3 DEF VisitStep
    <3>2. CASE VisitUntracked(o)
      <4>1. obj' = obj
        BY <3>2 DEF VisitUntracked, objVars
      <4>2. QED
        BY <4>1
    <3>3. CASE ~VisitUntracked(o)
      <4>1. TypeOK /\ ObjInv /\ KnownOnce /\ PhaseInv /\ DoomedInv /\ ReaderInv
        BY <1>1 DEF IInv
      <4>2. PICK s : VisitEffect(o, s)
        BY <3>1, <3>3, <4>1, VisitDefaultVisit, FalseZeroVisit, RecheckFailsVisit,
           RecheckClearsVisit, RecheckConfirmsVisit
      <4>3. \A x \in Slots : obj'[x].used = obj[x].used
        BY <4>2 DEF VisitEffect
      <4>4. QED
        BY <4>3
    <3>4. QED
      BY <3>2, <3>3
  <2>4. CASE FreeStep
    <3>1. ASSUME NEW o \in Slots, FreeSlot(o) PROVE Safe
      <4>1. FreeEffect(o)
        BY <1>1, <3>1, FreeObj DEF IInv
      <4>2. ~Referenced(o)
        <5>1. o \notin Held /\ o \notin dying.refs /\ o # reader /\ Owners(o) = {}
          BY <4>1 DEF FreeEffect
        <5>2. QED
          BY <5>1 DEF Referenced, Owners, Used
      <4>3. \A x \in Slots \ {o} : obj'[x].used = obj[x].used
        BY <4>1 DEF FreeEffect
      <4>4. QED
        BY <4>2, <4>3
    <3>2. CASE DropContent
      <4>1. SameLinks
        BY <1>1, <3>2, Contents DEF IInv, ContentEffect, Recount
      <4>2. QED
        BY <4>1 DEF SameLinks
    <3>3. QED
      BY <2>1, <2>4, <3>1, <3>2 DEF FreeStep
  <2>5. QED
    BY <1>1, <2>1, <2>2, <2>3, <2>4 DEF Next, CollectorStep
<1>2. IInv /\ [Next]_vars => [Safe]_vars
  BY <1>1
<1>3. QED
  BY <1>2, AlwaysIInv, PTL DEF Spec, FreesOnlyGarbage
=============================================================================
