------------------------- MODULE CollectorIteration -------------------------
(***************************************************************************)
(* One outer iteration of the collector over several objects               *)
(* (collector.rs, CollectorThreadState::update): the first pass over all   *)
(* tracked counters, and the inner iterations over the counters to         *)
(* re-check, which include those that were decremented when the collector  *)
(* dropped the content of an object it freed.                              *)
(*                                                                         *)
(* An object is named by its counter slot, the key of tracked_counters.    *)
(* Its counter is one number and one tag here: what a scan of the shards   *)
(* may observe while user threads run is the subject of Sdarc, and appears *)
(* as FalseZero.  A WeakSdarc is a handle of a WeakSdarcInner object.      *)
(***************************************************************************)
EXTENDS Integers, FiniteSets

CONSTANTS
    Slots,        \* counter slots
    Null,
    MaxHandles,   \* bound: user handles of one object
    MaxOwned,     \* bound: Sdarcs and WeakSdarcs in the data of one object
    MaxRounds     \* inner iterations after which the loop gives up (100000)

ASSUME IterationAssumption ==
    /\ IsFiniteSet(Slots)
    /\ Null \notin Slots
    /\ MaxHandles \in Nat \ {0} /\ MaxOwned \in Nat
    /\ MaxRounds \in Nat \ {0}

VARIABLES
    obj,        \* the SdarcInner of each slot
    pending,    \* pending_to_track
    state,      \* TrackedCounterState of the keys of tracked_counters
    reader,     \* object a reader has loaded from back_ref, not incremented
    pc,         \* wait, spin, visit, free, drop
    todo,       \* counters this pass has still to visit
    recheck,    \* new_to_re_check
    local,      \* COLLECTOR_THREAD_LOCAL, counters_to_recheck
    dying,      \* content of the object that is being freed
    rounds,     \* loop_counter, -1 in the first pass
    doomed,     \* ghost: garbage at the start of the iteration, not freed yet
                \* and not found again by the drop of freed content
    freed       \* ghost: objects freed in this iteration

objVars == <<obj, pending, reader>>
loopVars == <<state, pc, todo, recheck, local, dying, rounds, freed>>
vars == <<objVars, loopVars, doomed>>

Unused == [used |-> FALSE, count |-> 0, tag |-> FALSE, handles |-> 0,
           children |-> {}, weak |-> Null, back |-> Null, isWeak |-> FALSE]

Inner == [used : BOOLEAN, count : Nat, tag : BOOLEAN, handles : Nat,
          children : SUBSET Slots, weak : Slots \cup {Null}, back : Slots \cup {Null},
          isWeak : BOOLEAN]

TypeOK ==
    /\ obj \in [Slots -> Inner]
    /\ pending \subseteq Slots
    /\ state \in [Slots -> {"untracked", "Default", "RequiresReChecking", "ReadyToFree"}]
    /\ reader \in Slots \cup {Null}
    /\ pc \in {"wait", "spin", "visit", "free", "drop"}
    /\ todo \subseteq Slots /\ recheck \subseteq Slots /\ local \subseteq Slots
    /\ dying \in [refs : SUBSET Slots, loud : BOOLEAN]
    /\ rounds \in -1 .. MaxRounds
    /\ doomed \subseteq Slots
    /\ freed \in Nat

NoContent == [refs |-> {}, loud |-> FALSE]

Init ==
    /\ obj = [o \in Slots |-> Unused]
    /\ pending = {} /\ reader = Null
    /\ state = [o \in Slots |-> "untracked"]
    /\ pc = "wait"
    /\ todo = {} /\ recheck = {} /\ local = {}
    /\ dying = NoContent
    /\ rounds = 0 /\ doomed = {} /\ freed = 0

-----------------------------------------------------------------------------
(* Strong references the content of o holds: the Sdarcs in its data, and   *)
(* weak_inner_ref.                                                         *)
Refs(o) == obj[o].children \cup ({obj[o].weak} \ {Null})
Used == {o \in Slots : obj[o].used}
Held == {o \in Slots : obj[o].handles > 0}
Tracked == {o \in Slots : state[o] # "untracked"}

(* Objects that are in S or that E leads to from there. *)
Closure(S, E) ==
    LET R[n \in 0 .. Cardinality(Slots)] ==
            IF n = 0 THEN S ELSE LET T == R[n - 1] IN T \cup UNION {E[o] : o \in T}
    IN R[Cardinality(Slots)]

(* What user code can use: its handles, the content that it is dropping in *)
(* the collector thread, and the Sdarcs and WeakSdarcs in the data it can  *)
(* borrow from there.                                                      *)
Borrowed == IF dying.loud THEN dying.refs ELSE {}
InReach == Closure(Held \cup Borrowed, [o \in Slots |-> obj[o].children])

(* What it may ever use again, by an upgrade or a downgrade, with S. *)
LeadsTo(S) == Closure(S, [o \in Slots |-> Refs(o) \cup ({obj[o].back} \ {Null})])
Reachable == LeadsTo(Held \cup ({reader} \ {Null}))

(* User code gets hold of o: what was garbage is not. *)
Finds(o) == doomed' = doomed \ LeadsTo({o})

Garbage == Used \ Reachable

(* Objects of G that the strong references in G keep alive for ever: each  *)
(* one is on a cycle or behind one.                                        *)
Leaked(G) == UNION {C \in SUBSET G : \A o \in C : \E p \in C : o \in Refs(p)}

Inc(f, o) == [f EXCEPT ![o].count = @ + 1]
Dec(f, S) == [o \in Slots |-> IF o \in S THEN [f[o] EXCEPT !.count = @ - 1, !.tag = TRUE]
                                         ELSE f[o]]

(* Mutant of NewInner: without the initial increment. *)
NewInnerZero == [Unused EXCEPT !.used = TRUE]
NewInner == [Unused EXCEPT !.used = TRUE, !.count = 1]

(* Sdarc::new, whose data takes over the handles C. *)
New(o, C) ==
    /\ o \notin Used /\ C \subseteq Held /\ Cardinality(C) <= MaxOwned
    /\ obj' = [x \in Slots |->
                 IF x = o THEN [NewInner EXCEPT !.handles = 1, !.children = C]
                 ELSE IF x \in C THEN [obj[x] EXCEPT !.handles = @ - 1] ELSE obj[x]]
    /\ pending' = pending \cup {o}
    /\ UNCHANGED <<reader, loopVars, doomed>>

Clone(o) ==
    /\ ~obj[o].isWeak /\ obj[o].handles < MaxHandles /\ o \in InReach
    /\ obj' = [Inc(obj, o) EXCEPT ![o].handles = @ + 1]
    /\ Finds(o)
    /\ UNCHANGED <<pending, reader, loopVars>>

(* Drop in a user thread: on_sdarc_drop has nothing to tell. *)
Drop(o) ==
    /\ o \in Held
    /\ obj' = [Dec(obj, {o}) EXCEPT ![o].handles = @ - 1]
    /\ UNCHANGED <<pending, reader, loopVars, doomed>>

(* A handle moves into a cell in the data of p, or out of it. *)
StoreIn(p, o) ==
    /\ o \in Held \ obj[p].children /\ ~obj[p].isWeak
    /\ Cardinality(obj[p].children) < MaxOwned /\ p \in InReach
    /\ obj' = [[obj EXCEPT ![o].handles = @ - 1] EXCEPT ![p].children = @ \cup {o}]
    /\ UNCHANGED <<pending, reader, loopVars, doomed>>

TakeOut(p, o) ==
    /\ o \in obj[p].children /\ obj[o].handles < MaxHandles /\ p \in InReach
    /\ obj' = [[obj EXCEPT ![o].handles = @ + 1] EXCEPT ![p].children = @ \ {o}]
    /\ Finds(o)
    /\ UNCHANGED <<pending, reader, loopVars>>

(* downgrade that creates the WeakSdarcInner w: one reference of it is in  *)
(* weak_inner_ref, one is the WeakSdarc.  A later one clones a handle.     *)
Downgrade(o, w) ==
    /\ ~obj[o].isWeak /\ obj[o].weak = Null /\ w \notin Used
    /\ o \in InReach
    /\ obj' = [obj EXCEPT ![o].weak = w,
                          ![w] = [NewInner EXCEPT !.count = 2, !.handles = 1, !.back = o,
                                                     !.isWeak = TRUE]]
    /\ pending' = pending \cup {w}
    /\ Finds(o)
    /\ UNCHANGED <<reader, loopVars>>

DowngradeAgain(o) ==
    LET w == obj[o].weak IN
    /\ w # Null /\ obj[w].handles < MaxHandles /\ o \in InReach
    /\ obj' = [Inc(obj, w) EXCEPT ![w].handles = @ + 1]
    /\ Finds(w)
    /\ UNCHANGED <<pending, reader, loopVars>>

(* upgrade, in the reader critical section: the load of a back_ref that is *)
(* not null, and the increment.                                            *)
UpgradeLoad(w) ==
    /\ reader = Null /\ obj[w].back # Null /\ obj[obj[w].back].handles < MaxHandles
    /\ w \in InReach
    /\ reader' = obj[w].back
    /\ Finds(obj[w].back)
    /\ UNCHANGED <<obj, pending, loopVars>>

UpgradeIncrement ==
    /\ reader # Null
    /\ obj' = [Inc(obj, reader) EXCEPT ![reader].handles = @ + 1]
    /\ reader' = Null
    /\ UNCHANGED <<pending, loopVars, doomed>>

UserStep ==
    \/ \E o \in Slots : Clone(o) \/ Drop(o) \/ DowngradeAgain(o) \/ UpgradeLoad(o)
    \/ \E o, w \in Slots : Downgrade(o, w) \/ StoreIn(o, w) \/ TakeOut(o, w)
    \/ \E o \in Slots \ Used, C \in SUBSET Held : New(o, C)

-----------------------------------------------------------------------------
(* take_new_counters_to_track, and the first pass over all of them. *)
Take ==
    /\ pc = "wait"
    /\ state' = [o \in Slots |-> IF o \in pending THEN "Default" ELSE state[o]]
    /\ pending' = {}
    /\ todo' = Tracked \cup pending
    /\ doomed' = IF rounds < MaxRounds THEN Garbage \ Leaked(Garbage) ELSE {}
    /\ pc' = "spin" /\ rounds' = -1 /\ freed' = 0
    /\ UNCHANGED <<obj, reader, recheck, local, dying>>

(* spin_until_observing_non_critical_section_once_in_each_shard *)
Spin ==
    /\ pc = "spin" /\ reader = Null
    /\ pc' = "visit"
    /\ UNCHANGED <<objVars, state, todo, recheck, local, dying, rounds, doomed, freed>>

(* A pass puts o back on the list when it is to be re-checked. *)
Visited(o, s) ==
    /\ state' = [state EXCEPT ![o] = s]
    /\ todo' = todo \ {o}
    /\ recheck' = IF s = "RequiresReChecking" THEN recheck \cup {o} ELSE recheck
    /\ UNCHANGED <<pending, reader, pc, local, dying, rounds, doomed, freed>>

Visiting(o, s) == pc = "visit" /\ o \in todo /\ state[o] = s

(* A key that is not tracked (yet) is ignored. *)
VisitUntracked(o) ==
    /\ Visiting(o, "untracked")
    /\ todo' = todo \ {o}
    /\ UNCHANGED <<objVars, state, pc, recheck, local, dying, rounds, doomed, freed>>

(* update_state, DefaultState: a zero sum clears the tags. *)
VisitDefault(o) ==
    /\ Visiting(o, "Default")
    /\ IF obj[o].count = 0
       THEN /\ obj' = [obj EXCEPT ![o].tag = FALSE]
            /\ Visited(o, "RequiresReChecking")
       ELSE UNCHANGED obj /\ Visited(o, "Default")

(* A user thread makes and drops a reference during the scan of the        *)
(* shards, and the sums miss the increment: the tag is set afterwards, or  *)
(* the count is not zero.                                                  *)
FalseZero(o, tag) ==
    /\ Visiting(o, "Default")
    /\ o \in InReach \/ \E w \in InReach : obj[w].back = o
    /\ tag \/ obj[o].count # 0
    /\ obj' = [obj EXCEPT ![o].tag = tag]
    /\ Visited(o, "RequiresReChecking")

(* Mutant of AfterTag: a tag does not send the object back to Default. *)
AfterTagRechecks == "RequiresReChecking"
AfterTag == "Default"

(* Mutant of AfterClearing: the upgrades under way are not waited for. *)
AfterClearingFrees == "ReadyToFree"
AfterClearing == "RequiresReChecking"

(* Mutant of HasBackRef: weak_inner_ref is taken for uninitialised. *)
NoBackRef(o) == FALSE
HasBackRef(o) == obj[o].weak # Null /\ obj[obj[o].weak].back # Null

(* update_state, RequiresReChecking: a tag or a sum that is not zero, ... *)
RecheckFails(o) ==
    /\ Visiting(o, "RequiresReChecking")
    /\ obj[o].tag \/ obj[o].count # 0
    /\ UNCHANGED obj
    /\ Visited(o, AfterTag)

(* ... a back reference that clear_weak_back_ref still finds, ... *)
RecheckClears(o) ==
    /\ Visiting(o, "RequiresReChecking")
    /\ ~obj[o].tag /\ obj[o].count = 0
    /\ HasBackRef(o)
    /\ obj' = [obj EXCEPT ![obj[o].weak].back = Null]
    /\ Visited(o, AfterClearing)

(* ... or the end of the object. *)
RecheckConfirms(o) ==
    /\ Visiting(o, "RequiresReChecking")
    /\ ~obj[o].tag /\ obj[o].count = 0
    /\ ~HasBackRef(o)
    /\ UNCHANGED obj
    /\ Visited(o, "ReadyToFree")

VisitsDone ==
    /\ pc = "visit" /\ todo = {}
    /\ pc' = "free"
    /\ UNCHANGED <<objVars, state, todo, recheck, local, dying, rounds, doomed, freed>>

(* Mutant of Removed: the entry is only looked up. *)
NotRemoved(o) == state
Removed(o) == [state EXCEPT ![o] = "untracked"]

(* free_pointers: the key is removed, then the fields of the SdarcInner    *)
(* are dropped in their order: the counters, which gives the slot back,    *)
(* weak_inner_ref, ...  Each drop of a Sdarc here tells the collector to   *)
(* re-check it.                                                            *)
FreeSlot(o) ==
    /\ pc = "free" /\ state[o] = "ReadyToFree"
    /\ state' = Removed(o)
    /\ dying' = [refs |-> obj[o].children, loud |-> ~obj[o].isWeak]
    /\ obj' = Dec([obj EXCEPT ![o] = Unused], {obj[o].weak})
    /\ local' = local \cup ({obj[o].weak} \ {Null})
    /\ doomed' = doomed \ {o} /\ freed' = freed + 1
    /\ pc' = "drop"
    /\ UNCHANGED <<pending, reader, todo, recheck, rounds>>

(* ... and the data.  The Drop of its type runs first (loud).  It can do   *)
(* what user threads can, with the Sdarcs and WeakSdarcs of the content    *)
(* too.  It can drop a handle, of a Sdarc it has made, cloned or upgraded, *)
(* and so tell the collector to re-check it, ...                           *)
DropInCollector(o) ==
    /\ pc = "drop" /\ dying.loud /\ o \in Held
    /\ obj' = [Dec(obj, {o}) EXCEPT ![o].handles = @ - 1]
    /\ local' = local \cup {o}
    /\ UNCHANGED <<pending, reader, state, pc, todo, recheck, dying, rounds, doomed, freed>>

(* ... or move a Sdarc out of the content.                                 *)
Rescue(o) ==
    /\ pc = "drop" /\ dying.loud /\ o \in dying.refs /\ obj[o].handles < MaxHandles
    /\ obj' = [obj EXCEPT ![o].handles = @ + 1]
    /\ dying' = [dying EXCEPT !.refs = @ \ {o}]
    /\ Finds(o)
    /\ UNCHANGED <<pending, reader, state, pc, todo, recheck, local, rounds, freed>>

(* When it has returned, the Sdarcs in the data are dropped. *)
DropContent ==
    /\ pc = "drop"
    /\ obj' = Dec(obj, dying.refs)
    /\ local' = local \cup dying.refs
    /\ dying' = NoContent /\ pc' = "free"
    /\ UNCHANGED <<pending, reader, state, todo, recheck, rounds, doomed, freed>>

(* Mutant of NextRecheck: drops in the collector thread go unnoticed. *)
NextRecheckOwn(new, dropped) == new
NextRecheck(new, dropped) == new \cup dropped

(* The end of a pass: the next one, unless nothing is to be re-checked or  *)
(* the loop gives up.                                                      *)
PassDone ==
    /\ pc = "free" /\ \A o \in Slots : state[o] # "ReadyToFree"
    /\ rounds' = rounds + 1
    /\ todo' = IF rounds' = MaxRounds THEN {} ELSE NextRecheck(recheck, local)
    /\ pc' = IF todo' = {} THEN "wait" ELSE "spin"
    /\ recheck' = {} /\ local' = {}
    /\ UNCHANGED <<objVars, state, dying, doomed, freed>>

FreeStep == \/ \E o \in Slots : FreeSlot(o) \/ DropInCollector(o) \/ Rescue(o)
            \/ DropContent
VisitStep == \E o \in Slots : \/ VisitUntracked(o) \/ VisitDefault(o)
                             \/ FalseZero(o, TRUE) \/ FalseZero(o, FALSE)
                             \/ RecheckFails(o) \/ RecheckClears(o) \/ RecheckConfirms(o)
CollectorStep == Take \/ Spin \/ VisitStep \/ VisitsDone \/ FreeStep \/ PassDone

Next == UserStep \/ UpgradeIncrement \/ CollectorStep

Spec == Init /\ [][Next]_vars

-----------------------------------------------------------------------------
Referenced(o) == \/ o \in Held \cup dying.refs \cup {reader}
                 \/ \E p \in Used : o \in Refs(p)

(* A slot is given back only when no user handle, no content of another    *)
(* object and no reader between back_ref and its increment refers to the   *)
(* object.                                                                 *)
FreesOnlyGarbage == [][\A o \in Slots : obj[o].used /\ ~obj'[o].used => ~Referenced(o)]_vars

(* A back reference that is not null refers to the object that owns the    *)
(* WeakSdarcInner, and the object is alive.  With FreesOnlyGarbage this is *)
(* the assertion of Drop for WeakSdarcInner (sdarc.rs, line 466): it is    *)
(* dropped after its owner, hence with a null back reference.              *)
BackRefLive == \A w \in Used : obj[w].back # Null => obj[obj[w].back].weak = w

(* An iteration frees everything that was garbage when it began, however   *)
(* deep, unless the loop over the counters to re-check gives up or the     *)
(* iteration before did: an object it left in RequiresReChecking and that  *)
(* was decremented since only returns to DefaultState.  Two kinds of       *)
(* garbage are left: cycles with what they own, and what the drop of freed *)
(* content has found again by a clone or an upgrade, since the tag its     *)
(* drop sets sends it back to DefaultState too.  This is what a caller of  *)
(* collector_update_now_and_wait can rely on.                              *)
Collected == pc = "wait" /\ rounds < MaxRounds => doomed = {}

(* The inner loop does not run on: at least every third pass of it frees   *)
(* an object, whatever user threads and drops in the collector thread do   *)
(* meanwhile (the question in the comment at line 392).                    *)
RoundsBounded == rounds <= 3 * freed + 2

(* No object escapes the collector: one that exists is in tracked_counters *)
(* or will be taken from pending_to_track, and never both (the assertion   *)
(* of line 529), although slots are reused while the drops of their old    *)
(* content run and the loop may give up with counters left to re-check.    *)
KnownOnce == Tracked \cup pending = Used /\ Tracked \cap pending = {}
=============================================================================
