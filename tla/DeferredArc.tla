---------------------------- MODULE DeferredArc ----------------------------
(***************************************************************************)
(* What an Sdarc promises its user, with no shards, tags, critical         *)
(* sections or collector: one object, the number of references to it, and  *)
(* a weak link that may resurrect it.  Module Sdarc implements it.         *)
(***************************************************************************)
EXTENDS Naturals

VARIABLES
    life,   \* "unborn", "allocated" or "freed"
    refs,   \* references some thread or atomic cell may still use
    weak    \* "none", "live" or "dead": can a WeakSdarc still upgrade?

vars == <<life, refs, weak>>

Init == life = "unborn" /\ refs = 0 /\ weak = "none"

New ==
    /\ life = "unborn"
    /\ life' = "allocated"
    /\ refs' = 1
    /\ UNCHANGED weak

(* Clone, load from a cell, or put a borrowed reference into a cell: a new *)
(* reference is made from an existing one.                                 *)
Acquire ==
    /\ life = "allocated"
    /\ refs > 0
    /\ refs' = refs + 1
    /\ UNCHANGED <<life, weak>>

Release ==
    /\ refs > 0
    /\ refs' = refs - 1
    /\ UNCHANGED <<life, weak>>

Downgrade ==
    /\ refs > 0
    /\ weak = "none"
    /\ weak' = "live"
    /\ UNCHANGED <<life, refs>>

(* An upgrade needs no strong reference: it may resurrect the object. *)
Upgrade ==
    /\ life = "allocated"
    /\ weak = "live"
    /\ refs' = refs + 1
    /\ UNCHANGED <<life, weak>>

ClearWeak ==
    /\ weak = "live"
    /\ weak' = "dead"
    /\ UNCHANGED <<life, refs>>

(* The object is freed only when nothing can reach it any more. *)
Free ==
    /\ life = "allocated"
    /\ refs = 0
    /\ weak # "live"
    /\ life' = "freed"
    /\ UNCHANGED <<refs, weak>>

Next == New \/ Acquire \/ Release \/ Downgrade \/ Upgrade \/ ClearWeak \/ Free

Spec == Init /\ [][Next]_vars
=============================================================================
