------------------------------ MODULE SlotPool ------------------------------
(***************************************************************************)
(* What the sharded allocator promises: a slot has one owner at a time, it *)
(* lies in mapped memory as long as it has one, and memory is unmapped     *)
(* only when none of its slots is owned.                                   *)
(***************************************************************************)
CONSTANTS Units, Slots
VARIABLES mapped, owned

vars == <<mapped, owned>>

Init == mapped = {} /\ owned = {}

Map(u) == u \notin mapped /\ mapped' = mapped \cup {u} /\ UNCHANGED owned

Take(u, i) ==
    /\ u \in mapped /\ <<u, i>> \notin owned
    /\ owned' = owned \cup {<<u, i>>}
    /\ UNCHANGED mapped

Give(u, i) == <<u, i>> \in owned /\ owned' = owned \ {<<u, i>>} /\ UNCHANGED mapped

Unmap(u) ==
    /\ u \in mapped /\ \A i \in Slots : <<u, i>> \notin owned
    /\ mapped' = mapped \ {u}
    /\ UNCHANGED owned

Next == \E u \in Units : \/ Map(u) \/ Unmap(u)
                         \/ \E i \in Slots : Take(u, i) \/ Give(u, i)

Spec == Init /\ [][Next]_vars
=============================================================================
