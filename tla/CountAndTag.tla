---------------------------- MODULE CountAndTag ----------------------------
(***************************************************************************)
(* What AtomicTaggedCounter promises: a count and a tag that change        *)
(* together in one step.  Counts wrap around at -Half and Half - 1.        *)
(***************************************************************************)
EXTENDS Integers

CONSTANT Half
VARIABLES count, tagged

vars == <<count, tagged>>

Init == count = 0 /\ tagged = FALSE

Increment ==
    /\ count' = IF count = Half - 1 THEN -Half ELSE count + 1
    /\ UNCHANGED tagged

DecrementAndSetTag ==
    /\ count' = IF count = -Half THEN Half - 1 ELSE count - 1
    /\ tagged' = TRUE

ClearTag == tagged' = FALSE /\ UNCHANGED count

Next == Increment \/ DecrementAndSetTag \/ ClearTag

Spec == Init /\ [][Next]_vars
=============================================================================
