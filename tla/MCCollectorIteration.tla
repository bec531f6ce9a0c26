------------------------ MODULE MCCollectorIteration ------------------------
EXTENDS CollectorIteration, TLC

Symmetry == Permutations(Slots)

(* The tag of a counter is cleared or set anew when the object begins to   *)
(* wait for its re-check, and read only while it waits: the tags of other  *)
(* objects tell no states apart.                                           *)
View == <<[o \in Slots |-> IF state[o] = "RequiresReChecking" THEN obj[o]
                           ELSE [obj[o] EXCEPT !.tag = FALSE]],
          pending, reader, loopVars, doomed>>
=============================================================================
