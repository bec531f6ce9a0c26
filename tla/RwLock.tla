------------------------------- MODULE RwLock -------------------------------
(***************************************************************************)
(* What a reader-writer lock promises: many read guards or one write       *)
(* guard.                                                                  *)
(***************************************************************************)
CONSTANTS Threads, NoThread
VARIABLES readers, writer

vars == <<readers, writer>>

Init == readers = {} /\ writer = NoThread

ReadLock(t) == writer = NoThread /\ readers' = readers \cup {t} /\ UNCHANGED writer

ReadUnlock(t) == readers' = readers \ {t} /\ UNCHANGED writer

WriteLock(t) == writer = NoThread /\ readers = {} /\ writer' = t /\ UNCHANGED readers

WriteUnlock(t) == writer = t /\ writer' = NoThread /\ UNCHANGED readers

Next == \E t \in Threads : \/ ReadLock(t) \/ ReadUnlock(t)
                           \/ WriteLock(t) \/ WriteUnlock(t)

Spec == Init /\ [][Next]_vars
=============================================================================
