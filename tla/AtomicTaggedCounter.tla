------------------------ MODULE AtomicTaggedCounter ------------------------
(***************************************************************************)
(* One AtomicTaggedCounter (src/src/tagged_counter.rs): an AtomicI64 that  *)
(* several threads increment with fetch_add, decrement with a              *)
(* compare_exchange_weak loop, and the collector clears with fetch_and.    *)
(* The word holds -2*Half .. 2*Half-1 and wraps; Half is 2^62 in the code. *)
(***************************************************************************)
EXTENDS TaggedCounter

CONSTANTS Threads, Half

ASSUME CounterAssumption == Half \in Nat \ {0}

VARIABLES
    word,       \* the AtomicI64
    loop,       \* is the thread inside the compare_exchange loop?
    value       \* the local variable `value' of the loop

vars == <<word, loop, value>>

Words == -2 * Half .. 2 * Half - 1

(* i64 arithmetic: one addition or subtraction of 2 leaves the range by    *)
(* less than its size.                                                     *)
Wrap(v) == IF v >= 2 * Half THEN v - 4 * Half
           ELSE IF v < -2 * Half THEN v + 4 * Half ELSE v

TypeOK ==
    /\ word \in Words
    /\ loop \in [Threads -> BOOLEAN]
    /\ value \in [Threads -> Words]

Init ==
    /\ word = NewCounter
    /\ loop = [t \in Threads |-> FALSE]
    /\ value = [t \in Threads |-> NewCounter]

increment_ref_count_relaxed(t) ==
    /\ ~loop[t]
    /\ word' = Wrap(increment(word))
    /\ UNCHANGED <<loop, value>>

(* decrement_ref_count_and_set_tag_release: the first load, ... *)
DecrementLoad(t) ==
    /\ ~loop[t]
    /\ loop' = [loop EXCEPT ![t] = TRUE]
    /\ value' = [value EXCEPT ![t] = word]
    /\ UNCHANGED word

(* Mutant of DecrementExchange: a store in place of the exchange. *)
DecrementStore(t) ==
    /\ loop[t]
    /\ word' = Wrap(decrement_and_set_tag(value[t]))
    /\ loop' = [loop EXCEPT ![t] = FALSE]
    /\ UNCHANGED value

(* ... a successful compare_exchange_weak, ... *)
DecrementExchange(t) ==
    /\ loop[t]
    /\ word = value[t]
    /\ word' = Wrap(decrement_and_set_tag(value[t]))
    /\ loop' = [loop EXCEPT ![t] = FALSE]
    /\ UNCHANGED value

(* ... and one that fails, because the word has changed or spuriously. *)
DecrementRetry(t) ==
    /\ loop[t]
    /\ value' = [value EXCEPT ![t] = word]
    /\ UNCHANGED <<word, loop>>

(* The collector. *)
fetch_and_clear_tag_relaxed ==
    /\ word' = clear_tag(word)
    /\ UNCHANGED <<loop, value>>

Next ==
    \/ \E t \in Threads : \/ increment_ref_count_relaxed(t)
                          \/ DecrementLoad(t) \/ DecrementExchange(t) \/ DecrementRetry(t)
    \/ fetch_and_clear_tag_relaxed

Spec == Init /\ [][Next]_vars

-----------------------------------------------------------------------------
(* The count and the tag of the word change as one: no concurrent          *)
(* increment, decrement or clearing of the tag is lost by the              *)
(* compare_exchange loop, every completed decrement leaves the tag set,    *)
(* clearing the tag never disturbs the count, and at the limits of i64     *)
(* only the count wraps.                                                   *)
Abstract == INSTANCE CountAndTag WITH count <- ref_count(word), tagged <- tag(word)
ImplementsCountAndTag == Abstract!Spec
=============================================================================
