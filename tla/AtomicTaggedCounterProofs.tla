--------------------- MODULE AtomicTaggedCounterProofs ---------------------
(***************************************************************************)
(* AtomicTaggedCounter implements CountAndTag for any number of threads    *)
(* and any word size.                                                      *)
(***************************************************************************)
EXTENDS AtomicTaggedCounter, TLAPS

(* Incrementing a word: the count goes up by one or wraps, the tag stays.  *)
(* (fetch_add(2) on i64)                                                   *)
LEMMA IncrementWord ==
    ASSUME NEW w \in Words
    PROVE  LET v == Wrap(increment(w))
           IN  /\ v \in Words
               /\ ref_count(v) = IF ref_count(w) = Half - 1 THEN -Half ELSE ref_count(w) + 1
               /\ tag(v) = tag(w)
  BY CounterAssumption DEF Words, Wrap, increment, ref_count, tag

(* Decrementing a word with (value | 1) - 2: the count goes down by one or *)
(* wraps, the tag is set.                                                  *)
LEMMA DecrementWord ==
    ASSUME NEW w \in Words
    PROVE  LET v == Wrap(decrement_and_set_tag(w))
           IN  /\ v \in Words
               /\ ref_count(v) = IF ref_count(w) = -Half THEN Half - 1 ELSE ref_count(w) - 1
               /\ tag(v)
  BY CounterAssumption DEF Words, Wrap, decrement_and_set_tag, ref_count, tag

(* fetch_and(!1): the count stays, the tag is cleared. *)
LEMMA ClearWord ==
    ASSUME NEW w \in Words
    PROVE  /\ clear_tag(w) \in Words
           /\ ref_count(clear_tag(w)) = ref_count(w)
           /\ ~tag(clear_tag(w))
  BY CounterAssumption DEF Words, clear_tag, ref_count, tag

LEMMA CounterTypeStep == TypeOK /\ [Next]_vars => TypeOK'
  <1> SUFFICES ASSUME TypeOK, [Next]_vars PROVE TypeOK'
    OBVIOUS
  <1>1. ASSUME NEW t \in Threads, increment_ref_count_relaxed(t) PROVE TypeOK'
    BY <1>1, IncrementWord DEF TypeOK, increment_ref_count_relaxed
  <1>2. ASSUME NEW t \in Threads, DecrementLoad(t) \/ DecrementRetry(t) PROVE TypeOK'
    BY <1>2 DEF TypeOK, DecrementLoad, DecrementRetry
  <1>3. ASSUME NEW t \in Threads, DecrementExchange(t) PROVE TypeOK'
    BY <1>3, DecrementWord DEF TypeOK, DecrementExchange
  <1>4. CASE fetch_and_clear_tag_relaxed
    BY <1>4, ClearWord DEF TypeOK, fetch_and_clear_tag_relaxed
  <1>5. CASE UNCHANGED vars
    BY <1>5 DEF TypeOK, vars
  <1> QED  BY <1>1, <1>2, <1>3, <1>4, <1>5 DEF Next

(* The word never leaves the range of its integer type. *)
THEOREM CounterTypeCorrect == Spec => []TypeOK
  <1>1. Init => TypeOK
    BY CounterAssumption DEF Init, TypeOK, Words, NewCounter
  <1> QED  BY <1>1, CounterTypeStep, PTL DEF Spec

(* The compare_exchange loop makes a decrement one atomic step: the word   *)
(* behaves as a count and a tag that change together, wrap-around          *)
(* included.                                                               *)
THEOREM CounterRefinement == Spec => ImplementsCountAndTag
  <1>1. Init => Abstract!Init
    BY DEF Init, Abstract!Init, NewCounter, ref_count, tag
  <1>2. TypeOK /\ [Next]_vars => [Abstract!Next]_Abstract!vars
    <2> SUFFICES ASSUME TypeOK, [Next]_vars PROVE [Abstract!Next]_Abstract!vars
      OBVIOUS
    <2>0. word \in Words
      BY DEF TypeOK
    <2>1. ASSUME NEW t \in Threads, increment_ref_count_relaxed(t)
          PROVE  Abstract!Increment
      BY <2>0, <2>1, IncrementWord DEF increment_ref_count_relaxed, Abstract!Increment
    <2>2. ASSUME NEW t \in Threads, DecrementLoad(t) \/ DecrementRetry(t)
          PROVE  UNCHANGED Abstract!vars
      BY <2>2 DEF DecrementLoad, DecrementRetry, Abstract!vars
    <2>3. ASSUME NEW t \in Threads, DecrementExchange(t)
          PROVE  Abstract!DecrementAndSetTag
      BY <2>0, <2>3, DecrementWord DEF DecrementExchange, Abstract!DecrementAndSetTag
    <2>4. CASE fetch_and_clear_tag_relaxed
      <3>1. Abstract!ClearTag
        BY <2>0, <2>4, ClearWord DEF fetch_and_clear_tag_relaxed, Abstract!ClearTag
      <3> QED  BY <3>1 DEF Abstract!Next
    <2>5. CASE UNCHANGED vars
      BY <2>5 DEF vars, Abstract!vars
    <2> QED  BY <2>1, <2>2, <2>3, <2>4, <2>5 DEF Next, Abstract!Next
  <1> QED  BY <1>1, <1>2, CounterTypeCorrect, PTL DEF Spec, Abstract!Spec, ImplementsCountAndTag
=============================================================================
