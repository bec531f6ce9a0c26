--------------------------- MODULE TaggedCounter ---------------------------
(***************************************************************************)
(* The encoding of a tagged counter in one signed integer                  *)
(* (src/src/tagged_counter.rs): the reference count in all bits but the    *)
(* lowest, the tag in the lowest bit.  The operators work on mathematical  *)
(* integers; AtomicTaggedCounter adds the 64-bit wrap-around.              *)
(***************************************************************************)
EXTENDS Integers

(* self.0 >> 1: the arithmetic shift rounds towards minus infinity, as     *)
(* \div does, so a negative count keeps its sign.                          *)
ref_count(v) == v \div 2

(* self.0 & 1 != 0 *)
tag(v) == v % 2 = 1

(* AtomicTaggedCounter::new *)
NewCounter == 0

(* fetch_add(2) *)
increment(v) == v + 2

(* A decrement that leaves the tag alone. *)
decrement_untagged(v) == v - 2

(* (value | 1) - 2 *)
decrement_and_set_tag(v) == (IF tag(v) THEN v ELSE v + 1) - 2

(* fetch_and(!1) *)
clear_tag(v) == v - (v % 2)
=============================================================================
