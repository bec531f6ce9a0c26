------------------------ MODULE SdarcBufferedEntry ------------------------
(***************************************************************************)
(* Sdarc on a machine where fetch_add(1, Acquire) orders only its load     *)
(* part before later accesses (C11, and AArch64 compiled from it): the     *)
(* increment that enters the reader critical section may become visible to *)
(* the collector after the pointer has been loaded.                        *)
(***************************************************************************)
EXTENDS Sdarc

VARIABLE unflushed    \* threads whose entry increment is not yet visible

bufferedVars == <<vars, unflushed>>

BufferedInit == Init /\ unflushed = {}

(* fetch_add(1, Acquire) of reader_critical_section, in load. *)
BufferedEnterLoad(t) ==
    /\ RoomForHandle /\ RoomToCount(t)
    /\ pc[t] = "idle"
    /\ Goto(t, "loadEntered")
    /\ unflushed' = unflushed \cup {t}
    /\ UNCHANGED <<collectorVars, counter, handles, cells, backRef, shardOf, cs>>

(* The store part of that fetch_add becomes visible. *)
Flush(t) ==
    /\ t \in unflushed
    /\ unflushed' = unflushed \ {t}
    /\ cs' = [cs EXCEPT ![shardOf[t]] = @ + 1]
    /\ UNCHANGED <<collectorVars, counter, handles, cells, backRef, pc, shardOf>>

(* fetch_sub works on the thread's own increment, so comes after it. *)
BufferedLeave(t) == t \notin unflushed /\ Leave(t) /\ UNCHANGED unflushed

BufferedNext ==
    \/ \E t \in Threads : BufferedEnterLoad(t) \/ Flush(t) \/ BufferedLeave(t)
    \/ /\ CollectorStep \/ \E t \in Threads : ThreadBegin(t) \/ ThreadContinue(t)
       /\ UNCHANGED unflushed

BufferedSpec == BufferedInit /\ [][BufferedNext]_bufferedVars

(* load: a reader stuck between loading the pointer and incrementing the   *)
(* counter is what "The reader critical section avoids": the object is not *)
(* freed under it.                                                         *)
ReaderHoldsOffCollector == tracked = "Freed" => At({"loaded"}) = {}
=============================================================================
