-------------------------- MODULE ScanMemoryOrder --------------------------
(***************************************************************************)
(* The scan of one object's counters under the memory orderings the code   *)
(* asks for (tagged_counter.rs, collector.rs), where Sdarc assumes that    *)
(* every load reads the latest value.                                      *)
(*                                                                         *)
(* The memory is that of the release-acquire fragment of the C++ and Rust  *)
(* model: a counter is the sequence of the values written to it, each with *)
(* the view it publishes; a thread has a view, the oldest value of each    *)
(* counter it may still read.  All writes are read-modify-writes, which    *)
(* read the last value and continue its release sequence; a Release write  *)
(* publishes the view of its thread, an Acquire read takes over the view   *)
(* that was published.                                                     *)
(***************************************************************************)
EXTENDS Integers, Sequences

CONSTANTS
    ShardCount,      \* thread s works on shard s
    MaxSteps         \* bound: increments and decrements by user threads

ASSUME MemoryAssumption ==
    /\ ShardCount \in Nat \ {0}
    /\ MaxSteps \in Nat

Shards == 0 .. ShardCount - 1
Users == Shards
Collector == ShardCount

(* A view has a position for each counter, and for each thread one for its *)
(* uses of the content: a use through a handle has the position of the     *)
(* decrement that gives the handle up.                                     *)
Use(t) == ShardCount + t
Places == 0 .. 2 * ShardCount - 1

VARIABLES
    history,   \* the values of each counter, oldest first: count, tag, view
    view,      \* what each thread knows: the oldest position it may read
    hold,      \* handles of each user thread
    pc,        \* pre, clear, recheck, freed
    k, sum,    \* next shard of the collector's loop, and its sum
    steps

vars == <<history, view, hold, pc, k, sum, steps>>

Nothing == [s \in Places |-> 0]
Join(v, w) == [s \in Places |-> IF v[s] < w[s] THEN w[s] ELSE v[s]]
Latest(s) == history[s][Len(history[s])]

(* SdarcInner::new on the last shard: the mutex of pending_to_track tells  *)
(* the collector about the counters and the first increment.               *)
Init ==
    /\ history = [s \in Shards |->
                     <<[count |-> IF s = ShardCount - 1 THEN 1 ELSE 0, tag |-> FALSE,
                        view |-> Nothing]>>]
    /\ view = [t \in Users \cup {Collector} |-> [s \in Places |-> IF s \in Shards THEN 1 ELSE 0]]
    /\ hold = [t \in Users |-> IF t = ShardCount - 1 THEN 1 ELSE 0]
    /\ pc = "pre" /\ k = 0 /\ sum = 0
    /\ steps = 0

(* Thread t, whose view is now, replaces the latest value of counter s. *)
Update(t, now, s, count, tag, acquire, release) ==
    LET old == Latest(s)
        seen == IF acquire THEN Join(now, old.view) ELSE now
        mine == [seen EXCEPT ![s] = Len(history[s]) + 1]
        published == IF release THEN Join(old.view, mine) ELSE old.view
    IN /\ history' = [history EXCEPT ![s] =
                         Append(@, [count |-> count, tag |-> tag, view |-> published])]
       /\ view' = [view EXCEPT ![t] = mine]

(* The collector reads the i-th value of counter s. *)
ReadAt(s, i, acquire) ==
    /\ i \in view[Collector][s] .. Len(history[s])
    /\ view' = [view EXCEPT ![Collector] =
                   [(IF acquire THEN Join(@, history[s][i].view) ELSE @) EXCEPT ![s] = i]]

-----------------------------------------------------------------------------
UserStep(t) ==
    /\ pc # "freed" /\ hold[t] > 0 /\ steps < MaxSteps
    /\ steps' = steps + 1
    /\ UNCHANGED <<pc, k, sum>>

(* Clone: increment_ref_count_relaxed *)
Clone(t) ==
    /\ UserStep(t)
    /\ hold' = [hold EXCEPT ![t] = @ + 1]
    /\ Update(t, view[t], t, Latest(t).count + 1, Latest(t).tag, FALSE, FALSE)

(* Mutant of DecrementReleases: Relaxed. *)
DecrementRelaxes == FALSE
DecrementReleases == TRUE

(* Drop: the last use of the content through this handle, then             *)
(* decrement_ref_count_and_set_tag_release.                                *)
Drop(t) ==
    /\ UserStep(t)
    /\ hold' = [hold EXCEPT ![t] = @ - 1]
    /\ Update(t, [view[t] EXCEPT ![Use(t)] = Len(history[t]) + 1], t,
              Latest(t).count - 1, TRUE, FALSE, DecrementReleases)

(* A handle is sent to another thread, by something that synchronises. *)
Send(t, u) ==
    /\ pc # "freed" /\ hold[t] > 0 /\ t # u
    /\ hold' = [hold EXCEPT ![t] = @ - 1, ![u] = @ + 1]
    /\ view' = [view EXCEPT ![u] = Join(@, view[t])]
    /\ UNCHANGED <<history, pc, k, sum, steps>>

-----------------------------------------------------------------------------
InLoop(p) == pc = p /\ k < ShardCount

(* Mutant of EndOfLoop: the loops stop one shard early. *)
EndOfLoopEarly(p, next) ==
    /\ pc = p /\ k = ShardCount - 1
    /\ pc' = next
    /\ k' = 0 /\ sum' = 0
    /\ UNCHANGED <<history, view, hold, steps>>
EndOfLoop(p, next) ==
    /\ pc = p /\ k = ShardCount
    /\ pc' = next
    /\ k' = 0 /\ sum' = 0
    /\ UNCHANGED <<history, view, hold, steps>>

(* read_ref_count_sum_relaxed *)
PreRead(i) ==
    /\ InLoop("pre")
    /\ ReadAt(k, i, FALSE)
    /\ k' = k + 1 /\ sum' = sum + history[k][i].count
    /\ UNCHANGED <<history, hold, pc, steps>>

PreEnd == EndOfLoop("pre", IF sum = 0 THEN "clear" ELSE "pre")

(* clear_tags_and_read_ref_count_sum_relaxed *)
ClearTag ==
    /\ InLoop("clear")
    /\ Update(Collector, view[Collector], k, Latest(k).count, FALSE, FALSE, FALSE)
    /\ k' = k + 1 /\ sum' = sum + Latest(k).count
    /\ UNCHANGED <<hold, pc, steps>>

ClearEnd == EndOfLoop("clear", IF sum = 0 THEN "recheck" ELSE "pre")

(* Mutant of StopsAtTag: the re-check only looks at the sum. *)
IgnoresTag(m) == FALSE
StopsAtTag(m) == m.tag

(* read_ref_count_sum_if_all_tags_unset_acquire *)
Recheck(i) ==
    /\ InLoop("recheck")
    /\ ReadAt(k, i, TRUE)
    /\ IF StopsAtTag(history[k][i])
       THEN pc' = "pre" /\ k' = 0 /\ sum' = 0
       ELSE UNCHANGED pc /\ k' = k + 1 /\ sum' = sum + history[k][i].count
    /\ UNCHANGED <<history, hold, steps>>

RecheckEnd == EndOfLoop("recheck", IF sum = 0 THEN "freed" ELSE "pre")

CollectorStep ==
    \/ PreEnd \/ ClearTag \/ ClearEnd \/ RecheckEnd
    \/ k \in Shards /\ \E i \in 1 .. Len(history[k]) : PreRead(i) \/ Recheck(i)

Next == CollectorStep \/ \E t \in Users : Clone(t) \/ Drop(t) \/ \E u \in Users : Send(t, u)

Spec == Init /\ [][Next]_vars

-----------------------------------------------------------------------------
(* The object is freed only when no thread has a handle of it. *)
FreedOnlyUnheld == pc = "freed" => \A t \in Users : hold[t] = 0

(* The assertion after the re-check: the counts that were read are not     *)
(* negative together.  Each of them may be stale, and a decrement may be   *)
(* read without the increment that it undoes.                              *)
RecheckNotNegative == pc = "recheck" /\ k = ShardCount => sum >= 0

(* The content is dropped after every use through a handle whose decrement *)
(* the re-check has seen: the Release decrements and the Acquire loads of  *)
(* the re-check order them, whoever wrote the value that is read.          *)
Decremented(s, j) == j > 1 /\ history[s][j].count < history[s][j - 1].count
FreedAfterSeenUses ==
    pc = "freed" => \A s \in Shards : \A j \in 1 .. view[Collector][s] :
                       Decremented(s, j) => j <= view[Collector][Use(s)]

(* An object that is freed with handles left was cloned behind the         *)
(* clearing pass, on a shard whose tag was already cleared: without such a *)
(* clone the Relaxed clearing is enough.                                   *)
Incremented(s, j) == j > 1 /\ history[s][j].count > history[s][j - 1].count
ClearedAt(s, j) == j > 1 /\ history[s][j].count = history[s][j - 1].count
ClonedBehind(s) ==
    \E j \in 1 .. Len(history[s]) :
        /\ Incremented(s, j)
        /\ \A i \in j .. Len(history[s]) : ~ ClearedAt(s, i)
FreedHeldOnlyIfClonedBehind ==
    pc = "freed" /\ (\E t \in Users : hold[t] > 0) => \E s \in Shards : ClonedBehind(s)
=============================================================================
