----------------------- MODULE CollectorStatusProofs -----------------------
(***************************************************************************)
(* Proofs about CollectorStatus, for any threads, slots and shard count,   *)
(* and without the bounds on calls and timeouts playing any role.          *)
(***************************************************************************)
EXTENDS CollectorStatus, TLAPS

(* Every used slot is in exactly one place: one pending list, the map, or  *)
(* the hands of free_pointers; only what is abandoned is being freed, and  *)
(* nothing is left to free outside the inner iterations.                   *)
ObjectInv ==
    /\ abandoned \subseteq used
    /\ tracked \subseteq used
    /\ freeing \subseteq abandoned
    /\ freeing \cap tracked = {}
    /\ \A s \in Shards : pending[s] \subseteq used \ freeing
    /\ NeverTrackedTwice
    /\ \A o \in used :
          o \in tracked \cup freeing \/ \E s \in Shards : o \in pending[s]
    /\ \A o, p \in freeing : o = p
    /\ freeing # {} => cpc = "collecting"

(* What the status says is where the collector is in its loop. *)
StatusInv ==
    /\ cpc \in {"taking", "collecting"} => status = Running(outer)
    /\ cpc \in {"parking", "begin"} => status = Waiting(outer)

(* status_mutex is held from Lock until the thread goes to sleep. *)
HolderInv == \A t \in Threads : pc[t] \in {"locked", "unparked"} <=> holder = t

InWait(t) == pc[t] \in {"asleep", "woken"}

(* How far the collector is with what a waiting thread is owed.  Nothing   *)
(* is known before the iteration it waits for; while that one takes the    *)
(* pending lists, the lists it has taken hold none of it; while it         *)
(* collects, all of it is in must; afterwards nothing of it is left.       *)
OwedInv ==
    \A t \in Threads :
       /\ owed[t] \subseteq abandoned
       /\ InWait(t) =>
            /\ target[t].kind = "Waiting"
            /\ target[t].iteration <= outer + 1
            /\ target[t].iteration < outer => owed[t] = {}
            /\ target[t].iteration = outer =>
                 /\ cpc = "taking" =>
                      \A s \in Shards : s < next => owed[t] \cap pending[s] = {}
                 /\ cpc = "collecting" => owed[t] \subseteq must
                 /\ cpc \in {"parking", "begin"} => owed[t] = {}

(* The unpark of a thread is there until the collector has seen it, that   *)
(* is, until the collector is about to begin the iteration the thread      *)
(* waits for.                                                              *)
TokenInv ==
    \A t \in Threads :
       /\ pc[t] = "unparked" /\ cpc # "begin" => token
       /\ InWait(t) /\ target[t].iteration = outer + 1 /\ cpc # "begin" => token

IInv == TypeOK /\ ObjectInv /\ StatusInv /\ HolderInv /\ OwedInv /\ TokenInv

LEMMA TypeStep ==
    ASSUME TypeOK, [Next]_vars
    PROVE  TypeOK'
<1>1. ASSUME NEW t \in Threads, NEW o \in Slots, NEW s \in Shards, New(t, o, s)
      PROVE  TypeOK'
  BY <1>1
     DEF New, TypeOK, CollectorStates, Waiting, Running, Shards, statusVars,
         objectVars, loopVars
<1>2. ASSUME NEW t \in Threads, NEW o \in Slots, Abandon(t, o)
      PROVE  TypeOK'
  BY <1>2
     DEF Abandon, TypeOK, CollectorStates, Waiting, Running, Shards,
         statusVars, objectVars, loopVars
<1>3. ASSUME NEW t \in Threads, UpdateNow(t)
      PROVE  TypeOK'
  BY <1>3
     DEF UpdateNow, TypeOK, CollectorStates, Waiting, Running, Shards,
         statusVars, objectVars, loopVars
<1>4. ASSUME NEW t \in Threads, CallAndWait(t)
      PROVE  TypeOK'
  BY <1>4
     DEF CallAndWait, TypeOK, CollectorStates, Waiting, Running, Shards,
         statusVars, objectVars, loopVars
<1>5. ASSUME NEW t \in Threads, Lock(t)
      PROVE  TypeOK'
  BY <1>5
     DEF Lock, TypeOK, CollectorStates, Waiting, Running, Shards, statusVars,
         objectVars, loopVars
<1>6. ASSUME NEW t \in Threads, Unpark(t)
      PROVE  TypeOK'
  BY <1>6
     DEF Unpark, TypeOK, CollectorStates, Waiting, Running, Shards, statusVars,
         objectVars, loopVars
<1>7. ASSUME NEW t \in Threads, StartWaiting(t)
      PROVE  TypeOK'
  BY <1>7 DEF StartWaiting, TypeOK, CollectorStates, Waiting, Shards,
            after_at_least_one_full_collection, statusVars, objectVars, loopVars
<1>8. ASSUME NEW t \in Threads, ReevaluateWait(t)
      PROVE  TypeOK'
  BY <1>8
     DEF ReevaluateWait, TypeOK, CollectorStates, Waiting, Running, Shards,
         statusVars, objectVars, loopVars
<1>9. CASE BeginIteration
  BY <1>9, CollectorAssumption
    
        DEF BeginIteration, TypeOK, CollectorStates, Running, statusVars,
            objectVars, loopVars
<1>10. CASE TakeNewCounters
  BY <1>10, CollectorAssumption
     DEF TakeNewCounters, TypeOK, Shards, statusVars, objectVars, loopVars
<1>11. CASE StartInnerIterations
  BY <1>11
     DEF StartInnerIterations, TypeOK, CollectorStates, Waiting, Running,
         Shards, statusVars, objectVars, loopVars
<1>12. ASSUME NEW o \in Slots, RemoveTracked(o)
      PROVE  TypeOK'
  BY <1>12
     DEF RemoveTracked, TypeOK, CollectorStates, Waiting, Running, Shards,
         statusVars, objectVars, loopVars
<1>13. ASSUME NEW o \in Slots, FreePointer(o)
      PROVE  TypeOK'
  BY <1>13
     DEF FreePointer, TypeOK, CollectorStates, Waiting, Running, Shards,
         statusVars, objectVars, loopVars
<1>14. CASE FinishIteration
  BY <1>14
     DEF FinishIteration, TypeOK, CollectorStates, Waiting, Running, Shards,
         statusVars, objectVars, loopVars
<1>15. CASE ParkUnparked
  BY <1>15
     DEF ParkUnparked, TypeOK, CollectorStates, Waiting, Running, Shards,
         statusVars, objectVars, loopVars
<1>16. CASE ParkTimeout
  <2>1. timeouts' \in Nat
    BY <1>16 DEF ParkTimeout, TypeOK
  <2>2. token' \in BOOLEAN
    BY <1>16 DEF ParkTimeout
  <2>3. cpc' \in {"begin", "taking", "collecting", "parking"}
    BY <1>16 DEF ParkTimeout
  <2>4. UNCHANGED <<status, holder, pc, target, owed, calls, objectVars,
                    outer, next, tracked, must, freeing>>
    BY <1>16 DEF ParkTimeout
  <2>5. QED
    BY <2>1, <2>2, <2>3, <2>4 DEF TypeOK, objectVars
<1>17. CASE UNCHANGED vars
  BY <1>17
     DEF vars, TypeOK, CollectorStates, Waiting, Running, Shards, statusVars,
         objectVars, loopVars
<1>18. QED
  BY <1>1, <1>2, <1>3, <1>4, <1>5, <1>6, <1>7, <1>8, <1>9, <1>10, <1>11,
     <1>12, <1>13, <1>14, <1>15, <1>16, <1>17
     DEF Next, WaitStep, CollectorStep

LEMMA ObjectStep ==
    ASSUME TypeOK, ObjectInv, [Next]_vars
    PROVE  ObjectInv'
<1>1. ASSUME NEW t \in Threads, NEW o \in Slots, NEW s \in Shards, New(t, o, s)
      PROVE  ObjectInv'
  BY <1>1
     DEF New, ObjectInv, NeverTrackedTwice, TypeOK, statusVars, objectVars,
         loopVars
<1>2. ASSUME NEW t \in Threads, NEW o \in Slots, Abandon(t, o)
      PROVE  ObjectInv'
  BY <1>2
     DEF Abandon, ObjectInv, NeverTrackedTwice, TypeOK, statusVars, objectVars,
         loopVars
<1>3. ASSUME NEW t \in Threads, UpdateNow(t)
      PROVE  ObjectInv'
  BY <1>3
     DEF UpdateNow, ObjectInv, NeverTrackedTwice, TypeOK, statusVars,
         objectVars, loopVars
<1>4. ASSUME NEW t \in Threads, CallAndWait(t)
      PROVE  ObjectInv'
  BY <1>4
     DEF CallAndWait, ObjectInv, NeverTrackedTwice, TypeOK, statusVars,
         objectVars, loopVars
<1>5. ASSUME NEW t \in Threads, Lock(t)
      PROVE  ObjectInv'
  BY <1>5
     DEF Lock, ObjectInv, NeverTrackedTwice, TypeOK, statusVars, objectVars,
         loopVars
<1>6. ASSUME NEW t \in Threads, Unpark(t)
      PROVE  ObjectInv'
  BY <1>6
     DEF Unpark, ObjectInv, NeverTrackedTwice, TypeOK, statusVars, objectVars,
         loopVars
<1>7. ASSUME NEW t \in Threads, StartWaiting(t)
      PROVE  ObjectInv'
  BY <1>7
     DEF StartWaiting, ObjectInv, NeverTrackedTwice, TypeOK, statusVars,
         objectVars, loopVars
<1>8. ASSUME NEW t \in Threads, ReevaluateWait(t)
      PROVE  ObjectInv'
  BY <1>8
     DEF ReevaluateWait, ObjectInv, NeverTrackedTwice, TypeOK, statusVars,
         objectVars, loopVars
<1>9. CASE BeginIteration
  BY <1>9
     DEF BeginIteration, ObjectInv, NeverTrackedTwice, TypeOK, statusVars,
         objectVars, loopVars
<1>10. CASE TakeNewCounters
  <2>1. next \in Shards
    BY <1>10, CollectorAssumption DEF TakeNewCounters, TypeOK, Shards
  <2>2. /\ pending'[next] = {}
        /\ \A s \in Shards \ {next} : pending'[s] = pending[s]
        /\ tracked' = tracked \cup pending[next]
        /\ UNCHANGED <<used, abandoned, freeing, cpc>>
    BY <1>10, <2>1 DEF TakeNewCounters, TypeOK, statusVars
  <2>3. \A o \in used :
           o \in tracked' \cup freeing \/ \E s \in Shards : o \in pending'[s]
    BY <2>1, <2>2 DEF ObjectInv
  <2>4. NeverTrackedTwice'
    BY <2>1, <2>2 DEF ObjectInv, NeverTrackedTwice
  <2>5. \A s \in Shards : pending'[s] \subseteq used \ freeing
    BY <2>1, <2>2 DEF ObjectInv
  <2>6. QED
    BY <2>1, <2>2, <2>3, <2>4, <2>5 DEF ObjectInv
<1>11. CASE StartInnerIterations
  BY <1>11
     DEF StartInnerIterations, ObjectInv, NeverTrackedTwice, TypeOK,
         statusVars, objectVars, loopVars
<1>12. ASSUME NEW o \in Slots, RemoveTracked(o)
      PROVE  ObjectInv'
  BY <1>12
     DEF RemoveTracked, ObjectInv, NeverTrackedTwice, TypeOK, statusVars,
         objectVars, loopVars
<1>13. ASSUME NEW o \in Slots, FreePointer(o)
      PROVE  ObjectInv'
  BY <1>13
     DEF FreePointer, ObjectInv, NeverTrackedTwice, TypeOK, statusVars,
         objectVars, loopVars
<1>14. CASE FinishIteration
  BY <1>14
     DEF FinishIteration, ObjectInv, NeverTrackedTwice, TypeOK, statusVars,
         objectVars, loopVars
<1>15. CASE ParkUnparked
  BY <1>15
     DEF ParkUnparked, ObjectInv, NeverTrackedTwice, TypeOK, statusVars,
         objectVars, loopVars
<1>16. CASE ParkTimeout
  BY <1>16
     DEF ParkTimeout, ObjectInv, NeverTrackedTwice, TypeOK, statusVars,
         objectVars, loopVars
<1>17. CASE UNCHANGED vars
  BY <1>17
     DEF vars, ObjectInv, NeverTrackedTwice, TypeOK, statusVars, objectVars,
         loopVars
<1>18. QED
  BY <1>1, <1>2, <1>3, <1>4, <1>5, <1>6, <1>7, <1>8, <1>9, <1>10, <1>11,
     <1>12, <1>13, <1>14, <1>15, <1>16, <1>17
     DEF Next, WaitStep, CollectorStep

LEMMA StatusStep ==
    ASSUME TypeOK, StatusInv, [Next]_vars
    PROVE  StatusInv'
<1>1. ASSUME NEW t \in Threads, NEW o \in Slots, NEW s \in Shards, New(t, o, s)
      PROVE  StatusInv'
  BY <1>1
     DEF New, StatusInv, Waiting, Running, TypeOK, statusVars, objectVars,
         loopVars
<1>2. ASSUME NEW t \in Threads, NEW o \in Slots, Abandon(t, o)
      PROVE  StatusInv'
  BY <1>2
     DEF Abandon, StatusInv, Waiting, Running, TypeOK, statusVars, objectVars,
         loopVars
<1>3. ASSUME NEW t \in Threads, UpdateNow(t)
      PROVE  StatusInv'
  BY <1>3
     DEF UpdateNow, StatusInv, Waiting, Running, TypeOK, statusVars,
         objectVars, loopVars
<1>4. ASSUME NEW t \in Threads, CallAndWait(t)
      PROVE  StatusInv'
  BY <1>4
     DEF CallAndWait, StatusInv, Waiting, Running, TypeOK, statusVars,
         objectVars, loopVars
<1>5. ASSUME NEW t \in Threads, Lock(t)
      PROVE  StatusInv'
  BY <1>5
     DEF Lock, StatusInv, Waiting, Running, TypeOK, statusVars, objectVars,
         loopVars
<1>6. ASSUME NEW t \in Threads, Unpark(t)
      PROVE  StatusInv'
  BY <1>6
     DEF Unpark, StatusInv, Waiting, Running, TypeOK, statusVars, objectVars,
         loopVars
<1>7. ASSUME NEW t \in Threads, StartWaiting(t)
      PROVE  StatusInv'
  BY <1>7
     DEF StartWaiting, StatusInv, Waiting, Running, TypeOK, statusVars,
         objectVars, loopVars
<1>8. ASSUME NEW t \in Threads, ReevaluateWait(t)
      PROVE  StatusInv'
  BY <1>8
     DEF ReevaluateWait, StatusInv, Waiting, Running, TypeOK, statusVars,
         objectVars, loopVars
<1>9. CASE BeginIteration
  BY <1>9
     DEF BeginIteration, StatusInv, Waiting, Running, TypeOK, statusVars,
         objectVars, loopVars
<1>10. CASE TakeNewCounters
  BY <1>10
     DEF TakeNewCounters, StatusInv, Waiting, Running, TypeOK, statusVars,
         objectVars, loopVars
<1>11. CASE StartInnerIterations
  BY <1>11
     DEF StartInnerIterations, StatusInv, Waiting, Running, TypeOK, statusVars,
         objectVars, loopVars
<1>12. ASSUME NEW o \in Slots, RemoveTracked(o)
      PROVE  StatusInv'
  BY <1>12
     DEF RemoveTracked, StatusInv, Waiting, Running, TypeOK, statusVars,
         objectVars, loopVars
<1>13. ASSUME NEW o \in Slots, FreePointer(o)
      PROVE  StatusInv'
  BY <1>13
     DEF FreePointer, StatusInv, Waiting, Running, TypeOK, statusVars,
         objectVars, loopVars
<1>14. CASE FinishIteration
  BY <1>14
     DEF FinishIteration, StatusInv, Waiting, Running, TypeOK, statusVars,
         objectVars, loopVars
<1>15. CASE ParkUnparked
  BY <1>15
     DEF ParkUnparked, StatusInv, Waiting, Running, TypeOK, statusVars,
         objectVars, loopVars
<1>16. CASE ParkTimeout
  BY <1>16
     DEF ParkTimeout, StatusInv, Waiting, Running, TypeOK, statusVars,
         objectVars, loopVars
<1>17. CASE UNCHANGED vars
  BY <1>17
     DEF vars, StatusInv, Waiting, Running, TypeOK, statusVars, objectVars,
         loopVars
<1>18. QED
  BY <1>1, <1>2, <1>3, <1>4, <1>5, <1>6, <1>7, <1>8, <1>9, <1>10, <1>11,
     <1>12, <1>13, <1>14, <1>15, <1>16, <1>17
     DEF Next, WaitStep, CollectorStep

LEMMA HolderStep ==
    ASSUME TypeOK, HolderInv, [Next]_vars
    PROVE  HolderInv'
<1>1. ASSUME NEW t \in Threads, NEW o \in Slots, NEW s \in Shards, New(t, o, s)
      PROVE  HolderInv'
  BY <1>1 DEF New, HolderInv, TypeOK, statusVars, objectVars, loopVars
<1>2. ASSUME NEW t \in Threads, NEW o \in Slots, Abandon(t, o)
      PROVE  HolderInv'
  BY <1>2 DEF Abandon, HolderInv, TypeOK, statusVars, objectVars, loopVars
<1>3. ASSUME NEW t \in Threads, UpdateNow(t)
      PROVE  HolderInv'
  BY <1>3 DEF UpdateNow, HolderInv, TypeOK, statusVars, objectVars, loopVars
<1>4. ASSUME NEW t \in Threads, CallAndWait(t)
      PROVE  HolderInv'
  BY <1>4 DEF CallAndWait, HolderInv, TypeOK, statusVars, objectVars, loopVars
<1>5. ASSUME NEW t \in Threads, Lock(t)
      PROVE  HolderInv'
  BY <1>5, CollectorAssumption DEF Lock, HolderInv, TypeOK
<1>6. ASSUME NEW t \in Threads, Unpark(t)
      PROVE  HolderInv'
  BY <1>6 DEF Unpark, HolderInv, TypeOK, statusVars, objectVars, loopVars
<1>7. ASSUME NEW t \in Threads, StartWaiting(t)
      PROVE  HolderInv'
  BY <1>7, CollectorAssumption DEF StartWaiting, HolderInv, TypeOK
<1>8. ASSUME NEW t \in Threads, ReevaluateWait(t)
      PROVE  HolderInv'
  BY <1>8
     DEF ReevaluateWait, HolderInv, TypeOK, statusVars, objectVars, loopVars
<1>9. CASE BeginIteration
  BY <1>9
     DEF BeginIteration, HolderInv, TypeOK, statusVars, objectVars, loopVars
<1>10. CASE TakeNewCounters
  BY <1>10
     DEF TakeNewCounters, HolderInv, TypeOK, statusVars, objectVars, loopVars
<1>11. CASE StartInnerIterations
  BY <1>11
     DEF StartInnerIterations, HolderInv, TypeOK, statusVars, objectVars,
         loopVars
<1>12. ASSUME NEW o \in Slots, RemoveTracked(o)
      PROVE  HolderInv'
  BY <1>12
     DEF RemoveTracked, HolderInv, TypeOK, statusVars, objectVars, loopVars
<1>13. ASSUME NEW o \in Slots, FreePointer(o)
      PROVE  HolderInv'
  BY <1>13 DEF FreePointer, HolderInv, TypeOK, statusVars, objectVars, loopVars
<1>14. CASE FinishIteration
  BY <1>14
     DEF FinishIteration, HolderInv, TypeOK, statusVars, objectVars, loopVars
<1>15. CASE ParkUnparked
  BY <1>15
     DEF ParkUnparked, HolderInv, TypeOK, statusVars, objectVars, loopVars
<1>16. CASE ParkTimeout
  BY <1>16 DEF ParkTimeout, HolderInv, TypeOK, statusVars, objectVars, loopVars
<1>17. CASE UNCHANGED vars
  BY <1>17 DEF vars, HolderInv, TypeOK, statusVars, objectVars, loopVars
<1>18. QED
  BY <1>1, <1>2, <1>3, <1>4, <1>5, <1>6, <1>7, <1>8, <1>9, <1>10, <1>11,
     <1>12, <1>13, <1>14, <1>15, <1>16, <1>17
     DEF Next, WaitStep, CollectorStep

LEMMA OwedStep ==
    ASSUME TypeOK, ObjectInv, StatusInv, OwedInv, [Next]_vars
    PROVE  OwedInv'
<1>1. ASSUME NEW t \in Threads, NEW o \in Slots, NEW s \in Shards, New(t, o, s)
      PROVE  OwedInv'
  <2>1. \A u \in Threads : owed[u] \subseteq used /\ o \notin owed[u]
    BY <1>1 DEF New, OwedInv, ObjectInv, TypeOK
  <2>2. \A u \in Threads, r \in Shards :
           owed[u] \cap pending'[r] = owed[u] \cap pending[r]
    BY <1>1, <2>1 DEF New, TypeOK
  <2>3. QED
    BY <1>1, <2>2 DEF New, OwedInv, InWait, statusVars, loopVars
<1>2. ASSUME NEW t \in Threads, NEW o \in Slots, Abandon(t, o)
      PROVE  OwedInv'
  BY <1>2
     DEF Abandon, OwedInv, InWait, StatusInv, Waiting, Running, TypeOK,
         statusVars, objectVars, loopVars
<1>3. ASSUME NEW t \in Threads, UpdateNow(t)
      PROVE  OwedInv'
  BY <1>3
     DEF UpdateNow, OwedInv, InWait, StatusInv, Waiting, Running, TypeOK,
         statusVars, objectVars, loopVars
<1>4. ASSUME NEW t \in Threads, CallAndWait(t)
      PROVE  OwedInv'
  BY <1>4
     DEF CallAndWait, OwedInv, InWait, StatusInv, Waiting, Running, TypeOK,
         statusVars, objectVars, loopVars
<1>5. ASSUME NEW t \in Threads, Lock(t)
      PROVE  OwedInv'
  BY <1>5
     DEF Lock, OwedInv, InWait, StatusInv, Waiting, Running, TypeOK,
         statusVars, objectVars, loopVars
<1>6. ASSUME NEW t \in Threads, Unpark(t)
      PROVE  OwedInv'
  BY <1>6
     DEF Unpark, OwedInv, InWait, StatusInv, Waiting, Running, TypeOK,
         statusVars, objectVars, loopVars
<1>7. ASSUME NEW t \in Threads, StartWaiting(t)
      PROVE  OwedInv'
  <2>1. /\ target'[t] = Waiting(outer + 1)
        /\ \A u \in Threads \ {t} : target'[u] = target[u] /\ pc'[u] = pc[u]
        /\ UNCHANGED <<owed, abandoned, pending, cpc, outer, next, must>>
    BY <1>7
       DEF StartWaiting, after_at_least_one_full_collection, StatusInv,
           Waiting,
             Running, TypeOK, objectVars, loopVars
  <2>2. QED
    BY <2>1 DEF OwedInv, InWait, Waiting, TypeOK
<1>8. ASSUME NEW t \in Threads, ReevaluateWait(t)
      PROVE  OwedInv'
  BY <1>8
     DEF ReevaluateWait, OwedInv, InWait, StatusInv, Waiting, Running, TypeOK,
         statusVars, objectVars, loopVars
<1>9. CASE BeginIteration
  <2>1. \A s \in Shards : ~(s < 0)
    BY CollectorAssumption DEF Shards
  <2>2. ASSUME NEW t \in Threads, InWait(t)
        PROVE  /\ target[t].iteration \in Nat
               /\ target[t].iteration <= outer'
               /\ target[t].iteration < outer' => owed[t] = {}
    <3>1. target[t] \in CollectorStates /\ outer \in Nat /\ outer' = outer + 1
      BY <1>9 DEF BeginIteration, TypeOK
    <3>2. /\ target[t].iteration <= outer + 1
          /\ target[t].iteration <= outer => owed[t] = {}
      BY <1>9, <2>2, <3>1 DEF BeginIteration, OwedInv, CollectorStates
    <3>3. QED
      BY <3>1, <3>2 DEF CollectorStates
  <2>3. QED
    BY <1>9, <2>1, <2>2 DEF BeginIteration, OwedInv, InWait, TypeOK, objectVars
<1>10. CASE TakeNewCounters
  <2>1. /\ next \in Shards
        /\ \A s \in Shards : s < next + 1 => s < next \/ s = next
    BY <1>10, CollectorAssumption DEF TakeNewCounters, TypeOK, Shards
  <2>2. /\ pending'[next] = {}
        /\ \A s \in Shards \ {next} : pending'[s] = pending[s]
        /\ next' = next + 1
        /\ UNCHANGED <<owed, abandoned, pc, target, cpc, outer, must>>
    BY <1>10, <2>1 DEF TakeNewCounters, TypeOK, statusVars
  <2>3. QED
    BY <1>10, <2>1, <2>2 DEF TakeNewCounters, OwedInv, InWait
<1>11. CASE StartInnerIterations
  BY <1>11
     DEF StartInnerIterations, OwedInv, InWait, StatusInv, Waiting, Running,
         TypeOK, statusVars, objectVars, loopVars
<1>12. ASSUME NEW o \in Slots, RemoveTracked(o)
      PROVE  OwedInv'
  BY <1>12
     DEF RemoveTracked, OwedInv, InWait, StatusInv, Waiting, Running, TypeOK,
         statusVars, objectVars, loopVars
<1>13. ASSUME NEW o \in Slots, FreePointer(o)
      PROVE  OwedInv'
  BY <1>13
     DEF FreePointer, OwedInv, InWait, StatusInv, Waiting, Running, TypeOK,
         statusVars, objectVars, loopVars
<1>14. CASE FinishIteration
  BY <1>14
     DEF FinishIteration, OwedInv, InWait, StatusInv, Waiting, Running, TypeOK,
         statusVars, objectVars, loopVars
<1>15. CASE ParkUnparked
  BY <1>15
     DEF ParkUnparked, OwedInv, InWait, StatusInv, Waiting, Running, TypeOK,
         statusVars, objectVars, loopVars
<1>16. CASE ParkTimeout
  BY <1>16
     DEF ParkTimeout, OwedInv, InWait, StatusInv, Waiting, Running, TypeOK,
         statusVars, objectVars, loopVars
<1>17. CASE UNCHANGED vars
  BY <1>17
     DEF vars, OwedInv, InWait, StatusInv, Waiting, Running, TypeOK,
         statusVars, objectVars, loopVars
<1>18. QED
  BY <1>1, <1>2, <1>3, <1>4, <1>5, <1>6, <1>7, <1>8, <1>9, <1>10, <1>11,
     <1>12, <1>13, <1>14, <1>15, <1>16, <1>17
     DEF Next, WaitStep, CollectorStep

LEMMA TokenStep ==
    ASSUME TypeOK, StatusInv, HolderInv, OwedInv, TokenInv, [Next]_vars
    PROVE  TokenInv'
<1>1. ASSUME NEW t \in Threads, NEW o \in Slots, NEW s \in Shards, New(t, o, s)
      PROVE  TokenInv'
  BY <1>1
     DEF New, TokenInv, OwedInv, InWait, StatusInv, HolderInv, Waiting,
         Running, TypeOK, statusVars, objectVars, loopVars
<1>2. ASSUME NEW t \in Threads, NEW o \in Slots, Abandon(t, o)
      PROVE  TokenInv'
  BY <1>2
     DEF Abandon, TokenInv, OwedInv, InWait, StatusInv, HolderInv, Waiting,
         Running, TypeOK, statusVars, objectVars, loopVars
<1>3. ASSUME NEW t \in Threads, UpdateNow(t)
      PROVE  TokenInv'
  BY <1>3
     DEF UpdateNow, TokenInv, OwedInv, InWait, StatusInv, HolderInv, Waiting,
         Running, TypeOK, statusVars, objectVars, loopVars
<1>4. ASSUME NEW t \in Threads, CallAndWait(t)
      PROVE  TokenInv'
  BY <1>4
     DEF CallAndWait, TokenInv, OwedInv, InWait, StatusInv, HolderInv, Waiting,
         Running, TypeOK, statusVars, objectVars, loopVars
<1>5. ASSUME NEW t \in Threads, Lock(t)
      PROVE  TokenInv'
  BY <1>5
     DEF Lock, TokenInv, OwedInv, InWait, StatusInv, HolderInv, Waiting,
         Running, TypeOK, statusVars, objectVars, loopVars
<1>6. ASSUME NEW t \in Threads, Unpark(t)
      PROVE  TokenInv'
  BY <1>6
     DEF Unpark, TokenInv, OwedInv, InWait, StatusInv, HolderInv, Waiting,
         Running, TypeOK, statusVars, objectVars, loopVars
<1>7. ASSUME NEW t \in Threads, StartWaiting(t)
      PROVE  TokenInv'
  BY <1>7
     DEF StartWaiting, TokenInv, OwedInv, InWait, StatusInv, HolderInv,
         Waiting, Running, TypeOK, statusVars, objectVars, loopVars
<1>8. ASSUME NEW t \in Threads, ReevaluateWait(t)
      PROVE  TokenInv'
  BY <1>8
     DEF ReevaluateWait, TokenInv, OwedInv, InWait, StatusInv, HolderInv,
         Waiting, Running, TypeOK, statusVars, objectVars, loopVars
<1>9. CASE BeginIteration
  <2>1. \A t \in Threads : pc'[t] # "unparked"
    BY <1>9, CollectorAssumption DEF BeginIteration, HolderInv
  <2>2. \A t \in Threads : InWait(t) => target[t].iteration # outer' + 1
    BY <1>9 DEF BeginIteration, OwedInv, TypeOK, CollectorStates
  <2>3. QED
    BY <1>9, <2>1, <2>2 DEF BeginIteration, TokenInv, InWait
<1>10. CASE TakeNewCounters
  BY <1>10
     DEF TakeNewCounters, TokenInv, OwedInv, InWait, StatusInv, HolderInv,
         Waiting, Running, TypeOK, statusVars, objectVars, loopVars
<1>11. CASE StartInnerIterations
  BY <1>11
     DEF StartInnerIterations, TokenInv, OwedInv, InWait, StatusInv, HolderInv,
         Waiting, Running, TypeOK, statusVars, objectVars, loopVars
<1>12. ASSUME NEW o \in Slots, RemoveTracked(o)
      PROVE  TokenInv'
  BY <1>12
     DEF RemoveTracked, TokenInv, OwedInv, InWait, StatusInv, HolderInv,
         Waiting, Running, TypeOK, statusVars, objectVars, loopVars
<1>13. ASSUME NEW o \in Slots, FreePointer(o)
      PROVE  TokenInv'
  BY <1>13
     DEF FreePointer, TokenInv, OwedInv, InWait, StatusInv, HolderInv, Waiting,
         Running, TypeOK, statusVars, objectVars, loopVars
<1>14. CASE FinishIteration
  BY <1>14
     DEF FinishIteration, TokenInv, OwedInv, InWait, StatusInv, HolderInv,
         Waiting, Running, TypeOK, statusVars, objectVars, loopVars
<1>15. CASE ParkUnparked
  BY <1>15
     DEF ParkUnparked, TokenInv, OwedInv, InWait, StatusInv, HolderInv,
         Waiting, Running, TypeOK, statusVars, objectVars, loopVars
<1>16. CASE ParkTimeout
  BY <1>16
     DEF ParkTimeout, TokenInv, OwedInv, InWait, StatusInv, HolderInv, Waiting,
         Running, TypeOK, statusVars, objectVars, loopVars
<1>17. CASE UNCHANGED vars
  BY <1>17
     DEF vars, TokenInv, OwedInv, InWait, StatusInv, HolderInv, Waiting,
         Running, TypeOK, statusVars, objectVars, loopVars
<1>18. QED
  BY <1>1, <1>2, <1>3, <1>4, <1>5, <1>6, <1>7, <1>8, <1>9, <1>10, <1>11,
     <1>12, <1>13, <1>14, <1>15, <1>16, <1>17
     DEF Next, WaitStep, CollectorStep

LEMMA InitHolds == Init => IInv
<1> SUFFICES ASSUME Init PROVE IInv
  OBVIOUS
<1>1. TypeOK
  <2>1. token \in BOOLEAN
    BY DEF Init
  <2>2. status \in CollectorStates /\ target \in [Threads -> CollectorStates]
    BY DEF Init, CollectorStates, Waiting
  <2>3. QED
    BY <2>1, <2>2, CollectorAssumption DEF Init, TypeOK
<1>2. ObjectInv
  BY DEF Init, ObjectInv, NeverTrackedTwice
<1>3. StatusInv /\ HolderInv
  BY CollectorAssumption DEF Init, StatusInv, HolderInv
<1>4. OwedInv /\ TokenInv
  BY DEF Init, OwedInv, TokenInv, InWait
<1>5. QED
  BY <1>1, <1>2, <1>3, <1>4 DEF IInv

LEMMA StepHolds == IInv /\ [Next]_vars => IInv'
  BY TypeStep, ObjectStep, StatusStep, HolderStep, OwedStep, TokenStep DEF IInv

LEMMA Inductive == Spec => []IInv
  BY InitHolds, StepHolds, PTL DEF Spec

(* Every variable of the outer loop and of the callers keeps its type: the *)
(* status is a CollectorState, and take_new_counters_to_track never passes *)
(* the last shard.                                                         *)
THEOREM StatusTypeCorrect == Spec => []TypeOK
<1>1. IInv => TypeOK
  BY DEF IInv
<1>2. QED
  BY <1>1, Inductive, PTL

(* assert!(replaced.is_none()) never fails in take_new_counters_to_track,  *)
(* for any number of threads, shards and counter slots, however often the  *)
(* slots are reused.                                                       *)
THEOREM NoDoubleRegistration == Spec => []NeverTrackedTwice
<1>1. IInv => NeverTrackedTwice
  BY DEF IInv, ObjectInv
<1>2. QED
  BY <1>1, Inductive, PTL

(* When collector_update_now_and_wait returns, what was abandoned when it  *)
(* was called has been freed: the state it waits for is never the end of   *)
(* an iteration that began before the call.                                *)
THEOREM WaitIsAFullCollection == Spec => WaitCollectsWhatWasAbandoned
<1> DEFINE Returns ==
       \A t \in Threads : (pc[t] = "woken" /\ pc'[t] = "idle") => owed[t] = {}
<1>1. ASSUME IInv, [Next]_vars, NEW t \in Threads,
             pc[t] = "woken", pc'[t] = "idle"
      PROVE  owed[t] = {}
  <2>1. ReevaluateWait(t)
    BY <1>1
       DEF IInv, TypeOK, Next, WaitStep, CollectorStep, New, Abandon, UpdateNow,
           CallAndWait, Lock, Unpark, StartWaiting, ReevaluateWait,
           BeginIteration, TakeNewCounters, StartInnerIterations,
           RemoveTracked, FreePointer, FinishIteration, ParkUnparked,
           ParkTimeout, vars, statusVars, objectVars, loopVars
  <2>2. ~(to_serial_number(status) < to_serial_number(target[t]))
    BY <1>1, <2>1 DEF ReevaluateWait, IInv, TypeOK
  <2>3. /\ target[t].kind = "Waiting"
        /\ target[t].iteration \in Nat
        /\ outer \in Nat
    BY <1>1 DEF IInv, TypeOK, OwedInv, InWait, CollectorStates
  <2>4. CASE cpc \in {"taking", "collecting"}
    <3>1. target[t].iteration < outer
      BY <1>1, <2>2, <2>3, <2>4 DEF IInv, StatusInv, Running, to_serial_number
    <3>2. QED
      BY <1>1, <3>1 DEF IInv, OwedInv, InWait
  <2>5. CASE cpc \in {"parking", "begin"}
    <3>1. target[t].iteration <= outer
      BY <1>1, <2>2, <2>3, <2>5 DEF IInv, StatusInv, Waiting, to_serial_number
    <3>2. QED
      BY <1>1, <2>3, <2>5, <3>1 DEF IInv, OwedInv, InWait
  <2>6. QED
    BY <1>1, <2>4, <2>5 DEF IInv, TypeOK
<1>2. IInv /\ [Next]_vars => [Returns]_vars
  BY <1>1
<1>3. QED
  BY <1>2, Inductive, PTL DEF Spec, WaitCollectsWhatWasAbandoned

(* A thread that unparks the collector with status_mutex held never sleeps *)
(* through a lost wake-up, whatever the interval: the safety half of       *)
(* WaitReturns, for any number of threads.                                 *)
THEOREM UnparkNeverLost == Spec => []NoLostUnpark
<1>1. ASSUME IInv, NEW t \in Threads, pc[t] \in {"asleep", "woken"},
             to_serial_number(status) < to_serial_number(target[t]),
             cpc = "parking"
      PROVE  token
  <2>1. /\ target[t].kind = "Waiting"
        /\ target[t].iteration \in Nat
        /\ target[t].iteration <= outer + 1
        /\ outer \in Nat
    BY <1>1 DEF IInv, TypeOK, OwedInv, InWait, CollectorStates
  <2>2. outer < target[t].iteration
    BY <1>1, <2>1 DEF IInv, StatusInv, Waiting, to_serial_number
  <2>3. target[t].iteration = outer + 1
    BY <2>1, <2>2
  <2>4. QED
    BY <1>1, <2>3 DEF IInv, TokenInv, InWait
<1>2. IInv => NoLostUnpark
  BY <1>1 DEF NoLostUnpark
<1>3. QED
  BY <1>2, Inductive, PTL
=============================================================================
