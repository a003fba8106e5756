---------------------- MODULE MainThreadSchedulerProofs ----------------------
(***************************************************************************)
(* Proofs about the main-thread scheduler, for any kinds of work, blocks,  *)
(* budgets, generations and numbers of results and host deactivations.     *)
(***************************************************************************)
EXTENDS MainThreadScheduler, FiniteSetTheorems, WellFoundedInduction, TLAPS

(* Ids not handed out yet belong to no result; only results that came with *)
(* a cancel callback count as cancellable; the queue is finite.            *)
IdsHandedOut ==
    /\ \A i \in Ids : i >= next_task_id => fate[i] = "none" /\ i \notin cancellable
    /\ \A t \in tasks : t.id \in cancellable => t.cancel
    /\ IsFiniteSet(heap)

(* No queued task is stale to the arbiter: OnlyNewestQueued for one task. *)
NewestOfKey == \A t \in heap : Keyed(t) => arbiter_latest[Key(t)] = t.generation

Inv == /\ TypeOK /\ QueueAgrees /\ IdsHandedOut
       /\ NewestOfKey /\ WakeIsComing /\ CancelHonoured

-----------------------------------------------------------------------------
(* The key of keyed work has an entry in the generation maps. *)
LEMMA KeyedHasKey == ASSUME NEW t \in Task, Keyed(t) PROVE Key(t) \in Keys
  BY DEF Task, Keyed, Key, Keys

(* Forgetting keys lowers no generation of a key with a live task. *)
LEMMA PruneProperties ==
    ASSUME NEW latest \in [Keys -> 0..MaxGeneration], NEW live
    PROVE  /\ Prune(latest, live) \in [Keys -> 0..MaxGeneration]
           /\ \A k \in Keys : Prune(latest, live)[k] = latest[k] \/ Prune(latest, live)[k] = 0
           /\ \A t \in live : Keyed(t) /\ Key(t) \in Keys => Prune(latest, live)[Key(t)] = latest[Key(t)]
<1>1. 0 \in 0..MaxGeneration
  BY SchedulerAssumption
<1> QED BY <1>1 DEF Prune

(* The callbacks of what is let go are told, the others keep their fate. *)
LEMMA CancelProperties ==
    ASSUME NEW gone \in SUBSET Task, \A t, u \in gone : t.id = u.id => t = u,
           NEW f \in [Ids -> Fates]
    PROVE  /\ Cancel(gone, f) \in [Ids -> Fates]
           /\ \A i \in Ids : i \notin IdsOf(gone) => Cancel(gone, f)[i] = f[i]
           /\ \A t \in gone : Cancel(gone, f)[t.id] = Cancelled(t)
<1>1. \A t : Cancelled(t) \in {"cancelled", "discarded"}
  BY DEF Cancelled
<1>2. ASSUME NEW t \in gone PROVE Cancel(gone, f)[t.id] = Cancelled(t)
  <2>1. t.id \in Ids
    BY DEF Task
  <2>2. (CHOOSE u \in gone : u.id = t.id) = t
    OBVIOUS
  <2> QED BY <2>1, <2>2 DEF Cancel
<1>3. \A i \in Ids : i \notin IdsOf(gone) => Cancel(gone, f)[i] = f[i]
  BY DEF Cancel, IdsOf
<1>4. Cancel(gone, f) \in [Ids -> Fates]
  <2>1. \A i \in Ids : (IF \E t \in gone : t.id = i
                        THEN Cancelled(CHOOSE t \in gone : t.id = i) ELSE f[i]) \in Fates
    BY <1>1 DEF Fates
  <2> QED BY <2>1 DEF Cancel
<1> QED BY <1>2, <1>3, <1>4

(* One timer on its way is enough. *)
LEMMA SumPositive == \A m, n \in Nat : m > 0 \/ n > 0 => m + n > 0
  OBVIOUS

(* What a frame takes is queued, and what its deadline leaves was taken. *)
LEMMA ReadyIsQueued == Ready \subseteq heap
  BY DEF Ready, Runnable

LEMMA DeadlinesAreReady == \A requeued \in Deadlines : requeued \subseteq Ready
  BY DEF Deadlines

-----------------------------------------------------------------------------
(* The scheduler of a view that was just opened. *)
LEMMA InitInv == Init => Inv
<1> SUFFICES ASSUME Init PROVE Inv
  OBVIOUS
<1> USE SchedulerAssumption DEF Init
<1>1. TypeOK
  <2>1. wake_scheduled \in BOOLEAN /\ pump_scheduled \in BOOLEAN
    OBVIOUS
  <2>2. fate \in [Ids -> Fates]
    BY DEF Fates
  <2> QED BY <2>1, <2>2 DEF TypeOK
<1>2. QueueAgrees /\ NewestOfKey /\ WakeIsComing /\ CancelHonoured
  BY DEF QueueAgrees, NewestOfKey, WakeIsComing, CancelHonoured
<1>3. IdsHandedOut
  BY FS_EmptySet DEF IdsHandedOut
<1> QED BY <1>1, <1>2, <1>3 DEF Inv
(* What a frame does to the queue, whichever timer it came from: the ready *)
(* tasks leave it and are resolved, except those behind the deadline.  No  *)
(* queued task is stale, so none is dropped and none refused again.        *)
FrameEffect(requeued) ==
    /\ heap' = (heap \ Ready) \cup requeued /\ tasks' = heap'
    /\ \A i \in Ids :
         \/ i \notin IdsOf(Ready \ requeued) /\ fate'[i] = fate[i]
         \/ /\ i \in IdsOf(Ready \ requeued)
            /\ fate'[i] \in {"applied", "cancelled", "discarded"}
            /\ i \in cancellable => fate'[i] # "discarded"
    /\ fate' \in [Ids -> Fates]
    /\ arbiter_latest' \in [Keys -> 0..MaxGeneration]
    /\ \A t \in heap' : Keyed(t) => arbiter_latest'[Key(t)] = t.generation
    /\ order' \in [Ids -> Nat] /\ next_order' \in Nat
    /\ UNCHANGED <<latest_generation, next_task_id, mode, cancellable, clears>>

LEMMA FrameProperties ==
    ASSUME Inv, NEW requeued \in Deadlines,
           \/ run_main_thread_applies(requeued, wake_scheduled, wake_timers)
           \/ run_main_thread_applies(requeued, FALSE, wake_timers - 1)
    PROVE  FrameEffect(requeued)
<1> DEFINE ready == Ready
           dropped == DroppedStale(ready)
           left == (heap \ ready) \ dropped
           pruned == Prune(arbiter_latest, left)
           kept == {t \in requeued : ~Stale(t, pruned)}
           run == {t \in ready \ requeued : ~Stale(t, latest_generation)}
           cancelled == dropped \cup ((ready \ requeued) \ run)
<1>0. /\ heap' = left \cup kept
      /\ tasks' = ((tasks \ ready) \ dropped) \cup kept
      /\ order' = [i \in Ids |->
                     IF \E t \in requeued : t.id = i
                     THEN LET t == CHOOSE t \in requeued : t.id = i
                          IN next_order + Cardinality({u \in requeued : Before(u, t)})
                     ELSE IF i \in IdsOf(left) THEN order[i] ELSE 0]
      /\ next_order' = next_order + Cardinality(requeued)
      /\ arbiter_latest' = [k \in Keys |->
                              IF \E t \in kept : Keyed(t) /\ Key(t) = k
                              THEN (CHOOSE t \in kept : Keyed(t) /\ Key(t) = k).generation
                              ELSE pruned[k]]
      /\ fate' = [i \in Ids |->
                    CASE i \in IdsOf(run) -> "applied"
                      [] i \in IdsOf(requeued \ kept) -> "discarded"
                      [] OTHER -> Cancel(cancelled, fate)[i]]
      /\ UNCHANGED <<latest_generation, next_task_id, mode, cancellable, clears>>
  BY DEF run_main_thread_applies
<1>1. /\ ready \subseteq heap /\ requeued \subseteq ready /\ heap \subseteq Task /\ heap = tasks
      /\ arbiter_latest \in [Keys -> 0..MaxGeneration]
      /\ \A t, u \in heap : t.id = u.id => t = u
      /\ fate \in [Ids -> Fates] /\ order \in [Ids -> Nat] /\ next_order \in Nat
      /\ IsFiniteSet(heap)
  BY ReadyIsQueued, DeadlinesAreReady DEF Inv, TypeOK, QueueAgrees, IdsHandedOut
<1> HIDE DEF ready
<1>2. \A t \in heap : t.generation \in 1..MaxGeneration /\ t.id \in Ids
  BY <1>1 DEF Task
<1>3. \A t \in heap : ~Stale(t, arbiter_latest)
  BY <1>1, <1>2 DEF Inv, NewestOfKey, Stale
<1>4. dropped = {} /\ left = heap \ ready
  BY <1>3 DEF DroppedStale
<1> HIDE DEF dropped, left
<1>5. /\ pruned \in [Keys -> 0..MaxGeneration]
      /\ \A k \in Keys : pruned[k] = arbiter_latest[k] \/ pruned[k] = 0
      /\ \A t \in left : Keyed(t) /\ Key(t) \in Keys => pruned[Key(t)] = arbiter_latest[Key(t)]
  BY <1>1, PruneProperties
<1> HIDE DEF pruned
<1>6. kept = requeued
  <2> SUFFICES ASSUME NEW t \in requeued, Keyed(t) PROVE ~(t.generation < pruned[Key(t)])
    BY DEF Stale
  <2>1. t \in heap /\ Key(t) \in Keys
    BY <1>1, KeyedHasKey
  <2>2. arbiter_latest[Key(t)] = t.generation
    BY <2>1 DEF Inv, NewestOfKey
  <2> QED BY <1>2, <1>5, <2>1, <2>2
<1> HIDE DEF kept
<1>7. heap' = (heap \ ready) \cup requeued /\ tasks' = heap'
  BY <1>0, <1>1, <1>4, <1>6
<1>8. ASSUME NEW t \in heap', Keyed(t)
      PROVE  arbiter_latest'[Key(t)] = t.generation
  <2>1. t \in heap /\ Key(t) \in Keys
    BY <1>1, <1>7, <1>8, KeyedHasKey
  <2>2. arbiter_latest[Key(t)] = t.generation
    BY <1>8, <2>1 DEF Inv, NewestOfKey
  <2>3. CASE \E u \in kept : Keyed(u) /\ Key(u) = Key(t)
    <3> DEFINE u == CHOOSE v \in kept : Keyed(v) /\ Key(v) = Key(t)
    <3>1. u \in kept /\ Keyed(u) /\ Key(u) = Key(t)
      BY <2>3
    <3>2. u \in heap
      BY <1>1, <1>6, <3>1
    <3>3. arbiter_latest'[Key(t)] = u.generation
      BY <1>0, <2>1, <2>3
    <3> HIDE DEF u
    <3>4. arbiter_latest[Key(u)] = u.generation
      BY <3>1, <3>2 DEF Inv, NewestOfKey
    <3> QED BY <2>2, <3>1, <3>3, <3>4
  <2>4. CASE ~\E u \in kept : Keyed(u) /\ Key(u) = Key(t)
    <3>1. t \in left
      BY <1>0, <1>8, <2>4
    <3>2. arbiter_latest'[Key(t)] = pruned[Key(t)]
      BY <1>0, <2>1, <2>4
    <3> QED BY <1>5, <1>8, <2>1, <2>2, <3>1, <3>2
  <2> QED BY <2>3, <2>4
<1>9. arbiter_latest' \in [Keys -> 0..MaxGeneration]
  <2>1. \A k \in Keys :
           (IF \E t \in kept : Keyed(t) /\ Key(t) = k
            THEN (CHOOSE t \in kept : Keyed(t) /\ Key(t) = k).generation
            ELSE pruned[k]) \in 0..MaxGeneration
    <3>1. \A t \in kept : t.generation \in 0..MaxGeneration
      BY <1>1, <1>2, <1>6, SchedulerAssumption
    <3> QED BY <1>5, <3>1
  <2> QED BY <1>0, <2>1
<1>10. cancelled \in SUBSET Task /\ \A t, u \in cancelled : t.id = u.id => t = u
  BY <1>1, <1>4
<1>11. /\ Cancel(cancelled, fate) \in [Ids -> Fates]
       /\ \A i \in Ids : i \notin IdsOf(cancelled) => Cancel(cancelled, fate)[i] = fate[i]
       /\ \A t \in cancelled : Cancel(cancelled, fate)[t.id] = Cancelled(t)
  <2> HIDE DEF cancelled
  <2> QED BY <1>1, <1>10, CancelProperties
<1>12. \A i \in Ids : fate'[i] = IF i \in IdsOf(run) THEN "applied"
                                ELSE Cancel(cancelled, fate)[i]
  <2>1. IdsOf(requeued \ kept) = {}
    BY <1>6 DEF IdsOf
  <2> HIDE DEF cancelled, run
  <2> QED BY <1>0, <2>1
<1>13. ASSUME NEW i \in Ids
       PROVE  /\ \/ i \notin IdsOf(ready \ requeued) /\ fate'[i] = fate[i]
                 \/ /\ i \in IdsOf(ready \ requeued)
                    /\ fate'[i] \in {"applied", "cancelled", "discarded"}
                    /\ i \in cancellable => fate'[i] # "discarded"
              /\ fate'[i] \in Fates
  <2>1. CASE i \in IdsOf(run)
    <3>1. i \in IdsOf(ready \ requeued)
      BY <2>1 DEF IdsOf
    <3> QED BY <1>12, <2>1, <3>1 DEF Fates
  <2>2. CASE i \notin IdsOf(run) /\ i \in IdsOf(cancelled)
    <3>1. PICK t \in cancelled : t.id = i
      BY <2>2 DEF IdsOf
    <3>2. t \in ready \ requeued /\ t \in tasks
      BY <1>1, <1>4, <3>1
    <3>3. fate'[i] = Cancelled(t)
      BY <1>11, <1>12, <2>2, <3>1
    <3>4. i \in cancellable => t.cancel
      BY <3>1, <3>2 DEF Inv, IdsHandedOut
    <3>5. i \in IdsOf(ready \ requeued)
      BY <3>1, <3>2 DEF IdsOf
    <3> QED BY <3>3, <3>4, <3>5 DEF Cancelled, Fates
  <2>3. CASE i \notin IdsOf(run) /\ i \notin IdsOf(cancelled)
    <3>1. i \notin IdsOf(ready \ requeued)
      BY <2>3 DEF IdsOf
    <3> HIDE DEF cancelled, run
    <3> QED BY <1>1, <1>11, <1>12, <2>3, <3>1
  <2> QED BY <2>1, <2>2, <2>3
<1>14. fate' \in [Ids -> Fates]
  <2>1. \A i \in Ids : fate'[i] \in Fates
    BY <1>13
  <2> QED BY <1>0, <2>1
<1>15. next_order' \in Nat
  <2>1. IsFiniteSet(requeued)
    BY <1>1, FS_Subset
  <2> QED BY <1>0, <1>1, <2>1, FS_CardinalityType
<1>16. order' \in [Ids -> Nat]
  <2>1. \A t : next_order + Cardinality({u \in requeued : Before(u, t)}) \in Nat
    <3> TAKE t
    <3>1. IsFiniteSet({u \in requeued : Before(u, t)})
      BY <1>1, FS_Subset
    <3>2. Cardinality({u \in requeued : Before(u, t)}) \in Nat
      BY <3>1, FS_CardinalityType
    <3> QED BY <1>1, <3>2
  <2> DEFINE place(i) == LET t == CHOOSE t \in requeued : t.id = i
                         IN next_order + Cardinality({u \in requeued : Before(u, t)})
  <2>2. \A i \in Ids : place(i) \in Nat
    BY <2>1
  <2>3. order' = [i \in Ids |-> IF \E t \in requeued : t.id = i THEN place(i)
                               ELSE IF i \in IdsOf(left) THEN order[i] ELSE 0]
    BY <1>0
  <2> HIDE DEF place
  <2> QED BY <1>1, <2>2, <2>3
<1> QED BY <1>0, <1>7, <1>8, <1>9, <1>13, <1>14, <1>15, <1>16 DEF FrameEffect, ready
(* The queue after a frame, the timers left aside. *)
LEMMA FrameKeepsQueue ==
    ASSUME Inv, NEW requeued \in Deadlines, FrameEffect(requeued)
    PROVE  /\ heap' \subseteq Task /\ QueueAgrees' /\ IdsHandedOut' /\ NewestOfKey' /\ CancelHonoured'
           /\ \A i \in Ids : fate[i] \in {"applied", "cancelled", "discarded"} => fate'[i] = fate[i]
<1>0. /\ Ready \subseteq heap /\ requeued \subseteq Ready /\ heap \subseteq Task /\ heap = tasks
      /\ \A t, u \in heap : t.id = u.id => t = u
      /\ \A i \in Ids : fate[i] = "waiting" <=> \E t \in heap : t.id = i
      /\ IsFiniteSet(heap)
  BY ReadyIsQueued, DeadlinesAreReady DEF Inv, TypeOK, QueueAgrees, IdsHandedOut
<1>1. /\ heap' \subseteq heap /\ tasks' = heap' /\ heap' = heap \ (Ready \ requeued)
      /\ cancellable' = cancellable /\ next_task_id' = next_task_id
  BY <1>0 DEF FrameEffect
<1>2. \A i \in Ids : \/ i \notin IdsOf(Ready \ requeued) /\ fate'[i] = fate[i]
                     \/ /\ i \in IdsOf(Ready \ requeued)
                        /\ fate'[i] \in {"applied", "cancelled", "discarded"}
                        /\ i \in cancellable => fate'[i] # "discarded"
  BY DEF FrameEffect
<1> DEFINE gone == Ready \ requeued
<1>3. gone \subseteq heap /\ heap' = heap \ gone
  BY <1>0, <1>1
<1> HIDE DEF gone
<1>4. \A i \in Ids : \/ i \notin IdsOf(gone) /\ fate'[i] = fate[i]
                     \/ /\ i \in IdsOf(gone)
                        /\ fate'[i] \in {"applied", "cancelled", "discarded"}
                        /\ i \in cancellable => fate'[i] # "discarded"
  BY <1>2 DEF gone
<1>5. \A i \in Ids : i \in IdsOf(gone) => fate[i] = "waiting"
  BY <1>0, <1>3 DEF IdsOf
<1>6. QueueAgrees'
  <2>1. ASSUME NEW i \in Ids PROVE fate'[i] = "waiting" <=> \E t \in heap' : t.id = i
    <3>1. CASE i \in IdsOf(gone)
      <4>1. PICK t \in gone : t.id = i
        BY <3>1 DEF IdsOf
      <4>2. ~\E u \in heap' : u.id = i
        BY <1>0, <1>3, <4>1
      <4> QED BY <1>4, <3>1, <4>2
    <3>2. CASE i \notin IdsOf(gone)
      <4>1. (\E t \in heap : t.id = i) <=> (\E t \in heap' : t.id = i)
        BY <1>3, <3>2 DEF IdsOf
      <4> QED BY <1>0, <1>4, <3>2, <4>1
    <3> QED BY <3>1, <3>2
  <2>2. \A t, u \in tasks' : t.id = u.id => t = u
    BY <1>0, <1>1
  <2> QED BY <1>1, <2>1, <2>2 DEF QueueAgrees
<1>7. IdsHandedOut'
  <2>1. IsFiniteSet(heap')
    BY <1>0, <1>1, FS_Subset
  <2>2. \A t \in tasks' : t.id \in cancellable' => t.cancel
    BY <1>0, <1>1 DEF Inv, IdsHandedOut
  <2>3. \A i \in Ids : i >= next_task_id' => fate'[i] = "none" /\ i \notin cancellable'
    BY <1>1, <1>4, <1>5 DEF Inv, IdsHandedOut
  <2> QED BY <2>1, <2>2, <2>3 DEF IdsHandedOut
<1>8. NewestOfKey'
  BY DEF FrameEffect, NewestOfKey, Keyed, Key
<1>9. CancelHonoured'
  <2>1. cancellable \subseteq Ids
    BY DEF Inv, TypeOK
  <2> QED BY <1>1, <1>4, <2>1 DEF Inv, CancelHonoured
<1>10. \A i \in Ids : fate[i] \in {"applied", "cancelled", "discarded"} => fate'[i] = fate[i]
  BY <1>4, <1>5
<1> QED BY <1>0, <1>1, <1>6, <1>7, <1>8, <1>9, <1>10

(* A frame leaves no work behind without a timer that will come for it. *)
LEMMA FrameSteps ==
    ASSUME Inv, Pump \/ Wake \/ Frame
    PROVE  /\ Inv'
           /\ \A i \in Ids : fate[i] \in {"applied", "cancelled", "discarded"} => fate'[i] = fate[i]
<1>1. PICK requeued \in Deadlines :
        \/ /\ run_main_thread_applies(requeued, wake_scheduled, wake_timers)
           /\ \/ /\ pump_timers > 0
                 /\ pump_timers' = pump_timers - 1 /\ pump_scheduled' = FALSE
              \/ UNCHANGED <<pump_scheduled, pump_timers>>
        \/ /\ run_main_thread_applies(requeued, FALSE, wake_timers - 1)
           /\ wake_timers > 0
           /\ UNCHANGED <<pump_scheduled, pump_timers>>
  BY DEF Pump, Wake, Frame, PumpFires, WakeFires, Render
<1>2. FrameEffect(requeued)
  BY <1>1, FrameProperties
<1>3. /\ heap' \subseteq Task /\ QueueAgrees' /\ IdsHandedOut' /\ NewestOfKey' /\ CancelHonoured'
      /\ \A i \in Ids : fate[i] \in {"applied", "cancelled", "discarded"} => fate'[i] = fate[i]
  BY <1>2, FrameKeepsQueue
<1>4. /\ pump_timers \in Nat /\ wake_timers \in Nat
      /\ pump_scheduled \in BOOLEAN /\ wake_scheduled \in BOOLEAN
      /\ pump_scheduled => pump_timers > 0
      /\ wake_scheduled => wake_timers > 0
  BY DEF Inv, TypeOK, WakeIsComing
<1>5. /\ pump_timers' \in Nat /\ pump_scheduled' \in BOOLEAN
      /\ pump_scheduled' => pump_timers' > 0
  <2>1. CASE UNCHANGED <<pump_scheduled, pump_timers>>
    BY <1>4, <2>1
  <2>2. CASE pump_timers > 0 /\ pump_timers' = pump_timers - 1 /\ pump_scheduled' = FALSE
    <3>1. pump_timers' \in Nat
      BY <1>4, <2>2
    <3>2. pump_scheduled' \in BOOLEAN /\ ~pump_scheduled'
      BY <2>2
    <3> QED BY <3>1, <3>2
  <2> QED BY <1>1, <2>1, <2>2
<1>6. /\ wake_timers' \in Nat /\ wake_scheduled' \in BOOLEAN
      /\ wake_scheduled' => wake_timers' > 0
      /\ tasks' # {} => wake_timers' > 0
  <2>1. CASE run_main_thread_applies(requeued, wake_scheduled, wake_timers)
    <3>1. /\ wake_scheduled' = (wake_scheduled \/ (tasks' # {} /\ ~wake_scheduled))
          /\ wake_timers' = IF tasks' # {} /\ ~wake_scheduled THEN wake_timers + 1
                            ELSE wake_timers
      BY <2>1 DEF run_main_thread_applies
    <3> QED BY <1>4, <3>1
  <2>2. CASE run_main_thread_applies(requeued, FALSE, wake_timers - 1) /\ wake_timers > 0
    <3>1. /\ wake_scheduled' = (tasks' # {})
          /\ wake_timers' = IF tasks' # {} THEN (wake_timers - 1) + 1 ELSE wake_timers - 1
      BY <2>2 DEF run_main_thread_applies
    <3>2. wake_scheduled' \in BOOLEAN /\ (wake_scheduled' <=> tasks' # {})
      BY <3>1
    <3>3. wake_timers' \in Nat /\ (tasks' # {} => wake_timers' > 0)
      BY <1>4, <2>2, <3>1
    <3> QED BY <3>2, <3>3
  <2> QED BY <1>1, <2>1, <2>2
<1>7. WakeIsComing'
  <2>1. pump_timers' \in Nat /\ wake_timers' \in Nat /\ (tasks' # {} => wake_timers' > 0)
    BY <1>5, <1>6
  <2>2. tasks' # {} => pump_timers' + wake_timers' > 0
    BY <2>1, SumPositive
  <2> QED BY <1>5, <1>6, <2>2 DEF WakeIsComing
<1>8. TypeOK'
  <2>1. /\ tasks' \subseteq Task /\ order' \in [Ids -> Nat] /\ next_order' \in Nat
        /\ arbiter_latest' \in [Keys -> 0..MaxGeneration] /\ fate' \in [Ids -> Fates]
        /\ UNCHANGED <<latest_generation, next_task_id, mode, cancellable, clears>>
    BY <1>2, <1>3 DEF FrameEffect
  <2> QED BY <1>3, <1>5, <1>6, <2>1 DEF Inv, TypeOK
<1> QED BY <1>3, <1>7, <1>8 DEF Inv

(* The host deactivates the view: every waiting result is let go. *)
LEMMA ClearStep ==
    ASSUME Inv, Clear
    PROVE  /\ Inv'
           /\ \A i \in Ids : fate[i] \in {"applied", "cancelled", "discarded"} => fate'[i] = fate[i]
<1>0. /\ tasks \subseteq Task /\ fate \in [Ids -> Fates] /\ cancellable \subseteq Ids
      /\ \A t, u \in tasks : t.id = u.id => t = u
      /\ \A i \in Ids : fate[i] = "waiting" <=> \E t \in tasks : t.id = i
  BY DEF Inv, TypeOK, QueueAgrees
<1>1. /\ heap' = {} /\ tasks' = {} /\ fate' = Cancel(tasks, fate)
      /\ order' = [i \in Ids |-> 0] /\ next_order' = 0
      /\ arbiter_latest' = [k \in Keys |-> 0] /\ latest_generation' = [k \in Keys |-> 0]
      /\ clears < MaxClears /\ clears' = clears + 1
      /\ wake_scheduled' = FALSE /\ pump_scheduled' = FALSE
      /\ UNCHANGED <<next_task_id, pump_timers, wake_timers, mode, cancellable>>
  BY DEF Clear
<1>2. /\ fate' \in [Ids -> Fates]
      /\ \A i \in Ids : i \notin IdsOf(tasks) => fate'[i] = fate[i]
      /\ \A t \in tasks : fate'[t.id] = Cancelled(t)
  <2>1. tasks \in SUBSET Task
    BY <1>0
  <2>2. /\ Cancel(tasks, fate) \in [Ids -> Fates]
        /\ \A i \in Ids : i \notin IdsOf(tasks) => Cancel(tasks, fate)[i] = fate[i]
        /\ \A t \in tasks : Cancel(tasks, fate)[t.id] = Cancelled(t)
    BY <1>0, <2>1, CancelProperties
  <2> QED BY <1>1, <2>2
<1>3. \A i \in Ids : i \in IdsOf(tasks) <=> fate[i] = "waiting"
  BY <1>0 DEF IdsOf
<1>4. \A i \in Ids : i \in IdsOf(tasks) =>
         /\ fate'[i] \in {"cancelled", "discarded"}
         /\ i \in cancellable => fate'[i] # "discarded"
  BY <1>2 DEF IdsOf, Cancelled, Inv, IdsHandedOut
<1>5. TypeOK'
  <2>1. wake_scheduled' \in BOOLEAN /\ pump_scheduled' \in BOOLEAN
    BY <1>1
  <2>2. clears' \in 0..MaxClears
    BY <1>1, SchedulerAssumption DEF Inv, TypeOK
  <2> QED BY <1>1, <1>2, <2>1, <2>2, SchedulerAssumption DEF Inv, TypeOK
<1>6. QueueAgrees'
  <2>1. \A i \in Ids : fate'[i] # "waiting"
    BY <1>2, <1>3, <1>4
  <2> QED BY <1>1, <2>1 DEF QueueAgrees
<1>7. IdsHandedOut'
  <2>1. IsFiniteSet(heap')
    BY <1>1, FS_EmptySet
  <2> QED BY <1>1, <1>2, <1>3, <2>1 DEF Inv, IdsHandedOut
<1>8. NewestOfKey' /\ WakeIsComing'
  BY <1>1 DEF NewestOfKey, WakeIsComing
<1>9. CancelHonoured'
  BY <1>0, <1>1, <1>2, <1>4 DEF Inv, CancelHonoured
<1>10. \A i \in Ids : fate[i] \in {"applied", "cancelled", "discarded"} => fate'[i] = fate[i]
  BY <1>2, <1>3
<1> QED BY <1>5, <1>6, <1>7, <1>8, <1>9, <1>10 DEF Inv
(* A result arrives: it is refused, or queued with a pump on its way; what *)
(* it makes stale is let go at once, so that the arbiter's generation is   *)
(* that of every queued task of the key.                                   *)
LEMMA EnqueueStep ==
    ASSUME Inv, NEW kind \in Kinds, NEW block \in Blocks \cup {NoBlock},
           NEW generation \in 1..MaxGeneration, NEW cost \in 1..IdleBudget,
           Enqueue(kind, block, generation, cost)
    PROVE  /\ Inv'
           /\ \A i \in Ids : fate[i] \in {"applied", "cancelled", "discarded"} => fate'[i] = fate[i]
<1> DEFINE t == [id |-> next_task_id, kind |-> kind, block |-> block,
                 generation |-> generation, cost |-> cost, cancel |-> kind \in CancelKinds]
           refused == Stale(t, arbiter_latest)
           queued == IF refused THEN heap ELSE heap \cup {t}
           newest == IF Keyed(t) /\ ~refused
                     THEN [arbiter_latest EXCEPT ![Key(t)] = generation]
                     ELSE arbiter_latest
           superseded == Superseded(t, queued, newest)
           seen == IF Keyed(t) /\ latest_generation[Key(t)] < generation
                   THEN [latest_generation EXCEPT ![Key(t)] = generation]
                   ELSE latest_generation
           told == [fate EXCEPT ![t.id] = IF refused THEN Cancelled(t) ELSE "waiting"]
<1>0. /\ next_task_id < MaxTasks /\ next_order < MaxOrder
      /\ heap' = queued \ superseded
      /\ tasks' = (IF refused THEN tasks ELSE tasks \cup {t}) \ superseded
      /\ order' = [i \in Ids |-> IF i = t.id /\ ~refused THEN next_order
                                ELSE IF i \in IdsOf(superseded) THEN 0 ELSE order[i]]
      /\ next_order' = next_order + 1
      /\ next_task_id' = next_task_id + 1
      /\ arbiter_latest' = IF superseded = {} THEN newest ELSE Prune(newest, heap')
      /\ latest_generation' = Prune(seen, tasks')
      /\ fate' = Cancel(superseded, told)
      /\ pump_scheduled' = (pump_scheduled \/ ~refused)
      /\ pump_timers' = IF refused \/ pump_scheduled THEN pump_timers ELSE pump_timers + 1
      /\ cancellable' = IF t.cancel THEN cancellable \cup {t.id} ELSE cancellable
      /\ UNCHANGED <<wake_scheduled, wake_timers, mode, clears>>
  BY DEF Enqueue
<1>1. /\ heap \subseteq Task /\ heap = tasks /\ IsFiniteSet(heap)
      /\ \A u, v \in heap : u.id = v.id => u = v
      /\ \A i \in Ids : fate[i] = "waiting" <=> \E u \in heap : u.id = i
      /\ arbiter_latest \in [Keys -> 0..MaxGeneration]
      /\ latest_generation \in [Keys -> 0..MaxGeneration]
      /\ fate \in [Ids -> Fates] /\ cancellable \subseteq Ids
      /\ order \in [Ids -> Nat] /\ next_order \in Nat /\ next_task_id \in 0..MaxTasks
  BY DEF Inv, TypeOK, QueueAgrees, IdsHandedOut
<1>2. /\ t \in Task /\ t.id = next_task_id /\ t.id \in Ids /\ t.generation = generation
      /\ fate[t.id] = "none" /\ t.id \notin cancellable
  <2>1. next_task_id \in Ids
    BY <1>0, <1>1, SchedulerAssumption DEF Ids
  <2>2. t \in Task
    BY <2>1 DEF Task
  <2> QED BY <1>1, <2>1, <2>2 DEF Inv, IdsHandedOut, Ids
<1>3. \A u \in heap : u.id # t.id
  BY <1>1, <1>2
<1>4. Keyed(t) => Key(t) \in Keys
  BY <1>2, KeyedHasKey
<1> HIDE DEF t
<1>5. /\ newest \in [Keys -> 0..MaxGeneration]
      /\ seen \in [Keys -> 0..MaxGeneration]
  <2>1. generation \in 0..MaxGeneration
    BY SchedulerAssumption
  <2> QED BY <1>1, <1>4, <2>1
<1>6. /\ superseded \subseteq heap
      /\ \A u \in superseded : u \in queued /\ Keyed(u)
  <2>1. t \notin superseded
    BY <1>2, <1>4, <1>1 DEF Superseded, Stale
  <2> QED BY <2>1 DEF Superseded
<1>7. \A u \in queued \ superseded : Keyed(u) => newest[Key(u)] = u.generation
  <2> SUFFICES ASSUME NEW u \in queued, u \notin superseded, Keyed(u)
               PROVE  newest[Key(u)] = u.generation
    OBVIOUS
  <2>1. u \in Task /\ Key(u) \in Keys
    BY <1>1, <1>2, KeyedHasKey
  <2>2. u.generation \in 1..MaxGeneration
    BY <2>1 DEF Task
  <2>3. CASE u = t
    BY <1>1, <1>2, <1>3, <1>4, <2>3
  <2>4. CASE u \in heap /\ Keyed(t) /\ ~refused /\ Key(u) = Key(t)
    <3>1. newest[Key(u)] = generation
      BY <1>1, <1>4, <2>4
    <3>2. arbiter_latest[Key(u)] = u.generation
      BY <2>4 DEF Inv, NewestOfKey
    <3>3. ~(generation < arbiter_latest[Key(u)])
      BY <1>2, <2>4 DEF Stale
    <3>4. ~(u.generation < newest[Key(u)])
      BY <2>4 DEF Superseded, Stale
    <3> QED BY <2>2, <3>1, <3>2, <3>3, <3>4
  <2>5. CASE u \in heap /\ ~(Keyed(t) /\ ~refused /\ Key(u) = Key(t))
    <3>1. newest[Key(u)] = arbiter_latest[Key(u)]
      BY <1>1, <1>4, <2>1, <2>5
    <3> QED BY <2>5, <3>1 DEF Inv, NewestOfKey
  <2> QED BY <2>3, <2>4, <2>5
<1> HIDE DEF superseded, newest, seen, refused
<1>8. heap' \subseteq Task /\ tasks' = heap' /\ IsFiniteSet(heap')
  <2>1. IsFiniteSet(queued)
    BY <1>1, FS_AddElement
  <2>2. IsFiniteSet(heap')
    BY <1>0, <2>1, FS_Subset
  <2> QED BY <1>0, <1>1, <1>2, <2>2
<1>9. arbiter_latest' \in [Keys -> 0..MaxGeneration] /\ NewestOfKey'
  <2>1. CASE superseded = {}
    BY <1>0, <1>5, <1>7, <2>1 DEF NewestOfKey, Keyed, Key
  <2>2. CASE superseded # {}
    <3>1. arbiter_latest' = Prune(newest, heap')
      BY <1>0, <2>2
    <3>2. /\ Prune(newest, heap') \in [Keys -> 0..MaxGeneration]
          /\ \A u \in heap' : Keyed(u) /\ Key(u) \in Keys =>
                Prune(newest, heap')[Key(u)] = newest[Key(u)]
      BY <1>5, PruneProperties
    <3>3. ASSUME NEW u \in heap', Keyed(u) PROVE arbiter_latest'[Key(u)] = u.generation
      <4>1. u \in queued \ superseded /\ Key(u) \in Keys
        BY <1>0, <1>8, <3>3, KeyedHasKey
      <4>2. newest[Key(u)] = u.generation
        BY <1>7, <3>3, <4>1
      <4> QED BY <3>1, <3>2, <3>3, <4>1, <4>2
    <3> QED BY <3>1, <3>2, <3>3 DEF NewestOfKey, Keyed, Key
  <2> QED BY <2>1, <2>2
<1>10. latest_generation' \in [Keys -> 0..MaxGeneration]
  BY <1>0, <1>5, PruneProperties
<1>11. told \in [Ids -> Fates]
  BY <1>1, <1>2 DEF Cancelled, Fates
<1>12. /\ fate' \in [Ids -> Fates]
       /\ \A i \in Ids : i \notin IdsOf(superseded) => fate'[i] = told[i]
       /\ \A u \in superseded : fate'[u.id] = Cancelled(u)
  <2>1. superseded \in SUBSET Task /\ \A u, v \in superseded : u.id = v.id => u = v
    BY <1>1, <1>6
  <2> HIDE DEF told
  <2>2. /\ Cancel(superseded, told) \in [Ids -> Fates]
        /\ \A i \in Ids : i \notin IdsOf(superseded) => Cancel(superseded, told)[i] = told[i]
        /\ \A u \in superseded : Cancel(superseded, told)[u.id] = Cancelled(u)
    BY <1>11, <2>1, CancelProperties
  <2> QED BY <1>0, <2>2
<1>13. /\ t.id \notin IdsOf(superseded)
       /\ \A i \in Ids : i \in IdsOf(superseded) =>
             /\ fate[i] = "waiting" /\ fate'[i] \in {"cancelled", "discarded"}
             /\ i \in cancellable => fate'[i] # "discarded"
  <2>1. t.id \notin IdsOf(superseded)
    BY <1>3, <1>6 DEF IdsOf
  <2>2. ASSUME NEW i \in Ids, i \in IdsOf(superseded)
        PROVE  /\ fate[i] = "waiting" /\ fate'[i] \in {"cancelled", "discarded"}
               /\ i \in cancellable => fate'[i] # "discarded"
    <3>1. PICK u \in superseded : u.id = i
      BY <2>2 DEF IdsOf
    <3>2. u \in tasks /\ fate[i] = "waiting"
      BY <1>1, <1>6, <3>1
    <3>3. i \in cancellable => u.cancel
      BY <3>1, <3>2 DEF Inv, IdsHandedOut
    <3> QED BY <1>12, <3>1, <3>2, <3>3 DEF Cancelled
  <2> QED BY <2>1, <2>2
<1>14. /\ fate'[t.id] = IF refused THEN Cancelled(t) ELSE "waiting"
       /\ \A i \in Ids : i # t.id /\ i \notin IdsOf(superseded) => fate'[i] = fate[i]
  BY <1>1, <1>2, <1>12, <1>13
<1> HIDE DEF told
<1>15. QueueAgrees'
  <2>1. \A u, v \in heap' : u.id = v.id => u = v
    BY <1>0, <1>1, <1>3
  <2>2. ASSUME NEW i \in Ids PROVE fate'[i] = "waiting" <=> \E u \in heap' : u.id = i
    <3>1. CASE i = t.id
      <4>1. CASE refused
        BY <1>0, <1>3, <1>14, <3>1, <4>1 DEF Cancelled
      <4>2. CASE ~refused
        <5>1. t \in heap'
          BY <1>0, <1>3, <1>6, <4>2
        <5> QED BY <1>14, <3>1, <4>2, <5>1
      <4> QED BY <4>1, <4>2
    <3>2. CASE i # t.id /\ i \in IdsOf(superseded)
      <4>1. PICK u \in superseded : u.id = i
        BY <3>2 DEF IdsOf
      <4>2. ~\E v \in heap' : v.id = i
        BY <1>0, <1>1, <1>6, <3>2, <4>1
      <4> QED BY <1>13, <3>2, <4>2
    <3>3. CASE i # t.id /\ i \notin IdsOf(superseded)
      <4>1. (\E u \in heap : u.id = i) <=> (\E u \in heap' : u.id = i)
        BY <1>0, <3>3 DEF IdsOf
      <4> QED BY <1>1, <1>14, <3>3, <4>1
    <3> QED BY <3>1, <3>2, <3>3
  <2> QED BY <1>8, <2>1, <2>2 DEF QueueAgrees
<1>16. IdsHandedOut'
  <2>1. ASSUME NEW i \in Ids, i >= next_task_id' PROVE fate'[i] = "none" /\ i \notin cancellable'
    <3>1. i # t.id /\ i >= next_task_id
      BY <1>0, <1>1, <1>2, <2>1 DEF Ids
    <3>2. fate[i] = "none" /\ i \notin cancellable
      BY <3>1 DEF Inv, IdsHandedOut
    <3>3. i \notin IdsOf(superseded)
      BY <1>13, <3>2
    <3> QED BY <1>0, <1>14, <3>1, <3>2, <3>3
  <2>2. ASSUME NEW u \in tasks', u.id \in cancellable' PROVE u.cancel
    <3>1. CASE u = t
      BY <1>0, <1>2, <2>2, <3>1
    <3>2. CASE u # t
      <4>1. u \in tasks /\ u.id # t.id
        BY <1>0, <1>1, <1>3, <1>8, <3>2
      <4>2. u.id \in cancellable
        BY <1>0, <2>2, <4>1
      <4> QED BY <4>1, <4>2 DEF Inv, IdsHandedOut
    <3> QED BY <3>1, <3>2
  <2> QED BY <1>8, <2>1, <2>2 DEF IdsHandedOut
<1>17. CancelHonoured'
  <2> SUFFICES ASSUME NEW i \in cancellable' PROVE fate'[i] # "discarded"
    BY DEF CancelHonoured
  <2>1. CASE i = t.id
    <3>1. t.cancel
      BY <1>0, <1>2, <2>1
    <3> QED BY <1>14, <2>1, <3>1 DEF Cancelled
  <2>2. CASE i # t.id
    <3>1. i \in cancellable /\ i \in Ids
      BY <1>0, <1>1, <2>2
    <3> QED BY <1>13, <1>14, <2>2, <3>1 DEF Inv, CancelHonoured
  <2> QED BY <2>1, <2>2
<1>18. /\ pump_timers' \in Nat /\ pump_scheduled' \in BOOLEAN
       /\ pump_scheduled' => pump_timers' > 0
       /\ ~refused => pump_timers' > 0
       /\ refused => pump_timers' = pump_timers
  <2>1. /\ pump_timers \in Nat /\ pump_scheduled \in BOOLEAN
        /\ pump_scheduled => pump_timers > 0
    BY DEF Inv, TypeOK, WakeIsComing
  <2>2. CASE refused
    <3>1. pump_timers' = pump_timers
      BY <1>0, <2>2
    <3>2. pump_scheduled' = pump_scheduled
      BY <1>0, <2>1, <2>2
    <3> QED BY <2>1, <2>2, <3>1, <3>2
  <2>3. CASE ~refused
    <3>1. pump_timers' = IF pump_scheduled THEN pump_timers ELSE pump_timers + 1
      BY <1>0, <2>3
    <3>2. pump_scheduled' \in BOOLEAN
      BY <1>0
    <3>3. CASE pump_scheduled
      BY <2>1, <2>3, <3>1, <3>2, <3>3
    <3>4. CASE ~pump_scheduled
      <4>1. pump_timers' \in Nat /\ pump_timers' > 0
        BY <2>1, <3>1, <3>4
      <4> QED BY <2>3, <3>2, <4>1
    <3> QED BY <3>3, <3>4
  <2> QED BY <2>2, <2>3
<1>19. WakeIsComing'
  <2>1. /\ wake_timers \in Nat /\ pump_timers \in Nat
        /\ tasks # {} => pump_timers + wake_timers > 0
    BY DEF Inv, TypeOK, WakeIsComing
  <2>2. refused => tasks' \subseteq tasks
    BY <1>0
  <2>3. tasks' # {} => pump_timers' + wake_timers' > 0
    <3>1. CASE refused
      <4>1. pump_timers' = pump_timers /\ wake_timers' = wake_timers
        BY <1>0, <1>18, <3>1
      <4> QED BY <2>1, <2>2, <3>1, <4>1
    <3>2. CASE ~refused
      <4>1. pump_timers' \in Nat /\ pump_timers' > 0 /\ wake_timers' = wake_timers
        BY <1>0, <1>18, <3>2
      <4> QED BY <2>1, <4>1, SumPositive
    <3> QED BY <3>1, <3>2
  <2>4. wake_scheduled' => wake_timers' > 0
    BY <1>0 DEF Inv, WakeIsComing
  <2> QED BY <1>18, <2>3, <2>4 DEF WakeIsComing
<1>20. TypeOK'
  <2>1. order' \in [Ids -> Nat] /\ next_order' \in Nat
    BY <1>0, <1>1
  <2>2. next_task_id' \in 0..MaxTasks
    BY <1>0, <1>1, SchedulerAssumption
  <2>3. cancellable' \subseteq Ids
    BY <1>0, <1>1, <1>2
  <2> QED BY <1>0, <1>8, <1>9, <1>10, <1>12, <1>18, <2>1, <2>2, <2>3 DEF Inv, TypeOK
<1>21. \A i \in Ids : fate[i] \in {"applied", "cancelled", "discarded"} => fate'[i] = fate[i]
  BY <1>2, <1>13, <1>14
<1> QED BY <1>9, <1>15, <1>16, <1>17, <1>19, <1>20, <1>21 DEF Inv
-----------------------------------------------------------------------------
(* Every step keeps the invariant and the fate of what is resolved. *)
LEMMA StepInv ==
    ASSUME Inv, [Next]_vars
    PROVE  /\ Inv'
           /\ \A i \in Ids : fate[i] \in {"applied", "cancelled", "discarded"} => fate'[i] = fate[i]
<1>1. CASE Arrive
  <2>0. PICK kind \in Kinds : \E cost \in Costs(kind) :
          \/ \E block \in Blocks, generation \in 1..MaxGeneration :
               Enqueue(kind, block, generation, cost)
          \/ Enqueue(kind, NoBlock, 1, cost)
    BY <1>1 DEF Arrive
  <2>1. PICK cost \in Costs(kind) :
          \/ \E block \in Blocks, generation \in 1..MaxGeneration :
               Enqueue(kind, block, generation, cost)
          \/ Enqueue(kind, NoBlock, 1, cost)
    BY <2>0
  <2>2. cost \in 1..IdleBudget
    BY SchedulerAssumption DEF Costs
  <2>3. CASE \E block \in Blocks, generation \in 1..MaxGeneration :
               Enqueue(kind, block, generation, cost)
    <3>1. PICK block \in Blocks, generation \in 1..MaxGeneration :
            Enqueue(kind, block, generation, cost)
      BY <2>3
    <3> QED BY <2>2, <3>1, EnqueueStep
  <2>4. CASE Enqueue(kind, NoBlock, 1, cost)
    <3>1. 1 \in 1..MaxGeneration
      BY SchedulerAssumption
    <3> QED BY <2>2, <2>4, <3>1, EnqueueStep
  <2> QED BY <2>1, <2>3, <2>4
<1>2. CASE Pump \/ Wake \/ Frame
  BY <1>2, FrameSteps
<1>3. CASE Clear
  BY <1>3, ClearStep
<1>4. CASE ChangeMode \/ UNCHANGED vars
  <2>1. /\ UNCHANGED <<heapVars, schedulerVars, timerVars, fate, cancellable, clears>>
        /\ mode' = mode \/ mode' \in Modes
    BY <1>4 DEF ChangeMode, Interact, vars
  <2>2. TypeOK'
    BY <2>1 DEF Inv, TypeOK, heapVars, schedulerVars, timerVars
  <2>3. QueueAgrees' /\ NewestOfKey' /\ WakeIsComing' /\ CancelHonoured' /\ IdsHandedOut'
    BY <2>1 DEF Inv, QueueAgrees, NewestOfKey, Keyed, Key, WakeIsComing, CancelHonoured,
                IdsHandedOut, heapVars, schedulerVars, timerVars
  <2> QED BY <2>1, <2>2, <2>3 DEF Inv
<1> QED BY <1>1, <1>2, <1>3, <1>4 DEF Next

(* All parts of the invariant hold together in every reachable state. *)
THEOREM SchedulerInvariant == Spec => []Inv
<1>1. Inv /\ [Next]_vars => Inv'
  BY StepInv
<1> QED BY InitInv, <1>1, PTL DEF Spec

(* The scheduler, the arbiter and the timers keep their types. *)
THEOREM SchedulerTypeCorrect == Spec => []TypeOK
<1>1. Inv => TypeOK
  BY DEF Inv
<1> QED BY SchedulerInvariant, <1>1, PTL

(* The arbiter's heap, the callbacks and the results that are unresolved   *)
(* are always the same.                                                    *)
THEOREM SchedulerQueueAgrees == Spec => []QueueAgrees
<1>1. Inv => QueueAgrees
  BY DEF Inv
<1> QED BY SchedulerInvariant, <1>1, PTL

(* Work made pointless by a newer generation of its key is not queued. *)
THEOREM SchedulerOnlyNewestQueued == Spec => []OnlyNewestQueued
<1>1. Inv => OnlyNewestQueued
  BY DEF Inv, NewestOfKey, OnlyNewestQueued
<1> QED BY SchedulerInvariant, <1>1, PTL

(* While anything is queued, a pump or a wake timer is on its way, however *)
(* clear, the pump and the wake timer reset each other's flags.            *)
THEOREM SchedulerWakeIsComing == Spec => []WakeIsComing
<1>1. Inv => WakeIsComing
  BY DEF Inv
<1> QED BY SchedulerInvariant, <1>1, PTL

(* A result with a cancel callback is never dropped in silence. *)
THEOREM SchedulerCancelHonoured == Spec => []CancelHonoured
<1>1. Inv => CancelHonoured
  BY DEF Inv
<1> QED BY SchedulerInvariant, <1>1, PTL

(* No callback runs twice, and none runs after its cancel. *)
THEOREM SchedulerResolvedOnce == Spec => ResolvedOnce
<1>1. Inv /\ [Next]_vars =>
        [\A i \in Ids : fate[i] \in {"applied", "cancelled", "discarded"} => fate'[i] = fate[i]]_vars
  BY StepInv
<1> QED BY SchedulerInvariant, <1>1, PTL DEF Spec, ResolvedOnce

-----------------------------------------------------------------------------
(* What tasks cost together.                                               *)

(* Induction over a set of numbers, from the order of the naturals. *)
LEMMA NumberInduction ==
    ASSUME NEW S, 0 \in S, \A n \in Nat : n \in S => n + 1 \in S
    PROVE  \A n \in Nat : n \in S
<1> DEFINE T == {n \in Nat : n \notin S}
<1>1. SUFFICES ASSUME T # {} PROVE FALSE
  OBVIOUS
<1>2. PICK x \in T : \A y \in T : ~(<<y, x>> \in OpToRel(<, Nat))
  BY <1>1, NatLessThanWellFounded, WFMin
<1>3. \A y \in Nat : y < x => y \in S
  BY <1>2 DEF OpToRel
<1>4. x \in Nat /\ x # 0
  BY <1>2
<1>5. x - 1 \in Nat /\ x - 1 < x /\ (x - 1) + 1 = x
  BY <1>4
<1> QED BY <1>2, <1>3, <1>5

(* What a set of tasks costs, as in Ready. *)
Cost(S) == MapThenSumSet(LAMBDA u : u.cost, S)
Pick(s) == CHOOSE x \in s : TRUE
Smaller(S, n) == {s \in SUBSET S : Cardinality(s) <= n}
Summing(D, f) == f = [s \in D |-> IF s = {} THEN 0 ELSE Pick(s).cost + f[s \ {Pick(s)}]]

(* The sum that Ready compares with the budget is a recursive function. *)
LEMMA CostIs == ASSUME NEW S PROVE Cost(S) = (CHOOSE f : Summing(SUBSET S, f))[S]
  BY DEF Cost, MapThenSumSet, MapThenFoldSet, Summing, Pick

(* A set without its chosen element is smaller. *)
LEMMA PickRemoved ==
    ASSUME NEW s, IsFiniteSet(s), s # {}
    PROVE  /\ Pick(s) \in s /\ IsFiniteSet(s \ {Pick(s)})
           /\ Cardinality(s \ {Pick(s)}) = Cardinality(s) - 1 /\ Cardinality(s) \in Nat
<1>1. Pick(s) \in s
  BY DEF Pick
<1> QED BY <1>1, FS_RemoveElement, FS_CardinalityType

(* That function exists: there is one for all sets up to any size. *)
LEMMA SumExists ==
    ASSUME NEW S, IsFiniteSet(S)
    PROVE  \E f : Summing(SUBSET S, f)
<1> DEFINE N == {n \in Nat : \E f : Summing(Smaller(S, n), f)}
<1>0. \A s \in SUBSET S : IsFiniteSet(s) /\ Cardinality(s) \in Nat
  BY FS_Subset, FS_CardinalityType
<1>1. 0 \in N
  <2>1. \A s \in Smaller(S, 0) : s = {}
    BY <1>0, FS_EmptySet DEF Smaller
  <2> DEFINE f == [s \in Smaller(S, 0) |-> 0]
  <2>2. Summing(Smaller(S, 0), f)
    BY <2>1 DEF Summing
  <2> QED BY <2>2
<1>2. ASSUME NEW n \in Nat, n \in N PROVE n + 1 \in N
  <2>1. PICK f : Summing(Smaller(S, n), f)
    BY <1>2
  <2> DEFINE g == [s \in Smaller(S, n + 1) |->
                     IF s = {} THEN 0 ELSE Pick(s).cost + f[s \ {Pick(s)}]]
  <2>2. ASSUME NEW s \in Smaller(S, n + 1), s # {}
        PROVE  s \ {Pick(s)} \in Smaller(S, n) /\ s \ {Pick(s)} \in Smaller(S, n + 1)
    <3>1. s \in SUBSET S /\ IsFiniteSet(s) /\ Cardinality(s) <= n + 1
      BY <1>0 DEF Smaller
    <3>2. s \ {Pick(s)} \in SUBSET S /\ Cardinality(s \ {Pick(s)}) = Cardinality(s) - 1 /\ Cardinality(s) \in Nat
      BY <2>2, <3>1, PickRemoved
    <3> QED BY <3>1, <3>2 DEF Smaller
  <2>3. \A s \in Smaller(S, n) :
          s \in Smaller(S, n + 1) /\ f[s] = IF s = {} THEN 0 ELSE Pick(s).cost + f[s \ {Pick(s)}]
    <3>1. \A s \in Smaller(S, n) : s \in Smaller(S, n + 1)
      BY <1>0 DEF Smaller
    <3>2. \A s \in Smaller(S, n) : f[s] = IF s = {} THEN 0 ELSE Pick(s).cost + f[s \ {Pick(s)}]
      BY <2>1 DEF Summing
    <3> QED BY <3>1, <3>2
  <2>4. \A s \in Smaller(S, n) : g[s] = f[s]
    BY <2>3
  <2>5. g = [s \in Smaller(S, n + 1) |->
               IF s = {} THEN 0 ELSE Pick(s).cost + g[s \ {Pick(s)}]]
    <3>1. \A s \in Smaller(S, n + 1) : s # {} => g[s \ {Pick(s)}] = f[s \ {Pick(s)}]
      BY <2>2, <2>4
    <3> HIDE DEF g
    <3> SUFFICES \A s \in Smaller(S, n + 1) :
                   (IF s = {} THEN 0 ELSE Pick(s).cost + f[s \ {Pick(s)}])
                     = (IF s = {} THEN 0 ELSE Pick(s).cost + g[s \ {Pick(s)}])
      BY DEF g
    <3> QED BY <3>1
  <2> HIDE DEF g
  <2>6. Summing(Smaller(S, n + 1), g)
    BY <2>5 DEF Summing
  <2> QED BY <2>6
<1> HIDE DEF N
<1>3. \A n \in Nat : n \in N
  BY <1>1, <1>2, NumberInduction
<1>4. Cardinality(S) \in Nat /\ Smaller(S, Cardinality(S)) = SUBSET S
  BY <1>0, FS_Subset DEF Smaller
<1>5. Cardinality(S) \in N
  BY <1>3, <1>4
<1>6. \E f : Summing(Smaller(S, Cardinality(S)), f)
  BY <1>5 DEF N
<1> QED BY <1>4, <1>6

(* Its recursive equation. *)
Sums(S, f) ==
    /\ f[{}] = 0
    /\ \A s \in SUBSET S : s # {} => f[s] = Pick(s).cost + f[s \ {Pick(s)}]

(* It satisfies its recursive equation. *)
LEMMA CostFunction ==
    ASSUME NEW S, IsFiniteSet(S)
    PROVE  \E f : Sums(S, f) /\ Cost(S) = f[S]
<1>1. PICK f : f = CHOOSE h : Summing(SUBSET S, h)
  OBVIOUS
<1>2. Summing(SUBSET S, f)
  BY <1>1, SumExists
<1>3. \A s \in SUBSET S : f[s] = IF s = {} THEN 0 ELSE Pick(s).cost + f[s \ {Pick(s)}]
  BY <1>2 DEF Summing
<1>4. Sums(S, f)
  BY <1>3 DEF Sums
<1>5. Cost(S) = f[S]
  BY <1>1, CostIs
<1> QED BY <1>4, <1>5

Costed(S) == IsFiniteSet(S) /\ \A t \in S : t.cost \in Nat

(* The equation determines the sum. *)
LEMMA SumsAgree ==
    ASSUME NEW S, IsFiniteSet(S), NEW f, NEW g, Sums(S, f), Sums(S, g)
    PROVE  f[S] = g[S]
<1> DEFINE N == {n \in Nat : \A s \in SUBSET S : Cardinality(s) <= n => f[s] = g[s]}
<1>0. \A s \in SUBSET S : IsFiniteSet(s) /\ Cardinality(s) \in Nat
  BY FS_Subset, FS_CardinalityType
<1>1. 0 \in N
  <2>1. \A s \in SUBSET S : Cardinality(s) <= 0 => s = {}
    BY <1>0, FS_EmptySet
  <2> QED BY <2>1 DEF Sums
<1>2. ASSUME NEW n \in Nat, n \in N PROVE n + 1 \in N
  <2>1. \A s \in SUBSET S : Cardinality(s) <= n => f[s] = g[s]
    BY <1>2
  <2>2. ASSUME NEW s \in SUBSET S, Cardinality(s) <= n + 1 PROVE f[s] = g[s]
    <3>1. CASE s = {}
      BY <3>1 DEF Sums
    <3>2. CASE s # {}
      <4>1. s \ {Pick(s)} \in SUBSET S /\ Cardinality(s \ {Pick(s)}) <= n
        BY <1>0, <2>2, <3>2, PickRemoved
      <4> QED BY <2>1, <3>2, <4>1 DEF Sums
    <3> QED BY <3>1, <3>2
  <2> QED BY <2>2
<1> HIDE DEF N
<1>3. Cardinality(S) \in N
  BY <1>0, <1>1, <1>2, NumberInduction
<1> QED BY <1>0, <1>3 DEF N

(* The order in which costs are added does not matter. *)
LEMMA SumsAnyOrder ==
    ASSUME NEW S, Costed(S), NEW f, Sums(S, f)
    PROVE  \A s \in SUBSET S : f[s] \in Nat /\ \A x \in s : f[s] = x.cost + f[s \ {x}]
<1> DEFINE Good(s) == f[s] \in Nat /\ \A x \in s : f[s] = x.cost + f[s \ {x}]
           N == {n \in Nat : \A s \in SUBSET S : Cardinality(s) <= n => Good(s)}
<1>0. \A s \in SUBSET S : IsFiniteSet(s) /\ Cardinality(s) \in Nat
  BY FS_Subset, FS_CardinalityType DEF Costed
<1>1. 0 \in N
  <2>1. \A s \in SUBSET S : Cardinality(s) <= 0 => s = {}
    BY <1>0, FS_EmptySet
  <2> QED BY <2>1 DEF Sums
<1>2. ASSUME NEW n \in Nat, n \in N PROVE n + 1 \in N
  <2>1. \A s \in SUBSET S : Cardinality(s) <= n => Good(s)
    BY <1>2
  <2> HIDE DEF Good
  <2>2. ASSUME NEW s \in SUBSET S, Cardinality(s) <= n + 1 PROVE Good(s)
    <3>1. CASE s = {}
      BY <3>1 DEF Sums, Good
    <3>2. CASE s # {}
      <4>1. PICK c : c = Pick(s)
        OBVIOUS
      <4>2. c \in s /\ c.cost \in Nat /\ Cardinality(s) \in Nat /\ f[s] = c.cost + f[s \ {c}]
        BY <1>0, <3>2, <4>1, PickRemoved DEF Costed, Sums
      <4>3. ASSUME NEW x \in s
            PROVE  s \ {x} \in SUBSET S /\ Cardinality(s \ {x}) <= n /\ x.cost \in Nat /\ Good(s \ {x})
        <5>1. Cardinality(s \ {x}) = Cardinality(s) - 1
          BY <1>0, FS_RemoveElement
        <5>2. s \ {x} \in SUBSET S /\ Cardinality(s \ {x}) <= n /\ x.cost \in Nat
          BY <2>2, <4>2, <5>1 DEF Costed
        <5> QED BY <2>1, <5>2
      <4>4. f[s] \in Nat
        BY <4>2, <4>3 DEF Good
      <4>5. ASSUME NEW x \in s PROVE f[s] = x.cost + f[s \ {x}]
        <5>1. CASE x = c
          BY <4>2, <5>1
        <5>2. CASE x # c
          <6>1. f[s \ {c}] = x.cost + f[(s \ {c}) \ {x}] /\ f[s \ {x}] = c.cost + f[(s \ {x}) \ {c}]
            BY <4>2, <4>3, <5>2 DEF Good
          <6>2. PICK r : r = (s \ {c}) \ {x}
            OBVIOUS
          <6>3. (s \ {x}) \ {c} = r
            BY <6>2
          <6>4. f[r] \in Nat
            <7>1. r \in SUBSET S /\ Cardinality(r) <= n
              <8>1. r \subseteq s \ {c} /\ IsFiniteSet(s \ {c}) /\ Cardinality(s \ {c}) <= n
                BY <1>0, <4>2, <4>3, <6>2
              <8>2. Cardinality(r) <= Cardinality(s \ {c}) /\ Cardinality(r) \in Nat /\ Cardinality(s \ {c}) \in Nat
                BY <8>1, FS_Subset, FS_CardinalityType
              <8> QED BY <8>1, <8>2
            <7> QED BY <2>1, <7>1 DEF Good
          <6>5. x.cost \in Nat /\ c.cost \in Nat
            BY <4>2, <4>3
          <6>6. f[s \ {x}] = c.cost + f[r] /\ f[s \ {c}] = x.cost + f[r]
            BY <6>1, <6>2, <6>3
          <6>7. f[s] = c.cost + (x.cost + f[r])
            BY <4>2, <6>6
          <6>8. c.cost + (x.cost + f[r]) = x.cost + (c.cost + f[r])
            BY <6>4, <6>5
          <6> QED BY <6>6, <6>7, <6>8
        <5> QED BY <5>1, <5>2
      <4> QED BY <4>4, <4>5 DEF Good
    <3> QED BY <3>1, <3>2
  <2> QED BY <2>2
<1> HIDE DEF N
<1>3. \A n \in Nat : n \in N
  BY <1>1, <1>2, NumberInduction
<1>4. ASSUME NEW s \in SUBSET S PROVE Good(s)
  <2>1. Cardinality(s) \in N /\ Cardinality(s) <= Cardinality(s)
    BY <1>0, <1>3
  <2> HIDE DEF Good
  <2> QED BY <2>1 DEF N
<1> QED BY <1>4

(* More tasks cost at least as much. *)
LEMMA CostGrows ==
    ASSUME NEW A, NEW B, Costed(B), A \subseteq B
    PROVE  Cost(A) \in Nat /\ Cost(B) \in Nat /\ Cost(A) <= Cost(B)
<1>1. PICK f : Sums(B, f) /\ Cost(B) = f[B]
  BY CostFunction DEF Costed
<1>2. IsFiniteSet(B) /\ \A s \in SUBSET B : IsFiniteSet(s) /\ Cardinality(s) \in Nat
  BY FS_Subset, FS_CardinalityType DEF Costed
<1>3. \A s \in SUBSET B : f[s] \in Nat /\ \A x \in s : f[s] = x.cost + f[s \ {x}]
  BY <1>1, SumsAnyOrder
<1>4. Cost(A) = f[A]
  <2>1. PICK g : Sums(A, g) /\ Cost(A) = g[A]
    BY <1>2, CostFunction
  <2>2. Sums(A, f)
    BY <1>1 DEF Sums
  <2> QED BY <1>2, <2>1, <2>2, SumsAgree
<1> DEFINE N == {n \in Nat : \A s \in SUBSET B : A \subseteq s /\ Cardinality(s) <= n => f[A] <= f[s]}
<1>5. 0 \in N
  <2>1. \A s \in SUBSET B : A \subseteq s /\ Cardinality(s) <= 0 => s = A
    BY <1>2, FS_EmptySet
  <2>2. f[A] \in Nat
    BY <1>3
  <2> QED BY <2>1, <2>2
<1>6. ASSUME NEW n \in Nat, n \in N PROVE n + 1 \in N
  <2>1. \A s \in SUBSET B : A \subseteq s /\ Cardinality(s) <= n => f[A] <= f[s]
    BY <1>6
  <2>2. ASSUME NEW s \in SUBSET B, A \subseteq s, Cardinality(s) <= n + 1 PROVE f[A] <= f[s]
    <3>1. f[A] \in Nat /\ f[s] \in Nat
      BY <1>3
    <3>2. CASE s = A
      BY <3>1, <3>2
    <3>3. CASE s # A
      <4>1. PICK x \in s : x \notin A
        BY <2>2, <3>3
      <4>2. f[s] = x.cost + f[s \ {x}] /\ x.cost \in Nat /\ f[s \ {x}] \in Nat
        BY <1>3 DEF Costed
      <4>3. s \ {x} \in SUBSET B /\ A \subseteq s \ {x} /\ Cardinality(s \ {x}) <= n
        <5>1. Cardinality(s \ {x}) = Cardinality(s) - 1 /\ Cardinality(s) \in Nat
          BY <1>2, FS_RemoveElement
        <5> QED BY <2>2, <4>1, <5>1
      <4>4. f[A] <= f[s \ {x}]
        BY <2>1, <4>3
      <4> QED BY <3>1, <4>2, <4>4
    <3> QED BY <3>2, <3>3
  <2> QED BY <2>2
<1> HIDE DEF N
<1>7. Cardinality(B) \in N
  BY <1>2, <1>5, <1>6, NumberInduction
<1>8. f[A] <= f[B]
  <2>1. Cardinality(B) <= Cardinality(B)
    BY <1>2
  <2> QED BY <1>7, <2>1 DEF N
<1> QED BY <1>1, <1>3, <1>4, <1>8

-----------------------------------------------------------------------------
(* Ranks are an order (MainThreadTask::cmp). *)
LEMMA BeforeTransitive ==
    ASSUME NEW t \in Task, NEW u \in Task, NEW w \in Task, order \in [Ids -> Nat],
           Before(t, u), Before(u, w)
    PROVE  Before(t, w)
<1>1. \A k \in AllKinds : priority[k] \in Nat
  BY DEF priority, AllKinds
<1>2. /\ t.kind \in AllKinds /\ u.kind \in AllKinds /\ w.kind \in AllKinds
      /\ t.id \in Ids /\ u.id \in Ids /\ w.id \in Ids
  BY SchedulerAssumption DEF Task
<1>3. /\ priority[t.kind] \in Nat /\ priority[u.kind] \in Nat /\ priority[w.kind] \in Nat
      /\ order[t.id] \in Nat /\ order[u.id] \in Nat /\ order[w.id] \in Nat
  BY <1>1, <1>2
<1> QED BY <1>3 DEF Before

(* Whatever ranks before a task the frame can afford is affordable itself, *)
(* unless it is held back.                                                 *)
LEMMA ReadyClosed ==
    ASSUME Inv, NEW t \in Ready, NEW u \in heap, Before(u, t), ~Protected(u)
    PROVE  u \in Ready
<1> DEFINE UpTo(x) == {y \in Runnable : y = x \/ Before(y, x)}
<1>1. /\ heap \subseteq Task /\ IsFiniteSet(heap) /\ order \in [Ids -> Nat] /\ mode \in Modes
      /\ arbiter_latest \in [Keys -> 0..MaxGeneration]
  BY DEF Inv, TypeOK, IdsHandedOut
<1>2. t \in heap /\ t \in Runnable
  BY DEF Ready, Runnable
<1>3. u \in Runnable
  <2>1. ~Stale(u, arbiter_latest)
    <3>1. Keyed(u) => arbiter_latest[Key(u)] = u.generation
      BY DEF Inv, NewestOfKey
    <3>2. u.generation \in Nat
      BY <1>1, SchedulerAssumption DEF Task
    <3> QED BY <3>1, <3>2 DEF Stale
  <2> QED BY <2>1 DEF Runnable
<1>4. UpTo(u) \subseteq UpTo(t)
  <2> SUFFICES ASSUME NEW y \in UpTo(u) PROVE y \in UpTo(t)
    OBVIOUS
  <2>1. y \in Task /\ y \in Runnable
    BY <1>1 DEF Runnable
  <2>2. CASE y = u
    BY <2>1, <2>2
  <2>3. CASE Before(y, u)
    BY <1>1, <1>2, <2>1, <2>3, BeforeTransitive
  <2> QED BY <2>2, <2>3
<1>5. Costed(UpTo(t))
  <2>1. UpTo(t) \subseteq heap
    BY DEF Runnable
  <2>2. IsFiniteSet(UpTo(t))
    BY <1>1, <2>1, FS_Subset
  <2>3. \A x \in heap : x.cost \in Nat
    BY <1>1, SchedulerAssumption DEF Task
  <2> QED BY <2>1, <2>2, <2>3 DEF Costed
<1> HIDE DEF UpTo
<1>6. Cost(UpTo(u)) \in Nat /\ Cost(UpTo(t)) \in Nat /\ Cost(UpTo(u)) <= Cost(UpTo(t))
  BY <1>4, <1>5, CostGrows
<1>7. Ready = {x \in Runnable : Cost(UpTo(x)) <= Budget(mode)}
  BY DEF Ready, Cost, UpTo
<1>8. Budget(mode) \in Nat
  BY SchedulerAssumption DEF Budget
<1>9. Cost(UpTo(t)) <= Budget(mode)
  BY <1>7
<1> QED BY <1>3, <1>6, <1>7, <1>8, <1>9

(* A frame, whatever its deadline, leaves nothing waiting that ranks       *)
(* before a task it ran, unless that is held back.                         *)
LEMMA FrameInOrder ==
    ASSUME Inv, NEW requeued \in Deadlines, FrameEffect(requeued),
           NEW t \in tasks, NEW u \in tasks,
           fate'[t.id] = "applied", fate'[u.id] = "waiting", Before(u, t)
    PROVE  Protected(u)
<1> SUFFICES ASSUME ~Protected(u) PROVE FALSE
  OBVIOUS
<1>1. /\ heap = tasks /\ heap \subseteq Task /\ order \in [Ids -> Nat]
      /\ \A x, y \in tasks : x.id = y.id => x = y
      /\ t.id \in Ids /\ u.id \in Ids /\ fate[t.id] = "waiting"
  BY DEF Inv, TypeOK, QueueAgrees, Task
<1>2. Ready \subseteq heap /\ requeued \subseteq Ready
  BY ReadyIsQueued, DeadlinesAreReady
<1>3. t \in Ready \ requeued
  <2>1. t.id \in IdsOf(Ready \ requeued)
    BY <1>1 DEF FrameEffect
  <2> QED BY <1>1, <1>2, <2>1 DEF IdsOf
<1>4. u \in Ready
  BY <1>1, <1>3, ReadyClosed
<1>5. u \notin requeued
  <2> SUFFICES ASSUME u \in requeued PROVE FALSE
    OBVIOUS
  <2>1. PICK r \in Ready : requeued = {x \in Ready : x = r \/ Before(r, x)}
    BY DEF Deadlines
  <2>2. r \in Task /\ u \in Task /\ t \in Task
    BY <1>1, <1>2
  <2>3. Before(r, t)
    BY <1>1, <2>1, <2>2, BeforeTransitive
  <2> QED BY <1>3, <2>1, <2>3
<1>6. u.id \in IdsOf(Ready \ requeued)
  BY <1>4, <1>5 DEF IdsOf
<1> QED BY <1>1, <1>6 DEF FrameEffect

(* Only frames apply results: not a new result ... *)
LEMMA ArriveAppliesNone ==
    ASSUME Inv, Arrive, NEW t \in tasks
    PROVE  fate'[t.id] # "applied"
<1>1. t.id \in Ids /\ fate[t.id] = "waiting" /\ fate \in [Ids -> Fates]
  BY DEF Inv, TypeOK, QueueAgrees, Task
<1>2. \A x : Cancelled(x) # "applied"
  BY DEF Cancelled
<1>3. PICK kind, block, generation, cost : Enqueue(kind, block, generation, cost)
  BY DEF Arrive
<1>4. PICK x, gone, refused :
        fate' = Cancel(gone, [fate EXCEPT ![x.id] = IF refused THEN Cancelled(x) ELSE "waiting"])
  BY <1>3 DEF Enqueue
<1> QED BY <1>1, <1>2, <1>4 DEF Cancel

(* ... and not the end of the view. *)
LEMMA ClearAppliesNone ==
    ASSUME Inv, Clear, NEW t \in tasks
    PROVE  fate'[t.id] # "applied"
<1>1. t.id \in Ids /\ fate[t.id] = "waiting"
  BY DEF Inv, TypeOK, QueueAgrees, Task
<1>2. \A x : Cancelled(x) # "applied"
  BY DEF Cancelled
<1>3. fate' = Cancel(tasks, fate)
  BY DEF Clear
<1> QED BY <1>1, <1>2, <1>3 DEF Cancel

(* A frame takes the queue in order: nothing runs before a result that     *)
(* ranks ahead of it and is left waiting, unless that is background work   *)
(* held back while the user types (run_frame_with_budget).                 *)
THEOREM SchedulerNoOvertaking == Spec => NoOvertaking
<1>1. Inv /\ [Next]_vars =>
        [\A t, u \in tasks :
           (fate'[t.id] = "applied" /\ fate'[u.id] = "waiting" /\ Before(u, t)) => Protected(u)]_vars
  <2> SUFFICES ASSUME Inv, Next, NEW t \in tasks, NEW u \in tasks,
                      fate'[t.id] = "applied", fate'[u.id] = "waiting", Before(u, t)
               PROVE  Protected(u)
    OBVIOUS
  <2>1. CASE Pump \/ Wake \/ Frame
    <3>1. PICK requeued \in Deadlines :
            \/ run_main_thread_applies(requeued, wake_scheduled, wake_timers)
            \/ run_main_thread_applies(requeued, FALSE, wake_timers - 1)
      BY <2>1 DEF Pump, Wake, Frame, PumpFires, WakeFires, Render
    <3>2. FrameEffect(requeued)
      BY <3>1, FrameProperties
    <3> QED BY <3>2, FrameInOrder
  <2>2. CASE Arrive \/ Clear
    BY <2>2, ArriveAppliesNone, ClearAppliesNone
  <2>3. CASE ChangeMode
    <3>1. fate' = fate /\ fate[t.id] = "waiting"
      BY <2>3 DEF ChangeMode, Interact, Inv, TypeOK, QueueAgrees, Task
    <3> QED BY <3>1
  <2> QED BY <2>1, <2>2, <2>3 DEF Next
<1> QED BY SchedulerInvariant, <1>1, PTL DEF Spec, NoOvertaking
=============================================================================
