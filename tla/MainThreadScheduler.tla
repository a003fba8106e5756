------------------------- MODULE MainThreadScheduler -------------------------
(***************************************************************************)
(* The queue through which every asynchronous result of the editor (saves, *)
(* undo spills, prefetched payloads, decoded images, text layouts, events  *)
(* of the AI stream) reaches the view: EditorMainThreadScheduler with its  *)
(* MainThreadBudgetArbiter, the zero-delay pump, the deduplicated wake     *)
(* timer, and the frame that applies what fits into its budget.            *)
(*                                                                         *)
(* All handlers run on the main thread and are atomic; what interleaves is *)
(* the arrival of results, the timers, rendering, the user's interaction   *)
(* mode and the host (clear).  The six dimensions of WorkCost are one      *)
(* number.  No apply callback of the editor enqueues work before it        *)
(* returns, so a frame is one step.                                        *)
(***************************************************************************)
EXTENDS Naturals, FiniteSets, FiniteSetsExt

CONSTANTS
    Kinds,           \* the MainThreadWorkKinds that arrive
    Blocks,          \* blocks with keyed work
    NoBlock,         \* block_id: None
    Modes,           \* the InteractionModes that occur
    IdleBudget,      \* MainThreadBudget::default()
    ScrollBudget,    \* for_mode(WheelScrolling | ScrollbarDragging)
    TypingBudget,    \* for_mode(Typing | Composing)
    MaxCost,         \* the dearest text layout or batch of payloads
    MaxGeneration,   \* bound: generations per key
    MaxTasks,        \* bound: results in all
    MaxOrder,        \* bound: enqueue and requeue positions handed out
    MaxClears        \* bound: host deactivations and document switches

AllKinds == {"CompositionCaret", "KeyInput", "EditingTextShape", "VisibleSelection",
             "WheelScroll", "CurrentWindowMeasure", "WindowSwap", "AsyncMeasureApply",
             "Prefetch", "PersistenceCallback", "FtsUpdate", "RemoteHeightRefinement",
             "ImageDecodeApply"}
AllModes == {"Idle", "Typing", "Composing", "WheelScrolling", "ScrollbarDragging",
             "Selecting"}

ASSUME SchedulerAssumption ==
    /\ Kinds \subseteq AllKinds /\ Modes \subseteq AllModes /\ "Idle" \in Modes
    /\ NoBlock \notin Blocks
    /\ IdleBudget \in Nat /\ ScrollBudget \in Nat /\ TypingBudget \in Nat
    /\ MaxCost \in 1..IdleBudget
    /\ MaxGeneration \in Nat \ {0} /\ MaxTasks \in Nat /\ MaxOrder \in Nat
    /\ MaxClears \in Nat

-----------------------------------------------------------------------------
(* What the kinds of work are.                                             *)

priority ==
    [CompositionCaret |-> 100, KeyInput |-> 90, EditingTextShape |-> 85,
     VisibleSelection |-> 80, WheelScroll |-> 70, CurrentWindowMeasure |-> 60,
     WindowSwap |-> 50, AsyncMeasureApply |-> 40, ImageDecodeApply |-> 35,
     Prefetch |-> 30, PersistenceCallback |-> 20, FtsUpdate |-> 10,
     RemoteHeightRefinement |-> 5]

DropStaleKinds == {"EditingTextShape", "CurrentWindowMeasure", "AsyncMeasureApply",
                   "RemoteHeightRefinement", "Prefetch", "FtsUpdate", "ImageDecodeApply"}

BackgroundKinds == {"Prefetch", "PersistenceCallback", "FtsUpdate",
                    "RemoteHeightRefinement", "ImageDecodeApply"}

ProtectedModes == {"Typing", "Composing"}

Budget(m) == CASE m \in ProtectedModes -> TypingBudget
               [] m \in {"WheelScrolling", "ScrollbarDragging"} -> ScrollBudget
               [] OTHER -> IdleBudget

(* What the call sites pass: the results that belong to a block carry its  *)
(* id, images and AI events a cancel callback, and the cost of shaping a   *)
(* text or of taking prefetched payloads grows with their size.  Images    *)
(* and measures always belong to a block; a text may be that of a caption, *)
(* and Prefetch is a text off screen as well as a batch of payloads.       *)
MeasureKinds == {"AsyncMeasureApply", "ImageDecodeApply"}
SizedKinds == {"EditingTextShape", "CurrentWindowMeasure", "Prefetch"}
KeyedKinds == MeasureKinds \cup SizedKinds \cup {"WindowSwap"}
CancelKinds == {"VisibleSelection", "ImageDecodeApply"}
Costs(kind) == IF kind \in SizedKinds THEN 1..MaxCost ELSE {1}

Ids == 0..MaxTasks - 1
Task == [id : Ids, kind : Kinds, block : Blocks \cup {NoBlock},
         generation : 1..MaxGeneration, cost : 1..IdleBudget, cancel : BOOLEAN]
Keys == (Kinds \cap DropStaleKinds) \X Blocks

VARIABLES
    \* MainThreadBudgetArbiter: the queued tasks, their enqueued_order (0 for
    \* an id not queued), and the newest generation of each key (0 when the
    \* map has no entry)
    heap, order, arbiter_latest, next_order,
    \* EditorMainThreadScheduler: the tasks (each with its callbacks), the
    \* newest generations, ids and the two timer flags
    tasks, latest_generation, next_task_id, wake_scheduled, pump_scheduled,
    \* timers of the executor that have not fired
    pump_timers, wake_timers,
    \* the user's interaction mode
    mode,
    \* observation: what became of the callback of each task, and which
    \* tasks came with a cancel callback
    fate, cancellable,
    clears

heapVars == <<heap, order, arbiter_latest, next_order>>
schedulerVars == <<tasks, latest_generation, next_task_id>>
timerVars == <<wake_scheduled, pump_scheduled, pump_timers, wake_timers>>
vars == <<heapVars, schedulerVars, timerVars, mode, fate, cancellable, clears>>

Init ==
    /\ heap = {} /\ order = [i \in Ids |-> 0]
    /\ arbiter_latest = [k \in Keys |-> 0] /\ next_order = 0
    /\ tasks = {} /\ latest_generation = [k \in Keys |-> 0] /\ next_task_id = 0
    /\ wake_scheduled = FALSE /\ pump_scheduled = FALSE
    /\ pump_timers = 0 /\ wake_timers = 0
    /\ mode = "Idle"
    /\ fate = [i \in Ids |-> "none"] /\ cancellable = {}
    /\ clears = 0

-----------------------------------------------------------------------------
IdsOf(S) == {t.id : t \in S}
Key(t) == <<t.kind, t.block>>
Keyed(t) == t.kind \in DropStaleKinds /\ t.block # NoBlock

\* MainThreadTask::cmp: by priority, then by age.
Before(t, u) ==
    \/ priority[t.kind] > priority[u.kind]
    \/ priority[t.kind] = priority[u.kind] /\ order[t.id] < order[u.id]

\* A task whose key has a newer generation in the given map.
Stale(t, latest) == Keyed(t) /\ t.generation < latest[Key(t)]

\* prune_latest_generations, prune_generation_keys: forget the keys without
\* a live task.
Prune(latest, live) ==
    [k \in Keys |-> IF \E t \in live : Keyed(t) /\ Key(t) = k THEN latest[k] ELSE 0]

(* Mutant: the older results stay queued until the frame that meets them. *)
SupersededLazily(t, queued, newest) == {}

\* drop_stale_tasks_for: the queued results of t's key that t made stale.
Superseded(t, queued, newest) ==
    {u \in queued : Keyed(t) /\ Keyed(u) /\ Key(u) = Key(t) /\ Stale(u, newest)}

(* Mutant: a result that is let go never hears of it. *)
CancelledSilently(t) == "discarded"

\* PendingCallbacks::cancel: without a cancel callback the result just goes.
Cancelled(t) == IF t.cancel THEN "cancelled" ELSE "discarded"

\* fate after the callbacks of `gone` were cancelled.
Cancel(gone, f) ==
    [i \in Ids |-> IF \E t \in gone : t.id = i
                   THEN Cancelled(CHOOSE t \in gone : t.id = i) ELSE f[i]]

-----------------------------------------------------------------------------
(* enqueue_main_thread_apply(_with_cancel): the arbiter refuses a result    *)
(* older than the newest of its key; a newer one drops the older results   *)
(* of its key at once; the pump is scheduled unless one is on its way.     *)
Enqueue(kind, block, generation, cost) ==
    LET t == [id |-> next_task_id, kind |-> kind, block |-> block,
              generation |-> generation, cost |-> cost, cancel |-> kind \in CancelKinds]
        refused == Stale(t, arbiter_latest)
        queued == IF refused THEN heap ELSE heap \cup {t}
        newest == IF Keyed(t) /\ ~refused
                  THEN [arbiter_latest EXCEPT ![Key(t)] = generation]
                  ELSE arbiter_latest
        superseded == Superseded(t, queued, newest)
        seen == IF Keyed(t) /\ latest_generation[Key(t)] < generation
                THEN [latest_generation EXCEPT ![Key(t)] = generation]
                ELSE latest_generation
    IN
    /\ next_task_id < MaxTasks /\ next_order < MaxOrder
    /\ heap' = queued \ superseded
    /\ tasks' = (IF refused THEN tasks ELSE tasks \cup {t}) \ superseded
    /\ order' = [i \in Ids |-> IF i = t.id /\ ~refused THEN next_order
                              ELSE IF i \in IdsOf(superseded) THEN 0 ELSE order[i]]
    /\ next_order' = next_order + 1
    /\ next_task_id' = next_task_id + 1
    /\ arbiter_latest' = IF superseded = {} THEN newest ELSE Prune(newest, heap')
    /\ latest_generation' = Prune(seen, tasks')
    /\ fate' = Cancel(superseded,
                      [fate EXCEPT ![t.id] = IF refused THEN Cancelled(t) ELSE "waiting"])
    /\ pump_scheduled' = (pump_scheduled \/ ~refused)
    /\ pump_timers' = IF refused \/ pump_scheduled THEN pump_timers ELSE pump_timers + 1
    /\ cancellable' = IF t.cancel THEN cancellable \cup {t.id} ELSE cancellable
    /\ UNCHANGED <<wake_scheduled, wake_timers, mode, clears>>

-----------------------------------------------------------------------------
(* take_ready / run_frame_with_budget: tasks are taken in order.  Stale     *)
(* ones are dropped, background work is passed over while the user types,  *)
(* and the first task that exceeds the budget ends the frame.              *)
(* Mutant: background work also waits when nobody types. *)
ProtectedAlways(t) == t.kind \in BackgroundKinds

Protected(t) == mode \in ProtectedModes /\ t.kind \in BackgroundKinds

Runnable == {t \in heap : ~Stale(t, arbiter_latest) /\ ~Protected(t)}

(* Mutant: looks for cheaper tasks behind the first one over the budget. *)
ReadySkipping ==
    LET runnable == Runnable
        Affordable(t) == t.cost <= Budget(mode)
        CostUpTo(t) == MapThenSumSet(LAMBDA u : u.cost,
                                     {u \in runnable : Affordable(u) /\ (u = t \/ Before(u, t))})
    IN {t \in runnable : Affordable(t) /\ CostUpTo(t) <= Budget(mode)}

Ready ==
    LET runnable == Runnable
        CostUpTo(t) == MapThenSumSet(LAMBDA u : u.cost,
                                     {u \in runnable : u = t \/ Before(u, t)})
    IN {t \in runnable : CostUpTo(t) <= Budget(mode)}

DroppedStale(ready) ==
    {t \in heap : Stale(t, arbiter_latest) /\ \A u \in Runnable \ ready : Before(t, u)}

(* run_main_thread_applies.  A ready task is checked against the           *)
(* scheduler's own generations and run, until the frame's deadline has     *)
(* passed at some task: that one and all behind it are queued again, at    *)
(* new positions and without a look at their cancel callbacks.  If work is *)
(* left, a wake timer is started unless one is on its way.                 *)
Deadlines ==
    LET ready == Ready
    IN {{}} \cup {{u \in ready : u = t \/ Before(t, u)} :
                    t \in {r \in ready : ~Stale(r, latest_generation)}}

run_main_thread_applies(requeued, wakeScheduled, wakeTimers) ==
    LET ready == Ready
        dropped == DroppedStale(ready)
        left == (heap \ ready) \ dropped
        pruned == Prune(arbiter_latest, left)
        kept == {t \in requeued : ~Stale(t, pruned)}
        run == {t \in ready \ requeued : ~Stale(t, latest_generation)}
        cancelled == dropped \cup ((ready \ requeued) \ run)
        wakes == tasks' # {} /\ ~wakeScheduled
    IN
    /\ next_order + Cardinality(requeued) <= MaxOrder
    /\ heap' = left \cup kept
    /\ tasks' = ((tasks \ ready) \ dropped) \cup kept
    /\ order' = [i \in Ids |->
                   IF \E t \in requeued : t.id = i
                   THEN LET t == CHOOSE t \in requeued : t.id = i
                        IN next_order + Cardinality({u \in requeued : Before(u, t)})
                   ELSE IF i \in IdsOf(left) THEN order[i] ELSE 0]
    /\ next_order' = next_order + Cardinality(requeued)
    /\ arbiter_latest' = [k \in Keys |->
                            IF \E t \in kept : Keyed(t) /\ Key(t) = k
                            THEN (CHOOSE t \in kept : Keyed(t) /\ Key(t) = k).generation
                            ELSE pruned[k]]
    /\ fate' = [i \in Ids |->
                  CASE i \in IdsOf(run) -> "applied"
                    [] i \in IdsOf(requeued \ kept) -> "discarded"
                    [] OTHER -> Cancel(cancelled, fate)[i]]
    /\ wake_scheduled' = (wakeScheduled \/ wakes)
    /\ wake_timers' = IF wakes THEN wakeTimers + 1 ELSE wakeTimers
    /\ UNCHANGED <<latest_generation, next_task_id, mode, cancellable, clears>>

(* Mutant: does not take its flag back. *)
PumpFiresFlagged(requeued) ==
    /\ pump_timers > 0
    /\ pump_timers' = pump_timers - 1 /\ UNCHANGED pump_scheduled
    /\ run_main_thread_applies(requeued, wake_scheduled, wake_timers)

\* The zero-delay pump fires.
PumpFires(requeued) ==
    /\ pump_timers > 0
    /\ pump_timers' = pump_timers - 1 /\ pump_scheduled' = FALSE
    /\ run_main_thread_applies(requeued, wake_scheduled, wake_timers)

\* The wake timer (next frame, or the end of the input protection) fires.
WakeFires(requeued) ==
    /\ wake_timers > 0
    /\ run_main_thread_applies(requeued, FALSE, wake_timers - 1)
    /\ UNCHANGED <<pump_scheduled, pump_timers>>

\* Rendering starts with the queued applies.
Render(requeued) ==
    /\ run_main_thread_applies(requeued, wake_scheduled, wake_timers)
    /\ UNCHANGED <<pump_scheduled, pump_timers>>

(* Mutant: forgets the arbiter. *)
ClearKeepingArbiter ==
    /\ clears < MaxClears
    /\ clears' = clears + 1
    /\ tasks' = {} /\ latest_generation' = [k \in Keys |-> 0]
    /\ fate' = Cancel(tasks, fate)
    /\ wake_scheduled' = FALSE /\ pump_scheduled' = FALSE
    /\ UNCHANGED <<heapVars, next_task_id, pump_timers, wake_timers, mode, cancellable>>

(* Mutant: starts the ids anew as well. *)
ClearRestartingIds ==
    /\ clears < MaxClears
    /\ clears' = clears + 1
    /\ heap' = {} /\ order' = [i \in Ids |-> 0] /\ next_order' = 0
    /\ arbiter_latest' = [k \in Keys |-> 0]
    /\ tasks' = {} /\ latest_generation' = [k \in Keys |-> 0] /\ next_task_id' = 0
    /\ fate' = Cancel(tasks, fate)
    /\ wake_scheduled' = FALSE /\ pump_scheduled' = FALSE
    /\ UNCHANGED <<pump_timers, wake_timers, mode, cancellable>>

\* clear: the host deactivates the view or opens another document.  Timers
\* that are on their way stay so, although both flags are reset.
Clear ==
    /\ clears < MaxClears
    /\ clears' = clears + 1
    /\ heap' = {} /\ order' = [i \in Ids |-> 0] /\ next_order' = 0
    /\ arbiter_latest' = [k \in Keys |-> 0]
    /\ tasks' = {} /\ latest_generation' = [k \in Keys |-> 0]
    /\ fate' = Cancel(tasks, fate)
    /\ wake_scheduled' = FALSE /\ pump_scheduled' = FALSE
    /\ UNCHANGED <<next_task_id, pump_timers, wake_timers, mode, cancellable>>

\* main_thread_interaction_mode: what the user is doing now.
Interact(m) ==
    /\ mode' = m /\ m # mode
    /\ UNCHANGED <<heapVars, schedulerVars, timerVars, fate, cancellable, clears>>

Arrive ==
    \E kind \in Kinds : \E cost \in Costs(kind) :
        \/ /\ kind \in KeyedKinds
           /\ \E block \in Blocks, generation \in 1..MaxGeneration :
                Enqueue(kind, block, generation, cost)
        \/ /\ kind \notin MeasureKinds
           /\ Enqueue(kind, NoBlock, 1, cost)   \* its generation is never read
Pump == \E requeued \in Deadlines : PumpFires(requeued)
Wake == \E requeued \in Deadlines : WakeFires(requeued)
Frame == \E requeued \in Deadlines : Render(requeued)
ChangeMode == \E m \in Modes : Interact(m)

Next == Arrive \/ Pump \/ Wake \/ Frame \/ Clear \/ ChangeMode

Spec == Init /\ [][Next]_vars

(* The executor fires its timers.  Nothing is assumed of rendering (a       *)
(* hidden window is not painted) or of what the user and the host do.      *)
Fairness == WF_vars(Pump) /\ WF_vars(Wake)

FairSpec == Spec /\ Fairness

-----------------------------------------------------------------------------
Fates == {"none", "waiting", "applied", "cancelled", "discarded"}

\* Types of the scheduler's state.
TypeOK ==
    /\ heap \subseteq Task /\ tasks \subseteq Task
    /\ order \in [Ids -> Nat] /\ next_order \in Nat
    /\ arbiter_latest \in [Keys -> 0..MaxGeneration]
    /\ latest_generation \in [Keys -> 0..MaxGeneration]
    /\ next_task_id \in 0..MaxTasks
    /\ wake_scheduled \in BOOLEAN /\ pump_scheduled \in BOOLEAN
    /\ pump_timers \in Nat /\ wake_timers \in Nat
    /\ mode \in Modes
    /\ fate \in [Ids -> Fates] /\ cancellable \subseteq Ids
    /\ clears \in 0..MaxClears

\* The three collections agree: the tasks the arbiter will pop are exactly
\* the tasks with callbacks, one per id, and exactly the results that have
\* been neither applied nor let go.  Otherwise a result would be lost in a
\* map nobody pops, or popped without a callback.
QueueAgrees ==
    /\ heap = tasks
    /\ \A t, u \in tasks : t.id = u.id => t = u
    /\ \A i \in Ids : fate[i] = "waiting" <=> \E t \in tasks : t.id = i

\* Work that a newer generation of its kind and block made pointless is gone
\* from the queue (and its captured data freed) before the next frame.
OnlyNewestQueued ==
    \A t, u \in heap : Keyed(t) /\ Keyed(u) /\ Key(t) = Key(u)
        => t.generation = u.generation /\ arbiter_latest[Key(t)] = t.generation

\* No result waits for a wake-up that will not come, although clear() resets
\* the flags of timers still on their way and timers reset the flags of
\* later ones.
WakeIsComing ==
    /\ pump_scheduled => pump_timers > 0
    /\ wake_scheduled => wake_timers > 0
    /\ tasks # {} => pump_timers + wake_timers > 0

\* A result with a cancel callback (an image that would stay Loading, an AI
\* stream whose receiver waits) is never dropped in silence.
CancelHonoured ==
    \A i \in cancellable : fate[i] # "discarded"

\* The callback of a result runs at most once and never after its cancel.
ResolvedOnce ==
    [][\A i \in Ids : fate[i] \in {"applied", "cancelled", "discarded"} => fate'[i] = fate[i]]_vars

\* Nothing is applied over a result that ranks before it and keeps waiting,
\* except background work held back while the user types: the frame ends at
\* the first task over the budget instead of looking for a cheaper one.
NoOvertaking ==
    [][\A t, u \in tasks :
         (fate'[t.id] = "applied" /\ fate'[u.id] = "waiting" /\ Before(u, t)) => Protected(u)]_vars

\* Once the user has stopped typing for good, every queued result is applied
\* or let go: the deferral for input protection always ends in a wake-up,
\* and no task over the budget holds up the queue for ever.
AllResolved ==
    <>[](mode \notin ProtectedModes) => <>[](\A i \in Ids : fate[i] # "waiting")
=============================================================================
