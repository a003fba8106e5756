---------------------------- MODULE PayloadWindow ----------------------------
(***************************************************************************)
(* Which blocks of a large document are in memory: the runtime's           *)
(* PayloadWindow, the visible and the prefetch lane of the session's task  *)
(* coordinator, the background reads, the render that asks for what the    *)
(* viewport needs, scrollbar drags, cache trimming, and the save that      *)
(* makes edited blocks evictable again.                                    *)
(*                                                                         *)
(* The content of a block is its content_version, which every edit         *)
(* increments.  Main-thread handlers are atomic; background reads and the  *)
(* background save interleave with them.  The synchronous local read of a  *)
(* scrollbar drag is the background read with nothing in between.          *)
(***************************************************************************)
EXTENDS Integers, FiniteSets

CONSTANTS
    NumBlocks,     \* the visible index: blocks 1..NumBlocks
    Absent,        \* blocks the store has no payload for
    VisibleSize,   \* blocks the physical viewport shows
    Overscan,      \* blocks a render window holds beyond them on either side
    Lookahead,     \* blocks prefetched beyond the render window
    MaxEntries,    \* PayloadCachePolicy::max_entries
    MaxAttempts,   \* MAX_PAYLOAD_WINDOW_LOAD_ATTEMPTS
    Generations,   \* numbers for payload_window_generation
    MaxEdits       \* bound: edits in all

Blocks == 1..NumBlocks

ASSUME WindowAssumption ==
    /\ NumBlocks \in Nat \ {0} /\ Absent \subseteq Blocks
    /\ VisibleSize \in Nat \ {0} /\ Overscan \in Nat /\ Lookahead \in Nat
    /\ MaxEntries \in Nat /\ MaxAttempts \in Nat \ {0}
    /\ Generations \subseteq Nat \ {0}
    /\ MaxEdits \in Nat

VARIABLES
    \* PayloadWindow: content_version of each resident payload, 0 if it is not
    \* resident; the version known to be saved, 0 if none; the load that owns
    \* a block (loading, loading_generations); failed loads (failed,
    \* failure_attempts); the presented range
    payloads, persisted_versions, loading_generations, failure_attempts, block_range,
    \* ProjectionState: the visible range being prepared
    preparing,
    \* SessionTaskCoordinator: the load and range that hold the visible lane,
    \* the latest range wanted meanwhile, the load that holds the prefetch lane
    active, active_range, pending_range, prefetch,
    \* loads in the background, each with its result once it has one
    loads,
    \* the user: scroll position, scrollbar drag, focused block (0 if none)
    viewport, dragging, focused,
    \* the background save: its phase and the versions it captured
    save, captured,
    \* external: the versions in the store, 0 if it has none
    store,
    \* observation: the version of each block the user has last made
    latest,
    edits

windowVars == <<payloads, persisted_versions, loading_generations, failure_attempts>>
viewVars == <<viewport, dragging, focused, block_range, preparing>>
laneVars == <<active, active_range, pending_range, prefetch, loads>>
saveVars == <<save, captured, store>>
countVars == <<latest, edits>>
vars == <<windowVars, viewVars, laneVars, saveVars, countVars>>

NoOwner == [generation |-> 0, priority |-> "none"]
NoRange == {}

Init ==
    /\ payloads = [b \in Blocks |-> 0] /\ persisted_versions = [b \in Blocks |-> 0]
    /\ loading_generations = [b \in Blocks |-> NoOwner]
    /\ failure_attempts = [b \in Blocks |-> 0]
    /\ block_range = NoRange /\ preparing = NoRange
    /\ active = 0 /\ active_range = NoRange /\ pending_range = NoRange /\ prefetch = 0
    /\ loads = {}
    /\ viewport = 1 /\ dragging = FALSE /\ focused = 0
    /\ save = "idle" /\ captured = [b \in Blocks |-> 0]
    /\ store = [b \in Blocks |-> IF b \in Absent THEN 0 ELSE 1]
    /\ latest = store
    /\ edits = 0

-----------------------------------------------------------------------------
Around(p, n) == {b \in Blocks : p - n <= b /\ b < p + VisibleSize + n}
WindowRange == Around(viewport, Overscan)

\* The foreground range: a drag asks for the whole render window.
VisibleRange(drag) == IF drag THEN WindowRange ELSE Around(viewport, 0)

Resident == {b \in Blocks : payloads[b] # 0}
is_dirty(b) == payloads[b] # 0 /\ persisted_versions[b] # payloads[b]
can_retry(b) == failure_attempts[b] < MaxAttempts

\* payload_window_block_ids: the focused block is pinned to every range.
BlockIds(range) == range \cup (IF focused = 0 THEN {} ELSE {focused})

\* payload_window_generation + 1.  The counter is only compared for equality:
\* what matters is that no load, lane or marker still carries the number.
Fresh(pending, lanes, owner) ==
    Generations \ ({l.generation : l \in pending} \cup lanes
                     \cup {owner[b].generation : b \in Blocks})

Unread == [b \in Blocks |-> -1]
Load(g, lane, blocks) ==
    [generation |-> g, lane |-> lane, blocks |-> blocks, phase |-> "reading", got |-> Unread]

-----------------------------------------------------------------------------
(* Planning a load, from given markers and contents of the window.         *)

(* Mutant: blocks that a prefetch owns are left to it. *)
VisibleMissingFree(range, resident, owner, attempts) ==
    {b \in BlockIds(range) : b \notin resident /\ owner[b] = NoOwner /\ attempts[b] < MaxAttempts}

\* plan_payload_window_load_if_needed: a visible load takes over blocks that
\* a prefetch owns.
VisibleMissing(range, resident, owner, attempts) ==
    {b \in BlockIds(range) : /\ b \notin resident
                             /\ owner[b].priority # "Visible"
                             /\ attempts[b] < MaxAttempts}

\* plan_payload_prefetch_load_if_needed: a prefetch only takes free blocks.
PrefetchMissing(range) ==
    {b \in BlockIds(range) : /\ payloads[b] = 0
                             /\ loading_generations[b] = NoOwner
                             /\ can_retry(b)}

\* mark_loading_with_priority
Marked(owner, blocks, g, priority) ==
    [b \in Blocks |-> IF b \in blocks THEN [generation |-> g, priority |-> priority]
                      ELSE owner[b]]

\* cancel_loading_generation
Released(owner, g) ==
    [b \in Blocks |-> IF g # 0 /\ owner[b].generation = g THEN NoOwner ELSE owner[b]]

\* The visible lane is free: forget the pending range, plan, and dispatch
\* unless nothing is missing.
Dispatch(range, resident, owner, attempts, rest) ==
    LET missing == VisibleMissing(range, resident, owner, attempts) IN
    /\ pending_range' = NoRange
    /\ IF missing = {}
       THEN /\ loading_generations' = owner
            /\ active' = 0 /\ active_range' = NoRange
            /\ loads' = rest
       ELSE \E g \in Fresh(rest, {prefetch}, owner) :
            /\ loading_generations' = Marked(owner, missing, g, "Visible")
            /\ active' = g /\ active_range' = range
            /\ loads' = rest \cup {Load(g, "visible", missing)}

\* schedule_payload_window_task
ScheduleVisible(range) ==
    \/ /\ active # 0
       /\ pending_range' = range
       /\ UNCHANGED <<loading_generations, active, active_range, loads>>
    \/ /\ active = 0
       /\ Dispatch(range, Resident, loading_generations, failure_attempts, loads)

-----------------------------------------------------------------------------
(* The view renders: payload_terminal_failure_for, reconcile,               *)
(* payload_frame_plan.  What is presented changes only when the visible    *)
(* core is resident; a window whose first failed block is out of attempts  *)
(* is not asked for again.  A prefetch may be held back by its debounce.   *)
Failed(range) == {b \in range : failure_attempts[b] > 0}
TerminalFailure(range) == \E b \in range : ~can_retry(b)
RequestAllowed(range) ==
    TerminalFailure(range) =>
        can_retry(CHOOSE b \in Failed(range) : \A c \in Failed(range) : b <= c)

Render ==
    LET range == VisibleRange(dragging)
        ready == range \subseteq Resident
    IN
    /\ block_range' = IF ready THEN WindowRange ELSE block_range
    /\ preparing' = IF ready \/ TerminalFailure(range) THEN NoRange ELSE range
    /\ IF ~ready /\ RequestAllowed(range)
       THEN ScheduleVisible(range) /\ UNCHANGED prefetch
       ELSE UNCHANGED <<laneVars, loading_generations>>
    /\ UNCHANGED <<payloads, persisted_versions, failure_attempts, viewport, dragging,
                   focused, saveVars, countVars>>

\* schedule_payload_prefetch_task, from a render with a resident core.
RenderPrefetch ==
    LET range == Around(viewport, Overscan + Lookahead)
        fresh == Fresh(loads, {active}, loading_generations)
    IN
    /\ VisibleRange(FALSE) \subseteq Resident /\ ~dragging
    /\ prefetch = 0
    /\ PrefetchMissing(range) # {}
    /\ Cardinality(fresh) > 1    \* bound: a number is left for a visible load
    /\ \E g \in fresh :
         /\ loading_generations' = Marked(loading_generations, PrefetchMissing(range), g, "Prefetch")
         /\ prefetch' = g
         /\ loads' = loads \cup {Load(g, "prefetch", PrefetchMissing(range))}
    /\ block_range' = WindowRange /\ preparing' = NoRange
    /\ UNCHANGED <<payloads, persisted_versions, failure_attempts, viewport, dragging,
                   focused, active, active_range, pending_range, saveVars, countVars>>

\* Wheel, keyboard or programmatic scrolling.
Scroll(p) ==
    /\ ~dragging /\ viewport' = p
    /\ UNCHANGED <<windowVars, dragging, focused, block_range, preparing, laneVars, saveVars,
                   countVars>>

(* Mutant: forgets the loading markers of the lanes it gives up. *)
ResetLanesKeepingMarkers ==
    /\ UNCHANGED loading_generations
    /\ active' = 0 /\ active_range' = NoRange /\ pending_range' = NoRange /\ prefetch' = 0

\* start: reset_payload_window_tasks gives up both lanes and their markers.
\* The reads go on, and find nobody waiting for them.
ResetLanes ==
    /\ loading_generations' = Released(Released(loading_generations, active), prefetch)
    /\ active' = 0 /\ active_range' = NoRange /\ pending_range' = NoRange /\ prefetch' = 0

StartDrag ==
    /\ ~dragging /\ dragging' = TRUE
    /\ ResetLanes
    /\ UNCHANGED <<payloads, persisted_versions, failure_attempts, viewport, focused,
                   block_range, preparing, loads, saveVars, countVars>>

\* schedule_scrollbar_payload_window_task: the prefetch lane is given up; a
\* target that is being read again drops the pending one, another target
\* waits for the read in flight.
DragTo(p) ==
    LET range == Around(p, Overscan)
        owner == Released(loading_generations, prefetch)
    IN
    /\ dragging /\ viewport' = p /\ p # viewport
    /\ prefetch' = 0
    /\ \/ /\ active # 0
          /\ pending_range' = IF active_range = range THEN NoRange ELSE range
          /\ loading_generations' = owner
          /\ UNCHANGED <<active, active_range, loads>>
       \/ /\ active = 0
          /\ Dispatch(range, Resident, owner, failure_attempts, loads)
    /\ UNCHANGED <<payloads, persisted_versions, failure_attempts, dragging, focused,
                   block_range, preparing, saveVars, countVars>>

FinishDrag ==
    /\ dragging /\ dragging' = FALSE
    /\ UNCHANGED <<windowVars, viewport, focused, block_range, preparing, laneVars, saveVars,
                   countVars>>

\* retry_payload_window: the card of a failed window was clicked.
RetryWindow ==
    LET range == VisibleRange(dragging) IN
    /\ Failed(BlockIds(range)) # {}
    /\ failure_attempts' = [b \in Blocks |-> IF b \in BlockIds(range) THEN 0
                                             ELSE failure_attempts[b]]
    /\ ResetLanes
    /\ UNCHANGED <<payloads, persisted_versions, viewVars, loads, saveVars, countVars>>

-----------------------------------------------------------------------------
(* The background reads, and the completions they bring back.              *)

\* external: the store answers with what it holds, or run_payload_load
\* reports an error or its timeout.
ReadStore(l) ==
    /\ l \in loads /\ l.phase = "reading"
    /\ \E phase \in {"read", "error"} :
         loads' = (loads \ {l}) \cup
                    {[l EXCEPT !.phase = phase,
                               !.got = [b \in Blocks |-> IF b \in l.blocks /\ phase = "read"
                                                         THEN store[b] ELSE -1]]}
    /\ UNCHANGED <<windowVars, viewVars, active, active_range, pending_range, prefetch,
                   saveVars, countVars>>

\* finish_loading: the load still owns the block.
Owns(l, b) == b \in l.blocks /\ loading_generations[b].generation = l.generation
Arrives(l, b) == Owns(l, b) /\ l.got[b] > 0

\* insert_loaded_prepared for the records, mark_failed for the rest.
LoadedPayloads(l) == [b \in Blocks |-> IF Arrives(l, b) THEN l.got[b] ELSE payloads[b]]
LoadedVersions(l) == [b \in Blocks |-> IF Arrives(l, b) THEN l.got[b]
                                       ELSE persisted_versions[b]]
AttemptsAfter(l) ==
    [b \in Blocks |-> IF Arrives(l, b) THEN 0
                      ELSE IF Owns(l, b) /\ l.lane = "visible" THEN failure_attempts[b] + 1
                      ELSE failure_attempts[b]]

\* complete_payload_window_task_with_reschedule: a load that no longer holds
\* the lane is ignored; otherwise it is applied where it still owns the
\* blocks, and the range that waited is scheduled at once (a drag gives up
\* the prefetch lane again).
CompleteVisible(l) ==
    LET owner == Released(loading_generations, l.generation)
        dropped == IF dragging THEN prefetch ELSE 0
    IN
    /\ l \in loads /\ l.lane = "visible" /\ l.phase # "reading"
    /\ IF active # l.generation
       THEN /\ loads' = loads \ {l}
            /\ UNCHANGED <<windowVars, active, active_range, pending_range, prefetch>>
       ELSE /\ payloads' = LoadedPayloads(l)
            /\ persisted_versions' = LoadedVersions(l)
            /\ failure_attempts' = AttemptsAfter(l)
            /\ IF pending_range = NoRange
               THEN /\ loading_generations' = owner
                    /\ active' = 0 /\ active_range' = NoRange
                    /\ loads' = loads \ {l}
                    /\ UNCHANGED <<pending_range, prefetch>>
               ELSE /\ Dispatch(pending_range, {b \in Blocks : payloads'[b] # 0},
                                Released(owner, dropped), failure_attempts', loads \ {l})
                    /\ prefetch' = IF dragging THEN 0 ELSE prefetch
    /\ UNCHANGED <<viewVars, saveVars, countVars>>

\* complete_payload_prefetch_task, run by the main-thread scheduler.  What
\* was not found is released without counting as an attempt.
CompletePrefetch(l) ==
    /\ l \in loads /\ l.lane = "prefetch" /\ l.phase # "reading"
    /\ loads' = loads \ {l}
    /\ IF prefetch # l.generation
       THEN UNCHANGED <<windowVars, prefetch>>
       ELSE /\ prefetch' = 0
            /\ payloads' = LoadedPayloads(l)
            /\ persisted_versions' = LoadedVersions(l)
            /\ failure_attempts' = AttemptsAfter(l)
            /\ loading_generations' = Released(loading_generations, l.generation)
    /\ UNCHANGED <<viewVars, active, active_range, pending_range, saveVars, countVars>>

\* The host deactivates the view: completions of prefetches waiting in the
\* main-thread queue are discarded, their lane and markers stay as they are.
DiscardPrefetches ==
    /\ \E l \in loads : l.lane = "prefetch" /\ l.phase # "reading"
    /\ loads' = {l \in loads : l.lane = "visible" \/ l.phase = "reading"}
    /\ UNCHANGED <<windowVars, viewVars, active, active_range, pending_range, prefetch,
                   saveVars, countVars>>

-----------------------------------------------------------------------------
(* Editing, saving, trimming.                                              *)

\* The user types in a block (which is then focused), or a remote
\* transaction changes it.
Edit(b, focus) ==
    /\ edits < MaxEdits /\ b \in Resident
    /\ payloads' = [payloads EXCEPT ![b] = @ + 1]
    /\ latest' = [latest EXCEPT ![b] = payloads'[b]]
    /\ focused' = focus /\ edits' = edits + 1
    /\ UNCHANGED <<persisted_versions, loading_generations, failure_attempts, viewport,
                   dragging, block_range, preparing, laneVars, saveVars>>

\* project_persistence_save_capture takes every resident payload, edited or
\* not; changes of other kinds ask for saves at any time.
CaptureSave ==
    /\ save = "idle" /\ Resident # {} /\ save' = "writing"
    /\ captured' = payloads
    /\ UNCHANGED <<windowVars, viewVars, laneVars, store, countVars>>

\* external: the batch is committed.
CommitSave ==
    /\ save = "writing" /\ save' = "committed"
    /\ store' = [b \in Blocks |-> IF captured[b] # 0 THEN captured[b] ELSE store[b]]
    /\ UNCHANGED <<windowVars, viewVars, laneVars, captured, countVars>>

(* Mutant: what is in memory now counts as saved. *)
SaveSucceedsWithCurrent ==
    /\ save = "committed" /\ save' = "idle"
    /\ persisted_versions' = [b \in Blocks |-> IF captured[b] # 0 THEN payloads[b]
                                               ELSE persisted_versions[b]]
    /\ captured' = [b \in Blocks |-> 0]
    /\ UNCHANGED <<payloads, loading_generations, failure_attempts, viewVars, laneVars, store,
                   countVars>>

\* project_persistence_save_success: mark_persisted_versions for what is
\* still resident.
SaveSucceeds ==
    /\ save = "committed" /\ save' = "idle"
    /\ persisted_versions' = [b \in Blocks |-> IF captured[b] # 0 /\ payloads[b] # 0
                                               THEN captured[b] ELSE persisted_versions[b]]
    /\ captured' = [b \in Blocks |-> 0]
    /\ UNCHANGED <<payloads, loading_generations, failure_attempts, viewVars, laneVars, store,
                   countVars>>

\* A failure, or a timeout reported before or after the commit.
SaveFails ==
    /\ save \in {"writing", "committed"} /\ save' = "idle"
    /\ captured' = [b \in Blocks |-> 0]
    /\ UNCHANGED <<windowVars, viewVars, laneVars, store, countVars>>

\* payload_cache_runtime_pins
Pins == block_range \cup preparing \cup {b \in Blocks : loading_generations[b] # NoOwner}
            \cup {focused}

(* Mutant: unsaved blocks are trimmed too. *)
EvictableDirty(b) == b \in Resident /\ b \notin Pins

Evictable(b) == b \in Resident /\ b \notin Pins /\ ~is_dirty(b)

\* maintain_payload_cache: one block of a trim while the cache is over its
\* policy and the user is idle; remove_internal forgets all about it.
Evict(b) ==
    /\ Cardinality(Resident) > MaxEntries /\ ~dragging
    /\ Evictable(b)
    /\ payloads' = [payloads EXCEPT ![b] = 0]
    /\ persisted_versions' = [persisted_versions EXCEPT ![b] = 0]
    /\ failure_attempts' = [failure_attempts EXCEPT ![b] = 0]
    /\ loading_generations' = [loading_generations EXCEPT ![b] = NoOwner]
    /\ UNCHANGED <<viewVars, laneVars, saveVars, countVars>>

-----------------------------------------------------------------------------
Read == \E l \in loads : ReadStore(l)
ReadVisible == \E l \in loads : l.lane = "visible" /\ ReadStore(l)
Complete == \E l \in loads : CompleteVisible(l)

Next ==
    \/ Render \/ RenderPrefetch \/ StartDrag \/ FinishDrag \/ RetryWindow
    \/ \E p \in Blocks : Scroll(p) \/ DragTo(p)
    \/ Read \/ Complete
    \/ \E l \in loads : CompletePrefetch(l)
    \/ DiscardPrefetches
    \/ \E b \in Blocks : Edit(b, b) \/ Edit(b, focused) \/ Evict(b)
    \/ CaptureSave \/ CommitSave \/ SaveSucceeds \/ SaveFails

Spec == Init /\ [][Next]_vars

(* A view that is shown is rendered again after every notify, reads end by *)
(* their timeout, and a completed visible read is applied.  Nothing is     *)
(* assumed of prefetches, saves, trimming or the user.                     *)
Fairness == WF_vars(Render) /\ WF_vars(ReadVisible) /\ WF_vars(Complete)

FairSpec == Spec /\ Fairness

-----------------------------------------------------------------------------
Owner == [generation : Generations, priority : {"Visible", "Prefetch"}] \cup {NoOwner}

LoadSet == [generation : Generations, lane : {"visible", "prefetch"}, blocks : SUBSET Blocks,
            phase : {"reading", "read", "error"}, got : [Blocks -> Nat \cup {-1}]]

\* Types of the window, the lanes and the loads; no block is tried more often
\* than MAX_PAYLOAD_WINDOW_LOAD_ATTEMPTS.
TypeOK ==
    /\ payloads \in [Blocks -> Nat] /\ persisted_versions \in [Blocks -> Nat]
    /\ loading_generations \in [Blocks -> Owner]
    /\ failure_attempts \in [Blocks -> 0..MaxAttempts]
    /\ block_range \subseteq Blocks /\ preparing \subseteq Blocks
    /\ active \in Generations \cup {0} /\ prefetch \in Generations \cup {0}
    /\ active_range \subseteq Blocks /\ pending_range \subseteq Blocks
    /\ loads \subseteq LoadSet
    /\ viewport \in Blocks /\ dragging \in BOOLEAN /\ focused \in Blocks \cup {0}
    /\ save \in {"idle", "writing", "committed"} /\ captured \in [Blocks -> Nat]
    /\ store \in [Blocks -> Nat] /\ latest \in [Blocks -> Nat]
    /\ edits \in 0..MaxEdits

\* No edit is ever lost: a resident block has the user's last version of it,
\* and one that is not resident has it in the store, whatever reads, resets,
\* takeovers, trims and saves overlapped.  A late read never replaces a
\* newer edit, and a save of older versions never makes an edit evictable.
NoEditLost == \A b \in Blocks : latest[b] = IF payloads[b] # 0 THEN payloads[b] ELSE store[b]

\* What the cache may drop without asking is what the store holds.
CleanIsStored == \A b \in Resident : ~is_dirty(b) => store[b] = payloads[b]

\* A loading marker belongs to the load that holds its lane, so there is
\* always a completion, a reset or a takeover that will remove it; and a
\* visible load that holds the lane is under way.
MarkersHeld ==
    /\ \A b \in Blocks :
         /\ loading_generations[b].priority = "Visible" =>
              loading_generations[b].generation = active
         /\ loading_generations[b].priority = "Prefetch" =>
              loading_generations[b].generation = prefetch
         /\ loading_generations[b] # NoOwner => payloads[b] = 0
    /\ active # 0 => \E l \in loads : l.generation = active /\ l.lane = "visible"

\* The viewport does not stay a skeleton: once the user leaves it where it
\* is (and stops clicking the retry card), its blocks become resident or one
\* of them is out of attempts and the retry card is on show, even when the
\* prefetches that own the blocks are lost.
Resolved == LET range == VisibleRange(dragging)
            IN range \subseteq Resident \/ TerminalFailure(range)

ViewportResolved ==
    <>[][UNCHANGED <<viewport, dragging>> /\ ~RetryWindow]_vars => []<>Resolved
=============================================================================
