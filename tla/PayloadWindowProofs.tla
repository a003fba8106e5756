------------------------ MODULE PayloadWindowProofs ------------------------
(***************************************************************************)
(* Proofs about the payload window, for any document, viewport, cache size *)
(* and number of attempts, edits and generations.                          *)
(***************************************************************************)
EXTENDS PayloadWindow, TLAPS

(* What a load still owns it has read from the store as it is now, and a    *)
(* visible load owns no block that is out of attempts.                     *)
LoadsCurrent ==
    \A l \in loads, b \in Blocks : Owns(l, b) =>
        /\ l.got[b] > 0 => l.got[b] = store[b]
        /\ l.lane = "visible" => failure_attempts[b] < MaxAttempts

(* No version is ahead of the user's last one, and a save under way is not *)
(* behind the store it is about to overwrite.                              *)
VersionsOrdered ==
    \A b \in Blocks :
        /\ store[b] <= latest[b]
        /\ payloads[b] # 0 => persisted_versions[b] <= payloads[b]
        /\ save = "writing" /\ captured[b] # 0 =>
             store[b] <= captured[b] /\ captured[b] <= latest[b]
        /\ save = "committed" /\ captured[b] # 0 => store[b] = captured[b]

Inv == /\ TypeOK /\ MarkersHeld /\ LoadsCurrent
       /\ VersionsOrdered /\ NoEditLost /\ CleanIsStored

(* The state the content invariants speak of. *)
contentVars == <<payloads, persisted_versions, latest, saveVars>>

-----------------------------------------------------------------------------
(* A range around a viewport position consists of blocks. *)
LEMMA AroundIsBlocks == ASSUME NEW p, NEW n PROVE Around(p, n) \in SUBSET Blocks
  BY DEF Around

(* So do the blocks that are asked for, with the focused one pinned. *)
LEMMA BlockIdsAreBlocks ==
    ASSUME NEW range \in SUBSET Blocks, focused \in Blocks \cup {0}
    PROVE  BlockIds(range) \in SUBSET Blocks
  BY DEF BlockIds

(* Markers given up: none of the generation is left, the others stay. *)
LEMMA ReleasedProperties ==
    ASSUME NEW owner \in [Blocks -> Owner], NEW g
    PROVE  /\ Released(owner, g) \in [Blocks -> Owner]
           /\ \A b \in Blocks : Released(owner, g)[b] = owner[b] \/ Released(owner, g)[b] = NoOwner
           /\ \A b \in Blocks : g # 0 /\ owner[b].generation = g => Released(owner, g)[b] = NoOwner
  BY DEF Released, Owner

(* The effect of Dispatch on the markers, the lane and the loads, of which  *)
(* `missing` is what it asks for.                                          *)
Dispatched(missing, range, owner, rest, newOwner, newActive, newRange, newLoads) ==
    \/ newOwner = owner /\ newActive = 0 /\ newRange = NoRange /\ newLoads = rest
    \/ \E g \in Generations :
         /\ \A l \in rest : l.generation # g
         /\ newOwner = Marked(owner, missing, g, "Visible")
         /\ newActive = g /\ newRange = range
         /\ newLoads = rest \cup {Load(g, "visible", missing)}

(* What is marked belongs to the load that now holds the visible lane, and *)
(* an older load owns no more than before.                                 *)
DispatchSound(missing, owner, rest, newOwner, newActive, newRange, newLoads) ==
    /\ newOwner \in [Blocks -> Owner] /\ newActive \in Generations \cup {0}
    /\ newRange \in SUBSET Blocks /\ newLoads \in SUBSET LoadSet
    /\ \A b \in Blocks :
         \/ newOwner[b] = owner[b]
         \/ /\ newOwner[b] = [generation |-> newActive, priority |-> "Visible"]
            /\ b \in missing
    /\ newActive # 0 => \E l \in newLoads : l.generation = newActive /\ l.lane = "visible"
    /\ \A l \in newLoads, b \in Blocks :
         b \in l.blocks /\ newOwner[b].generation = l.generation =>
             \/ l \in rest /\ owner[b].generation = l.generation
             \/ l.got[b] = -1 /\ b \in missing

LEMMA DispatchedProperties ==
    ASSUME NEW missing \in SUBSET Blocks, NEW range \in SUBSET Blocks,
           NEW owner \in [Blocks -> Owner], NEW rest \in SUBSET LoadSet,
           NEW newOwner, NEW newActive, NEW newRange, NEW newLoads,
           Dispatched(missing, range, owner, rest, newOwner, newActive, newRange, newLoads)
    PROVE  DispatchSound(missing, owner, rest, newOwner, newActive, newRange, newLoads)
<1>1. CASE newOwner = owner /\ newActive = 0 /\ newRange = NoRange /\ newLoads = rest
  BY <1>1 DEF DispatchSound, NoRange, LoadSet, Owner, NoOwner
<1>2. ASSUME NEW g \in Generations,
             /\ \A l \in rest : l.generation # g
             /\ newOwner = Marked(owner, missing, g, "Visible")
             /\ newActive = g /\ newRange = range
             /\ newLoads = rest \cup {Load(g, "visible", missing)}
      PROVE  DispatchSound(missing, owner, rest, newOwner, newActive, newRange, newLoads)
  <2>1. Load(g, "visible", missing) \in LoadSet
    BY <1>2 DEF Load, LoadSet, Unread
  <2>2. newOwner \in [Blocks -> Owner]
    BY <1>2 DEF Marked, Owner
  <2>3. \A b \in Blocks :
           \/ b \notin missing /\ newOwner[b] = owner[b]
           \/ b \in missing /\ newOwner[b] = [generation |-> g, priority |-> "Visible"]
    BY <1>2 DEF Marked
  <2>4. \E l \in newLoads : l.generation = g /\ l.lane = "visible"
    <3>1. Load(g, "visible", missing) \in newLoads
      BY <1>2
    <3>2. /\ Load(g, "visible", missing).generation = g
          /\ Load(g, "visible", missing).lane = "visible"
      BY DEF Load
    <3> QED BY <3>1, <3>2
  <2>5. ASSUME NEW l \in newLoads, NEW b \in Blocks,
               b \in l.blocks, newOwner[b].generation = l.generation
        PROVE  \/ l \in rest /\ owner[b].generation = l.generation
               \/ l.got[b] = -1 /\ b \in missing
    <3>1. CASE l \in rest
      BY <1>2, <2>3, <2>5, <3>1
    <3>2. CASE l = Load(g, "visible", missing)
      BY <2>5, <3>2 DEF Load, Unread
    <3> QED BY <1>2, <3>1, <3>2
  <2> QED BY <1>2, <2>1, <2>2, <2>3, <2>4, <2>5 DEF DispatchSound
<1> QED BY <1>1, <1>2 DEF Dispatched

-----------------------------------------------------------------------------
(* A document that was just opened satisfies the invariant. *)
LEMMA InitInv == Init => Inv
<1> SUFFICES ASSUME Init PROVE Inv
  OBVIOUS
<1> USE WindowAssumption DEF Init, NoOwner, NoRange, Blocks
<1>1. TypeOK
  <2>1. /\ payloads \in [Blocks -> Nat] /\ persisted_versions \in [Blocks -> Nat]
        /\ captured \in [Blocks -> Nat] /\ store \in [Blocks -> Nat]
        /\ latest \in [Blocks -> Nat]
    OBVIOUS
  <2>2. loading_generations \in [Blocks -> Owner]
    BY DEF Owner
  <2>3. failure_attempts \in [Blocks -> 0..MaxAttempts] /\ edits \in 0..MaxEdits
    OBVIOUS
  <2>4. viewport \in Blocks
    OBVIOUS
  <2>5. dragging \in BOOLEAN
    OBVIOUS
  <2> QED BY <2>1, <2>2, <2>3, <2>4, <2>5 DEF TypeOK
<1>2. MarkersHeld /\ LoadsCurrent
  BY DEF MarkersHeld, LoadsCurrent, Owns
<1>3. VersionsOrdered /\ NoEditLost /\ CleanIsStored
  BY DEF VersionsOrdered, NoEditLost, CleanIsStored, Resident, is_dirty
<1> QED BY <1>1, <1>2, <1>3 DEF Inv

(* The content invariants hold again after a step that leaves the contents *)
(* of the window, the store and the save alone.                            *)
LEMMA ContentUnchanged ==
    ASSUME VersionsOrdered, NoEditLost, CleanIsStored, UNCHANGED contentVars
    PROVE  VersionsOrdered' /\ NoEditLost' /\ CleanIsStored'
  BY DEF contentVars, saveVars, VersionsOrdered, NoEditLost, CleanIsStored, Resident, is_dirty

(* Nothing of the lanes is touched. *)
LEMMA LanesUnchanged ==
    ASSUME MarkersHeld, LoadsCurrent,
           UNCHANGED <<payloads, loading_generations, failure_attempts, active, prefetch, loads, store>>
    PROVE  MarkersHeld' /\ LoadsCurrent'
  BY DEF MarkersHeld, LoadsCurrent, Owns

(* The user scrolls or ends a drag. *)
LEMMA ViewSteps ==
    ASSUME Inv, (\E p \in Blocks : Scroll(p)) \/ FinishDrag
    PROVE  Inv'
<1>1. TypeOK'
  BY DEF Inv, TypeOK, Scroll, FinishDrag, windowVars, laneVars, saveVars, countVars
<1>2. UNCHANGED <<contentVars, loading_generations, failure_attempts, active, prefetch, loads>>
  BY DEF Scroll, FinishDrag, windowVars, laneVars, saveVars, countVars, contentVars
<1> QED BY <1>1, <1>2, ContentUnchanged, LanesUnchanged DEF Inv, contentVars, saveVars

(* A dispatch from markers that are in order leaves markers that are. *)
LEMMA DispatchKeepsOrder ==
    ASSUME NEW missing, NEW owner \in [Blocks -> Owner], NEW rest \in SUBSET LoadSet,
           DispatchSound(missing, owner, rest, loading_generations', active', active_range', loads'),
           \A b \in Blocks : /\ owner[b].priority # "Visible"
                             /\ owner[b].priority = "Prefetch" => owner[b].generation = prefetch'
                             /\ owner[b] # NoOwner => payloads'[b] = 0,
           \A b \in missing : payloads'[b] = 0 /\ failure_attempts'[b] < MaxAttempts,
           \A l \in rest, b \in Blocks :
               b \in l.blocks /\ owner[b].generation = l.generation =>
                   /\ l.got[b] > 0 => l.got[b] = store'[b]
                   /\ l.lane = "visible" => failure_attempts'[b] < MaxAttempts
    PROVE  MarkersHeld' /\ LoadsCurrent'
<1>1. MarkersHeld'
  <2>1. ASSUME NEW b \in Blocks
        PROVE  /\ loading_generations'[b].priority = "Visible" =>
                    loading_generations'[b].generation = active'
               /\ loading_generations'[b].priority = "Prefetch" =>
                    loading_generations'[b].generation = prefetch'
               /\ loading_generations'[b] # NoOwner => payloads'[b] = 0
    <3>1. CASE loading_generations'[b] = owner[b]
      BY <3>1
    <3>2. CASE loading_generations'[b] = [generation |-> active', priority |-> "Visible"]
                 /\ b \in missing
      BY <3>2
    <3> QED BY <3>1, <3>2 DEF DispatchSound
  <2> QED BY <2>1 DEF MarkersHeld, DispatchSound
<1>2. LoadsCurrent'
  <2> SUFFICES ASSUME NEW l \in loads', NEW b \in Blocks, b \in l.blocks,
                      loading_generations'[b].generation = l.generation
               PROVE  /\ l.got[b] > 0 => l.got[b] = store'[b]
                      /\ l.lane = "visible" => failure_attempts'[b] < MaxAttempts
    BY DEF LoadsCurrent, Owns
  <2>1. CASE l \in rest /\ owner[b].generation = l.generation
    BY <2>1
  <2>2. CASE l.got[b] = -1 /\ b \in missing
    BY <2>2
  <2> QED BY <2>1, <2>2 DEF DispatchSound
<1> QED BY <1>1, <1>2

(* The visible lane being free, no block is marked for it. *)
LEMMA FreeLaneHasNoMarkers ==
    ASSUME TypeOK, MarkersHeld, active = 0
    PROVE  \A b \in Blocks : loading_generations[b].priority # "Visible"
  BY WindowAssumption DEF TypeOK, MarkersHeld, Owner, NoOwner

(* schedule_payload_window_task keeps the markers and loads in order. *)
LEMMA ScheduleVisibleProperties ==
    ASSUME TypeOK, MarkersHeld, LoadsCurrent, NEW range \in SUBSET Blocks, ScheduleVisible(range),
           UNCHANGED <<payloads, failure_attempts, prefetch, store>>
    PROVE  /\ loading_generations' \in [Blocks -> Owner] /\ active' \in Generations \cup {0}
           /\ active_range' \in SUBSET Blocks /\ pending_range' \in SUBSET Blocks
           /\ loads' \in SUBSET LoadSet
           /\ MarkersHeld' /\ LoadsCurrent'
<1>1. CASE active # 0 /\ UNCHANGED <<loading_generations, active, active_range, loads>>
             /\ pending_range' = range
  BY <1>1, LanesUnchanged DEF TypeOK
<1>2. CASE active = 0 /\ Dispatch(range, Resident, loading_generations, failure_attempts, loads)
  <2> DEFINE missing == VisibleMissing(range, Resident, loading_generations, failure_attempts)
  <2>0. missing \in SUBSET Blocks
        /\ \A b \in missing : b \notin Resident /\ failure_attempts[b] < MaxAttempts
    BY BlockIdsAreBlocks DEF VisibleMissing, TypeOK
  <2>1. loading_generations \in [Blocks -> Owner] /\ loads \in SUBSET LoadSet
    BY DEF TypeOK
  <2>2. Dispatched(missing, range, loading_generations, loads,
                   loading_generations', active', active_range', loads')
    BY <1>2 DEF Dispatch, Dispatched, Fresh
  <2> HIDE DEF missing
  <2>3. DispatchSound(missing, loading_generations, loads,
                      loading_generations', active', active_range', loads')
    BY <2>0, <2>1, <2>2, DispatchedProperties
  <2>4. \A b \in Blocks :
           /\ loading_generations[b].priority # "Visible"
           /\ loading_generations[b].priority = "Prefetch" =>
                loading_generations[b].generation = prefetch'
           /\ loading_generations[b] # NoOwner => payloads'[b] = 0
    BY <1>2, FreeLaneHasNoMarkers DEF MarkersHeld
  <2>5. \A b \in missing : payloads'[b] = 0 /\ failure_attempts'[b] < MaxAttempts
    BY <2>0 DEF Resident
  <2>6. \A l \in loads, b \in Blocks :
           b \in l.blocks /\ loading_generations[b].generation = l.generation =>
               /\ l.got[b] > 0 => l.got[b] = store'[b]
               /\ l.lane = "visible" => failure_attempts'[b] < MaxAttempts
    BY DEF LoadsCurrent, Owns
  <2>7. MarkersHeld' /\ LoadsCurrent'
    BY <2>1, <2>3, <2>4, <2>5, <2>6, DispatchKeepsOrder
  <2>8. pending_range' \in SUBSET Blocks
    BY <1>2 DEF Dispatch, NoRange
  <2> QED BY <2>3, <2>7, <2>8 DEF DispatchSound
<1> QED BY <1>1, <1>2 DEF ScheduleVisible

(* A render presents the window, or asks for what it lacks. *)
LEMMA RenderStep == ASSUME Inv, Render PROVE Inv'
<1> DEFINE range == VisibleRange(dragging)
<1>0. range \in SUBSET Blocks /\ WindowRange \in SUBSET Blocks
  BY AroundIsBlocks DEF VisibleRange, WindowRange
<1>1. UNCHANGED <<payloads, persisted_versions, failure_attempts, viewport, dragging, focused,
                  saveVars, countVars, prefetch>>
  BY DEF Render, laneVars
<1>2. UNCHANGED contentVars
  BY <1>1 DEF contentVars, countVars
<1>3. /\ loading_generations' \in [Blocks -> Owner] /\ active' \in Generations \cup {0}
      /\ active_range' \in SUBSET Blocks /\ pending_range' \in SUBSET Blocks
      /\ loads' \in SUBSET LoadSet
      /\ MarkersHeld' /\ LoadsCurrent'
  <2>1. CASE ScheduleVisible(range)
    BY <1>0, <1>1, <2>1, ScheduleVisibleProperties DEF Inv, saveVars
  <2>2. CASE UNCHANGED <<laneVars, loading_generations>>
    BY <1>1, <2>2, LanesUnchanged DEF Inv, TypeOK, laneVars, saveVars
  <2> QED BY <2>1, <2>2 DEF Render
<1>4. TypeOK'
  BY <1>0, <1>1, <1>3 DEF Inv, TypeOK, Render, saveVars, countVars, NoRange
<1> QED BY <1>2, <1>3, <1>4, ContentUnchanged DEF Inv
(* A load never carries generation 0, so nobody owns an unmarked block. *)
LEMMA OwnedIsMarked ==
    ASSUME TypeOK, NEW l \in loads, NEW b \in Blocks, loading_generations[b] = NoOwner
    PROVE  ~Owns(l, b)
<1>1. l.generation \in Generations
  BY DEF TypeOK, LoadSet
<1> QED BY <1>1, WindowAssumption DEF Owns, NoOwner

(* A prefetch takes free blocks under a number no other load carries. *)
LEMMA RenderPrefetchStep == ASSUME Inv, RenderPrefetch PROVE Inv'
<1> DEFINE range == Around(viewport, Overscan + Lookahead)
           missing == PrefetchMissing(range)
<1>0. /\ missing \in SUBSET Blocks /\ WindowRange \in SUBSET Blocks
      /\ \A b \in missing : payloads[b] = 0 /\ loading_generations[b] = NoOwner
  BY AroundIsBlocks, BlockIdsAreBlocks DEF PrefetchMissing, WindowRange, Inv, TypeOK
<1>1. PICK g \in Generations :
        /\ \A l \in loads : l.generation # g
        /\ loading_generations' = Marked(loading_generations, missing, g, "Prefetch")
        /\ prefetch' = g
        /\ loads' = loads \cup {Load(g, "prefetch", missing)}
  BY DEF RenderPrefetch, Fresh
<1>2. /\ UNCHANGED <<contentVars, failure_attempts, viewport, dragging, focused, active,
                     active_range, pending_range, edits>>
      /\ block_range' = WindowRange /\ preparing' = NoRange /\ prefetch = 0
  BY DEF RenderPrefetch, contentVars, countVars
<1> HIDE DEF missing
<1>3. \A b \in Blocks :
         \/ b \notin missing /\ loading_generations'[b] = loading_generations[b]
         \/ b \in missing /\ loading_generations'[b] = [generation |-> g, priority |-> "Prefetch"]
  BY <1>1 DEF Marked, Inv, TypeOK
<1>4. loading_generations' \in [Blocks -> Owner]
  BY <1>1 DEF Marked, Owner, Inv, TypeOK
<1>5. Load(g, "prefetch", missing) \in LoadSet
  BY <1>0 DEF Load, LoadSet, Unread
<1>6. TypeOK'
  <2>1. loads' \in SUBSET LoadSet
    BY <1>1, <1>5 DEF Inv, TypeOK
  <2>2. UNCHANGED <<payloads, persisted_versions, save, captured, store, latest>>
    BY <1>2 DEF contentVars, saveVars
  <2>3. block_range' \in SUBSET Blocks /\ preparing' \in SUBSET Blocks
    BY <1>0, <1>2 DEF NoRange
  <2> QED BY <1>1, <1>2, <1>4, <2>1, <2>2, <2>3 DEF Inv, TypeOK
<1>7. MarkersHeld'
  <2>1. \A b \in Blocks : loading_generations[b].priority # "Prefetch"
    BY <1>2, WindowAssumption DEF Inv, TypeOK, MarkersHeld, Owner, NoOwner
  <2>2. ASSUME NEW b \in Blocks
        PROVE  /\ loading_generations'[b].priority = "Visible" =>
                    loading_generations'[b].generation = active'
               /\ loading_generations'[b].priority = "Prefetch" =>
                    loading_generations'[b].generation = prefetch'
               /\ loading_generations'[b] # NoOwner => payloads'[b] = 0
    <3>1. CASE loading_generations'[b] = loading_generations[b]
      BY <1>2, <2>1, <3>1 DEF Inv, MarkersHeld, contentVars
    <3>2. CASE b \in missing /\ loading_generations'[b] = [generation |-> g, priority |-> "Prefetch"]
      BY <1>0, <1>1, <1>2, <3>2 DEF contentVars
    <3> QED BY <1>3, <3>1, <3>2
  <2>3. active' # 0 => \E l \in loads' : l.generation = active' /\ l.lane = "visible"
    BY <1>1, <1>2 DEF Inv, MarkersHeld
  <2> QED BY <2>2, <2>3 DEF MarkersHeld
<1>8. LoadsCurrent'
  <2> SUFFICES ASSUME NEW l \in loads', NEW b \in Blocks, b \in l.blocks,
                      loading_generations'[b].generation = l.generation
               PROVE  /\ l.got[b] > 0 => l.got[b] = store'[b]
                      /\ l.lane = "visible" => failure_attempts'[b] < MaxAttempts
    BY DEF LoadsCurrent, Owns
  <2>1. CASE l \in loads
    <3>1. loading_generations'[b] = loading_generations[b]
      BY <1>1, <1>3, <2>1
    <3> QED BY <1>2, <2>1, <3>1 DEF Inv, LoadsCurrent, Owns, contentVars, saveVars
  <2>2. CASE l = Load(g, "prefetch", missing)
    BY <2>2 DEF Load, Unread
  <2> QED BY <1>1, <2>1, <2>2
<1> QED BY <1>2, <1>6, <1>7, <1>8, ContentUnchanged DEF Inv

(* Both lanes given up, no marker is left. *)
LEMMA ResetLanesClears ==
    ASSUME TypeOK, MarkersHeld, ResetLanes
    PROVE  /\ loading_generations' = [b \in Blocks |-> NoOwner]
           /\ loading_generations' \in [Blocks -> Owner]
           /\ active' = 0 /\ prefetch' = 0 /\ active_range' = {} /\ pending_range' = {}
<1> DEFINE first == Released(loading_generations, active)
<1>1. first \in [Blocks -> Owner]
  BY ReleasedProperties DEF TypeOK
<1>2. \A b \in Blocks : first[b] = loading_generations[b] \/ first[b] = NoOwner
  BY ReleasedProperties DEF TypeOK
<1>3. \A b \in Blocks : active # 0 /\ loading_generations[b].generation = active => first[b] = NoOwner
  BY ReleasedProperties DEF TypeOK
<1>4. loading_generations' = Released(first, prefetch)
  BY DEF ResetLanes
<1> HIDE DEF first
<1>5. /\ loading_generations' \in [Blocks -> Owner]
      /\ \A b \in Blocks : loading_generations'[b] = first[b] \/ loading_generations'[b] = NoOwner
      /\ \A b \in Blocks : prefetch # 0 /\ first[b].generation = prefetch =>
            loading_generations'[b] = NoOwner
  BY <1>1, <1>4, ReleasedProperties
<1>6. ASSUME NEW b \in Blocks PROVE loading_generations'[b] = NoOwner
  <2>1. CASE loading_generations[b] = NoOwner
    BY <1>2, <1>5, <2>1
  <2>2. CASE loading_generations[b] # NoOwner
    <3>1. loading_generations[b].generation \in Generations
            /\ loading_generations[b].priority \in {"Visible", "Prefetch"}
      BY <2>2 DEF TypeOK, Owner
    <3>2. loading_generations[b].generation # 0
      BY <3>1, WindowAssumption
    <3>3. CASE loading_generations[b].priority = "Visible"
      BY <1>3, <1>5, <3>2, <3>3 DEF MarkersHeld
    <3>4. CASE loading_generations[b].priority = "Prefetch"
      BY <1>2, <1>5, <3>2, <3>4 DEF MarkersHeld
    <3> QED BY <3>1, <3>3, <3>4
  <2> QED BY <2>1, <2>2
<1>7. loading_generations' = [b \in Blocks |-> NoOwner]
  BY <1>5, <1>6
<1> QED BY <1>5, <1>7 DEF ResetLanes, NoRange

(* A drag starts, or the retry card is clicked. *)
LEMMA ResetSteps == ASSUME Inv, StartDrag \/ RetryWindow PROVE Inv'
<1>1. ResetLanes
  BY DEF StartDrag, RetryWindow
<1>2. /\ loading_generations' = [b \in Blocks |-> NoOwner]
      /\ loading_generations' \in [Blocks -> Owner]
      /\ active' = 0 /\ prefetch' = 0 /\ active_range' = {} /\ pending_range' = {}
  BY <1>1, ResetLanesClears DEF Inv
<1>3. /\ UNCHANGED <<contentVars, loads, viewport, focused, block_range, preparing, edits>>
      /\ dragging' = TRUE \/ dragging' = dragging
  BY DEF StartDrag, RetryWindow, contentVars, viewVars, countVars
<1>4. failure_attempts' \in [Blocks -> 0..MaxAttempts]
  <2>1. CASE StartDrag
    BY <2>1 DEF StartDrag, Inv, TypeOK
  <2>2. CASE RetryWindow
    BY <2>2, WindowAssumption DEF RetryWindow, Inv, TypeOK
  <2> QED BY <2>1, <2>2
<1>5. TypeOK'
  <2>1. UNCHANGED <<payloads, persisted_versions, save, captured, store, latest>>
    BY <1>3 DEF contentVars, saveVars
  <2>2. dragging' \in BOOLEAN
    BY <1>3 DEF Inv, TypeOK
  <2> QED BY <1>2, <1>3, <1>4, <2>1, <2>2 DEF Inv, TypeOK
<1>6. MarkersHeld'
  BY <1>2 DEF MarkersHeld, NoOwner
<1>7. LoadsCurrent'
  <2>1. \A l \in loads' : l.generation \in Generations
    BY <1>5 DEF TypeOK, LoadSet
  <2> QED BY <1>2, <2>1, WindowAssumption DEF LoadsCurrent, Owns, NoOwner
<1> QED BY <1>3, <1>5, <1>6, <1>7, ContentUnchanged DEF Inv
(* The drag moves: the prefetch lane is given up, and the target is asked  *)
(* for or waits.                                                           *)
LEMMA DragToStep == ASSUME Inv, NEW p \in Blocks, DragTo(p) PROVE Inv'
<1> DEFINE range == Around(p, Overscan)
           owner == Released(loading_generations, prefetch)
<1>0. range \in SUBSET Blocks
  BY AroundIsBlocks
<1>1. /\ UNCHANGED <<contentVars, failure_attempts, dragging, focused, block_range, preparing, edits>>
      /\ viewport' = p /\ prefetch' = 0
  BY DEF DragTo, contentVars, countVars
<1>2. owner \in [Blocks -> Owner]
        /\ \A b \in Blocks : owner[b] = loading_generations[b] \/ owner[b] = NoOwner
  BY ReleasedProperties DEF Inv, TypeOK
<1>3. \A b \in Blocks : owner[b].priority # "Prefetch"
  <2> SUFFICES ASSUME NEW b \in Blocks, owner[b] # NoOwner, owner[b].priority = "Prefetch"
               PROVE  FALSE
    BY DEF NoOwner
  <2>1. owner[b] = loading_generations[b] /\ owner[b].generation \in Generations
    BY <1>2 DEF Owner
  <2>2. owner[b].generation = prefetch /\ prefetch # 0
    BY <2>1, WindowAssumption DEF Inv, MarkersHeld
  <2>3. owner[b] = NoOwner
    BY <2>1, <2>2, ReleasedProperties DEF Inv, TypeOK
  <2> QED BY <2>3
<1>4. \A l \in loads, b \in Blocks :
         b \in l.blocks /\ owner[b].generation = l.generation =>
             /\ l.got[b] > 0 => l.got[b] = store'[b]
             /\ l.lane = "visible" => failure_attempts'[b] < MaxAttempts
  <2> SUFFICES ASSUME NEW l \in loads, NEW b \in Blocks, b \in l.blocks,
                      owner[b].generation = l.generation
               PROVE  Owns(l, b)
    BY <1>1 DEF Inv, LoadsCurrent, contentVars, saveVars
  <2>1. l.generation \in Generations /\ l.generation # 0
    BY WindowAssumption DEF Inv, TypeOK, LoadSet
  <2> QED BY <1>2, <2>1 DEF Owns, NoOwner
<1>5. /\ loading_generations' \in [Blocks -> Owner] /\ active' \in Generations \cup {0}
      /\ active_range' \in SUBSET Blocks /\ pending_range' \in SUBSET Blocks
      /\ loads' \in SUBSET LoadSet
      /\ MarkersHeld' /\ LoadsCurrent'
  <2>1. CASE /\ active # 0
             /\ pending_range' = IF active_range = range THEN NoRange ELSE range
             /\ loading_generations' = owner
             /\ UNCHANGED <<active, active_range, loads>>
    <3> HIDE DEF owner, range
    <3>1. pending_range' \in SUBSET Blocks
      BY <1>0, <2>1 DEF NoRange
    <3>2. MarkersHeld'
      BY <1>1, <1>2, <1>3, <2>1 DEF Inv, MarkersHeld, contentVars, NoOwner
    <3>3. LoadsCurrent'
      BY <1>1, <1>4, <2>1 DEF LoadsCurrent, Owns
    <3> QED BY <1>2, <2>1, <3>1, <3>2, <3>3 DEF Inv, TypeOK
  <2>2. CASE active = 0 /\ Dispatch(range, Resident, owner, failure_attempts, loads)
    <3> DEFINE missing == VisibleMissing(range, Resident, owner, failure_attempts)
    <3>1. missing \in SUBSET Blocks
          /\ \A b \in missing : b \notin Resident /\ failure_attempts[b] < MaxAttempts
      BY <1>0, BlockIdsAreBlocks DEF VisibleMissing, Inv, TypeOK
    <3>2. loads \in SUBSET LoadSet
      BY DEF Inv, TypeOK
    <3>3. Dispatched(missing, range, owner, loads,
                     loading_generations', active', active_range', loads')
      BY <2>2 DEF Dispatch, Dispatched, Fresh
    <3>4. pending_range' \in SUBSET Blocks
      BY <2>2 DEF Dispatch, NoRange
    <3>5. \A b \in Blocks : loading_generations[b].priority # "Visible"
      BY <2>2, FreeLaneHasNoMarkers DEF Inv
    <3> HIDE DEF missing, owner, range
    <3>6. DispatchSound(missing, owner, loads,
                        loading_generations', active', active_range', loads')
      BY <1>0, <1>2, <3>1, <3>2, <3>3, DispatchedProperties
    <3>7. \A b \in Blocks : /\ owner[b].priority # "Visible"
                            /\ owner[b].priority = "Prefetch" => owner[b].generation = prefetch'
                            /\ owner[b] # NoOwner => payloads'[b] = 0
      BY <1>1, <1>2, <1>3, <3>5 DEF Inv, MarkersHeld, NoOwner, contentVars
    <3>8. \A b \in missing : payloads'[b] = 0 /\ failure_attempts'[b] < MaxAttempts
      BY <1>1, <3>1 DEF Resident, contentVars
    <3>9. MarkersHeld' /\ LoadsCurrent'
      BY <1>2, <1>4, <3>2, <3>6, <3>7, <3>8, DispatchKeepsOrder
    <3> QED BY <3>4, <3>6, <3>9 DEF DispatchSound
  <2> QED BY <2>1, <2>2 DEF DragTo
<1>6. TypeOK'
  BY <1>1, <1>5, WindowAssumption DEF Inv, TypeOK, contentVars, saveVars
<1> QED BY <1>1, <1>5, <1>6, ContentUnchanged DEF Inv

(* A read answers: what it found is what the store holds now. *)
LEMMA ReadStep == ASSUME Inv, NEW l \in loads, ReadStore(l) PROVE Inv'
<1>1. PICK phase \in {"read", "error"} :
        loads' = (loads \ {l}) \cup
                   {[l EXCEPT !.phase = phase,
                              !.got = [b \in Blocks |-> IF b \in l.blocks /\ phase = "read"
                                                        THEN store[b] ELSE -1]]}
  BY DEF ReadStore
<1> DEFINE got == [b \in Blocks |-> IF b \in l.blocks /\ phase = "read" THEN store[b] ELSE -1]
           answer == [l EXCEPT !.phase = phase, !.got = got]
<1>2. l \in LoadSet
  BY DEF Inv, TypeOK
<1>3. got \in [Blocks -> Nat \cup {-1}]
  BY DEF Inv, TypeOK
<1>4. /\ answer \in LoadSet /\ answer.generation = l.generation /\ answer.lane = l.lane
      /\ answer.blocks = l.blocks /\ answer.got = got
  <2> HIDE DEF got
  <2> QED BY <1>2, <1>3 DEF LoadSet
<1>5. loads' = (loads \ {l}) \cup {answer}
  BY <1>1
<1>6. UNCHANGED <<contentVars, loading_generations, failure_attempts, viewVars, active,
                  active_range, pending_range, prefetch, edits>>
  BY DEF ReadStore, windowVars, contentVars, countVars
<1> HIDE DEF answer
<1>7. TypeOK'
  BY <1>4, <1>5, <1>6 DEF Inv, TypeOK, contentVars, saveVars, viewVars
<1>8. MarkersHeld'
  <2>1. ASSUME active # 0 PROVE \E k \in loads' : k.generation = active /\ k.lane = "visible"
    <3>1. PICK k \in loads : k.generation = active /\ k.lane = "visible"
      BY <2>1 DEF Inv, MarkersHeld
    <3>2. CASE k = l
      BY <1>4, <1>5, <3>1, <3>2
    <3>3. CASE k # l
      BY <1>5, <3>1, <3>3
    <3> QED BY <3>2, <3>3
  <2> QED BY <1>6, <2>1 DEF Inv, MarkersHeld, contentVars
<1>9. LoadsCurrent'
  <2> SUFFICES ASSUME NEW k \in loads', NEW b \in Blocks, b \in k.blocks,
                      loading_generations[b].generation = k.generation
               PROVE  /\ k.got[b] > 0 => k.got[b] = store[b]
                      /\ k.lane = "visible" => failure_attempts[b] < MaxAttempts
    BY <1>6 DEF LoadsCurrent, Owns, contentVars, saveVars
  <2>1. CASE k \in loads
    BY <2>1 DEF Inv, LoadsCurrent, Owns
  <2>2. CASE k = answer
    <3>1. got[b] > 0 => got[b] = store[b]
      OBVIOUS
    <3>2. k.lane = "visible" => failure_attempts[b] < MaxAttempts
      BY <1>4, <2>2 DEF Inv, LoadsCurrent, Owns
    <3> HIDE DEF got
    <3> QED BY <1>4, <2>2, <3>1, <3>2
  <2> QED BY <1>5, <2>1, <2>2
<1> QED BY <1>6, <1>7, <1>8, <1>9, ContentUnchanged DEF Inv
(* Applying a load: what arrives was not resident and is what the store    *)
(* holds, so the user's last version of it; a marker of another load means *)
(* that this one leaves the block alone.                                   *)
LEMMA LoadApplied ==
    ASSUME Inv, NEW l \in loads,
           payloads' = LoadedPayloads(l), persisted_versions' = LoadedVersions(l),
           failure_attempts' = AttemptsAfter(l), UNCHANGED <<latest, saveVars>>
    PROVE  /\ payloads' \in [Blocks -> Nat] /\ persisted_versions' \in [Blocks -> Nat]
           /\ failure_attempts' \in [Blocks -> 0..MaxAttempts]
           /\ VersionsOrdered' /\ NoEditLost' /\ CleanIsStored'
           /\ \A b \in Blocks : loading_generations[b].generation # l.generation =>
                 payloads'[b] = payloads[b] /\ failure_attempts'[b] = failure_attempts[b]
<1>0. /\ payloads \in [Blocks -> Nat] /\ persisted_versions \in [Blocks -> Nat]
      /\ failure_attempts \in [Blocks -> 0..MaxAttempts]
      /\ latest \in [Blocks -> Nat] /\ store \in [Blocks -> Nat]
      /\ l.got \in [Blocks -> Nat \cup {-1}] /\ l.generation \in Generations
  BY DEF Inv, TypeOK, LoadSet
<1>1. ASSUME NEW b \in Blocks, Arrives(l, b)
      PROVE  /\ payloads'[b] = store[b] /\ persisted_versions'[b] = store[b]
             /\ store[b] = latest[b] /\ store[b] # 0 /\ failure_attempts'[b] = 0
  <2>1. Owns(l, b) /\ l.got[b] > 0 /\ l.got[b] = store[b]
    BY <1>1 DEF Arrives, Inv, LoadsCurrent
  <2>2. payloads[b] = 0
    BY <2>1, OwnedIsMarked DEF Inv, MarkersHeld
  <2>3. latest[b] = store[b]
    BY <2>2 DEF Inv, NoEditLost
  <2> QED BY <1>0, <1>1, <2>1, <2>3 DEF LoadedPayloads, LoadedVersions, AttemptsAfter
<1>2. ASSUME NEW b \in Blocks, ~Arrives(l, b)
      PROVE  payloads'[b] = payloads[b] /\ persisted_versions'[b] = persisted_versions[b]
  BY <1>2 DEF LoadedPayloads, LoadedVersions
<1>3. payloads' \in [Blocks -> Nat] /\ persisted_versions' \in [Blocks -> Nat]
  <2>1. \A b \in Blocks : payloads'[b] \in Nat /\ persisted_versions'[b] \in Nat
    BY <1>0, <1>1, <1>2
  <2> QED BY <2>1 DEF LoadedPayloads, LoadedVersions
<1>4. failure_attempts' \in [Blocks -> 0..MaxAttempts]
  <2>1. ASSUME NEW b \in Blocks PROVE failure_attempts'[b] \in 0..MaxAttempts
    <3>1. CASE Arrives(l, b)
      BY <1>1, <3>1, WindowAssumption
    <3>2. CASE ~Arrives(l, b) /\ Owns(l, b) /\ l.lane = "visible"
      <4>1. failure_attempts'[b] = failure_attempts[b] + 1
        BY <3>2 DEF AttemptsAfter
      <4>2. failure_attempts[b] < MaxAttempts
        BY <3>2 DEF Inv, LoadsCurrent
      <4> QED BY <1>0, <4>1, <4>2, WindowAssumption
    <3>3. CASE ~Arrives(l, b) /\ ~(Owns(l, b) /\ l.lane = "visible")
      <4>1. failure_attempts'[b] = failure_attempts[b]
        BY <3>3 DEF AttemptsAfter
      <4> QED BY <1>0, <4>1
    <3> QED BY <3>1, <3>2, <3>3
  <2> QED BY <2>1 DEF AttemptsAfter
<1>5. VersionsOrdered'
  <2> SUFFICES ASSUME NEW b \in Blocks
               PROVE  /\ store[b] <= latest[b]
                      /\ payloads'[b] # 0 => persisted_versions'[b] <= payloads'[b]
                      /\ save = "writing" /\ captured[b] # 0 =>
                           store[b] <= captured[b] /\ captured[b] <= latest[b]
                      /\ save = "committed" /\ captured[b] # 0 => store[b] = captured[b]
    BY DEF VersionsOrdered, saveVars
  <2>1. payloads'[b] # 0 => persisted_versions'[b] <= payloads'[b]
    <3>1. CASE Arrives(l, b)
      BY <1>0, <1>1, <3>1
    <3>2. CASE ~Arrives(l, b)
      BY <1>2, <3>2 DEF Inv, VersionsOrdered
    <3> QED BY <3>1, <3>2
  <2> QED BY <2>1 DEF Inv, VersionsOrdered
<1>6. NoEditLost'
  <2> SUFFICES ASSUME NEW b \in Blocks
               PROVE  latest[b] = IF payloads'[b] # 0 THEN payloads'[b] ELSE store[b]
    BY DEF NoEditLost, saveVars
  <2>1. CASE Arrives(l, b)
    BY <1>1, <2>1
  <2>2. CASE ~Arrives(l, b)
    BY <1>2, <2>2 DEF Inv, NoEditLost
  <2> QED BY <2>1, <2>2
<1>7. CleanIsStored'
  <2> SUFFICES ASSUME NEW b \in Blocks, payloads'[b] # 0, persisted_versions'[b] = payloads'[b]
               PROVE  store[b] = payloads'[b]
    BY DEF CleanIsStored, Resident, is_dirty, saveVars
  <2>1. CASE Arrives(l, b)
    BY <1>1, <2>1
  <2>2. CASE ~Arrives(l, b)
    BY <1>2, <2>2 DEF Inv, CleanIsStored, Resident, is_dirty
  <2> QED BY <2>1, <2>2
<1>8. ASSUME NEW b \in Blocks, loading_generations[b].generation # l.generation
      PROVE  payloads'[b] = payloads[b] /\ failure_attempts'[b] = failure_attempts[b]
  BY <1>8 DEF LoadedPayloads, AttemptsAfter, Arrives, Owns
<1> QED BY <1>3, <1>4, <1>5, <1>6, <1>7, <1>8

(* The markers left when a load has been applied and its own are released. *)
LEMMA MarkersAfterLoad ==
    ASSUME Inv, NEW l \in loads,
           payloads' = LoadedPayloads(l), persisted_versions' = LoadedVersions(l),
           failure_attempts' = AttemptsAfter(l), UNCHANGED <<latest, saveVars>>,
           NEW owner \in [Blocks -> Owner],
           \A b \in Blocks : owner[b] = loading_generations[b] \/ owner[b] = NoOwner,
           \A b \in Blocks : loading_generations[b].generation = l.generation => owner[b] = NoOwner
    PROVE  /\ \A b \in Blocks : owner[b] # NoOwner => payloads'[b] = 0
           /\ \A k \in loads, b \in Blocks :
                b \in k.blocks /\ owner[b].generation = k.generation =>
                    /\ k.got[b] > 0 => k.got[b] = store'[b]
                    /\ k.lane = "visible" => failure_attempts'[b] < MaxAttempts
<1>1. ASSUME NEW b \in Blocks, owner[b] # NoOwner
      PROVE  /\ owner[b] = loading_generations[b]
             /\ payloads'[b] = payloads[b] /\ failure_attempts'[b] = failure_attempts[b]
  BY <1>1, LoadApplied
<1>2. \A b \in Blocks : owner[b] # NoOwner => payloads'[b] = 0
  BY <1>1 DEF Inv, MarkersHeld
<1>3. ASSUME NEW k \in loads, NEW b \in Blocks, b \in k.blocks, owner[b].generation = k.generation
      PROVE  /\ k.got[b] > 0 => k.got[b] = store'[b]
             /\ k.lane = "visible" => failure_attempts'[b] < MaxAttempts
  <2>1. k.generation \in Generations /\ k.generation # 0
    BY WindowAssumption DEF Inv, TypeOK, LoadSet
  <2>2. owner[b] # NoOwner
    BY <1>3, <2>1 DEF NoOwner
  <2>3. Owns(k, b)
    BY <1>1, <1>3, <2>2 DEF Owns
  <2> QED BY <1>1, <2>2, <2>3 DEF Inv, LoadsCurrent, saveVars
<1> QED BY <1>2, <1>3

(* A completion nobody waits for, or a queue that is discarded. *)
LEMMA LoadDropped ==
    ASSUME Inv, loads' \subseteq loads,
           active # 0 => \E l \in loads' : l.generation = active /\ l.lane = "visible",
           UNCHANGED <<windowVars, viewVars, active, active_range, pending_range, prefetch,
                       saveVars, countVars>>
    PROVE  Inv'
<1>1. TypeOK'
  BY DEF Inv, TypeOK, windowVars, viewVars, saveVars, countVars
<1>2. MarkersHeld' /\ LoadsCurrent'
  BY DEF Inv, MarkersHeld, LoadsCurrent, Owns, windowVars, saveVars
<1>3. UNCHANGED contentVars
  BY DEF contentVars, windowVars, countVars
<1> QED BY <1>1, <1>2, <1>3, ContentUnchanged DEF Inv
(* A prefetch completes: it is applied, and its lane and markers go. *)
LEMMA CompletePrefetchStep == ASSUME Inv, NEW l \in loads, CompletePrefetch(l) PROVE Inv'
<1>0. /\ loads' = loads \ {l} /\ l.lane = "prefetch" /\ l.generation \in Generations
      /\ UNCHANGED <<viewVars, active, active_range, pending_range, saveVars, countVars>>
  BY DEF CompletePrefetch, Inv, TypeOK, LoadSet
<1>1. active # 0 => \E k \in loads' : k.generation = active /\ k.lane = "visible"
  BY <1>0 DEF Inv, MarkersHeld
<1>2. CASE UNCHANGED <<windowVars, prefetch>>
  BY <1>0, <1>1, <1>2, LoadDropped
<1>3. CASE /\ prefetch = l.generation /\ prefetch' = 0
           /\ payloads' = LoadedPayloads(l)
           /\ persisted_versions' = LoadedVersions(l)
           /\ failure_attempts' = AttemptsAfter(l)
           /\ loading_generations' = Released(loading_generations, l.generation)
  <2>1. /\ payloads' \in [Blocks -> Nat] /\ persisted_versions' \in [Blocks -> Nat]
        /\ failure_attempts' \in [Blocks -> 0..MaxAttempts]
        /\ VersionsOrdered' /\ NoEditLost' /\ CleanIsStored'
    BY <1>0, <1>3, LoadApplied DEF countVars
  <2>2. /\ loading_generations' \in [Blocks -> Owner]
        /\ \A b \in Blocks : \/ loading_generations'[b] = loading_generations[b]
                             \/ loading_generations'[b] = NoOwner
        /\ \A b \in Blocks : loading_generations[b].generation = l.generation =>
              loading_generations'[b] = NoOwner
    <3>1. loading_generations \in [Blocks -> Owner] /\ l.generation # 0
      BY <1>0, WindowAssumption DEF Inv, TypeOK
    <3> QED BY <1>3, <3>1, ReleasedProperties
  <2>3. /\ \A b \in Blocks : loading_generations'[b] # NoOwner => payloads'[b] = 0
        /\ \A k \in loads, b \in Blocks :
             b \in k.blocks /\ loading_generations'[b].generation = k.generation =>
                 /\ k.got[b] > 0 => k.got[b] = store'[b]
                 /\ k.lane = "visible" => failure_attempts'[b] < MaxAttempts
    BY <1>0, <1>3, <2>2, MarkersAfterLoad DEF countVars
  <2>4. TypeOK'
    BY <1>0, <1>3, <2>1, <2>2 DEF Inv, TypeOK, viewVars, saveVars, countVars
  <2>5. MarkersHeld'
    <3>1. ASSUME NEW b \in Blocks
          PROVE  /\ loading_generations'[b].priority = "Visible" =>
                      loading_generations'[b].generation = active'
                 /\ loading_generations'[b].priority = "Prefetch" =>
                      loading_generations'[b].generation = prefetch'
      <4>1. CASE loading_generations'[b] = NoOwner
        BY <4>1 DEF NoOwner
      <4>2. CASE loading_generations'[b] # NoOwner
        <5>1. loading_generations'[b] = loading_generations[b]
                /\ loading_generations[b].generation # prefetch
          BY <1>3, <2>2, <4>2
        <5> QED BY <1>0, <5>1 DEF Inv, MarkersHeld
      <4> QED BY <4>1, <4>2
    <3> QED BY <1>0, <1>1, <2>3, <3>1 DEF MarkersHeld
  <2>6. LoadsCurrent'
    BY <1>0, <2>3 DEF LoadsCurrent, Owns
  <2> QED BY <2>1, <2>4, <2>5, <2>6 DEF Inv
<1> QED BY <1>2, <1>3 DEF CompletePrefetch

(* The completions of prefetches are discarded with the queue. *)
LEMMA DiscardPrefetchesStep == ASSUME Inv, DiscardPrefetches PROVE Inv'
  BY LoadDropped DEF DiscardPrefetches, Inv, MarkersHeld

(* A visible load completes: it is applied, its markers go, and the range  *)
(* that waited is dispatched.                                              *)
LEMMA CompleteVisibleStep == ASSUME Inv, NEW l \in loads, CompleteVisible(l) PROVE Inv'
<1> DEFINE own == Released(loading_generations, l.generation)
           dropped == IF dragging THEN prefetch ELSE 0
           owner == Released(own, dropped)
           rest == loads \ {l}
<1>0. /\ l.lane = "visible" /\ l.generation \in Generations /\ l.generation # 0
      /\ UNCHANGED <<viewVars, saveVars, countVars>> /\ rest \in SUBSET LoadSet
      /\ loading_generations \in [Blocks -> Owner]
  BY WindowAssumption DEF CompleteVisible, Inv, TypeOK, LoadSet
<1>1. CASE /\ active # l.generation /\ loads' = rest
           /\ UNCHANGED <<windowVars, active, active_range, pending_range, prefetch>>
  <2>1. active # 0 => \E k \in loads' : k.generation = active /\ k.lane = "visible"
    BY <1>1 DEF Inv, MarkersHeld
  <2> QED BY <1>0, <1>1, <2>1, LoadDropped
<1>2. CASE /\ active = l.generation
           /\ payloads' = LoadedPayloads(l)
           /\ persisted_versions' = LoadedVersions(l)
           /\ failure_attempts' = AttemptsAfter(l)
  <2>1. /\ payloads' \in [Blocks -> Nat] /\ persisted_versions' \in [Blocks -> Nat]
        /\ failure_attempts' \in [Blocks -> 0..MaxAttempts]
        /\ VersionsOrdered' /\ NoEditLost' /\ CleanIsStored'
    BY <1>0, <1>2, LoadApplied DEF countVars
  <2>2. /\ own \in [Blocks -> Owner]
        /\ \A b \in Blocks : own[b] = loading_generations[b] \/ own[b] = NoOwner
        /\ \A b \in Blocks : loading_generations[b].generation = l.generation => own[b] = NoOwner
    BY <1>0, ReleasedProperties
  <2>3. \A b \in Blocks : own[b].priority # "Visible"
    <3> SUFFICES ASSUME NEW b \in Blocks, own[b].priority = "Visible" PROVE FALSE
      OBVIOUS
    <3>1. own[b] = loading_generations[b]
      BY <2>2 DEF NoOwner
    <3>2. own[b] = NoOwner
      BY <1>2, <2>2, <3>1 DEF Inv, MarkersHeld
    <3> QED BY <3>2 DEF NoOwner
  <2>4. \A b \in Blocks : own[b].priority = "Prefetch" => own[b].generation = prefetch
    BY <2>2 DEF Inv, MarkersHeld, NoOwner
  <2>5. CASE /\ pending_range = NoRange /\ loading_generations' = own
             /\ active' = 0 /\ active_range' = NoRange
             /\ loads' = rest /\ UNCHANGED <<pending_range, prefetch>>
    <3>1. /\ \A b \in Blocks : own[b] # NoOwner => payloads'[b] = 0
          /\ \A k \in loads, b \in Blocks :
               b \in k.blocks /\ own[b].generation = k.generation =>
                   /\ k.got[b] > 0 => k.got[b] = store'[b]
                   /\ k.lane = "visible" => failure_attempts'[b] < MaxAttempts
      <4> HIDE DEF own
      <4> QED BY <1>0, <1>2, <2>2, MarkersAfterLoad DEF countVars
    <3> HIDE DEF own
    <3>2. TypeOK'
      BY <1>0, <2>1, <2>2, <2>5 DEF Inv, TypeOK, viewVars, saveVars, countVars, NoRange
    <3>3. MarkersHeld'
      BY <2>3, <2>4, <2>5, <3>1 DEF MarkersHeld
    <3>4. LoadsCurrent'
      BY <2>5, <3>1 DEF LoadsCurrent, Owns
    <3> QED BY <2>1, <3>2, <3>3, <3>4 DEF Inv
  <2>6. CASE /\ Dispatch(pending_range, {b \in Blocks : payloads'[b] # 0},
                         owner, failure_attempts', rest)
             /\ prefetch' = IF dragging THEN 0 ELSE prefetch
    <3> DEFINE missing == VisibleMissing(pending_range, {b \in Blocks : payloads'[b] # 0},
                                         owner, failure_attempts')
    <3>1. missing \in SUBSET Blocks
          /\ \A b \in missing : payloads'[b] = 0 /\ failure_attempts'[b] < MaxAttempts
      <4>1. BlockIds(pending_range) \in SUBSET Blocks
        BY BlockIdsAreBlocks DEF Inv, TypeOK
      <4> QED BY <4>1 DEF VisibleMissing
    <3>2. Dispatched(missing, pending_range, owner, rest,
                     loading_generations', active', active_range', loads')
      BY <2>6 DEF Dispatch, Dispatched, Fresh
    <3>3. pending_range' \in SUBSET Blocks /\ pending_range \in SUBSET Blocks
      BY <2>6 DEF Dispatch, NoRange, Inv, TypeOK
    <3>4. /\ owner \in [Blocks -> Owner]
          /\ \A b \in Blocks : owner[b] = own[b] \/ owner[b] = NoOwner
          /\ \A b \in Blocks : dropped # 0 /\ own[b].generation = dropped => owner[b] = NoOwner
      <4> HIDE DEF own, dropped
      <4> QED BY <2>2, ReleasedProperties
    <3> HIDE DEF missing, owner, own, rest
    <3>5. DispatchSound(missing, owner, rest,
                        loading_generations', active', active_range', loads')
      BY <1>0, <3>1, <3>2, <3>3, <3>4, DispatchedProperties
    <3>6. /\ \A b \in Blocks : owner[b] = loading_generations[b] \/ owner[b] = NoOwner
          /\ \A b \in Blocks : loading_generations[b].generation = l.generation => owner[b] = NoOwner
      BY <2>2, <3>4
    <3>7. /\ \A b \in Blocks : owner[b] # NoOwner => payloads'[b] = 0
          /\ \A k \in loads, b \in Blocks :
               b \in k.blocks /\ owner[b].generation = k.generation =>
                   /\ k.got[b] > 0 => k.got[b] = store'[b]
                   /\ k.lane = "visible" => failure_attempts'[b] < MaxAttempts
      BY <1>0, <1>2, <3>4, <3>6, MarkersAfterLoad DEF countVars
    <3>8. ASSUME NEW b \in Blocks
          PROVE  /\ owner[b].priority # "Visible"
                 /\ owner[b].priority = "Prefetch" => owner[b].generation = prefetch'
      <4>1. CASE owner[b] = NoOwner
        BY <4>1 DEF NoOwner
      <4>2. CASE owner[b] # NoOwner /\ dragging
        <5>1. owner[b] = own[b] /\ own[b].generation \in Generations
          BY <2>2, <3>4, <4>2 DEF Owner
        <5>2. own[b].generation # 0
          BY <5>1, WindowAssumption
        <5> QED BY <2>3, <2>4, <3>4, <4>2, <5>1, <5>2
      <4>3. CASE owner[b] # NoOwner /\ ~dragging
        BY <2>3, <2>4, <2>6, <3>4, <4>3
      <4> QED BY <4>1, <4>2, <4>3
    <3>9. MarkersHeld' /\ LoadsCurrent'
      <4>1. \A k \in rest, b \in Blocks :
               b \in k.blocks /\ owner[b].generation = k.generation =>
                   /\ k.got[b] > 0 => k.got[b] = store'[b]
                   /\ k.lane = "visible" => failure_attempts'[b] < MaxAttempts
        BY <3>7 DEF rest
      <4> QED BY <1>0, <3>1, <3>4, <3>5, <3>7, <3>8, <4>1, DispatchKeepsOrder
    <3>10. prefetch' \in Generations \cup {0}
      BY <2>6 DEF Inv, TypeOK
    <3>11. TypeOK'
      BY <1>0, <2>1, <3>3, <3>5, <3>10 DEF Inv, TypeOK, DispatchSound, viewVars, saveVars, countVars
    <3> QED BY <2>1, <3>9, <3>11 DEF Inv
  <2> QED BY <1>2, <2>5, <2>6 DEF CompleteVisible
<1> QED BY <1>1, <1>2 DEF CompleteVisible
(* An edit is newer than anything saved, captured or read of the block. *)
LEMMA EditStep ==
    ASSUME Inv, NEW b \in Blocks, NEW focus \in Blocks \cup {0}, Edit(b, focus)
    PROVE  Inv'
<1>0. /\ payloads \in [Blocks -> Nat] /\ latest \in [Blocks -> Nat]
      /\ persisted_versions \in [Blocks -> Nat]
      /\ store \in [Blocks -> Nat] /\ captured \in [Blocks -> Nat]
      /\ edits \in 0..MaxEdits
  BY DEF Inv, TypeOK
<1>1. /\ payloads[b] # 0 /\ payloads[b] = latest[b]
      /\ payloads' = [payloads EXCEPT ![b] = payloads[b] + 1]
      /\ latest' = [latest EXCEPT ![b] = payloads[b] + 1]
      /\ focused' = focus /\ edits < MaxEdits /\ edits' = edits + 1
      /\ UNCHANGED <<persisted_versions, loading_generations, failure_attempts, viewport,
                     dragging, block_range, preparing, laneVars, saveVars>>
  BY <1>0 DEF Edit, Resident, Inv, NoEditLost
<1>2. TypeOK'
  <2>1. payloads' \in [Blocks -> Nat] /\ latest' \in [Blocks -> Nat]
    BY <1>0, <1>1
  <2>2. edits' \in 0..MaxEdits
    BY <1>0, <1>1, WindowAssumption
  <2> QED BY <1>1, <2>1, <2>2 DEF Inv, TypeOK, laneVars, saveVars
<1>3. MarkersHeld' /\ LoadsCurrent'
  BY <1>0, <1>1 DEF Inv, MarkersHeld, LoadsCurrent, Owns, laneVars, saveVars
<1>4. VersionsOrdered'
  BY <1>0, <1>1 DEF Inv, VersionsOrdered, saveVars
<1>5. NoEditLost'
  BY <1>0, <1>1 DEF Inv, NoEditLost, saveVars
<1>6. CleanIsStored'
  <2> SUFFICES ASSUME NEW c \in Blocks, payloads'[c] # 0, persisted_versions[c] = payloads'[c]
               PROVE  store[c] = payloads'[c]
    BY <1>1 DEF CleanIsStored, Resident, is_dirty, saveVars
  <2>1. CASE c = b
    BY <1>0, <1>1, <2>1 DEF Inv, VersionsOrdered
  <2>2. CASE c # b
    BY <1>0, <1>1, <2>2 DEF Inv, CleanIsStored, Resident, is_dirty
  <2> QED BY <2>1, <2>2
<1> QED BY <1>2, <1>3, <1>4, <1>5, <1>6 DEF Inv

(* The save captures, commits, succeeds or fails.  A commit changes the     *)
(* version of no block that is not resident, so none that a load is        *)
(* reading: what was captured of it is what the store holds already.       *)
LEMMA SaveSteps ==
    ASSUME Inv, CaptureSave \/ CommitSave \/ SaveSucceeds \/ SaveFails
    PROVE  Inv'
<1>0. /\ payloads \in [Blocks -> Nat] /\ latest \in [Blocks -> Nat]
      /\ persisted_versions \in [Blocks -> Nat]
      /\ store \in [Blocks -> Nat] /\ captured \in [Blocks -> Nat]
  BY DEF Inv, TypeOK
<1>1. UNCHANGED <<payloads, loading_generations, failure_attempts, viewVars, laneVars, countVars>>
  BY DEF CaptureSave, CommitSave, SaveSucceeds, SaveFails, windowVars
<1>2. MarkersHeld'
  BY <1>1 DEF Inv, MarkersHeld, laneVars
<1>3. ASSUME captured' \in [Blocks -> Nat], persisted_versions' \in [Blocks -> Nat],
             store' \in [Blocks -> Nat], save' \in {"idle", "writing", "committed"}
      PROVE  TypeOK'
  BY <1>1, <1>3 DEF Inv, TypeOK, viewVars, laneVars, countVars
<1>4. CASE CaptureSave
  <2>1. /\ captured' = payloads /\ save' = "writing"
        /\ UNCHANGED <<persisted_versions, store>>
    BY <1>4 DEF CaptureSave, windowVars
  <2>2. TypeOK'
    BY <1>0, <1>3, <2>1
  <2>3. LoadsCurrent' /\ NoEditLost' /\ CleanIsStored'
    BY <1>1, <2>1 DEF Inv, LoadsCurrent, Owns, NoEditLost, CleanIsStored, Resident, is_dirty,
                      laneVars, countVars
  <2>4. VersionsOrdered'
    BY <1>0, <1>1, <2>1 DEF Inv, VersionsOrdered, NoEditLost, countVars
  <2> QED BY <1>2, <2>2, <2>3, <2>4 DEF Inv
<1>5. CASE CommitSave
  <2>1. /\ save = "writing" /\ save' = "committed"
        /\ store' = [b \in Blocks |-> IF captured[b] # 0 THEN captured[b] ELSE store[b]]
        /\ UNCHANGED <<persisted_versions, captured>>
    BY <1>5 DEF CommitSave, windowVars
  <2>2. TypeOK'
    BY <1>0, <1>3, <2>1
  <2>3. \A b \in Blocks : store[b] = latest[b] => store'[b] = store[b]
    BY <1>0, <2>1 DEF Inv, VersionsOrdered
  <2>4. LoadsCurrent'
    <3> SUFFICES ASSUME NEW l \in loads, NEW b \in Blocks, Owns(l, b)
                 PROVE  store'[b] = store[b]
      BY <1>1 DEF Inv, LoadsCurrent, Owns, laneVars
    <3>1. payloads[b] = 0
      BY OwnedIsMarked DEF Inv, MarkersHeld
    <3> QED BY <2>3, <3>1 DEF Inv, NoEditLost
  <2>5. VersionsOrdered'
    BY <1>0, <1>1, <2>1 DEF Inv, VersionsOrdered, countVars
  <2>6. NoEditLost'
    BY <1>1, <2>3 DEF Inv, NoEditLost, countVars
  <2>7. CleanIsStored'
    BY <1>1, <2>1, <2>3 DEF Inv, CleanIsStored, NoEditLost, Resident, is_dirty
  <2> QED BY <1>2, <2>2, <2>4, <2>5, <2>6, <2>7 DEF Inv
<1>6. CASE SaveSucceeds
  <2>1. /\ save = "committed" /\ save' = "idle" /\ store' = store
        /\ persisted_versions' = [b \in Blocks |-> IF captured[b] # 0 /\ payloads[b] # 0
                                                   THEN captured[b] ELSE persisted_versions[b]]
        /\ captured' = [b \in Blocks |-> 0]
    BY <1>6 DEF SaveSucceeds
  <2>2. TypeOK'
    BY <1>0, <1>3, <2>1
  <2>3. LoadsCurrent' /\ NoEditLost'
    BY <1>1, <2>1 DEF Inv, LoadsCurrent, Owns, NoEditLost, laneVars, countVars
  <2>4. VersionsOrdered'
    BY <1>0, <1>1, <2>1 DEF Inv, VersionsOrdered, NoEditLost, countVars
  <2>5. CleanIsStored'
    BY <1>1, <2>1 DEF Inv, CleanIsStored, VersionsOrdered, Resident, is_dirty
  <2> QED BY <1>2, <2>2, <2>3, <2>4, <2>5 DEF Inv
<1>7. CASE SaveFails
  <2>1. /\ save' = "idle" /\ captured' = [b \in Blocks |-> 0]
        /\ UNCHANGED <<persisted_versions, store>>
    BY <1>7 DEF SaveFails, windowVars
  <2>2. TypeOK'
    BY <1>0, <1>3, <2>1
  <2>3. LoadsCurrent' /\ NoEditLost' /\ CleanIsStored'
    BY <1>1, <2>1 DEF Inv, LoadsCurrent, Owns, NoEditLost, CleanIsStored, Resident, is_dirty,
                      laneVars, countVars
  <2>4. VersionsOrdered'
    BY <1>1, <2>1 DEF Inv, VersionsOrdered, countVars
  <2> QED BY <1>2, <2>2, <2>3, <2>4 DEF Inv
<1> QED BY <1>4, <1>5, <1>6, <1>7

(* Only what the store holds is trimmed. *)
LEMMA EvictStep == ASSUME Inv, NEW b \in Blocks, Evict(b) PROVE Inv'
<1>0. /\ payloads \in [Blocks -> Nat] /\ persisted_versions \in [Blocks -> Nat]
      /\ failure_attempts \in [Blocks -> 0..MaxAttempts]
      /\ loading_generations \in [Blocks -> Owner]
  BY DEF Inv, TypeOK
<1>1. /\ payloads' = [payloads EXCEPT ![b] = 0]
      /\ persisted_versions' = [persisted_versions EXCEPT ![b] = 0]
      /\ failure_attempts' = [failure_attempts EXCEPT ![b] = 0]
      /\ loading_generations' = [loading_generations EXCEPT ![b] = NoOwner]
      /\ UNCHANGED <<viewVars, laneVars, saveVars, countVars>>
      /\ payloads[b] # 0 /\ store[b] = payloads[b]
  BY DEF Evict, Evictable, Resident, Inv, CleanIsStored
<1>2. TypeOK'
  <2>1. payloads' \in [Blocks -> Nat] /\ persisted_versions' \in [Blocks -> Nat]
    BY <1>0, <1>1
  <2>2. failure_attempts' \in [Blocks -> 0..MaxAttempts]
    BY <1>0, <1>1, WindowAssumption
  <2>3. loading_generations' \in [Blocks -> Owner]
    BY <1>0, <1>1 DEF Owner
  <2> QED BY <1>1, <2>1, <2>2, <2>3 DEF Inv, TypeOK, viewVars, laneVars, saveVars, countVars
<1>3. MarkersHeld'
  BY <1>0, <1>1 DEF Inv, MarkersHeld, NoOwner, laneVars
<1>4. LoadsCurrent'
  <2> SUFFICES ASSUME NEW l \in loads, NEW c \in Blocks, c \in l.blocks,
                      loading_generations'[c].generation = l.generation
               PROVE  /\ l.got[c] > 0 => l.got[c] = store[c]
                      /\ l.lane = "visible" => failure_attempts'[c] < MaxAttempts
    BY <1>1 DEF LoadsCurrent, Owns, laneVars, saveVars
  <2>1. l.generation \in Generations /\ l.generation # 0
    BY WindowAssumption DEF Inv, TypeOK, LoadSet
  <2>2. c # b
    BY <1>0, <1>1, <2>1 DEF NoOwner
  <2> QED BY <1>0, <1>1, <2>2 DEF Inv, LoadsCurrent, Owns
<1>5. VersionsOrdered' /\ CleanIsStored'
  BY <1>0, <1>1 DEF Inv, VersionsOrdered, CleanIsStored, Resident, is_dirty, saveVars, countVars
<1>6. NoEditLost'
  BY <1>0, <1>1 DEF Inv, NoEditLost, saveVars, countVars
<1> QED BY <1>2, <1>3, <1>4, <1>5, <1>6 DEF Inv

-----------------------------------------------------------------------------
(* Every step keeps the invariant. *)
LEMMA StepInv == Inv /\ [Next]_vars => Inv'
<1> SUFFICES ASSUME Inv, [Next]_vars PROVE Inv'
  OBVIOUS
<1>1. CASE Render
  BY <1>1, RenderStep
<1>2. CASE RenderPrefetch
  BY <1>2, RenderPrefetchStep
<1>3. CASE StartDrag \/ RetryWindow
  BY <1>3, ResetSteps
<1>4. CASE FinishDrag \/ \E p \in Blocks : Scroll(p)
  BY <1>4, ViewSteps
<1>5. ASSUME NEW p \in Blocks, DragTo(p) PROVE Inv'
  BY <1>5, DragToStep
<1>6. CASE Read
  BY <1>6, ReadStep DEF Read
<1>7. CASE Complete
  BY <1>7, CompleteVisibleStep DEF Complete
<1>8. ASSUME NEW l \in loads, CompletePrefetch(l) PROVE Inv'
  BY <1>8, CompletePrefetchStep
<1>9. CASE DiscardPrefetches
  BY <1>9, DiscardPrefetchesStep
<1>10. ASSUME NEW b \in Blocks, Edit(b, b) \/ Edit(b, focused) PROVE Inv'
  <2>1. focused \in Blocks \cup {0} /\ b \in Blocks \cup {0}
    BY DEF Inv, TypeOK
  <2> QED BY <1>10, <2>1, EditStep
<1>11. ASSUME NEW b \in Blocks, Evict(b) PROVE Inv'
  BY <1>11, EvictStep
<1>12. CASE CaptureSave \/ CommitSave \/ SaveSucceeds \/ SaveFails
  BY <1>12, SaveSteps
<1>13. CASE UNCHANGED vars
  <2>1. TypeOK'
    BY <1>13 DEF Inv, TypeOK, vars, windowVars, viewVars, laneVars, saveVars, countVars
  <2>2. UNCHANGED <<contentVars, loading_generations, failure_attempts, active, prefetch, loads>>
    BY <1>13 DEF vars, windowVars, laneVars, countVars, contentVars
  <2> QED BY <2>1, <2>2, ContentUnchanged, LanesUnchanged DEF Inv, contentVars, saveVars
<1> QED BY <1>1, <1>2, <1>3, <1>4, <1>5, <1>6, <1>7, <1>8, <1>9, <1>10, <1>11, <1>12, <1>13 DEF Next

(* All parts of the invariant hold together in every reachable state. *)
THEOREM WindowInvariant == Spec => []Inv
<1> QED BY InitInv, StepInv, PTL DEF Spec

(* The window, the lanes and the loads keep their types, and no block is   *)
(* tried more often than MAX_PAYLOAD_WINDOW_LOAD_ATTEMPTS.                 *)
THEOREM WindowTypeCorrect == Spec => []TypeOK
<1>1. Inv => TypeOK
  BY DEF Inv
<1> QED BY WindowInvariant, <1>1, PTL

(* Every loading marker belongs to the load that holds its lane: markers   *)
(* are never left behind by a reset, a takeover or a late completion.      *)
THEOREM WindowMarkersHeld == Spec => []MarkersHeld
<1>1. Inv => MarkersHeld
  BY DEF Inv
<1> QED BY WindowInvariant, <1>1, PTL

(* No edit is lost to a late read, a trim of the cache or a save of older  *)
(* versions.                                                               *)
THEOREM WindowNoEditLost == Spec => []NoEditLost
<1>1. Inv => NoEditLost
  BY DEF Inv
<1> QED BY WindowInvariant, <1>1, PTL

(* What is_dirty lets the cache drop is in the store. *)
THEOREM WindowCleanIsStored == Spec => []CleanIsStored
<1>1. Inv => CleanIsStored
  BY DEF Inv
<1> QED BY WindowInvariant, <1>1, PTL
=============================================================================
