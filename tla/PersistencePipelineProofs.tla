---------------------- MODULE PersistencePipelineProofs ----------------------
(***************************************************************************)
(* Proofs about PersistencePipeline, for any number of barriers, edits and *)
(* failures.  The inductive invariant is                                   *)
(*   TypeOK /\ SlotTracksWork /\ GenerationsTrackContent /\ BarrierDurable *)
(* with, when no remote transaction arrives, the debounce facts.           *)
(***************************************************************************)
EXTENDS PersistencePipeline, TLAPS

IndInv ==
    /\ TypeOK
    /\ SlotTracksWork
    /\ GenerationsTrackContent
    /\ BarrierDurable

(* What settling does to the barriers bs once persisted is reached: the    *)
(* Cancelled branch is not among the outcomes.                             *)
Settled(bs, persisted) ==
    \A b \in Barriers :
        \/ barriers'[b] = bs[b]
        \/ /\ bs[b].state = "pending"
           /\ bs[b].target <= persisted
           /\ \/ /\ bs[b].kind = "Save"
                 /\ barriers'[b] = InState(bs[b], "ok")
              \/ /\ bs[b].kind = "Flush"
                 /\ flush_phase' = "flushing"
                 /\ barriers'[b] = InState(bs[b], "flushing")

USE PipelineAssumption
    DEF BarrierKind, BarrierState, SaveStatus, SavePhase, FlushPhase, Barrier,
        StorageSaveRequest, SaveInFlight, InState,
        viewVars, pipelineVars, saveVars, flushVars, storageVars

-----------------------------------------------------------------------------
(* The operators shared by the handlers.                                   *)

(* schedule_storage_autosave adds at most one timer and never loses one. *)
LEMMA ScheduleFacts ==
    ASSUME NEW isSaving \in BOOLEAN, ScheduleAutosave(isSaving),
           debounce_scheduled \in BOOLEAN, timers \in Nat
    PROVE  /\ debounce_scheduled' \in BOOLEAN
           /\ timers' \in Nat
           /\ timers' >= timers
           /\ debounce_scheduled' => debounce_scheduled \/ (timers' > 0 /\ ~isSaving)
           /\ AutosaveEnabled => isSaving \/ debounce_scheduled \/ timers' > 0
<1>1. CASE isSaving \/ debounce_scheduled \/ ~AutosaveEnabled
  BY <1>1 DEF ScheduleAutosave
<1>2. CASE ~(isSaving \/ debounce_scheduled \/ ~AutosaveEnabled)
  BY <1>2 DEF ScheduleAutosave
<1> QED BY <1>1, <1>2

(* settle_storage_barriers answers ready save barriers and starts at most  *)
(* one flush, for the ready flush barriers.                                *)
LEMMA SettleFacts ==
    ASSUME NEW bs \in [Barriers -> Barrier], NEW persisted \in Nat,
           NEW flushes \in 0..1, NEW slot \in BOOLEAN, NEW phase \in FlushPhase,
           slot <=> flushes = 1, slot <=> phase # "none",
           SettleBarriers(bs, persisted, flushes, slot, phase)
    PROVE  /\ barriers' \in [Barriers -> Barrier]
           /\ flush_slot' \in BOOLEAN
           /\ flush_phase' \in FlushPhase
           /\ flushes_in_flight' \in 0..1
           /\ flush_slot' <=> flushes_in_flight' = 1
           /\ flush_slot' <=> flush_phase' # "none"
           /\ flush_phase' \in {phase, "flushing"}
           /\ Settled(bs, persisted)
<1> DEFINE ready == {b \in Barriers : Ready(bs[b], persisted, flushes)}
           flush == {b \in ready : bs[b].kind = "Flush"}
           starts == flush # {} /\ ~slot
<1>1. /\ barriers' = [b \in Barriers |->
             IF b \notin ready THEN bs[b]
             ELSE InState(bs[b], IF b \notin flush THEN "ok"
                                 ELSE IF starts THEN "flushing" ELSE "error")]
      /\ flush_slot' = (slot \/ starts)
      /\ flushes_in_flight' = IF starts THEN flushes + 1 ELSE flushes
      /\ flush_phase' = IF starts THEN "flushing" ELSE phase
  BY Zenon DEF SettleBarriers
<1>2. flush # {} => starts
  BY DEF Ready
<1>3. starts \in BOOLEAN
  OBVIOUS
<1>4. ASSUME NEW b \in Barriers
      PROVE  /\ bs[b] \in Barrier
             /\ b \in ready => bs[b].state = "pending" /\ bs[b].target <= persisted
             /\ b \in ready /\ b \notin flush => bs[b].kind = "Save"
             /\ b \in flush => bs[b].kind = "Flush" /\ starts
  BY <1>2 DEF Ready
<1> HIDE DEF ready, flush, starts
<1>5. barriers' \in [Barriers -> Barrier]
  BY <1>1, <1>4
<1>6. /\ flush_slot' \in BOOLEAN
      /\ flush_phase' \in FlushPhase
      /\ flush_phase' \in {phase, "flushing"}
      /\ flush_slot' <=> flush_phase' # "none"
  BY <1>1, <1>3
<1>7. /\ flushes_in_flight' \in 0..1
      /\ flush_slot' <=> flushes_in_flight' = 1
  <2>1. starts => ~slot
    BY DEF starts
  <2> QED BY <1>1, <1>3, <2>1
<1>8. Settled(bs, persisted)
  BY <1>1, <1>4 DEF Settled
<1> QED BY <1>5, <1>6, <1>7, <1>8

(* flush_storage_persistence either leaves the save alone or captures, and *)
(* captures whenever a writable document has unsaved work and no save.     *)
LEMMA FlushFacts ==
    ASSUME TypeOK, SlotTracksWork, NEW bs \in [Barriers -> Barrier],
           FlushStoragePersistence(bs)
    PROVE  /\ barriers' \in [Barriers -> Barrier]
           /\ flush_slot' \in BOOLEAN
           /\ flush_phase' \in FlushPhase
           /\ flushes_in_flight' \in 0..1
           /\ flush_slot' <=> flushes_in_flight' = 1
           /\ flush_slot' <=> flush_phase' # "none"
           /\ flush_phase' \in {flush_phase, "flushing"}
           /\ Settled(bs, persisted_generation)
           /\ debounce_scheduled' \in BOOLEAN
           /\ debounce_scheduled' => debounce_scheduled /\ saving
           /\ ~readonly /\ HasUnpersistedChanges => saving'
           /\ \/ UNCHANGED <<saving, save_slot, save_phase, request, save_status>>
              \/ /\ HasUnpersistedChanges
                 /\ save_phase = "none"
                 /\ saving' = TRUE
                 /\ save_slot' = TRUE
                 /\ save_phase' = "writing"
                 /\ request' = BeginBatch
                 /\ save_status' = "SavingLocal"
<1>1. CASE readonly /\ debounce_scheduled' = FALSE /\ barriers' = bs
           /\ UNCHANGED <<saving, flushes_in_flight, saveVars, flushVars, save_status>>
  BY <1>1 DEF TypeOK, SlotTracksWork, Settled
<1>2. CASE ~readonly /\ save_slot /\ barriers' = bs
           /\ UNCHANGED <<debounce_scheduled, saving, flushes_in_flight, saveVars,
                          flushVars, save_status>>
  BY <1>2 DEF TypeOK, SlotTracksWork, Settled
<1>3. CASE /\ ~readonly /\ ~save_slot
           /\ saving \/ ~HasUnpersistedChanges
           /\ debounce_scheduled' = (saving /\ debounce_scheduled)
           /\ SettleBarriers(bs, persisted_generation, flushes_in_flight, flush_slot,
                             flush_phase)
           /\ UNCHANGED <<saving, saveVars, save_status>>
  <2>1. /\ persisted_generation \in Nat
        /\ flush_slot <=> flushes_in_flight = 1
        /\ flush_slot <=> flush_phase # "none"
        /\ flushes_in_flight \in 0..1 /\ flush_slot \in BOOLEAN /\ flush_phase \in FlushPhase
    BY DEF TypeOK, SlotTracksWork
  <2>2. /\ barriers' \in [Barriers -> Barrier]
        /\ flush_slot' \in BOOLEAN
        /\ flush_phase' \in FlushPhase
        /\ flushes_in_flight' \in 0..1
        /\ flush_slot' <=> flushes_in_flight' = 1
        /\ flush_slot' <=> flush_phase' # "none"
        /\ flush_phase' \in {flush_phase, "flushing"}
        /\ Settled(bs, persisted_generation)
    BY <1>3, <2>1, SettleFacts
  <2>3. ~saving /\ debounce_scheduled' = FALSE
    BY <1>3 DEF TypeOK, SlotTracksWork
  <2>4. ~HasUnpersistedChanges /\ UNCHANGED <<saving, save_slot, save_phase, request, save_status>>
    BY <1>3, <2>3
  <2> QED BY <2>2, <2>3, <2>4
<1>4. CASE /\ ~readonly /\ ~save_slot /\ ~saving /\ HasUnpersistedChanges
           /\ debounce_scheduled' = FALSE /\ saving' = TRUE /\ save_slot' = TRUE
           /\ save_phase' = "writing" /\ request' = BeginBatch
           /\ save_status' = "SavingLocal" /\ barriers' = bs
           /\ UNCHANGED <<flushes_in_flight, flushVars>>
  BY <1>4 DEF TypeOK, SlotTracksWork, Settled
<1> QED BY <1>1, <1>2, <1>3, <1>4 DEF FlushStoragePersistence

-----------------------------------------------------------------------------
(* The inductive invariant.                                                *)

(* A handler that does nothing to the document but settle bs and call      *)
(* flush_storage_persistence keeps the invariant, if bs is in order.       *)
LEMMA FlushKeepsInv ==
    ASSUME IndInv, NEW bs \in [Barriers -> Barrier], FlushStoragePersistence(bs),
           UNCHANGED <<readonly, dirty, revision, dirty_generation, persisted_generation,
                       stored, flushed, failures>>,
           timers' \in Nat,
           \A b \in Barriers :
              \/ bs[b] = barriers[b]
              \/ /\ bs[b].state = "pending"
                 /\ bs[b].target = dirty_generation
                 /\ bs[b].revision = revision
    PROVE  IndInv'
<1> USE DEF IndInv, GenerationsTrackContent
<1>1. /\ barriers' \in [Barriers -> Barrier]
      /\ flush_slot' \in BOOLEAN
      /\ flush_phase' \in FlushPhase
      /\ flushes_in_flight' \in 0..1
      /\ flush_slot' <=> flushes_in_flight' = 1
      /\ flush_slot' <=> flush_phase' # "none"
      /\ flush_phase' \in {flush_phase, "flushing"}
      /\ Settled(bs, persisted_generation)
      /\ debounce_scheduled' \in BOOLEAN
      /\ \/ UNCHANGED <<saving, save_slot, save_phase, request, save_status>>
         \/ /\ HasUnpersistedChanges
            /\ save_phase = "none"
            /\ saving' = TRUE
            /\ save_slot' = TRUE
            /\ save_phase' = "writing"
            /\ request' = BeginBatch
            /\ save_status' = "SavingLocal"
  BY FlushFacts
<1>2. TypeOK'
  <2>1. /\ saving' \in BOOLEAN /\ save_slot' \in BOOLEAN
        /\ save_phase' \in SavePhase /\ save_status' \in SaveStatus
    BY <1>1 DEF TypeOK
  <2>2. request' \in StorageSaveRequest
    BY <1>1 DEF TypeOK, BeginBatch
  <2> QED BY <1>1, <2>1, <2>2 DEF TypeOK
<1>3. SlotTracksWork'
  BY <1>1 DEF TypeOK, SlotTracksWork
<1>4. SavesInOrder'
  BY <1>1 DEF TypeOK, SavesInOrder, BeginBatch, HasUnpersistedChanges
<1>5. ASSUME NEW b \in Barriers
      PROVE  bs[b].state = "pending" /\ bs[b].target <= persisted_generation
                => bs[b].revision <= stored
  BY DEF TypeOK, SavesInOrder, BarrierInOrder
<1>6. ASSUME NEW b \in Barriers PROVE BarrierInOrder(b)'
  <2>1. bs[b].state = "pending" =>
          /\ bs[b].target <= dirty_generation
          /\ bs[b].revision <= revision
          /\ SaveInFlight /\ bs[b].target <= request.generation
                => bs[b].revision <= request.revision
    <3>1. CASE bs[b] = barriers[b]
      BY <3>1 DEF BarrierInOrder
    <3>2. CASE /\ bs[b].target = dirty_generation
               /\ bs[b].revision = revision
      <4>1. /\ dirty_generation \in Nat /\ revision \in Nat
            /\ request.generation \in Nat /\ request.revision \in Nat
        BY DEF TypeOK
      <4>2. SaveInFlight /\ dirty_generation <= request.generation
              => revision = request.revision
        BY <4>1 DEF SavesInOrder
      <4> QED BY <3>2, <4>1, <4>2
    <3> QED BY <3>1, <3>2
  <2>2. bs[b].state = "flushing" =>
          /\ bs[b].revision <= stored
          /\ flush_phase \in {"pruning", "succeeded"} => bs[b].revision <= flushed
    BY DEF BarrierInOrder
  <2>3. /\ bs[b] \in Barrier
        /\ \/ barriers'[b] = bs[b]
           \/ barriers'[b].state = "ok"
           \/ /\ flush_phase' = "flushing"
              /\ barriers'[b].state = "flushing"
              /\ barriers'[b].revision = bs[b].revision
              /\ bs[b].revision <= stored
    BY <1>1, <1>5 DEF Settled
  <2>4. barriers'[b].state = "flushing" =>
          /\ barriers'[b].revision <= stored'
          /\ flush_phase' \in {"pruning", "succeeded"} => barriers'[b].revision <= flushed'
    BY <1>1, <2>2, <2>3
  <2>5. barriers'[b].state = "pending" =>
          /\ barriers'[b] = bs[b]
          /\ bs[b].target <= dirty_generation'
          /\ bs[b].revision <= revision'
          /\ bs[b].target <= persisted_generation' => bs[b].revision <= stored'
    BY <1>5, <2>1, <2>3
  <2>6. barriers'[b].state = "pending" =>
          (SaveInFlight' /\ barriers'[b].target <= request'.generation
             => barriers'[b].revision <= request'.revision)
    BY <1>1, <2>1, <2>3 DEF BeginBatch
  <2> QED BY <2>4, <2>5, <2>6 DEF BarrierInOrder
<1>7. BarrierDurable'
  BY <1>1, <1>5 DEF TypeOK, BarrierDurable, Settled
<1> QED BY <1>2, <1>3, <1>4, <1>6, <1>7

(* Init and every step of Next keep the invariant. *)
LEMMA InitInv == Init => IndInv
<1> SUFFICES ASSUME Init PROVE IndInv
  OBVIOUS
<1>1. TypeOK
  <2>1. /\ readonly \in BOOLEAN /\ dirty \in BOOLEAN
        /\ debounce_scheduled \in BOOLEAN /\ saving \in BOOLEAN
        /\ save_slot \in BOOLEAN /\ flush_slot \in BOOLEAN
    BY Zenon DEF Init
  <2> QED BY <2>1 DEF Init, TypeOK
<1>2. SlotTracksWork
  BY DEF Init, SlotTracksWork
<1>3. GenerationsTrackContent
  BY DEF Init, GenerationsTrackContent, SavesInOrder, BarrierInOrder
<1>4. BarrierDurable
  BY DEF Init, BarrierDurable
<1> QED BY <1>1, <1>2, <1>3, <1>4 DEF IndInv

LEMMA StepInv == IndInv /\ [Next]_vars => IndInv'
<1> SUFFICES ASSUME IndInv, [Next]_vars PROVE IndInv'
  OBVIOUS
<1> USE DEF IndInv, GenerationsTrackContent
<1>1. ASSUME NEW r \in 1..MaxRevision, Edit(r) PROVE IndInv'
  <2>0. debounce_scheduled' \in BOOLEAN /\ timers' \in Nat
    BY <1>1, ScheduleFacts DEF Edit, TypeOK
  <2>1. TypeOK'
    BY <1>1, <2>0 DEF Edit, TypeOK, MarkDirty
  <2>2. SlotTracksWork'
    BY <1>1 DEF Edit, TypeOK, SlotTracksWork
  <2>3. SavesInOrder'
    BY <1>1 DEF Edit, TypeOK, SavesInOrder, MarkDirty
  <2>4. ASSUME NEW b \in Barriers PROVE BarrierInOrder(b)'
    BY <1>1 DEF Edit, TypeOK, SavesInOrder, BarrierInOrder, MarkDirty
  <2>5. BarrierDurable'
    BY <1>1 DEF Edit, TypeOK, BarrierDurable
  <2> QED BY <2>1, <2>2, <2>3, <2>4, <2>5
<1>2. ASSUME NEW r \in 1..MaxRevision, RemoteEdit(r) PROVE IndInv'
  <2>1. TypeOK'
    BY <1>2 DEF RemoteEdit, TypeOK, MarkDirty
  <2>2. SlotTracksWork'
    BY <1>2 DEF RemoteEdit, TypeOK, SlotTracksWork
  <2>3. SavesInOrder'
    BY <1>2 DEF RemoteEdit, TypeOK, SavesInOrder, MarkDirty
  <2>4. ASSUME NEW b \in Barriers PROVE BarrierInOrder(b)'
    BY <1>2 DEF RemoteEdit, TypeOK, SavesInOrder, BarrierInOrder, MarkDirty
  <2>5. BarrierDurable'
    BY <1>2 DEF RemoteEdit, TypeOK, BarrierDurable
  <2> QED BY <2>1, <2>2, <2>3, <2>4, <2>5
<1>3. CASE TimerFires
  <2>1. barriers \in [Barriers -> Barrier] /\ timers' \in Nat
    BY <1>3 DEF TimerFires, TypeOK
  <2> QED BY <1>3, <2>1, FlushKeepsInv DEF TimerFires
<1>4. CASE RetrySave
  <2>1. barriers \in [Barriers -> Barrier] /\ timers' \in Nat
    BY <1>4 DEF RetrySave, TypeOK
  <2> QED BY <1>4, <2>1, FlushKeepsInv DEF RetrySave
<1>5. ASSUME NEW c \in Barriers, NEW kind \in BarrierKind, RequestBarrier(c, kind) PROVE IndInv'
  <2> DEFINE bs == [barriers EXCEPT ![c] = [state |-> "pending", kind |-> kind,
                                            target |-> dirty_generation, revision |-> revision]]
  <2>1. bs \in [Barriers -> Barrier] /\ timers' \in Nat
    BY <1>5 DEF RequestBarrier, TypeOK
  <2>2. \A b \in Barriers :
            \/ bs[b] = barriers[b]
            \/ /\ bs[b].state = "pending"
               /\ bs[b].target = dirty_generation
               /\ bs[b].revision = revision
    BY DEF TypeOK
  <2>3. FlushStoragePersistence(bs)
    BY <1>5 DEF RequestBarrier
  <2> HIDE DEF bs
  <2> QED BY <1>5, <2>1, <2>2, <2>3, FlushKeepsInv DEF RequestBarrier
<1>6. CASE SetReadonly
  <2>0. debounce_scheduled' \in BOOLEAN /\ timers' \in Nat
    BY <1>6, ScheduleFacts DEF SetReadonly, TypeOK
  <2>1. TypeOK'
    BY <1>6, <2>0 DEF SetReadonly, TypeOK
  <2>2. SlotTracksWork'
    BY <1>6 DEF SetReadonly, TypeOK, SlotTracksWork
  <2>3. SavesInOrder'
    BY <1>6 DEF SetReadonly, TypeOK, SavesInOrder
  <2>4. ASSUME NEW b \in Barriers PROVE BarrierInOrder(b)'
    BY <1>6 DEF SetReadonly, TypeOK, SavesInOrder, BarrierInOrder
  <2>5. BarrierDurable'
    BY <1>6 DEF SetReadonly, TypeOK, BarrierDurable
  <2> QED BY <2>1, <2>2, <2>3, <2>4, <2>5
<1>7. CASE SaveCommits
  <2>1. TypeOK'
    BY <1>7 DEF SaveCommits, TypeOK, SavesInOrder
  <2>2. SlotTracksWork'
    BY <1>7 DEF SaveCommits, TypeOK, SlotTracksWork
  <2>3. SavesInOrder'
    BY <1>7 DEF SaveCommits, TypeOK, SavesInOrder
  <2>4. ASSUME NEW b \in Barriers PROVE BarrierInOrder(b)'
    BY <1>7 DEF SaveCommits, TypeOK, SavesInOrder, BarrierInOrder
  <2>5. BarrierDurable'
    BY <1>7 DEF SaveCommits, TypeOK, BarrierDurable, SavesInOrder
  <2> QED BY <2>1, <2>2, <2>3, <2>4, <2>5
<1>8. CASE SaveReturns
  <2>1. TypeOK'
    BY <1>8 DEF SaveReturns, TypeOK
  <2>2. SlotTracksWork'
    BY <1>8 DEF SaveReturns, TypeOK, SlotTracksWork
  <2>3. SavesInOrder'
    BY <1>8 DEF SaveReturns, TypeOK, SavesInOrder
  <2>4. ASSUME NEW b \in Barriers PROVE BarrierInOrder(b)'
    BY <1>8 DEF SaveReturns, TypeOK, SavesInOrder, BarrierInOrder
  <2>5. BarrierDurable'
    BY <1>8 DEF SaveReturns, TypeOK, BarrierDurable
  <2> QED BY <2>1, <2>2, <2>3, <2>4, <2>5
<1>9. CASE SaveFails
  <2>1. TypeOK'
    BY <1>9 DEF SaveFails, TypeOK
  <2>2. SlotTracksWork'
    BY <1>9 DEF SaveFails, TypeOK, SlotTracksWork
  <2>3. SavesInOrder'
    BY <1>9 DEF SaveFails, TypeOK, SavesInOrder
  <2>4. ASSUME NEW b \in Barriers PROVE BarrierInOrder(b)'
    BY <1>9 DEF SaveFails, TypeOK, SavesInOrder, BarrierInOrder
  <2>5. BarrierDurable'
    BY <1>9 DEF SaveFails, TypeOK, BarrierDurable
  <2> QED BY <2>1, <2>2, <2>3, <2>4, <2>5
<1>10. CASE ApplySaveSuccess
  <2> DEFINE persisted == IF request.generation > persisted_generation
                          THEN request.generation ELSE persisted_generation
  <2>a. /\ persisted = request.generation
        /\ persisted \in Nat /\ persisted <= dirty_generation
        /\ stored = request.revision
    BY <1>10 DEF ApplySaveSuccess, TypeOK, SavesInOrder
  <2>b. debounce_scheduled' \in BOOLEAN /\ timers' \in Nat
    BY <1>10, ScheduleFacts DEF ApplySaveSuccess, TypeOK
  <2>c. SettleBarriers(barriers, persisted, flushes_in_flight, flush_slot, flush_phase)
    BY <1>10 DEF ApplySaveSuccess
  <2>d. /\ save_phase' = "none" /\ save_slot' = FALSE /\ saving' = FALSE
        /\ persisted_generation' = persisted
        /\ dirty' = (dirty_generation > persisted)
        /\ save_status' \in {"Readonly", "DirtyMemory", "LocallySaved"}
        /\ save_status' = "LocallySaved" => ~dirty'
        /\ UNCHANGED <<readonly, revision, dirty_generation, request, storageVars, failures>>
    BY <1>10 DEF ApplySaveSuccess, UnpersistedAfter, TypeOK
  <2> HIDE DEF persisted
  <2>e. /\ barriers' \in [Barriers -> Barrier]
        /\ flush_slot' \in BOOLEAN
        /\ flush_phase' \in FlushPhase
        /\ flushes_in_flight' \in 0..1
        /\ flush_slot' <=> flushes_in_flight' = 1
        /\ flush_slot' <=> flush_phase' # "none"
        /\ flush_phase' \in {flush_phase, "flushing"}
        /\ Settled(barriers, persisted)
    <3>1. /\ flush_slot <=> flushes_in_flight = 1
          /\ flush_slot <=> flush_phase # "none"
          /\ barriers \in [Barriers -> Barrier]
          /\ flushes_in_flight \in 0..1 /\ flush_slot \in BOOLEAN /\ flush_phase \in FlushPhase
      BY DEF TypeOK, SlotTracksWork
    <3> QED BY <2>a, <2>c, <3>1, SettleFacts
  <2>f. ASSUME NEW b \in Barriers
        PROVE  barriers[b].state = "pending" /\ barriers[b].target <= persisted
                  => barriers[b].revision <= stored
    BY <1>10, <2>a DEF ApplySaveSuccess, TypeOK, BarrierInOrder
  <2>g. saving' \in BOOLEAN /\ save_slot' \in BOOLEAN /\ dirty' \in BOOLEAN
    <3>1. (dirty_generation > persisted) \in BOOLEAN
      OBVIOUS
    <3> QED BY <2>d, <3>1, Zenon
  <2>1. TypeOK'
    BY <1>10, <2>a, <2>b, <2>d, <2>e, <2>g DEF TypeOK
  <2>2. SlotTracksWork'
    BY <1>10, <2>d, <2>e DEF TypeOK, SlotTracksWork
  <2>3. SavesInOrder'
    BY <1>10, <2>a, <2>d DEF ApplySaveSuccess, TypeOK, SavesInOrder
  <2>4. ASSUME NEW b \in Barriers PROVE BarrierInOrder(b)'
    BY <1>10, <2>a, <2>d, <2>e, <2>f DEF TypeOK, BarrierInOrder, Settled
  <2>5. BarrierDurable'
    BY <1>10, <2>d, <2>e, <2>f DEF TypeOK, BarrierDurable, Settled
  <2> QED BY <2>1, <2>2, <2>3, <2>4, <2>5
<1>11. CASE ApplySaveFailure
  <2>0. debounce_scheduled' \in BOOLEAN /\ timers' \in Nat
    BY <1>11, ScheduleFacts DEF ApplySaveFailure, TypeOK, SavingAfterFailure
  <2>1. TypeOK'
    BY <1>11, <2>0 DEF ApplySaveFailure, TypeOK, FailBarriers, SavingAfterFailure
  <2>2. SlotTracksWork'
    BY <1>11 DEF ApplySaveFailure, TypeOK, SlotTracksWork, SavingAfterFailure
  <2>3. SavesInOrder'
    BY <1>11 DEF ApplySaveFailure, TypeOK, SavesInOrder
  <2>4. ASSUME NEW b \in Barriers PROVE BarrierInOrder(b)'
    BY <1>11 DEF ApplySaveFailure, TypeOK, SavesInOrder, BarrierInOrder, FailBarriers
  <2>5. BarrierDurable'
    BY <1>11 DEF ApplySaveFailure, TypeOK, BarrierDurable, FailBarriers
  <2> QED BY <2>1, <2>2, <2>3, <2>4, <2>5
<1>12. CASE FlushCompletes
  <2>1. TypeOK'
    BY <1>12 DEF FlushCompletes, TypeOK
  <2>2. SlotTracksWork'
    BY <1>12 DEF FlushCompletes, TypeOK, SlotTracksWork
  <2>3. SavesInOrder'
    BY <1>12 DEF FlushCompletes, TypeOK, SavesInOrder
  <2>4. ASSUME NEW b \in Barriers PROVE BarrierInOrder(b)'
    BY <1>12 DEF FlushCompletes, TypeOK, SavesInOrder, BarrierInOrder
  <2>5. BarrierDurable'
    BY <1>12 DEF FlushCompletes, TypeOK, BarrierDurable, SavesInOrder
  <2> QED BY <2>1, <2>2, <2>3, <2>4, <2>5
<1>13. CASE FlushReturns
  <2>1. TypeOK'
    BY <1>13 DEF FlushReturns, TypeOK
  <2>2. SlotTracksWork'
    BY <1>13 DEF FlushReturns, TypeOK, SlotTracksWork
  <2>3. SavesInOrder'
    BY <1>13 DEF FlushReturns, TypeOK, SavesInOrder
  <2>4. ASSUME NEW b \in Barriers PROVE BarrierInOrder(b)'
    BY <1>13 DEF FlushReturns, TypeOK, SavesInOrder, BarrierInOrder
  <2>5. BarrierDurable'
    BY <1>13 DEF FlushReturns, TypeOK, BarrierDurable
  <2> QED BY <2>1, <2>2, <2>3, <2>4, <2>5
<1>14. CASE FlushFails
  <2>1. TypeOK'
    BY <1>14 DEF FlushFails, TypeOK
  <2>2. SlotTracksWork'
    BY <1>14 DEF FlushFails, TypeOK, SlotTracksWork
  <2>3. SavesInOrder'
    BY <1>14 DEF FlushFails, TypeOK, SavesInOrder
  <2>4. ASSUME NEW b \in Barriers PROVE BarrierInOrder(b)'
    BY <1>14 DEF FlushFails, TypeOK, SavesInOrder, BarrierInOrder
  <2>5. BarrierDurable'
    BY <1>14 DEF FlushFails, TypeOK, BarrierDurable
  <2> QED BY <2>1, <2>2, <2>3, <2>4, <2>5
<1>15. CASE ApplyFlush
  <2> DEFINE result == IF flush_phase = "succeeded" THEN "ok" ELSE "error"
             resolved == [b \in Barriers |->
                            IF barriers[b].state = "flushing"
                            THEN InState(barriers[b], result) ELSE barriers[b]]
  <2>a. resolved \in [Barriers -> Barrier]
    BY DEF TypeOK
  <2>b. SettleBarriers(resolved, persisted_generation, flushes_in_flight - 1, FALSE, "none")
    BY <1>15 DEF ApplyFlush
  <2>c. ASSUME NEW b \in Barriers
        PROVE  /\ resolved[b].state = "pending" => resolved[b] = barriers[b]
               /\ resolved[b].state # "flushing"
               /\ resolved[b].state = "ok" =>
                     /\ resolved[b].revision <= stored
                     /\ resolved[b].kind = "Flush" => resolved[b].revision <= flushed
    BY <1>15 DEF ApplyFlush, TypeOK, SavesInOrder, BarrierInOrder, BarrierDurable
  <2> HIDE DEF resolved
  <2>d. flushes_in_flight = 1
    BY <1>15 DEF ApplyFlush, TypeOK, SlotTracksWork
  <2>e. /\ barriers' \in [Barriers -> Barrier]
        /\ flush_slot' \in BOOLEAN
        /\ flush_phase' \in FlushPhase
        /\ flushes_in_flight' \in 0..1
        /\ flush_slot' <=> flushes_in_flight' = 1
        /\ flush_slot' <=> flush_phase' # "none"
        /\ flush_phase' \in {"none", "flushing"}
        /\ Settled(resolved, persisted_generation)
    <3>1. persisted_generation \in Nat /\ flushes_in_flight - 1 \in 0..1
      BY <2>d DEF TypeOK
    <3>2. FALSE <=> flushes_in_flight - 1 = 1
      BY <2>d
    <3>3. FALSE \in BOOLEAN /\ "none" \in FlushPhase
      BY Zenon
    <3> QED BY <2>a, <2>b, <3>1, <3>2, <3>3, SettleFacts
  <2>1. TypeOK'
    BY <1>15, <2>e DEF ApplyFlush, TypeOK
  <2>2. SlotTracksWork'
    BY <1>15, <2>e DEF ApplyFlush, TypeOK, SlotTracksWork
  <2>3. SavesInOrder'
    BY <1>15 DEF ApplyFlush, TypeOK, SavesInOrder
  <2>4. ASSUME NEW b \in Barriers PROVE BarrierInOrder(b)'
    BY <1>15, <2>a, <2>c, <2>e DEF ApplyFlush, TypeOK, BarrierInOrder, Settled
  <2>5. BarrierDurable'
    BY <1>15, <2>a, <2>c, <2>e DEF ApplyFlush, TypeOK, BarrierInOrder, BarrierDurable, Settled
  <2> QED BY <2>1, <2>2, <2>3, <2>4, <2>5
<1>16. CASE HostDeactivate
  <2>1. TypeOK'
    BY <1>16 DEF HostDeactivate, TypeOK
  <2>2. SlotTracksWork'
    BY <1>16 DEF HostDeactivate, TypeOK, SlotTracksWork
  <2>3. SavesInOrder'
    BY <1>16 DEF HostDeactivate, TypeOK, SavesInOrder
  <2>4. ASSUME NEW b \in Barriers PROVE BarrierInOrder(b)'
    BY <1>16 DEF HostDeactivate, TypeOK, SavesInOrder, BarrierInOrder
  <2>5. BarrierDurable'
    BY <1>16 DEF HostDeactivate, TypeOK, BarrierDurable
  <2> QED BY <2>1, <2>2, <2>3, <2>4, <2>5
<1>17. CASE UNCHANGED vars
  BY <1>17 DEF vars, TypeOK, SlotTracksWork, SavesInOrder, BarrierInOrder, BarrierDurable
<1> QED
  BY <1>1, <1>2, <1>3, <1>4, <1>5, <1>6, <1>7, <1>8, <1>9, <1>10, <1>11, <1>12, <1>13, <1>14, <1>15, <1>16, <1>17 DEF Next

-----------------------------------------------------------------------------

(* Types, for every instance: in particular at most one backend flush runs *)
(* at a time.                                                              *)
THEOREM TypeCorrect == Spec => []TypeOK
<1>1. Init => IndInv BY InitInv
<1>2. IndInv /\ [Next]_vars => IndInv' BY StepInv
<1>3. IndInv => TypeOK BY DEF IndInv
<1> QED BY <1>1, <1>2, <1>3, PTL DEF Spec

(* The slot of the coordinator, the flag of the pipeline and the work      *)
(* under way agree, host deactivation and failures included.               *)
THEOREM SlotsAgree == Spec => []SlotTracksWork
<1>1. Init => IndInv BY InitInv
<1>2. IndInv /\ [Next]_vars => IndInv' BY StepInv
<1>3. IndInv => SlotTracksWork BY DEF IndInv
<1> QED BY <1>1, <1>2, <1>3, PTL DEF Spec

(* save() and flush() report success only for a durable revision. *)
THEOREM BarriersDurable == Spec => []BarrierDurable
<1>1. Init => IndInv BY InitInv
<1>2. IndInv /\ [Next]_vars => IndInv' BY StepInv
<1>3. IndInv => BarrierDurable BY DEF IndInv
<1> QED BY <1>1, <1>2, <1>3, PTL DEF Spec

(* The close guard and the status bar say "saved" only when storage holds  *)
(* the document as it is in memory.                                        *)
THEOREM CleanIsDurable == Spec => []ReportedCleanIsDurable
<1>1. Init => IndInv BY InitInv
<1>2. IndInv /\ [Next]_vars => IndInv' BY StepInv
<1>3. IndInv => ReportedCleanIsDurable
  BY DEF IndInv, TypeOK, GenerationsTrackContent, SavesInOrder, ReportedCleanIsDurable,
         CanCloseSafely
<1> QED BY <1>1, <1>2, <1>3, PTL DEF Spec

(* Generations and revisions keep pace through every interleaving: what    *)
(* the pipeline concludes from its counters is true of the storage.        *)
THEOREM GenerationsTracked == Spec => []GenerationsTrackContent
<1>1. Init => IndInv BY InitInv
<1>2. IndInv /\ [Next]_vars => IndInv' BY StepInv
<1>3. IndInv => GenerationsTrackContent BY DEF IndInv
<1> QED BY <1>1, <1>2, <1>3, PTL DEF Spec

-----------------------------------------------------------------------------
(* Autosave.  apply_remote_transaction marks the document dirty without    *)
(* arming a timer, so these facts assume that none arrives.                *)

ArmedInv == DebounceHasTimer /\ AutosaveArmed

LEMMA FlushArms ==
    ASSUME IndInv, DebounceHasTimer, NEW bs \in [Barriers -> Barrier],
           FlushStoragePersistence(bs), NEW fired \in 0..1, fired <= timers,
           timers' = timers - fired,
           UNCHANGED <<readonly, dirty_generation, persisted_generation>>
    PROVE  ArmedInv'
<1>1. /\ debounce_scheduled' => debounce_scheduled /\ saving
      /\ ~readonly /\ HasUnpersistedChanges => saving'
  BY FlushFacts DEF IndInv
<1> QED BY <1>1 DEF ArmedInv, DebounceHasTimer, AutosaveArmed, HasUnpersistedChanges

LEMMA ArmedStep ==
    ASSUME RemoteEdits = FALSE, IndInv, ArmedInv, [Next]_vars PROVE ArmedInv'
<1> USE DEF IndInv, GenerationsTrackContent
<1>a. /\ timers \in Nat /\ debounce_scheduled \in BOOLEAN /\ saving \in BOOLEAN
      /\ barriers \in [Barriers -> Barrier]
  BY DEF TypeOK
<1>b. HasUnpersistedChanges => dirty
  BY DEF TypeOK, SavesInOrder, HasUnpersistedChanges
<1>1. ASSUME NEW r \in 1..MaxRevision, Edit(r) PROVE ArmedInv'
  <2>1. /\ timers' \in Nat /\ timers' >= timers
        /\ debounce_scheduled' => debounce_scheduled \/ (timers' > 0 /\ ~saving)
        /\ AutosaveEnabled => saving \/ debounce_scheduled \/ timers' > 0
    BY <1>1, <1>a, ScheduleFacts DEF Edit
  <2> QED BY <1>1, <1>a, <2>1 DEF Edit, ArmedInv, DebounceHasTimer, AutosaveArmed
<1>2. ASSUME NEW r \in 1..MaxRevision, RemoteEdit(r) PROVE ArmedInv'
  BY <1>2 DEF RemoteEdit
<1>3. CASE TimerFires
  BY <1>3, <1>a, FlushArms DEF TimerFires, ArmedInv
<1>4. CASE RetrySave
  BY <1>4, <1>a, FlushArms DEF RetrySave, ArmedInv
<1>5. ASSUME NEW c \in Barriers, NEW kind \in BarrierKind, RequestBarrier(c, kind)
      PROVE  ArmedInv'
  <2> DEFINE bs == [barriers EXCEPT ![c] = [state |-> "pending", kind |-> kind,
                                            target |-> dirty_generation, revision |-> revision]]
  <2>1. bs \in [Barriers -> Barrier]
    BY <1>a DEF TypeOK
  <2>2. FlushStoragePersistence(bs)
    BY <1>5 DEF RequestBarrier
  <2> HIDE DEF bs
  <2> QED BY <1>5, <1>a, <2>1, <2>2, FlushArms DEF RequestBarrier, ArmedInv
<1>6. CASE SetReadonly
  <2>1. CASE ~readonly' /\ dirty
    <3>1. /\ timers' \in Nat /\ timers' >= timers
          /\ debounce_scheduled' => debounce_scheduled \/ (timers' > 0 /\ ~saving)
          /\ AutosaveEnabled => saving \/ debounce_scheduled \/ timers' > 0
      BY <1>6, <1>a, <2>1, ScheduleFacts DEF SetReadonly
    <3> QED BY <1>6, <1>a, <3>1 DEF SetReadonly, ArmedInv, DebounceHasTimer, AutosaveArmed
  <2>2. CASE ~(~readonly' /\ dirty)
    BY <1>6, <1>b, <2>2 DEF SetReadonly, ArmedInv, DebounceHasTimer, AutosaveArmed,
                            HasUnpersistedChanges
  <2> QED BY <2>1, <2>2
<1>7. CASE SaveCommits \/ SaveReturns \/ SaveFails
  BY <1>7 DEF SaveCommits, SaveReturns, SaveFails, ArmedInv, DebounceHasTimer, AutosaveArmed,
              HasUnpersistedChanges
<1>8. CASE ApplySaveSuccess
  <2> DEFINE persisted == IF request.generation > persisted_generation
                          THEN request.generation ELSE persisted_generation
  <2>0. /\ saving' = FALSE /\ persisted_generation' = persisted
        /\ UNCHANGED <<readonly, dirty_generation>>
        /\ ~debounce_scheduled
    BY <1>8 DEF ApplySaveSuccess, ArmedInv, DebounceHasTimer, SlotTracksWork
  <2>1. CASE dirty_generation > persisted
    <3>1. ScheduleAutosave(FALSE) /\ FALSE \in BOOLEAN
      BY <1>8, <2>1 DEF ApplySaveSuccess, UnpersistedAfter
    <3>2. /\ debounce_scheduled' => timers' > 0
          /\ AutosaveEnabled => timers' > 0
      BY <1>a, <2>0, <3>1, ScheduleFacts
    <3> QED BY <2>0, <3>2 DEF ArmedInv, DebounceHasTimer, AutosaveArmed
  <2>2. CASE ~(dirty_generation > persisted)
    <3>1. UNCHANGED <<debounce_scheduled, timers>>
      BY <1>8, <2>2 DEF ApplySaveSuccess, UnpersistedAfter
    <3> QED BY <2>0, <2>2, <3>1 DEF ArmedInv, DebounceHasTimer, AutosaveArmed,
                                    HasUnpersistedChanges
  <2> QED BY <2>1, <2>2
<1>9. CASE ApplySaveFailure
  <2>0. ~debounce_scheduled /\ saving' = FALSE /\ save_status' = "FailedLocal"
    BY <1>9 DEF ApplySaveFailure, SavingAfterFailure, ArmedInv, DebounceHasTimer, SlotTracksWork
  <2>1. CASE dirty_generation > request.generation
    <3>1. ScheduleAutosave(FALSE) /\ FALSE \in BOOLEAN
      BY <1>9, <2>1 DEF ApplySaveFailure, SavingAfterFailure
    <3>2. debounce_scheduled' => timers' > 0
      BY <1>a, <2>0, <3>1, ScheduleFacts
    <3> QED BY <2>0, <3>2 DEF ArmedInv, DebounceHasTimer, AutosaveArmed
  <2>2. CASE ~(dirty_generation > request.generation)
    BY <1>9, <2>0, <2>2 DEF ApplySaveFailure, ArmedInv, DebounceHasTimer, AutosaveArmed
  <2> QED BY <2>1, <2>2
<1>10. CASE FlushCompletes \/ FlushReturns \/ FlushFails
  BY <1>10 DEF FlushCompletes, FlushReturns, FlushFails, ArmedInv, DebounceHasTimer,
               AutosaveArmed, HasUnpersistedChanges
<1>11. CASE ApplyFlush
  BY <1>11, <1>b DEF ApplyFlush, ArmedInv, DebounceHasTimer, AutosaveArmed,
                     HasUnpersistedChanges
<1>12. CASE HostDeactivate
  BY <1>12 DEF HostDeactivate, ArmedInv, DebounceHasTimer, AutosaveArmed, HasUnpersistedChanges
<1>13. CASE UNCHANGED vars
  BY <1>13 DEF vars, ArmedInv, DebounceHasTimer, AutosaveArmed, HasUnpersistedChanges
<1> QED
  BY <1>1, <1>2, <1>3, <1>4, <1>5, <1>6, <1>7, <1>8, <1>9, <1>10, <1>11, <1>12, <1>13 DEF Next

(* Without remote transactions, unsaved work on a writable document always *)
(* has a save running or a timer outstanding, unless a failure is shown.   *)
THEOREM AutosaveNeverForgotten ==
    ASSUME RemoteEdits = FALSE PROVE Spec => []AutosaveArmed
<1>1. Init => IndInv /\ ArmedInv
  BY InitInv DEF Init, ArmedInv, DebounceHasTimer, AutosaveArmed, HasUnpersistedChanges
<1>2. IndInv /\ ArmedInv /\ [Next]_vars => (IndInv /\ ArmedInv)'
  BY StepInv, ArmedStep
<1>3. ArmedInv => AutosaveArmed
  BY DEF ArmedInv
<1> QED BY <1>1, <1>2, <1>3, PTL DEF Spec

(* A reserved debounce has its timer, so request_autosave_timer never      *)
(* refuses a timer for good.                                               *)
THEOREM DebounceTimed ==
    ASSUME RemoteEdits = FALSE PROVE Spec => []DebounceHasTimer
<1>1. Init => IndInv /\ ArmedInv
  BY InitInv DEF Init, ArmedInv, DebounceHasTimer, AutosaveArmed, HasUnpersistedChanges
<1>2. IndInv /\ ArmedInv /\ [Next]_vars => (IndInv /\ ArmedInv)'
  BY StepInv, ArmedStep
<1>3. ArmedInv => DebounceHasTimer
  BY DEF ArmedInv
<1> QED BY <1>1, <1>2, <1>3, PTL DEF Spec

-----------------------------------------------------------------------------
(* The pipeline implements the contract.                                   *)

(* How the barriers may move while document, storage and flushed stand. *)
BarrierStep(b) ==
    \/ barriers'[b] = barriers[b]
    \/ /\ barriers[b].state \in {"idle", "pending", "flushing"}
       /\ barriers'[b].state # "idle"
       /\ barriers[b].state = "idle" => barriers'[b].revision = revision
       /\ barriers[b].state # "idle" => /\ barriers'[b].kind = barriers[b].kind
                                        /\ barriers'[b].revision = barriers[b].revision

LEMMA BarrierStepsAnswer ==
    ASSUME IndInv, IndInv', UNCHANGED <<revision, stored, flushed>>,
           \A b \in Barriers : BarrierStep(b)
    PROVE  Contract!Answer
<1> DEFINE promise == [b \in Barriers |-> PromiseOf(barriers[b])]
<1>1. ASSUME NEW b \in Barriers
      PROVE  \/ PromiseOf(barriers[b])' = PromiseOf(barriers[b])
             \/ /\ \/ /\ PromiseOf(barriers[b]).state = "none"
                      /\ PromiseOf(barriers[b])'.revision = revision
                   \/ /\ PromiseOf(barriers[b]).state = "open"
                      /\ PromiseOf(barriers[b])'.kind = PromiseOf(barriers[b]).kind
                      /\ PromiseOf(barriers[b])'.revision = PromiseOf(barriers[b]).revision
                /\ PromiseOf(barriers[b])'.state \in {"open", "kept", "broken"}
                /\ PromiseOf(barriers[b])'.state = "kept" =>
                      /\ PromiseOf(barriers[b])'.revision <= stored
                      /\ PromiseOf(barriers[b])'.kind = "Flush" =>
                            PromiseOf(barriers[b])'.revision <= flushed
  <2>1. barriers[b] \in Barrier /\ barriers'[b] \in Barrier
    BY DEF IndInv, TypeOK
  <2>2. barriers'[b].state = "ok" =>
           /\ barriers'[b].revision <= stored
           /\ barriers'[b].kind = "Flush" => barriers'[b].revision <= flushed
    BY DEF IndInv, BarrierDurable
  <2> QED BY <2>1, <2>2 DEF BarrierStep, PromiseOf
<1> QED BY <1>1 DEF Contract!Answer, Contract!Asked, Contract!StillOpen, Contract!MayKeep

LEMMA SettledIsBarrierStep ==
    ASSUME NEW bs \in [Barriers -> Barrier], NEW persisted \in Nat, Settled(bs, persisted),
           barriers' \in [Barriers -> Barrier],
           \A b \in Barriers :
              \/ bs[b] = barriers[b]
              \/ /\ barriers[b].state = "idle"
                 /\ bs[b].state = "pending"
                 /\ bs[b].revision = revision
    PROVE  \A b \in Barriers : BarrierStep(b)
<1> TAKE b \in Barriers
<1>1. bs[b] \in Barrier /\ barriers'[b] \in Barrier
  OBVIOUS
<1>2. \/ barriers'[b] = bs[b]
      \/ /\ bs[b].state = "pending"
         /\ barriers'[b].state \in {"ok", "flushing"}
         /\ barriers'[b].kind = bs[b].kind
         /\ barriers'[b].revision = bs[b].revision
  BY <1>1 DEF Settled
<1>3. CASE bs[b] = barriers[b]
  BY <1>2, <1>3 DEF BarrierStep
<1>4. CASE barriers[b].state = "idle" /\ bs[b].state = "pending" /\ bs[b].revision = revision
  BY <1>2, <1>4 DEF BarrierStep
<1> QED BY <1>3, <1>4

LEMMA StepImplements ==
    ASSUME IndInv, [Next]_vars PROVE [Contract!Next]_(Contract!vars)
<1>a. IndInv'
  BY StepInv
<1>b. /\ barriers \in [Barriers -> Barrier] /\ barriers' \in [Barriers -> Barrier]
      /\ persisted_generation \in Nat
  BY <1>a DEF IndInv, TypeOK
<1> USE DEF Contract!Next, Contract!vars
<1>1. ASSUME NEW r \in 1..MaxRevision, Edit(r) \/ RemoteEdit(r) PROVE Contract!Change
  BY <1>1 DEF Edit, RemoteEdit, Contract!Change
<1>2. CASE TimerFires \/ RetrySave
  <2>1. FlushStoragePersistence(barriers) /\ UNCHANGED <<revision, stored, flushed>>
    BY <1>2 DEF TimerFires, RetrySave
  <2>2. Settled(barriers, persisted_generation)
    BY <1>b, <2>1, FlushFacts DEF IndInv
  <2>3. \A b \in Barriers : BarrierStep(b)
    BY <1>b, <2>2, SettledIsBarrierStep
  <2> QED BY <1>a, <2>1, <2>3, BarrierStepsAnswer
<1>3. ASSUME NEW c \in Barriers, NEW kind \in BarrierKind, RequestBarrier(c, kind)
      PROVE  Contract!Answer
  <2> DEFINE bs == [barriers EXCEPT ![c] = [state |-> "pending", kind |-> kind,
                                            target |-> dirty_generation, revision |-> revision]]
  <2>1. bs \in [Barriers -> Barrier]
    BY <1>b DEF IndInv, TypeOK
  <2>2. FlushStoragePersistence(bs) /\ UNCHANGED <<revision, stored, flushed>>
    BY <1>3 DEF RequestBarrier
  <2>3. \A b \in Barriers :
            \/ bs[b] = barriers[b]
            \/ /\ barriers[b].state = "idle"
               /\ bs[b].state = "pending"
               /\ bs[b].revision = revision
    BY <1>3, <1>b DEF RequestBarrier
  <2> HIDE DEF bs
  <2>4. Settled(bs, persisted_generation)
    BY <2>1, <2>2, FlushFacts DEF IndInv
  <2>5. \A b \in Barriers : BarrierStep(b)
    BY <1>b, <2>1, <2>3, <2>4, SettledIsBarrierStep
  <2> QED BY <1>a, <2>2, <2>5, BarrierStepsAnswer
<1>4. CASE SetReadonly \/ SaveReturns \/ SaveFails \/ FlushReturns \/ FlushFails
  BY <1>4 DEF SetReadonly, SaveReturns, SaveFails, FlushReturns, FlushFails
<1>5. CASE SaveCommits
  <2>1. /\ request.revision \in stored..revision
        /\ stored' = request.revision
        /\ UNCHANGED <<revision, flushed, barriers>>
    BY <1>5 DEF SaveCommits, IndInv, TypeOK, GenerationsTrackContent, SavesInOrder
  <2> QED BY <2>1 DEF Contract!Persist
<1>6. CASE ApplySaveSuccess
  <2> DEFINE persisted == IF request.generation > persisted_generation
                          THEN request.generation ELSE persisted_generation
  <2>1. /\ SettleBarriers(barriers, persisted, flushes_in_flight, flush_slot, flush_phase)
        /\ UNCHANGED <<revision, stored, flushed>>
    BY <1>6 DEF ApplySaveSuccess
  <2>2. /\ persisted \in Nat
        /\ flushes_in_flight \in 0..1 /\ flush_slot \in BOOLEAN /\ flush_phase \in FlushPhase
        /\ flush_slot <=> flushes_in_flight = 1
        /\ flush_slot <=> flush_phase # "none"
    BY DEF IndInv, TypeOK, SlotTracksWork
  <2> HIDE DEF persisted
  <2>3. Settled(barriers, persisted)
    BY <1>b, <2>1, <2>2, SettleFacts
  <2>4. \A b \in Barriers : BarrierStep(b)
    BY <1>b, <2>2, <2>3, SettledIsBarrierStep
  <2> QED BY <1>a, <2>1, <2>4, BarrierStepsAnswer
<1>7. CASE ApplySaveFailure
  <2>1. \A b \in Barriers : BarrierStep(b)
    BY <1>7, <1>b DEF ApplySaveFailure, FailBarriers, BarrierStep
  <2> QED BY <1>7, <1>a, <2>1, BarrierStepsAnswer DEF ApplySaveFailure
<1>8. CASE FlushCompletes
  BY <1>8 DEF FlushCompletes, Contract!Flush
<1>9. CASE ApplyFlush
  <2> DEFINE result == IF flush_phase = "succeeded" THEN "ok" ELSE "error"
             resolved == [b \in Barriers |->
                            IF barriers[b].state = "flushing"
                            THEN InState(barriers[b], result) ELSE barriers[b]]
  <2>1. resolved \in [Barriers -> Barrier]
    BY <1>b
  <2>2. /\ SettleBarriers(resolved, persisted_generation, flushes_in_flight - 1, FALSE, "none")
        /\ UNCHANGED <<revision, stored, flushed>>
    BY <1>9 DEF ApplyFlush
  <2>3. flushes_in_flight = 1 /\ persisted_generation \in Nat
    BY <1>9 DEF ApplyFlush, IndInv, TypeOK, SlotTracksWork
  <2>4. /\ flushes_in_flight - 1 \in 0..1
        /\ FALSE <=> flushes_in_flight - 1 = 1
    BY <2>3
  <2>5. FALSE \in BOOLEAN /\ "none" \in FlushPhase
    BY Zenon
  <2>6. ASSUME NEW b \in Barriers
        PROVE  \/ resolved[b] = barriers[b]
               \/ /\ barriers[b].state = "flushing"
                  /\ resolved[b].state \in {"ok", "error"}
                  /\ resolved[b].kind = barriers[b].kind
                  /\ resolved[b].revision = barriers[b].revision
    BY <1>b
  <2> HIDE DEF resolved
  <2>7. Settled(resolved, persisted_generation)
    BY <2>1, <2>2, <2>3, <2>4, <2>5, SettleFacts
  <2>8. \A b \in Barriers : BarrierStep(b)
    <3> TAKE b \in Barriers
    <3>1. \/ barriers'[b] = resolved[b]
          \/ /\ resolved[b].state = "pending"
             /\ barriers'[b].state \in {"ok", "flushing"}
             /\ barriers'[b].kind = resolved[b].kind
             /\ barriers'[b].revision = resolved[b].revision
      <4>1. \/ barriers'[b] = resolved[b]
            \/ /\ resolved[b].state = "pending"
               /\ \/ barriers'[b] = InState(resolved[b], "ok")
                  \/ barriers'[b] = InState(resolved[b], "flushing")
        BY <2>7 DEF Settled
      <4> QED BY <4>1
    <3> QED BY <2>6, <3>1 DEF BarrierStep
  <2> QED BY <1>a, <2>2, <2>8, BarrierStepsAnswer
<1>10. CASE HostDeactivate
  <2>1. \A b \in Barriers : BarrierStep(b)
    BY <1>10, <1>b DEF HostDeactivate, BarrierStep
  <2> QED BY <1>10, <1>a, <2>1, BarrierStepsAnswer DEF HostDeactivate
<1>11. CASE UNCHANGED vars
  BY <1>11 DEF vars
<1> QED
  BY <1>1, <1>2, <1>3, <1>4, <1>5, <1>6, <1>7, <1>8, <1>9, <1>10, <1>11 DEF Next

(* Every behaviour of the pipeline and its view is one the contract with   *)
(* the host allows.                                                        *)
THEOREM PipelineImplementsContract == Spec => ImplementsContract
<1>1. Init => Contract!Init
  BY DEF Init, Contract!Init, PromiseOf
<1>2. Init => IndInv BY InitInv
<1>3. IndInv /\ [Next]_vars => IndInv' BY StepInv
<1>4. IndInv /\ [Next]_vars => [Contract!Next]_(Contract!vars) BY StepImplements
<1> QED BY <1>1, <1>2, <1>3, <1>4, PTL DEF Spec, ImplementsContract, Contract!Spec
=============================================================================
