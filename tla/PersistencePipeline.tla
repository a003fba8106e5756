------------------------- MODULE PersistencePipeline -------------------------
(***************************************************************************)
(* Saving one open document: the session's PersistencePipeline, the part   *)
(* of the editor view that drives it (persistence_bridge, storage_saver,   *)
(* the SDK's save/flush barriers, read-only switch and close guard), the   *)
(* background save and flush, and the queue that brings their results back *)
(* to the main thread.                                                     *)
(*                                                                         *)
(* The content of the document is its revision: a number that every edit   *)
(* increments.  A save captures the whole loaded content, so what storage  *)
(* holds is a revision too.  The journal of transactions inside a save and *)
(* the emergency log are the subject of module EmergencyJournal.           *)
(*                                                                         *)
(* Main-thread handlers are atomic (the view is a GPUI entity and the      *)
(* session a RefCell on one thread).  What happens between them - the      *)
(* background I/O, timers, the host - interleaves freely.                  *)
(***************************************************************************)
EXTENDS Naturals

CONSTANTS
    Barriers,          \* save()/flush() calls the host may make, one id each
    MaxRevision,       \* bound: edits in all
    MaxFailures,       \* bound: storage errors and timeouts in all
    AutosaveEnabled,   \* autosave_interval is Some (.without_autosave(): FALSE)
    RemoteEdits,       \* collaborators' transactions arrive
    ReadonlySwitches,  \* the host toggles sdk_set_readonly
    HostDeactivates    \* the host calls sdk_set_host_active(false)

ASSUME PipelineAssumption ==
    /\ MaxRevision \in Nat
    /\ MaxFailures \in Nat
    /\ AutosaveEnabled \in BOOLEAN /\ RemoteEdits \in BOOLEAN
    /\ ReadonlySwitches \in BOOLEAN /\ HostDeactivates \in BOOLEAN

VARIABLES
    \* EditorStatusUiState of the view
    readonly, dirty, save_status,
    \* DocumentRuntime
    revision,
    \* PersistencePipeline
    debounce_scheduled, saving, flushes_in_flight,
    dirty_generation, persisted_generation, barriers,
    \* SessionTaskCoordinator: is the PersistenceSave / StorageFlush slot taken
    save_slot, flush_slot,
    \* the background save and its request, the background flush, and where
    \* they are: at the storage, reported to the main-thread queue, or lost
    save_phase, request, flush_phase,
    \* autosave timers the executor has not fired yet
    timers,
    \* external: the revision storage holds, and the one its last flush covered
    stored, flushed,
    failures

viewVars == <<readonly, dirty, save_status>>
pipelineVars == <<debounce_scheduled, saving, flushes_in_flight,
                  dirty_generation, persisted_generation>>
saveVars == <<save_slot, save_phase, request>>
flushVars == <<flush_slot, flush_phase>>
storageVars == <<stored, flushed>>
vars == <<viewVars, revision, pipelineVars, barriers, saveVars, flushVars,
          timers, storageVars, failures>>

BarrierKind == {"Save", "Flush"}
BarrierState == {"idle", "pending", "flushing", "ok", "error", "dropped"}
SaveStatus == {"LocallySaved", "DirtyMemory", "SavingLocal", "FailedLocal", "Readonly"}
SavePhase == {"none", "writing", "landed", "succeeded", "failed", "lost"}
FlushPhase == {"none", "flushing", "pruning", "succeeded", "failed", "lost"}

Barrier == [state : BarrierState, kind : BarrierKind, target : Nat, revision : Nat]
StorageSaveRequest == [generation : Nat, revision : Nat]

Answered == {"ok", "error", "dropped"}

Init ==
    /\ readonly = FALSE
    /\ dirty = FALSE
    /\ save_status = "LocallySaved"
    /\ revision = 0
    /\ debounce_scheduled = FALSE
    /\ saving = FALSE
    /\ flushes_in_flight = 0
    /\ dirty_generation = 0
    /\ persisted_generation = 0
    /\ barriers = [b \in Barriers |->
                     [state |-> "idle", kind |-> "Save", target |-> 0, revision |-> 0]]
    /\ save_slot = FALSE
    /\ flush_slot = FALSE
    /\ save_phase = "none"
    /\ request = [generation |-> 0, revision |-> 0]
    /\ flush_phase = "none"
    /\ timers = 0
    /\ stored = 0
    /\ flushed = 0
    /\ failures = 0

-----------------------------------------------------------------------------
(* Pipeline policy shared by several handlers.                             *)

(* Mutant: refuses by the saving flag the handler has already cleared. *)
ScheduleAutosaveStale(isSaving) ==
    IF saving \/ debounce_scheduled \/ ~AutosaveEnabled
    THEN UNCHANGED <<debounce_scheduled, timers>>
    ELSE /\ debounce_scheduled' = TRUE
         /\ timers' = timers + 1

(* Mutant: marks the debounce as reserved before the checks that refuse it. *)
ScheduleAutosaveUnarmed(isSaving) ==
    /\ debounce_scheduled' = TRUE
    /\ timers' = IF isSaving \/ debounce_scheduled \/ ~AutosaveEnabled THEN timers ELSE timers + 1

(* request_autosave_timer and schedule_storage_autosave: at most one timer *)
(* is reserved, none while a save runs.  isSaving is the value of saving   *)
(* when the handler gets here.                                             *)
ScheduleAutosave(isSaving) ==
    IF isSaving \/ debounce_scheduled \/ ~AutosaveEnabled
    THEN UNCHANGED <<debounce_scheduled, timers>>
    ELSE /\ debounce_scheduled' = TRUE
         /\ timers' = timers + 1

(* Mutant: compares with the generation of the capture's edits plus one. *)
ReadyOffByOne(barrier, persisted, flushes) ==
    /\ barrier.state = "pending"
    /\ barrier.target <= persisted + 1
    /\ barrier.kind = "Flush" => flushes = 0

(* drain_ready_barriers keeps a barrier pending unless this holds. *)
Ready(barrier, persisted, flushes) ==
    /\ barrier.state = "pending"
    /\ barrier.target <= persisted
    /\ barrier.kind = "Flush" => flushes = 0

(* Mutant: the report names the revision of the last capture. *)
InStateOfCapture(barrier, state) ==
    [state |-> state, kind |-> barrier.kind,
     target |-> barrier.target, revision |-> request.revision]

(* The same call, answered or passed on. *)
InState(barrier, state) ==
    [state |-> state, kind |-> barrier.kind,
     target |-> barrier.target, revision |-> barrier.revision]

(* settle_storage_barriers: ready save barriers are answered; ready flush  *)
(* barriers take the StorageFlush slot and start one backend flush, or are *)
(* cancelled when the slot is taken.  The arguments are the values at this *)
(* point of the calling handler.                                           *)
SettleBarriers(bs, persisted, flushes, slot, phase) ==
    LET ready == {b \in Barriers : Ready(bs[b], persisted, flushes)}
        flush == {b \in ready : bs[b].kind = "Flush"}
        starts == flush # {} /\ ~slot
    IN  /\ barriers' = [b \in Barriers |->
             IF b \notin ready THEN bs[b]
             ELSE InState(bs[b], IF b \notin flush THEN "ok"
                                 ELSE IF starts THEN "flushing" ELSE "error")]
        /\ flush_slot' = (slot \/ starts)
        /\ flushes_in_flight' = IF starts THEN flushes + 1 ELSE flushes
        /\ flush_phase' = IF starts THEN "flushing" ELSE phase

(* mark_dirty; saturation at 2^64 - 1 is out of reach. *)
MarkDirty == dirty_generation + 1

HasUnpersistedChanges == dirty_generation > persisted_generation

(* Mutant: the batch is stamped with the generation the next edit will get. *)
BeginBatchLate == [generation |-> dirty_generation + 1, revision |-> revision]

(* begin_batch: what the capture takes with it. *)
BeginBatch == [generation |-> dirty_generation, revision |-> revision]

(* flush_storage_persistence, with the barriers as the caller left them:   *)
(* refused when read-only or when a save holds the slot; settles barriers  *)
(* when there is nothing to save; otherwise captures a batch and hands it  *)
(* to the background executor.                                             *)
FlushStoragePersistence(bs) ==
    \/ /\ readonly
       /\ debounce_scheduled' = FALSE
       /\ barriers' = bs
       /\ UNCHANGED <<saving, flushes_in_flight, saveVars, flushVars, save_status>>
    \/ /\ ~readonly
       /\ save_slot
       /\ barriers' = bs
       /\ UNCHANGED <<debounce_scheduled, saving, flushes_in_flight, saveVars,
                      flushVars, save_status>>
    \/ /\ ~readonly
       /\ ~save_slot
       /\ saving \/ ~HasUnpersistedChanges
       /\ debounce_scheduled' = (saving /\ debounce_scheduled)
       /\ SettleBarriers(bs, persisted_generation, flushes_in_flight, flush_slot, flush_phase)
       /\ UNCHANGED <<saving, saveVars, save_status>>
    \/ /\ ~readonly
       /\ ~save_slot
       /\ ~saving
       /\ HasUnpersistedChanges
       /\ debounce_scheduled' = FALSE
       /\ saving' = TRUE
       /\ save_slot' = TRUE
       /\ save_phase' = "writing"
       /\ request' = BeginBatch
       /\ save_status' = "SavingLocal"
       /\ barriers' = bs
       /\ UNCHANGED <<flushes_in_flight, flushVars>>

-----------------------------------------------------------------------------
(* Handlers on the main thread.                                            *)

(* A command, input event, undo or agent edit that changed the document:   *)
(* mark_dirty_at_revision.  One command may advance the revision by more   *)
(* than one.                                                               *)
Edit(r) ==
    /\ ~readonly
    /\ dirty_generation < MaxRevision
    /\ r > revision
    /\ revision' = r
    /\ dirty' = TRUE
    /\ save_status' = "DirtyMemory"
    /\ dirty_generation' = MarkDirty
    /\ ScheduleAutosave(saving)
    /\ UNCHANGED <<readonly, saving, flushes_in_flight, persisted_generation, barriers,
                   saveVars, flushVars, storageVars, failures>>

(* apply_remote_transaction: accepted in read-only mode too, and marks the *)
(* document dirty without scheduling an autosave.                          *)
RemoteEdit(r) ==
    /\ RemoteEdits
    /\ dirty_generation < MaxRevision
    /\ r > revision
    /\ revision' = r
    /\ dirty' = TRUE
    /\ save_status' = "DirtyMemory"
    /\ dirty_generation' = MarkDirty
    /\ UNCHANGED <<readonly, debounce_scheduled, saving, flushes_in_flight,
                   persisted_generation, barriers, saveVars, flushVars, timers,
                   storageVars, failures>>

(* The debounce timer wakes up: flush_storage_persistence. *)
TimerFires ==
    /\ timers > 0
    /\ timers' = timers - 1
    /\ FlushStoragePersistence(barriers)
    /\ UNCHANGED <<readonly, dirty, revision, dirty_generation, persisted_generation,
                   storageVars, failures>>

(* The user presses the retry button of the failure notice. *)
RetrySave ==
    /\ save_status = "FailedLocal"
    /\ FlushStoragePersistence(barriers)
    /\ UNCHANGED <<readonly, dirty, revision, dirty_generation, persisted_generation,
                   timers, storageVars, failures>>

(* sdk_save and sdk_flush: refused in read-only mode, otherwise a barrier  *)
(* on the current generation, then flush_storage_persistence.              *)
RequestBarrier(b, kind) ==
    /\ ~readonly
    /\ barriers[b].state = "idle"
    /\ FlushStoragePersistence(
           [barriers EXCEPT ![b] = [state |-> "pending", kind |-> kind,
                                    target |-> dirty_generation, revision |-> revision]])
    /\ UNCHANGED <<readonly, dirty, revision, dirty_generation, persisted_generation,
                   timers, storageVars, failures>>

(* sdk_set_readonly, when it changes the effective mode. *)
SetReadonly ==
    /\ ReadonlySwitches
    /\ readonly' = ~readonly
    /\ save_status' = IF readonly' THEN "Readonly"
                      ELSE IF dirty THEN "DirtyMemory" ELSE "LocallySaved"
    /\ IF ~readonly' /\ dirty THEN ScheduleAutosave(saving)
       ELSE UNCHANGED <<debounce_scheduled, timers>>
    /\ UNCHANGED <<dirty, revision, saving, flushes_in_flight, dirty_generation,
                   persisted_generation, barriers, saveVars, flushVars, storageVars,
                   failures>>

-----------------------------------------------------------------------------
(* The background save.  The storage behind it is external: what the model *)
(* knows of it is what save_storage_batch and the timeout make of it.      *)

(* The primary commit takes effect at the storage. *)
SaveCommits ==
    /\ save_phase = "writing"
    /\ save_phase' = "landed"
    /\ stored' = request.revision
    /\ UNCHANGED <<viewVars, revision, pipelineVars, barriers, save_slot, request,
                   flushVars, timers, flushed, failures>>

(* run_storage_save_with_timeout returns and its callback is queued. *)
SaveReturns ==
    /\ save_phase = "landed"
    /\ save_phase' = "succeeded"
    /\ UNCHANGED <<viewVars, revision, pipelineVars, barriers, save_slot, request,
                   flushVars, timers, storageVars, failures>>

(* A storage error, or the timeout, which may also strike after the commit *)
(* took effect.                                                            *)
SaveFails ==
    /\ failures < MaxFailures
    /\ save_phase \in {"writing", "landed"}
    /\ save_phase' = "failed"
    /\ failures' = failures + 1
    /\ UNCHANGED <<viewVars, revision, pipelineVars, barriers, save_slot, request,
                   flushVars, timers, storageVars>>

(* Mutant: a finished save always leaves a clean document. *)
UnpersistedAfterIgnoresEdits(persisted) == FALSE

(* has_unpersisted_changes once finish_success has set the generation. *)
UnpersistedAfter(persisted) == dirty_generation > persisted

(* The success callback: complete_session_task, apply_storage_save_success,*)
(* status, autosave for what came meanwhile, settle_storage_barriers.      *)
ApplySaveSuccess ==
    /\ save_phase = "succeeded"
    /\ save_phase' = "none"
    /\ save_slot' = FALSE
    /\ saving' = FALSE
    /\ LET persisted == IF request.generation > persisted_generation
                        THEN request.generation ELSE persisted_generation
           should_reschedule == UnpersistedAfter(persisted)
       IN  /\ persisted_generation' = persisted
           /\ dirty' = should_reschedule
           /\ save_status' = IF readonly THEN "Readonly"
                             ELSE IF should_reschedule THEN "DirtyMemory"
                             ELSE "LocallySaved"
           /\ IF should_reschedule THEN ScheduleAutosave(FALSE)
              ELSE UNCHANGED <<debounce_scheduled, timers>>
           /\ SettleBarriers(barriers, persisted, flushes_in_flight, flush_slot, flush_phase)
    /\ UNCHANGED <<readonly, revision, dirty_generation, request, storageVars, failures>>

(* Mutant: the barriers wait for the retry. *)
FailBarriersKept == barriers

(* fail_barriers: every barrier the pipeline holds gets the error. *)
FailBarriers ==
    [b \in Barriers |-> IF barriers[b].state = "pending"
                        THEN InState(barriers[b], "error") ELSE barriers[b]]

(* Mutant: finish_failed leaves the pipeline saving. *)
SavingAfterFailureKept == TRUE

(* finish_failed: self.saving = false *)
SavingAfterFailure == FALSE

(* The failure callback: complete_session_task, apply_storage_save_failure,*)
(* status, autosave only for edits newer than the failed capture.          *)
ApplySaveFailure ==
    /\ save_phase = "failed"
    /\ save_phase' = "none"
    /\ save_slot' = FALSE
    /\ saving' = SavingAfterFailure
    /\ barriers' = FailBarriers
    /\ dirty' = TRUE
    /\ save_status' = "FailedLocal"
    /\ IF dirty_generation > request.generation THEN ScheduleAutosave(SavingAfterFailure)
       ELSE UNCHANGED <<debounce_scheduled, timers>>
    /\ UNCHANGED <<readonly, revision, flushes_in_flight, dirty_generation,
                   persisted_generation, request, flushVars, storageVars, failures>>

-----------------------------------------------------------------------------
(* The background flush: execute_storage_flush under its timeout.          *)

FlushCompletes ==
    /\ flush_phase = "flushing"
    /\ flush_phase' = "pruning"
    /\ flushed' = stored
    /\ UNCHANGED <<viewVars, revision, pipelineVars, barriers, saveVars, flush_slot,
                   timers, stored, failures>>

(* prune_undo_blobs(100) is part of the flush; its callback is queued. *)
FlushReturns ==
    /\ flush_phase = "pruning"
    /\ flush_phase' = "succeeded"
    /\ UNCHANGED <<viewVars, revision, pipelineVars, barriers, saveVars, flush_slot,
                   timers, storageVars, failures>>

FlushFails ==
    /\ failures < MaxFailures
    /\ flush_phase \in {"flushing", "pruning"}
    /\ flush_phase' = "failed"
    /\ failures' = failures + 1
    /\ UNCHANGED <<viewVars, revision, pipelineVars, barriers, saveVars, flush_slot,
                   timers, storageVars>>

(* The flush callback: its own barriers are in the closure and get the     *)
(* result; settle_storage_barriers runs for the ones the pipeline holds    *)
(* and may start the next flush.                                           *)
ApplyFlush ==
    /\ flush_phase \in {"succeeded", "failed"}
    /\ save_status' = IF flush_phase = "failed" THEN "FailedLocal"
                      ELSE IF ~dirty /\ ~readonly THEN "LocallySaved" ELSE save_status
    /\ LET result == IF flush_phase = "succeeded" THEN "ok" ELSE "error"
           resolved == [b \in Barriers |->
                          IF barriers[b].state = "flushing"
                          THEN InState(barriers[b], result) ELSE barriers[b]]
       IN  SettleBarriers(resolved, persisted_generation, flushes_in_flight - 1, FALSE, "none")
    /\ UNCHANGED <<readonly, dirty, revision, debounce_scheduled, saving, dirty_generation,
                   persisted_generation, saveVars, timers, storageVars, failures>>

(* sdk_set_host_active(false) clears the main-thread queue.  A queued      *)
(* result is discarded without complete_session_task: the slot, saving and *)
(* flushes_in_flight stay as they are, and the senders inside a discarded  *)
(* flush callback are dropped.                                             *)
HostDeactivate ==
    /\ HostDeactivates
    /\ {save_phase, flush_phase} \cap {"succeeded", "failed"} # {}
    /\ save_phase' = IF save_phase \in {"succeeded", "failed"} THEN "lost" ELSE save_phase
    /\ flush_phase' = IF flush_phase \in {"succeeded", "failed"} THEN "lost" ELSE flush_phase
    /\ barriers' = [b \in Barriers |->
          IF barriers[b].state = "flushing" /\ flush_phase \in {"succeeded", "failed"}
          THEN InState(barriers[b], "dropped") ELSE barriers[b]]
    /\ UNCHANGED <<viewVars, revision, pipelineVars, save_slot, request, flush_slot,
                   timers, storageVars, failures>>

Next ==
    \/ \E r \in 1..MaxRevision : Edit(r) \/ RemoteEdit(r)
    \/ TimerFires
    \/ RetrySave
    \/ \E b \in Barriers, kind \in BarrierKind : RequestBarrier(b, kind)
    \/ SetReadonly
    \/ SaveCommits \/ SaveReturns \/ SaveFails
    \/ ApplySaveSuccess \/ ApplySaveFailure
    \/ FlushCompletes \/ FlushReturns \/ FlushFails
    \/ ApplyFlush
    \/ HostDeactivate

Spec == Init /\ [][Next]_vars

(* Every background operation runs under a timeout, so it ends; the        *)
(* executor fires its timers; the main-thread queue drains.  Nothing is    *)
(* assumed of the user or the host.                                        *)
Fairness ==
    /\ WF_vars(SaveCommits \/ SaveReturns \/ SaveFails)
    /\ WF_vars(FlushCompletes \/ FlushReturns \/ FlushFails)
    /\ WF_vars(ApplySaveSuccess \/ ApplySaveFailure)
    /\ WF_vars(ApplyFlush)
    /\ WF_vars(TimerFires)

FairSpec == Spec /\ Fairness

-----------------------------------------------------------------------------

(* Types.  At most one backend flush is under way (flushes_in_flight), and *)
(* one generation is counted per edit.                                     *)
TypeOK ==
    /\ readonly \in BOOLEAN /\ dirty \in BOOLEAN
    /\ debounce_scheduled \in BOOLEAN /\ saving \in BOOLEAN
    /\ save_slot \in BOOLEAN /\ flush_slot \in BOOLEAN
    /\ save_status \in SaveStatus
    /\ revision \in 0..MaxRevision
    /\ flushes_in_flight \in 0..1
    /\ dirty_generation \in 0..MaxRevision
    /\ persisted_generation \in 0..MaxRevision
    /\ barriers \in [Barriers -> Barrier]
    /\ save_phase \in SavePhase
    /\ request \in StorageSaveRequest
    /\ flush_phase \in FlushPhase
    /\ timers \in Nat
    /\ stored \in 0..MaxRevision
    /\ flushed \in 0..MaxRevision
    /\ failures \in 0..MaxFailures

(* A save() that reported success covers an edit only if storage holds it, *)
(* and a flush() only if a backend flush that started after the commit has *)
(* completed: the revision in SaveReport is durable, whatever edits, older *)
(* saves, failures or other barriers interleaved.                          *)
BarrierDurable ==
    \A b \in Barriers :
        barriers[b].state = "ok" =>
            /\ barriers[b].revision <= stored
            /\ barriers[b].kind = "Flush" => barriers[b].revision <= flushed

(* sdk_close_guard().can_close_safely *)
CanCloseSafely ==
    /\ ~dirty
    /\ ~(saving \/ flushes_in_flight > 0)
    /\ save_status # "FailedLocal"

(* Whenever the close guard lets the host close the document, or the       *)
(* status bar says it is saved, storage holds exactly what is in memory.   *)
ReportedCleanIsDurable ==
    CanCloseSafely \/ save_status = "LocallySaved" => stored = revision

(* The coordinator's slot, the pipeline's own flag and the work under way  *)
(* agree, for saves and for flushes: no second save can start beside one   *)
(* that has not reported, and a ready flush barrier never meets a taken    *)
(* slot (the Cancelled branch of settle_storage_barriers).                 *)
SlotTracksWork ==
    /\ saving <=> save_slot
    /\ save_slot <=> save_phase # "none"
    /\ flush_slot <=> flush_phase # "none"
    /\ flush_slot <=> flushes_in_flight = 1

(* How generations, which the pipeline compares, and revisions, which the  *)
(* host is told, keep pace.  This is the strengthening that makes the two  *)
(* properties above inductive.                                             *)
SaveInFlight == save_phase # "none"

SavesInOrder ==
    /\ persisted_generation <= dirty_generation
    /\ stored <= revision
    /\ flushed <= stored
    /\ persisted_generation = dirty_generation => stored = revision
    /\ ~dirty => persisted_generation = dirty_generation
    /\ save_status = "LocallySaved" => ~dirty
    /\ SaveInFlight =>
          /\ persisted_generation < request.generation
          /\ request.generation <= dirty_generation
          /\ request.generation = dirty_generation => request.revision = revision
          /\ stored <= request.revision
          /\ request.revision <= revision
          /\ save_phase \in {"landed", "succeeded"} => stored = request.revision

BarrierInOrder(b) ==
    LET barrier == barriers[b]
    IN  /\ barrier.state = "pending" =>
              /\ barrier.target <= dirty_generation
              /\ barrier.revision <= revision
              /\ barrier.target <= persisted_generation => barrier.revision <= stored
              /\ SaveInFlight /\ barrier.target <= request.generation
                    => barrier.revision <= request.revision
        /\ barrier.state = "flushing" =>
              /\ barrier.revision <= stored
              /\ flush_phase \in {"pruning", "succeeded"} => barrier.revision <= flushed

(* Whatever interleaves, the storage never gets ahead of a later edit, a   *)
(* clean document is a stored one, and a barrier whose generation has been *)
(* persisted, or is being saved, asked for a revision the storage has, or  *)
(* is about to have.                                                       *)
GenerationsTrackContent == SavesInOrder /\ \A b \in Barriers : BarrierInOrder(b)

(* A reserved debounce has a timer that will clear it, and none is held    *)
(* while a save runs: otherwise autosave would be off for good.            *)
DebounceHasTimer == debounce_scheduled => timers > 0 /\ ~saving

(* Unsaved work on a writable document with autosave is never forgotten: a *)
(* save is running, or a timer is outstanding, or the failure is shown.    *)
AutosaveArmed ==
    AutosaveEnabled /\ HasUnpersistedChanges /\ ~readonly /\ save_status # "FailedLocal"
        => saving \/ timers > 0

(* A save or flush the host awaits is answered, in success or in failure. *)
BarrierAnswered ==
    \A b \in Barriers : (barriers[b].state = "pending") ~> (barriers[b].state \in Answered)

(* Every edit reaches storage, or the failure is shown, however many edits *)
(* follow it.                                                              *)
AutosaveDrains ==
    \A g \in 1..MaxRevision :
        (dirty_generation >= g) ~> (persisted_generation >= g \/ save_status = "FailedLocal")

PromiseOf(barrier) ==
    [state |-> CASE barrier.state = "idle" -> "none"
                 [] barrier.state \in {"pending", "flushing"} -> "open"
                 [] barrier.state = "ok" -> "kept"
                 [] barrier.state \in {"error", "dropped"} -> "broken",
     kind |-> barrier.kind,
     revision |-> barrier.revision]

Contract == INSTANCE PersistenceContract WITH
    Promises <- Barriers,
    document <- revision,
    durable <- stored,
    promise <- [b \in Barriers |-> PromiseOf(barriers[b])]

(* The pipeline and its view implement the contract: storage never loses   *)
(* what it has, an answer given is never changed, and success is reported  *)
(* only for a revision that is durable.                                    *)
ImplementsContract == Contract!Spec
=============================================================================
