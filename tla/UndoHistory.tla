----------------------------- MODULE UndoHistory -----------------------------
(***************************************************************************)
(* The undo history of a document: the timeline of text snapshots and      *)
(* transactions (HistoryState), the core's UndoStack, and the background   *)
(* work that moves large steps out of memory: one spill that writes a blob *)
(* and replaces the step by a reference, one hydration that reads it back  *)
(* and repeats the undo or redo that needed it, one cleanup that deletes   *)
(* the blobs of steps that are gone.                                       *)
(*                                                                         *)
(* Main-thread handlers are atomic; the three background operations        *)
(* interleave with them, fail, time out before or after they took effect,  *)
(* and take effect after the timeout was reported.  A transaction is a     *)
(* number, the content of a step the set of transactions merged into it.   *)
(* Text snapshots are those of one block, and only their number is kept.   *)
(* Not here: deactivation of the host, which discards the results of the   *)
(* background work, and prune_undo_blobs, whose order is the backend's.    *)
(***************************************************************************)
EXTENDS Naturals, FiniteSets, FiniteSetsExt, SequencesExt

CONSTANTS
    Kinds,             \* what is recorded: "small", "typing", "typing joined", "large"
    MaxSteps,          \* truncate_undo_to(100)
    MaxTextSteps,      \* TEXT_UNDO_MAX_STEPS_PER_BLOCK
    MaxTransactions,   \* bound: recorded transactions
    MaxRecords,        \* bound: recorded transactions and text snapshots together
    MaxLate            \* bound: late effects that are pending at a time

ASSUME HistoryAssumption ==
    /\ Kinds \subseteq {"small", "typing", "typing joined", "large"}
    /\ MaxSteps \in Nat \ {0} /\ MaxTextSteps \in Nat \ {0}
    /\ MaxTransactions \in Nat /\ MaxRecords \in Nat /\ MaxLate \in Nat

Transactions == 1..MaxTransactions
SnapshotIds == 1..MaxTransactions
Directions == {"Undo", "Redo"}
Other(direction) == IF direction = "Undo" THEN "Redo" ELSE "Undo"

VARIABLES
    \* per direction: the steps of the UndoStack, the RuntimeUndoEvents and
    \* the number of text snapshots
    history,
    \* UndoStack: next_snapshot_id, orphaned_external_blobs
    next_snapshot_id, orphaned_external_blobs,
    \* the background operation of each kind and its result
    spill, hydration, cleanup,
    \* external: the blobs of the store ({} where there is none), and writes
    \* and deletes whose timeout was reported while they were under way
    blobs, late,
    \* counters; the transaction each snapshot was made of (observation)
    transactions, texts, recorded

ioVars == <<spill, hydration, cleanup, blobs, late>>
countVars == <<transactions, texts, recorded>>
vars == <<history, next_snapshot_id, orphaned_external_blobs, ioVars, countVars>>

NoSpill == [phase |-> "none", id |-> 0, txn |-> {}]
NoHydration == [phase |-> "none", id |-> 0, direction |-> "Undo", txn |-> {}]
NoCleanup == [phase |-> "none", ids |-> {}]
EmptySide == [steps |-> <<>>, events |-> <<>>, texts |-> 0]

Init ==
    /\ history = [d \in Directions |-> EmptySide]
    /\ next_snapshot_id = 1 /\ orphaned_external_blobs = {}
    /\ spill = NoSpill /\ hydration = NoHydration /\ cleanup = NoCleanup
    /\ blobs = [i \in SnapshotIds |-> {}] /\ late = {}
    /\ transactions = 0 /\ texts = 0
    /\ recorded = [i \in SnapshotIds |-> {}]

-----------------------------------------------------------------------------
(* UndoPayload.  Only the first two kinds have their transaction in memory. *)
Step(payload, id, txn, typing) ==
    [payload |-> payload, id |-> id, txn |-> txn, typing |-> typing]
InMemory(step) == step.payload \in {"InlineSmall", "BlockRangeSnapshot"}
Steps(h) == ToSet(h.Undo.steps) \cup ToSet(h.Redo.steps)

\* collect_orphaned_blob for each of the steps.
Orphans(steps) == {s.id : s \in {t \in ToSet(steps) : t.payload = "ExternalBlob"}}

\* The step with this payload kind and snapshot id becomes `new`.
Replace(h, payload, id, new) ==
    [d \in Directions |->
        [h[d] EXCEPT !.steps = [i \in DOMAIN @ |->
            IF @[i].payload = payload /\ @[i].id = id THEN new ELSE @[i]]]]

Has(h, payload, id) == \E s \in Steps(h) : s.payload = payload /\ s.id = id

-----------------------------------------------------------------------------
(* mark_dirty_at_revision, with which every change of the document ends:   *)
(* start a spill unless one runs, then a cleanup unless one runs.          *)

\* begin_externalization takes the first snapshot, undo before redo.
Spillable(h) == SelectInSeq(h.Undo.steps \o h.Redo.steps,
                            LAMBDA s : s.payload = "BlockRangeSnapshot")

Changed(h, orphaned) ==
    LET all == h.Undo.steps \o h.Redo.steps IN
    /\ IF spill # NoSpill \/ Spillable(h) = 0
       THEN history' = h /\ UNCHANGED spill
       ELSE LET step == all[Spillable(h)] IN
            /\ history' = Replace(h, "BlockRangeSnapshot", step.id,
                                  Step("Externalizing", step.id, {}, FALSE))
            /\ spill' = [phase |-> "writing", id |-> step.id, txn |-> step.txn]
    /\ IF cleanup # NoCleanup \/ orphaned = {}
       THEN orphaned_external_blobs' = orphaned /\ UNCHANGED cleanup
       ELSE /\ orphaned_external_blobs' = {}
            /\ cleanup' = [phase |-> "deleting", ids |-> orphaned]

-----------------------------------------------------------------------------
(* Recording.                                                              *)
(* Mutant: one step too many. *)
NewestPlusOne(s, n) == IF Len(s) <= n + 1 THEN s ELSE SubSeq(s, Len(s) - n, Len(s))

Newest(s, n) == IF Len(s) <= n THEN s ELSE SubSeq(s, Len(s) - n + 1, Len(s))
Outdated(s, n) == IF Len(s) <= n THEN <<>> ELSE SubSeq(s, 1, Len(s) - n)

Count(s, e) == Cardinality({i \in DOMAIN s : s[i] = e})

(* Mutant: the event of a step that was merged or cut stays. *)
TrimEventsNever(events, kind, n) == events

\* trim_runtime_undo_history: while there are more events of transactions
\* than steps, the oldest one goes.  One step is added at a time.
TrimEvents(events, kind, n) ==
    IF Count(events, kind) > n THEN RemoveFirst(events, kind) ELSE events

\* apply_external_transaction with a local origin: redo is cleared, the step
\* recorded and the stack cut; a typing transaction may join the newest one
\* (merge window and selection decide).
RecordTransaction(kind) ==
    LET t == transactions + 1
        undo == history.Undo
        step == IF kind = "large"
                THEN Step("BlockRangeSnapshot", next_snapshot_id, {t}, FALSE)
                ELSE Step("InlineSmall", 0, {t}, kind # "small")
        joins == kind = "typing joined"
        steps == IF joins
                 THEN [undo.steps EXCEPT ![Len(undo.steps)].txn = @ \cup {t}]
                 ELSE Append(undo.steps, step)
        kept == Newest(steps, MaxSteps)
    IN
    /\ transactions < MaxTransactions /\ transactions + texts < MaxRecords
    /\ transactions' = t
    /\ joins => undo.steps # <<>> /\ Last(undo.steps).typing
    /\ next_snapshot_id' = IF kind = "large" THEN next_snapshot_id + 1 ELSE next_snapshot_id
    /\ recorded' = IF kind = "large" THEN [recorded EXCEPT ![next_snapshot_id] = {t}]
                   ELSE recorded
    /\ Changed([Undo |-> [steps |-> kept,
                          events |-> TrimEvents(Append(undo.events, "ExternalTransaction"),
                                                "ExternalTransaction", Len(kept)),
                          texts |-> undo.texts],
                Redo |-> EmptySide],
               orphaned_external_blobs \cup Orphans(history.Redo.steps)
                   \cup Orphans(Outdated(steps, MaxSteps)))
    /\ UNCHANGED <<hydration, blobs, late, texts>>

\* push_undo_snapshot_uncoalesced: beyond the limit of the block the oldest
\* event and the oldest snapshot go, which need not belong together.
RecordText ==
    LET undo == history.Undo
        events == Append(undo.events, "Text")
        over == undo.texts + 1 > MaxTextSteps
    IN
    /\ transactions + texts < MaxRecords /\ texts' = texts + 1
    /\ Changed([Undo |-> [steps |-> undo.steps,
                          events |-> IF over THEN RemoveFirst(events, "Text") ELSE events,
                          texts |-> IF over THEN undo.texts ELSE undo.texts + 1],
                Redo |-> EmptySide],
               orphaned_external_blobs \cup Orphans(history.Redo.steps))
    /\ UNCHANGED <<next_snapshot_id, hydration, blobs, late, transactions, recorded>>

\* A change that leaves the history alone: coalesced typing, a remote
\* transaction.
ChangeOnly ==
    /\ Changed(history, orphaned_external_blobs)
    /\ UNCHANGED <<next_snapshot_id, hydration, blobs, late, countVars>>

-----------------------------------------------------------------------------
(* undo_focused_block, redo_focused_block.                                 *)

(* Mutant: takes the step from the wrong end of the deque. *)
MovedOldest(h, direction) ==
    LET from == h[direction]
        to == h[Other(direction)]
        text == Last(from.events) = "Text"
    IN [h EXCEPT
          ![direction] = [steps |-> IF text THEN from.steps ELSE Tail(from.steps),
                          events |-> Front(from.events),
                          texts |-> IF text THEN from.texts - 1 ELSE from.texts],
          ![Other(direction)] =
                         [steps |-> IF text THEN to.steps ELSE Append(to.steps, Head(from.steps)),
                          events |-> Append(to.events, Last(from.events)),
                          texts |-> IF text THEN to.texts + 1 ELSE to.texts]]

Moved(h, direction) ==
    LET from == h[direction]
        to == h[Other(direction)]
        text == Last(from.events) = "Text"
    IN [h EXCEPT
          ![direction] = [steps |-> IF text THEN from.steps ELSE Front(from.steps),
                          events |-> Front(from.events),
                          texts |-> IF text THEN from.texts - 1 ELSE from.texts],
          ![Other(direction)] =
                         [steps |-> IF text THEN to.steps ELSE Append(to.steps, Last(from.steps)),
                          events |-> Append(to.events, Last(from.events)),
                          texts |-> IF text THEN to.texts + 1 ELSE to.texts]]

\* A text entry whose block is not resident is gone with the error.
TextLost(h, direction) ==
    LET from == h[direction]
    IN [h EXCEPT ![direction] = [steps |-> from.steps, events |-> Front(from.events),
                                 texts |-> from.texts - 1]]

\* The current text has gone to the other side before restore_snapshot fails,
\* the event has not: the snapshot stays there without one.
RestoreFailed(h, direction) ==
    LET from == h[direction]
        to == h[Other(direction)]
    IN [h EXCEPT ![direction] = [steps |-> from.steps, events |-> Front(from.events),
                                 texts |-> from.texts - 1],
                 ![Other(direction)] = [steps |-> to.steps, events |-> to.events,
                                        texts |-> to.texts + 1]]

\* The results of the command: a transaction that does not apply is put
\* back; one that applied has moved even if restoring the selection failed.
Outcomes(h, direction) ==
    LET from == h[direction]
        Ok(after) == [ok |-> TRUE, history |-> after]
        Err(after) == [ok |-> FALSE, history |-> after]
    IN CASE from.events = <<>> -> {}
         [] from.events # <<>> /\ Last(from.events) = "Text" ->
              {Ok(Moved(h, direction)), Err(TextLost(h, direction)),
               Err(RestoreFailed(h, direction))}
         [] OTHER -> IF InMemory(Last(from.steps))
                     THEN {Ok(Moved(h, direction)), Err(Moved(h, direction)), Err(h)}
                     ELSE {Err(h)}

\* project_history_action: after any error, a newest step that is a
\* reference is taken for the reason, and hydrated unless a hydration runs.
Act(direction) ==
    \E o \in Outcomes(history, direction) :
        /\ IF o.ok
           THEN Changed(o.history, orphaned_external_blobs) /\ UNCHANGED hydration
           ELSE LET steps == o.history[direction].steps IN
                /\ history' = o.history
                /\ hydration' = IF /\ hydration = NoHydration
                                   /\ steps # <<>> /\ Last(steps).payload = "ExternalBlob"
                                THEN [phase |-> "reading", id |-> Last(steps).id,
                                      direction |-> direction, txn |-> {}]
                                ELSE hydration
                /\ UNCHANGED <<spill, cleanup, orphaned_external_blobs>>
        /\ UNCHANGED <<next_snapshot_id, blobs, late, countVars>>

-----------------------------------------------------------------------------
(* The background work.  Each ends in a callback of the main-thread queue.  *)

\* An operation on this blob that timed out is still to take effect, or not.
MayBeLate(op, id) ==
    \/ UNCHANGED late
    \/ Cardinality(late) < MaxLate /\ late' = late \cup {[op |-> op, id |-> id]}

\* external: the write succeeds, or fails, or times out: it has then taken
\* effect, or not, or will later.
WriteBlob ==
    /\ spill.phase = "writing"
    /\ \/ /\ spill' = [spill EXCEPT !.phase = "stored"]
          /\ blobs' = [blobs EXCEPT ![spill.id] = spill.txn]
          /\ UNCHANGED late
       \/ /\ spill' = [spill EXCEPT !.phase = "failed"]
          /\ \/ blobs' = [blobs EXCEPT ![spill.id] = spill.txn] /\ UNCHANGED late
             \/ UNCHANGED blobs /\ MayBeLate("write", spill.id)
    /\ UNCHANGED <<history, next_snapshot_id, orphaned_external_blobs, hydration, cleanup,
                   countVars>>

(* Mutant: a failed write leaves the step as it is. *)
SpillCallbackWithoutAbort ==
    /\ spill.phase \in {"stored", "failed"} /\ spill' = NoSpill
    /\ history' = IF spill.phase = "stored"
                  THEN Replace(history, "Externalizing", spill.id,
                               Step("ExternalBlob", spill.id, {}, FALSE))
                  ELSE history
    /\ orphaned_external_blobs' =
          IF spill.phase = "stored" /\ ~Has(history, "Externalizing", spill.id)
          THEN orphaned_external_blobs \cup {spill.id} ELSE orphaned_external_blobs
    /\ UNCHANGED <<next_snapshot_id, hydration, cleanup, blobs, late, countVars>>

(* Mutant: a failed write may have landed, so its blob is cleaned up. *)
SpillCallbackOrphaningFailed ==
    /\ spill.phase \in {"stored", "failed"} /\ spill' = NoSpill
    /\ history' = Replace(history, "Externalizing", spill.id,
                          IF spill.phase = "stored"
                          THEN Step("ExternalBlob", spill.id, {}, FALSE)
                          ELSE Step("BlockRangeSnapshot", spill.id, spill.txn, FALSE))
    /\ orphaned_external_blobs' =
          IF spill.phase = "failed" \/ ~Has(history, "Externalizing", spill.id)
          THEN orphaned_external_blobs \cup {spill.id} ELSE orphaned_external_blobs
    /\ UNCHANGED <<next_snapshot_id, hydration, cleanup, blobs, late, countVars>>

\* project_apply_undo_blob_write_result: a reference for the step, or an
\* orphan if the step is gone; the transaction back if the write failed.
SpillCallback ==
    /\ spill.phase \in {"stored", "failed"} /\ spill' = NoSpill
    /\ history' = Replace(history, "Externalizing", spill.id,
                          IF spill.phase = "stored"
                          THEN Step("ExternalBlob", spill.id, {}, FALSE)
                          ELSE Step("BlockRangeSnapshot", spill.id, spill.txn, FALSE))
    /\ orphaned_external_blobs' =
          IF spill.phase = "stored" /\ ~Has(history, "Externalizing", spill.id)
          THEN orphaned_external_blobs \cup {spill.id} ELSE orphaned_external_blobs
    /\ UNCHANGED <<next_snapshot_id, hydration, cleanup, blobs, late, countVars>>

\* external: the blob, or an error if there is none, or any other error.
ReadBlob ==
    /\ hydration.phase = "reading"
    /\ \/ /\ blobs[hydration.id] # {}
          /\ hydration' = [phase |-> "read", id |-> hydration.id,
                            direction |-> hydration.direction, txn |-> blobs[hydration.id]]
       \/ hydration' = [hydration EXCEPT !.phase = "failed"]
    /\ UNCHANGED <<history, next_snapshot_id, orphaned_external_blobs, spill, cleanup, blobs,
                   late, countVars>>

\* project_hydrated_history_action: the content goes back to the step that
\* has this reference, wherever it is now, and the command is repeated on
\* what is newest now.
HydrationCallback ==
    LET hydrated == Replace(history, "ExternalBlob", hydration.id,
                            Step("BlockRangeSnapshot", hydration.id, hydration.txn, FALSE))
    IN
    /\ hydration.phase \in {"read", "failed"} /\ hydration' = NoHydration
    /\ IF hydration.phase = "failed" \/ ~Has(history, "ExternalBlob", hydration.id)
       THEN UNCHANGED <<history, spill, cleanup, orphaned_external_blobs>>
       ELSE \E o \in Outcomes(hydrated, hydration.direction)
                       \cup {[ok |-> FALSE, history |-> hydrated]} :
              IF o.ok THEN Changed(o.history, orphaned_external_blobs)
              ELSE history' = o.history /\ UNCHANGED <<spill, cleanup, orphaned_external_blobs>>
    /\ UNCHANGED <<next_snapshot_id, blobs, late, countVars>>

\* external: each delete succeeds or fails; after a timeout all are reported
\* as failed, though some took effect or will later.
DeleteBlobs ==
    /\ cleanup.phase = "deleting"
    /\ \E failed \in SUBSET cleanup.ids : \E landed \in SUBSET failed :
         /\ cleanup' = [phase |-> "done", ids |-> failed]
         /\ blobs' = [i \in SnapshotIds |->
                        IF i \in (cleanup.ids \ failed) \cup landed THEN {} ELSE blobs[i]]
         /\ IF failed = landed THEN UNCHANGED late
            ELSE \E i \in failed \ landed : MayBeLate("delete", i)
    /\ UNCHANGED <<history, next_snapshot_id, orphaned_external_blobs, spill, hydration, countVars>>

\* project_finish_undo_blob_cleanup
CleanupCallback ==
    /\ cleanup.phase = "done" /\ cleanup' = NoCleanup
    /\ orphaned_external_blobs' = orphaned_external_blobs \cup cleanup.ids
    /\ UNCHANGED <<history, next_snapshot_id, spill, hydration, blobs, late, countVars>>

\* external: an operation whose timeout was reported takes effect.
LateEffect(e) ==
    /\ e \in late /\ late' = late \ {e}
    /\ blobs' = [blobs EXCEPT ![e.id] = IF e.op = "write" THEN recorded[e.id] ELSE {}]
    /\ UNCHANGED <<history, next_snapshot_id, orphaned_external_blobs, spill, hydration,
                   cleanup, countVars>>

Next ==
    \/ \E kind \in Kinds : RecordTransaction(kind)
    \/ RecordText \/ ChangeOnly
    \/ \E direction \in Directions : Act(direction)
    \/ WriteBlob \/ SpillCallback \/ ReadBlob \/ HydrationCallback
    \/ DeleteBlobs \/ CleanupCallback
    \/ \E e \in late : LateEffect(e)

Spec == Init /\ [][Next]_vars

-----------------------------------------------------------------------------
StepType == [payload : {"InlineSmall", "BlockRangeSnapshot", "Externalizing", "ExternalBlob"},
             id : SnapshotIds \cup {0}, txn : SUBSET Transactions, typing : BOOLEAN]

\* Types of the history and the background work; both stacks together hold
\* no more than the limit, of steps and of text snapshots (of which some
\* have no event: the loop that trims them still needs one round only).
TypeOK ==
    /\ \A d \in Directions :
         /\ history[d].steps \in Seq(StepType)
         /\ history[d].events \in Seq({"Text", "ExternalTransaction"})
         /\ history[d].texts \in Nat
    /\ Len(history.Undo.steps) + Len(history.Redo.steps) <= MaxSteps
    /\ history.Undo.texts + history.Redo.texts <= MaxTextSteps
    /\ next_snapshot_id \in 1..MaxTransactions + 1
    /\ orphaned_external_blobs \subseteq SnapshotIds
    /\ spill.phase \in {"none", "writing", "stored", "failed"}
    /\ hydration.phase \in {"none", "reading", "read", "failed"}
    /\ cleanup.phase \in {"none", "deleting", "done"} /\ cleanup.ids \subseteq SnapshotIds
    /\ blobs \in [SnapshotIds -> SUBSET Transactions]
    /\ late \subseteq [op : {"write", "delete"}, id : SnapshotIds]

\* Every event has its entry, through limits, merged typing, failed commands
\* and lost snapshots: no Undo pops an event that leads nowhere.  And every
\* step has its event: none is left that no Undo reaches.  That is not so of
\* text snapshots, since one whose restore failed stays without an event.
EventsMatchSteps ==
    \A d \in Directions :
        /\ Count(history[d].events, "ExternalTransaction") = Len(history[d].steps)
        /\ Count(history[d].events, "Text") <= history[d].texts

\* No step waits for a spill that is not running: the job that has its
\* content is still to come back.
SpillHasJob ==
    \A s \in Steps(history) : s.payload = "Externalizing" => spill # NoSpill /\ spill.id = s.id

\* Whatever was spilled, hydrated, spilled again, orphaned, deleted late or
\* written late: nothing that deletes blobs knows the blob of a step that
\* is still in the history.
DeletesSpareHistory ==
    LET doomed == orphaned_external_blobs \cup cleanup.ids
                     \cup {e.id : e \in {f \in late : f.op = "delete"}}
    IN \A s \in Steps(history) : s.id \notin doomed

\* Where the content of a step is now.
Content(s) == CASE InMemory(s) -> s.txn
                [] s.payload = "Externalizing" -> spill.txn
                [] OTHER -> blobs[s.id]
Contents(side) == [i \in DOMAIN side.steps |-> Content(side.steps[i])]

Contract == INSTANCE UndoContract WITH
    undo <- Contents(history.Undo), redo <- Contents(history.Redo)

\* With the content of every step taken from wherever it is, memory, the
\* spill under way or the store, the history is a pair of stacks: spilling,
\* failing, reading back and cleaning up never change what Undo and Redo
\* will do, and a command moves one step or none.
ImplementsContract == Contract!Spec
=============================================================================
