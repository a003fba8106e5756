-------------------------- MODULE EmergencyJournal --------------------------
(***************************************************************************)
(* What a save writes and what a restart makes of it: the ordered journal  *)
(* of pending transactions of the runtime (TransactionState), undo and     *)
(* redo, the batch a save captures, save_storage_batch (emergency append,  *)
(* primary commit, acknowledge), crashes at any point of it, and the cold  *)
(* start that replays the emergency log on top of the stored content.      *)
(*                                                                         *)
(* The document is one block: its content_version and the set of edits in  *)
(* effect in it.  A command succeeds or changes nothing: an undo that      *)
(* fails after it changed the document is in UndoHistory only.  Debounce,  *)
(* barriers and status are the subject of module PersistencePipeline; here *)
(* a save starts whenever that one allows it.                              *)
(* The storage adapter is external.  It is modelled by what the session    *)
(* relies on: atomic appends that skip a transaction id the log has, (all  *)
(* retained rows or those still to recover: the port leaves it open),      *)
(* commits that store the captured content and mark the rows of their      *)
(* transactions as materialized, loads that return the rows not            *)
(* materialized, in sequence order.                                        *)
(***************************************************************************)
EXTENDS Naturals, FiniteSets, Sequences, SequencesExt

CONSTANTS
    MaxChanges,       \* bound: edits, undos and redos in all
    MaxFailures,      \* bound: storage errors and timeouts
    MaxCrashes,       \* bound: process exits
    MaxLogEntries,    \* MAX_EMERGENCY_LOG_ENTRIES
    MatchesRetained,  \* appends skip the ids of materialized rows too
    LateFailures,     \* the timeout may strike after the commit landed
    TextUndo,         \* the user undoes and redoes typing
    TransactionUndo,  \* the user undoes and redoes structure edits
    ReadonlyOpens     \* the host opens read-only and toggles sdk_set_readonly

ASSUME JournalAssumption ==
    /\ {MaxChanges, MaxFailures, MaxCrashes, MaxLogEntries} \subseteq Nat
    /\ {MatchesRetained, LateFailures, TextUndo, TransactionUndo, ReadonlyOpens}
         \subseteq BOOLEAN

VARIABLES
    state, readonly,           \* is the document open, and how
    document,                  \* DocumentRuntime: the block
    undo, redo,                \* HistoryState: undo_events and redo_events
    typing_group,              \* HistoryState: typing_undo_group.is_some()
    pending, next_id,          \* TransactionState
    unpersisted,               \* changes no save has captured
    phase, batch,              \* the background save and its StorageSaveRequest
    stored, log, sequence,     \* external: primary content, emergency log
    durable,                   \* history: the capture storage last secured
    changes, failures, crashes \* for the bounds

sessionVars == <<state, readonly>>
historyVars == <<undo, redo, typing_group>>
editVars == <<document, historyVars, pending, next_id, unpersisted, changes>>
saveVars == <<phase, batch>>
storageVars == <<stored, log, sequence, durable>>
vars == <<sessionVars, editVars, saveVars, storageVars, failures, crashes>>

Origin == {"User", "Undo", "Redo"}
Phase == {"none", "appending", "committing", "acking", "succeeded", "failed"}

(* The block, and a transaction in the journal: the edit it makes or takes *)
(* back, and the content version it requires (0: no precondition).         *)
Document == [version : Nat, edits : SUBSET (1..MaxChanges)]
Transaction == [id : Nat, origin : Origin, edit : 1..MaxChanges, requires : Nat]
UndoEvent == [type : {"Text"}, snapshot : Document]
             \cup [type : {"Transaction"}, transaction : Transaction]

NoBatch == [transactions |-> <<>>, document |-> [version |-> 1, edits |-> {}], through |-> 0]

Init ==
    /\ state = "open" /\ readonly = FALSE
    /\ document = [version |-> 1, edits |-> {}]
    /\ undo = <<>> /\ redo = <<>> /\ typing_group = FALSE
    /\ pending = <<>> /\ next_id = 1
    /\ unpersisted = FALSE
    /\ phase = "none" /\ batch = NoBatch
    /\ stored = document /\ durable = document
    /\ log = <<>> /\ sequence = 0
    /\ changes = 0 /\ failures = 0 /\ crashes = 0

-----------------------------------------------------------------------------
(* Applying transactions: apply_transaction_authorized.                    *)

(* The preconditions and the carried before values hold. *)
Applicable(doc, tx) ==
    /\ tx.requires # 0 => tx.requires = doc.version
    /\ tx.edit \in doc.edits <=> tx.origin = "Undo"

(* The operations of the transaction, which advance the content version. *)
Applied(doc, tx) ==
    [version |-> doc.version + 1,
     edits |-> IF tx.origin = "Undo" THEN doc.edits \ {tx.edit} ELSE doc.edits \cup {tx.edit}]

(* Mutant: transactions that came from elsewhere keep the id allocator. *)
NextIdUntouched(next, tx) == next

(* The allocator stays ahead of every applied transaction. *)
NextIdAfter(next, tx) == IF tx.id + 1 > next THEN tx.id + 1 ELSE next

(* What undo keeps of a transaction: no precondition, user edits only. *)
RecordUndo(stack, tx) ==
    IF tx.origin # "User" THEN stack
    ELSE Append(stack, [type |-> "Transaction", transaction |-> [tx EXCEPT !.requires = 0]])

CanEdit == state = "open" /\ ~readonly /\ changes < MaxChanges

(* push_undo_snapshot: an input that continues the open typing group takes *)
(* no snapshot of its own.                                                 *)
PushUndoSnapshot(continues) ==
    IF continues THEN undo ELSE Append(undo, [type |-> "Text", snapshot |-> document])

(* record_preapplied_text_replacement: the text is in the block already;   *)
(* what goes to the journal requires the version before it.                *)
PreappliedTransaction ==
    [id |-> next_id, origin |-> "User", edit |-> changes + 1, requires |-> document.version]

(* One text input: snapshot for undo, the edit itself, its transaction.    *)
(* An input at the group's offset within TYPING_MERGE_WINDOW continues it. *)
TypeText(continues) ==
    /\ CanEdit
    /\ continues => typing_group
    /\ document' = Applied(document, PreappliedTransaction)
    /\ pending' = Append(pending, PreappliedTransaction)
    /\ undo' = PushUndoSnapshot(continues)
    /\ redo' = <<>>
    /\ typing_group' = TRUE
    /\ next_id' = next_id + 1
    /\ unpersisted' = TRUE
    /\ changes' = changes + 1
    /\ UNCHANGED <<sessionVars, saveVars, storageVars, failures, crashes>>

(* What apply_local_block_operations_transaction builds requires the       *)
(* content version; apply_local_structure_transaction need not.            *)
LocalTransaction(versioned) ==
    [id |-> next_id, origin |-> "User", edit |-> changes + 1,
     requires |-> IF versioned THEN document.version ELSE 0]

(* A structure or block edit: one transaction built, applied, recorded for *)
(* undo and journalled.                                                    *)
ApplyTransaction(versioned) ==
    /\ CanEdit
    /\ LET tx == LocalTransaction(versioned)
       IN  /\ document' = Applied(document, tx)
           /\ pending' = Append(pending, tx)
           /\ undo' = RecordUndo(undo, tx)
           /\ next_id' = NextIdAfter(next_id + 1, tx)
    /\ redo' = <<>>
    /\ typing_group' = FALSE
    /\ unpersisted' = TRUE
    /\ changes' = changes + 1
    /\ UNCHANGED <<sessionVars, saveVars, storageVars, failures, crashes>>

(* restore_snapshot: content and content version are put back and no       *)
(* transaction is queued.                                                  *)
RestoreSnapshot(event) ==
    /\ document' = event.snapshot
    /\ unpersisted' = TRUE
    /\ changes' = changes + 1
    /\ typing_group' = FALSE
    /\ UNCHANGED <<sessionVars, pending, next_id, saveVars, storageVars, failures, crashes>>

(* Undo and redo of typing. *)
UndoText ==
    /\ TextUndo /\ CanEdit
    /\ undo # <<>> /\ Last(undo).type = "Text"
    /\ undo' = Front(undo)
    /\ redo' = Append(redo, [type |-> "Text", snapshot |-> document])
    /\ RestoreSnapshot(Last(undo))

RedoText ==
    /\ TextUndo /\ CanEdit
    /\ redo # <<>> /\ Last(redo).type = "Text"
    /\ redo' = Front(redo)
    /\ undo' = Append(undo, [type |-> "Text", snapshot |-> document])
    /\ RestoreSnapshot(Last(redo))

(* Undo and redo of a transaction apply it again under its own id, with    *)
(* its operations swapped for undo.  One that does not apply is put back.  *)
UndoTransaction ==
    /\ TransactionUndo /\ CanEdit
    /\ undo # <<>> /\ Last(undo).type = "Transaction"
    /\ LET tx == [Last(undo).transaction EXCEPT !.origin = "Undo"]
       IN  /\ Applicable(document, tx)
           /\ document' = Applied(document, tx)
           /\ pending' = Append(pending, tx)
           /\ next_id' = NextIdAfter(next_id, tx)
    /\ undo' = Front(undo)
    /\ redo' = Append(redo, Last(undo))
    /\ typing_group' = FALSE
    /\ unpersisted' = TRUE
    /\ changes' = changes + 1
    /\ UNCHANGED <<sessionVars, saveVars, storageVars, failures, crashes>>

RedoTransaction ==
    /\ TransactionUndo /\ CanEdit
    /\ redo # <<>> /\ Last(redo).type = "Transaction"
    /\ LET tx == [Last(redo).transaction EXCEPT !.origin = "Redo"]
       IN  /\ Applicable(document, tx)
           /\ document' = Applied(document, tx)
           /\ pending' = Append(pending, tx)
           /\ next_id' = NextIdAfter(next_id, tx)
    /\ redo' = Front(redo)
    /\ undo' = Append(undo, Last(redo))
    /\ typing_group' = FALSE
    /\ unpersisted' = TRUE
    /\ changes' = changes + 1
    /\ UNCHANGED <<sessionVars, saveVars, storageVars, failures, crashes>>

(* sdk_set_readonly on an open document. *)
SetReadonly ==
    /\ ReadonlyOpens /\ state = "open"
    /\ readonly' = ~readonly
    /\ UNCHANGED <<state, editVars, saveVars, storageVars, failures, crashes>>

-----------------------------------------------------------------------------
(* One save.                                                               *)

(* Capture: project_persistence_save_capture drains the journal and takes  *)
(* the loaded payloads.  Without transactions nothing is appended.         *)
Capture ==
    /\ state = "open" /\ ~readonly
    /\ unpersisted /\ phase = "none"
    /\ batch' = [transactions |-> pending, document |-> document, through |-> 0]
    /\ phase' = IF pending = <<>> THEN "committing" ELSE "appending"
    /\ pending' = <<>>
    /\ unpersisted' = FALSE
    /\ UNCHANGED <<sessionVars, document, historyVars, next_id, changes, storageVars,
                   failures, crashes>>

(* The elements of s at the indices in I, in their order. *)
Subsequence(s, I) ==
    LET kept[n \in 0..Len(s)] ==
          IF n = 0 THEN <<>>
          ELSE IF n \in I THEN Append(kept[n - 1], s[n]) ELSE kept[n - 1]
    IN  kept[Len(s)]

RowsToRecover == Subsequence(log, {i \in DOMAIN log : ~log[i].materialized})

(* Mutant: a batch that starts with a known transaction is taken as known. *)
FreshBatch(known) ==
    IF Head(batch.transactions).id \in known THEN <<>> ELSE batch.transactions

(* The transactions of the batch whose ids are not known. *)
Fresh(known) ==
    LET transactions == batch.transactions
    IN  Subsequence(transactions, {i \in DOMAIN transactions : transactions[i].id \notin known})

(* Mutant: the rows of one append share a sequence. *)
NewRowsOneSequence(transactions) ==
    [i \in 1..Len(transactions) |->
       [sequence |-> sequence + 1, transaction |-> transactions[i], materialized |-> FALSE]]

NewRows(transactions) ==
    [i \in 1..Len(transactions) |->
       [sequence |-> sequence + i, transaction |-> transactions[i], materialized |-> FALSE]]

(* append_emergency_transactions: through_sequence is that of the last row. *)
AppendLog ==
    /\ phase = "appending"
    /\ LET rows == IF MatchesRetained THEN log ELSE RowsToRecover
           fresh == Fresh({row.transaction.id : row \in ToSet(rows)})
       IN  /\ log' = log \o NewRows(fresh)
           /\ sequence' = sequence + Len(fresh)
    /\ batch' = [batch EXCEPT !.through = sequence']
    /\ phase' = "committing"
    /\ durable' = batch.document
    /\ UNCHANGED <<sessionVars, editVars, stored, failures, crashes>>

(* The rows of the committed transactions are materialized. *)
AfterCommit ==
    LET committed == {tx.id : tx \in ToSet(batch.transactions)}
    IN  [i \in DOMAIN log |->
           [log[i] EXCEPT !.materialized =
              log[i].materialized \/ log[i].transaction.id \in committed]]

(* commit: atomic at the storage.  The log is acknowledged only if this    *)
(* save appended to it.                                                    *)
Commit ==
    /\ phase = "committing"
    /\ stored' = batch.document
    /\ durable' = batch.document
    /\ log' = AfterCommit
    /\ phase' = IF batch.through = 0 THEN "succeeded" ELSE "acking"
    /\ UNCHANGED <<sessionVars, editVars, batch, sequence, failures, crashes>>

(* acknowledge_emergency_transactions removes the rows up to the sequence; *)
(* when it fails they stay and the save succeeds all the same.             *)
Acknowledge ==
    /\ phase = "acking"
    /\ log' \in {log, Subsequence(log, {i \in DOMAIN log : log[i].sequence > batch.through})}
    /\ phase' = "succeeded"
    /\ UNCHANGED <<sessionVars, editVars, batch, stored, sequence, durable, failures, crashes>>

(* An error, or the timeout, which may strike after the commit landed. *)
SaveFails ==
    /\ phase \in {"appending", "committing", "acking"}
    /\ phase = "acking" => LateFailures
    /\ failures < MaxFailures
    /\ phase' = "failed"
    /\ failures' = failures + 1
    /\ UNCHANGED <<sessionVars, editVars, batch, storageVars, crashes>>

(* apply_storage_save_success. *)
ApplySuccess ==
    /\ phase = "succeeded"
    /\ phase' = "none"
    /\ batch' = NoBatch
    /\ UNCHANGED <<sessionVars, editVars, storageVars, failures, crashes>>

(* Mutant: the failed batch goes behind the newer transactions. *)
RestoredBehind == pending \o batch.transactions

(* Mutant: restores the failed batch only into an empty journal. *)
RestoredIfEmpty == IF pending = <<>> THEN batch.transactions ELSE pending

(* restore_pending_structure_transactions: ahead of what came meanwhile. *)
Restored == batch.transactions \o pending

(* apply_storage_save_failure. *)
ApplyFailure ==
    /\ phase = "failed"
    /\ phase' = "none"
    /\ pending' = Restored
    /\ unpersisted' = TRUE
    /\ batch' = NoBatch
    /\ UNCHANGED <<sessionVars, document, historyVars, next_id, changes, storageVars,
                   failures, crashes>>

-----------------------------------------------------------------------------
(* Crash and cold start.                                                   *)

(* The process ends; what is in memory is gone. *)
Crash ==
    /\ state = "open"
    /\ crashes < MaxCrashes
    /\ crashes' = crashes + 1
    /\ state' = "closed"
    /\ phase' = "none" /\ batch' = NoBatch
    /\ UNCHANGED <<readonly, editVars, storageVars, failures>>

(* One step of project_emergency_recovery; after a failure nothing more is *)
(* replayed.                                                               *)
ReplayRow(runtime, row) ==
    LET tx == row.transaction
    IN  IF ~runtime.ok \/ ~Applicable(runtime.document, tx)
        THEN [runtime EXCEPT !.ok = FALSE]
        ELSE [ok |-> TRUE,
              document |-> Applied(runtime.document, tx),
              pending |-> Append(runtime.pending, tx),
              undo |-> RecordUndo(runtime.undo, tx),
              next_id |-> NextIdAfter(runtime.next_id, tx)]

(* A runtime freshly built from stored content. *)
Loaded == [ok |-> TRUE, document |-> stored, pending |-> <<>>, undo |-> <<>>, next_id |-> 1]

(* Mutant: the log is loaded and not replayed. *)
RecoveredIgnored == Loaded

(* The rows, in order, on the stored content. *)
Replayed(rows) ==
    LET runtime[n \in 0..Len(rows)] ==
          IF n = 0 THEN Loaded ELSE ReplayRow(runtime[n - 1], rows[n])
    IN  runtime[Len(rows)]

(* plan_emergency_recovery and project_emergency_recovery. *)
Recovered ==
    IF Len(RowsToRecover) > MaxLogEntries THEN [Loaded EXCEPT !.ok = FALSE]
    ELSE Replayed(RowsToRecover)

(* Mutant: a recovered session starts clean. *)
DirtyAfterOpenClean(runtime) == FALSE

(* Replayed transactions are still to be saved. *)
DirtyAfterOpen(runtime) == runtime.pending # <<>>

(* prepare_editor_session_with_persistence: refuses a log over the limit   *)
(* in either mode; a read-only session does not replay it.                 *)
Open(ro) ==
    /\ state = "closed"
    /\ ro => ReadonlyOpens
    /\ readonly' = ro
    /\ LET over == Len(RowsToRecover) > MaxLogEntries
           runtime == IF ro THEN Loaded ELSE Recovered
       IN  /\ state' = IF over \/ ~runtime.ok THEN "refused" ELSE "open"
           /\ document' = runtime.document
           /\ pending' = runtime.pending
           /\ undo' = runtime.undo
           /\ next_id' = runtime.next_id
           /\ unpersisted' = DirtyAfterOpen(runtime)
    /\ redo' = <<>> /\ typing_group' = FALSE
    /\ UNCHANGED <<changes, saveVars, storageVars, failures, crashes>>

-----------------------------------------------------------------------------
Next ==
    \/ \E continues \in BOOLEAN : TypeText(continues)
    \/ \E versioned \in BOOLEAN : ApplyTransaction(versioned)
    \/ UndoText \/ RedoText \/ UndoTransaction \/ RedoTransaction
    \/ SetReadonly
    \/ Capture \/ AppendLog \/ Commit \/ Acknowledge \/ SaveFails
    \/ ApplySuccess \/ ApplyFailure
    \/ Crash
    \/ \E ro \in BOOLEAN : Open(ro)

Spec == Init /\ [][Next]_vars

-----------------------------------------------------------------------------
(* Properties.                                                             *)

EditsOf(transactions) == {tx.edit : tx \in ToSet(transactions)}

(* The shape of the journal, the history, the batch and the log; an open   *)
(* typing group has its snapshot on top of the undo stack.                 *)
TypeOK ==
    /\ state \in {"open", "closed", "refused"}
    /\ readonly \in BOOLEAN /\ unpersisted \in BOOLEAN
    /\ typing_group => undo # <<>> /\ Last(undo).type = "Text" /\ redo = <<>>
    /\ {document, stored, durable, batch.document} \subseteq Document
    /\ ToSet(undo) \cup ToSet(redo) \subseteq UndoEvent
    /\ ToSet(pending) \cup ToSet(batch.transactions) \subseteq Transaction
    /\ next_id > 0
    /\ phase \in Phase
    /\ \A i \in 1..Len(log) : \A j \in 1..Len(log) :
         i < j => log[i].sequence < log[j].sequence
    /\ \A row \in ToSet(log) : row.sequence <= sequence /\ row.transaction \in Transaction

(* "Durable log, primary commit, acknowledge": whenever the process ends,  *)
(* replaying the rows to recover on the stored content (cold_start.rs)     *)
(* gives exactly the content of the last capture that reached storage.     *)
RecoveryFaithful == Recovered.ok => Recovered.document = durable

(* A document that could be edited can be opened again: cold start never   *)
(* refuses the log that save_storage_batch wrote.                          *)
RecoveryOpens == Recovered.ok

(* Every edit of the document that the stored content lacks is in the      *)
(* journal or in the batch in flight, so a failed save loses none          *)
(* (drain_ and restore_pending_structure_transactions).                    *)
JournalComplete ==
    state = "open" /\ ~readonly =>
      document.edits \ stored.edits
        \subseteq EditsOf(pending) \cup EditsOf(batch.transactions)

(* The identities in the journal grow in the order the transactions were   *)
(* made, across failed saves (the older batch is put back in front) and    *)
(* recoveries (the allocator passes the replayed ids): TransactionState.   *)
JournalIdsIncrease ==
    LET journal == batch.transactions \o pending
    IN  state = "open" /\ phase # "succeeded" =>
          \A i \in 1..Len(journal) : \A j \in 1..Len(journal) :
            i < j => journal[i].id < journal[j].id

(* The edits a crash cannot take: stored, or in a row still to recover. *)
Secured == stored.edits \cup {row.transaction.edit : row \in ToSet(RowsToRecover)}

(* Once secured an edit stays secured; in particular a save acknowledges   *)
(* and materializes only rows whose edits it stores, and a failed          *)
(* acknowledge is harmless (the comment in save_storage_batch).            *)
SecuredStaysSecured == [][Secured \subseteq Secured']_vars

(* With no change since the last capture and no save under way, storage    *)
(* holds the open document, whatever was undone, redone, failed, retried   *)
(* or recovered before.                                                    *)
CleanIsStored ==
    state = "open" /\ ~unpersisted /\ phase = "none" => stored = document
=============================================================================
