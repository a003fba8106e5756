# Cditor: a TLA+ verification of saving and recovery

Cditor is a Notion-like block editor in Rust on GPUI. This directory models the
part of it that must not lose a user's work: the background tasks of an editor
session, the queue that brings their results to the main thread, the persistence
pipeline with its `save()` and `flush()` barriers, the emergency journal with its
replay at cold start, the window of blocks held in memory, and the undo history
with the steps it moves to storage. Each module is checked by TLC on small
instances; the task coordinator, the scheduler, the pipeline, the payload window
and the storage crate's optimistic persistence are also proved correct with TLAPS
for all values of their constants.

`PROJECT.json` lists components, runs, mutants, the source lines behind each
definition, findings, hazards and theorems. Paths below are relative to `src/`.

## 1. Inventory

| Component | Source | State | Operations |
|---|---|---|---|
| Task coordinator | `crates/cditor-session/src/task_port.rs` | one active task per kind, generation counter | begin, complete, replace, cancel |
| Persistence pipeline | `cditor-session/src/persistence_pipeline.rs`, `persistence_session.rs` | dirty and persisted generation, `saving`, debounce, barriers, flushes in flight | mark dirty, reserve timer, begin batch, finish (success, failure), drain or fail barriers, flush |
| View's persistence driver | `cditor-editor-gpui/src/app/persistence_bridge.rs`, `sdk.rs`, `persistence/*` | `dirty`, `save_status`, `readonly` | edit, autosave timer, save callbacks, settle barriers, retry, read-only switch, close guard |
| Main-thread scheduler | `app/main_thread_scheduler.rs`, `cditor-runtime/src/scheduling/` | queue of deferred callbacks by lane, frame budget | enqueue, run within budget, clear |
| Transaction journal | `cditor-runtime/src/document_runtime/transaction_state.rs`, `local_transaction.rs`, `transaction_apply.rs` | next id, pending transactions | record, apply, drain, restore |
| Undo and redo | `document_runtime/undo_redo.rs`, `history_state.rs`, `cditor-core/src/edit/undo.rs` | event stacks, snapshots, external blobs | push, undo, redo, spill, hydrate, trim |
| Save batch | `cditor-session/src/persistence_port.rs` | captured payloads, transactions | capture, success, failure |
| Emergency log and cold start | `cditor-session/src/emergency_log.rs`, `cold_start.rs` | log rows, recovery plan | append, acknowledge, plan, replay, export |
| Storage adapter | `cditor-storage/src/backend.rs` (trait only) | primary content, log, undo blobs | commit, append, acknowledge, load, flush |
| Payload window | `cditor-runtime/src/content/payload_window.rs`, `task_port/payload_*` | loaded blocks, load generations | request, deliver, evict, retry |
| Optimistic persistence | `cditor-storage/src/optimistic_persistence.rs` | pins, recovery entries | begin, succeed, fail |
| Editing, layout, rendering, AI, import and export, whiteboard, video | the other crates and `components/` | documents, geometry, caches | data transformations and drawing |

How they interact. An edit changes the runtime, which journals a transaction;
the view then calls `mark_dirty_at_revision`, which raises the dirty generation
and reserves a debounce timer. The timer, a barrier or the retry button calls
`flush_storage_persistence`: it takes the `PersistenceSave` slot of the
coordinator, captures a batch (draining the journal) and starts a background
save. `save_storage_batch` appends the transactions to the emergency log,
commits the content, acknowledges the log. The result is queued for the main
thread, where the callback releases the slot, updates the pipeline, settles
barriers, and may start a backend flush or the next debounce. At cold start the
log that is left is replayed over the stored content.

What is hard. Handlers are atomic on the main thread, so there are no data
races; the difficulty is in what happens between handlers: edits during a save,
a save that fails or times out after its commit landed, callbacks that are
discarded, barriers asked for at any point, a process that ends anywhere in a
save, undo between two captures, read-only mode that comes and goes. The
`hazards` of `PROJECT.json` name each with its line.

What makes each component correct:

* coordinator: a completion counts exactly if its task is still the current one;
* pipeline: success is reported only for durable content, "saved" means saved,
  every request is answered, nothing unsaved is forgotten;
* journal and log: at any moment, restarting gives the last content that was
  secured, and the document can be opened;
* scheduler: a queued result is applied or let go exactly once, is never left
  without a wake-up, and does not starve once the user stops typing;
* undo: whatever is spilled, read back or deleted, Undo and Redo do what two
  plain stacks would do, and nothing deletes a blob a step refers to;
* payload window: a late delivery never overwrites a newer edit, an unsaved block
  is never evicted, and the viewport does not stay a skeleton;
* optimistic persistence: the close guard lets go only of what the store has.

## 2. Modules

**`SessionTasks`** - `SessionTaskCoordinator` and its wrappers. A view holds one
session after another; tokens of older sessions are still held by work that has
not reported. `tokens` is that set, `live` a history variable: the tokens that
were neither completed, replaced nor cancelled. `next_generation` wraps at
`GenerationModulus` as `wrapping_add(1).max(1)` does.

**`PersistenceContract`** - what saving promises to a host: the document moves
forward, storage follows and never falls back, a call is answered once, and with
success only for a revision that is in storage (and flushed).

**`PersistencePipeline`** - the pipeline and its driver. Content is abstracted to
a revision number, which every edit raises; a capture takes the whole content.
The variables have the names of the code's fields (`debounce_scheduled`,
`saving`, `dirty_generation`, ...). `save_phase` and `flush_phase` say where the
background work is: at the storage (`writing`, `landed`; `flushing`, `pruning`),
in the main-thread queue (`succeeded`, `failed`) or discarded (`lost`). One
action stands for one handler, trailing calls included: `ApplySaveSuccess` is
the whole callback - complete the task, finish the batch, set the status,
reschedule, settle the barriers, perhaps start a flush. `FlushStoragePersistence`
and `SettleBarriers` are the two functions several handlers share.

**`EmergencyJournal`** - what a save writes and what a restart makes of it. The
document is one block with its content version and the set of edits in effect.
A journalled transaction has an id, an origin, the edit it makes or takes back
and the content version it requires, if any. Typing applies first and journals
afterwards (`record_preapplied_text_replacement`), after a snapshot for undo
unless it continues a typing group; structure edits go through
`apply_transaction`. `Recovered` is the replay: a recursive function over the
rows to recover that fails from the first transaction on whose preconditions do
not hold. It is both part of the `Open` action and, evaluated in every state, the
subject of the invariants: "if the process ended now".

**`MainThreadScheduler`** - the queue through which every background result
reaches the view. `heap` and `tasks` are the arbiter's and the scheduler's
collections, `latest_generation` and `arbiter_latest` their two generation maps,
`pump_timers` and `wake_timers` the timers that have not fired; `fate` observes
what became of each callback. `Enqueue` is `enqueue_main_thread_apply` with the
supersession of older results; `Arrive` offers it what the call sites pass, with or
without a block, cheap or as dear as the text or the batch is long;
`run_main_thread_applies` is one frame, called by the pump, the wake timer and
rendering, with the tasks past the deadline chosen from `Deadlines`. `Clear` is
what host deactivation does, and the reason that `PersistencePipeline` has a
`HostDeactivate`. A frame is one step because no apply callback of the editor
enqueues work before it returns.

**`PayloadWindow`** - which blocks are in memory. The content of a block is its
content version. `Render` is the projection with its request for what is missing,
`RenderPrefetch` one that finds the core resident and asks for more; the visible
lane (`active`, `pending_range`) and the prefetch lane are the coordinator's; a
load carries the generation that `finish_loading` compares. A generation is any
number no load, lane or marker still carries, since the code only compares for
equality. The synchronous read of a local drag is the background read with
nothing in between; the debounce of prefetches is nondeterminism. `CaptureSave`
to `SaveSucceeds` is the save as the window sees it, `Evict` one block of a trim.

**`UndoContract`** - two stacks of steps: record, join, undo, redo, forget redo.

**`UndoHistory`** - the event timeline of `HistoryState`, the core's `UndoStack`
and the three background operations on blobs. A step is inline, a snapshot,
`Externalizing` (its content is in the spill job) or a reference to a blob; a
transaction is a number, the content of a step the set of transactions merged
into it. Text snapshots are those of one block and only counted. `Outcomes` lists
what Undo or Redo may come to, each `?` of `undo_focused_block` included: a text
whose block is not resident is lost with its event (`TextLost`), one whose
`restore_snapshot` fails has left the current text on the other side without an
event (`RestoreFailed`), a transaction that does not apply is put back, one that
applied has moved even if its selection could not be restored. `Changed` is the
trailing `mark_dirty_at_revision`, which starts a spill and a cleanup. `late` holds
writes and deletes whose timeout was reported and which may still take effect.

**`OptimisticPersistence`** - the storage crate's `OptimisticPersistenceManager`:
the four numbers and the state per block, the pins, the recovery queue, the close
guard. The manager has no caller in the editor yet; the writes its events ask for
are external, may overlap and end in any order.

The modules named `...Proofs` hold the proofs.
Definitions whose comment begins with "Mutant" are not part of a specification;
they are plausible mistakes that replace a definition to show that a property
would notice.

The pipeline and the journal are two views of the same save: the first knows
when a save runs and who waits for it, the second what it writes. In the journal
a save may start whenever there is something unsaved and none runs, which is
what `FlushStoragePersistence` allows. The payload window sees a third side of it,
the versions that become evictable; the undo history runs beside it in slots of
its own. All of them assume of the main-thread queue what `MainThreadScheduler`
shows: a queued callback runs once, unless the queue is cleared.

### The storage adapter

Only the trait is in the repository, so the adapter is external. Assumed of it:
appends and commits are atomic; an append skips transactions whose id it knows;
a commit stores the captured content and marks the log rows of its transactions
as materialized; loading returns the rows not materialized, in sequence order;
an acknowledge removes the rows up to a sequence or fails without effect.
Whether "knows" means all retained rows or only those still to recover is not
said by the port, hence the constant `MatchesRetained`. A write may still land
before the timeout is reported (`SaveFails` after `landed`, `LateFailures`); one
that lands after the timeout has been *handled*, beside the next save, is
adapter-dependent and not modelled.

## 3. Runs

| Run | Shows |
|---|---|
| `session_tasks` | two kinds, two keys, two sessions, up to four tasks: completions of older tasks and older sessions never count, tokens are not reused |
| `pipeline_safety` | two barriers, three edits, one failure, read-only switches, remote edits and host deactivation: durability of barriers, of "clean", agreement of slot and flag, and the contract as a refinement |
| `pipeline_live` | autosave is never unarmed; every barrier is answered; every edit is saved or its failure shown |
| `journal_session` | one session with timeouts that strike after the commit landed, up to two failures: replay is exact and never refused at any point |
| `journal_recovery` | up to two crashes and two failures: replay is exact, never refused, ids stay ordered, nothing secured is lost |
| `journal_history` | all features together, undo and redo included: a document with nothing left to save is what storage holds |
| `pipeline_host_inactive` (violation) | deactivating the host discards a queued save result, and the save slot with it |
| `journal_text_undo` (violation) | type, undo, type, failed commit, restart: the document cannot be opened |
| `main_thread_scheduler` | results of four kinds, two generations of a key, a text too dear for a typing frame, deadlines, typing and a clear: no result is lost, run twice, overtaken or left asleep |
| `payload_window` | scrolling, drags, prefetches, failing reads, retries, an edit, saves and trimming: no edit is lost, markers belong to their lane, the viewport is loaded or shows its failure |
| `undo_history` | large and merged steps, text entries, spill, hydration and cleanup with failures and late effects: the history implements two stacks, every event leads to an entry, no deletion meets a step in use |
| `optimistic_persistence` | overlapping writes of two blocks with results in any order: close guard, pins, recovery queue |

The journal's guarantees hold in the configurations of the passing runs and not
in all: `journal_session` and `journal_recovery` have undo and read-only opens
switched off, since `journal_text_undo` and the list below show what those do, and
each takes the adapter policy under which its failures are harmless. `CleanIsStored`
holds with every switch on, for commands that succeed or change nothing: an undo
that changes the document and then reports an error is not in that module.

**Divergences without a run of their own.** The first five are reproduced
by changing the constants of a journal or pipeline configuration and checking the
property by itself.

* `ReadonlyOpens = TRUE` in `JournalRecovery.cfg` violates `SecuredStaysSecured`:
  a session opened read-only does not replay the log (`cold_start.rs:124`); when
  the host then lifts read-only, the stored content is edited and saved without
  the log's transactions, and the acknowledge of that save, by `through_sequence`
  (`persistence_pipeline.rs:342-348`), removes their rows.
  `doc/architecture/重构方案 0722.md:1221` says "兼容 emergency log 在只读模式不
  replay、不 ack".
* `AutosaveEnabled = FALSE` in `PipelineLive.cfg` violates `BarrierAnswered`: a
  `save()` asked for while an older save runs is not covered by it, and nothing
  starts another (`persistence_pipeline.rs:191-198`);
  `doc/guides/cditor-component-integration.md:165-166` tells the host to await the
  task.
* `TransactionUndo = TRUE` violates `JournalIdsIncrease`: undo and redo journal
  the recorded transaction again under its own id (`undo_redo.rs:110`, `:163`),
  although `transaction_state.rs:3` speaks of "Monotonic transaction identity".
  An adapter that drops known ids does not log the undo.
* `MatchesRetained = TRUE` with a crash violates `RecoveryFaithful`: ids restart
  at 1 in each session, and a row left by a failed acknowledge hides the first
  transaction of the next session. With `MatchesRetained = FALSE` and
  `LateFailures = TRUE` it is `RecoveryOpens` that fails, even without a crash: a
  batch that landed before its timeout is appended again when it is sent again,
  and its replay over content that has it already is refused.
* `MaxLogEntries < MaxChanges` violates `RecoveryOpens`: opening refuses a log of
  more than 4096 rows, appending does not stop there.
* An export made while a save is in flight contains only the drained journal
  (`emergency_log.rs:73`), so it lacks the batch in flight.
* `RemoteEdit` marks the document dirty, as `apply_remote_transaction` does
  (`sdk.rs:285`), while `origin.rs:54-56` says of `marks_document_dirty` that remote
  changes need no local save and `doc/collaboration-design.md:33` "远程操作不进本地
  undo、不标记 dirty".

**Observations made while modelling**, with the line where each can be seen:

* Host deactivation also discards the results of a spill and of a prefetch. The
  step then stays `Externalizing`, its slot busy (`persistence_bridge.rs:208`); the
  prefetch lane stays taken until a drag or a retry resets it. It is the mechanism
  of `pipeline_host_inactive`; `UndoHistory` leaves it out, `PayloadWindow` has it
  (`DiscardPrefetches`) and holds all the same, since visible loads take over.
* Undo of typing rewinds the content version (`undo_redo.rs:393`), so a version can
  be reused for other content. A save of the first then marks the second as
  persisted, although `payload_cache.rs:5-6` relies on the exact version.
* `prune_undo_blobs(100)` after a flush (`persistence_session.rs:41`) knows nothing
  of the history and may delete a blob a step refers to.
* After any error of Undo a blob on top is taken for the reason and read back
  (`history_port.rs:97`), and the command is then repeated on whatever is on top.
  An undo that applied and failed to restore its selection is not marked dirty.
* Undo or redo of a text pushes the current text on the other side before
  `restore_snapshot` and the event after it (`undo_redo.rs:91-97`, `:145-151`). If
  restoring fails (the table height, the focus, the scroll position: `:390-391`,
  `:410-454`), a snapshot without an event is left, in a document that may have
  changed and is not marked dirty. The next redo of the block takes that snapshot
  instead of its own, and at the limit of a block the oldest event and the oldest
  snapshot are cut though they no longer belong together (`:258-266`): with
  snapshots only of this sort, the event cut is the one just pushed. `UndoHistory`
  has this path. `EventsMatchSteps` therefore says that every event has an entry,
  and the reverse only of transactions.
* A blob is leaked when its step is hydrated and dropped before it is spilled
  again, and when a write that timed out lands later. No property forbids it.
* Merged typing leaves one event too many and the oldest one is cut
  (`transaction_apply.rs:404`), so text and transaction entries can be undone in
  another order than they were made. `EventsMatchSteps` is about their number.
* A text layout of 2.0 to 2.5 ms cannot run while the user types (budget 2.0 ms)
  and holds up everything that ranks behind it until typing ends.
* When a frame queues tasks again and one is refused as stale, its callback is
  dropped without its cancel (`main_thread_scheduler.rs:198`). It cannot happen, as
  `CancelHonoured` shows, while no callback enqueues newer work synchronously.
* One block out of attempts, if it is the first failed one of the window, keeps
  the rest of the window from being requested (`payload_scheduling.rs:62`).
* `begin_save` with nothing to save returns before `update_pin`
  (`optimistic_persistence.rs:163`): after a late failure a clean block stays pinned
  and queued until its next successful save.

### Bounds

`MaxRevision`/`MaxChanges`, `MaxFailures`, `MaxCrashes`, `MaxBegins` and
`MaxSessions` bound edits, failures, crashes, tasks and sessions. Three edits
put one before, one during and one after a save; two barriers let one be covered
by the running save and the other not, or one be in a flush while the other
waits for it. Four changes let two transactions be in a failed batch and two
follow it; two crashes put a recovered session through a failed save of its own.
`GenerationModulus` is just above `MaxBegins`: the counter reaches its last value
but does not wrap, which takes 2^64 tasks in the code. Deadlock is not checked
in these runs: with the bounds used up and nothing unsaved the system rests.

`MaxTasks`, `MaxGeneration`, `MaxOrder` and `MaxClears` bound the scheduler: three
results let one supersede another while a third is over the budget; `MaxOrder`
leaves one requeue, without it a deadline could requeue for ever. The budgets are
2 when idle and 1 when typing, a text costs 1 or 2. The four kinds stand for the
others: in front of or behind typing, with a cancel callback or not, always,
sometimes or never with a block; the proofs are for all kinds.

`PayloadWindow` has two blocks in a cache for one, one edit, one attempt and two
generations, which is one load of each lane; more of any multiplies the states
without a new way for two loads to meet. `UndoHistory` makes four records, up to
three of them transactions, in a history of two steps and two text snapshots, so
that a step is cut while it is spilled and a text while another has no event,
and one late effect at a time. `OptimisticPersistence` has three writes of
versions up to two: two saves of one block overlap while another block fails.
These four check for deadlock.

### Fairness

`FairSpec` assumes weak fairness of the background save and of the flush (each
runs under a timeout, `run_storage_save_with_timeout` and
`run_storage_flush_with_timeout`, so it ends one way or the other), of their
callbacks (the main-thread queue drains), and of the autosave timer (the
executor fires it). Nothing is assumed of the user or the host: no edit, retry,
read-only switch or further barrier need ever come. That the queue drains is what
`MainThreadScheduler` shows under weak fairness of the executor's two timers
alone, for a user who stops typing at some point (`AllResolved`); a user who types
for ever can hold back background callbacks for ever. `PayloadWindow` assumes that
a shown view is rendered again after each notify, that reads end by their timeout
and that completed visible reads are applied; nothing of prefetches, saves or
trims. `ViewportResolved` speaks of a user who leaves the viewport where it is.
In the passing liveness run host deactivation and read-only switches are off: with the
first a barrier can stay unanswered (the violation run), and a barrier pending
while the document is read-only waits for it to become writable.

## 4. Proofs

`SessionTasksProofs` (116 obligations): `TypeCorrect`, `CompletionCurrent`,
`TokensFresh`, for any kinds, keys and bounds with `MaxBegins <
GenerationModulus` (`BoundsAssumption`). The invariant relates each slot to the
one live token of its kind and bounds every generation by the counter.

`PersistencePipelineProofs` (over 800 obligations), for any set of barriers, any bounds
and any setting of the switches (`PipelineAssumption`):

* `TypeCorrect`, `SlotsAgree`, `BarriersDurable`, `CleanIsDurable`,
  `GenerationsTracked` from one inductive invariant, `IndInv` = `TypeOK` /\
  `SlotTracksWork` /\ `GenerationsTrackContent` /\ `BarrierDurable`.
  `BarrierDurable` is not inductive by itself: the pipeline compares
  *generations*, the property speaks of *revisions* in storage.
  `GenerationsTrackContent` says how the two keep pace: equal generations mean
  equal content, the request in flight lies between what is stored and what is
  in memory, and a pending barrier covered by a generation asked for a revision
  that generation includes. `SlotTracksWork` is needed because the code starts a
  save by the slot and finishes it by the flag.
* `AutosaveNeverForgotten` and `DebounceTimed`, assuming no remote edits
  (`RemoteEdits = FALSE`): `apply_remote_transaction` marks the document dirty
  and arms no timer, so with them the statements are false. `IndInv` is
  strengthened by `DebounceHasTimer` /\ `AutosaveArmed`.
* `PipelineImplementsContract`: under the mapping document <- `revision`,
  durable <- `stored`, promise <- the barrier's state, every step is a step of
  `PersistenceContract` or a stutter. Edits map to `Change`, `SaveCommits` to
  `Persist`, `FlushCompletes` to `Flush`, all handlers that touch barriers to
  `Answer`.

Lemmas (`FlushFacts`, `ScheduleFacts`, `FlushArms`, and those about settling)
state once what the shared functions do to flags, timers and barriers.

`MainThreadSchedulerProofs`, for any kinds, blocks, modes and budgets
(`SchedulerAssumption`): `SchedulerTypeCorrect`, `SchedulerQueueAgrees`,
`SchedulerOnlyNewestQueued`, `SchedulerWakeIsComing`, `SchedulerCancelHonoured`,
`SchedulerResolvedOnce` and `SchedulerNoOvertaking`. The inductive invariant
adds that ids are handed out in order (`IdsHandedOut`) and that a queued task
has the generation the arbiter's map has for its key (`NewestOfKey`). It is
needed because a frame that meets a stale task drops it and a requeue of one is
refused, the latter without its cancel callback: with the supersession done at
once by `Enqueue`, no queued task is ever stale, so neither happens.
`SchedulerNoOvertaking` rests on a fact about the sum of costs that `Ready`
compares with the budget: the sum over a set does not depend on the order in
which it is taken (`SumsAnyOrder`) and grows with the set (`CostGrows`), so what
ranks before an affordable task is affordable too. Both are inductions over the
size of the set, in the way described below for the journal.

`PayloadWindowProofs`, for any document, viewport, cache size, number of attempts
and edits (`WindowAssumption`): `WindowTypeCorrect`, `WindowMarkersHeld`,
`WindowNoEditLost`, `WindowCleanIsStored`. The invariant adds `LoadsCurrent` (a load
that still owns a block has read what the store has) and `VersionsOrdered` (what
a save writes lies between the store and the last edit; what is known as saved is
not ahead of memory). A load that owns a block finds it not
resident, hence its last version in the store, hence in what it read; a commit
changes no block that is not resident, since it is the newest there already; only
clean blocks are evicted, and a clean one is stored.

`OptimisticPersistenceProofs` (over 500 obligations), for any blocks and bounds:
`OptimisticTypeCorrect`, `OptimisticCloseGuardSound`, `OptimisticUnsavedKept`,
`OptimisticSavingHasWrite`, `OptimisticResultsOnlyAdvance`. The invariant orders
persisted <= stored <= memory for each block (`StateSound`), bounds every write by
the version in memory and every landed write by the store (`WritesSound`).

`UndoHistoryProofs` (almost 3000 obligations), for any limits, transactions and any
number of late effects: `HistoryTypeOK`, `HistoryEventsMatch`, `HistorySpillHasJob`,
`HistoryDeletesSpare` and `HistoryImplementsContract`. None of the properties is
inductive by itself, because every one depends on who owns a snapshot id. `IInv`
says: ids in use are below `next_snapshot_id` and carried by one step only (on
either stack); a step is in state `Externalizing` exactly when the one spill job
has its id; the content of a step, in memory, in the job, in the store or read
back, is what was recorded under its id; a blob is absent or what was recorded
under its id, so a late write can only restore it; no cleanup, orphan or late
delete has the id of a step; each side has an event for every step and no event
without its entry; both sides together keep no more text snapshots than the limit,
those left by failed restores included, so one round of trimming is enough.
Under the mapping of the steps to their contents every action is a step of
`UndoContract` or a stutter. Lemmas about cutting, appending and replacing one
element of a stack carry the sequences.

`EmergencyJournalProofs` (1400 obligations), for every setting of the constants,
undo that succeeds, read-only opens, late failures and crashes included:
`JournalTypeOK` and `JournalCleanIsStored`, from the types and `CleanInv` (what
the batch in flight holds is the document unless it was changed since, and what
an idle clean document shows is stored). The recursive functions `Subsequence`
(the rows that remain) and `Replayed` (the replay) are over sequences of any
length. The library's induction theorems are parameterised by an operator, which
the provers cannot instantiate; its theorem that a set with a well-founded order
has minimal elements is not. `NumberInduction` takes the least counterexample in
a set that each lemma defines for itself, so it serves as induction over
lengths: first that the recursive function exists, then what it computes.

`EmergencyRecoveryProofs` (2300 obligations) extends it with the guarantees of
`journal_session` and `journal_recovery`: `JournalRecoveryFaithful`,
`JournalRecoveryOpens`, `JournalIsComplete`, `JournalIdsGrow` and
`JournalSecuredStaysSecured`, for any number of edits and failures. The hypothesis
`Exact` is the choice of switches those two runs make: no undo and no read-only
opens, and either an append that matches the rows still to recover, no failures
after the commit and any number of crashes (`Recovering`), or an append that
matches every retained row, late failures or not, within one session
(`OneSession`). With any of these switches the other way, one or another of the
statements is false, as section 3 lists. `JournalRecoveryOpens` also needs
`MaxChanges <= MaxLogEntries`, for the same reason.

The invariant `RecoveryInv` relates the four places where a transaction can be. The
journal, `batch.transactions \o pending`, is a *line*: each transaction requires the
version that its predecessors lead to and brings a new edit. Storage has the first
`k` of them and the line leads from there to the document; the rows to recover are
the next ones and lead to `durable`; the batch ends at or after them, at exactly that
point once appended, at `k` once committed. Ids increase along the line and stay
below `next_id`; for `OneSession` the log knows exactly the ids that an append must
skip, for `Recovering` `k` is 0 until the commit. When no document is open the rows
form a line from the stored content to `durable`. By induction the replay of a
line succeeds and makes what the line leads to (`ReplayLine`); opening turns that
line into the journal of the next session. TLC checked `RecoveryInv` in every state
of both configurations (413,913 and 94,032 states) before it was proved. With it the
edits a crash cannot take are those of `durable`, which no step shrinks
(`SecuredEdits`, `DurableGrows`).

Together these theorems state every invariant and action property that a passing run
checks, and both refinements. The type invariants of `UndoHistory` and
`EmergencyJournal` are also checked by TLC, since they contain more than types (the
limit of the stacks, the order of the log); the others are theorems only.

Only model-checked: liveness (`BarrierAnswered`, `AutosaveDrains`, `AllResolved`,
`ViewportResolved`), which is out of the prover's reach.

## 5. Not modelled

* Byte and block limits of the log, entry schema versions and the forced
  read-only mode they cause, payload hydration during recovery.
* Several blocks in the journal: version preconditions are per block, so one
  suffices there; structure versions and moves between blocks are not covered.
* `set_session` on a live pipeline: no caller outside tests.
* An empty capture with unpersisted generations (`persistence_port.rs:73`).
* In the journal, an undo or redo that fails after it changed the document (section
  3); `UndoHistory` has that error path, but no stored content.
* Text snapshots of several blocks and TEXT_UNDO_MAX_STEPS, the limit over all of
  them.
* `prune_undo_blobs`, the byte limit of text history, `try_admit_inline`, the bound
  on remembered load failures, byte estimates and LRU order of the cache.
* Selection materialization (`selection_materialization.rs:127-183`): it reads in
  several background steps and compares no window generation.
* Rendering, layout, geometry, markdown and HTML importers and exporters, the HTTP
  server, AI providers, whiteboard, video and other UI components, tests and
  vendored code. They are nearly all of the repository's 200,000 lines: floating
  point geometry, drawing, text conversions and I/O, sequential and without
  protocol state that interleaves. A model of them would be a transliteration, so
  the share of lines that the map covers is small and will stay so; what it covers
  is the code in which handlers, background work and storage meet.

## 6. Plan

Done: all modules above and their proofs. To come: a module for selection
materialization, and the life cycle of a composition (`editing/composition.rs`),
each small enough for proofs beside the model.
