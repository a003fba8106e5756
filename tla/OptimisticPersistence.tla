------------------------ MODULE OptimisticPersistence ------------------------
(***************************************************************************)
(* The storage crate's OptimisticPersistenceManager: per block the version *)
(* in memory, the version known to be saved and the version being saved;   *)
(* the blocks that must stay in memory, the blocks whose save failed, and  *)
(* the close guard.                                                        *)
(*                                                                         *)
(* The manager's methods are atomic.  The writes its SaveStarted events    *)
(* ask for are external: several of a block may be under way, they end in  *)
(* any order, and one whose failure was reported may still land.           *)
(***************************************************************************)
EXTENDS Naturals, FiniteSets

CONSTANTS
    Blocks,
    MaxVersion,    \* bound: versions per block
    MaxSaves       \* bound: writes in all

ASSUME OptimisticAssumption == MaxVersion \in Nat /\ MaxSaves \in Nat

Versions == 0..MaxVersion
Larger(m, n) == IF m < n THEN n ELSE m

VARIABLES
    blocks,            \* BlockPersistenceState of each block (clean at 0 if untracked)
    pinned_blocks,
    recovery_queue,    \* which blocks are queued; nothing reads their order
    \* external: the writes under way or reported as failed but not finished,
    \* the number of writes started, and the newest version in the store
    writes, saves, store

vars == <<blocks, pinned_blocks, recovery_queue, writes, saves, store>>

-----------------------------------------------------------------------------
(* BlockPersistenceState; saving_version 0 is None.                        *)
clean(version) ==
    [persisted_version |-> version, memory_version |-> version, saving_version |-> 0,
     state |-> "Clean"]

has_unsaved_content(s) == s.persisted_version # s.memory_version \/ s.state = "SaveFailed"

\* apply_memory_edit
Edited(s, version) ==
    LET memory == Larger(s.memory_version, version) IN
    [s EXCEPT !.memory_version = memory,
              !.state = IF s.saving_version # 0 THEN "Saving"
                        ELSE IF s.persisted_version = memory THEN "Clean" ELSE "Dirty"]

\* begin_save
Begun(s) ==
    IF s.persisted_version = s.memory_version
    THEN [s EXCEPT !.saving_version = 0, !.state = "Clean"]
    ELSE [s EXCEPT !.saving_version = s.memory_version, !.state = "Saving"]

(* Mutant: the save that is waited for was the last one needed. *)
SucceededIfAwaited(s, version) ==
    [s EXCEPT !.persisted_version = Larger(@, version),
              !.saving_version = IF @ = version THEN 0 ELSE @,
              !.state = IF s.saving_version = version THEN "Clean" ELSE "Dirty"]

(* Mutant: the last result wins. *)
SucceededBack(s, version) ==
    [s EXCEPT !.persisted_version = version,
              !.saving_version = IF @ = version THEN 0 ELSE @,
              !.state = IF version = s.memory_version THEN "Clean" ELSE "Dirty"]

\* save_succeeded, also for a save that is not the one waited for.
Succeeded(s, version) ==
    LET persisted == IF s.saving_version = version \/ version > s.persisted_version
                     THEN Larger(s.persisted_version, version) ELSE s.persisted_version
    IN [s EXCEPT !.persisted_version = persisted,
                 !.saving_version = IF @ = version THEN 0 ELSE @,
                 !.state = IF persisted = s.memory_version THEN "Clean" ELSE "Dirty"]

(* Mutant: keeps waiting for the save that failed. *)
FailedWaiting(s, version) == [s EXCEPT !.state = "SaveFailed"]

\* save_failed
Failed(s, version) ==
    [s EXCEPT !.saving_version = IF @ = version THEN 0 ELSE @, !.state = "SaveFailed"]

-----------------------------------------------------------------------------
(* OptimisticPersistenceManager.                                           *)
Init ==
    /\ blocks = [b \in Blocks |-> clean(0)]
    /\ pinned_blocks = {} /\ recovery_queue = {}
    /\ writes = {} /\ saves = 0 /\ store = [b \in Blocks |-> 0]

(* Mutant: only a failed save pins its block. *)
PinnedIfFailed(b, s) ==
    IF s.state = "SaveFailed" THEN pinned_blocks \cup {b} ELSE pinned_blocks \ {b}

\* update_pin
Pinned(b, s) == IF has_unsaved_content(s) THEN pinned_blocks \cup {b} ELSE pinned_blocks \ {b}

\* A method that changes the state of a block and then its pin.
Update(b, s) == blocks' = [blocks EXCEPT ![b] = s] /\ pinned_blocks' = Pinned(b, s)

\* track_clean_block: a block is read from the store, which happens only
\* while it is not pinned.
track_clean_block(b) ==
    /\ b \notin pinned_blocks
    /\ Update(b, clean(store[b]))
    /\ UNCHANGED <<recovery_queue, writes, saves, store>>

\* The next version, or one the manager has heard of.
apply_memory_edit(b, version) ==
    /\ version <= blocks[b].memory_version + 1 /\ version > 0
    /\ Update(b, Edited(blocks[b], version))
    /\ UNCHANGED <<recovery_queue, writes, saves, store>>

\* Nothing to save: the state changes, the pin does not.  Otherwise a
\* SaveStarted event, and with it a write.
begin_save(b) ==
    LET s == Begun(blocks[b]) IN
    \/ /\ s.state = "Clean"
       /\ blocks' = [blocks EXCEPT ![b] = s]
       /\ UNCHANGED <<pinned_blocks, recovery_queue, writes, saves, store>>
    \/ /\ s.state = "Saving" /\ saves < MaxSaves
       /\ Update(b, s)
       /\ saves' = saves + 1
       /\ writes' = writes \cup {[id |-> saves', block |-> b, version |-> s.saving_version,
                                  phase |-> "writing"]}
       /\ UNCHANGED <<recovery_queue, store>>

\* external: a write lands; the store keeps the newer version.
Commit(w) ==
    /\ w \in writes /\ w.phase \in {"writing", "reported"}
    /\ store' = [store EXCEPT ![w.block] = Larger(@, w.version)]
    /\ writes' = (writes \ {w}) \cup
                    (IF w.phase = "writing" THEN {[w EXCEPT !.phase = "landed"]} ELSE {})
    /\ UNCHANGED <<blocks, pinned_blocks, recovery_queue, saves>>

save_succeeded(w) ==
    LET s == Succeeded(blocks[w.block], w.version) IN
    /\ w \in writes /\ w.phase = "landed"
    /\ Update(w.block, s)
    /\ recovery_queue' = IF has_unsaved_content(s) THEN recovery_queue
                         ELSE recovery_queue \ {w.block}
    /\ writes' = writes \ {w}
    /\ UNCHANGED <<saves, store>>

\* An error, or a timeout: the write has landed, or may still land, or not.
save_failed(w) ==
    /\ w \in writes /\ w.phase \in {"writing", "landed"}
    /\ Update(w.block, Failed(blocks[w.block], w.version))
    /\ recovery_queue' = recovery_queue \cup {w.block}
    /\ \/ writes' = writes \ {w}
       \/ w.phase = "writing" /\ writes' = (writes \ {w}) \cup {[w EXCEPT !.phase = "reported"]}
    /\ UNCHANGED <<saves, store>>

\* close_guard_report
can_close_without_prompt == \A b \in Blocks : blocks[b].state = "Clean"

Next ==
    \/ \E b \in Blocks : track_clean_block(b) \/ begin_save(b)
    \/ \E b \in Blocks : \E version \in Versions : apply_memory_edit(b, version)
    \/ \E w \in writes : Commit(w) \/ save_succeeded(w) \/ save_failed(w)

Spec == Init /\ [][Next]_vars

-----------------------------------------------------------------------------
BlockState == [persisted_version : Versions, memory_version : Versions,
               saving_version : Versions,
               state : {"Clean", "Dirty", "Saving", "SaveFailed"}]
WriteSet == [id : 1..MaxSaves, block : Blocks, version : Versions \ {0},
             phase : {"writing", "landed", "reported"}]

\* Types of the manager and the writes.
TypeOK ==
    /\ blocks \in [Blocks -> BlockState]
    /\ pinned_blocks \subseteq Blocks /\ recovery_queue \subseteq Blocks
    /\ writes \subseteq WriteSet /\ saves \in 0..MaxSaves
    /\ store \in [Blocks -> Versions]

\* When the close guard lets the window go without a prompt, the store has
\* every block as it is in memory, whatever order results came in.
CloseGuardSound == can_close_without_prompt => \A b \in Blocks : store[b] = blocks[b].memory_version

\* A block whose memory is ahead of the store stays in memory, and one whose
\* last save failed stays there and is queued for recovery.
UnsavedKept ==
    \A b \in Blocks : /\ store[b] # blocks[b].memory_version => b \in pinned_blocks
                      /\ blocks[b].state = "SaveFailed" => b \in pinned_blocks \cap recovery_queue

\* A block that reports Saving has its write under way, so the close guard
\* never holds the window for a save that will not be answered.
SavingHasWrite ==
    \A b \in Blocks :
        /\ blocks[b].state = "Saving" => blocks[b].saving_version # 0
        /\ blocks[b].saving_version # 0 =>
             \E w \in writes : /\ w.block = b /\ w.version = blocks[b].saving_version
                               /\ w.phase # "reported"

\* Results out of order never take a saved version back, and a block leaves
\* the recovery queue only when the store has all of it.
ResultsOnlyAdvance ==
    [][\A b \in Blocks :
         /\ blocks'[b].persisted_version >= blocks[b].persisted_version
         /\ b \in recovery_queue \ recovery_queue' => store'[b] = blocks'[b].memory_version]_vars
=============================================================================
