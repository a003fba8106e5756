--------------------- MODULE OptimisticPersistenceProofs ---------------------
(***************************************************************************)
(* Proofs about the optimistic persistence manager, for any set of blocks  *)
(* and any number of versions and writes.                                  *)
(***************************************************************************)
EXTENDS OptimisticPersistence, TLAPS

(* What the manager believes to be saved is in the store, and nothing is   *)
(* ahead of the memory; Clean is only said of a block that is all saved.   *)
StateSound(b) ==
    /\ blocks[b].persisted_version <= store[b]
    /\ store[b] <= blocks[b].memory_version
    /\ blocks[b].state = "Clean" => blocks[b].persisted_version = blocks[b].memory_version
    /\ blocks[b].state = "Saving" => blocks[b].saving_version # 0
    /\ has_unsaved_content(blocks[b]) => b \in pinned_blocks
    /\ blocks[b].state = "SaveFailed" => b \in recovery_queue

(* A version that is waited for is being written. *)
AwaitedIsWritten(b) ==
    blocks[b].saving_version # 0 =>
        \E w \in writes : /\ w.block = b /\ w.version = blocks[b].saving_version
                          /\ w.phase # "reported"

(* No write is ahead of the memory, and a landed one is in the store. *)
WritesSound ==
    \A w \in writes : /\ w.version <= blocks[w.block].memory_version
                      /\ w.phase = "landed" => w.version <= store[w.block]

Inv == /\ TypeOK /\ WritesSound
       /\ \A b \in Blocks : StateSound(b) /\ AwaitedIsWritten(b)

(* What ResultsOnlyAdvance says of a step. *)
Advance ==
    \A b \in Blocks :
        /\ blocks'[b].persisted_version >= blocks[b].persisted_version
        /\ b \in recovery_queue \ recovery_queue' => store'[b] = blocks'[b].memory_version

-----------------------------------------------------------------------------
(* A manager that tracks nothing yet. *)
LEMMA InitInv == Init => Inv
<1> SUFFICES ASSUME Init PROVE Inv
  OBVIOUS
<1> USE OptimisticAssumption DEF Init, clean
<1>1. TypeOK
  BY DEF TypeOK, BlockState, Versions
<1>2. WritesSound
  BY DEF WritesSound
<1>3. \A b \in Blocks : StateSound(b) /\ AwaitedIsWritten(b)
  BY DEF StateSound, AwaitedIsWritten, has_unsaved_content
<1> QED BY <1>1, <1>2, <1>3 DEF Inv

(* A method that leaves a block in a sound state, its pin updated, leaves  *)
(* all blocks in one.                                                      *)
LEMMA UpdateKeeps ==
    ASSUME Inv, NEW b \in Blocks, NEW s \in BlockState,
           blocks' = [blocks EXCEPT ![b] = s],
           pinned_blocks' = IF has_unsaved_content(s) THEN pinned_blocks \cup {b}
                            ELSE pinned_blocks \ {b},
           s.persisted_version <= store[b], store[b] <= s.memory_version,
           s.state = "Clean" => s.persisted_version = s.memory_version,
           s.state = "Saving" => s.saving_version # 0,
           s.state = "SaveFailed" => b \in recovery_queue',
           recovery_queue \ {b} \subseteq recovery_queue',
           store' = store
    PROVE  /\ blocks' \in [Blocks -> BlockState] /\ pinned_blocks' \subseteq Blocks
           /\ \A c \in Blocks : StateSound(c)'
           /\ blocks'[b] = s /\ \A c \in Blocks \ {b} : blocks'[c] = blocks[c]
<1>0. blocks \in [Blocks -> BlockState] /\ pinned_blocks \subseteq Blocks
  BY DEF Inv, TypeOK
<1>1. blocks'[b] = s /\ \A c \in Blocks \ {b} : blocks'[c] = blocks[c]
  BY <1>0
<1>2. blocks' \in [Blocks -> BlockState] /\ pinned_blocks' \subseteq Blocks
  BY <1>0
<1>3. ASSUME NEW c \in Blocks PROVE StateSound(c)'
  <2>1. CASE c = b
    BY <1>1, <2>1 DEF StateSound, has_unsaved_content
  <2>2. CASE c # b
    BY <1>1, <2>2 DEF Inv, StateSound, has_unsaved_content
  <2> QED BY <2>1, <2>2
<1> QED BY <1>1, <1>2, <1>3

(* What is said of the writes survives a step that changes none of them,   *)
(* lowers no memory version and waits for no other save.                   *)
LEMMA WritesKept ==
    ASSUME Inv, UNCHANGED <<writes, store>>,
           \A b \in Blocks : /\ blocks[b].memory_version <= blocks'[b].memory_version
                             /\ blocks'[b].saving_version \in {0, blocks[b].saving_version},
           blocks' \in [Blocks -> BlockState]
    PROVE  WritesSound' /\ \A b \in Blocks : AwaitedIsWritten(b)'
<1>1. \A w \in writes : w.block \in Blocks /\ w.version \in Nat
  BY DEF Inv, TypeOK, WriteSet, Versions
<1>2. \A b \in Blocks : blocks[b].memory_version \in Nat /\ blocks'[b].memory_version \in Nat
  BY DEF Inv, TypeOK, BlockState, Versions
<1>3. WritesSound'
  BY <1>1, <1>2 DEF Inv, WritesSound
<1>4. \A b \in Blocks : AwaitedIsWritten(b)'
  BY DEF Inv, AwaitedIsWritten
<1> QED BY <1>3, <1>4

-----------------------------------------------------------------------------
(* Reading a block that is not pinned finds what memory had. *)
LEMMA TrackStep == ASSUME Inv, NEW b \in Blocks, track_clean_block(b) PROVE Inv' /\ Advance
<1> DEFINE s == clean(store[b])
<1>0. /\ blocks' = [blocks EXCEPT ![b] = s]
      /\ pinned_blocks' = IF has_unsaved_content(s) THEN pinned_blocks \cup {b}
                          ELSE pinned_blocks \ {b}
      /\ UNCHANGED <<recovery_queue, writes, saves, store>> /\ b \notin pinned_blocks
  BY DEF track_clean_block, Update, Pinned
<1>1. store[b] \in Versions /\ store[b] \in Nat /\ blocks[b] \in BlockState
  BY DEF Inv, TypeOK, Versions
<1>2. s \in BlockState
  BY <1>1, OptimisticAssumption DEF clean, BlockState, Versions
<1>3. s.persisted_version = store[b] /\ s.memory_version = store[b] /\ s.state = "Clean"
        /\ s.saving_version = 0
  BY DEF clean
<1>4. blocks[b].memory_version = store[b]
  <2>1. blocks[b].persisted_version = blocks[b].memory_version
    BY <1>0 DEF Inv, StateSound, has_unsaved_content
  <2>2. blocks[b].persisted_version \in Nat
    BY <1>1 DEF BlockState, Versions
  <2> QED BY <1>1, <2>1, <2>2 DEF Inv, StateSound
<1> HIDE DEF s
<1>5. /\ blocks' \in [Blocks -> BlockState] /\ pinned_blocks' \subseteq Blocks
      /\ \A c \in Blocks : StateSound(c)'
      /\ blocks'[b] = s /\ \A c \in Blocks \ {b} : blocks'[c] = blocks[c]
  <2>1. s.persisted_version <= store[b] /\ store[b] <= s.memory_version
    BY <1>1, <1>3
  <2> QED BY <1>0, <1>2, <1>3, <2>1, UpdateKeeps
<1>6. \A c \in Blocks : /\ blocks[c].memory_version <= blocks'[c].memory_version
                        /\ blocks'[c].saving_version \in {0, blocks[c].saving_version}
  <2>1. \A c \in Blocks : blocks[c].memory_version \in Nat
    BY DEF Inv, TypeOK, BlockState, Versions
  <2> QED BY <1>1, <1>3, <1>4, <1>5, <2>1
<1>7. TypeOK'
  BY <1>0, <1>5 DEF Inv, TypeOK
<1>8. Advance
  <2>1. \A c \in Blocks : blocks[c].persisted_version \in Nat
    BY DEF Inv, TypeOK, BlockState, Versions
  <2>2. blocks[b].persisted_version <= store[b]
    BY DEF Inv, StateSound
  <2> QED BY <1>0, <1>1, <1>3, <1>5, <2>1, <2>2 DEF Advance
<1> QED BY <1>0, <1>5, <1>6, <1>7, <1>8, WritesKept DEF Inv

(* An edit moves the memory version only forward. *)
LEMMA EditStep ==
    ASSUME Inv, NEW b \in Blocks, NEW version \in Versions, apply_memory_edit(b, version)
    PROVE  Inv' /\ Advance
<1> DEFINE s == Edited(blocks[b], version)
<1>0. /\ blocks' = [blocks EXCEPT ![b] = s]
      /\ pinned_blocks' = IF has_unsaved_content(s) THEN pinned_blocks \cup {b}
                          ELSE pinned_blocks \ {b}
      /\ UNCHANGED <<recovery_queue, writes, saves, store>>
  BY DEF apply_memory_edit, Update, Pinned
<1>1. /\ blocks[b] \in BlockState /\ version \in Nat
      /\ blocks[b].memory_version \in Nat /\ blocks[b].persisted_version \in Nat
      /\ store[b] \in Nat
  BY DEF Inv, TypeOK, BlockState, Versions
<1>2. s \in BlockState
  BY <1>1 DEF Edited, BlockState, Larger
<1>3. /\ s.persisted_version = blocks[b].persisted_version
      /\ s.saving_version = blocks[b].saving_version
      /\ s.memory_version \in Nat /\ blocks[b].memory_version <= s.memory_version
      /\ s.state = "Clean" => s.persisted_version = s.memory_version
      /\ s.state = "Saving" => s.saving_version # 0
      /\ s.state # "SaveFailed"
  BY <1>1 DEF Edited, BlockState, Larger
<1> HIDE DEF s
<1>4. s.persisted_version <= store[b] /\ store[b] <= s.memory_version
  BY <1>1, <1>3 DEF Inv, StateSound
<1>5. /\ blocks' \in [Blocks -> BlockState] /\ pinned_blocks' \subseteq Blocks
      /\ \A c \in Blocks : StateSound(c)'
      /\ blocks'[b] = s /\ \A c \in Blocks \ {b} : blocks'[c] = blocks[c]
  BY <1>0, <1>2, <1>3, <1>4, UpdateKeeps
<1>6. \A c \in Blocks : /\ blocks[c].memory_version <= blocks'[c].memory_version
                        /\ blocks'[c].saving_version \in {0, blocks[c].saving_version}
  BY <1>3, <1>5 DEF Inv, TypeOK, BlockState, Versions
<1>7. TypeOK'
  BY <1>0, <1>5 DEF Inv, TypeOK
<1>8. Advance
  <2>1. \A c \in Blocks : blocks[c].persisted_version \in Nat
    BY DEF Inv, TypeOK, BlockState, Versions
  <2> QED BY <1>0, <1>1, <1>3, <1>5, <2>1 DEF Advance
<1> QED BY <1>0, <1>5, <1>6, <1>7, <1>8, WritesKept DEF Inv
(* A save starts, or there is nothing to save: the block is then Clean with *)
(* the pin it had.                                                         *)
LEMMA BeginStep == ASSUME Inv, NEW b \in Blocks, begin_save(b) PROVE Inv' /\ Advance
<1> DEFINE s == Begun(blocks[b])
<1>1. /\ blocks \in [Blocks -> BlockState] /\ blocks[b] \in BlockState
      /\ \A c \in Blocks : /\ blocks[c].persisted_version \in Nat
                           /\ blocks[c].memory_version \in Nat
      /\ store[b] \in Nat
      /\ blocks[b].persisted_version <= store[b] /\ store[b] <= blocks[b].memory_version
  BY DEF Inv, TypeOK, BlockState, Versions, StateSound
<1>2. s \in BlockState
  <2>1. 0 \in Versions
    BY OptimisticAssumption DEF Versions
  <2> QED BY <1>1, <2>1 DEF Begun, BlockState
<1>3. /\ s.persisted_version = blocks[b].persisted_version
      /\ s.memory_version = blocks[b].memory_version
      /\ \/ /\ s.state = "Clean" /\ s.saving_version = 0
            /\ s.persisted_version = s.memory_version
         \/ /\ s.state = "Saving" /\ s.saving_version = s.memory_version
            /\ s.memory_version # 0
  BY <1>1 DEF Begun, BlockState
<1>4. CASE /\ s.state = "Clean"
           /\ blocks' = [blocks EXCEPT ![b] = s]
           /\ UNCHANGED <<pinned_blocks, recovery_queue, writes, saves, store>>
  <2> HIDE DEF s
  <2>1. blocks'[b] = s /\ \A c \in Blocks \ {b} : blocks'[c] = blocks[c]
    BY <1>1, <1>4
  <2>2. TypeOK'
    BY <1>1, <1>2, <1>4 DEF Inv, TypeOK
  <2>3. ASSUME NEW c \in Blocks PROVE StateSound(c)'
    <3>1. CASE c = b
      BY <1>1, <1>3, <1>4, <2>1, <3>1 DEF StateSound, has_unsaved_content
    <3>2. CASE c # b
      BY <1>4, <2>1, <3>2 DEF Inv, StateSound, has_unsaved_content
    <3> QED BY <3>1, <3>2
  <2>4. \A c \in Blocks : /\ blocks[c].memory_version <= blocks'[c].memory_version
                          /\ blocks'[c].saving_version \in {0, blocks[c].saving_version}
    BY <1>1, <1>3, <1>4, <2>1
  <2>5. Advance
    BY <1>1, <1>3, <1>4, <2>1 DEF Advance
  <2> QED BY <1>4, <2>2, <2>3, <2>4, <2>5, WritesKept DEF Inv, TypeOK
<1>5. CASE /\ s.state = "Saving" /\ saves < MaxSaves
           /\ blocks' = [blocks EXCEPT ![b] = s]
           /\ pinned_blocks' = IF has_unsaved_content(s) THEN pinned_blocks \cup {b}
                               ELSE pinned_blocks \ {b}
           /\ saves' = saves + 1
           /\ writes' = writes \cup {[id |-> saves', block |-> b, version |-> s.saving_version,
                                      phase |-> "writing"]}
           /\ UNCHANGED <<recovery_queue, store>>
  <2> DEFINE w == [id |-> saves', block |-> b, version |-> s.saving_version, phase |-> "writing"]
  <2> HIDE DEF s
  <2>1. /\ blocks' \in [Blocks -> BlockState] /\ pinned_blocks' \subseteq Blocks
        /\ \A c \in Blocks : StateSound(c)'
        /\ blocks'[b] = s /\ \A c \in Blocks \ {b} : blocks'[c] = blocks[c]
    BY <1>1, <1>2, <1>3, <1>5, UpdateKeeps
  <2>2. saves' \in 1..MaxSaves /\ saves' \in 0..MaxSaves
    BY <1>5, OptimisticAssumption DEF Inv, TypeOK
  <2>3. w \in WriteSet
    <3>1. s.saving_version \in Versions \ {0}
      BY <1>2, <1>3, <1>5 DEF BlockState
    <3> QED BY <2>2, <3>1 DEF WriteSet
  <2>4. w.block = b /\ w.version = s.saving_version /\ w.phase = "writing"
          /\ writes' = writes \cup {w}
    BY <1>5
  <2> HIDE DEF w
  <2>5. TypeOK'
    BY <1>5, <2>1, <2>2, <2>3, <2>4 DEF Inv, TypeOK
  <2>6. \A v \in writes : v.block \in Blocks
    BY DEF Inv, TypeOK, WriteSet
  <2>7. WritesSound'
    <3> SUFFICES ASSUME NEW v \in writes'
                 PROVE  /\ v.version <= blocks'[v.block].memory_version
                        /\ v.phase = "landed" => v.version <= store[v.block]
      BY <1>5 DEF WritesSound
    <3>1. CASE v \in writes
      <4>1. blocks'[v.block].memory_version = blocks[v.block].memory_version
        BY <1>3, <2>1, <2>6, <3>1
      <4> QED BY <3>1, <4>1 DEF Inv, WritesSound
    <3>2. CASE v = w
      BY <1>1, <1>3, <1>5, <2>1, <2>4, <3>2
    <3> QED BY <2>4, <3>1, <3>2
  <2>8. ASSUME NEW c \in Blocks PROVE AwaitedIsWritten(c)'
    <3>1. CASE c = b
      BY <2>1, <2>4, <3>1 DEF AwaitedIsWritten
    <3>2. CASE c # b
      BY <2>1, <2>4, <3>2 DEF Inv, AwaitedIsWritten
    <3> QED BY <3>1, <3>2
  <2>9. Advance
    BY <1>1, <1>3, <1>5, <2>1 DEF Advance
  <2> QED BY <2>1, <2>5, <2>7, <2>8, <2>9 DEF Inv
<1> QED BY <1>4, <1>5 DEF begin_save, Update, Pinned

(* A write lands: the store moves towards the memory, never past it. *)
LEMMA CommitStep == ASSUME Inv, NEW w \in writes, Commit(w) PROVE Inv' /\ Advance
<1> DEFINE landed == [w EXCEPT !.phase = "landed"]
<1>0. /\ w \in WriteSet /\ w.block \in Blocks /\ w.version \in Versions
      /\ w.version \in Nat /\ store \in [Blocks -> Versions] /\ store[w.block] \in Nat
      /\ w.version <= blocks[w.block].memory_version
      /\ \A b \in Blocks : blocks[b].persisted_version \in Nat /\ blocks[b].memory_version \in Nat
  BY DEF Inv, TypeOK, WriteSet, Versions, WritesSound, BlockState
<1>1. /\ store' = [store EXCEPT ![w.block] = Larger(store[w.block], w.version)]
      /\ writes' = (writes \ {w}) \cup (IF w.phase = "writing" THEN {landed} ELSE {})
      /\ UNCHANGED <<blocks, pinned_blocks, recovery_queue, saves>>
      /\ w.phase \in {"writing", "reported"}
  BY DEF Commit
<1>2. /\ landed \in WriteSet /\ landed.block = w.block /\ landed.version = w.version
      /\ landed.phase = "landed"
  BY <1>0 DEF WriteSet
<1> HIDE DEF landed
<1>3. /\ store'[w.block] = Larger(store[w.block], w.version)
      /\ \A b \in Blocks \ {w.block} : store'[b] = store[b]
      /\ store' \in [Blocks -> Versions]
  BY <1>0, <1>1 DEF Larger
<1>4. \A b \in Blocks : /\ store[b] <= store'[b] /\ store'[b] \in Nat /\ store[b] \in Nat
                        /\ store'[b] <= blocks[b].memory_version
  BY <1>0, <1>3 DEF Larger, Inv, StateSound, Versions
<1>5. TypeOK'
  BY <1>1, <1>2, <1>3 DEF Inv, TypeOK
<1>6. ASSUME NEW b \in Blocks PROVE StateSound(b)'
  BY <1>0, <1>1, <1>4 DEF Inv, StateSound, has_unsaved_content
<1>7. WritesSound'
  <2> SUFFICES ASSUME NEW v \in writes'
               PROVE  /\ v.version <= blocks[v.block].memory_version
                      /\ v.phase = "landed" => v.version <= store'[v.block]
    BY <1>1 DEF WritesSound
  <2>1. CASE v \in writes
    <3>1. v.block \in Blocks /\ v.version \in Nat
      BY <2>1 DEF Inv, TypeOK, WriteSet, Versions
    <3> QED BY <1>4, <2>1, <3>1 DEF Inv, WritesSound
  <2>2. CASE v = landed
    BY <1>0, <1>2, <1>3, <2>2 DEF Larger
  <2> QED BY <1>1, <2>1, <2>2
<1>8. ASSUME NEW b \in Blocks PROVE AwaitedIsWritten(b)'
  <2> SUFFICES ASSUME blocks[b].saving_version # 0
               PROVE  \E v \in writes' : /\ v.block = b /\ v.version = blocks[b].saving_version
                                         /\ v.phase # "reported"
    BY <1>1 DEF AwaitedIsWritten
  <2>1. PICK v \in writes : /\ v.block = b /\ v.version = blocks[b].saving_version
                            /\ v.phase # "reported"
    BY DEF Inv, AwaitedIsWritten
  <2>2. CASE v = w
    BY <1>1, <1>2, <2>1, <2>2
  <2>3. CASE v # w
    BY <1>1, <2>1, <2>3
  <2> QED BY <2>2, <2>3
<1>9. Advance
  BY <1>0, <1>1 DEF Advance
<1> QED BY <1>5, <1>6, <1>7, <1>8, <1>9 DEF Inv
(* A write of the block ends: the block waits for it no longer, other       *)
(* blocks and other versions still have theirs.                            *)
LEMMA WriteEnds ==
    ASSUME Inv, NEW w \in writes, NEW s \in BlockState,
           blocks'[w.block] = s, \A c \in Blocks \ {w.block} : blocks'[c] = blocks[c],
           s.memory_version = blocks[w.block].memory_version,
           s.saving_version = IF blocks[w.block].saving_version = w.version THEN 0
                              ELSE blocks[w.block].saving_version,
           NEW ended \in SUBSET WriteSet,
           \A v \in ended : /\ v.block = w.block /\ v.version = w.version
                            /\ v.phase = "reported",
           writes' = (writes \ {w}) \cup ended,
           store' = store
    PROVE  /\ writes' \subseteq WriteSet /\ WritesSound'
           /\ \A b \in Blocks : AwaitedIsWritten(b)'
<1>0. writes \subseteq WriteSet /\ \A v \in WriteSet : v.block \in Blocks
  BY DEF Inv, TypeOK, WriteSet
<1>1. WritesSound'
  <2> SUFFICES ASSUME NEW v \in writes'
               PROVE  /\ v.version <= blocks'[v.block].memory_version
                      /\ v.phase = "landed" => v.version <= store[v.block]
    BY DEF WritesSound
  <2>1. \A b \in Blocks : blocks'[b].memory_version = blocks[b].memory_version
    OBVIOUS
  <2>2. CASE v \in writes
    BY <1>0, <2>1, <2>2 DEF Inv, WritesSound
  <2>3. CASE v \in ended
    BY <1>0, <2>1, <2>3 DEF Inv, WritesSound
  <2> QED BY <2>2, <2>3
<1>2. ASSUME NEW b \in Blocks PROVE AwaitedIsWritten(b)'
  <2> SUFFICES ASSUME blocks'[b].saving_version # 0
               PROVE  \E v \in writes' : /\ v.block = b /\ v.version = blocks'[b].saving_version
                                         /\ v.phase # "reported"
    BY DEF AwaitedIsWritten
  <2>1. /\ blocks[b].saving_version # 0 /\ blocks'[b].saving_version = blocks[b].saving_version
        /\ b = w.block => blocks[b].saving_version # w.version
    BY <1>0
  <2>2. PICK v \in writes : /\ v.block = b /\ v.version = blocks[b].saving_version
                            /\ v.phase # "reported"
    BY <2>1 DEF Inv, AwaitedIsWritten
  <2> QED BY <2>1, <2>2
<1> QED BY <1>0, <1>1, <1>2

(* A save is reported as done: what it saved is in the store. *)
LEMMA SucceededStep == ASSUME Inv, NEW w \in writes, save_succeeded(w) PROVE Inv' /\ Advance
<1> DEFINE b == w.block
           s == Succeeded(blocks[b], w.version)
<1>0. /\ w \in WriteSet /\ b \in Blocks /\ w.version \in Nat /\ w.version \in Versions
      /\ blocks[b] \in BlockState /\ store[b] \in Nat
      /\ \A c \in Blocks : blocks[c].persisted_version \in Nat /\ blocks[c].memory_version \in Nat
      /\ w.version <= blocks[b].memory_version
      /\ blocks[b].persisted_version <= store[b] /\ store[b] <= blocks[b].memory_version
  BY DEF Inv, TypeOK, WriteSet, BlockState, Versions, WritesSound, StateSound
<1>1. /\ blocks' = [blocks EXCEPT ![b] = s]
      /\ pinned_blocks' = IF has_unsaved_content(s) THEN pinned_blocks \cup {b}
                          ELSE pinned_blocks \ {b}
      /\ recovery_queue' = IF has_unsaved_content(s) THEN recovery_queue
                           ELSE recovery_queue \ {b}
      /\ writes' = writes \ {w} /\ UNCHANGED <<saves, store>>
      /\ w.version <= store[b]
  BY DEF save_succeeded, Update, Pinned, Inv, WritesSound
<1>2. s \in BlockState
  <2>1. 0 \in Versions
    BY OptimisticAssumption DEF Versions
  <2> QED BY <1>0, <2>1 DEF Succeeded, BlockState, Larger
<1>3. /\ s.memory_version = blocks[b].memory_version
      /\ s.saving_version = IF blocks[b].saving_version = w.version THEN 0
                            ELSE blocks[b].saving_version
      /\ s.state = IF s.persisted_version = s.memory_version THEN "Clean" ELSE "Dirty"
      /\ s.persisted_version \in {blocks[b].persisted_version, w.version}
      /\ s.persisted_version >= blocks[b].persisted_version
  BY <1>0 DEF Succeeded, BlockState, Larger
<1> HIDE DEF s
<1>4. s.persisted_version <= store[b] /\ store[b] <= s.memory_version
  BY <1>0, <1>1, <1>3
<1>5. /\ blocks' \in [Blocks -> BlockState] /\ pinned_blocks' \subseteq Blocks
      /\ \A c \in Blocks : StateSound(c)'
      /\ blocks'[b] = s /\ \A c \in Blocks \ {b} : blocks'[c] = blocks[c]
  <2>1. /\ s.state = "Clean" => s.persisted_version = s.memory_version
        /\ s.state # "Saving" /\ s.state # "SaveFailed"
    BY <1>3
  <2>2. recovery_queue \ {b} \subseteq recovery_queue'
    BY <1>1
  <2> HIDE DEF b
  <2> QED BY <1>0, <1>1, <1>2, <1>4, <2>1, <2>2, UpdateKeeps
<1>6. writes' \subseteq WriteSet /\ WritesSound' /\ \A c \in Blocks : AwaitedIsWritten(c)'
  <2>1. writes' = (writes \ {w}) \cup {} /\ store' = store
    BY <1>1
  <2>2. {} \in SUBSET WriteSet
    OBVIOUS
  <2>3. \A v \in {} : v.block = w.block /\ v.version = w.version /\ v.phase = "reported"
    OBVIOUS
  <2>4. /\ blocks'[w.block] = s /\ \A c \in Blocks \ {w.block} : blocks'[c] = blocks[c]
        /\ s.memory_version = blocks[w.block].memory_version
        /\ s.saving_version = IF blocks[w.block].saving_version = w.version THEN 0
                              ELSE blocks[w.block].saving_version
    BY <1>3, <1>5
  <2> QED BY <1>2, <2>1, <2>2, <2>3, <2>4, WriteEnds
<1>7. TypeOK'
  BY <1>1, <1>5, <1>6 DEF Inv, TypeOK
<1>8. Advance
  <2>1. ~has_unsaved_content(s) => s.memory_version = store[b]
    <3>1. ~has_unsaved_content(s) => s.persisted_version = s.memory_version
      BY DEF has_unsaved_content
    <3>2. s.memory_version \in Nat
      BY <1>0, <1>3
    <3> QED BY <1>0, <1>4, <3>1, <3>2
  <2>2. recovery_queue \ recovery_queue' # {} => ~has_unsaved_content(s)
          /\ recovery_queue \ recovery_queue' = {b}
    BY <1>1
  <2>3. \A c \in Blocks : blocks'[c].persisted_version >= blocks[c].persisted_version
    BY <1>0, <1>3, <1>5
  <2> QED BY <1>0, <1>1, <1>5, <2>1, <2>2, <2>3 DEF Advance
<1> QED BY <1>5, <1>6, <1>7, <1>8 DEF Inv

(* A save is reported as failed: its block is queued for recovery. *)
LEMMA FailedStep == ASSUME Inv, NEW w \in writes, save_failed(w) PROVE Inv' /\ Advance
<1> DEFINE b == w.block
           s == Failed(blocks[b], w.version)
           reported == [w EXCEPT !.phase = "reported"]
<1>0. /\ w \in WriteSet /\ b \in Blocks
      /\ blocks[b] \in BlockState
      /\ \A c \in Blocks : blocks[c].persisted_version \in Nat
      /\ blocks[b].persisted_version <= store[b] /\ store[b] <= blocks[b].memory_version
  BY DEF Inv, TypeOK, WriteSet, BlockState, Versions, StateSound
<1>1. /\ blocks' = [blocks EXCEPT ![b] = s]
      /\ pinned_blocks' = IF has_unsaved_content(s) THEN pinned_blocks \cup {b}
                          ELSE pinned_blocks \ {b}
      /\ recovery_queue' = recovery_queue \cup {b}
      /\ writes' = writes \ {w} \/ writes' = (writes \ {w}) \cup {reported}
      /\ UNCHANGED <<saves, store>>
  BY DEF save_failed, Update, Pinned
<1>2. s \in BlockState
  <2>1. 0 \in Versions
    BY OptimisticAssumption DEF Versions
  <2> QED BY <1>0, <2>1 DEF Failed, BlockState
<1>3. /\ s.memory_version = blocks[b].memory_version
      /\ s.persisted_version = blocks[b].persisted_version
      /\ s.saving_version = IF blocks[b].saving_version = w.version THEN 0
                            ELSE blocks[b].saving_version
      /\ s.state = "SaveFailed"
  BY <1>0 DEF Failed, BlockState
<1>4. /\ reported \in WriteSet /\ reported.block = b /\ reported.version = w.version
      /\ reported.phase = "reported"
  BY <1>0 DEF WriteSet
<1> HIDE DEF s, reported
<1>5. /\ blocks' \in [Blocks -> BlockState] /\ pinned_blocks' \subseteq Blocks
      /\ \A c \in Blocks : StateSound(c)'
      /\ blocks'[b] = s /\ \A c \in Blocks \ {b} : blocks'[c] = blocks[c]
  <2>1. b \in recovery_queue' /\ recovery_queue \ {b} \subseteq recovery_queue'
    BY <1>1
  <2>2. s.persisted_version <= store[b] /\ store[b] <= s.memory_version
    BY <1>0, <1>3
  <2>3. s.state # "Clean" /\ s.state # "Saving"
    BY <1>3
  <2> HIDE DEF b
  <2> QED BY <1>0, <1>1, <1>2, <2>1, <2>2, <2>3, UpdateKeeps
<1>6. writes' \subseteq WriteSet /\ WritesSound' /\ \A c \in Blocks : AwaitedIsWritten(c)'
  <2>1. PICK ended \in SUBSET WriteSet :
          /\ writes' = (writes \ {w}) \cup ended
          /\ \A v \in ended : /\ v.block = w.block /\ v.version = w.version
                              /\ v.phase = "reported"
    <3>1. CASE writes' = writes \ {w}
      <4>1. writes' = (writes \ {w}) \cup {} /\ {} \in SUBSET WriteSet
        BY <3>1
      <4> QED BY <4>1
    <3>2. CASE writes' = (writes \ {w}) \cup {reported}
      <4>1. {reported} \in SUBSET WriteSet
        BY <1>4
      <4> QED BY <1>4, <3>2, <4>1
    <3> QED BY <1>1, <3>1, <3>2
  <2> QED BY <1>1, <1>2, <1>3, <1>5, <2>1, WriteEnds
<1>7. TypeOK'
  BY <1>0, <1>1, <1>5, <1>6 DEF Inv, TypeOK
<1>8. Advance
  BY <1>0, <1>1, <1>3, <1>5 DEF Advance
<1> QED BY <1>5, <1>6, <1>7, <1>8 DEF Inv

-----------------------------------------------------------------------------
(* Every step keeps the invariant and only advances. *)
LEMMA StepInv == ASSUME Inv, [Next]_vars PROVE Inv' /\ [Advance]_vars
<1>1. ASSUME NEW b \in Blocks, track_clean_block(b) \/ begin_save(b) PROVE Inv' /\ Advance
  BY <1>1, TrackStep, BeginStep
<1>2. ASSUME NEW b \in Blocks, NEW version \in Versions, apply_memory_edit(b, version)
      PROVE  Inv' /\ Advance
  BY <1>2, EditStep
<1>3. ASSUME NEW w \in writes, Commit(w) \/ save_succeeded(w) \/ save_failed(w)
      PROVE  Inv' /\ Advance
  BY <1>3, CommitStep, SucceededStep, FailedStep
<1>4. CASE UNCHANGED vars
  BY <1>4 DEF vars, Inv, TypeOK, WritesSound, StateSound, AwaitedIsWritten, has_unsaved_content
<1> QED BY <1>1, <1>2, <1>3, <1>4 DEF Next

(* All parts of the invariant hold together in every reachable state. *)
THEOREM OptimisticInvariant == Spec => []Inv
<1>1. Inv /\ [Next]_vars => Inv'
  BY StepInv
<1> QED BY InitInv, <1>1, PTL DEF Spec

(* The manager and the writes keep their types. *)
THEOREM OptimisticTypeCorrect == Spec => []TypeOK
<1>1. Inv => TypeOK
  BY DEF Inv
<1> QED BY OptimisticInvariant, <1>1, PTL

(* The close guard never lets unsaved content go without a prompt. *)
THEOREM OptimisticCloseGuardSound == Spec => []CloseGuardSound
<1>1. Inv => CloseGuardSound
  <2> SUFFICES ASSUME Inv, NEW b \in Blocks, blocks[b].state = "Clean"
               PROVE  store[b] = blocks[b].memory_version
    BY DEF CloseGuardSound, can_close_without_prompt
  <2>1. blocks[b].persisted_version \in Nat /\ store[b] \in Nat
    BY DEF Inv, TypeOK, BlockState, Versions
  <2> QED BY <2>1 DEF Inv, StateSound
<1> QED BY OptimisticInvariant, <1>1, PTL

(* Unsaved blocks are pinned, failed ones pinned and queued. *)
THEOREM OptimisticUnsavedKept == Spec => []UnsavedKept
<1>1. Inv => UnsavedKept
  <2> SUFFICES ASSUME Inv, NEW b \in Blocks
               PROVE  /\ store[b] # blocks[b].memory_version => b \in pinned_blocks
                      /\ blocks[b].state = "SaveFailed" => b \in pinned_blocks \cap recovery_queue
    BY DEF UnsavedKept
  <2>1. blocks[b].persisted_version \in Nat /\ store[b] \in Nat
    BY DEF Inv, TypeOK, BlockState, Versions
  <2> QED BY <2>1 DEF Inv, StateSound, has_unsaved_content
<1> QED BY OptimisticInvariant, <1>1, PTL

(* A block that reports Saving has its write under way. *)
THEOREM OptimisticSavingHasWrite == Spec => []SavingHasWrite
<1>1. Inv => SavingHasWrite
  BY DEF Inv, StateSound, AwaitedIsWritten, SavingHasWrite
<1> QED BY OptimisticInvariant, <1>1, PTL

(* Results out of order take nothing back and forget no failure. *)
THEOREM OptimisticResultsOnlyAdvance == Spec => ResultsOnlyAdvance
<1>1. Inv /\ [Next]_vars => [Advance]_vars
  BY StepInv
<1>2. Spec => [][Advance]_vars
  BY OptimisticInvariant, <1>1, PTL DEF Spec
<1> QED BY <1>2 DEF ResultsOnlyAdvance, Advance
=============================================================================
