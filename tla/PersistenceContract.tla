------------------------- MODULE PersistenceContract -------------------------
(***************************************************************************)
(* What saving promises to the host of the editor, without generations,    *)
(* slots, queues or timers: the document moves forward, storage follows it *)
(* and never falls back, and every save() or flush() is answered at most   *)
(* once - with success only when the revision the document had at the call *)
(* is in storage (save), or in storage and flushed (flush).                *)
(***************************************************************************)
EXTENDS Naturals

CONSTANT Promises    \* save()/flush() calls, one id each

VARIABLES
    document,    \* revision in memory
    durable,     \* revision in storage
    flushed,     \* revision covered by the last completed backend flush
    promise      \* call -> its kind, revision and answer

vars == <<document, durable, flushed, promise>>

PromiseState == {"none", "open", "kept", "broken"}

Init ==
    /\ document = 0
    /\ durable = 0
    /\ flushed = 0
    /\ \A p \in Promises : promise[p].state = "none"

Change ==
    /\ document' \in Nat
    /\ document' > document
    /\ UNCHANGED <<durable, flushed, promise>>

Persist ==
    /\ durable' \in durable..document
    /\ UNCHANGED <<document, flushed, promise>>

Flush ==
    /\ flushed' = durable
    /\ UNCHANGED <<document, durable, promise>>

(* p as it is after the step may be reported as a success. *)
MayKeep(p) ==
    /\ promise'[p].revision <= durable
    /\ promise'[p].kind = "Flush" => promise'[p].revision <= flushed

(* The call is made, for the revision the document has now. *)
Asked(p) ==
    /\ promise[p].state = "none"
    /\ promise'[p].revision = document

(* The call stays the one that was made. *)
StillOpen(p) ==
    /\ promise[p].state = "open"
    /\ promise'[p].kind = promise[p].kind
    /\ promise'[p].revision = promise[p].revision

(* One handler may accept a call and answer several. *)
Answer ==
    /\ \A p \in Promises :
          \/ promise'[p] = promise[p]
          \/ /\ Asked(p) \/ StillOpen(p)
             /\ promise'[p].state \in {"open", "kept", "broken"}
             /\ promise'[p].state = "kept" => MayKeep(p)
    /\ UNCHANGED <<document, durable, flushed>>

Next == Change \/ Persist \/ Flush \/ Answer

Spec == Init /\ [][Next]_vars
=============================================================================
