------------------------- MODULE SessionTasksProofs -------------------------
(***************************************************************************)
(* Proofs about the session task coordinator, for any set of task kinds    *)
(* and keys and any bounds.                                                *)
(***************************************************************************)
EXTENDS SessionTasks, TLAPS

(* The tokens that count are exactly the ones the slots name. *)
LiveIsActive == \A t \in SessionTaskToken : t \in live <=> Accepts(t)

(* Generations are handed out in order and none is ahead of the counter. *)
GenerationsIssued ==
    /\ next_generation <= begins
    /\ \A t \in tokens : t.session_id <= session
    /\ \A t \in tokens : t.session_id = session => t.generation <= next_generation

Inv == TypeOK /\ LiveIsActive /\ GenerationsIssued

USE DEF SessionTaskToken, ActiveTask, NoTask

(* Until the counter wraps, the next generation is one more than the last. *)
LEMMA NextGenerationIncrements ==
    ASSUME TypeOK, next_generation <= begins, begins < MaxBegins
    PROVE  NextGeneration = next_generation + 1
  BY BoundsAssumption DEF TypeOK, NextGeneration

LEMMA InitInv == Init => Inv
  BY BoundsAssumption
  DEF Init, Inv, TypeOK, LiveIsActive, GenerationsIssued, Accepts, Occupied

(* Every step of the coordinator keeps the invariant. *)
LEMMA StepInv == Inv /\ [Next]_vars => Inv'
<1> SUFFICES ASSUME Inv, [Next]_vars PROVE Inv'
  OBVIOUS
<1> USE BoundsAssumption DEF Inv
<1>1. ASSUME NEW kind \in SessionTaskKind, NEW key \in TaskKeys, Begin(kind, key)
      PROVE  Inv'
  <2>1. NextGeneration = next_generation + 1
    BY <1>1, NextGenerationIncrements DEF Begin, GenerationsIssued
  <2>2. ~Occupied(kind)
    BY <1>1 DEF Begin, Admission
  <2>3. TypeOK'
    BY <1>1, <2>1 DEF Begin, TypeOK, Token, GenerationsIssued
  <2>4. LiveIsActive'
    BY <1>1, <2>1, <2>2 DEF Begin, TypeOK, LiveIsActive, Accepts, Occupied, Token
  <2>5. GenerationsIssued'
    BY <1>1, <2>1 DEF Begin, TypeOK, GenerationsIssued, Token
  <2> QED BY <2>3, <2>4, <2>5
<1>2. ASSUME NEW kind \in SessionTaskKind, NEW key \in TaskKeys, Replace(kind, key)
      PROVE  Inv'
  <2>1. NextGeneration = next_generation + 1
    BY <1>2, NextGenerationIncrements DEF Replace, GenerationsIssued
  <2>2. TypeOK'
    BY <1>2, <2>1 DEF Replace, TypeOK, Token, OfKind, GenerationsIssued
  <2>3. LiveIsActive'
    BY <1>2, <2>1 DEF Replace, TypeOK, LiveIsActive, Accepts, Occupied, Token, OfKind
  <2>4. GenerationsIssued'
    BY <1>2, <2>1 DEF Replace, TypeOK, GenerationsIssued, Token
  <2> QED BY <2>2, <2>3, <2>4
<1>3. ASSUME NEW kind \in SessionTaskKind, Cancel(kind)
      PROVE  Inv'
  <2>1. TypeOK'
    BY <1>3 DEF Cancel, TypeOK, OfKind
  <2>2. LiveIsActive'
    BY <1>3 DEF Cancel, TypeOK, LiveIsActive, Accepts, Occupied, OfKind
  <2>3. GenerationsIssued'
    BY <1>3 DEF Cancel, TypeOK, GenerationsIssued
  <2> QED BY <2>1, <2>2, <2>3
<1>4. ASSUME NEW t \in tokens, Complete(t)
      PROVE  Inv'
  <2>1. t \in SessionTaskToken
    BY DEF TypeOK
  <2>2. TypeOK'
    BY <1>4, <2>1 DEF Complete, TypeOK
  <2>3. LiveIsActive'
    <3>1. CASE Accepts(t)
      BY <1>4, <2>1, <3>1 DEF Complete, TypeOK, LiveIsActive, Accepts, Occupied
    <3>2. CASE ~Accepts(t)
      BY <1>4, <2>1, <3>2 DEF Complete, TypeOK, LiveIsActive, Accepts, Occupied
    <3> QED BY <3>1, <3>2
  <2>4. GenerationsIssued'
    BY <1>4 DEF Complete, TypeOK, GenerationsIssued
  <2> QED BY <2>2, <2>3, <2>4
<1>5. ASSUME NEW t \in tokens, CallbackDropped(t)
      PROVE  Inv'
  BY <1>5 DEF CallbackDropped, TypeOK, LiveIsActive, GenerationsIssued, Accepts, Occupied
<1>6. CASE OpenSession
  <2>1. TypeOK'
    BY <1>6 DEF OpenSession, TypeOK
  <2>2. LiveIsActive'
    BY <1>6 DEF OpenSession, TypeOK, LiveIsActive, Accepts, Occupied
  <2>3. GenerationsIssued'
    BY <1>6 DEF OpenSession, TypeOK, GenerationsIssued
  <2> QED BY <2>1, <2>2, <2>3
<1>7. CASE UNCHANGED vars
  BY <1>7 DEF vars, TypeOK, LiveIsActive, GenerationsIssued, Accepts, Occupied
<1> QED BY <1>1, <1>2, <1>3, <1>4, <1>5, <1>6, <1>7 DEF Next

(* The coordinator is type correct whatever the kinds, keys and bounds. *)
THEOREM TypeCorrect == Spec => []TypeOK
<1>1. Inv => TypeOK
  BY DEF Inv
<1> QED BY InitInv, StepInv, <1>1, PTL DEF Spec

(* complete_session_task answers true for a task that is still current and *)
(* for no other, however completions, cancellations, replacements and      *)
(* session changes interleave.                                             *)
THEOREM CompletionCurrent == Spec => []CompletionIsCurrent
<1>1. Inv => CompletionIsCurrent
  BY DEF Inv, TypeOK, LiveIsActive, CompletionIsCurrent
<1> QED BY InitInv, StepInv, <1>1, PTL DEF Spec

(* As long as the generation counter does not wrap, no two tasks of one    *)
(* session ever hold the same token.                                       *)
THEOREM TokensFresh == Spec => []NextTokenIsFresh
<1>1. Inv => NextTokenIsFresh
  <2> SUFFICES ASSUME Inv, begins < MaxBegins, NEW kind \in SessionTaskKind
               PROVE  Token(kind, NextGeneration) \notin tokens
    BY DEF NextTokenIsFresh
  <2>1. NextGeneration = next_generation + 1
    BY NextGenerationIncrements DEF Inv, GenerationsIssued
  <2> QED BY <2>1 DEF Inv, TypeOK, GenerationsIssued, Token
<1> QED BY InitInv, StepInv, <1>1, PTL DEF Spec
=============================================================================
