---------------------------- MODULE SessionTasks ----------------------------
(***************************************************************************)
(* The task coordinator of an editor session (cditor-session, task_port):  *)
(* one slot per kind of background task, a token per admitted task, and    *)
(* the rule that decides whether a completion that arrives later still     *)
(* counts.  The editor view talks to whichever session is current, so the  *)
(* tokens of a replaced session reach the coordinator of its successor.    *)
(***************************************************************************)
EXTENDS Naturals

CONSTANTS
    SessionTaskKind,     \* the kinds of background work
    TaskKeys,            \* what one task of a kind is about
    MaxSessions,         \* bound: sessions opened in one view
    MaxBegins,           \* bound: tasks admitted in all
    GenerationModulus    \* 2^64 in the code: next_generation wraps here

ASSUME BoundsAssumption ==
    /\ MaxSessions \in Nat \ {0}
    /\ MaxBegins \in Nat
    /\ GenerationModulus \in Nat
    /\ MaxBegins < GenerationModulus

VARIABLES
    session,          \* id of the session the view holds
    next_generation,  \* generation counter of that session's coordinator
    active,           \* kind -> the task occupying its slot, or NoTask
    tokens,           \* tokens held by work that has not reported yet
    begins,           \* tasks admitted so far (only to bound the model)
    live              \* history: tokens neither completed nor superseded

vars == <<session, next_generation, active, tokens, begins, live>>

NoTask == [key |-> 0, generation |-> 0]

ActiveTask == [key : TaskKeys \cup {0}, generation : Nat]

SessionTaskToken == [session_id : 1..MaxSessions, kind : SessionTaskKind, generation : Nat]

Token(kind, generation) ==
    [session_id |-> session, kind |-> kind, generation |-> generation]

Init ==
    /\ session = 1
    /\ next_generation = 0
    /\ active = [k \in SessionTaskKind |-> NoTask]
    /\ tokens = {}
    /\ begins = 0
    /\ live = {}

(* Mutant: the counter only leaves 0. *)
NextGenerationStuck == IF next_generation = 0 THEN 1 ELSE next_generation

(* next_generation.wrapping_add(1).max(1) *)
NextGeneration ==
    LET sum == next_generation + 1
    IN  IF sum = GenerationModulus THEN 1 ELSE sum

(* A generation is never 0 once issued, so NoTask marks the empty slot. *)
Occupied(kind) == active[kind] # NoTask

Admission(kind, key) ==
    IF ~Occupied(kind) THEN "Started"
    ELSE IF active[kind].key = key THEN "Duplicate" ELSE "Busy"

(* begin: refuses an occupied slot (Duplicate or Busy leave no trace) and  *)
(* otherwise occupies it under a fresh generation.                         *)
Begin(kind, key) ==
    /\ begins < MaxBegins
    /\ Admission(kind, key) = "Started"
    /\ next_generation' = NextGeneration
    /\ active' = [active EXCEPT ![kind] = [key |-> key, generation |-> NextGeneration]]
    /\ tokens' = tokens \cup {Token(kind, NextGeneration)}
    /\ live' = live \cup {Token(kind, NextGeneration)}
    /\ begins' = begins + 1
    /\ UNCHANGED session

(* Mutant: the session of the token is not compared. *)
AcceptsAnySession(t) == active[t.kind].generation = t.generation

(* finish returns true exactly in this case. *)
Accepts(t) ==
    /\ t.session_id = session
    /\ Occupied(t.kind)
    /\ active[t.kind].generation = t.generation

(* complete_session_task: the work behind t reports. *)
Complete(t) ==
    /\ tokens' = tokens \ {t}
    /\ IF Accepts(t)
       THEN /\ active' = [active EXCEPT ![t.kind] = NoTask]
            /\ live' = live \ {t}
       ELSE UNCHANGED <<active, live>>
    /\ UNCHANGED <<session, next_generation, begins>>

(* The callback that holds t is discarded before it runs (the view's       *)
(* main-thread queue is cleared): the slot is not released.                *)
CallbackDropped(t) ==
    /\ tokens' = tokens \ {t}
    /\ UNCHANGED <<session, next_generation, active, begins, live>>

OfKind(kind) == {t \in live : t.kind = kind}

(* cancel_kind: the AI session stops its stream. *)
Cancel(kind) ==
    /\ Occupied(kind)
    /\ active' = [active EXCEPT ![kind] = NoTask]
    /\ live' = live \ OfKind(kind)
    /\ UNCHANGED <<session, next_generation, tokens, begins>>

(* replace_session_task: cancel_kind, then begin, which must succeed. *)
Replace(kind, key) ==
    /\ begins < MaxBegins
    /\ next_generation' = NextGeneration
    /\ active' = [active EXCEPT ![kind] = [key |-> key, generation |-> NextGeneration]]
    /\ tokens' = tokens \cup {Token(kind, NextGeneration)}
    /\ live' = (live \ OfKind(kind)) \cup {Token(kind, NextGeneration)}
    /\ begins' = begins + 1
    /\ UNCHANGED session

(* The view installs another session, whose coordinator starts afresh and  *)
(* issues the same generations again.                                      *)
OpenSession ==
    /\ session < MaxSessions
    /\ session' = session + 1
    /\ next_generation' = 0
    /\ active' = [k \in SessionTaskKind |-> NoTask]
    /\ live' = {}
    /\ UNCHANGED <<tokens, begins>>

Next ==
    \/ \E kind \in SessionTaskKind, key \in TaskKeys : Begin(kind, key)
    \/ \E kind \in SessionTaskKind, key \in TaskKeys : Replace(kind, key)
    \/ \E kind \in SessionTaskKind : Cancel(kind)
    \/ \E t \in tokens : Complete(t)
    \/ \E t \in tokens : CallbackDropped(t)
    \/ OpenSession

Spec == Init /\ [][Next]_vars

-----------------------------------------------------------------------------

(* Every variable of the coordinator keeps its type. *)
TypeOK ==
    /\ session \in 1..MaxSessions
    /\ next_generation \in 0..(GenerationModulus - 1)
    /\ active \in [SessionTaskKind -> ActiveTask]
    /\ tokens \subseteq SessionTaskToken
    /\ begins \in 0..MaxBegins
    /\ live \subseteq SessionTaskToken

(* A completion counts exactly when its task was admitted and has been     *)
(* neither completed, cancelled, replaced nor outlived by its session.     *)
(* This is what the bridge relies on when it drops the result of a task    *)
(* whose complete_session_task returned false: two completions of one kind *)
(* can never both be applied, and the current one is never refused.        *)
CompletionIsCurrent == \A t \in tokens : Accepts(t) <=> t \in live

(* The token the next admission would issue is held by nobody: a late      *)
(* report of an older task cannot be taken for the report of the new one.  *)
(* It rests on next_generation never repeating within a session, which the *)
(* wrap-around at 2^64 would end.                                          *)
NextTokenIsFresh ==
    begins < MaxBegins =>
        \A kind \in SessionTaskKind : Token(kind, NextGeneration) \notin tokens
=============================================================================
