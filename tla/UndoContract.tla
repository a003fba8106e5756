---------------------------- MODULE UndoContract ----------------------------
(***************************************************************************)
(* What the undo history of transactions promises: two stacks.  A recorded *)
(* transaction is the newest step (or joins it), ends redo and may push    *)
(* the oldest step out; undo and redo move the newest step of one stack to *)
(* the other.  Where the content of a step is kept does not show.          *)
(***************************************************************************)
EXTENDS Naturals, Sequences

CONSTANTS Transactions, MaxSteps

VARIABLES undo, redo    \* sequences of steps, each the set of its transactions

vars == <<undo, redo>>

Init == undo = <<>> /\ redo = <<>>

\* The newest n elements.
Newest(s, n) == IF Len(s) <= n THEN s ELSE SubSeq(s, Len(s) - n + 1, Len(s))

Record(t) ==
    /\ undo' = Newest(Append(undo, {t}), MaxSteps)
    /\ redo' = <<>>

Join(t) ==
    /\ undo # <<>>
    /\ undo' = [undo EXCEPT ![Len(undo)] = @ \cup {t}]
    /\ redo' = <<>>

ForgetRedo == redo' = <<>> /\ UNCHANGED undo

Undo ==
    /\ undo # <<>>
    /\ undo' = SubSeq(undo, 1, Len(undo) - 1)
    /\ redo' = Append(redo, undo[Len(undo)])

Redo ==
    /\ redo # <<>>
    /\ redo' = SubSeq(redo, 1, Len(redo) - 1)
    /\ undo' = Append(undo, redo[Len(redo)])

Next == (\E t \in Transactions : Record(t) \/ Join(t)) \/ ForgetRedo \/ Undo \/ Redo

Spec == Init /\ [][Next]_vars
=============================================================================
