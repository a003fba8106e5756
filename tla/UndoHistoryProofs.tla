-------------------------- MODULE UndoHistoryProofs --------------------------
(***************************************************************************)
(* Proofs about module UndoHistory, for every limit, every set of kinds    *)
(* and any number of late effects: the types, SpillHasJob,                 *)
(* DeletesSpareHistory, EventsMatchSteps and the refinement of             *)
(* UndoContract.                                                           *)
(*                                                                         *)
(* The invariant names for every snapshot id its one owner: at most one    *)
(* step carries it, the content of that step (in memory, in the spill, in  *)
(* the store or on the way back) is what was recorded under the id, and    *)
(* nothing that deletes blobs has an id that a step carries.               *)
(***************************************************************************)
EXTENDS UndoHistory, SequenceTheorems, FiniteSetTheorems, WellFoundedInduction, TLAPS

EventKind == {"Text", "ExternalTransaction"}
Side == [steps : Seq(StepType), events : Seq(EventKind), texts : Nat]

\* The snapshot ids that were handed out.
Used(nxt) == {i \in SnapshotIds : i < nxt}

\* What holds of one step, given the ids handed out, what was recorded under
\* them, the spill, the store and the ids whose blobs may be deleted.
GoodStep(s, nxt, rec, sp, bl, doomed) ==
    /\ s \in StepType
    /\ s.id \in Used(nxt) \cup {0}
    /\ s.id = 0 <=> s.payload = "InlineSmall"
    /\ s.typing => s.payload = "InlineSmall"
    /\ s.payload = "BlockRangeSnapshot" => s.txn = rec[s.id]
    /\ s.payload = "ExternalBlob" => bl[s.id] = rec[s.id]
    /\ s.payload = "Externalizing" =>
         /\ sp.phase # "none" /\ sp.id = s.id
         /\ sp.phase = "stored" => bl[s.id] = rec[s.id]
    /\ sp.phase # "none" /\ sp.id = s.id => s.payload = "Externalizing"
    /\ s.id \notin doomed

\* A snapshot id belongs to one step only, wherever it is.
Distinct(u, r) ==
    /\ \A i \in 1..Len(u) : \A j \in 1..Len(u) : u[i].id = u[j].id /\ u[i].id # 0 => i = j
    /\ \A i \in 1..Len(r) : \A j \in 1..Len(r) : r[i].id = r[j].id /\ r[i].id # 0 => i = j
    /\ \A i \in 1..Len(u) : \A j \in 1..Len(r) : u[i].id = r[j].id => u[i].id = 0

\* The two stacks together.
Sound(u, r, nxt, rec, sp, bl, doomed) ==
    /\ u \in Seq(StepType) /\ r \in Seq(StepType)
    /\ \A i \in 1..Len(u) : GoodStep(u[i], nxt, rec, sp, bl, doomed)
    /\ \A i \in 1..Len(r) : GoodStep(r[i], nxt, rec, sp, bl, doomed)
    /\ Distinct(u, r)
    /\ Len(u) + Len(r) <= MaxSteps

\* The blob store and what was recorded: a blob is absent or what was
\* recorded, and ids not handed out have nothing.
GoodStore(nxt, rec, bl) ==
    /\ rec \in [SnapshotIds -> SUBSET Transactions]
    /\ bl \in [SnapshotIds -> SUBSET Transactions]
    /\ \A i \in SnapshotIds : bl[i] = {} \/ bl[i] = rec[i]
    /\ \A i \in SnapshotIds : i >= nxt => rec[i] = {}

GoodSpill(sp, nxt, rec) ==
    \/ sp = NoSpill
    \/ /\ sp \in [phase : {"writing", "stored", "failed"}, id : Used(nxt), txn : SUBSET Transactions]
       /\ sp.txn = rec[sp.id]

GoodHydration(hy, nxt, rec) ==
    \/ hy = NoHydration
    \/ /\ hy \in [phase : {"reading", "read", "failed"}, id : Used(nxt),
                  direction : Directions, txn : SUBSET Transactions]
       /\ hy.phase = "read" => hy.txn = rec[hy.id]

GoodCleanup(cl, nxt) ==
    cl = NoCleanup \/ cl \in [phase : {"deleting", "done"}, ids : SUBSET Used(nxt)]

LateDeletes(l) == {e.id : e \in {f \in l : f.op = "delete"}}
Doomed == orphaned_external_blobs \cup cleanup.ids \cup LateDeletes(late)

\* The events of a side lead to its entries.
Matched(side) ==
    /\ Count(side.events, "ExternalTransaction") = Len(side.steps)
    /\ Count(side.events, "Text") <= side.texts

\* Both sides together keep no more text snapshots than the limit.
TextsBounded(h) == h["Undo"].texts + h["Redo"].texts <= MaxTextSteps

\* The history as a whole.
GoodHistory(h, nxt, rec, sp, bl, doomed) ==
    /\ h \in [Directions -> Side]
    /\ \A d \in Directions : Matched(h[d])
    /\ TextsBounded(h)
    /\ Sound(h["Undo"].steps, h["Redo"].steps, nxt, rec, sp, bl, doomed)

\* The inductive invariant.
IInv ==
    /\ transactions \in 0..MaxTransactions
    /\ next_snapshot_id \in 1..transactions + 1
    /\ orphaned_external_blobs \subseteq Used(next_snapshot_id)
    /\ late \subseteq [op : {"write", "delete"}, id : Used(next_snapshot_id)]
    /\ GoodStore(next_snapshot_id, recorded, blobs)
    /\ GoodSpill(spill, next_snapshot_id, recorded)
    /\ GoodHydration(hydration, next_snapshot_id, recorded)
    /\ GoodCleanup(cleanup, next_snapshot_id)
    /\ GoodHistory(history, next_snapshot_id, recorded, spill, blobs, Doomed)
-----------------------------------------------------------------------------
LEMMA Limits ==
  MaxSteps \in Nat \ {0} /\ MaxTextSteps \in Nat \ {0} /\ MaxTransactions \in Nat
  BY HistoryAssumption

-----------------------------------------------------------------------------
(* Sequences and minima.                                                   *)

\* A set of natural numbers that is not empty has a least element.
LEMMA MinOf ==
  ASSUME NEW S \in SUBSET Nat, S # {}
  PROVE  Min(S) \in S /\ \A y \in S : Min(S) <= y
  <1>1. \E x \in S : \A y \in S : ~(<<y, x>> \in OpToRel(<, Nat))
    BY NatLessThanWellFounded, WFMin
  <1>2. PICK x \in S : \A y \in S : ~(<<y, x>> \in OpToRel(<, Nat))
    BY <1>1
  <1>3. \A y \in S : x <= y
    <2>1. ASSUME NEW y \in S, y < x
          PROVE  FALSE
      BY <1>2, <2>1 DEF OpToRel
    <2>2. QED
      BY <2>1
  <1>4. QED
    BY <1>3 DEF Min

\* Front and Last undo an Append.
LEMMA FrontLast ==
  ASSUME NEW X, NEW s \in Seq(X), s # <<>>
  PROVE  /\ Len(s) \in Nat \ {0}
         /\ Front(s) \in Seq(X) /\ Len(Front(s)) = Len(s) - 1
         /\ \A i \in 1..Len(s) - 1 : Front(s)[i] = s[i]
         /\ Last(s) \in X /\ Last(s) = s[Len(s)]
  <1>1. Len(s) \in Nat \ {0} /\ DOMAIN s = 1..Len(s) /\ \A i \in 1..Len(s) : s[i] \in X
    OBVIOUS
  <1>2. 1 \in 1..Len(s) + 1 /\ Len(s) - 1 \in (1 - 1)..Len(s)
    BY <1>1
  <1>3. /\ SubSeq(s, 1, Len(s) - 1) \in Seq(X)
        /\ Len(SubSeq(s, 1, Len(s) - 1)) = Len(s) - 1
        /\ \A i \in 1..Len(s) - 1 : SubSeq(s, 1, Len(s) - 1)[i] = s[i]
    BY <1>1, <1>2, SubSeqProperties
  <1>4. QED
    BY <1>1, <1>3 DEF Front, Last

\* Append, element by element.
LEMMA Appended ==
  ASSUME NEW X, NEW s \in Seq(X), NEW e \in X
  PROVE  /\ Append(s, e) \in Seq(X) /\ Len(Append(s, e)) = Len(s) + 1 /\ Len(s) \in Nat
         /\ \A i \in 1..Len(s) : Append(s, e)[i] = s[i]
         /\ Append(s, e)[Len(s) + 1] = e
  OBVIOUS

-----------------------------------------------------------------------------
(* Counting the events of a kind.                                          *)

Indices(s, e) == {i \in DOMAIN s : s[i] = e}

LEMMA IndicesFinite ==
  ASSUME NEW X, NEW s \in Seq(X), NEW e
  PROVE  /\ IsFiniteSet(Indices(s, e))
         /\ Count(s, e) = Cardinality(Indices(s, e))
         /\ Count(s, e) \in Nat
         /\ \A i \in 1..Len(s) : s[i] = e => Count(s, e) > 0
  <1>1. Indices(s, e) \in SUBSET (1..Len(s)) /\ Len(s) \in Nat
    BY DEF Indices
  <1>2. IsFiniteSet(1..Len(s))
    BY <1>1, FS_Interval
  <1>3. IsFiniteSet(Indices(s, e))
    BY <1>1, <1>2, FS_Subset
  <1>4. Cardinality(Indices(s, e)) \in Nat
    BY <1>3, FS_CardinalityType
  <1>5. ASSUME NEW i \in 1..Len(s), s[i] = e
        PROVE  Cardinality(Indices(s, e)) # 0
    <2>1. i \in Indices(s, e)
      BY <1>5 DEF Indices
    <2>2. QED
      BY <2>1, <1>3, FS_EmptySet
  <1>6. Count(s, e) = Cardinality(Indices(s, e))
    BY DEF Count, Indices
  <1>7. QED
    BY <1>3, <1>4, <1>5, <1>6

LEMMA CountNat == \A s \in Seq(EventKind) : \A e : Count(s, e) \in Nat
  BY IndicesFinite

LEMMA CountEmpty == \A e : Count(<<>>, e) = 0
  <1>1. \A e : {i \in DOMAIN <<>> : <<>>[i] = e} = {}
    OBVIOUS
  <1>2. QED
    BY <1>1, FS_EmptySet DEF Count

LEMMA CountAppend ==
  ASSUME NEW X, NEW s \in Seq(X), NEW x \in X, NEW e
  PROVE  Count(Append(s, x), e) = IF x = e THEN Count(s, e) + 1 ELSE Count(s, e)
  <1>1. Len(s) \in Nat /\ DOMAIN s = 1..Len(s) /\ DOMAIN Append(s, x) = 1..Len(s) + 1
    OBVIOUS
  <1>2. Indices(Append(s, x), e) =
          IF x = e THEN Indices(s, e) \cup {Len(s) + 1} ELSE Indices(s, e)
    BY <1>1 DEF Indices
  <1>3. Len(s) + 1 \notin Indices(s, e)
    BY <1>1 DEF Indices
  <1>4. IsFiniteSet(Indices(s, e)) /\ Count(s, e) = Cardinality(Indices(s, e))
    BY IndicesFinite
  <1>5. Cardinality(Indices(s, e) \cup {Len(s) + 1}) = Cardinality(Indices(s, e)) + 1
    BY <1>3, <1>4, FS_AddElement
  <1>6. Count(Append(s, x), e) = Cardinality(Indices(Append(s, x), e))
    BY DEF Count, Indices
  <1>7. QED
    BY <1>2, <1>4, <1>5, <1>6

LEMMA CountFront ==
  ASSUME NEW X, NEW s \in Seq(X), s # <<>>, NEW e
  PROVE  Count(Front(s), e) = IF Last(s) = e THEN Count(s, e) - 1 ELSE Count(s, e)
  <1>1. Front(s) \in Seq(X) /\ Last(s) \in X /\ s = Append(Front(s), Last(s))
    <2>1. /\ Len(s) \in Nat \ {0} /\ Front(s) \in Seq(X) /\ Len(Front(s)) = Len(s) - 1
          /\ \A i \in 1..Len(s) - 1 : Front(s)[i] = s[i]
          /\ Last(s) \in X /\ Last(s) = s[Len(s)]
      BY FrontLast
    <2>2. /\ Append(Front(s), Last(s)) \in Seq(X) /\ Len(Append(Front(s), Last(s))) = Len(s)
          /\ \A i \in 1..Len(s) - 1 : Append(Front(s), Last(s))[i] = s[i]
          /\ Append(Front(s), Last(s))[Len(s)] = s[Len(s)]
      BY <2>1, Appended
    <2>3. \A i \in 1..Len(s) : Append(Front(s), Last(s))[i] = s[i]
      BY <2>1, <2>2
    <2>4. ASSUME NEW t \in Seq(X), Len(t) = Len(s), \A i \in 1..Len(s) : t[i] = s[i]
          PROVE  s = t
      BY <2>4, SeqEqual
    <2>5. QED
      BY <2>1, <2>2, <2>3, <2>4
  <1>2. \A f \in Seq(X) : \A x \in X :
          Count(Append(f, x), e) = IF x = e THEN Count(f, e) + 1 ELSE Count(f, e)
    BY CountAppend
  <1>3. Count(Front(s), e) \in Nat
    BY <1>1, IndicesFinite
  <1>4. Count(s, e) = IF Last(s) = e THEN Count(Front(s), e) + 1 ELSE Count(Front(s), e)
    BY <1>1, <1>2
  <1>5. QED
    BY <1>3, <1>4
\* Without the element at p, element by element.
LEMMA Removed ==
  ASSUME NEW X, NEW s \in Seq(X), NEW p \in 1..Len(s)
  PROVE  /\ RemoveAt(s, p) \in Seq(X) /\ Len(RemoveAt(s, p)) = Len(s) - 1
         /\ \A i \in 1..Len(s) - 1 : RemoveAt(s, p)[i] = IF i < p THEN s[i] ELSE s[i + 1]
  <1>1. Len(s) \in Nat /\ p \in Nat /\ p > 0 /\ \A i \in 1..Len(s) : s[i] \in X
    OBVIOUS
  <1>2. /\ SubSeq(s, 1, p - 1) \in Seq(X) /\ Len(SubSeq(s, 1, p - 1)) = p - 1
        /\ \A i \in 1..p - 1 : SubSeq(s, 1, p - 1)[i] = s[i]
    <2>1. \A i \in 1..p - 1 : s[i] \in X
      BY <1>1
    <2>2. /\ SubSeq(s, 1, p - 1) \in Seq(X)
          /\ Len(SubSeq(s, 1, p - 1)) = IF 1 <= p - 1 THEN p - 1 - 1 + 1 ELSE 0
          /\ \A i \in 1..p - 1 - 1 + 1 : SubSeq(s, 1, p - 1)[i] = s[1 + i - 1]
      BY <1>1, <2>1, SubSeqProperties
    <2>3. QED
      BY <1>1, <2>2
  <1>3. /\ SubSeq(s, p + 1, Len(s)) \in Seq(X)
        /\ Len(SubSeq(s, p + 1, Len(s))) = Len(s) - p
        /\ \A i \in 1..Len(s) - p : SubSeq(s, p + 1, Len(s))[i] = s[p + i]
    <2>1. \A i \in p + 1..Len(s) : s[i] \in X
      BY <1>1
    <2>2. /\ SubSeq(s, p + 1, Len(s)) \in Seq(X)
          /\ Len(SubSeq(s, p + 1, Len(s))) = IF p + 1 <= Len(s) THEN Len(s) - (p + 1) + 1 ELSE 0
          /\ \A i \in 1..Len(s) - (p + 1) + 1 : SubSeq(s, p + 1, Len(s))[i] = s[p + 1 + i - 1]
      BY <1>1, <2>1, SubSeqProperties
    <2>3. QED
      BY <1>1, <2>2
  <1>4. ASSUME NEW a \in Seq(X), NEW b \in Seq(X), Len(a) = p - 1, Len(b) = Len(s) - p
        PROVE  /\ a \o b \in Seq(X) /\ Len(a \o b) = Len(s) - 1
               /\ \A i \in 1..Len(s) - 1 : (a \o b)[i] = IF i < p THEN a[i] ELSE b[i - (p - 1)]
    BY <1>1, <1>4, ConcatProperties
  <1>5. QED
    <2> DEFINE a == SubSeq(s, 1, p - 1)
               b == SubSeq(s, p + 1, Len(s))
    <2>1. /\ a \o b \in Seq(X) /\ Len(a \o b) = Len(s) - 1
          /\ \A i \in 1..Len(s) - 1 : (a \o b)[i] = IF i < p THEN a[i] ELSE b[i - (p - 1)]
      BY <1>2, <1>3, <1>4
    <2>2. ASSUME NEW i \in 1..Len(s) - 1
          PROVE  (a \o b)[i] = IF i < p THEN s[i] ELSE s[i + 1]
      <3>1. CASE i < p
        <4>1. i \in 1..p - 1
          BY <1>1, <3>1
        <4>2. (a \o b)[i] = a[i]
          BY <2>1, <3>1
        <4>3. a[i] = s[i]
          BY <1>2, <4>1
        <4>4. QED
          BY <3>1, <4>2, <4>3
      <3>2. CASE ~(i < p)
        <4>1. i - (p - 1) \in 1..Len(s) - p /\ p + (i - (p - 1)) = i + 1
          BY <1>1, <3>2
        <4>2. (a \o b)[i] = b[i - (p - 1)]
          BY <2>1, <3>2
        <4>3. b[i - (p - 1)] = s[p + (i - (p - 1))]
          BY <1>3, <4>1
        <4>4. QED
          BY <3>2, <4>1, <4>2, <4>3
      <3>3. QED
        BY <3>1, <3>2
    <2>3. RemoveAt(s, p) = a \o b
      BY DEF RemoveAt
    <2>4. QED
      BY <2>1, <2>2, <2>3

LEMMA CountRemoved ==
  ASSUME NEW X, NEW s \in Seq(X), NEW p \in 1..Len(s), NEW e
  PROVE  Count(RemoveAt(s, p), e) = IF s[p] = e THEN Count(s, e) - 1 ELSE Count(s, e)
  <1> DEFINE t == RemoveAt(s, p)
             f == [i \in Indices(t, e) |-> IF i < p THEN i ELSE i + 1]
             T == Indices(s, e) \ {p}
  <1>1. /\ t \in Seq(X) /\ Len(t) = Len(s) - 1 /\ Len(s) \in Nat /\ p \in Nat
        /\ \A i \in 1..Len(s) - 1 : t[i] = IF i < p THEN s[i] ELSE s[i + 1]
    <2>1. Len(s) \in Nat /\ p \in Nat
      OBVIOUS
    <2>2. /\ t \in Seq(X) /\ Len(t) = Len(s) - 1
          /\ \A i \in 1..Len(s) - 1 : t[i] = IF i < p THEN s[i] ELSE s[i + 1]
      BY Removed
    <2>3. QED
      BY <2>1, <2>2
  <1> HIDE DEF t
  <1>2. /\ Indices(t, e) = {i \in 1..Len(s) - 1 : t[i] = e}
        /\ Indices(s, e) = {i \in 1..Len(s) : s[i] = e}
    BY <1>1 DEF Indices
  <1>3. f \in [Indices(t, e) -> T]
    BY <1>1, <1>2
  <1>4. \A i \in Indices(t, e) : \A j \in Indices(t, e) : f[i] = f[j] => i = j
    BY <1>1, <1>2
  <1>5. ASSUME NEW k \in T
        PROVE  \E i \in Indices(t, e) : f[i] = k
    <2>1. CASE k < p
      <3>1. k \in Indices(t, e)
        BY <1>1, <1>2, <2>1
      <3>2. f[k] = k
        BY <2>1, <3>1
      <3>3. QED
        BY <3>1, <3>2
    <2>2. CASE ~(k < p)
      <3>1. k - 1 \in Indices(t, e) /\ ~(k - 1 < p)
        BY <1>1, <1>2, <2>2
      <3>2. f[k - 1] = k
        BY <1>1, <1>2, <3>1
      <3>3. QED
        BY <3>1, <3>2
    <2>3. QED
      BY <2>1, <2>2
  <1>6. ExistsBijection(Indices(t, e), T)
    <2>1. f \in Injection(Indices(t, e), T)
      BY <1>3, <1>4 DEF Injection, IsInjective
    <2>2. f \in Surjection(Indices(t, e), T)
      BY <1>3, <1>5 DEF Surjection
    <2>3. QED
      BY <2>1, <2>2 DEF ExistsBijection, Bijection
  <1>7. /\ IsFiniteSet(Indices(t, e)) /\ Count(t, e) = Cardinality(Indices(t, e))
        /\ IsFiniteSet(Indices(s, e)) /\ Count(s, e) = Cardinality(Indices(s, e))
    BY <1>1, IndicesFinite
  <1>8. Cardinality(T) = Cardinality(Indices(t, e))
    BY <1>6, <1>7, FS_Bijection
  <1>9. Cardinality(T) = IF p \in Indices(s, e) THEN Cardinality(Indices(s, e)) - 1
                         ELSE Cardinality(Indices(s, e))
    BY <1>7, FS_RemoveElement
  <1>10. p \in Indices(s, e) <=> s[p] = e
    BY <1>2
  <1>11. QED
    BY <1>7, <1>8, <1>9, <1>10 DEF t

\* The oldest event of a kind goes, if there is one.
LEMMA CountRemoveFirst ==
  ASSUME NEW X, NEW s \in Seq(X), NEW k, Count(s, k) > 0
  PROVE  /\ RemoveFirst(s, k) \in Seq(X)
         /\ \A e : Count(RemoveFirst(s, k), e) = IF e = k THEN Count(s, k) - 1 ELSE Count(s, e)
  <1> DEFINE I == {i \in 1..Len(s) : s[i] = k}
  <1>1. I # {}
    <2>1. DOMAIN s = 1..Len(s)
      OBVIOUS
    <2>2. Count(s, k) = Cardinality(I)
      BY <2>1 DEF Count
    <2>3. Cardinality({}) = 0
      BY FS_EmptySet
    <2>4. SUFFICES ASSUME I = {} PROVE FALSE
      OBVIOUS
    <2> HIDE DEF I
    <2>5. QED
      BY <2>2, <2>3, <2>4
  <1>2. Min(I) \in 1..Len(s) /\ s[Min(I)] = k
    <2>1. I \in SUBSET Nat
      OBVIOUS
    <2>2. Min(I) \in I
      <3> HIDE DEF I
      <3>1. QED
        BY <1>1, <2>1, MinOf
    <2>3. \A m \in I : m \in 1..Len(s) /\ s[m] = k
      OBVIOUS
    <2>4. QED
      BY <2>2, <2>3
  <1>3. RemoveFirst(s, k) = RemoveAt(s, Min(I))
    BY <1>1 DEF RemoveFirst, SelectInSeq
  <1>4. PICK p \in 1..Len(s) : p = Min(I)
    BY <1>2
  <1>5. RemoveAt(s, p) \in Seq(X)
    BY Removed
  <1>6. \A e : Count(RemoveAt(s, p), e) = IF s[p] = e THEN Count(s, e) - 1 ELSE Count(s, e)
    BY CountRemoved
  <1>7. s[p] = k /\ RemoveFirst(s, k) = RemoveAt(s, p)
    BY <1>2, <1>3, <1>4
  <1>8. QED
    BY <1>5, <1>6, <1>7

\* What trimming leaves, when at most one event is too many.
LEMMA Trimmed ==
  ASSUME NEW s \in Seq(EventKind), NEW k \in EventKind, NEW n \in Nat,
         Count(s, k) \in {n, n + 1}
  PROVE  /\ TrimEvents(s, k, n) \in Seq(EventKind)
         /\ Count(TrimEvents(s, k, n), k) = n
         /\ \A e \in EventKind : e # k => Count(TrimEvents(s, k, n), e) = Count(s, e)
  <1>1. CASE Count(s, k) = n
    BY <1>1 DEF TrimEvents
  <1>2. CASE Count(s, k) = n + 1
    <2>1. Count(s, k) > 0 /\ Count(s, k) > n /\ Count(s, k) - 1 = n
      BY <1>2
    <2>2. /\ RemoveFirst(s, k) \in Seq(EventKind)
          /\ \A e : Count(RemoveFirst(s, k), e)
                      = IF e = k THEN Count(s, k) - 1 ELSE Count(s, e)
      BY <2>1, CountRemoveFirst
    <2>3. QED
      BY <2>1, <2>2 DEF TrimEvents
  <1>3. QED
    BY <1>1, <1>2
-----------------------------------------------------------------------------
(* The stacks.                                                             *)

LEMMA SoundLengths ==
  ASSUME NEW u, NEW r, NEW nxt, NEW rec, NEW sp, NEW bl, NEW doomed,
         Sound(u, r, nxt, rec, sp, bl, doomed)
  PROVE  /\ u \in Seq(StepType) /\ r \in Seq(StepType)
         /\ Len(u) \in Nat /\ Len(r) \in Nat /\ MaxSteps \in Nat \ {0}
         /\ Len(u) + Len(r) <= MaxSteps
  <1>1. u \in Seq(StepType) /\ r \in Seq(StepType) /\ Len(u) + Len(r) <= MaxSteps
    BY DEF Sound
  <1>2. Len(u) \in Nat /\ Len(r) \in Nat
    BY <1>1
  <1>3. MaxSteps \in Nat \ {0}
    BY HistoryAssumption
  <1>4. QED
    BY <1>1, <1>2, <1>3

LEMMA SoundSwap ==
  ASSUME NEW u, NEW r, NEW nxt, NEW rec, NEW sp, NEW bl, NEW doomed,
         Sound(u, r, nxt, rec, sp, bl, doomed)
  PROVE  Sound(r, u, nxt, rec, sp, bl, doomed)
  <1>1. Distinct(r, u)
    BY DEF Sound, Distinct
  <1>2. Len(r) + Len(u) <= MaxSteps
    BY SoundLengths
  <1>3. QED
    BY <1>1, <1>2 DEF Sound

\* What surrounds the stacks changes.
LEMMA SoundAround ==
  ASSUME NEW u, NEW r, NEW nxt, NEW rec, NEW sp, NEW bl, NEW doomed,
         NEW nxt2, NEW rec2, NEW sp2, NEW bl2, NEW doomed2,
         Sound(u, r, nxt, rec, sp, bl, doomed),
         \A s \in StepType : GoodStep(s, nxt, rec, sp, bl, doomed)
                               => GoodStep(s, nxt2, rec2, sp2, bl2, doomed2)
  PROVE  Sound(u, r, nxt2, rec2, sp2, bl2, doomed2)
  <1>1. ASSUME NEW s, GoodStep(s, nxt, rec, sp, bl, doomed)
        PROVE  GoodStep(s, nxt2, rec2, sp2, bl2, doomed2)
    <2>1. s \in StepType
      BY <1>1 DEF GoodStep
    <2>2. QED
      BY <1>1, <2>1
  <1>2. QED
    BY <1>1 DEF Sound

\* The newest step of one stack goes to the other.
LEMMA SoundMoved ==
  ASSUME NEW u, NEW r, NEW nxt, NEW rec, NEW sp, NEW bl, NEW doomed,
         Sound(u, r, nxt, rec, sp, bl, doomed), u # <<>>
  PROVE  Sound(Front(u), Append(r, Last(u)), nxt, rec, sp, bl, doomed)
  <1> DEFINE f == Front(u)
             a == Append(r, Last(u))
             n == Len(u)
             m == Len(r)
  <1>1. u \in Seq(StepType) /\ r \in Seq(StepType)
    BY DEF Sound
  <1>2. /\ n \in Nat \ {0} /\ f \in Seq(StepType) /\ Len(f) = n - 1
        /\ \A i \in 1..n - 1 : f[i] = u[i]
        /\ Last(u) \in StepType /\ Last(u) = u[n]
    BY <1>1, FrontLast
  <1>3. /\ m \in Nat /\ a \in Seq(StepType) /\ Len(a) = m + 1
        /\ \A i \in 1..m : a[i] = r[i]
        /\ a[m + 1] = u[n]
    BY <1>1, <1>2, Appended
  <1> HIDE DEF f, a
  <1>4. \A i \in 1..Len(f) : GoodStep(f[i], nxt, rec, sp, bl, doomed)
    BY <1>2 DEF Sound
  <1>5. \A i \in 1..Len(a) : GoodStep(a[i], nxt, rec, sp, bl, doomed)
    BY <1>2, <1>3 DEF Sound
  <1>6. Distinct(f, a)
    <2>0. Distinct(u, r)
      BY DEF Sound
    <2>1. \A i \in 1..Len(f) : \A j \in 1..Len(f) : f[i].id = f[j].id /\ f[i].id # 0 => i = j
      BY <1>2, <2>0 DEF Distinct
    <2>2. \A i \in 1..Len(a) : \A j \in 1..Len(a) : a[i].id = a[j].id /\ a[i].id # 0 => i = j
      BY <1>2, <1>3, <2>0 DEF Distinct
    <2>3. \A i \in 1..Len(f) : \A j \in 1..Len(a) : f[i].id = a[j].id => f[i].id = 0
      BY <1>2, <1>3, <2>0 DEF Distinct
    <2>4. QED
      BY <2>1, <2>2, <2>3 DEF Distinct
  <1>7. Len(f) + Len(a) <= MaxSteps
    BY <1>2, <1>3, SoundLengths
  <1>8. Sound(f, a, nxt, rec, sp, bl, doomed)
    BY <1>2, <1>3, <1>4, <1>5, <1>6, <1>7 DEF Sound
  <1>9. QED
    BY <1>8 DEF f, a

\* Redo is cleared: its blobs may go now.
LEMMA SoundCleared ==
  ASSUME NEW u, NEW r, NEW nxt, NEW rec, NEW sp, NEW bl, NEW doomed,
         Sound(u, r, nxt, rec, sp, bl, doomed)
  PROVE  /\ Sound(u, <<>>, nxt, rec, sp, bl, doomed \cup Orphans(r))
         /\ Orphans(r) \subseteq Used(nxt)
  <1>1. u \in Seq(StepType) /\ r \in Seq(StepType) /\ Len(u) \in Nat /\ Len(r) \in Nat
    BY DEF Sound
  <1>2. ASSUME NEW k \in Orphans(r)
        PROVE  \E j \in 1..Len(r) : r[j].id = k /\ r[j].payload = "ExternalBlob"
    BY <1>1 DEF Orphans, ToSet
  <1>3. Orphans(r) \subseteq Used(nxt)
    <2>1. \A j \in 1..Len(r) : r[j].payload = "ExternalBlob" => r[j].id \in Used(nxt)
      BY DEF Sound, GoodStep
    <2>2. QED
      BY <1>2, <2>1
  <1>4. ASSUME NEW i \in 1..Len(u)
        PROVE  GoodStep(u[i], nxt, rec, sp, bl, doomed \cup Orphans(r))
    <2>1. GoodStep(u[i], nxt, rec, sp, bl, doomed)
      BY DEF Sound
    <2>2. \A j \in 1..Len(r) : u[i].id = r[j].id => u[i].id = 0
      BY DEF Sound, Distinct
    <2>3. 0 \notin Used(nxt)
      BY DEF Used, SnapshotIds
    <2>4. u[i].id \notin Orphans(r)
      BY <1>2, <1>3, <2>2, <2>3
    <2>5. QED
      BY <2>1, <2>4 DEF GoodStep
  <1>5. Distinct(u, <<>>)
    BY DEF Sound, Distinct
  <1>6. Len(u) + Len(<<>>) <= MaxSteps
    BY SoundLengths
  <1>7. <<>> \in Seq(StepType) /\ Len(<<>>) = 0
    OBVIOUS
  <1>8. \A i \in 1..Len(<<>>) : GoodStep(<<>>[i], nxt, rec, sp, bl, doomed \cup Orphans(r))
    BY <1>7
  <1>9. Sound(u, <<>>, nxt, rec, sp, bl, doomed \cup Orphans(r))
    BY <1>1, <1>4, <1>5, <1>6, <1>7, <1>8 DEF Sound
  <1>10. QED
    BY <1>3, <1>9
\* What Newest and Outdated make of a sequence one too long.
LEMMA CutOne ==
  ASSUME NEW X, NEW s \in Seq(X), NEW n \in Nat \ {0}, Len(s) = n + 1
  PROVE  /\ Newest(s, n) \in Seq(X) /\ Len(Newest(s, n)) = n
         /\ \A i \in 1..n : Newest(s, n)[i] = s[i + 1]
         /\ Outdated(s, n) \in Seq(X) /\ Len(Outdated(s, n)) = 1
         /\ Outdated(s, n)[1] = s[1]
  <1>1. Len(s) \in Nat /\ \A i \in 1..Len(s) : s[i] \in X
    OBVIOUS
  <1>2. ~(Len(s) <= n) /\ Len(s) - n + 1 = 2 /\ Len(s) - n = 1
    BY <1>1
  <1>3. Newest(s, n) = SubSeq(s, 2, n + 1) /\ Outdated(s, n) = SubSeq(s, 1, 1)
    BY <1>2 DEF Newest, Outdated
  <1>4. \A i \in 2..n + 1 : s[i] \in X
    BY <1>1
  <1>5. /\ SubSeq(s, 2, n + 1) \in Seq(X)
        /\ Len(SubSeq(s, 2, n + 1)) = IF 2 <= n + 1 THEN n + 1 - 2 + 1 ELSE 0
        /\ \A i \in 1..n + 1 - 2 + 1 : SubSeq(s, 2, n + 1)[i] = s[2 + i - 1]
    BY <1>4, SubSeqProperties
  <1>6. \A i \in 1..1 : s[i] \in X
    BY <1>1
  <1>7. /\ SubSeq(s, 1, 1) \in Seq(X)
        /\ Len(SubSeq(s, 1, 1)) = IF 1 <= 1 THEN 1 - 1 + 1 ELSE 0
        /\ \A i \in 1..1 - 1 + 1 : SubSeq(s, 1, 1)[i] = s[1 + i - 1]
    BY <1>6, SubSeqProperties
  <1>8. \A i \in 1..n : SubSeq(s, 2, n + 1)[i] = s[i + 1]
    BY <1>5
  <1>9. SubSeq(s, 1, 1)[1] = s[1] /\ Len(SubSeq(s, 1, 1)) = 1
    BY <1>7
  <1>10. Len(SubSeq(s, 2, n + 1)) = n
    BY <1>5
  <1>11. QED
    BY <1>3, <1>5, <1>7, <1>8, <1>9, <1>10

LEMMA CutNone ==
  ASSUME NEW s, NEW n, Len(s) <= n
  PROVE  Newest(s, n) = s /\ Outdated(s, n) = <<>> /\ Orphans(Outdated(s, n)) = {}
  BY DEF Newest, Outdated, Orphans, ToSet

\* A new step is recorded and the oldest cut if there are too many.
LEMMA SoundRecorded ==
  ASSUME NEW u, NEW nxt, NEW rec, NEW sp, NEW bl, NEW doomed, NEW step,
         Sound(u, <<>>, nxt, rec, sp, bl, doomed),
         GoodStep(step, nxt, rec, sp, bl, doomed),
         \A i \in 1..Len(u) : u[i].id = step.id => step.id = 0
  PROVE  /\ Sound(Newest(Append(u, step), MaxSteps), <<>>, nxt, rec, sp, bl,
                  doomed \cup Orphans(Outdated(Append(u, step), MaxSteps)))
         /\ Orphans(Outdated(Append(u, step), MaxSteps)) \subseteq Used(nxt)
  <1> DEFINE a == Append(u, step)
             n == Len(u)
  <1>1. /\ u \in Seq(StepType) /\ n \in Nat /\ MaxSteps \in Nat \ {0} /\ n <= MaxSteps
    <2>1. /\ u \in Seq(StepType) /\ n \in Nat /\ MaxSteps \in Nat \ {0}
          /\ n + Len(<<>>) <= MaxSteps
      BY SoundLengths
    <2>2. Len(<<>>) = 0
      OBVIOUS
    <2>3. QED
      BY <2>1, <2>2
  <1>2. step \in StepType
    BY DEF GoodStep
  <1>3. /\ a \in Seq(StepType) /\ Len(a) = n + 1
        /\ \A i \in 1..n : a[i] = u[i]
        /\ a[n + 1] = step
    BY <1>1, <1>2, Appended
  <1> HIDE DEF a
  <1>4. \A i \in 1..n : GoodStep(u[i], nxt, rec, sp, bl, doomed)
    BY DEF Sound
  <1>5. \A i \in 1..n + 1 : GoodStep(a[i], nxt, rec, sp, bl, doomed)
    BY <1>1, <1>3, <1>4
  <1>6. \A i \in 1..n : \A j \in 1..n : u[i].id = u[j].id /\ u[i].id # 0 => i = j
    BY DEF Sound, Distinct
  <1>7. \A i \in 1..n + 1 : \A j \in 1..n + 1 : a[i].id = a[j].id /\ a[i].id # 0 => i = j
    BY <1>1, <1>3, <1>6
  <1>8. <<>> \in Seq(StepType) /\ Len(<<>>) = 0
    OBVIOUS
  <1>9. CASE n + 1 <= MaxSteps
    <2>1. Newest(a, MaxSteps) = a /\ Orphans(Outdated(a, MaxSteps)) = {}
      BY <1>3, <1>9, CutNone
    <2>2. Distinct(a, <<>>)
      BY <1>3, <1>7, <1>8 DEF Distinct
    <2>3. Len(a) + Len(<<>>) <= MaxSteps
      BY <1>1, <1>3, <1>8, <1>9
    <2>4. \A i \in 1..Len(a) : GoodStep(a[i], nxt, rec, sp, bl, doomed)
      BY <1>3, <1>5
    <2>5. \A i \in 1..Len(<<>>) : GoodStep(<<>>[i], nxt, rec, sp, bl, doomed)
      BY <1>8
    <2>6. Sound(a, <<>>, nxt, rec, sp, bl, doomed)
      BY <1>3, <1>8, <2>2, <2>3, <2>4, <2>5 DEF Sound
    <2>7. doomed \cup {} = doomed
      OBVIOUS
    <2>8. QED
      BY <2>1, <2>6, <2>7 DEF a
  <1>10. CASE n = MaxSteps
    <2> DEFINE k == Newest(a, MaxSteps)
               o == Outdated(a, MaxSteps)
               D == doomed \cup Orphans(o)
    <2>1. /\ k \in Seq(StepType) /\ Len(k) = n
          /\ \A i \in 1..n : k[i] = a[i + 1]
          /\ o \in Seq(StepType) /\ Len(o) = 1 /\ o[1] = a[1]
      BY <1>1, <1>3, <1>10, CutOne
    <2> HIDE DEF k, o
    <2>2. \A e \in Orphans(o) : e = a[1].id /\ a[1].payload = "ExternalBlob"
      BY <2>1 DEF Orphans, ToSet
    <2>3. GoodStep(a[1], nxt, rec, sp, bl, doomed)
      BY <1>1, <1>5
    <2>4. a[1].payload = "ExternalBlob" => a[1].id \in Used(nxt) /\ a[1].id # 0
      BY <2>3 DEF GoodStep
    <2>5. Orphans(o) \subseteq Used(nxt)
      BY <2>2, <2>4
    <2>6. ASSUME NEW i \in 1..n
          PROVE  GoodStep(k[i], nxt, rec, sp, bl, D)
      <3>1. i + 1 \in 1..n + 1 /\ 1 \in 1..n + 1 /\ i + 1 # 1
        BY <1>1
      <3>2. k[i] = a[i + 1] /\ GoodStep(a[i + 1], nxt, rec, sp, bl, doomed)
        BY <1>5, <2>1, <3>1
      <3>3. a[i + 1].id = a[1].id => a[1].id = 0
        BY <1>7, <3>1
      <3>4. k[i].id \notin Orphans(o)
        BY <2>2, <2>4, <3>2, <3>3
      <3>5. QED
        BY <3>2, <3>4 DEF GoodStep
    <2>7. Distinct(k, <<>>)
      <3>1. ASSUME NEW i \in 1..n, NEW j \in 1..n, k[i].id = k[j].id, k[i].id # 0
            PROVE  i = j
        <4>1. i + 1 \in 1..n + 1 /\ j + 1 \in 1..n + 1 /\ k[i] = a[i + 1] /\ k[j] = a[j + 1]
          BY <1>1, <2>1
        <4>2. i + 1 = j + 1
          BY <1>7, <3>1, <4>1
        <4>3. QED
          BY <4>2
      <3>2. QED
        BY <1>8, <2>1, <3>1 DEF Distinct
    <2>8. Len(k) + Len(<<>>) <= MaxSteps
      BY <1>1, <1>8, <1>10, <2>1
    <2>9. \A i \in 1..Len(<<>>) : GoodStep(<<>>[i], nxt, rec, sp, bl, D)
      BY <1>8
    <2>10. Sound(k, <<>>, nxt, rec, sp, bl, D)
      BY <1>8, <2>1, <2>6, <2>7, <2>8, <2>9 DEF Sound
    <2>11. QED
      BY <2>5, <2>10 DEF k, o, a
  <1>11. QED
    BY <1>1, <1>9, <1>10

\* A transaction joins the newest step.
Joined(u, t) == [u EXCEPT ![Len(u)].txn = @ \cup {t}]

LEMMA JoinedSteps ==
  ASSUME NEW u \in Seq(StepType), u # <<>>, NEW t \in Transactions
  PROVE  /\ Joined(u, t) \in Seq(StepType) /\ Len(Joined(u, t)) = Len(u)
         /\ Len(u) \in 1..Len(u) /\ Len(u) \in Nat
         /\ \A i \in 1..Len(u) : i # Len(u) => Joined(u, t)[i] = u[i]
         /\ Joined(u, t)[Len(u)] = [u[Len(u)] EXCEPT !.txn = @ \cup {t}]
         /\ Joined(u, t)[Len(u)] \in StepType
  <1>1. /\ Len(u) \in Nat \ {0} /\ Len(u) \in 1..Len(u) /\ DOMAIN u = 1..Len(u)
        /\ u[Len(u)] \in StepType
    OBVIOUS
  <1>2. [u[Len(u)] EXCEPT !.txn = @ \cup {t}] \in StepType
    BY <1>1 DEF StepType
  <1>3. Joined(u, t) = [u EXCEPT ![Len(u)] = [u[Len(u)] EXCEPT !.txn = @ \cup {t}]]
    BY DEF Joined
  <1>4. ASSUME NEW x \in StepType
        PROVE  /\ [u EXCEPT ![Len(u)] = x] \in Seq(StepType)
               /\ Len([u EXCEPT ![Len(u)] = x]) = Len(u)
               /\ \A i \in 1..Len(u) : i # Len(u) => [u EXCEPT ![Len(u)] = x][i] = u[i]
               /\ [u EXCEPT ![Len(u)] = x][Len(u)] = x
    <2>1. /\ [u EXCEPT ![Len(u)] = x] \in Seq(StepType)
          /\ Len([u EXCEPT ![Len(u)] = x]) = Len(u)
      BY <1>1, ExceptSeq
    <2>2. /\ \A i \in 1..Len(u) : i # Len(u) => [u EXCEPT ![Len(u)] = x][i] = u[i]
          /\ [u EXCEPT ![Len(u)] = x][Len(u)] = x
      BY <1>1
    <2>3. QED
      BY <2>1, <2>2
  <1>5. QED
    BY <1>1, <1>2, <1>3, <1>4

LEMMA SoundJoined ==
  ASSUME NEW u, NEW nxt, NEW rec, NEW sp, NEW bl, NEW doomed, NEW t \in Transactions,
         Sound(u, <<>>, nxt, rec, sp, bl, doomed), u # <<>>, u[Len(u)].typing
  PROVE  Sound(Joined(u, t), <<>>, nxt, rec, sp, bl, doomed)
  <1> DEFINE v == Joined(u, t)
             n == Len(u)
  <1>1. /\ u \in Seq(StepType) /\ n \in Nat /\ MaxSteps \in Nat \ {0}
        /\ n + Len(<<>>) <= MaxSteps
    BY SoundLengths
  <1>2. /\ v \in Seq(StepType) /\ Len(v) = n /\ n \in 1..n
        /\ \A i \in 1..n : i # n => v[i] = u[i]
        /\ v[n] = [u[n] EXCEPT !.txn = @ \cup {t}] /\ v[n] \in StepType
    BY <1>1, JoinedSteps
  <1> HIDE DEF v
  <1>3. GoodStep(u[n], nxt, rec, sp, bl, doomed) /\ u[n] \in StepType
    BY <1>2 DEF Sound, GoodStep
  <1>4. v[n].id = u[n].id /\ v[n].payload = u[n].payload /\ v[n].typing = u[n].typing
    BY <1>2, <1>3 DEF StepType
  <1>5. u[n].payload = "InlineSmall"
    BY <1>3 DEF GoodStep
  <1>6. GoodStep(v[n], nxt, rec, sp, bl, doomed)
    BY <1>2, <1>3, <1>4, <1>5 DEF GoodStep
  <1>7. \A i \in 1..n : v[i].id = u[i].id
    BY <1>2, <1>4
  <1>8. Distinct(v, <<>>)
    <2>1. Distinct(u, <<>>)
      BY DEF Sound
    <2>2. Len(<<>>) = 0
      OBVIOUS
    <2>3. QED
      BY <1>2, <1>7, <2>1, <2>2 DEF Distinct
  <1>9. \A i \in 1..n : GoodStep(v[i], nxt, rec, sp, bl, doomed)
    BY <1>2, <1>6 DEF Sound
  <1>10. Sound(v, <<>>, nxt, rec, sp, bl, doomed)
    <2>1. /\ <<>> \in Seq(StepType)
          /\ \A i \in 1..Len(<<>>) : GoodStep(<<>>[i], nxt, rec, sp, bl, doomed)
      BY DEF Sound
    <2>2. QED
      BY <1>1, <1>2, <1>8, <1>9, <2>1 DEF Sound
  <1>11. QED
    BY <1>10 DEF v
-----------------------------------------------------------------------------
(* Replacing a step, and the content of the stacks.                        *)

Members(u, r) == {u[i] : i \in 1..Len(u)} \cup {r[i] : i \in 1..Len(r)}
Sub(s, payload, id, new) == IF s.payload = payload /\ s.id = id THEN new ELSE s
Subs(u, payload, id, new) == [i \in DOMAIN u |-> Sub(u[i], payload, id, new)]

\* The content of a step as it was recorded, wherever it is now.
Recorded(s, rec) == IF s.payload = "InlineSmall" THEN s.txn ELSE rec[s.id]
RecordedSteps(u, rec) == [i \in 1..Len(u) |-> Recorded(u[i], rec)]

LEMMA MemberGood ==
  ASSUME NEW u, NEW r, NEW nxt, NEW rec, NEW sp, NEW bl, NEW doomed,
         Sound(u, r, nxt, rec, sp, bl, doomed), NEW s \in Members(u, r)
  PROVE  GoodStep(s, nxt, rec, sp, bl, doomed)
  BY DEF Members, Sound

\* Two steps with one id are one step.
LEMMA MemberUnique ==
  ASSUME NEW u, NEW r, NEW nxt, NEW rec, NEW sp, NEW bl, NEW doomed,
         Sound(u, r, nxt, rec, sp, bl, doomed),
         NEW s \in Members(u, r), NEW t \in Members(u, r), s.id = t.id, s.id # 0
  PROVE  s = t
  <1>1. Distinct(u, r)
    BY DEF Sound
  <1>2. QED
    BY <1>1 DEF Members, Distinct

LEMMA SubsSteps ==
  ASSUME NEW u \in Seq(StepType), NEW payload, NEW id, NEW new \in StepType
  PROVE  /\ Subs(u, payload, id, new) \in Seq(StepType)
         /\ Len(Subs(u, payload, id, new)) = Len(u) /\ Len(u) \in Nat
         /\ \A i \in 1..Len(u) : Subs(u, payload, id, new)[i] = Sub(u[i], payload, id, new)
  <1>1. DOMAIN u = 1..Len(u) /\ Len(u) \in Nat /\ \A i \in 1..Len(u) : u[i] \in StepType
    OBVIOUS
  <1>2. \A i \in 1..Len(u) : Sub(u[i], payload, id, new) \in StepType
    BY <1>1 DEF Sub
  <1>3. Subs(u, payload, id, new) \in [1..Len(u) -> StepType]
    BY <1>1, <1>2 DEF Subs
  <1>4. QED
    BY <1>1, <1>3 DEF Subs

LEMMA SoundReplaced ==
  ASSUME NEW u, NEW r, NEW nxt, NEW rec, NEW sp, NEW bl, NEW doomed,
         NEW payload, NEW id, NEW new \in StepType, NEW sp2, NEW doomed2,
         Sound(u, r, nxt, rec, sp, bl, doomed),
         payload # "InlineSmall", new.id = id, new.payload # "InlineSmall",
         \A s \in Members(u, r) :
            GoodStep(Sub(s, payload, id, new), nxt, rec, sp2, bl, doomed2)
  PROVE  Sound(Subs(u, payload, id, new), Subs(r, payload, id, new),
               nxt, rec, sp2, bl, doomed2)
  <1> DEFINE v == Subs(u, payload, id, new)
             q == Subs(r, payload, id, new)
  <1>1. /\ u \in Seq(StepType) /\ r \in Seq(StepType)
        /\ Len(u) \in Nat /\ Len(r) \in Nat /\ Len(u) + Len(r) <= MaxSteps
    BY SoundLengths
  <1>2. /\ v \in Seq(StepType) /\ Len(v) = Len(u)
        /\ \A i \in 1..Len(u) : v[i] = Sub(u[i], payload, id, new)
        /\ q \in Seq(StepType) /\ Len(q) = Len(r)
        /\ \A i \in 1..Len(r) : q[i] = Sub(r[i], payload, id, new)
    BY <1>1, SubsSteps
  <1> HIDE DEF v, q
  <1>3. \A s : Sub(s, payload, id, new).id = s.id
    BY DEF Sub
  <1>4. /\ \A i \in 1..Len(u) : v[i].id = u[i].id
        /\ \A i \in 1..Len(r) : q[i].id = r[i].id
    BY <1>2, <1>3
  <1>5. Distinct(v, q)
    <2>1. Distinct(u, r)
      BY DEF Sound
    <2>2. QED
      BY <1>2, <1>4, <2>1 DEF Distinct
  <1>6. /\ \A i \in 1..Len(u) : u[i] \in Members(u, r)
        /\ \A i \in 1..Len(r) : r[i] \in Members(u, r)
    BY DEF Members
  <1>7. /\ \A i \in 1..Len(v) : GoodStep(v[i], nxt, rec, sp2, bl, doomed2)
        /\ \A i \in 1..Len(q) : GoodStep(q[i], nxt, rec, sp2, bl, doomed2)
    BY <1>2, <1>6
  <1>8. Sound(v, q, nxt, rec, sp2, bl, doomed2)
    BY <1>1, <1>2, <1>5, <1>7 DEF Sound
  <1>9. QED
    BY <1>8 DEF v, q

\* The content stays what was recorded.
LEMMA SubsContent ==
  ASSUME NEW u \in Seq(StepType), NEW rec, NEW payload, NEW id, NEW new \in StepType,
         payload # "InlineSmall", new.id = id, new.payload # "InlineSmall"
  PROVE  RecordedSteps(Subs(u, payload, id, new), rec) = RecordedSteps(u, rec)
  <1>1. /\ Len(Subs(u, payload, id, new)) = Len(u)
        /\ \A i \in 1..Len(u) : Subs(u, payload, id, new)[i] = Sub(u[i], payload, id, new)
    BY SubsSteps
  <1>2. \A s : Recorded(Sub(s, payload, id, new), rec) = Recorded(s, rec)
    BY DEF Recorded, Sub
  <1>3. QED
    BY <1>1, <1>2 DEF RecordedSteps

LEMMA Sides ==
  ASSUME NEW h \in [Directions -> Side]
  PROVE  /\ h.Undo = h["Undo"] /\ h.Redo = h["Redo"]
         /\ \A d \in Directions :
              /\ h[d] \in Side
              /\ h[d].steps \in Seq(StepType) /\ h[d].events \in Seq(EventKind)
              /\ h[d].texts \in Nat
  BY DEF Directions, Side

\* Updating the steps of a side.
LEMMA StepsUpdate ==
  ASSUME NEW r \in Side, NEW x
  PROVE  [r EXCEPT !.steps = x] = [steps |-> x, events |-> r.events, texts |-> r.texts]
  <1>1. r = [steps |-> r.steps, events |-> r.events, texts |-> r.texts]
    BY DEF Side
  <1>2. PICK a, b, c : r = [steps |-> a, events |-> b, texts |-> c]
    BY <1>1
  <1>3. [r EXCEPT !.steps = x] = [steps |-> x, events |-> b, texts |-> c]
    BY <1>2
  <1>4. r.events = b /\ r.texts = c
    BY <1>2
  <1>5. QED
    BY <1>3, <1>4

\* Replace, side by side.
LEMMA ReplacedSides ==
  ASSUME NEW h \in [Directions -> Side], NEW payload, NEW id, NEW new \in StepType
  PROVE  /\ Replace(h, payload, id, new) \in [Directions -> Side]
         /\ \A d \in Directions :
              LET side == Replace(h, payload, id, new)[d]
              IN  /\ side.steps = Subs(h[d].steps, payload, id, new)
                  /\ side.events = h[d].events
                  /\ side.texts = h[d].texts
                  /\ Matched(h[d]) => Matched(side)
  <1>1. ASSUME NEW d \in Directions
        PROVE  /\ Replace(h, payload, id, new)[d] =
                    [steps |-> Subs(h[d].steps, payload, id, new),
                     events |-> h[d].events, texts |-> h[d].texts]
               /\ Replace(h, payload, id, new)[d] \in Side
               /\ Len(Subs(h[d].steps, payload, id, new)) = Len(h[d].steps)
    <2>1. /\ h[d] \in Side
          /\ h[d].steps \in Seq(StepType) /\ h[d].events \in Seq(EventKind) /\ h[d].texts \in Nat
      BY Sides
    <2>2. /\ Subs(h[d].steps, payload, id, new) \in Seq(StepType)
          /\ Len(Subs(h[d].steps, payload, id, new)) = Len(h[d].steps)
      BY <2>1, SubsSteps
    <2>3. Replace(h, payload, id, new)[d] =
            [h[d] EXCEPT !.steps = Subs(h[d].steps, payload, id, new)]
      BY DEF Replace, Subs, Sub
    <2>4. ASSUME NEW x
          PROVE  [h[d] EXCEPT !.steps = x] =
                   [steps |-> x, events |-> h[d].events, texts |-> h[d].texts]
      BY <2>1, StepsUpdate
    <2>5. QED
      BY <2>1, <2>2, <2>3, <2>4 DEF Side
  <1>2. Replace(h, payload, id, new) \in [Directions -> Side]
    <2>1. Replace(h, payload, id, new) = [d \in Directions |-> Replace(h, payload, id, new)[d]]
      BY DEF Replace
    <2>2. \A d \in Directions : Replace(h, payload, id, new)[d] \in Side
      BY <1>1
    <2> HIDE DEF Side
    <2>3. QED
      BY <2>1, <2>2
  <1>3. QED
    BY <1>1, <1>2 DEF Matched
-----------------------------------------------------------------------------
(* The history as a whole.                                                 *)

\* The same content in both stacks.
SameContent(h, h2, rec) ==
    \A d \in Directions : RecordedSteps(h2[d].steps, rec) = RecordedSteps(h[d].steps, rec)

\* The newest step of a side is on the other side now.
MovedContent(h, h2, d, rec) ==
    LET from == RecordedSteps(h[d].steps, rec)
        to == RecordedSteps(h[Other(d)].steps, rec)
    IN  /\ from # <<>>
        /\ RecordedSteps(h2[d].steps, rec) = SubSeq(from, 1, Len(from) - 1)
        /\ RecordedSteps(h2[Other(d)].steps, rec) = Append(to, from[Len(from)])

RecordedSet(rec) == {Recorded(s, rec) : s \in StepType}

LEMMA RecordedType ==
  ASSUME NEW u \in Seq(StepType), NEW rec
  PROVE  /\ RecordedSteps(u, rec) \in Seq(RecordedSet(rec))
         /\ Len(RecordedSteps(u, rec)) = Len(u) /\ Len(u) \in Nat
         /\ \A i \in 1..Len(u) : RecordedSteps(u, rec)[i] = Recorded(u[i], rec)
         /\ u # <<>> => RecordedSteps(u, rec) # <<>>
  <1>1. Len(u) \in Nat /\ DOMAIN u = 1..Len(u) /\ \A i \in 1..Len(u) : u[i] \in StepType
    OBVIOUS
  <1>2. \A i \in 1..Len(u) : Recorded(u[i], rec) \in RecordedSet(rec)
    BY <1>1 DEF RecordedSet
  <1>3. RecordedSteps(u, rec) \in [1..Len(u) -> RecordedSet(rec)]
    BY <1>2 DEF RecordedSteps
  <1>4. RecordedSteps(u, rec) \in Seq(RecordedSet(rec)) /\ Len(RecordedSteps(u, rec)) = Len(u)
    BY <1>1, <1>3
  <1>5. \A i \in 1..Len(u) : RecordedSteps(u, rec)[i] = Recorded(u[i], rec)
    BY DEF RecordedSteps
  <1>6. u # <<>> => Len(u) # 0
    BY <1>1
  <1>7. QED
    BY <1>1, <1>4, <1>5, <1>6

LEMMA RecordedFront ==
  ASSUME NEW u \in Seq(StepType), u # <<>>, NEW rec
  PROVE  LET a == RecordedSteps(u, rec)
         IN  RecordedSteps(Front(u), rec) = SubSeq(a, 1, Len(a) - 1)
  <1> DEFINE X == RecordedSet(rec)
             a == RecordedSteps(u, rec)
             f == RecordedSteps(Front(u), rec)
             b == SubSeq(a, 1, Len(a) - 1)
  <1>1. /\ Len(u) \in Nat \ {0} /\ Front(u) \in Seq(StepType) /\ Len(Front(u)) = Len(u) - 1
        /\ \A i \in 1..Len(u) - 1 : Front(u)[i] = u[i]
    BY FrontLast
  <1>2. /\ a \in Seq(X) /\ Len(a) = Len(u)
        /\ \A i \in 1..Len(u) : a[i] = Recorded(u[i], rec)
        /\ a # <<>>
    BY RecordedType
  <1>3. /\ f \in Seq(X) /\ Len(f) = Len(u) - 1
        /\ \A i \in 1..Len(u) - 1 : f[i] = Recorded(Front(u)[i], rec)
    BY <1>1, RecordedType
  <1> HIDE DEF a, f, X
  <1>4. b \in Seq(X) /\ Len(b) = Len(a) - 1 /\ \A i \in 1..Len(a) - 1 : b[i] = a[i]
    BY <1>2, FrontLast DEF Front
  <1> HIDE DEF b
  <1>5. \A i \in 1..Len(f) : f[i] = b[i]
    BY <1>1, <1>2, <1>3, <1>4
  <1>6. f = b
    BY <1>1, <1>2, <1>3, <1>4, <1>5, SeqEqual
  <1>7. QED
    BY <1>6 DEF f, b, a

LEMMA RecordedAppend ==
  ASSUME NEW u \in Seq(StepType), NEW s \in StepType, NEW rec
  PROVE  RecordedSteps(Append(u, s), rec) = Append(RecordedSteps(u, rec), Recorded(s, rec))
  <1> DEFINE X == RecordedSet(rec)
             a == RecordedSteps(u, rec)
             c == Append(u, s)
             f == RecordedSteps(c, rec)
             b == Append(a, Recorded(s, rec))
  <1>1. /\ c \in Seq(StepType) /\ Len(c) = Len(u) + 1 /\ Len(u) \in Nat
        /\ \A i \in 1..Len(u) : c[i] = u[i]
        /\ c[Len(u) + 1] = s
    BY Appended
  <1>2. /\ a \in Seq(X) /\ Len(a) = Len(u)
        /\ \A i \in 1..Len(u) : a[i] = Recorded(u[i], rec)
    BY RecordedType
  <1> HIDE DEF c
  <1>3. /\ f \in Seq(X) /\ Len(f) = Len(u) + 1
        /\ \A i \in 1..Len(u) + 1 : f[i] = Recorded(c[i], rec)
    BY <1>1, RecordedType
  <1>4. Recorded(s, rec) \in X
    BY DEF RecordedSet
  <1> HIDE DEF a, f, X
  <1>5. /\ b \in Seq(X) /\ Len(b) = Len(a) + 1
        /\ \A i \in 1..Len(a) : b[i] = a[i]
        /\ b[Len(a) + 1] = Recorded(s, rec)
    BY <1>2, <1>4, Appended
  <1> HIDE DEF b
  <1>6. \A i \in 1..Len(f) : f[i] = b[i]
    BY <1>1, <1>2, <1>3, <1>5
  <1>7. f = b
    BY <1>1, <1>2, <1>3, <1>5, <1>6, SeqEqual
  <1>8. QED
    BY <1>7 DEF f, b, a, c

LEMMA RecordedNewest ==
  ASSUME NEW u \in Seq(StepType), NEW rec, NEW n \in Nat \ {0}, Len(u) <= n + 1
  PROVE  RecordedSteps(Newest(u, n), rec) = Newest(RecordedSteps(u, rec), n)
  <1> DEFINE X == RecordedSet(rec)
             a == RecordedSteps(u, rec)
  <1>1. /\ a \in Seq(X) /\ Len(a) = Len(u) /\ Len(u) \in Nat
        /\ \A i \in 1..Len(u) : a[i] = Recorded(u[i], rec)
    BY RecordedType
  <1>2. CASE Len(u) <= n
    BY <1>1, <1>2, CutNone
  <1>3. CASE Len(u) = n + 1
    <2> DEFINE k == Newest(u, n)
               f == RecordedSteps(k, rec)
               b == Newest(a, n)
    <2>1. k \in Seq(StepType) /\ Len(k) = n /\ \A i \in 1..n : k[i] = u[i + 1]
      BY <1>3, CutOne
    <2> HIDE DEF k
    <2>2. f \in Seq(X) /\ Len(f) = n /\ \A i \in 1..n : f[i] = Recorded(k[i], rec)
      BY <2>1, RecordedType
    <2> HIDE DEF a, f, X
    <2>3. b \in Seq(X) /\ Len(b) = n /\ \A i \in 1..n : b[i] = a[i + 1]
      BY <1>1, <1>3, CutOne
    <2> HIDE DEF b
    <2>4. \A i \in 1..n : i + 1 \in 1..Len(u)
      BY <1>3
    <2>5. \A i \in 1..Len(f) : f[i] = b[i]
      BY <1>1, <2>1, <2>2, <2>3, <2>4
    <2>6. f = b
      BY <2>2, <2>3, <2>5, SeqEqual
    <2>7. QED
      BY <2>6 DEF f, b, k, a
  <1>4. QED
    BY <1>1, <1>2, <1>3

LEMMA RecordedJoined ==
  ASSUME NEW u \in Seq(StepType), u # <<>>, NEW t \in Transactions, NEW rec,
         u[Len(u)].payload = "InlineSmall"
  PROVE  LET a == RecordedSteps(u, rec)
         IN  RecordedSteps(Joined(u, t), rec) = [a EXCEPT ![Len(a)] = @ \cup {t}]
  <1> DEFINE a == RecordedSteps(u, rec)
             v == Joined(u, t)
             b == [a EXCEPT ![Len(a)] = a[Len(a)] \cup {t}]
  <1>1. /\ v \in Seq(StepType) /\ Len(v) = Len(u)
        /\ Len(u) \in 1..Len(u) /\ Len(u) \in Nat
        /\ \A i \in 1..Len(u) : i # Len(u) => v[i] = u[i]
        /\ v[Len(u)] = [u[Len(u)] EXCEPT !.txn = @ \cup {t}]
    BY JoinedSteps
  <1>2. Len(a) = Len(u) /\ \A i \in 1..Len(u) : a[i] = Recorded(u[i], rec)
    BY RecordedType
  <1>3. u[Len(u)] \in StepType
    BY <1>1
  <1>4. v[Len(u)].payload = "InlineSmall" /\ v[Len(u)].txn = u[Len(u)].txn \cup {t}
    BY <1>1, <1>3 DEF StepType
  <1>5. Recorded(v[Len(u)], rec) = Recorded(u[Len(u)], rec) \cup {t}
    BY <1>4 DEF Recorded
  <1>6. a = [i \in 1..Len(u) |-> Recorded(u[i], rec)]
    BY DEF RecordedSteps
  <1>7. RecordedSteps(v, rec) = [i \in 1..Len(u) |-> Recorded(v[i], rec)]
    BY <1>1 DEF RecordedSteps
  <1> HIDE DEF a, v
  <1>8. b = [i \in 1..Len(u) |-> IF i = Len(u) THEN a[Len(u)] \cup {t} ELSE a[i]]
    BY <1>1, <1>2, <1>6
  <1>9. \A i \in 1..Len(u) :
          Recorded(v[i], rec) = IF i = Len(u) THEN a[Len(u)] \cup {t} ELSE a[i]
    BY <1>1, <1>2, <1>5
  <1>10. RecordedSteps(v, rec) = b
    BY <1>7, <1>8, <1>9
  <1>11. QED
    BY <1>10 DEF a, v

LEMMA ReplacedHistory ==
  ASSUME NEW h, NEW nxt, NEW rec, NEW sp, NEW bl, NEW doomed,
         NEW payload, NEW id, NEW new \in StepType, NEW sp2, NEW doomed2,
         GoodHistory(h, nxt, rec, sp, bl, doomed),
         payload # "InlineSmall", new.id = id, new.payload # "InlineSmall",
         \A s \in Members(h["Undo"].steps, h["Redo"].steps) :
            GoodStep(Sub(s, payload, id, new), nxt, rec, sp2, bl, doomed2)
  PROVE  /\ GoodHistory(Replace(h, payload, id, new), nxt, rec, sp2, bl, doomed2)
         /\ SameContent(h, Replace(h, payload, id, new), rec)
         /\ \A d \in Directions :
              Replace(h, payload, id, new)[d].steps = Subs(h[d].steps, payload, id, new)
  <1> DEFINE u == h["Undo"].steps
             r == h["Redo"].steps
             g == Replace(h, payload, id, new)
  <1>1. h \in [Directions -> Side] /\ Sound(u, r, nxt, rec, sp, bl, doomed)
    BY DEF GoodHistory
  <1>2. "Undo" \in Directions /\ "Redo" \in Directions /\ \A d \in Directions : d = "Undo" \/ d = "Redo"
    BY DEF Directions
  <1>3. /\ g \in [Directions -> Side]
        /\ \A d \in Directions :
              /\ g[d].steps = Subs(h[d].steps, payload, id, new)
              /\ g[d].texts = h[d].texts
              /\ Matched(h[d]) => Matched(g[d])
    BY <1>1, ReplacedSides
  <1>4. Sound(Subs(u, payload, id, new), Subs(r, payload, id, new), nxt, rec, sp2, bl, doomed2)
    <2>1. \A s \in Members(u, r) :
            GoodStep(Sub(s, payload, id, new), nxt, rec, sp2, bl, doomed2)
      OBVIOUS
    <2> HIDE DEF u, r
    <2>2. QED
      BY <1>1, <2>1, SoundReplaced
  <1> HIDE DEF g
  <1>5. g["Undo"].steps = Subs(u, payload, id, new) /\ g["Redo"].steps = Subs(r, payload, id, new)
    BY <1>2, <1>3
  <1>6. TextsBounded(g) /\ \A d \in Directions : Matched(g[d])
    BY <1>2, <1>3 DEF GoodHistory, TextsBounded
  <1>7. GoodHistory(g, nxt, rec, sp2, bl, doomed2)
    BY <1>3, <1>4, <1>5, <1>6 DEF GoodHistory
  <1>8. SameContent(h, g, rec)
    <2>1. ASSUME NEW d \in Directions
          PROVE  RecordedSteps(g[d].steps, rec) = RecordedSteps(h[d].steps, rec)
      <3>1. h[d].steps \in Seq(StepType)
        BY <1>1, Sides
      <3>2. RecordedSteps(Subs(h[d].steps, payload, id, new), rec) = RecordedSteps(h[d].steps, rec)
        BY <3>1, SubsContent
      <3>3. QED
        BY <1>3, <3>2
    <2>2. QED
      BY <2>1 DEF SameContent
  <1>9. QED
    BY <1>3, <1>7, <1>8 DEF g

\* Undo or redo moves an entry to the other side with its event.
LEMMA MovedHistory ==
  ASSUME NEW h, NEW nxt, NEW rec, NEW sp, NEW bl, NEW doomed, NEW d \in Directions,
         GoodHistory(h, nxt, rec, sp, bl, doomed), h[d].events # <<>>
  PROVE  /\ GoodHistory(Moved(h, d), nxt, rec, sp, bl, doomed)
         /\ Last(h[d].events) = "Text" => SameContent(h, Moved(h, d), rec)
         /\ Last(h[d].events) # "Text" => MovedContent(h, Moved(h, d), d, rec)
  <1> DEFINE o == Other(d)
             e == Last(h[d].events)
             g == Moved(h, d)
             S == h[d].steps
             T == h[o].steps
  <1>1. /\ o \in Directions /\ o # d
        /\ (d = "Undo" /\ o = "Redo") \/ (d = "Redo" /\ o = "Undo")
    BY DEF Other, Directions
  <1>2. h \in [Directions -> Side] /\ Matched(h[d]) /\ Matched(h[o]) /\ TextsBounded(h)
    BY <1>1 DEF GoodHistory
  <1>3. /\ S \in Seq(StepType) /\ h[d].events \in Seq(EventKind) /\ h[d].texts \in Nat
        /\ T \in Seq(StepType) /\ h[o].events \in Seq(EventKind) /\ h[o].texts \in Nat
    BY <1>1, <1>2, Sides
  <1>4. e \in EventKind /\ Front(h[d].events) \in Seq(EventKind)
        /\ Append(h[o].events, e) \in Seq(EventKind)
        /\ Len(h[d].events) \in 1..Len(h[d].events)
    <2>1. /\ e \in EventKind /\ Front(h[d].events) \in Seq(EventKind)
          /\ Len(h[d].events) \in Nat \ {0}
      BY <1>3, FrontLast
    <2>2. Append(h[o].events, e) \in Seq(EventKind)
      <3> HIDE DEF e, o
      <3>1. QED
        BY <1>3, <2>1
    <2>3. QED
      BY <2>1, <2>2
  <1>5. /\ Count(Front(h[d].events), "Text")
             = IF e = "Text" THEN Count(h[d].events, "Text") - 1 ELSE Count(h[d].events, "Text")
        /\ Count(Front(h[d].events), "ExternalTransaction")
             = IF e = "ExternalTransaction" THEN Count(h[d].events, "ExternalTransaction") - 1
               ELSE Count(h[d].events, "ExternalTransaction")
    BY <1>3, CountFront
  <1>6. /\ Count(Append(h[o].events, e), "Text")
             = IF e = "Text" THEN Count(h[o].events, "Text") + 1 ELSE Count(h[o].events, "Text")
        /\ Count(Append(h[o].events, e), "ExternalTransaction")
             = IF e = "ExternalTransaction" THEN Count(h[o].events, "ExternalTransaction") + 1
               ELSE Count(h[o].events, "ExternalTransaction")
    BY <1>3, <1>4, CountAppend
  <1>7. Count(h[d].events, e) > 0
    BY <1>3, <1>4, IndicesFinite DEF Last
  <1> DEFINE gd == [steps |-> IF e = "Text" THEN S ELSE Front(S), events |-> Front(h[d].events),
                    texts |-> IF e = "Text" THEN h[d].texts - 1 ELSE h[d].texts]
             go == [steps |-> IF e = "Text" THEN T ELSE Append(T, Last(S)),
                    events |-> Append(h[o].events, e),
                    texts |-> IF e = "Text" THEN h[o].texts + 1 ELSE h[o].texts]
  <1>8. g = [h EXCEPT ![d] = gd, ![o] = go]
    BY DEF Moved
  <1>9. Sound(S, T, nxt, rec, sp, bl, doomed)
    BY <1>1, SoundSwap DEF GoodHistory
  <1> HIDE DEF g, gd, go, o, e, S, T
  <1>10. /\ DOMAIN h = Directions
         /\ DOMAIN g = Directions
         /\ g[d] = gd /\ g[o] = go
         /\ gd \in Side /\ go \in Side => g \in [Directions -> Side]
    BY <1>1, <1>2, <1>8
  <1>11. CASE e = "Text"
    <2>1. /\ gd = [steps |-> S, events |-> Front(h[d].events), texts |-> h[d].texts - 1]
          /\ go = [steps |-> T, events |-> Append(h[o].events, e), texts |-> h[o].texts + 1]
      BY <1>11 DEF gd, go
    <2>2. h[d].texts - 1 \in Nat /\ h[o].texts + 1 \in Nat
      BY <1>2, <1>3, <1>7, <1>11, CountNat DEF Matched
    <2>3. gd \in Side /\ go \in Side
      BY <1>3, <1>4, <2>1, <2>2 DEF Side
    <2>4. Matched(gd)
      BY <1>2, <1>3, <1>5, <1>11, <2>1, CountNat DEF Matched, S
    <2>5. Matched(go)
      BY <1>2, <1>3, <1>6, <1>11, <2>1, CountNat DEF Matched, T
    <2>6. \A x \in Directions : Matched(g[x])
      BY <1>1, <1>10, <2>4, <2>5 DEF Directions
    <2>7. g[d].steps = S /\ g[o].steps = T
      BY <1>10, <2>1
    <2>8. Sound(g["Undo"].steps, g["Redo"].steps, nxt, rec, sp, bl, doomed)
      BY <1>1, <1>9, <2>7, SoundSwap
    <2>9. GoodHistory(g, nxt, rec, sp, bl, doomed)
      <3>1. g[d].texts = h[d].texts - 1 /\ g[o].texts = h[o].texts + 1
        BY <1>10, <2>1
      <3>2. TextsBounded(g)
        <4>1. h["Undo"].texts \in Nat /\ h["Redo"].texts \in Nat
          BY <1>2, Sides DEF Directions
        <4>2. \/ /\ g["Undo"].texts = h["Undo"].texts - 1
                 /\ g["Redo"].texts = h["Redo"].texts + 1
              \/ /\ g["Undo"].texts = h["Undo"].texts + 1
                 /\ g["Redo"].texts = h["Redo"].texts - 1
          BY <1>1, <3>1
        <4>3. QED
          BY <1>2, <4>1, <4>2, Limits DEF TextsBounded
      <3>3. QED
        BY <1>10, <2>3, <2>6, <2>8, <3>2 DEF GoodHistory
    <2>10. SameContent(h, g, rec)
      BY <1>1, <2>7 DEF SameContent, S, T, Directions
    <2>11. QED
      BY <1>11, <2>9, <2>10 DEF g, e
  <1>12. CASE e # "Text"
    <2>0. e = "ExternalTransaction"
      BY <1>4, <1>12 DEF EventKind
    <2>1. /\ gd = [steps |-> Front(S), events |-> Front(h[d].events), texts |-> h[d].texts]
          /\ go = [steps |-> Append(T, Last(S)), events |-> Append(h[o].events, e),
                   texts |-> h[o].texts]
      BY <1>12 DEF gd, go
    <2>2. S # <<>>
      <3>1. Len(S) > 0
        BY <1>2, <1>7, <2>0 DEF Matched, S
      <3>2. Len(<<>>) = 0
        OBVIOUS
      <3>3. QED
        BY <3>1, <3>2
    <2>3. /\ Front(S) \in Seq(StepType) /\ Len(Front(S)) = Len(S) - 1 /\ Last(S) \in StepType
          /\ Append(T, Last(S)) \in Seq(StepType) /\ Len(Append(T, Last(S))) = Len(T) + 1
      BY <1>3, <2>2, FrontLast, Appended
    <2>4. gd \in Side /\ go \in Side
      BY <1>3, <1>4, <2>1, <2>3 DEF Side
    <2>5. Matched(gd)
      BY <1>2, <1>5, <2>0, <2>1, <2>3 DEF Matched, S
    <2>6. Matched(go)
      BY <1>2, <1>6, <2>0, <2>1, <2>3 DEF Matched, T
    <2>7. \A x \in Directions : Matched(g[x])
      BY <1>1, <1>10, <2>5, <2>6 DEF Directions
    <2>8. g[d].steps = Front(S) /\ g[o].steps = Append(T, Last(S))
      BY <1>10, <2>1
    <2>9. Sound(Front(S), Append(T, Last(S)), nxt, rec, sp, bl, doomed)
      BY <1>9, <2>2, SoundMoved
    <2>10. Sound(g["Undo"].steps, g["Redo"].steps, nxt, rec, sp, bl, doomed)
      BY <1>1, <2>8, <2>9, SoundSwap
    <2>11. GoodHistory(g, nxt, rec, sp, bl, doomed)
      <3>1. g[d].texts = h[d].texts /\ g[o].texts = h[o].texts
        BY <1>10, <2>1
      <3>2. TextsBounded(g)
        BY <1>1, <1>2, <3>1 DEF TextsBounded
      <3>3. QED
        BY <1>10, <2>4, <2>7, <2>10, <3>2 DEF GoodHistory
    <2>12. MovedContent(h, g, d, rec)
      <3> DEFINE from == RecordedSteps(S, rec)
      <3>1. RecordedSteps(Front(S), rec) = SubSeq(from, 1, Len(from) - 1)
        BY <1>3, <2>2, RecordedFront
      <3>2. RecordedSteps(Append(T, Last(S)), rec)
              = Append(RecordedSteps(T, rec), Recorded(Last(S), rec))
        BY <1>3, <2>3, RecordedAppend
      <3>3. from # <<>> /\ Recorded(Last(S), rec) = from[Len(from)]
        <4>1. Len(S) \in Nat \ {0} /\ Last(S) = S[Len(S)]
          BY <1>3, <2>2, FrontLast
        <4>2. /\ Len(from) = Len(S) /\ from # <<>>
              /\ \A i \in 1..Len(S) : from[i] = Recorded(S[i], rec)
          BY <1>3, <2>2, RecordedType
        <4>3. QED
          BY <4>1, <4>2
      <3>4. QED
        BY <2>8, <3>1, <3>2, <3>3 DEF MovedContent, S, T, o
    <2>13. QED
      BY <1>12, <2>11, <2>12 DEF g, e
  <1>13. QED
    BY <1>11, <1>12

\* The newest event of a side is a text: the side without it and its entry.
LEMMA TextTaken ==
  ASSUME NEW h \in [Directions -> Side], NEW d \in Directions,
         Matched(h[d]), h[d].events # <<>>, Last(h[d].events) = "Text",
         NEW side, side = [steps |-> h[d].steps, events |-> Front(h[d].events),
                           texts |-> h[d].texts - 1]
  PROVE  /\ side \in Side /\ Matched(side)
         /\ side.steps = h[d].steps /\ side.texts = h[d].texts - 1
  <1>1. /\ h[d].steps \in Seq(StepType) /\ h[d].events \in Seq(EventKind)
        /\ h[d].texts \in Nat
    BY Sides
  <1>2. /\ Front(h[d].events) \in Seq(EventKind)
        /\ Len(h[d].events) \in 1..Len(h[d].events)
    BY <1>1, FrontLast
  <1>3. /\ Count(Front(h[d].events), "Text") = Count(h[d].events, "Text") - 1
        /\ Count(Front(h[d].events), "ExternalTransaction")
             = Count(h[d].events, "ExternalTransaction")
    BY <1>1, CountFront
  <1>4. Count(h[d].events, "Text") > 0 /\ Count(h[d].events, "Text") \in Nat
    BY <1>1, <1>2, IndicesFinite DEF Last
  <1>5. h[d].texts - 1 \in Nat
    BY <1>1, <1>4 DEF Matched
  <1>6. side \in Side
    BY <1>1, <1>2, <1>5 DEF Side
  <1>7. Matched(side)
    BY <1>1, <1>3, <1>4 DEF Matched
  <1>8. QED
    BY <1>6, <1>7

\* New sides with the steps of the old ones, and no more text snapshots.
LEMMA SidesReplaced ==
  ASSUME NEW h, NEW g, NEW nxt, NEW rec, NEW sp, NEW bl, NEW doomed,
         GoodHistory(h, nxt, rec, sp, bl, doomed),
         g \in [Directions -> Side], TextsBounded(g),
         \A x \in Directions : g[x].steps = h[x].steps /\ Matched(g[x])
  PROVE  GoodHistory(g, nxt, rec, sp, bl, doomed) /\ SameContent(h, g, rec)
  <1>1. g["Undo"].steps = h["Undo"].steps /\ g["Redo"].steps = h["Redo"].steps
    BY DEF Directions
  <1>2. QED
    BY <1>1 DEF GoodHistory, SameContent

\* A text entry that cannot be applied goes with its event.
LEMMA TextLostHistory ==
  ASSUME NEW h, NEW nxt, NEW rec, NEW sp, NEW bl, NEW doomed, NEW d \in Directions,
         GoodHistory(h, nxt, rec, sp, bl, doomed), h[d].events # <<>>,
         Last(h[d].events) = "Text"
  PROVE  /\ GoodHistory(TextLost(h, d), nxt, rec, sp, bl, doomed)
         /\ SameContent(h, TextLost(h, d), rec)
  <1>1. /\ h \in [Directions -> Side] /\ TextsBounded(h)
        /\ \A x \in Directions : Matched(h[x])
    BY DEF GoodHistory
  <1>2. PICK gd : gd = [steps |-> h[d].steps, events |-> Front(h[d].events),
                        texts |-> h[d].texts - 1]
    OBVIOUS
  <1>3. /\ gd \in Side /\ Matched(gd)
        /\ gd.steps = h[d].steps /\ gd.texts = h[d].texts - 1
    BY <1>1, <1>2, TextTaken
  <1>4. PICK g : g = TextLost(h, d)
    OBVIOUS
  <1>5. g = [h EXCEPT ![d] = gd]
    BY <1>2, <1>4 DEF TextLost
  <1>6. /\ g \in [Directions -> Side] /\ g[d] = gd
        /\ \A x \in Directions : x # d => g[x] = h[x]
    BY <1>1, <1>3, <1>5
  <1>7. \A x \in Directions : g[x].steps = h[x].steps /\ Matched(g[x])
    BY <1>1, <1>3, <1>6
  <1>8. TextsBounded(g)
    <2>1. h["Undo"].texts \in Nat /\ h["Redo"].texts \in Nat
      BY <1>1, Sides DEF Directions
    <2>2. \/ g["Undo"].texts = h["Undo"].texts - 1 /\ g["Redo"].texts = h["Redo"].texts
          \/ g["Undo"].texts = h["Undo"].texts /\ g["Redo"].texts = h["Redo"].texts - 1
      BY <1>3, <1>6 DEF Directions
    <2>3. QED
      BY <1>1, <2>1, <2>2, Limits DEF TextsBounded
  <1>9. QED
    BY <1>4, <1>6, <1>7, <1>8, SidesReplaced

\* A restore that fails leaves the current text on the other side, where no
\* event leads to it.
LEMMA RestoreFailedHistory ==
  ASSUME NEW h, NEW nxt, NEW rec, NEW sp, NEW bl, NEW doomed, NEW d \in Directions,
         GoodHistory(h, nxt, rec, sp, bl, doomed), h[d].events # <<>>,
         Last(h[d].events) = "Text"
  PROVE  /\ GoodHistory(RestoreFailed(h, d), nxt, rec, sp, bl, doomed)
         /\ SameContent(h, RestoreFailed(h, d), rec)
  <1>1. /\ h \in [Directions -> Side] /\ TextsBounded(h)
        /\ \A x \in Directions : Matched(h[x])
    BY DEF GoodHistory
  <1>2. PICK o : o = Other(d)
    OBVIOUS
  <1>3. /\ o \in Directions /\ o # d
        /\ (d = "Undo" /\ o = "Redo") \/ (d = "Redo" /\ o = "Undo")
    BY <1>2 DEF Other, Directions
  <1>4. PICK gd : gd = [steps |-> h[d].steps, events |-> Front(h[d].events),
                        texts |-> h[d].texts - 1]
    OBVIOUS
  <1>5. PICK go : go = [steps |-> h[o].steps, events |-> h[o].events,
                        texts |-> h[o].texts + 1]
    OBVIOUS
  <1>6. /\ gd \in Side /\ Matched(gd)
        /\ gd.steps = h[d].steps /\ gd.texts = h[d].texts - 1
    BY <1>1, <1>4, TextTaken
  <1>7. /\ go \in Side /\ Matched(go)
        /\ go.steps = h[o].steps /\ go.texts = h[o].texts + 1
    <2>1. /\ h[o].steps \in Seq(StepType) /\ h[o].events \in Seq(EventKind)
          /\ h[o].texts \in Nat /\ Matched(h[o])
      BY <1>1, <1>3, Sides
    <2>2. go \in Side
      BY <1>5, <2>1 DEF Side
    <2>3. Matched(go)
      BY <1>5, <2>1, CountNat DEF Matched
    <2>4. QED
      BY <1>5, <2>2, <2>3
  <1>8. PICK g : g = RestoreFailed(h, d)
    OBVIOUS
  <1>9. g = [h EXCEPT ![d] = gd, ![o] = go]
    BY <1>2, <1>4, <1>5, <1>8 DEF RestoreFailed
  <1>10. g \in [Directions -> Side] /\ g[d] = gd /\ g[o] = go
    BY <1>1, <1>3, <1>6, <1>7, <1>9
  <1>11. \A x \in Directions : g[x].steps = h[x].steps /\ Matched(g[x])
    BY <1>3, <1>6, <1>7, <1>10 DEF Directions
  <1>12. TextsBounded(g)
    <2>1. h["Undo"].texts \in Nat /\ h["Redo"].texts \in Nat
      BY <1>1, Sides DEF Directions
    <2>2. \/ /\ g["Undo"].texts = h["Undo"].texts - 1
             /\ g["Redo"].texts = h["Redo"].texts + 1
          \/ /\ g["Undo"].texts = h["Undo"].texts + 1
             /\ g["Redo"].texts = h["Redo"].texts - 1
      BY <1>3, <1>6, <1>7, <1>10
    <2>3. QED
      BY <1>1, <2>1, <2>2, Limits DEF TextsBounded
  <1>13. QED
    BY <1>8, <1>10, <1>11, <1>12, SidesReplaced

-----------------------------------------------------------------------------
(* mark_dirty_at_revision.                                                 *)

\* Changed as a relation between values.
ChangedTo(h, orphaned, sp, cl, h2, orphaned2, sp2, cl2) ==
    LET all == h.Undo.steps \o h.Redo.steps IN
    /\ IF sp # NoSpill \/ Spillable(h) = 0
       THEN h2 = h /\ sp2 = sp
       ELSE LET step == all[Spillable(h)] IN
            /\ h2 = Replace(h, "BlockRangeSnapshot", step.id,
                            Step("Externalizing", step.id, {}, FALSE))
            /\ sp2 = [phase |-> "writing", id |-> step.id, txn |-> step.txn]
    /\ IF cl # NoCleanup \/ orphaned = {}
       THEN orphaned2 = orphaned /\ cl2 = cl
       ELSE orphaned2 = {} /\ cl2 = [phase |-> "deleting", ids |-> orphaned]

\* begin_externalization takes a snapshot of one of the stacks.
LEMMA SpillableStep ==
  ASSUME NEW h \in [Directions -> Side], Spillable(h) # 0
  PROVE  LET s == (h.Undo.steps \o h.Redo.steps)[Spillable(h)]
         IN  /\ s \in Members(h["Undo"].steps, h["Redo"].steps)
             /\ s.payload = "BlockRangeSnapshot"
  <1> DEFINE u == h["Undo"].steps
             r == h["Redo"].steps
             all == u \o r
             I == {i \in 1..Len(all) : all[i].payload = "BlockRangeSnapshot"}
  <1>1. h.Undo = h["Undo"] /\ h.Redo = h["Redo"] /\ u \in Seq(StepType) /\ r \in Seq(StepType)
    BY Sides DEF Directions
  <1>2. Spillable(h) = IF I # {} THEN Min(I) ELSE 0
    BY <1>1 DEF Spillable, SelectInSeq
  <1>3. I # {} /\ Spillable(h) = Min(I)
    BY <1>2
  <1>4. I \in SUBSET Nat
    <2> HIDE DEF all
    <2>1. QED
      OBVIOUS
  <1>5. \A i \in I : i \in 1..Len(all) /\ all[i].payload = "BlockRangeSnapshot"
    OBVIOUS
  <1>6. /\ Len(all) = Len(u) + Len(r) /\ Len(u) \in Nat /\ Len(r) \in Nat
        /\ \A i \in 1..Len(u) + Len(r) : all[i] = IF i <= Len(u) THEN u[i] ELSE r[i - Len(u)]
    <2> HIDE DEF u, r
    <2>1. QED
      BY <1>1, ConcatProperties
  <1>7. Min(I) \in I
    <2> HIDE DEF I
    <2>1. QED
      BY <1>3, <1>4, MinOf
  <1>8. (h.Undo.steps \o h.Redo.steps)[Spillable(h)] = all[Min(I)]
    BY <1>1, <1>3
  <1> HIDE DEF I, all, u, r
  <1>9. PICK k \in 1..Len(all) : k = Min(I)
    BY <1>5, <1>7
  <1>10. all[k] \in Members(u, r)
    <2>1. CASE k <= Len(u)
      <3>1. k \in 1..Len(u) /\ all[k] = u[k]
        BY <1>6, <1>9, <2>1
      <3>2. QED
        BY <3>1 DEF Members
    <2>2. CASE ~(k <= Len(u))
      <3>1. k - Len(u) \in 1..Len(r) /\ all[k] = r[k - Len(u)]
        BY <1>6, <1>9, <2>2
      <3>2. QED
        BY <3>1 DEF Members
    <2>3. QED
      BY <2>1, <2>2
  <1>11. all[k].payload = "BlockRangeSnapshot"
    BY <1>5, <1>7, <1>9
  <1>12. (h.Undo.steps \o h.Redo.steps)[Spillable(h)] = all[k]
    BY <1>8, <1>9
  <1>13. QED
    BY <1>10, <1>11, <1>12 DEF u, r

LEMMA StepTyped ==
  ASSUME NEW payload \in {"InlineSmall", "BlockRangeSnapshot", "Externalizing", "ExternalBlob"},
         NEW id \in SnapshotIds \cup {0}, NEW txn \in SUBSET Transactions, NEW typing \in BOOLEAN
  PROVE  Step(payload, id, txn, typing) \in StepType
  BY DEF Step, StepType

\* A snapshot is taken for a spill.
LEMMA SpillStarts ==
  ASSUME NEW h, NEW nxt, NEW rec, NEW bl, NEW doomed, NEW step, NEW sp2,
         GoodHistory(h, nxt, rec, NoSpill, bl, doomed),
         step \in Members(h["Undo"].steps, h["Redo"].steps),
         step.payload = "BlockRangeSnapshot",
         sp2 = [phase |-> "writing", id |-> step.id, txn |-> step.txn]
  PROVE  LET g == Replace(h, "BlockRangeSnapshot", step.id,
                          Step("Externalizing", step.id, {}, FALSE))
         IN  /\ GoodHistory(g, nxt, rec, sp2, bl, doomed)
             /\ SameContent(h, g, rec)
             /\ GoodSpill(sp2, nxt, rec)
  <1> DEFINE M == Members(h["Undo"].steps, h["Redo"].steps)
             new == Step("Externalizing", step.id, {}, FALSE)
  <1>1. /\ Sound(h["Undo"].steps, h["Redo"].steps, nxt, rec, NoSpill, bl, doomed)
        /\ NoSpill.phase = "none" /\ sp2.phase = "writing" /\ sp2.id = step.id /\ sp2.txn = step.txn
    BY DEF GoodHistory, NoSpill
  <1>2. \A s \in M : GoodStep(s, nxt, rec, NoSpill, bl, doomed)
    BY <1>1, MemberGood
  <1>3. \A s \in M : s.id = step.id /\ step.id # 0 => s = step
    BY <1>1, MemberUnique
  <1>4. GoodStep(step, nxt, rec, NoSpill, bl, doomed)
    BY <1>2
  <1>5. /\ step \in StepType /\ step.id \in Used(nxt) /\ step.id # 0 /\ step.txn = rec[step.id]
        /\ step.id \notin doomed
    BY <1>4 DEF GoodStep
  <1>6. /\ step.id \in SnapshotIds /\ step.txn \in SUBSET Transactions
    BY <1>5 DEF Used, StepType
  <1>7. /\ new.payload = "Externalizing" /\ new.id = step.id /\ ~new.typing
        /\ new \in StepType
    <2>1. {} \in SUBSET Transactions /\ FALSE \in BOOLEAN /\ step.id \in SnapshotIds \cup {0}
      BY <1>6
    <2>2. QED
      <3>1. new.payload = "Externalizing" /\ new.id = step.id /\ ~new.typing
        BY DEF Step
      <3>2. new \in StepType
        BY <2>1, StepTyped
      <3>3. QED
        BY <3>1, <3>2
  <1>8. GoodSpill(sp2, nxt, rec)
    BY <1>1, <1>5, <1>6 DEF GoodSpill
  <1> HIDE DEF new, M
  <1>9. GoodStep(new, nxt, rec, sp2, bl, doomed)
    BY <1>1, <1>5, <1>7 DEF GoodStep
  <1>10. ASSUME NEW s \in M
         PROVE  GoodStep(Sub(s, "BlockRangeSnapshot", step.id, new), nxt, rec, sp2, bl, doomed)
    <2>1. CASE s.payload = "BlockRangeSnapshot" /\ s.id = step.id
      BY <1>9, <2>1 DEF Sub
    <2>2. CASE ~(s.payload = "BlockRangeSnapshot" /\ s.id = step.id)
      <3>1. s.id # step.id
        BY <1>3, <1>5, <2>2
      <3>2. GoodStep(s, nxt, rec, NoSpill, bl, doomed)
        BY <1>2
      <3>3. s.payload # "Externalizing"
        BY <1>1, <3>2 DEF GoodStep
      <3>4. GoodStep(s, nxt, rec, sp2, bl, doomed)
        BY <1>1, <3>1, <3>2, <3>3 DEF GoodStep
      <3>5. QED
        BY <2>2, <3>4 DEF Sub
    <2>3. QED
      BY <2>1, <2>2
  <1>11. /\ GoodHistory(Replace(h, "BlockRangeSnapshot", step.id, new), nxt, rec, sp2, bl, doomed)
         /\ SameContent(h, Replace(h, "BlockRangeSnapshot", step.id, new), rec)
    <2>1. "BlockRangeSnapshot" # "InlineSmall" /\ new.payload # "InlineSmall"
      BY <1>7
    <2>2. \A s \in Members(h["Undo"].steps, h["Redo"].steps) :
            GoodStep(Sub(s, "BlockRangeSnapshot", step.id, new), nxt, rec, sp2, bl, doomed)
      BY <1>10 DEF M
    <2>3. QED
      BY <1>7, <2>1, <2>2, ReplacedHistory
  <1>12. QED
    BY <1>8, <1>11 DEF new

LEMMA ChangedHistory ==
  ASSUME NEW h, NEW o, NEW sp, NEW cl, NEW h2, NEW o2, NEW sp2, NEW cl2,
         NEW nxt, NEW rec, NEW bl, NEW deletes,
         GoodSpill(sp, nxt, rec), GoodCleanup(cl, nxt), o \subseteq Used(nxt),
         GoodHistory(h, nxt, rec, sp, bl, o \cup cl.ids \cup deletes),
         ChangedTo(h, o, sp, cl, h2, o2, sp2, cl2)
  PROVE  /\ GoodHistory(h2, nxt, rec, sp2, bl, o2 \cup cl2.ids \cup deletes)
         /\ SameContent(h, h2, rec)
         /\ GoodSpill(sp2, nxt, rec) /\ GoodCleanup(cl2, nxt) /\ o2 \subseteq Used(nxt)
  <1> DEFINE D == o \cup cl.ids \cup deletes
  <1>1. o2 \cup cl2.ids = o \cup cl.ids /\ GoodCleanup(cl2, nxt) /\ o2 \subseteq Used(nxt)
    <2>1. CASE cl # NoCleanup \/ o = {}
      BY <2>1 DEF ChangedTo
    <2>2. CASE ~(cl # NoCleanup \/ o = {})
      <3>1. o2 = {} /\ cl2 = [phase |-> "deleting", ids |-> o] /\ cl = NoCleanup
        BY <2>2 DEF ChangedTo
      <3>2. cl2.ids = o /\ cl.ids = {}
        BY <3>1 DEF NoCleanup
      <3>3. cl2 \in [phase : {"deleting", "done"}, ids : SUBSET Used(nxt)]
        BY <3>1
      <3>4. QED
        BY <3>1, <3>2, <3>3 DEF GoodCleanup
    <2>3. QED
      BY <2>1, <2>2
  <1>2. o2 \cup cl2.ids \cup deletes = D
    BY <1>1
  <1>3. /\ GoodHistory(h2, nxt, rec, sp2, bl, D)
        /\ SameContent(h, h2, rec) /\ GoodSpill(sp2, nxt, rec)
    <2>1. CASE sp # NoSpill \/ Spillable(h) = 0
      <3>1. h2 = h /\ sp2 = sp
        BY <2>1 DEF ChangedTo
      <3>2. QED
        BY <3>1 DEF SameContent
    <2>2. CASE ~(sp # NoSpill \/ Spillable(h) = 0)
      <3> DEFINE step == (h.Undo.steps \o h.Redo.steps)[Spillable(h)]
      <3>1. /\ sp = NoSpill /\ Spillable(h) # 0
            /\ h2 = Replace(h, "BlockRangeSnapshot", step.id,
                            Step("Externalizing", step.id, {}, FALSE))
            /\ sp2 = [phase |-> "writing", id |-> step.id, txn |-> step.txn]
        BY <2>2 DEF ChangedTo
      <3>2. h \in [Directions -> Side]
        BY DEF GoodHistory
      <3>3. /\ step \in Members(h["Undo"].steps, h["Redo"].steps)
            /\ step.payload = "BlockRangeSnapshot"
        BY <3>1, <3>2, SpillableStep
      <3>4. GoodHistory(h, nxt, rec, NoSpill, bl, D)
        BY <3>1
      <3> HIDE DEF step, D
      <3>5. /\ GoodHistory(h2, nxt, rec, sp2, bl, D) /\ SameContent(h, h2, rec)
            /\ GoodSpill(sp2, nxt, rec)
        BY <3>1, <3>3, <3>4, SpillStarts
      <3>6. QED
        BY <3>5
    <2>3. QED
      BY <2>1, <2>2
  <1>4. QED
    BY <1>1, <1>2, <1>3
-----------------------------------------------------------------------------
(* One action at a time: the invariant, and what the stacks of contents do. *)

UndoContent == RecordedSteps(history["Undo"].steps, recorded)
RedoContent == RecordedSteps(history["Redo"].steps, recorded)

\* A step of UndoContract on the contents, or none.
StackStep(u, r, u2, r2) ==
    \/ u2 = u /\ r2 = r
    \/ \E t \in Transactions : u2 = Newest(Append(u, {t}), MaxSteps) /\ r2 = <<>>
    \/ \E t \in Transactions :
         u # <<>> /\ u2 = [u EXCEPT ![Len(u)] = @ \cup {t}] /\ r2 = <<>>
    \/ u2 = u /\ r2 = <<>>
    \/ u # <<>> /\ u2 = SubSeq(u, 1, Len(u) - 1) /\ r2 = Append(r, u[Len(u)])
    \/ r # <<>> /\ r2 = SubSeq(r, 1, Len(r) - 1) /\ u2 = Append(u, r[Len(r)])

ContentStep == StackStep(UndoContent, RedoContent, UndoContent', RedoContent')

LEMMA SameStep ==
  ASSUME SameContent(history, history', recorded), recorded' = recorded
  PROVE  ContentStep
  <1>1. UndoContent' = UndoContent /\ RedoContent' = RedoContent
    BY DEF SameContent, UndoContent, RedoContent, Directions
  <1>2. QED
    BY <1>1 DEF ContentStep, StackStep

LEMMA MovedStep ==
  ASSUME NEW d \in Directions, MovedContent(history, history', d, recorded), recorded' = recorded
  PROVE  ContentStep
  <1>1. CASE d = "Undo"
    <2>1. /\ UndoContent # <<>>
          /\ UndoContent' = SubSeq(UndoContent, 1, Len(UndoContent) - 1)
          /\ RedoContent' = Append(RedoContent, UndoContent[Len(UndoContent)])
      BY <1>1 DEF MovedContent, UndoContent, RedoContent, Other
    <2>2. QED
      BY <2>1 DEF ContentStep, StackStep
  <1>2. CASE d = "Redo"
    <2>1. /\ RedoContent # <<>>
          /\ RedoContent' = SubSeq(RedoContent, 1, Len(RedoContent) - 1)
          /\ UndoContent' = Append(UndoContent, RedoContent[Len(RedoContent)])
      BY <1>2 DEF MovedContent, UndoContent, RedoContent, Other
    <2>2. QED
      BY <2>1 DEF ContentStep, StackStep
  <1>3. QED
    BY <1>1, <1>2 DEF Directions

\* Content follows through steps that keep it.
LEMMA ContentTrans ==
  ASSUME NEW h, NEW g, NEW f, NEW rec, NEW d \in Directions
  PROVE  /\ SameContent(h, g, rec) /\ SameContent(g, f, rec) => SameContent(h, f, rec)
         /\ SameContent(h, g, rec) /\ MovedContent(g, f, d, rec) => MovedContent(h, f, d, rec)
         /\ MovedContent(h, g, d, rec) /\ SameContent(g, f, rec) => MovedContent(h, f, d, rec)
         /\ SameContent(h, h, rec)
  <1>1. Other(d) \in Directions
    BY DEF Other, Directions
  <1>2. QED
    BY <1>1 DEF SameContent, MovedContent

LEMMA InitInv == Init => IInv
  <1> SUFFICES ASSUME Init PROVE IInv
    OBVIOUS
  <1>1. /\ history = [d \in Directions |-> EmptySide]
        /\ next_snapshot_id = 1 /\ orphaned_external_blobs = {}
        /\ spill = NoSpill /\ hydration = NoHydration /\ cleanup = NoCleanup
        /\ blobs = [i \in SnapshotIds |-> {}] /\ late = {}
        /\ transactions = 0 /\ recorded = [i \in SnapshotIds |-> {}]
    BY DEF Init
  <1>2. EmptySide \in Side
    BY DEF EmptySide, Side
  <1>3. history \in [Directions -> Side]
    BY <1>1, <1>2
  <1>4. Matched(EmptySide)
    BY CountEmpty DEF Matched, EmptySide
  <1>5. \A d \in Directions :
          Matched(history[d]) /\ history[d].steps = <<>> /\ history[d].texts = 0
    BY <1>1, <1>4 DEF EmptySide
  <1>6. ASSUME NEW D
        PROVE  Sound(<<>>, <<>>, next_snapshot_id, recorded, spill, blobs, D)
    <2>1. <<>> \in Seq(StepType) /\ Len(<<>>) = 0 /\ Len(<<>>) + Len(<<>>) <= MaxSteps
      BY Limits
    <2>2. Distinct(<<>>, <<>>)
      BY DEF Distinct
    <2>3. QED
      BY <2>1, <2>2 DEF Sound
  <1>7. GoodHistory(history, next_snapshot_id, recorded, spill, blobs, Doomed)
    <2>1. TextsBounded(history)
      BY <1>5, Limits DEF TextsBounded, Directions
    <2>2. QED
      BY <1>3, <1>5, <1>6, <2>1 DEF GoodHistory, Directions
  <1>8. GoodStore(next_snapshot_id, recorded, blobs)
    BY <1>1 DEF GoodStore
  <1>9. /\ GoodSpill(spill, next_snapshot_id, recorded)
        /\ GoodHydration(hydration, next_snapshot_id, recorded)
        /\ GoodCleanup(cleanup, next_snapshot_id)
    BY <1>1 DEF GoodSpill, GoodHydration, GoodCleanup
  <1>10. transactions \in 0..MaxTransactions /\ next_snapshot_id \in 1..transactions + 1
    BY <1>1, Limits
  <1>11. QED
    BY <1>1, <1>7, <1>8, <1>9, <1>10 DEF IInv

\* A change that ends in mark_dirty_at_revision and leaves the store and the
\* counters alone.
LEMMA ChangedInv ==
  ASSUME IInv, NEW h, NEW o,
         o \subseteq Used(next_snapshot_id),
         GoodHistory(h, next_snapshot_id, recorded, spill, blobs,
                     o \cup cleanup.ids \cup LateDeletes(late)),
         Changed(h, o),
         UNCHANGED <<next_snapshot_id, blobs, late, transactions, recorded>>,
         GoodHydration(hydration', next_snapshot_id, recorded)
  PROVE  IInv' /\ SameContent(h, history', recorded)
  <1>1. ChangedTo(h, o, spill, cleanup, history', orphaned_external_blobs', spill', cleanup')
    BY DEF Changed, ChangedTo
  <1>2. GoodSpill(spill, next_snapshot_id, recorded) /\ GoodCleanup(cleanup, next_snapshot_id)
    BY DEF IInv
  <1>3. /\ GoodHistory(history', next_snapshot_id, recorded, spill', blobs,
                       orphaned_external_blobs' \cup cleanup'.ids \cup LateDeletes(late))
        /\ SameContent(h, history', recorded)
        /\ GoodSpill(spill', next_snapshot_id, recorded)
        /\ GoodCleanup(cleanup', next_snapshot_id)
        /\ orphaned_external_blobs' \subseteq Used(next_snapshot_id)
    BY <1>1, <1>2, ChangedHistory
  <1>4. Doomed' = orphaned_external_blobs' \cup cleanup'.ids \cup LateDeletes(late)
    BY DEF Doomed
  <1>5. IInv'
    BY <1>3, <1>4 DEF IInv
  <1>6. QED
    BY <1>3, <1>5

LEMMA ChangeOnlyInv == IInv /\ ChangeOnly => IInv' /\ ContentStep
  <1> SUFFICES ASSUME IInv, ChangeOnly PROVE IInv' /\ ContentStep
    OBVIOUS
  <1>1. /\ Changed(history, orphaned_external_blobs)
        /\ UNCHANGED <<next_snapshot_id, hydration, blobs, late, transactions, recorded>>
    BY DEF ChangeOnly, countVars
  <1>2. PICK h : h = history
    OBVIOUS
  <1>3. PICK o : o = orphaned_external_blobs
    OBVIOUS
  <1>4. /\ o \subseteq Used(next_snapshot_id)
        /\ GoodHistory(h, next_snapshot_id, recorded, spill, blobs,
                       o \cup cleanup.ids \cup LateDeletes(late))
    BY <1>2, <1>3 DEF IInv, Doomed
  <1>5. Changed(h, o)
    BY <1>1, <1>2, <1>3
  <1>6. GoodHydration(hydration', next_snapshot_id, recorded)
    BY <1>1 DEF IInv
  <1>7. IInv' /\ SameContent(h, history', recorded)
    BY <1>1, <1>4, <1>5, <1>6, ChangedInv
  <1>8. QED
    BY <1>1, <1>2, <1>7, SameStep
\* The history after recording: new undo entries, no redo.
LEMMA RecordedHistory ==
  ASSUME NEW side, NEW K, NEW E, NEW X, NEW h,
         NEW nxt, NEW rec, NEW sp, NEW bl, NEW doomed,
         side = [steps |-> K, events |-> E, texts |-> X],
         K \in Seq(StepType), E \in Seq(EventKind), X \in Nat, X <= MaxTextSteps,
         Count(E, "ExternalTransaction") = Len(K), Count(E, "Text") <= X,
         Sound(K, <<>>, nxt, rec, sp, bl, doomed),
         h = [Undo |-> side, Redo |-> EmptySide]
  PROVE  /\ GoodHistory(h, nxt, rec, sp, bl, doomed)
         /\ h["Undo"].steps = K /\ h["Redo"].steps = <<>>
  <1>1. h["Undo"] = side /\ h["Redo"] = EmptySide
    OBVIOUS
  <1>2. /\ side.steps = K /\ side.events = E /\ side.texts = X
        /\ EmptySide.steps = <<>> /\ EmptySide.events = <<>> /\ EmptySide.texts = 0
    BY DEF EmptySide
  <1>3. side \in Side /\ EmptySide \in Side
    BY DEF Side, EmptySide
  <1>4. h \in [Directions -> Side]
    <2> HIDE DEF EmptySide
    <2>1. QED
      BY <1>3 DEF Directions
  <1>5. Matched(side)
    BY <1>2 DEF Matched
  <1>6. Matched(EmptySide)
    BY <1>2, CountEmpty DEF Matched
  <1>7. \A d \in Directions : Matched(h[d])
    BY <1>1, <1>5, <1>6 DEF Directions
  <1>8. TextsBounded(h)
    BY <1>1, <1>2 DEF TextsBounded
  <1>9. QED
    BY <1>1, <1>2, <1>4, <1>7, <1>8 DEF GoodHistory

LEMMA RecordTextInv == IInv /\ RecordText => IInv' /\ ContentStep
  <1> SUFFICES ASSUME IInv, RecordText PROVE IInv' /\ ContentStep
    OBVIOUS
  <1> DEFINE n == next_snapshot_id
             u == history["Undo"].steps
             r == history["Redo"].steps
             ev == history["Undo"].events
             tx == history["Undo"].texts
             A == Append(ev, "Text")
             over == tx + 1 > MaxTextSteps
             kept == IF over THEN tx ELSE tx + 1
             E == IF over THEN RemoveFirst(A, "Text") ELSE A
             o == orphaned_external_blobs \cup Orphans(r)
             side == [steps |-> u, events |-> E, texts |-> kept]
  <1>1. /\ history \in [Directions -> Side] /\ Matched(history["Undo"])
        /\ TextsBounded(history)
        /\ Sound(u, r, n, recorded, spill, blobs, Doomed)
        /\ orphaned_external_blobs \subseteq Used(n)
    BY DEF IInv, GoodHistory, Directions
  <1>2. /\ history.Undo = history["Undo"] /\ history.Redo = history["Redo"]
        /\ history["Undo"] \in Side
        /\ u \in Seq(StepType) /\ ev \in Seq(EventKind) /\ tx \in Nat
    BY <1>1, Sides DEF Directions
  <1>3. "Text" \in EventKind /\ "ExternalTransaction" \in EventKind
    BY DEF EventKind
  <1>4. /\ A \in Seq(EventKind)
        /\ Count(A, "Text") = Count(ev, "Text") + 1 /\ Count(ev, "Text") \in Nat
        /\ Count(A, "ExternalTransaction") = Count(ev, "ExternalTransaction")
    BY <1>2, <1>3, Appended, CountAppend, CountNat
  <1>5. kept \in Nat /\ kept <= MaxTextSteps
    <2>1. tx <= MaxTextSteps
      <3>1. history["Redo"].texts \in Nat
        BY <1>1, Sides DEF Directions
      <3>2. QED
        BY <1>1, <1>2, <3>1, Limits DEF TextsBounded
    <2>2. QED
      BY <1>2, <2>1, Limits
  <1>6. /\ E \in Seq(EventKind) /\ Count(E, "Text") <= kept
        /\ Count(E, "ExternalTransaction") = Count(A, "ExternalTransaction")
    <2>1. Count(ev, "Text") <= tx
      BY <1>1 DEF Matched
    <2> HIDE DEF A, ev, tx
    <2>2. CASE over
      <3>1. /\ RemoveFirst(A, "Text") \in Seq(EventKind)
            /\ \A e : Count(RemoveFirst(A, "Text"), e)
                        = IF e = "Text" THEN Count(A, "Text") - 1 ELSE Count(A, e)
        BY <1>4, CountRemoveFirst
      <3>2. E = RemoveFirst(A, "Text") /\ kept = tx
        BY <2>2
      <3> HIDE DEF E, kept, over
      <3>3. Count(E, "Text") = Count(ev, "Text")
        BY <1>4, <3>1, <3>2
      <3>4. QED
        BY <2>1, <3>1, <3>2, <3>3
    <2>3. CASE ~over
      BY <1>2, <1>4, <2>1, <2>3
    <2>4. QED
      BY <2>2, <2>3
  <1>7. Count(E, "ExternalTransaction") = Len(u)
    BY <1>1, <1>4, <1>6 DEF Matched
  <1>9. /\ Sound(u, <<>>, n, recorded, spill, blobs, Doomed \cup Orphans(r))
        /\ Orphans(r) \subseteq Used(n)
    BY <1>1, SoundCleared
  <1>10. /\ Changed([Undo |-> side, Redo |-> EmptySide], o)
         /\ UNCHANGED <<next_snapshot_id, hydration, blobs, late, transactions, recorded>>
    BY <1>2 DEF RecordText
  <1> HIDE DEF side, kept, E, A, over, u, r, ev, tx
  <1>11. PICK h : h = [Undo |-> side, Redo |-> EmptySide]
    OBVIOUS
  <1>12. PICK p : p = o
    OBVIOUS
  <1>13. Changed(h, p)
    BY <1>10, <1>11, <1>12
  <1>14. p \cup cleanup.ids \cup LateDeletes(late) = Doomed \cup Orphans(r)
    BY <1>12 DEF Doomed
  <1>15. /\ GoodHistory(h, n, recorded, spill, blobs, Doomed \cup Orphans(r))
         /\ h["Undo"].steps = u /\ h["Redo"].steps = <<>>
    BY <1>2, <1>5, <1>6, <1>7, <1>9, <1>11, RecordedHistory DEF side
  <1>16. p \subseteq Used(n)
    BY <1>1, <1>9, <1>12
  <1>17. GoodHydration(hydration', n, recorded)
    BY <1>10 DEF IInv
  <1>18. IInv' /\ SameContent(h, history', recorded)
    BY <1>10, <1>13, <1>14, <1>15, <1>16, <1>17, ChangedInv
  <1>19. UndoContent' = UndoContent /\ RedoContent' = <<>>
    <2>1. RecordedSteps(<<>>, recorded) = <<>>
      BY DEF RecordedSteps
    <2>2. QED
      BY <1>10, <1>15, <1>18, <2>1 DEF SameContent, UndoContent, RedoContent, Directions, u
  <1>20. QED
    BY <1>18, <1>19 DEF ContentStep, StackStep

-----------------------------------------------------------------------------
(* A new snapshot id is handed out: what was there is not touched.         *)

Aside(n, rec, bl, sp, hy, cl) ==
    /\ GoodStore(n, rec, bl) /\ GoodSpill(sp, n, rec)
    /\ GoodHydration(hy, n, rec) /\ GoodCleanup(cl, n)

HandedOut(n, t, rec, rec2) ==
    /\ n \in SnapshotIds /\ t \in Transactions
    /\ rec2 \in [SnapshotIds -> SUBSET Transactions] /\ rec2[n] = {t}
    /\ \A i \in SnapshotIds : i # n => rec2[i] = rec[i]

LEMMA NewSnapshot ==
  ASSUME NEW n, NEW n2, NEW t, NEW rec, NEW rec2, NEW bl, NEW sp, NEW hy, NEW cl,
         Aside(n, rec, bl, sp, hy, cl), HandedOut(n, t, rec, rec2), n2 = n + 1
  PROVE  /\ Aside(n2, rec2, bl, sp, hy, cl)
         /\ Used(n) \subseteq Used(n2) /\ n \in Used(n2) /\ n \notin Used(n)
         /\ \A s, D : GoodStep(s, n, rec, sp, bl, D) => GoodStep(s, n2, rec2, sp, bl, D)
  <1>0. /\ GoodStore(n, rec, bl) /\ GoodSpill(sp, n, rec)
        /\ GoodHydration(hy, n, rec) /\ GoodCleanup(cl, n)
    BY DEF Aside
  <1>1. n \in Nat /\ n > 0 /\ n \in SnapshotIds /\ SnapshotIds \subseteq Nat
    <2>1. \A i \in 1..MaxTransactions : i \in Nat /\ i > 0
      BY Limits
    <2>2. QED
      BY <2>1 DEF SnapshotIds, HandedOut
  <1>2. Used(n) \subseteq Used(n + 1) /\ n \in Used(n + 1) /\ n \notin Used(n)
    <2>1. \A i \in SnapshotIds : i < n => i < n + 1
      BY <1>1
    <2>2. n < n + 1 /\ ~(n < n)
      BY <1>1
    <2>3. QED
      BY <1>1, <2>1, <2>2 DEF Used
  <1>4. /\ rec2 \in [SnapshotIds -> SUBSET Transactions] /\ rec2[n] = {t}
        /\ \A i \in SnapshotIds : i # n => rec2[i] = rec[i]
    BY DEF HandedOut
  <1>5. \A i \in Used(n) : i \in SnapshotIds /\ i # n /\ rec2[i] = rec[i]
    BY <1>1, <1>4 DEF Used
  <1>6. GoodStore(n + 1, rec2, bl)
    <2>1. /\ bl \in [SnapshotIds -> SUBSET Transactions]
          /\ \A i \in SnapshotIds : bl[i] = {} \/ bl[i] = rec[i]
          /\ \A i \in SnapshotIds : i >= n => rec[i] = {}
      BY <1>0 DEF GoodStore
    <2>2. rec[n] = {}
      BY <1>1, <2>1
    <2>3. \A i \in SnapshotIds : bl[i] = {} \/ bl[i] = rec2[i]
      BY <1>4, <2>1, <2>2
    <2>4. \A i \in SnapshotIds : i >= n + 1 => i >= n /\ i # n
      BY <1>1
    <2>5. \A i \in SnapshotIds : i >= n + 1 => rec2[i] = {}
      BY <1>4, <2>1, <2>4
    <2>6. QED
      BY <1>4, <2>1, <2>3, <2>5 DEF GoodStore
  <1> HIDE DEF Used
  <1>7. GoodSpill(sp, n + 1, rec2)
    <2>1. CASE sp = NoSpill
      BY <2>1 DEF GoodSpill
    <2>2. CASE sp # NoSpill
      <3>1. /\ sp \in [phase : {"writing", "stored", "failed"}, id : Used(n), txn : SUBSET Transactions]
            /\ sp.txn = rec[sp.id]
        BY <1>0, <2>2 DEF GoodSpill
      <3>2. sp.id \in Used(n)
        BY <3>1
      <3>3. sp.txn = rec2[sp.id]
        BY <1>5, <3>1, <3>2
      <3>4. sp \in [phase : {"writing", "stored", "failed"}, id : Used(n + 1), txn : SUBSET Transactions]
        BY <1>2, <3>1
      <3>5. QED
        BY <3>3, <3>4 DEF GoodSpill
    <2>3. QED
      BY <2>1, <2>2
  <1>8. GoodHydration(hy, n + 1, rec2)
    <2>1. CASE hy = NoHydration
      BY <2>1 DEF GoodHydration
    <2>2. CASE hy # NoHydration
      <3>1. /\ hy \in [phase : {"reading", "read", "failed"}, id : Used(n),
                       direction : Directions, txn : SUBSET Transactions]
            /\ hy.phase = "read" => hy.txn = rec[hy.id]
        BY <1>0, <2>2 DEF GoodHydration
      <3>2. hy.id \in Used(n)
        BY <3>1
      <3>3. hy.phase = "read" => hy.txn = rec2[hy.id]
        BY <1>5, <3>1, <3>2
      <3>4. hy \in [phase : {"reading", "read", "failed"}, id : Used(n + 1),
                    direction : Directions, txn : SUBSET Transactions]
        BY <1>2, <3>1
      <3>5. QED
        BY <3>3, <3>4 DEF GoodHydration
    <2>3. QED
      BY <2>1, <2>2
  <1>9. GoodCleanup(cl, n + 1)
    BY <1>0, <1>2 DEF GoodCleanup
  <1>10. ASSUME NEW s, NEW D, GoodStep(s, n, rec, sp, bl, D)
         PROVE  GoodStep(s, n + 1, rec2, sp, bl, D)
    <2>1. s.id \in Used(n) \cup {0} /\ (s.id = 0 <=> s.payload = "InlineSmall")
      BY <1>10 DEF GoodStep
    <2>2. s.id \in Used(n + 1) \cup {0}
      BY <1>2, <2>1
    <2>3. s.payload # "InlineSmall" => rec2[s.id] = rec[s.id]
      BY <1>5, <2>1
    <2>4. QED
      BY <1>10, <2>2, <2>3 DEF GoodStep
  <1>11. QED
    BY <1>2, <1>4, <1>5, <1>6, <1>7, <1>8, <1>9, <1>10 DEF Aside

\* What follows once the new undo steps are known to be sound: the events
\* are trimmed and the change ends in mark_dirty_at_revision.
LEMMA RecordInv ==
  ASSUME IInv, NEW n2, NEW rec2, NEW t, NEW kept, NEW orphans,
         NEW ev, NEW tx, NEW E,
         GoodStore(n2, rec2, blobs), GoodSpill(spill, n2, rec2),
         GoodHydration(hydration, n2, rec2), GoodCleanup(cleanup, n2),
         Used(next_snapshot_id) \subseteq Used(n2),
         t \in 0..MaxTransactions, n2 \in 1..t + 1,
         orphans \subseteq Used(n2),
         Sound(kept, <<>>, n2, rec2, spill, blobs, Doomed \cup orphans),
         ev = history["Undo"].events, tx = history["Undo"].texts,
         Count(ev, "ExternalTransaction") + 1 \in {Len(kept), Len(kept) + 1},
         E = TrimEvents(Append(ev, "ExternalTransaction"), "ExternalTransaction", Len(kept)),
         Changed([Undo |-> [steps |-> kept, events |-> E, texts |-> tx], Redo |-> EmptySide],
                 orphaned_external_blobs \cup orphans),
         next_snapshot_id' = n2, recorded' = rec2, transactions' = t,
         UNCHANGED <<hydration, blobs, late>>
  PROVE  /\ IInv'
         /\ UndoContent' = RecordedSteps(kept, rec2) /\ RedoContent' = <<>>
  <1>1. /\ history \in [Directions -> Side] /\ Matched(history["Undo"])
        /\ TextsBounded(history)
        /\ orphaned_external_blobs \subseteq Used(next_snapshot_id)
        /\ late \subseteq [op : {"write", "delete"}, id : Used(next_snapshot_id)]
    BY DEF IInv, GoodHistory, Directions
  <1>2. ev \in Seq(EventKind) /\ tx \in Nat
    BY <1>1, Sides DEF Directions
  <1>3. "Text" \in EventKind /\ "ExternalTransaction" \in EventKind
    BY DEF EventKind
  <1> DEFINE A == Append(ev, "ExternalTransaction")
  <1>4. /\ A \in Seq(EventKind)
        /\ Count(A, "ExternalTransaction") = Count(ev, "ExternalTransaction") + 1
        /\ Count(A, "Text") = Count(ev, "Text")
    BY <1>2, <1>3, Appended, CountAppend
  <1> HIDE DEF A
  <1>5. kept \in Seq(StepType) /\ Len(kept) \in Nat
    BY SoundLengths
  <1>6. /\ E \in Seq(EventKind) /\ Count(E, "ExternalTransaction") = Len(kept)
        /\ Count(E, "Text") = Count(A, "Text")
    <2>1. Count(A, "ExternalTransaction") \in {Len(kept), Len(kept) + 1}
      BY <1>4
    <2>2. E = TrimEvents(A, "ExternalTransaction", Len(kept))
      BY DEF A
    <2>3. QED
      BY <1>3, <1>4, <1>5, <2>1, <2>2, Trimmed
  <1>7. Count(E, "Text") <= tx /\ tx <= MaxTextSteps
    <2>1. history["Undo"].texts \in Nat /\ history["Redo"].texts \in Nat
      BY <1>1, Sides DEF Directions
    <2>2. tx <= MaxTextSteps
      BY <1>1, <2>1, Limits DEF TextsBounded
    <2>3. QED
      BY <1>1, <1>4, <1>6, <2>2 DEF Matched
  <1>8. PICK side : side = [steps |-> kept, events |-> E, texts |-> tx]
    OBVIOUS
  <1>9. PICK h : h = [Undo |-> side, Redo |-> EmptySide]
    OBVIOUS
  <1>10. PICK o : o = orphaned_external_blobs \cup orphans
    OBVIOUS
  <1>11. /\ GoodHistory(h, n2, rec2, spill, blobs, Doomed \cup orphans)
         /\ h["Undo"].steps = kept /\ h["Redo"].steps = <<>>
    BY <1>2, <1>5, <1>6, <1>7, <1>8, <1>9, RecordedHistory
  <1>12. ChangedTo(h, o, spill, cleanup, history', orphaned_external_blobs', spill', cleanup')
    <2>1. Changed(h, o)
      BY <1>8, <1>9, <1>10
    <2>2. QED
      BY <2>1 DEF Changed, ChangedTo
  <1>13. o \cup cleanup.ids \cup LateDeletes(late) = Doomed \cup orphans
    BY <1>10 DEF Doomed
  <1>14. o \subseteq Used(n2)
    BY <1>1, <1>10
  <1>15. /\ GoodHistory(history', n2, rec2, spill', blobs,
                        orphaned_external_blobs' \cup cleanup'.ids \cup LateDeletes(late))
         /\ SameContent(h, history', rec2)
         /\ GoodSpill(spill', n2, rec2)
         /\ GoodCleanup(cleanup', n2)
         /\ orphaned_external_blobs' \subseteq Used(n2)
    <2>1. GoodHistory(h, n2, rec2, spill, blobs, o \cup cleanup.ids \cup LateDeletes(late))
      BY <1>11, <1>13
    <2>2. GoodSpill(spill, n2, rec2) /\ GoodCleanup(cleanup, n2)
      OBVIOUS
    <2>3. QED
      BY ONLY <1>12, <1>14, <2>1, <2>2, ChangedHistory
  <1>16. Doomed' = orphaned_external_blobs' \cup cleanup'.ids \cup LateDeletes(late)
    BY DEF Doomed
  <1>17. late' \subseteq [op : {"write", "delete"}, id : Used(n2)]
    BY <1>1
  <1>18. IInv'
    BY <1>15, <1>16, <1>17 DEF IInv
  <1>19. UndoContent' = RecordedSteps(kept, rec2) /\ RedoContent' = <<>>
    <2>1. RecordedSteps(<<>>, rec2) = <<>>
      BY DEF RecordedSteps
    <2>2. QED
      BY <1>11, <1>15, <2>1 DEF SameContent, UndoContent, RedoContent, Directions
  <1>20. QED
    BY <1>18, <1>19
LEMMA RecordTransactionInv ==
  ASSUME NEW kind \in Kinds
  PROVE  IInv /\ RecordTransaction(kind) => IInv' /\ ContentStep
  <1> SUFFICES ASSUME IInv, RecordTransaction(kind) PROVE IInv' /\ ContentStep
    OBVIOUS
  <1> DEFINE n == next_snapshot_id
             T == transactions + 1
             U == history["Undo"].steps
             R == history["Redo"].steps
             large == kind = "large"
             joins == kind = "typing joined"
             S0 == IF large THEN Step("BlockRangeSnapshot", n, {T}, FALSE)
                   ELSE Step("InlineSmall", 0, {T}, kind # "small")
             L0 == IF joins THEN Joined(U, T) ELSE Append(U, S0)
             K0 == Newest(L0, MaxSteps)
             O0 == Orphans(R) \cup Orphans(Outdated(L0, MaxSteps))
  <1>1. /\ history \in [Directions -> Side] /\ Matched(history["Undo"])
        /\ Sound(U, R, n, recorded, spill, blobs, Doomed)
        /\ transactions \in 0..MaxTransactions /\ n \in 1..transactions + 1
        /\ GoodStore(n, recorded, blobs) /\ GoodSpill(spill, n, recorded)
        /\ GoodHydration(hydration, n, recorded) /\ GoodCleanup(cleanup, n)
        /\ orphaned_external_blobs \subseteq Used(n)
        /\ late \subseteq [op : {"write", "delete"}, id : Used(n)]
    BY DEF IInv, GoodHistory, Directions
  <1>2. history.Undo = history["Undo"] /\ history.Redo = history["Redo"]
    BY <1>1, Sides
  <1>3. /\ transactions < MaxTransactions /\ transactions' = T
        /\ joins => U # <<>> /\ Last(U).typing
        /\ next_snapshot_id' = IF large THEN n + 1 ELSE n
        /\ recorded' = IF large THEN [recorded EXCEPT ![n] = {T}] ELSE recorded
        /\ UNCHANGED <<hydration, blobs, late>>
    BY <1>2 DEF RecordTransaction
  <1>4. Changed([Undo |-> [steps |-> K0,
                           events |-> TrimEvents(Append(history["Undo"].events, "ExternalTransaction"),
                                                 "ExternalTransaction", Len(K0)),
                           texts |-> history["Undo"].texts],
                 Redo |-> EmptySide],
                orphaned_external_blobs \cup O0)
    <2>1. orphaned_external_blobs \cup Orphans(R) \cup Orphans(Outdated(L0, MaxSteps))
            = orphaned_external_blobs \cup O0
      OBVIOUS
    <2>2. Changed([Undo |-> [steps |-> K0,
                             events |-> TrimEvents(Append(history["Undo"].events, "ExternalTransaction"),
                                                   "ExternalTransaction", Len(K0)),
                             texts |-> history["Undo"].texts],
                   Redo |-> EmptySide],
                  orphaned_external_blobs \cup Orphans(R) \cup Orphans(Outdated(L0, MaxSteps)))
      BY <1>2 DEF RecordTransaction, Joined
    <2>3. QED
      BY <2>1, <2>2
  <1>5. PICK u : u = U
    OBVIOUS
  <1>6. PICK r : r = R
    OBVIOUS
  <1>7. PICK t : t = T
    OBVIOUS
  <1>8. PICK n2 : n2 = next_snapshot_id'
    OBVIOUS
  <1>9. PICK rec2 : rec2 = recorded'
    OBVIOUS
  <1>10. PICK step : step = S0
    OBVIOUS
  <1>11. PICK steps : steps = L0
    OBVIOUS
  <1>12. PICK kept : kept = K0
    OBVIOUS
  <1>13. PICK orphans : orphans = O0
    OBVIOUS
  <1>14. PICK ev : ev = history["Undo"].events
    OBVIOUS
  <1>15. PICK tx : tx = history["Undo"].texts
    OBVIOUS
  <1>16. PICK E : E = TrimEvents(Append(ev, "ExternalTransaction"), "ExternalTransaction", Len(kept))
    OBVIOUS
  <1>17. Changed([Undo |-> [steps |-> kept, events |-> E, texts |-> tx], Redo |-> EmptySide],
                 orphaned_external_blobs \cup orphans)
    BY <1>4, <1>12, <1>13, <1>14, <1>15, <1>16
  <1>18. /\ steps = IF joins THEN Joined(u, t) ELSE Append(u, step)
         /\ kept = Newest(steps, MaxSteps)
         /\ orphans = Orphans(r) \cup Orphans(Outdated(steps, MaxSteps))
         /\ step = IF large THEN Step("BlockRangeSnapshot", n, {t}, FALSE)
                   ELSE Step("InlineSmall", 0, {t}, kind # "small")
         /\ joins => u # <<>> /\ Last(u).typing
         /\ transactions' = t
    BY <1>3, <1>5, <1>6, <1>7, <1>10, <1>11, <1>12, <1>13
  <1>19. /\ Sound(u, r, n, recorded, spill, blobs, Doomed)
         /\ Count(ev, "ExternalTransaction") = Len(u)
         /\ n2 = IF large THEN n + 1 ELSE n
         /\ rec2 = IF large THEN [recorded EXCEPT ![n] = {t}] ELSE recorded
    BY <1>1, <1>3, <1>5, <1>6, <1>7, <1>8, <1>9, <1>14 DEF Matched
  <1>20. t \in Transactions /\ t \in 0..MaxTransactions /\ n \in SnapshotIds /\ n2 \in 1..t + 1
    <2>1. t \in 1..MaxTransactions /\ n \in 1..MaxTransactions /\ n + 1 \in 1..t + 1 /\ n \in 1..t + 1
      <3>1. /\ transactions \in 0..MaxTransactions /\ n \in 1..transactions + 1
            /\ transactions < MaxTransactions /\ t = transactions + 1
        BY <1>1, <1>3, <1>7
      <3> HIDE DEF n
      <3>2. QED
        BY <3>1, Limits
    <2>2. t \in 0..MaxTransactions
      BY <2>1, Limits
    <2>3. QED
      BY <1>19, <2>1, <2>2 DEF Transactions, SnapshotIds
  <1> HIDE DEF U, R, T, S0, L0, K0, O0
  <1>21. /\ GoodStore(n2, rec2, blobs) /\ GoodSpill(spill, n2, rec2)
         /\ GoodHydration(hydration, n2, rec2) /\ GoodCleanup(cleanup, n2)
         /\ Used(n) \subseteq Used(n2)
         /\ \A i \in Used(n) : rec2[i] = recorded[i]
         /\ \A s, D : GoodStep(s, n, recorded, spill, blobs, D)
                        => GoodStep(s, n2, rec2, spill, blobs, D)
    <2>1. CASE large
      <3>0. rec2 = [recorded EXCEPT ![n] = {t}] /\ n2 = n + 1
        BY <1>19, <2>1
      <3>1. /\ rec2 \in [SnapshotIds -> SUBSET Transactions] /\ rec2[n] = {t}
            /\ \A i \in SnapshotIds : i # n => rec2[i] = recorded[i]
        BY <1>1, <1>20, <3>0 DEF GoodStore
      <3>2. Aside(n, recorded, blobs, spill, hydration, cleanup) /\ HandedOut(n, t, recorded, rec2)
        BY <1>1, <1>20, <3>1 DEF Aside, HandedOut
      <3> HIDE DEF n
      <3>3. /\ Aside(n2, rec2, blobs, spill, hydration, cleanup)
            /\ Used(n) \subseteq Used(n2) /\ n \notin Used(n)
            /\ \A s, D : GoodStep(s, n, recorded, spill, blobs, D)
                           => GoodStep(s, n2, rec2, spill, blobs, D)
        BY ONLY <3>0, <3>2, NewSnapshot
      <3>4. \A i \in Used(n) : rec2[i] = recorded[i]
        BY <3>1, <3>3 DEF Used
      <3>5. QED
        BY <3>3, <3>4 DEF Aside
    <2>2. CASE ~large
      BY <1>1, <1>19, <2>2
    <2>3. QED
      BY <2>1, <2>2
  <1>22. large => n \in Used(n2) /\ n \notin Used(n) /\ rec2[n] = {t}
    <2> SUFFICES ASSUME large PROVE n \in Used(n2) /\ n \notin Used(n) /\ rec2[n] = {t}
      OBVIOUS
    <2>0. rec2 = [recorded EXCEPT ![n] = {t}] /\ n2 = n + 1
      BY <1>19
    <2>1. /\ rec2 \in [SnapshotIds -> SUBSET Transactions] /\ rec2[n] = {t}
          /\ \A i \in SnapshotIds : i # n => rec2[i] = recorded[i]
      BY <1>1, <1>20, <2>0 DEF GoodStore
    <2>2. Aside(n, recorded, blobs, spill, hydration, cleanup) /\ HandedOut(n, t, recorded, rec2)
      BY <1>1, <1>20, <2>1 DEF Aside, HandedOut
    <2> HIDE DEF n
    <2>3. n \in Used(n2) /\ n \notin Used(n)
      BY ONLY <2>0, <2>2, NewSnapshot
    <2>4. QED
      BY <2>1, <2>3
  <1>23. Sound(u, r, n2, rec2, spill, blobs, Doomed)
    BY <1>19, <1>21, SoundAround
  <1>24. /\ Sound(u, <<>>, n2, rec2, spill, blobs, Doomed \cup Orphans(r))
         /\ Orphans(r) \subseteq Used(n2)
    BY <1>23, SoundCleared
  <1>25. u \in Seq(StepType) /\ Len(u) \in Nat /\ MaxSteps \in Nat \ {0} /\ Len(u) <= MaxSteps
    <2>1. /\ u \in Seq(StepType) /\ Len(u) \in Nat /\ Len(r) \in Nat /\ MaxSteps \in Nat \ {0}
          /\ Len(u) + Len(r) <= MaxSteps
      BY <1>19, SoundLengths
    <2>2. QED
      BY <2>1
  <1>26. RecordedSteps(u, rec2) = RecordedSteps(u, recorded)
    <2>1. \A i \in 1..Len(u) : GoodStep(u[i], n, recorded, spill, blobs, Doomed)
      BY <1>19 DEF Sound
    <2>2. \A i \in 1..Len(u) : u[i].payload # "InlineSmall" => u[i].id \in Used(n)
      BY <2>1 DEF GoodStep
    <2>3. \A i \in 1..Len(u) : Recorded(u[i], rec2) = Recorded(u[i], recorded)
      BY <1>21, <2>2 DEF Recorded
    <2>4. QED
      BY <2>3 DEF RecordedSteps
  <1> DEFINE D == Doomed \cup Orphans(r)
  \* The new steps are sound, and one longer at most; what they are.
  <1>27. /\ Sound(kept, <<>>, n2, rec2, spill, blobs, D \cup Orphans(Outdated(steps, MaxSteps)))
         /\ Orphans(Outdated(steps, MaxSteps)) \subseteq Used(n2)
         /\ Len(u) + 1 \in {Len(kept), Len(kept) + 1}
         /\ \/ RecordedSteps(kept, rec2) = Newest(Append(RecordedSteps(u, rec2), {t}), MaxSteps)
            \/ /\ RecordedSteps(u, rec2) # <<>>
               /\ RecordedSteps(kept, rec2) = [RecordedSteps(u, rec2) EXCEPT ![Len(RecordedSteps(u, rec2))] = @ \cup {t}]
    <2>1. CASE joins
      <3>1. steps = Joined(u, t) /\ u # <<>> /\ u[Len(u)].typing
        BY <1>18, <2>1 DEF Last
      <3>2. Len(Joined(u, t)) = Len(u) /\ Len(u) \in 1..Len(u)
        BY <1>20, <1>25, <3>1, JoinedSteps
      <3>3. /\ Newest(Joined(u, t), MaxSteps) = Joined(u, t)
            /\ Orphans(Outdated(Joined(u, t), MaxSteps)) = {}
        BY <1>25, <3>2, CutNone
      <3>4. Sound(Joined(u, t), <<>>, n2, rec2, spill, blobs, D)
        BY <1>20, <1>24, <3>1, SoundJoined
      <3>5. u[Len(u)].payload = "InlineSmall"
        <4>1. GoodStep(u[Len(u)], n2, rec2, spill, blobs, D)
          BY <1>24, <3>2 DEF Sound
        <4>2. QED
          BY <3>1, <4>1 DEF GoodStep
      <3>6. /\ RecordedSteps(u, rec2) # <<>>
            /\ RecordedSteps(Joined(u, t), rec2) = [RecordedSteps(u, rec2) EXCEPT ![Len(RecordedSteps(u, rec2))] = @ \cup {t}]
        BY <1>20, <1>25, <3>1, <3>5, RecordedJoined, RecordedType
      <3>7. D \cup {} = D /\ {} \subseteq Used(n2)
        OBVIOUS
      <3>8. kept = Joined(u, t) /\ Orphans(Outdated(steps, MaxSteps)) = {}
        BY <1>18, <3>1, <3>3
      <3> HIDE DEF D
      <3>9. QED
        BY <1>25, <3>2, <3>4, <3>6, <3>7, <3>8
    <2>2. CASE ~joins
      <3>1. steps = Append(u, step)
        BY <1>18, <2>2
      <3>2. /\ GoodStep(step, n2, rec2, spill, blobs, D) /\ Recorded(step, rec2) = {t}
            /\ \A i \in 1..Len(u) : u[i].id = step.id => step.id = 0
        <4>0. {t} \in SUBSET Transactions
          BY <1>20
        <4>1. CASE large
          <5>1. step = Step("BlockRangeSnapshot", n, {t}, FALSE)
            BY <1>18, <4>1
          <5>2. /\ step.payload = "BlockRangeSnapshot" /\ step.id = n /\ step.txn = {t}
                /\ ~step.typing
            BY <5>1 DEF Step
          <5>3. step \in StepType
            <6>1. n \in SnapshotIds \cup {0} /\ FALSE \in BOOLEAN
              BY <1>20
            <6>2. QED
              BY <4>0, <5>1, <6>1, StepTyped
          <5>4. n \in Used(n2) /\ n \notin Used(n) /\ rec2[n] = {t} /\ n # 0
            BY <1>1, <1>22, <4>1
          <5>5. spill.phase # "none" => spill.id # n
            <6>1. CASE spill = NoSpill
              BY <6>1 DEF NoSpill
            <6>2. CASE spill # NoSpill
              <7>1. spill.id \in Used(n)
                BY <1>1, <6>2 DEF GoodSpill
              <7>2. QED
                BY <5>4, <7>1
            <6>3. QED
              BY <6>1, <6>2
          <5>6. n \notin D
            <6>1. cleanup.ids \subseteq Used(n)
              <7>1. CASE cleanup = NoCleanup
                BY <7>1 DEF NoCleanup
              <7>2. CASE cleanup # NoCleanup
                BY <1>1, <7>2 DEF GoodCleanup
              <7>3. QED
                BY <7>1, <7>2
            <6>2. LateDeletes(late) \subseteq Used(n)
              BY <1>1 DEF LateDeletes
            <6>3. Orphans(r) \subseteq Used(n)
              BY <1>19, SoundCleared
            <6>4. QED
              BY <1>1, <5>4, <6>1, <6>2, <6>3 DEF Doomed
          <5> HIDE DEF D
          <5>7. GoodStep(step, n2, rec2, spill, blobs, D)
            BY <5>2, <5>3, <5>4, <5>5, <5>6 DEF GoodStep
          <5>8. Recorded(step, rec2) = {t}
            BY <5>2, <5>4 DEF Recorded
          <5>9. ASSUME NEW i \in 1..Len(u), u[i].id = step.id
                PROVE  step.id = 0
            <6>1. GoodStep(u[i], n, recorded, spill, blobs, Doomed)
              BY <1>19 DEF Sound
            <6>2. u[i].id \in Used(n) \cup {0}
              BY <6>1 DEF GoodStep
            <6>3. QED
              BY <5>2, <5>4, <5>9, <6>2
          <5>10. QED
            BY <5>7, <5>8, <5>9
        <4>2. CASE ~large
          <5>1. step = Step("InlineSmall", 0, {t}, kind # "small")
            BY <1>18, <4>2
          <5>2. step.payload = "InlineSmall" /\ step.id = 0 /\ step.txn = {t}
            BY <5>1 DEF Step
          <5>3. step \in StepType
            <6>1. 0 \in SnapshotIds \cup {0} /\ (kind # "small") \in BOOLEAN
              OBVIOUS
            <6>2. QED
              BY <4>0, <5>1, <6>1, StepTyped
          <5>4. spill.phase # "none" => spill.id # 0
            <6>1. CASE spill = NoSpill
              BY <6>1 DEF NoSpill
            <6>2. CASE spill # NoSpill
              <7>1. spill.id \in Used(n)
                BY <1>1, <6>2 DEF GoodSpill
              <7>2. QED
                BY <7>1, Limits DEF Used, SnapshotIds
            <6>3. QED
              BY <6>1, <6>2
          <5>5. 0 \notin D
            <6>1. 0 \notin Used(n)
              BY Limits DEF Used, SnapshotIds
            <6>2. cleanup.ids \subseteq Used(n)
              <7>1. CASE cleanup = NoCleanup
                BY <7>1 DEF NoCleanup
              <7>2. CASE cleanup # NoCleanup
                BY <1>1, <7>2 DEF GoodCleanup
              <7>3. QED
                BY <7>1, <7>2
            <6>3. LateDeletes(late) \subseteq Used(n)
              BY <1>1 DEF LateDeletes
            <6>4. Orphans(r) \subseteq Used(n)
              BY <1>19, SoundCleared
            <6>5. QED
              BY <1>1, <6>1, <6>2, <6>3, <6>4 DEF Doomed
          <5> HIDE DEF D
          <5>6. GoodStep(step, n2, rec2, spill, blobs, D)
            BY <5>2, <5>3, <5>4, <5>5 DEF GoodStep
          <5>7. Recorded(step, rec2) = {t}
            BY <5>2 DEF Recorded
          <5>8. QED
            BY <5>2, <5>6, <5>7
        <4>3. QED
          BY <4>1, <4>2
      <3>3. step \in StepType
        BY <3>2 DEF GoodStep
      <3> HIDE DEF D
      <3>4. /\ Sound(Newest(Append(u, step), MaxSteps), <<>>, n2, rec2, spill, blobs,
                     D \cup Orphans(Outdated(Append(u, step), MaxSteps)))
            /\ Orphans(Outdated(Append(u, step), MaxSteps)) \subseteq Used(n2)
        <4>1. Sound(u, <<>>, n2, rec2, spill, blobs, D)
          BY <1>24 DEF D
        <4>2. QED
          BY <3>2, <4>1, SoundRecorded
      <3>5. Append(u, step) \in Seq(StepType) /\ Len(Append(u, step)) = Len(u) + 1
        BY <1>25, <3>3, Appended
      <3>6. Len(u) + 1 \in {Len(kept), Len(kept) + 1}
        <4>1. CASE Len(u) + 1 <= MaxSteps
          <5>1. Newest(Append(u, step), MaxSteps) = Append(u, step)
            BY <3>5, <4>1, CutNone
          <5>2. QED
            BY <1>18, <3>1, <3>5, <5>1
        <4>2. CASE Len(u) = MaxSteps
          <5>1. Len(Newest(Append(u, step), MaxSteps)) = MaxSteps
            BY <1>25, <3>5, <4>2, CutOne
          <5>2. QED
            BY <1>18, <3>1, <4>2, <5>1
        <4>3. QED
          BY <1>25, <4>1, <4>2
      <3>7. RecordedSteps(kept, rec2) = Newest(Append(RecordedSteps(u, rec2), {t}), MaxSteps)
        <4>1. Len(Append(u, step)) <= MaxSteps + 1
          BY <1>25, <3>5
        <4>2. RecordedSteps(Newest(Append(u, step), MaxSteps), rec2)
                = Newest(RecordedSteps(Append(u, step), rec2), MaxSteps)
          BY <1>25, <3>5, <4>1, RecordedNewest
        <4>3. RecordedSteps(Append(u, step), rec2)
                = Append(RecordedSteps(u, rec2), Recorded(step, rec2))
          BY <1>25, <3>3, RecordedAppend
        <4>4. QED
          BY <1>18, <3>1, <3>2, <4>2, <4>3
      <3>8. QED
        BY <1>18, <3>1, <3>4, <3>6, <3>7
    <2>3. QED
      BY <2>1, <2>2
  <1>28. D \cup Orphans(Outdated(steps, MaxSteps)) = Doomed \cup orphans /\ orphans \subseteq Used(n2)
    BY <1>18, <1>24, <1>27
  <1> HIDE DEF D
  <1>29. /\ IInv'
         /\ UndoContent' = RecordedSteps(kept, rec2) /\ RedoContent' = <<>>
    <2>1. Sound(kept, <<>>, n2, rec2, spill, blobs, Doomed \cup orphans)
      BY <1>27, <1>28
    <2>2. Count(ev, "ExternalTransaction") + 1 \in {Len(kept), Len(kept) + 1}
      BY <1>19, <1>27
    <2>3. next_snapshot_id' = n2 /\ recorded' = rec2 /\ UNCHANGED <<hydration, blobs, late>>
      BY <1>3, <1>8, <1>9
    <2> HIDE DEF n
    <2>4. Used(next_snapshot_id) \subseteq Used(n2)
      BY <1>21 DEF n
    <2>5. /\ GoodStore(n2, rec2, blobs) /\ GoodSpill(spill, n2, rec2)
          /\ GoodHydration(hydration, n2, rec2) /\ GoodCleanup(cleanup, n2)
      BY <1>21
    <2>6. t \in 0..MaxTransactions /\ n2 \in 1..t + 1 /\ transactions' = t
      BY <1>18, <1>20
    <2>7. orphans \subseteq Used(n2)
      BY <1>28
    <2>8. QED
      BY <1>14, <1>15, <1>16, <1>17, <2>1, <2>2, <2>3, <2>4, <2>5, <2>6, <2>7, RecordInv
  <1>30. UndoContent = RecordedSteps(u, rec2)
    BY <1>5, <1>26 DEF UndoContent, U
  <1>31. ContentStep
    BY <1>20, <1>27, <1>29, <1>30 DEF ContentStep, StackStep
  <1>32. QED
    BY <1>29, <1>31
-----------------------------------------------------------------------------
(* Undo and redo.                                                          *)

\* Every outcome of a command is a sound history, with at most one step
\* moved.
LEMMA OutcomesGood ==
  ASSUME NEW h, NEW nxt, NEW rec, NEW sp, NEW bl, NEW doomed, NEW d \in Directions,
         GoodHistory(h, nxt, rec, sp, bl, doomed), NEW o \in Outcomes(h, d)
  PROVE  /\ GoodHistory(o.history, nxt, rec, sp, bl, doomed)
         /\ SameContent(h, o.history, rec) \/ MovedContent(h, o.history, d, rec)
  <1> DEFINE Ok(after) == [ok |-> TRUE, history |-> after]
             Err(after) == [ok |-> FALSE, history |-> after]
  <1>1. /\ h[d].events # <<>>
        /\ \/ o = Ok(Moved(h, d)) \/ o = Err(Moved(h, d)) \/ o = Err(h)
           \/ Last(h[d].events) = "Text" /\ o = Err(TextLost(h, d))
           \/ Last(h[d].events) = "Text" /\ o = Err(RestoreFailed(h, d))
    <2>1. CASE h[d].events = <<>>
      BY <2>1 DEF Outcomes
    <2>2. CASE h[d].events # <<>> /\ Last(h[d].events) = "Text"
      BY <2>2 DEF Outcomes
    <2>3. CASE h[d].events # <<>> /\ Last(h[d].events) # "Text"
      BY <2>3 DEF Outcomes
    <2>4. QED
      BY <2>1, <2>2, <2>3
  <1>2. \/ o.history = Moved(h, d) \/ o.history = h
        \/ Last(h[d].events) = "Text" /\ o.history = TextLost(h, d)
        \/ Last(h[d].events) = "Text" /\ o.history = RestoreFailed(h, d)
    BY <1>1
  <1>3. CASE o.history = Moved(h, d)
    BY <1>1, <1>3, MovedHistory
  <1>4. CASE o.history = h
    BY <1>4 DEF SameContent
  <1>5. CASE Last(h[d].events) = "Text" /\ o.history = TextLost(h, d)
    BY <1>1, <1>5, TextLostHistory
  <1>6. CASE Last(h[d].events) = "Text" /\ o.history = RestoreFailed(h, d)
    BY <1>1, <1>6, RestoreFailedHistory
  <1>7. QED
    BY <1>2, <1>3, <1>4, <1>5, <1>6

\* The history is put back without a change of the document.
LEMMA SettledInv ==
  ASSUME IInv, NEW h,
         GoodHistory(h, next_snapshot_id, recorded, spill, blobs, Doomed),
         history' = h,
         UNCHANGED <<spill, cleanup, orphaned_external_blobs,
                     next_snapshot_id, blobs, late, transactions, recorded>>,
         GoodHydration(hydration', next_snapshot_id, recorded)
  PROVE  IInv'
  <1>1. Doomed' = Doomed
    BY DEF Doomed
  <1>2. QED
    BY <1>1 DEF IInv

\* What a command, first or repeated, does to the history.
LEMMA CommandContent ==
  ASSUME NEW d \in Directions, NEW h, recorded' = recorded,
         SameContent(history, h, recorded) \/ MovedContent(history, h, d, recorded),
         SameContent(h, history', recorded)
  PROVE  ContentStep
  <1>1. \/ SameContent(history, history', recorded)
        \/ MovedContent(history, history', d, recorded)
    BY DEF SameContent, MovedContent, Other, Directions
  <1>2. QED
    BY <1>1, SameStep, MovedStep

LEMMA ActInv ==
  ASSUME NEW direction \in Directions
  PROVE  IInv /\ Act(direction) => IInv' /\ ContentStep
  <1> SUFFICES ASSUME IInv, Act(direction) PROVE IInv' /\ ContentStep
    OBVIOUS
  <1>1. PICK o \in Outcomes(history, direction) :
          /\ IF o.ok
             THEN Changed(o.history, orphaned_external_blobs) /\ UNCHANGED hydration
             ELSE LET steps == o.history[direction].steps IN
                  /\ history' = o.history
                  /\ hydration' = IF /\ hydration = NoHydration
                                     /\ steps # <<>> /\ Last(steps).payload = "ExternalBlob"
                                  THEN [phase |-> "reading", id |-> Last(steps).id,
                                        direction |-> direction, txn |-> {}]
                                  ELSE hydration
                  /\ UNCHANGED <<spill, cleanup, orphaned_external_blobs>>
          /\ UNCHANGED <<next_snapshot_id, blobs, late, countVars>>
    BY DEF Act
  <1>2. PICK h : h = o.history
    OBVIOUS
  <1>3. /\ GoodHistory(history, next_snapshot_id, recorded, spill, blobs, Doomed)
        /\ GoodHydration(hydration, next_snapshot_id, recorded)
        /\ orphaned_external_blobs \subseteq Used(next_snapshot_id)
    BY DEF IInv
  <1>4. /\ GoodHistory(h, next_snapshot_id, recorded, spill, blobs, Doomed)
        /\ SameContent(history, h, recorded) \/ MovedContent(history, h, direction, recorded)
    BY <1>2, <1>3, OutcomesGood
  <1>5. UNCHANGED <<next_snapshot_id, blobs, late, transactions, recorded>>
    BY <1>1 DEF countVars
  <1>6. IInv' /\ SameContent(h, history', recorded)
    <2>1. CASE o.ok
      <3>1. PICK p : p = orphaned_external_blobs
        OBVIOUS
      <3>2. Changed(h, p) /\ UNCHANGED hydration
        BY <1>1, <1>2, <2>1, <3>1
      <3>3. /\ p \subseteq Used(next_snapshot_id)
            /\ GoodHistory(h, next_snapshot_id, recorded, spill, blobs,
                           p \cup cleanup.ids \cup LateDeletes(late))
        BY <1>3, <1>4, <3>1 DEF Doomed
      <3>4. GoodHydration(hydration', next_snapshot_id, recorded)
        BY <1>3, <3>2
      <3>5. QED
        BY <1>5, <3>2, <3>3, <3>4, ChangedInv
    <2>2. CASE ~o.ok
      <3> DEFINE steps == h[direction].steps
                 starts == /\ hydration = NoHydration
                           /\ steps # <<>> /\ Last(steps).payload = "ExternalBlob"
      <3>1. /\ history' = h
            /\ hydration' = IF starts THEN [phase |-> "reading", id |-> Last(steps).id,
                                            direction |-> direction, txn |-> {}]
                            ELSE hydration
            /\ UNCHANGED <<spill, cleanup, orphaned_external_blobs>>
        BY <1>1, <1>2, <2>2
      <3>2. GoodHydration(hydration', next_snapshot_id, recorded)
        <4>1. CASE ~starts
          BY <1>3, <3>1, <4>1
        <4>2. CASE starts
          <5>1. h \in [Directions -> Side]
            BY <1>4 DEF GoodHistory
          <5>2. steps \in Seq(StepType) /\ steps # <<>>
            BY <4>2, <5>1, Sides
          <5>3. Len(steps) \in 1..Len(steps) /\ Last(steps) = steps[Len(steps)]
            BY <5>2 DEF Last
          <5>4. \A i \in 1..Len(steps) :
                  GoodStep(steps[i], next_snapshot_id, recorded, spill, blobs, Doomed)
            BY <1>4 DEF GoodHistory, Sound, Directions
          <5>5. Last(steps).id \in Used(next_snapshot_id)
            BY <4>2, <5>3, <5>4 DEF GoodStep
          <5>6. hydration' = [phase |-> "reading", id |-> Last(steps).id,
                              direction |-> direction, txn |-> {}]
            BY <3>1, <4>2
          <5> HIDE DEF steps
          <5>7. QED
            BY <5>5, <5>6 DEF GoodHydration
        <4>3. QED
          BY <4>1, <4>2
      <3>3. IInv'
        BY <1>4, <1>5, <3>1, <3>2, SettledInv
      <3>4. QED
        BY <3>1, <3>3 DEF SameContent
    <2>3. QED
      BY <2>1, <2>2
  <1>7. ContentStep
    BY <1>4, <1>5, <1>6, CommandContent
  <1>8. QED
    BY <1>6, <1>7
-----------------------------------------------------------------------------
(* The background work.                                                    *)

\* Steps(h) as the members of the two stacks.
LEMMA StepsMembers ==
  ASSUME NEW h \in [Directions -> Side]
  PROVE  Steps(h) = Members(h["Undo"].steps, h["Redo"].steps)
  <1>1. /\ h.Undo.steps = h["Undo"].steps /\ h.Redo.steps = h["Redo"].steps
        /\ h["Undo"].steps \in Seq(StepType) /\ h["Redo"].steps \in Seq(StepType)
    BY Sides DEF Directions
  <1>2. ASSUME NEW u \in Seq(StepType), NEW r \in Seq(StepType)
        PROVE  ToSet(u) \cup ToSet(r) = Members(u, r)
    BY DEF ToSet, Members
  <1>3. QED
    BY <1>1, <1>2 DEF Steps

\* The history stays; what surrounds it changes.
LEMMA BackgroundInv ==
  ASSUME IInv, UNCHANGED <<history, next_snapshot_id, transactions, recorded>>,
         GoodStore(next_snapshot_id, recorded, blobs'),
         GoodSpill(spill', next_snapshot_id, recorded),
         GoodHydration(hydration', next_snapshot_id, recorded),
         GoodCleanup(cleanup', next_snapshot_id),
         orphaned_external_blobs' \subseteq Used(next_snapshot_id),
         late' \subseteq [op : {"write", "delete"}, id : Used(next_snapshot_id)],
         \A s \in StepType : GoodStep(s, next_snapshot_id, recorded, spill, blobs, Doomed)
                         => GoodStep(s, next_snapshot_id, recorded, spill', blobs', Doomed')
  PROVE  IInv' /\ ContentStep
  <1>1. GoodHistory(history, next_snapshot_id, recorded, spill, blobs, Doomed)
    BY DEF IInv
  <1>2. PICK sp2 : sp2 = spill'
    OBVIOUS
  <1>3. PICK bl2 : bl2 = blobs'
    OBVIOUS
  <1>4. PICK doomed2 : doomed2 = Doomed'
    OBVIOUS
  <1>5. \A s \in StepType : GoodStep(s, next_snapshot_id, recorded, spill, blobs, Doomed)
                         => GoodStep(s, next_snapshot_id, recorded, sp2, bl2, doomed2)
    BY <1>2, <1>3, <1>4
  <1>6. Sound(history["Undo"].steps, history["Redo"].steps, next_snapshot_id, recorded,
              spill, blobs, Doomed)
    BY <1>1 DEF GoodHistory
  <1>7. Sound(history["Undo"].steps, history["Redo"].steps, next_snapshot_id, recorded,
              sp2, bl2, doomed2)
    BY ONLY <1>5, <1>6, SoundAround
  <1>8. GoodHistory(history, next_snapshot_id, recorded, sp2, bl2, doomed2)
    BY <1>1, <1>7 DEF GoodHistory
  <1>9. IInv'
    BY <1>2, <1>3, <1>4, <1>8 DEF IInv
  <1>10. SameContent(history, history', recorded)
    BY DEF SameContent
  <1>11. QED
    BY <1>9, <1>10, SameStep

LEMMA WriteBlobInv == IInv /\ WriteBlob => IInv' /\ ContentStep
  <1> SUFFICES ASSUME IInv, WriteBlob PROVE IInv' /\ ContentStep
    OBVIOUS
  <1> DEFINE n == next_snapshot_id
             id == spill.id
  <1>1. /\ spill \in [phase : {"writing", "stored", "failed"}, id : Used(n),
                      txn : SUBSET Transactions]
        /\ spill.txn = recorded[id] /\ id \in Used(n) /\ id \in SnapshotIds
        /\ spill.phase = "writing"
    <2>1. spill.phase = "writing" /\ spill # NoSpill
      BY DEF WriteBlob, NoSpill
    <2>2. /\ spill \in [phase : {"writing", "stored", "failed"}, id : Used(n),
                        txn : SUBSET Transactions]
          /\ spill.txn = recorded[id]
      BY <2>1 DEF IInv, GoodSpill
    <2>3. QED
      BY <2>1, <2>2 DEF Used
  <1>2. /\ GoodStore(n, recorded, blobs) /\ GoodHydration(hydration, n, recorded)
        /\ GoodCleanup(cleanup, n) /\ orphaned_external_blobs \subseteq Used(n)
        /\ late \subseteq [op : {"write", "delete"}, id : Used(n)]
    BY DEF IInv
  <1>3. UNCHANGED <<history, next_snapshot_id, orphaned_external_blobs, hydration, cleanup,
                    transactions, recorded>>
    BY DEF WriteBlob, countVars
  <1>4. /\ \/ spill' = [spill EXCEPT !.phase = "stored"]
           \/ spill' = [spill EXCEPT !.phase = "failed"]
        /\ blobs' = [blobs EXCEPT ![id] = spill.txn] \/ UNCHANGED blobs
        /\ spill' = [spill EXCEPT !.phase = "stored"] => blobs' = [blobs EXCEPT ![id] = spill.txn]
        /\ UNCHANGED late \/ late' = late \cup {[op |-> "write", id |-> id]}
    <2>1. CASE /\ spill' = [spill EXCEPT !.phase = "stored"]
               /\ blobs' = [blobs EXCEPT ![id] = spill.txn]
               /\ UNCHANGED late
      BY <2>1
    <2>2. CASE /\ spill' = [spill EXCEPT !.phase = "failed"]
               /\ blobs' = [blobs EXCEPT ![id] = spill.txn] /\ UNCHANGED late
      BY <2>2
    <2>3. CASE /\ spill' = [spill EXCEPT !.phase = "failed"]
               /\ UNCHANGED blobs /\ MayBeLate("write", id)
      <3>1. [spill EXCEPT !.phase = "failed"] # [spill EXCEPT !.phase = "stored"]
        BY <1>1
      <3>2. UNCHANGED late \/ late' = late \cup {[op |-> "write", id |-> id]}
        BY <2>3 DEF MayBeLate
      <3>3. QED
        BY <2>3, <3>1, <3>2
    <2>4. QED
      BY <2>1, <2>2, <2>3 DEF WriteBlob
  <1>5. /\ spill'.id = id /\ spill'.txn = spill.txn /\ spill'.phase \in {"stored", "failed"}
        /\ spill' \in [phase : {"writing", "stored", "failed"}, id : Used(n),
                       txn : SUBSET Transactions]
        /\ spill'.phase = "stored" => blobs' = [blobs EXCEPT ![id] = spill.txn]
    BY <1>1, <1>4
  <1>6. GoodSpill(spill', n, recorded)
    BY <1>1, <1>5 DEF GoodSpill
  <1>7. /\ blobs' \in [SnapshotIds -> SUBSET Transactions]
        /\ \A i \in SnapshotIds : blobs'[i] = blobs[i] \/ blobs'[i] = recorded[i]
        /\ spill'.phase = "stored" => blobs'[id] = recorded[id]
    BY <1>1, <1>2, <1>4, <1>5 DEF GoodStore
  <1>8. GoodStore(n, recorded, blobs')
    BY <1>2, <1>7 DEF GoodStore
  <1>9. late' \subseteq [op : {"write", "delete"}, id : Used(n)]
    BY <1>1, <1>2, <1>4
  <1>10. Doomed' = Doomed
    <2>1. LateDeletes(late') = LateDeletes(late)
      BY <1>4 DEF LateDeletes
    <2>2. QED
      BY <1>3, <2>1 DEF Doomed
  <1>11. ASSUME NEW s \in StepType, GoodStep(s, n, recorded, spill, blobs, Doomed)
         PROVE  GoodStep(s, n, recorded, spill', blobs', Doomed)
    <2>1. s.payload # "InlineSmall" => s.id \in SnapshotIds
      BY <1>11 DEF GoodStep, Used
    <2>2. s.payload = "ExternalBlob" => blobs'[s.id] = recorded[s.id]
      BY <1>7, <1>11, <2>1 DEF GoodStep
    <2>3. QED
      BY <1>1, <1>5, <1>7, <1>11, <2>2 DEF GoodStep
  <1>12. \A s \in StepType : GoodStep(s, n, recorded, spill, blobs, Doomed)
                               => GoodStep(s, n, recorded, spill', blobs', Doomed')
    BY <1>10, <1>11
  <1>13. /\ GoodHydration(hydration', n, recorded) /\ GoodCleanup(cleanup', n)
         /\ orphaned_external_blobs' \subseteq Used(n)
    BY <1>2, <1>3
  <1>14. QED
    BY <1>3, <1>6, <1>8, <1>9, <1>12, <1>13, BackgroundInv

LEMMA ReadBlobInv == IInv /\ ReadBlob => IInv' /\ ContentStep
  <1> SUFFICES ASSUME IInv, ReadBlob PROVE IInv' /\ ContentStep
    OBVIOUS
  <1> DEFINE n == next_snapshot_id
             id == hydration.id
  <1>1. /\ hydration \in [phase : {"reading", "read", "failed"}, id : Used(n),
                          direction : Directions, txn : SUBSET Transactions]
        /\ id \in SnapshotIds
    <2>1. hydration # NoHydration
      BY DEF ReadBlob, NoHydration
    <2>2. hydration \in [phase : {"reading", "read", "failed"}, id : Used(n),
                         direction : Directions, txn : SUBSET Transactions]
      BY <2>1 DEF IInv, GoodHydration
    <2>3. QED
      BY <2>2 DEF Used
  <1>2. /\ GoodStore(n, recorded, blobs) /\ GoodSpill(spill, n, recorded)
        /\ GoodCleanup(cleanup, n) /\ orphaned_external_blobs \subseteq Used(n)
        /\ late \subseteq [op : {"write", "delete"}, id : Used(n)]
    BY DEF IInv
  <1>3. UNCHANGED <<history, next_snapshot_id, orphaned_external_blobs, spill, cleanup, blobs,
                    late, transactions, recorded>>
    BY DEF ReadBlob, countVars
  <1>4. \/ /\ blobs[id] # {}
           /\ hydration' = [phase |-> "read", id |-> id, direction |-> hydration.direction,
                            txn |-> blobs[id]]
        \/ hydration' = [hydration EXCEPT !.phase = "failed"]
    BY DEF ReadBlob
  <1>5. blobs[id] \in SUBSET Transactions /\ (blobs[id] # {} => blobs[id] = recorded[id])
    BY <1>1, <1>2 DEF GoodStore
  <1>6. GoodHydration(hydration', n, recorded)
    <2>1. CASE /\ blobs[id] # {}
               /\ hydration' = [phase |-> "read", id |-> id, direction |-> hydration.direction,
                                txn |-> blobs[id]]
      BY <1>1, <1>5, <2>1 DEF GoodHydration
    <2>2. CASE hydration' = [hydration EXCEPT !.phase = "failed"]
      BY <1>1, <2>2 DEF GoodHydration
    <2>3. QED
      BY <1>4, <2>1, <2>2
  <1>7. Doomed' = Doomed
    BY <1>3 DEF Doomed
  <1>8. QED
    BY <1>2, <1>3, <1>6, <1>7, BackgroundInv
\* The step of a spill is the only one with its id.
LEMMA SpillCallbackInv == IInv /\ SpillCallback => IInv' /\ ContentStep
  <1> SUFFICES ASSUME IInv, SpillCallback PROVE IInv' /\ ContentStep
    OBVIOUS
  <1> DEFINE n == next_snapshot_id
             id == spill.id
             M == Members(history["Undo"].steps, history["Redo"].steps)
             stored == spill.phase = "stored"
             gone == stored /\ ~Has(history, "Externalizing", id)
  <1>1. PICK new : new = IF stored THEN Step("ExternalBlob", id, {}, FALSE)
                         ELSE Step("BlockRangeSnapshot", id, spill.txn, FALSE)
    OBVIOUS
  <1>2. /\ spill.phase \in {"stored", "failed"} /\ spill' = NoSpill
        /\ history' = Replace(history, "Externalizing", id, new)
        /\ orphaned_external_blobs' = IF gone THEN orphaned_external_blobs \cup {id}
                                      ELSE orphaned_external_blobs
        /\ UNCHANGED <<next_snapshot_id, hydration, cleanup, blobs, late, transactions, recorded>>
    BY <1>1 DEF SpillCallback, countVars
  <1>3. /\ spill.txn = recorded[id] /\ id \in Used(n) /\ spill.txn \in SUBSET Transactions
        /\ id \in SnapshotIds /\ id # 0
    <2>1. spill # NoSpill
      BY <1>2 DEF NoSpill
    <2>2. /\ spill.txn = recorded[id] /\ id \in Used(n) /\ spill.txn \in SUBSET Transactions
      BY <2>1 DEF IInv, GoodSpill
    <2>3. QED
      BY <2>2, Limits DEF Used, SnapshotIds
  <1>4. /\ GoodStore(n, recorded, blobs) /\ GoodHydration(hydration, n, recorded)
        /\ GoodCleanup(cleanup, n) /\ orphaned_external_blobs \subseteq Used(n)
        /\ late \subseteq [op : {"write", "delete"}, id : Used(n)]
        /\ GoodHistory(history, n, recorded, spill, blobs, Doomed)
        /\ transactions \in 0..MaxTransactions /\ n \in 1..transactions + 1
    BY DEF IInv
  <1>5. /\ history \in [Directions -> Side]
        /\ Sound(history["Undo"].steps, history["Redo"].steps, n, recorded, spill, blobs, Doomed)
    BY <1>4 DEF GoodHistory
  <1>6. \A s \in M : GoodStep(s, n, recorded, spill, blobs, Doomed)
    BY <1>5, MemberGood
  <1>7. Steps(history) = M
    BY <1>5, StepsMembers
  <1>8. /\ new \in StepType /\ new.id = id /\ ~new.typing
        /\ new.payload = IF stored THEN "ExternalBlob" ELSE "BlockRangeSnapshot"
        /\ ~stored => new.txn = recorded[id]
    <2>1. CASE stored
      <3>1. new = Step("ExternalBlob", id, {}, FALSE)
        BY <1>1, <2>1
      <3>2. QED
        BY <1>3, <2>1, <3>1 DEF Step, StepType
    <2>2. CASE ~stored
      <3>1. new = Step("BlockRangeSnapshot", id, spill.txn, FALSE)
        BY <1>1, <2>2
      <3>2. QED
        BY <1>3, <2>2, <3>1 DEF Step, StepType
    <2>3. QED
      BY <2>1, <2>2
  <1>9. PICK doomed2 : doomed2 = Doomed'
    OBVIOUS
  <1>10. doomed2 = IF gone THEN Doomed \cup {id} ELSE Doomed
    BY <1>2, <1>9 DEF Doomed
  <1>11. NoSpill.phase = "none"
    BY DEF NoSpill
  <1>12. ASSUME NEW s \in M
         PROVE  GoodStep(Sub(s, "Externalizing", id, new), n, recorded, NoSpill, blobs, doomed2)
    <2>1. GoodStep(s, n, recorded, spill, blobs, Doomed)
      BY <1>6
    <2>2. CASE s.payload = "Externalizing"
      <3>1. s.id = id /\ s.id \notin Doomed /\ (stored => blobs[id] = recorded[id])
        BY <2>1, <2>2 DEF GoodStep
      <3>2. ~gone
        BY <1>7, <2>2, <3>1 DEF Has
      <3>3. id \notin doomed2
        BY <1>10, <3>1, <3>2
      <3>4. Sub(s, "Externalizing", id, new) = new
        BY <2>2, <3>1 DEF Sub
      <3>5. GoodStep(new, n, recorded, NoSpill, blobs, doomed2)
        <4> HIDE DEF stored
        <4>1. QED
          BY <1>3, <1>8, <1>11, <3>1, <3>3 DEF GoodStep
      <3>6. QED
        BY <3>4, <3>5
    <2>3. CASE s.payload # "Externalizing"
      <3>1. s.id # id /\ s.id \notin Doomed
        BY <1>2, <2>1, <2>3 DEF GoodStep
      <3>2. s.id \notin doomed2
        BY <1>10, <3>1
      <3>3. GoodStep(s, n, recorded, NoSpill, blobs, doomed2)
        BY <1>11, <2>1, <2>3, <3>2 DEF GoodStep
      <3>4. QED
        BY <2>3, <3>3 DEF Sub
    <2>4. QED
      BY <2>2, <2>3
  <1>13. /\ GoodHistory(history', n, recorded, NoSpill, blobs, doomed2)
         /\ SameContent(history, history', recorded)
    <2>1. "Externalizing" # "InlineSmall" /\ new.payload # "InlineSmall" /\ new.id = id
          /\ new \in StepType
      BY <1>8
    <2>2. \A s \in Members(history["Undo"].steps, history["Redo"].steps) :
            GoodStep(Sub(s, "Externalizing", id, new), n, recorded, NoSpill, blobs, doomed2)
      BY <1>12
    <2>3. GoodHistory(history, n, recorded, spill, blobs, Doomed)
      BY <1>4
    <2>4. /\ GoodHistory(Replace(history, "Externalizing", id, new),
                         n, recorded, NoSpill, blobs, doomed2)
          /\ SameContent(history, Replace(history, "Externalizing", id, new), recorded)
      BY ONLY <2>1, <2>2, <2>3, ReplacedHistory
    <2>5. QED
      BY <1>2, <2>4
  <1>14. orphaned_external_blobs' \subseteq Used(n)
    BY <1>2, <1>3, <1>4
  <1>15. GoodSpill(spill', n, recorded)
    BY <1>2 DEF GoodSpill
  <1>16. GoodHistory(history', n, recorded, spill', blobs, Doomed')
    BY <1>2, <1>9, <1>13
  <1>17. IInv'
    BY <1>2, <1>4, <1>14, <1>15, <1>16 DEF IInv
  <1>18. QED
    BY <1>2, <1>13, <1>17, SameStep

LEMMA HydrationCallbackInv == IInv /\ HydrationCallback => IInv' /\ ContentStep
  <1> SUFFICES ASSUME IInv, HydrationCallback PROVE IInv' /\ ContentStep
    OBVIOUS
  <1> DEFINE n == next_snapshot_id
             id == hydration.id
             direction == hydration.direction
             M == Members(history["Undo"].steps, history["Redo"].steps)
  <1>1. PICK new : new = Step("BlockRangeSnapshot", id, hydration.txn, FALSE)
    OBVIOUS
  <1>2. PICK hydrated : hydrated = Replace(history, "ExternalBlob", id, new)
    OBVIOUS
  <1>3. /\ hydration.phase \in {"read", "failed"} /\ hydration' = NoHydration
        /\ UNCHANGED <<next_snapshot_id, blobs, late, transactions, recorded>>
        /\ IF hydration.phase = "failed" \/ ~Has(history, "ExternalBlob", id)
           THEN UNCHANGED <<history, spill, cleanup, orphaned_external_blobs>>
           ELSE \E o \in Outcomes(hydrated, direction) \cup {[ok |-> FALSE, history |-> hydrated]} :
                  IF o.ok THEN Changed(o.history, orphaned_external_blobs)
                  ELSE history' = o.history /\ UNCHANGED <<spill, cleanup, orphaned_external_blobs>>
    BY <1>1, <1>2 DEF HydrationCallback, countVars
  <1>4. GoodHydration(hydration', n, recorded)
    BY <1>3 DEF GoodHydration
  <1>5. GoodHistory(history, n, recorded, spill, blobs, Doomed)
        /\ orphaned_external_blobs \subseteq Used(n)
    BY DEF IInv
  <1>6. /\ id \in Used(n) /\ id \in SnapshotIds /\ id # 0 /\ direction \in Directions
        /\ hydration.txn \in SUBSET Transactions
        /\ hydration.phase = "read" => hydration.txn = recorded[id]
    <2>1. hydration # NoHydration
      BY <1>3 DEF NoHydration
    <2>2. /\ id \in Used(n) /\ direction \in Directions /\ hydration.txn \in SUBSET Transactions
          /\ hydration.phase = "read" => hydration.txn = recorded[id]
      BY <2>1 DEF IInv, GoodHydration
    <2>3. QED
      BY <2>2, Limits DEF Used, SnapshotIds
  <1>7. CASE UNCHANGED <<history, spill, cleanup, orphaned_external_blobs>>
    <2>1. PICK h : h = history
      OBVIOUS
    <2>2. GoodHistory(h, n, recorded, spill, blobs, Doomed) /\ history' = h
      BY <1>5, <1>7, <2>1
    <2>3. IInv'
      BY <1>3, <1>4, <1>7, <2>2, SettledInv
    <2>4. SameContent(history, history', recorded)
      BY <1>7 DEF SameContent
    <2>5. QED
      BY <1>3, <2>3, <2>4, SameStep
  <1>8. CASE ~(hydration.phase = "failed" \/ ~Has(history, "ExternalBlob", id))
    <2>1. PICK o \in Outcomes(hydrated, direction) \cup {[ok |-> FALSE, history |-> hydrated]} :
            IF o.ok THEN Changed(o.history, orphaned_external_blobs)
            ELSE history' = o.history /\ UNCHANGED <<spill, cleanup, orphaned_external_blobs>>
      BY <1>3, <1>8
    <2>2. /\ new \in StepType /\ new.id = id /\ ~new.typing
          /\ new.payload = "BlockRangeSnapshot" /\ new.txn = recorded[id]
      BY <1>1, <1>3, <1>6, <1>8 DEF Step, StepType
    <2>3. \A s \in M : GoodStep(s, n, recorded, spill, blobs, Doomed)
      BY <1>5, MemberGood DEF GoodHistory
    <2>4. ASSUME NEW s \in M
          PROVE  GoodStep(Sub(s, "ExternalBlob", id, new), n, recorded, spill, blobs, Doomed)
      <3>1. GoodStep(s, n, recorded, spill, blobs, Doomed)
        BY <2>3
      <3>2. CASE s.payload = "ExternalBlob" /\ s.id = id
        <4>1. id \notin Doomed /\ ~(spill.phase # "none" /\ spill.id = id)
          BY <3>1, <3>2 DEF GoodStep
        <4>2. GoodStep(new, n, recorded, spill, blobs, Doomed)
          BY <1>6, <2>2, <4>1 DEF GoodStep
        <4>3. QED
          BY <3>2, <4>2 DEF Sub
      <3>3. CASE ~(s.payload = "ExternalBlob" /\ s.id = id)
        BY <3>1, <3>3 DEF Sub
      <3>4. QED
        BY <3>2, <3>3
    <2>5. /\ GoodHistory(hydrated, n, recorded, spill, blobs, Doomed)
          /\ SameContent(history, hydrated, recorded)
      <3>1. /\ "ExternalBlob" # "InlineSmall" /\ new.payload # "InlineSmall" /\ new.id = id
            /\ new \in StepType
        BY <2>2
      <3>2. \A s \in Members(history["Undo"].steps, history["Redo"].steps) :
              GoodStep(Sub(s, "ExternalBlob", id, new), n, recorded, spill, blobs, Doomed)
        BY <2>4
      <3>3. GoodHistory(history, n, recorded, spill, blobs, Doomed)
        BY <1>5
      <3>4. /\ GoodHistory(Replace(history, "ExternalBlob", id, new),
                           n, recorded, spill, blobs, Doomed)
            /\ SameContent(history, Replace(history, "ExternalBlob", id, new), recorded)
        BY ONLY <3>1, <3>2, <3>3, ReplacedHistory
      <3>5. QED
        BY <1>2, <3>4
    <2>6. PICK h : h = o.history
      OBVIOUS
    <2>7. /\ GoodHistory(h, n, recorded, spill, blobs, Doomed)
          /\ SameContent(hydrated, h, recorded) \/ MovedContent(hydrated, h, direction, recorded)
      <3>1. CASE o \in Outcomes(hydrated, direction)
        BY <1>6, <2>5, <2>6, <3>1, OutcomesGood
      <3>2. CASE o = [ok |-> FALSE, history |-> hydrated]
        BY <2>5, <2>6, <3>2 DEF SameContent
      <3>3. QED
        BY <2>1, <3>1, <3>2
    <2>8. SameContent(history, h, recorded) \/ MovedContent(history, h, direction, recorded)
      BY <1>6, <2>5, <2>7, ContentTrans
    <2>9. IInv' /\ SameContent(h, history', recorded)
      <3>1. CASE o.ok
        <4>1. PICK p : p = orphaned_external_blobs
          OBVIOUS
        <4>2. Changed(h, p)
          BY <2>1, <2>6, <3>1, <4>1
        <4>3. /\ p \subseteq Used(n)
              /\ GoodHistory(h, n, recorded, spill, blobs,
                             p \cup cleanup.ids \cup LateDeletes(late))
          BY <1>5, <2>7, <4>1 DEF Doomed
        <4>4. QED
          BY <1>3, <1>4, <4>2, <4>3, ChangedInv
      <3>2. CASE ~o.ok
        <4>1. history' = h /\ UNCHANGED <<spill, cleanup, orphaned_external_blobs>>
          BY <2>1, <2>6, <3>2
        <4>2. IInv'
          BY <1>3, <1>4, <2>7, <4>1, SettledInv
        <4>3. QED
          BY <4>1, <4>2 DEF SameContent
      <3>3. QED
        BY <3>1, <3>2
    <2>10. ContentStep
      BY <1>3, <1>6, <2>8, <2>9, CommandContent
    <2>11. QED
      BY <2>9, <2>10
  <1>9. QED
    BY <1>3, <1>7, <1>8
\* Blobs that no step can be waiting for are deleted or written again.
LEMMA StoreKept ==
  ASSUME NEW n, NEW rec, NEW sp, NEW bl, NEW bl2, NEW doomed, NEW doomed2,
         \A i \in SnapshotIds : i \notin doomed => bl2[i] = bl[i] \/ bl2[i] = rec[i],
         doomed2 \subseteq doomed
  PROVE  \A s \in StepType :
           GoodStep(s, n, rec, sp, bl, doomed) => GoodStep(s, n, rec, sp, bl2, doomed2)
  <1> SUFFICES ASSUME NEW s \in StepType, GoodStep(s, n, rec, sp, bl, doomed)
               PROVE  GoodStep(s, n, rec, sp, bl2, doomed2)
    OBVIOUS
  <1>1. s.id \notin doomed /\ s.id \notin doomed2
    BY DEF GoodStep
  <1>2. s.payload # "InlineSmall" => s.id \in SnapshotIds
    BY DEF GoodStep, Used
  <1>3. s.payload # "InlineSmall" => bl2[s.id] = bl[s.id] \/ bl2[s.id] = rec[s.id]
    BY <1>1, <1>2
  <1>4. QED
    BY <1>1, <1>3 DEF GoodStep

LEMMA DeleteBlobsInv == IInv /\ DeleteBlobs => IInv' /\ ContentStep
  <1> SUFFICES ASSUME IInv, DeleteBlobs PROVE IInv' /\ ContentStep
    OBVIOUS
  <1> DEFINE n == next_snapshot_id
  <1>1. PICK failed \in SUBSET cleanup.ids : \E landed \in SUBSET failed :
          /\ cleanup' = [phase |-> "done", ids |-> failed]
          /\ blobs' = [i \in SnapshotIds |->
                         IF i \in (cleanup.ids \ failed) \cup landed THEN {} ELSE blobs[i]]
          /\ IF failed = landed THEN UNCHANGED late
             ELSE \E i \in failed \ landed : MayBeLate("delete", i)
    BY DEF DeleteBlobs
  <1>2. PICK landed \in SUBSET failed :
          /\ cleanup' = [phase |-> "done", ids |-> failed]
          /\ blobs' = [i \in SnapshotIds |->
                         IF i \in (cleanup.ids \ failed) \cup landed THEN {} ELSE blobs[i]]
          /\ IF failed = landed THEN UNCHANGED late
             ELSE \E i \in failed \ landed : MayBeLate("delete", i)
    BY <1>1
  <1>3. UNCHANGED <<history, next_snapshot_id, orphaned_external_blobs, spill, hydration,
                    transactions, recorded>>
    BY DEF DeleteBlobs, countVars
  <1>4. /\ GoodStore(n, recorded, blobs) /\ GoodSpill(spill, n, recorded)
        /\ GoodHydration(hydration, n, recorded) /\ GoodCleanup(cleanup, n)
        /\ orphaned_external_blobs \subseteq Used(n)
        /\ late \subseteq [op : {"write", "delete"}, id : Used(n)]
    BY DEF IInv
  <1>5. cleanup.ids \subseteq Used(n)
    <2>1. cleanup # NoCleanup
      BY DEF DeleteBlobs, NoCleanup
    <2>2. QED
      BY <1>4, <2>1 DEF GoodCleanup
  <1>6. UNCHANGED late \/ \E i \in failed : late' = late \cup {[op |-> "delete", id |-> i]}
    BY <1>2 DEF MayBeLate
  <1>7. GoodCleanup(cleanup', n)
    BY <1>2, <1>5 DEF GoodCleanup
  <1>8. /\ blobs' \in [SnapshotIds -> SUBSET Transactions]
        /\ \A i \in SnapshotIds : blobs'[i] = blobs[i] \/ blobs'[i] = {}
        /\ \A i \in SnapshotIds : i \notin cleanup.ids => blobs'[i] = blobs[i]
    BY <1>2, <1>4 DEF GoodStore
  <1>9. GoodStore(n, recorded, blobs')
    BY <1>4, <1>8 DEF GoodStore
  <1>10. late' \subseteq [op : {"write", "delete"}, id : Used(n)]
    BY <1>4, <1>5, <1>6
  <1>11. LateDeletes(late') \subseteq LateDeletes(late) \cup cleanup.ids
    <2>1. CASE UNCHANGED late
      BY <2>1
    <2>2. CASE \E i \in failed : late' = late \cup {[op |-> "delete", id |-> i]}
      <3>1. PICK i \in failed : late' = late \cup {[op |-> "delete", id |-> i]}
        BY <2>2
      <3>2. i \in cleanup.ids
        OBVIOUS
      <3>3. ASSUME NEW e \in late', e.op = "delete"
            PROVE  e.id \in LateDeletes(late) \cup cleanup.ids
        <4>1. CASE e \in late
          BY <3>3, <4>1 DEF LateDeletes
        <4>2. CASE e = [op |-> "delete", id |-> i]
          BY <3>2, <4>2
        <4>3. QED
          BY <3>1, <4>1, <4>2
      <3>4. QED
        BY <3>3 DEF LateDeletes
    <2>3. QED
      BY <1>6, <2>1, <2>2
  <1>12. PICK doomed2 : doomed2 = Doomed'
    OBVIOUS
  <1>13. cleanup'.ids \subseteq cleanup.ids
    BY <1>2
  <1>14. doomed2 \subseteq Doomed /\ cleanup.ids \subseteq Doomed
    BY <1>3, <1>11, <1>12, <1>13 DEF Doomed
  <1>15. PICK bl2 : bl2 = blobs'
    OBVIOUS
  <1>16. \A i \in SnapshotIds : i \notin Doomed => bl2[i] = blobs[i] \/ bl2[i] = recorded[i]
    BY <1>8, <1>14, <1>15
  <1>17. \A s \in StepType : GoodStep(s, n, recorded, spill, blobs, Doomed)
                               => GoodStep(s, n, recorded, spill, bl2, doomed2)
    BY ONLY <1>14, <1>16, StoreKept
  <1>18. \A s \in StepType : GoodStep(s, n, recorded, spill, blobs, Doomed)
                               => GoodStep(s, n, recorded, spill', blobs', Doomed')
    BY <1>3, <1>12, <1>15, <1>17
  <1>19. /\ GoodSpill(spill', n, recorded) /\ GoodHydration(hydration', n, recorded)
         /\ orphaned_external_blobs' \subseteq Used(n)
    BY <1>3, <1>4
  <1>20. QED
    BY <1>3, <1>7, <1>9, <1>10, <1>18, <1>19, BackgroundInv

LEMMA CleanupCallbackInv == IInv /\ CleanupCallback => IInv' /\ ContentStep
  <1> SUFFICES ASSUME IInv, CleanupCallback PROVE IInv' /\ ContentStep
    OBVIOUS
  <1> DEFINE n == next_snapshot_id
  <1>1. /\ cleanup.phase = "done" /\ cleanup' = NoCleanup
        /\ orphaned_external_blobs' = orphaned_external_blobs \cup cleanup.ids
        /\ UNCHANGED <<history, next_snapshot_id, spill, hydration, blobs, late,
                       transactions, recorded>>
    BY DEF CleanupCallback, countVars
  <1>2. /\ GoodStore(n, recorded, blobs) /\ GoodSpill(spill, n, recorded)
        /\ GoodHydration(hydration, n, recorded) /\ GoodCleanup(cleanup, n)
        /\ orphaned_external_blobs \subseteq Used(n)
        /\ late \subseteq [op : {"write", "delete"}, id : Used(n)]
    BY DEF IInv
  <1>3. cleanup.ids \subseteq Used(n)
    <2>1. cleanup # NoCleanup
      BY <1>1 DEF NoCleanup
    <2>2. QED
      BY <1>2, <2>1 DEF GoodCleanup
  <1>4. Doomed' = Doomed
    BY <1>1 DEF Doomed, NoCleanup
  <1>5. GoodCleanup(cleanup', n) /\ orphaned_external_blobs' \subseteq Used(n)
    BY <1>1, <1>2, <1>3 DEF GoodCleanup
  <1>6. QED
    BY <1>1, <1>2, <1>4, <1>5, BackgroundInv

LEMMA LateEffectInv ==
  ASSUME NEW e
  PROVE  IInv /\ LateEffect(e) => IInv' /\ ContentStep
  <1> SUFFICES ASSUME IInv, LateEffect(e) PROVE IInv' /\ ContentStep
    OBVIOUS
  <1> DEFINE n == next_snapshot_id
  <1>1. /\ e \in late /\ late' = late \ {e}
        /\ blobs' = [blobs EXCEPT ![e.id] = IF e.op = "write" THEN recorded[e.id] ELSE {}]
        /\ UNCHANGED <<history, next_snapshot_id, orphaned_external_blobs, spill, hydration,
                       cleanup, transactions, recorded>>
    BY DEF LateEffect, countVars
  <1>2. /\ GoodStore(n, recorded, blobs) /\ GoodSpill(spill, n, recorded)
        /\ GoodHydration(hydration, n, recorded) /\ GoodCleanup(cleanup, n)
        /\ orphaned_external_blobs \subseteq Used(n)
        /\ late \subseteq [op : {"write", "delete"}, id : Used(n)]
    BY DEF IInv
  <1>3. e.op \in {"write", "delete"} /\ e.id \in SnapshotIds
    BY <1>1, <1>2 DEF Used
  <1>4. e.op = "delete" => e.id \in Doomed
    BY <1>1 DEF Doomed, LateDeletes
  <1>5. PICK doomed2 : doomed2 = Doomed'
    OBVIOUS
  <1>6. doomed2 \subseteq Doomed
    <2>1. LateDeletes(late') \subseteq LateDeletes(late)
      BY <1>1 DEF LateDeletes
    <2>2. QED
      BY <1>1, <1>5, <2>1 DEF Doomed
  <1>7. PICK bl2 : bl2 = blobs'
    OBVIOUS
  <1>8. /\ bl2 \in [SnapshotIds -> SUBSET Transactions]
        /\ \A i \in SnapshotIds : i # e.id => bl2[i] = blobs[i]
        /\ bl2[e.id] = IF e.op = "write" THEN recorded[e.id] ELSE {}
    BY <1>1, <1>2, <1>3, <1>7 DEF GoodStore
  <1>9. \A i \in SnapshotIds : i \notin Doomed => bl2[i] = blobs[i] \/ bl2[i] = recorded[i]
    BY <1>3, <1>4, <1>8
  <1>10. \A s \in StepType : GoodStep(s, n, recorded, spill, blobs, Doomed)
                               => GoodStep(s, n, recorded, spill, bl2, doomed2)
    BY ONLY <1>6, <1>9, StoreKept
  <1>11. \A s \in StepType : GoodStep(s, n, recorded, spill, blobs, Doomed)
                               => GoodStep(s, n, recorded, spill', blobs', Doomed')
    BY <1>1, <1>5, <1>7, <1>10
  <1>12. GoodStore(n, recorded, blobs')
    <2>1. \A i \in SnapshotIds : bl2[i] = {} \/ bl2[i] = recorded[i]
      BY <1>2, <1>3, <1>8 DEF GoodStore
    <2>2. QED
      BY <1>2, <1>7, <1>8, <2>1 DEF GoodStore
  <1>13. late' \subseteq [op : {"write", "delete"}, id : Used(n)]
    BY <1>1, <1>2
  <1>14. /\ GoodSpill(spill', n, recorded) /\ GoodHydration(hydration', n, recorded)
         /\ GoodCleanup(cleanup', n) /\ orphaned_external_blobs' \subseteq Used(n)
    BY <1>1, <1>2
  <1>15. QED
    BY <1>1, <1>11, <1>12, <1>13, <1>14, BackgroundInv
-----------------------------------------------------------------------------
(* The theorems.                                                           *)

LEMMA StepInv == IInv /\ [Next]_vars => IInv' /\ ContentStep
  <1> SUFFICES ASSUME IInv, [Next]_vars PROVE IInv' /\ ContentStep
    OBVIOUS
  <1>1. CASE \E kind \in Kinds : RecordTransaction(kind)
    BY <1>1, RecordTransactionInv
  <1>2. CASE RecordText
    BY <1>2, RecordTextInv
  <1>3. CASE ChangeOnly
    BY <1>3, ChangeOnlyInv
  <1>4. CASE \E direction \in Directions : Act(direction)
    BY <1>4, ActInv
  <1>5. CASE WriteBlob
    BY <1>5, WriteBlobInv
  <1>6. CASE SpillCallback
    BY <1>6, SpillCallbackInv
  <1>7. CASE ReadBlob
    BY <1>7, ReadBlobInv
  <1>8. CASE HydrationCallback
    BY <1>8, HydrationCallbackInv
  <1>9. CASE DeleteBlobs
    BY <1>9, DeleteBlobsInv
  <1>10. CASE CleanupCallback
    BY <1>10, CleanupCallbackInv
  <1>11. CASE \E e \in late : LateEffect(e)
    BY <1>11, LateEffectInv
  <1>12. CASE UNCHANGED vars
    <2>1. UNCHANGED <<history, next_snapshot_id, orphaned_external_blobs, spill, hydration,
                      cleanup, blobs, late, transactions, recorded>>
      BY <1>12 DEF vars, ioVars, countVars
    <2>2. Doomed' = Doomed
      BY <2>1 DEF Doomed
    <2>3. IInv'
      BY <2>1, <2>2 DEF IInv
    <2>4. SameContent(history, history', recorded)
      BY <2>1 DEF SameContent
    <2>5. QED
      BY <2>1, <2>3, <2>4, SameStep
  <1>13. QED
    BY <1>1, <1>2, <1>3, <1>4, <1>5, <1>6, <1>7, <1>8, <1>9, <1>10, <1>11, <1>12 DEF Next

(* The ownership of snapshot ids (IInv) holds in every reachable state of   *)
(* the history and its background work.                                    *)
THEOREM HistoryInvariant == Spec => []IInv
  <1>1. IInv /\ [Next]_vars => IInv'
    BY StepInv
  <1>2. QED
    BY InitInv, <1>1, PTL DEF Spec

(* Types, and the bounds on both stacks together: recording, undo and redo  *)
(* never keep more steps than truncate_undo_to allows, nor more snapshots   *)
(* of a block than TEXT_UNDO_MAX_STEPS_PER_BLOCK, restores that fail        *)
(* included.                                                               *)
THEOREM HistoryTypeOK == Spec => []TypeOK
  <1>1. IInv => TypeOK
    <2> SUFFICES ASSUME IInv PROVE TypeOK
      OBVIOUS
    <2>1. /\ history \in [Directions -> Side]
          /\ Len(history["Undo"].steps) + Len(history["Redo"].steps) <= MaxSteps
          /\ history["Undo"].texts + history["Redo"].texts <= MaxTextSteps
      BY DEF IInv, GoodHistory, Sound, TextsBounded
    <2>2. /\ history.Undo = history["Undo"] /\ history.Redo = history["Redo"]
          /\ \A d \in Directions :
               /\ history[d].steps \in Seq(StepType) /\ history[d].events \in Seq(EventKind)
               /\ history[d].texts \in Nat
      BY <2>1, Sides
    <2>3. next_snapshot_id \in 1..MaxTransactions + 1
      BY Limits DEF IInv
    <2>4. Used(next_snapshot_id) \subseteq SnapshotIds
      BY DEF Used
    <2>5. spill.phase \in {"none", "writing", "stored", "failed"}
      BY DEF IInv, GoodSpill, NoSpill
    <2>6. hydration.phase \in {"none", "reading", "read", "failed"}
      BY DEF IInv, GoodHydration, NoHydration
    <2>7. cleanup.phase \in {"none", "deleting", "done"} /\ cleanup.ids \subseteq SnapshotIds
      BY <2>4 DEF IInv, GoodCleanup, NoCleanup
    <2>8. blobs \in [SnapshotIds -> SUBSET Transactions]
      BY DEF IInv, GoodStore
    <2>9. /\ late \subseteq [op : {"write", "delete"}, id : SnapshotIds]
          /\ orphaned_external_blobs \subseteq SnapshotIds
      BY <2>4 DEF IInv
    <2>10. QED
      BY <2>1, <2>2, <2>3, <2>5, <2>6, <2>7, <2>8, <2>9 DEF TypeOK, EventKind
  <1>2. QED
    BY HistoryInvariant, <1>1, PTL

(* Every RuntimeUndoEvent leads to an entry and every transaction of the    *)
(* UndoStack has its event, whatever is trimmed, merged or lost, and        *)
(* whichever of the calls of undo and redo fails.                          *)
THEOREM HistoryEventsMatch == Spec => []EventsMatchSteps
  <1>1. IInv => EventsMatchSteps
    BY DEF IInv, GoodHistory, Matched, EventsMatchSteps
  <1>2. QED
    BY HistoryInvariant, <1>1, PTL

(* A step in state Externalizing always has its spill: begin and complete   *)
(* or abort of an externalization pair up.                                 *)
THEOREM HistorySpillHasJob == Spec => []SpillHasJob
  <1>1. IInv => SpillHasJob
    <2> SUFFICES ASSUME IInv, NEW s \in Steps(history), s.payload = "Externalizing"
                 PROVE  spill # NoSpill /\ spill.id = s.id
      BY DEF SpillHasJob
    <2>1. GoodStep(s, next_snapshot_id, recorded, spill, blobs, Doomed)
      BY MemberGood, StepsMembers DEF IInv, GoodHistory
    <2>2. QED
      BY <2>1 DEF GoodStep, NoSpill
  <1>2. QED
    BY HistoryInvariant, <1>1, PTL

(* No cleanup, under way, queued or late, deletes the blob of a step that   *)
(* undo or redo can still reach.                                           *)
THEOREM HistoryDeletesSpare == Spec => []DeletesSpareHistory
  <1>1. IInv => DeletesSpareHistory
    <2> SUFFICES ASSUME IInv, NEW s \in Steps(history)
                 PROVE  s.id \notin Doomed
      BY DEF DeletesSpareHistory, Doomed, LateDeletes
    <2>1. GoodStep(s, next_snapshot_id, recorded, spill, blobs, Doomed)
      BY MemberGood, StepsMembers DEF IInv, GoodHistory
    <2>2. QED
      BY <2>1 DEF GoodStep
  <1>2. QED
    BY HistoryInvariant, <1>1, PTL

\* The content of every step, from wherever it is, is what was recorded.
ContentIsRecorded ==
    Contents(history.Undo) = UndoContent /\ Contents(history.Redo) = RedoContent

LEMMA ContentsRecorded == IInv => ContentIsRecorded
  <1> SUFFICES ASSUME IInv
               PROVE  Contents(history.Undo) = UndoContent /\ Contents(history.Redo) = RedoContent
    BY DEF ContentIsRecorded
  <1> DEFINE n == next_snapshot_id
  <1>1. /\ history \in [Directions -> Side]
        /\ Sound(history["Undo"].steps, history["Redo"].steps, n, recorded, spill, blobs, Doomed)
        /\ GoodSpill(spill, n, recorded)
    BY DEF IInv, GoodHistory
  <1>2. ASSUME NEW s, GoodStep(s, n, recorded, spill, blobs, Doomed)
        PROVE  Content(s) = Recorded(s, recorded)
    <2>1. s.payload \in {"InlineSmall", "BlockRangeSnapshot", "Externalizing", "ExternalBlob"}
      BY <1>2 DEF GoodStep, StepType
    <2>2. CASE s.payload = "InlineSmall"
      BY <2>2 DEF Content, InMemory, Recorded
    <2>3. CASE s.payload = "BlockRangeSnapshot"
      BY <1>2, <2>3 DEF GoodStep, Content, InMemory, Recorded
    <2>4. CASE s.payload = "Externalizing"
      <3>1. spill # NoSpill /\ spill.id = s.id
        BY <1>2, <2>4 DEF GoodStep, NoSpill
      <3>2. spill.txn = recorded[s.id]
        BY <1>1, <3>1 DEF GoodSpill
      <3>3. QED
        BY <2>4, <3>2 DEF Content, InMemory, Recorded
    <2>5. CASE s.payload = "ExternalBlob"
      BY <1>2, <2>5 DEF GoodStep, Content, InMemory, Recorded
    <2>6. QED
      BY <2>1, <2>2, <2>3, <2>4, <2>5
  <1>3. ASSUME NEW d \in Directions
        PROVE  Contents(history[d]) = RecordedSteps(history[d].steps, recorded)
    <2>1. history[d].steps \in Seq(StepType)
      BY <1>1, Sides
    <2>2. DOMAIN history[d].steps = 1..Len(history[d].steps)
      BY <2>1
    <2>3. \A i \in 1..Len(history[d].steps) :
            GoodStep(history[d].steps[i], n, recorded, spill, blobs, Doomed)
      BY <1>1 DEF Sound, Directions
    <2>4. \A i \in 1..Len(history[d].steps) :
            Content(history[d].steps[i]) = Recorded(history[d].steps[i], recorded)
      BY <1>2, <2>3
    <2>5. QED
      BY <2>2, <2>4 DEF Contents, RecordedSteps
  <1>4. history.Undo = history["Undo"] /\ history.Redo = history["Redo"]
    BY <1>1, Sides
  <1>5. QED
    BY <1>3, <1>4 DEF UndoContent, RedoContent, Directions

(* Undo and redo are two stacks of contents: no spill, failed write,        *)
(* hydration, late effect or cleanup changes what they hold or the order.  *)
THEOREM HistoryImplementsContract == Spec => ImplementsContract
  <1>1. Init => Contract!Init
    <2> SUFFICES ASSUME Init PROVE Contract!Init
      OBVIOUS
    <2>1. IInv
      BY InitInv
    <2>2. history["Undo"].steps = <<>> /\ history["Redo"].steps = <<>>
      BY DEF Init, EmptySide, Directions
    <2>3. UndoContent = <<>> /\ RedoContent = <<>>
      BY <2>2 DEF UndoContent, RedoContent, RecordedSteps
    <2>4. QED
      BY <2>1, <2>3, ContentsRecorded DEF Contract!Init, ContentIsRecorded
  <1>2. IInv' => ContentIsRecorded'
    BY ContentsRecorded, PTL
  <1>3. IInv /\ [Next]_vars => [Contract!Next]_(Contract!vars)
    <2> SUFFICES ASSUME IInv, [Next]_vars PROVE [Contract!Next]_(Contract!vars)
      OBVIOUS
    <2>1. IInv' /\ ContentStep
      BY StepInv
    <2>2. /\ Contents(history.Undo) = UndoContent /\ Contents(history.Redo) = RedoContent
          /\ Contents(history.Undo)' = UndoContent' /\ Contents(history.Redo)' = RedoContent'
      BY <1>2, <2>1, ContentsRecorded DEF ContentIsRecorded
    <2>3. StackStep(Contents(history.Undo), Contents(history.Redo),
                    Contents(history.Undo)', Contents(history.Redo)')
      BY <2>1, <2>2 DEF ContentStep
    <2>4. QED
      BY <2>3 DEF StackStep, Newest, Contract!Next, Contract!vars, Contract!Record, Contract!Join,
                  Contract!ForgetRedo, Contract!Undo, Contract!Redo, Contract!Newest
  <1>4. IInv /\ [Next]_vars => IInv'
    BY StepInv
  <1>5. QED
    BY InitInv, <1>1, <1>3, <1>4, PTL DEF Spec, ImplementsContract, Contract!Spec
=============================================================================
