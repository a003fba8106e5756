---------------------- MODULE EmergencyRecoveryProofs ----------------------
(****************************************************************************)
(* Proofs that recovery is exact: the invariants of the runs                *)
(* journal_session and journal_recovery, for any number of edits, failures  *)
(* and crashes.                                                             *)
(*                                                                          *)
(* The journal of an open document (the batch in flight followed by the     *)
(* pending transactions) is a line of transactions that apply one after     *)
(* another. The stored content has the first k of them, the rows still to   *)
(* recover are the next ones, and all together lead to the document.        *)
(* RecoveryInv states this for every phase of a save; replay then has to    *)
(* give what the rows lead to.                                              *)
(****************************************************************************)
EXTENDS EmergencyJournalProofs

\* The sessions in which recovery is exact: no undo of typing and none of
\* transactions, the document stays writable, and one of two storages: one
\* whose append matches the rows still to recover and whose timeout does not
\* strike after the commit, across any number of crashes; or one whose append
\* matches every retained row, within one session.
NoUndo == ~TextUndo /\ ~TransactionUndo /\ ~ReadonlyOpens
Recovering == ~MatchesRetained /\ ~LateFailures
OneSession == MatchesRetained /\ MaxCrashes = 0
Exact == NoUndo /\ (Recovering \/ OneSession)

\* The transactions of s after the first k apply one after another on d.
Line(s, k, d) ==
    \A i \in k + 1..Len(s) :
      /\ s[i].origin = "User"
      /\ s[i].requires \in {0, d.version + (i - k - 1)}
      /\ s[i].edit \notin d.edits
      /\ \A j \in k + 1..i - 1 : s[j].edit # s[i].edit

\* What they make of d, up to the m-th.
At(s, k, d, m) ==
    [version |-> d.version + (m - k), edits |-> d.edits \cup {s[i].edit : i \in k + 1..m}]

\* Identities in the order of the transactions, below the next one.
Increasing(s) ==
    \A i \in 1..Len(s) : \A j \in 1..Len(s) : i < j => s[i].id < s[j].id
Below(s, n) == \A i \in 1..Len(s) : s[i].id < n

Journal == batch.transactions \o pending
TransactionsOf(rows) == [i \in 1..Len(rows) |-> rows[i].transaction]
RowTransactions == TransactionsOf(RowsToRecover)
LogIds == {log[i].transaction.id : i \in 1..Len(log)}

\* What is still to be replayed leads from the stored content to durable.
Recoverable ==
    /\ Line(RowTransactions, 0, stored)
    /\ durable = At(RowTransactions, 0, stored, Len(RowTransactions))
    /\ Increasing(RowTransactions)

\* The journal of an open document, the first k transactions of which the
\* stored content has: it leads to the document, the rows to recover are the
\* next ones of it, and the batch ends somewhere after these.
JournalAt(k) ==
    /\ k <= Len(Journal)
    /\ Line(Journal, k, stored)
    /\ document = At(Journal, k, stored, Len(Journal))
    /\ Increasing(Journal) /\ Below(Journal, next_id)

RowsAt(k) ==
    /\ k + Len(RowTransactions) <= Len(Journal)
    /\ \A i \in 1..Len(RowTransactions) : RowTransactions[i] = Journal[k + i]
    /\ durable = At(Journal, k, stored, k + Len(RowTransactions))

BatchAt(k) ==
    LET b == Len(batch.transactions)
        n == Len(RowTransactions)
    IN  /\ phase = "none" => b = 0
        /\ phase # "none" => k + n <= b /\ batch.document = At(Journal, k, stored, b)
        /\ phase = "committing" => k + n = b
        /\ phase \in {"acking", "succeeded"} => k = b

\* The identities an append can meet in the log.
KnownAt(k) ==
    LET n == Len(RowTransactions)
    IN  /\ Recovering /\ phase \notin {"acking", "succeeded"} => k = 0
        /\ OneSession =>
             /\ \A id \in LogIds : id < next_id
             /\ \A i \in 1..Len(Journal) : i > k + n => Journal[i].id \notin LogIds
             /\ phase # "succeeded" =>
                  \A i \in 1..Len(Journal) : i <= k + n => Journal[i].id \in LogIds

OpenAt(k) == JournalAt(k) /\ RowsAt(k) /\ BatchAt(k) /\ KnownAt(k)

\* Every edit and every version is one of the changes made so far.
CountInv ==
    /\ readonly = FALSE /\ crashes \in Nat
    /\ stored.version >= 1
    /\ durable.edits \subseteq 1..changes /\ durable.version <= 1 + changes
    /\ state = "open" => document.edits \subseteq 1..changes /\ document.version <= 1 + changes

RecoveryInv ==
    /\ CountInv
    /\ state # "open" => Recovering /\ batch = NoBatch /\ Recoverable
    /\ state = "open" => \E k \in 0..Len(Journal) : OpenAt(k)
-----------------------------------------------------------------------------
(* Lines of transactions.                                                  *)

\* A line over the same transactions, counted from elsewhere, or over some
\* of the first of them.
LEMMA LineSame ==
  ASSUME NEW s, NEW t, NEW k \in Nat, NEW l \in Nat, NEW d,
         Len(s) \in Nat, Len(t) \in Nat, Len(t) - l <= Len(s) - k,
         \A i \in 1..Len(t) - l : t[l + i] = s[k + i],
         Line(s, k, d), d.version \in Nat
  PROVE  Line(t, l, d)
  <1> SUFFICES ASSUME NEW i \in l + 1..Len(t)
               PROVE  /\ t[i].origin = "User"
                      /\ t[i].requires \in {0, d.version + (i - l - 1)}
                      /\ t[i].edit \notin d.edits
                      /\ \A j \in l + 1..i - 1 : t[j].edit # t[i].edit
    BY DEF Line
  <1>1. PICK x : x = i - l
    OBVIOUS
  <1>2. x \in 1..Len(t) - l /\ l + x = i /\ k + x \in k + 1..Len(s) /\ k + x - k - 1 = i - l - 1
    BY <1>1
  <1>3. t[i] = s[k + x]
    BY <1>2
  <1>4. /\ s[k + x].origin = "User"
        /\ s[k + x].requires \in {0, d.version + (i - l - 1)}
        /\ s[k + x].edit \notin d.edits
        /\ \A j \in k + 1..k + x - 1 : s[j].edit # s[k + x].edit
    BY <1>2 DEF Line
  <1>5. ASSUME NEW j \in l + 1..i - 1
        PROVE  t[j].edit # t[i].edit
    <2>1. PICK y : y = j - l
      OBVIOUS
    <2>2. y \in 1..Len(t) - l /\ l + y = j /\ k + y \in k + 1..k + x - 1
      BY <1>1, <2>1
    <2>3. t[j] = s[k + y]
      BY <2>2
    <2>4. QED
      BY <1>3, <1>4, <2>2, <2>3
  <1>6. QED
    BY <1>3, <1>4, <1>5

Agree(s, k, t, l, n) == \A i \in 1..n : t[l + i] = s[k + i]

\* Equal transactions make the same of a document.
LEMMA AtSame ==
  ASSUME NEW s, NEW t, NEW k \in Nat, NEW l \in Nat, NEW d, NEW n \in Nat,
         Agree(s, k, t, l, n)
  PROVE  At(t, l, d, l + n) = At(s, k, d, k + n)
  <1> USE DEF Agree
  <1>1. (l + n) - l = (k + n) - k
    OBVIOUS
  <1>2. {t[i].edit : i \in l + 1..l + n} = {s[i].edit : i \in k + 1..k + n}
    <2>1. ASSUME NEW i \in l + 1..l + n
          PROVE  \E j \in k + 1..k + n : t[i].edit = s[j].edit
      <3>1. PICK x : x = i - l
        OBVIOUS
      <3>2. x \in 1..n /\ l + x = i /\ k + x \in k + 1..k + n
        BY <3>1
      <3>3. t[i] = s[k + x]
        BY <3>2
      <3>4. QED
        BY <3>2, <3>3
    <2>2. ASSUME NEW i \in k + 1..k + n
          PROVE  \E j \in l + 1..l + n : s[i].edit = t[j].edit
      <3>1. PICK x : x = i - k
        OBVIOUS
      <3>2. x \in 1..n /\ k + x = i /\ l + x \in l + 1..l + n
        BY <3>1
      <3>3. s[i] = t[l + x]
        BY <3>2
      <3>4. QED
        BY <3>2, <3>3
    <2>3. QED
      BY <2>1, <2>2
  <1>3. QED
    BY <1>1, <1>2 DEF At

\* The same, counted from the start.
LEMMA AtSameZero ==
  ASSUME NEW s, NEW t, NEW k \in Nat, NEW d, NEW n \in Nat, Agree(s, k, t, 0, n)
  PROVE  At(t, 0, d, n) = At(s, k, d, k + n)
  <1>1. 0 \in Nat /\ 0 + n = n
    OBVIOUS
  <1>2. At(t, 0, d, 0 + n) = At(s, k, d, k + n)
    BY ONLY k \in Nat, n \in Nat, <1>1, Agree(s, k, t, 0, n), AtSame
  <1>3. QED
    BY <1>1, <1>2

\* One more transaction.
LEMMA LineAppended ==
  ASSUME NEW s, NEW t, NEW k \in Nat, NEW d, Len(s) \in Nat, k <= Len(s),
         Len(t) = Len(s) + 1, \A i \in 1..Len(s) : t[i] = s[i],
         Line(s, k, d), d.version \in Nat,
         t[Len(s) + 1].origin = "User",
         t[Len(s) + 1].requires \in {0, d.version + (Len(s) - k)},
         t[Len(s) + 1].edit \notin At(s, k, d, Len(s)).edits
  PROVE  Line(t, k, d)
  <1>1. /\ t[Len(s) + 1].edit \notin d.edits
        /\ \A j \in k + 1..Len(s) : t[Len(s) + 1].edit # s[j].edit
    BY DEF At
  <1> SUFFICES ASSUME NEW i \in k + 1..Len(t)
               PROVE  /\ t[i].origin = "User"
                      /\ t[i].requires \in {0, d.version + (i - k - 1)}
                      /\ t[i].edit \notin d.edits
                      /\ \A j \in k + 1..i - 1 : t[j].edit # t[i].edit
    BY DEF Line
  <1>2. \A j \in k + 1..i - 1 : j \in k + 1..Len(s) /\ j \in 1..Len(s) /\ t[j] = s[j]
    OBVIOUS
  <1>3. CASE i \in k + 1..Len(s)
    <2>1. t[i] = s[i]
      BY <1>3
    <2>2. QED
      BY <1>2, <1>3, <2>1 DEF Line
  <1>4. CASE i = Len(s) + 1
    <2>1. i - k - 1 = Len(s) - k
      BY <1>4
    <2>2. QED
      BY <1>1, <1>2, <1>4, <2>1
  <1>5. QED
    BY <1>3, <1>4

\* What one more transaction makes.
LEMMA AtNext ==
  ASSUME NEW s, NEW k \in Nat, NEW m \in Nat, NEW d, k <= m, d.version \in Nat,
         s[m + 1].origin = "User"
  PROVE  At(s, k, d, m + 1) = Applied(At(s, k, d, m), s[m + 1])
  <1> DEFINE e == At(s, k, d, m)
             tx == s[m + 1]
  <1>1. {s[i].edit : i \in k + 1..m + 1} = {s[i].edit : i \in k + 1..m} \cup {tx.edit}
    <2>1. \A i : i \in k + 1..m + 1 <=> i \in k + 1..m \/ i = m + 1
      OBVIOUS
    <2>2. QED
      BY <2>1
  <1>2. d.version + ((m + 1) - k) = (d.version + (m - k)) + 1
    OBVIOUS
  <1>3. e.version = d.version + (m - k) /\ e.edits = d.edits \cup {s[i].edit : i \in k + 1..m}
    BY DEF At
  <1>4. tx.origin # "Undo"
    OBVIOUS
  <1> HIDE DEF e
  <1>5. Applied(e, tx) = [version |-> e.version + 1, edits |-> e.edits \cup {tx.edit}]
    BY <1>4 DEF Applied
  <1>6. At(s, k, d, m + 1)
          = [version |-> d.version + ((m + 1) - k),
             edits |-> d.edits \cup {s[i].edit : i \in k + 1..m + 1}]
    BY DEF At
  <1>7. d.edits \cup {s[i].edit : i \in k + 1..m + 1} = e.edits \cup {tx.edit}
    BY <1>1, <1>3
  <1>8. QED
    BY <1>2, <1>3, <1>5, <1>6, <1>7 DEF e

\* What has been stored is the start of the rest.
LEMMA LineFrom ==
  ASSUME NEW s, NEW k \in Nat, NEW b \in Nat, NEW d, Len(s) \in Nat,
         k <= b, b <= Len(s), Line(s, k, d), d.version \in Nat
  PROVE  Line(s, b, At(s, k, d, b))
  <1> DEFINE e == At(s, k, d, b)
  <1>1. e.version = d.version + (b - k) /\ e.edits = d.edits \cup {s[i].edit : i \in k + 1..b}
    BY DEF At
  <1> HIDE DEF e
  <1> SUFFICES ASSUME NEW i \in b + 1..Len(s)
               PROVE  /\ s[i].origin = "User"
                      /\ s[i].requires \in {0, e.version + (i - b - 1)}
                      /\ s[i].edit \notin e.edits
                      /\ \A j \in b + 1..i - 1 : s[j].edit # s[i].edit
    BY DEF Line, e
  <1>2. i \in k + 1..Len(s) /\ \A j \in k + 1..b : j \in k + 1..i - 1
    OBVIOUS
  <1>3. \A j \in b + 1..i - 1 : j \in k + 1..i - 1
    OBVIOUS
  <1>4. e.version + (i - b - 1) = d.version + (i - k - 1)
    BY <1>1
  <1>5. /\ s[i].origin = "User"
        /\ s[i].requires \in {0, d.version + (i - k - 1)}
        /\ s[i].edit \notin d.edits
        /\ \A j \in k + 1..i - 1 : s[j].edit # s[i].edit
    BY <1>2 DEF Line
  <1>6. QED
    BY <1>1, <1>2, <1>3, <1>4, <1>5

\* Taking some transactions and then the rest.
LEMMA AtFrom ==
  ASSUME NEW s, NEW k \in Nat, NEW b \in Nat, NEW m \in Nat, NEW d,
         k <= b, b <= m, d.version \in Nat
  PROVE  At(s, b, At(s, k, d, b), m) = At(s, k, d, m)
  <1>1. d.version + (b - k) + (m - b) = d.version + (m - k)
    OBVIOUS
  <1>2. \A i : i \in k + 1..m <=> i \in k + 1..b \/ i \in b + 1..m
    OBVIOUS
  <1>3. QED
    BY <1>1, <1>2 DEF At

\* Nothing taken, nothing changed.
LEMMA AtStart ==
  ASSUME NEW s, NEW k \in Nat, NEW d \in Document
  PROVE  At(s, k, d, k) = d
  <1>1. \A i : i \notin k + 1..k
    OBVIOUS
  <1>2. k - k = 0 /\ d.version + 0 = d.version
    BY DEF Document
  <1>3. At(s, k, d, k) = [version |-> d.version, edits |-> d.edits]
    BY <1>1, <1>2 DEF At
  <1>4. QED
    BY <1>3 DEF Document

\* More transactions, more edits.
LEMMA AtGrows ==
  ASSUME NEW s, NEW k \in Nat, NEW m \in Nat, NEW n \in Nat, NEW d, m <= n
  PROVE  At(s, k, d, m).edits \subseteq At(s, k, d, n).edits
  <1>1. \A i \in k + 1..m : i \in k + 1..n
    OBVIOUS
  <1>2. QED
    BY <1>1 DEF At

\* The next transaction of a line applies.
LEMMA LineApplicable ==
  ASSUME NEW s, NEW d, NEW m \in Nat, Len(s) \in Nat, m < Len(s),
         Line(s, 0, d), d.version \in Nat
  PROVE  Applicable(At(s, 0, d, m), s[m + 1]) /\ s[m + 1].origin = "User"
  <1> DEFINE e == At(s, 0, d, m)
  <1>1. e.version = d.version + (m - 0) /\ e.edits = d.edits \cup {s[i].edit : i \in 0 + 1..m}
    BY DEF At
  <1> HIDE DEF e
  <1>2. m + 1 \in 0 + 1..Len(s) /\ m + 1 - 0 - 1 = m /\ m + 1 - 1 = m /\ m - 0 = m
    OBVIOUS
  <1>3. /\ s[m + 1].origin = "User"
        /\ s[m + 1].requires \in {0, d.version + m}
        /\ s[m + 1].edit \notin d.edits
        /\ \A j \in 0 + 1..m : s[j].edit # s[m + 1].edit
    BY <1>2 DEF Line
  <1>4. s[m + 1].edit \notin e.edits /\ e.version = d.version + m
    BY <1>1, <1>2, <1>3
  <1>5. QED
    BY <1>3, <1>4 DEF Applicable, e

-----------------------------------------------------------------------------
(* Cold start on a line of rows.                                           *)

\* The transactions of rows, row by row.
LEMMA TransactionsOfType ==
  ASSUME NEW rows \in Seq(Row)
  PROVE  /\ TransactionsOf(rows) \in Seq(Transaction) /\ Len(TransactionsOf(rows)) = Len(rows)
         /\ \A i \in 1..Len(rows) : TransactionsOf(rows)[i] = rows[i].transaction
  <1>1. \A row \in Row : row.transaction \in Transaction
    BY DEF Row
  <1>2. Len(rows) \in Nat /\ \A i \in 1..Len(rows) : rows[i].transaction \in Transaction
    BY <1>1
  <1>3. TransactionsOf(rows) \in [1..Len(rows) -> Transaction]
    BY <1>2 DEF TransactionsOf
  <1>4. QED
    BY <1>2, <1>3 DEF TransactionsOf

\* The replay of a line succeeds and makes of the stored content what the line makes of it.
LEMMA ReplayLine ==
  ASSUME stored \in Document, NEW rows \in Seq(Row), Line(TransactionsOf(rows), 0, stored)
  PROVE  /\ Replayed(rows).ok
         /\ Replayed(rows).document = At(TransactionsOf(rows), 0, stored, Len(rows))
         /\ Replayed(rows).pending = TransactionsOf(rows)
         /\ Below(TransactionsOf(rows), Replayed(rows).next_id)
  <1>1. Len(rows) \in Nat /\ stored.version \in Nat
    BY DEF Document
  <1>2. PICK f : /\ Replayed(rows) = f[Len(rows)]
                 /\ f[0] = Loaded
                 /\ \A n \in 0..Len(rows) - 1 : f[n + 1] = ReplayRow(f[n], rows[n + 1])
    BY ONLY <1>1, ReplayFunction
  <1>3. PICK s : s = TransactionsOf(rows)
    OBVIOUS
  <1>4. s \in Seq(Transaction) /\ Len(s) = Len(rows) /\ \A i \in 1..Len(rows) : s[i] = rows[i].transaction
    BY <1>3, TransactionsOfType
  <1>5. PICK d : d = stored
    OBVIOUS
  <1>6. Line(s, 0, d) /\ d \in Document /\ d.version \in Nat /\ Len(s) \in Nat
    BY <1>1, <1>3, <1>4, <1>5
  <1> DEFINE P(n) == /\ f[n].ok /\ f[n].document = At(s, 0, d, n)
                     /\ f[n].pending \in Seq(Transaction) /\ Len(f[n].pending) = n
                     /\ \A i \in 1..n : f[n].pending[i] = s[i]
                     /\ f[n].next_id \in Nat \ {0}
                     /\ \A i \in 1..n : s[i].id < f[n].next_id
             S == {n \in Nat : n <= Len(rows) => P(n)}
  <1>7. 0 \in S
    <2>1. \A i \in 1..0 : FALSE
      OBVIOUS
    <2>2. At(s, 0, d, 0) = d
      BY <1>6, AtStart
    <2>3. Loaded.ok = TRUE /\ Loaded.document = d /\ Loaded.pending = <<>> /\ Loaded.next_id = 1
      BY <1>5 DEF Loaded
    <2>4. <<>> \in Seq(Transaction) /\ Len(<<>>) = 0 /\ 1 \in Nat \ {0}
      OBVIOUS
    <2>5. P(0)
      BY <1>2, <2>1, <2>2, <2>3, <2>4
    <2>6. QED
      BY <2>5
  <1>8. ASSUME NEW n \in Nat, n \in S
        PROVE  n + 1 \in S
    <2> SUFFICES ASSUME n + 1 <= Len(rows) PROVE P(n + 1)
      OBVIOUS
    <2>1. n <= Len(rows) /\ n \in 0..Len(rows) - 1 /\ n + 1 \in 1..Len(rows) /\ n < Len(s)
      BY <1>4
    <2>2. P(n)
      BY <1>8, <2>1
    <2>3. PICK r : r = f[n]
      OBVIOUS
    <2>4. PICK tx : tx = s[n + 1]
      OBVIOUS
    <2>5. tx \in Transaction /\ rows[n + 1].transaction = tx
      BY <1>4, <2>1, <2>4
    <2>6. Applicable(At(s, 0, d, n), s[n + 1]) /\ s[n + 1].origin = "User"
      BY ONLY <1>6, <2>1, n \in Nat, LineApplicable
    <2>7. At(s, 0, d, n + 1) = Applied(At(s, 0, d, n), s[n + 1])
      <3>1. 0 <= n /\ 0 \in Nat
        OBVIOUS
      <3>2. QED
        BY ONLY <1>6, <2>6, <3>1, n \in Nat, AtNext
    <2>8. r.ok /\ Applicable(r.document, tx)
      BY <2>2, <2>3, <2>4, <2>6
    <2>9. f[n + 1] = [ok |-> TRUE,
              document |-> Applied(r.document, tx),
              pending |-> Append(r.pending, tx),
              undo |-> RecordUndo(r.undo, tx),
              next_id |-> NextIdAfter(r.next_id, tx)]
      BY <1>2, <2>1, <2>3, <2>5, <2>8 DEF ReplayRow
    <2>10. PICK q : q = f[n + 1]
      OBVIOUS
    <2>11. /\ q.ok = TRUE /\ q.document = Applied(r.document, tx)
           /\ q.pending = Append(r.pending, tx) /\ q.next_id = NextIdAfter(r.next_id, tx)
      BY ONLY <2>9, <2>10
    <2>12. /\ r.document = At(s, 0, d, n) /\ r.pending \in Seq(Transaction) /\ Len(r.pending) = n
           /\ (\A i \in 1..n : r.pending[i] = s[i])
           /\ r.next_id \in Nat \ {0} /\ (\A i \in 1..n : s[i].id < r.next_id)
      BY <2>2, <2>3
    <2>13. q.document = At(s, 0, d, n + 1)
      BY ONLY <2>4, <2>7, <2>11, <2>12
    <2>14. \A i \in 1..n + 1 : i \in 1..n \/ i = n + 1
      OBVIOUS
    <2>15. /\ q.pending \in Seq(Transaction) /\ Len(q.pending) = n + 1
           /\ \A i \in 1..n + 1 : q.pending[i] = s[i]
      <3>1. /\ q.pending \in Seq(Transaction) /\ Len(q.pending) = n + 1
            /\ (\A i \in 1..n : q.pending[i] = r.pending[i]) /\ q.pending[n + 1] = tx
        <4>1. PICK p : p = r.pending
          OBVIOUS
        <4>2. p \in Seq(Transaction) /\ Len(p) = n
          BY ONLY <2>12, <4>1
        <4>3. /\ Append(p, tx) \in Seq(Transaction) /\ Len(Append(p, tx)) = n + 1
              /\ \A i \in 1..n : Append(p, tx)[i] = p[i]
              /\ Append(p, tx)[n + 1] = tx
          BY ONLY <2>5, <4>2, Appended
        <4>4. QED
          BY ONLY <2>11, <4>1, <4>3
      <3>2. QED
        BY ONLY <2>4, <2>12, <2>14, <3>1
    <2>16. q.next_id \in Nat \ {0} /\ q.next_id >= r.next_id /\ q.next_id > tx.id
      BY ONLY <2>5, <2>11, <2>12, NextIdType
    <2>17. \A i \in 1..n + 1 : s[i].id < q.next_id
      <3>1. \A t \in Transaction : t.id \in Nat
        BY DEF Transaction
      <3>2. \A i \in 1..n : s[i].id \in Nat
        BY <1>4, <2>1, <3>1
      <3>3. tx.id \in Nat
        BY <2>5, <3>1
      <3>4. QED
        BY ONLY <2>4, <2>12, <2>14, <2>16, <3>2, <3>3
    <2>18. QED
      BY ONLY <2>10, <2>11, <2>13, <2>15, <2>16, <2>17
  <1> HIDE DEF S
  <1>9. \A n \in Nat : n \in S
    BY <1>7, <1>8, NumberInduction
  <1>10. P(Len(rows))
    BY <1>1, <1>9 DEF S
  <1>11. f[Len(rows)].pending = s
    <2>1. PICK p : p = f[Len(rows)].pending
      OBVIOUS
    <2>2. p \in Seq(Transaction) /\ Len(p) = Len(s) /\ \A i \in 1..Len(p) : p[i] = s[i]
      BY <1>4, <1>10, <2>1
    <2>3. p = s
      BY ONLY <1>4, <2>2, SeqEqual
    <2>4. QED
      BY <2>1, <2>3
  <1>12. Below(s, f[Len(rows)].next_id)
    BY <1>4, <1>10 DEF Below
  <1>13. QED
    BY <1>2, <1>3, <1>5, <1>10, <1>11, <1>12
-----------------------------------------------------------------------------
(* The steps of the journal.                                               *)

\* The first m transactions decide what they make.
LEMMA AtPrefix ==
  ASSUME NEW s, NEW t, NEW k \in Nat, NEW m \in Nat, NEW d, k <= m,
         \A i \in 1..m : t[i] = s[i]
  PROVE  At(t, k, d, m) = At(s, k, d, m)
  <1>1. PICK n : n = m - k
    OBVIOUS
  <1>2. n \in Nat /\ k + n = m /\ \A i \in 1..n : k + i \in 1..m
    BY <1>1
  <1>3. Agree(s, k, t, k, n)
    BY <1>2 DEF Agree
  <1>4. At(t, k, d, k + n) = At(s, k, d, k + n)
    BY ONLY k \in Nat, <1>2, <1>3, AtSame
  <1>5. QED
    BY <1>2, <1>4

\* The journal is a sequence of transactions: the batch, then the pending ones.
LEMMA JournalType ==
  ASSUME JournalInv
  PROVE  /\ batch.transactions \in Seq(Transaction) /\ pending \in Seq(Transaction)
         /\ Journal \in Seq(Transaction) /\ Len(batch.transactions) \in Nat
         /\ Len(Journal) \in Nat /\ Len(Journal) = Len(batch.transactions) + Len(pending)
         /\ (\A i \in 1..Len(batch.transactions) : Journal[i] = batch.transactions[i])
         /\ (\A i \in 1..Len(pending) : Journal[Len(batch.transactions) + i] = pending[i])
  <1>1. batch.transactions \in Seq(Transaction) /\ pending \in Seq(Transaction)
    BY DEF JournalInv, TypeInv, SaveTypes, Batch, EditTypes
  <1>2. PICK a : a = batch.transactions
    OBVIOUS
  <1>3. PICK b : b = pending
    OBVIOUS
  <1>4. a \in Seq(Transaction) /\ b \in Seq(Transaction) /\ Journal = a \o b
    BY <1>1, <1>2, <1>3 DEF Journal
  <1>5. Len(a) \in Nat /\ Len(b) \in Nat
    BY <1>4
  <1>6. /\ a \o b \in Seq(Transaction) /\ Len(a \o b) = Len(a) + Len(b)
        /\ \A i \in 1..Len(a) + Len(b) : (a \o b)[i] = IF i <= Len(a) THEN a[i] ELSE b[i - Len(a)]
    BY ONLY <1>4, ConcatProperties
  <1>7. \A i \in 1..Len(a) : (a \o b)[i] = a[i]
    BY ONLY <1>5, <1>6
  <1>8. ASSUME NEW i \in 1..Len(b)
        PROVE  (a \o b)[Len(a) + i] = b[i]
    <2>1. Len(a) + i \in 1..Len(a) + Len(b) /\ ~(Len(a) + i <= Len(a)) /\ (Len(a) + i) - Len(a) = i
      BY <1>5
    <2>2. QED
      BY <1>6, <2>1
  <1>9. QED
    BY <1>1, <1>2, <1>3, <1>4, <1>5, <1>6, <1>7, <1>8

\* So are the rows to recover.
LEMMA RowTransactionsType ==
  ASSUME JournalInv
  PROVE  /\ stored \in Document /\ stored.version \in Nat /\ log \in Seq(Row)
         /\ RowsToRecover \in Seq(Row) /\ RowTransactions \in Seq(Transaction)
         /\ Len(RowTransactions) = Len(RowsToRecover) /\ Len(RowTransactions) \in Nat
  <1>1. stored \in Document /\ log \in Seq(Row)
    BY DEF JournalInv, TypeInv, StorageTypes
  <1>2. RowsToRecover \in Seq(Row)
    BY <1>1, RowsToRecoverType
  <1>3. PICK rows : rows = RowsToRecover
    OBVIOUS
  <1>4. TransactionsOf(rows) \in Seq(Transaction) /\ Len(TransactionsOf(rows)) = Len(rows)
    BY <1>2, <1>3, TransactionsOfType
  <1>5. stored.version \in Nat
    BY <1>1 DEF Document
  <1>6. QED
    BY <1>1, <1>2, <1>3, <1>4, <1>5 DEF RowTransactions

\* The rows to recover depend on the log only.
LEMMA RowsFrame ==
  ASSUME log' = log
  PROVE  RowTransactions' = RowTransactions /\ LogIds' = LogIds /\ RowsToRecover' = RowsToRecover
  BY DEF RowTransactions, RowsToRecover, LogIds

\* What the log holds of the open document's journal can be recovered.
LEMMA OpenRecoverable ==
  ASSUME JournalInv, NEW k \in Nat, OpenAt(k)
  PROVE  Recoverable
  <1>1. /\ Journal \in Seq(Transaction) /\ Len(Journal) \in Nat
        /\ stored.version \in Nat /\ Len(RowTransactions) \in Nat
    BY JournalType, RowTransactionsType
  <1>2. PICK s : s = Journal
    OBVIOUS
  <1>3. PICK t : t = RowTransactions
    OBVIOUS
  <1>4. PICK d : d = stored
    OBVIOUS
  <1>5. /\ Len(s) \in Nat /\ Len(t) \in Nat /\ d.version \in Nat
        /\ k + Len(t) <= Len(s) /\ (\A i \in 1..Len(t) : t[i] = s[k + i])
        /\ Line(s, k, d) /\ Increasing(s) /\ durable = At(s, k, d, k + Len(t))
    BY <1>1, <1>2, <1>3, <1>4 DEF OpenAt, JournalAt, RowsAt
  <1>6. /\ 0 \in Nat /\ Len(t) - 0 <= Len(s) - k /\ 1..Len(t) - 0 = 1..Len(t)
        /\ 0 + Len(t) = Len(t) /\ \A i \in 1..Len(t) : 0 + i = i
    BY <1>5
  <1>7. \A i \in 1..Len(t) - 0 : t[0 + i] = s[k + i]
    BY <1>5, <1>6
  <1>8. Line(t, 0, d)
    BY ONLY k \in Nat, <1>5, <1>6, <1>7, LineSame
  <1>9. At(t, 0, d, 0 + Len(t)) = At(s, k, d, k + Len(t))
    <2>1. Agree(s, k, t, 0, Len(t))
      BY <1>6, <1>7 DEF Agree
    <2>2. Len(t) \in Nat
      BY <1>5
    <2>3. At(t, 0, d, Len(t)) = At(s, k, d, k + Len(t))
      BY ONLY k \in Nat, <2>1, <2>2, AtSameZero
    <2>4. QED
      BY <1>6, <2>3
  <1>10. Increasing(t)
    <2>1. \A i \in 1..Len(t) : k + i \in 1..Len(s) /\ t[i] = s[k + i]
      BY <1>5
    <2>2. \A i, j \in 1..Len(t) : i < j => k + i < k + j
      BY <1>5
    <2>3. QED
      BY <1>5, <2>1, <2>2 DEF Increasing
  <1>11. QED
    BY <1>3, <1>4, <1>5, <1>6, <1>8, <1>9, <1>10 DEF Recoverable

\* One more edit.
LEMMA EditStep ==
  ASSUME JournalInv, RecoveryInv, CanEdit, NEW tx \in Transaction,
         UNCHANGED <<sessionVars, saveVars, storageVars, crashes>>,
         tx.id = next_id, tx.origin = "User", tx.edit = changes + 1,
         tx.requires \in {0, document.version},
         document' = Applied(document, tx), pending' = Append(pending, tx),
         next_id' = next_id + 1, changes' = changes + 1
  PROVE  RecoveryInv'
  <1>1. state = "open" /\ CountInv /\ \E k \in 0..Len(Journal) : OpenAt(k)
    BY DEF RecoveryInv, CanEdit
  <1>2. PICK k \in 0..Len(Journal) : OpenAt(k)
    BY <1>1
  <1>3. PICK s : s = Journal
    OBVIOUS
  <1>4. PICK g : g = Journal'
    OBVIOUS
  <1>5. PICK d : d = stored
    OBVIOUS
  <1>6. PICK n : n = Len(RowTransactions)
    OBVIOUS
  <1>7. /\ s \in Seq(Transaction) /\ Len(s) \in Nat /\ n \in Nat /\ d.version \in Nat
        /\ pending \in Seq(Transaction) /\ batch.transactions \in Seq(Transaction)
        /\ Len(batch.transactions) \in Nat
        /\ k \in Nat /\ next_id \in Nat /\ changes \in Nat /\ document \in Document
    <2>1. next_id \in Nat /\ changes \in Nat /\ document \in Document
      BY JournalAssumption DEF JournalInv, TypeInv, EditTypes
    <2>2. s \in Seq(Transaction) /\ Len(s) \in Nat /\ pending \in Seq(Transaction)
          /\ batch.transactions \in Seq(Transaction) /\ Len(batch.transactions) \in Nat
      BY <1>3, JournalType
    <2>3. n \in Nat /\ d.version \in Nat
      BY <1>5, <1>6, RowTransactionsType
    <2>4. k \in Nat
      BY <1>2, <1>3, <2>2
    <2>5. QED
      BY <2>1, <2>2, <2>3, <2>4
  <1>8. /\ g \in Seq(Transaction) /\ Len(g) = Len(s) + 1
        /\ (\A i \in 1..Len(s) : g[i] = s[i]) /\ g[Len(s) + 1] = tx
    <2>1. PICK a : a = batch.transactions
      OBVIOUS
    <2>2. PICK b : b = pending
      OBVIOUS
    <2>3. a \in Seq(Transaction) /\ b \in Seq(Transaction) /\ s = a \o b
      BY <1>3, <1>7, <2>1, <2>2 DEF Journal
    <2>4. g = a \o Append(b, tx)
      BY <1>4, <2>1, <2>2 DEF Journal, saveVars
    <2>5. g = Append(s, tx)
      BY ONLY <2>3, <2>4, tx \in Transaction
    <2>6. QED
      BY ONLY <1>7, <2>5, tx \in Transaction, Appended
  <1>9. /\ k <= Len(s) /\ Line(s, k, d) /\ document = At(s, k, d, Len(s))
        /\ Increasing(s) /\ Below(s, next_id)
    BY <1>2, <1>3, <1>5 DEF OpenAt, JournalAt
  <1>10. /\ document.edits \subseteq 1..changes /\ document.version <= 1 + changes
         /\ durable.edits \subseteq 1..changes /\ durable.version <= 1 + changes
         /\ readonly = FALSE /\ crashes \in Nat /\ stored.version >= 1
    BY <1>1 DEF CountInv
  <1>11. tx.edit \notin document.edits
    <2>1. changes + 1 \notin 1..changes
      BY <1>7
    <2>2. QED
      BY <1>10, <2>1
  <1>12. Line(g, k, d)
    <2>1. document.version = d.version + (Len(s) - k)
      BY <1>9 DEF At
    <2>2. /\ g[Len(s) + 1].origin = "User"
          /\ g[Len(s) + 1].requires \in {0, d.version + (Len(s) - k)}
          /\ g[Len(s) + 1].edit \notin At(s, k, d, Len(s)).edits
      BY <1>8, <1>9, <1>11, <2>1
    <2>3. QED
      BY ONLY <1>7, <1>8, <1>9, <2>2, LineAppended
  <1>13. \A m \in Nat : k <= m /\ m <= Len(s) => At(g, k, d, m) = At(s, k, d, m)
    <2> SUFFICES ASSUME NEW m \in Nat, k <= m, m <= Len(s)
                 PROVE  At(g, k, d, m) = At(s, k, d, m)
      OBVIOUS
    <2>1. \A i \in 1..m : g[i] = s[i]
      BY <1>7, <1>8
    <2>2. QED
      BY ONLY <1>7, m \in Nat, k <= m, <2>1, AtPrefix
  <1>14. At(g, k, d, Len(s) + 1) = document'
    <2>1. At(g, k, d, Len(s) + 1) = Applied(At(g, k, d, Len(s)), g[Len(s) + 1])
      <3>1. g[Len(s) + 1].origin = "User"
        BY <1>8
      <3>2. QED
        BY ONLY <1>7, <1>9, <3>1, AtNext
    <2>2. At(g, k, d, Len(s)) = document
      BY <1>7, <1>9, <1>13
    <2>3. QED
      BY <1>8, <2>1, <2>2
  <1>15. \A i \in 1..Len(s) + 1 : i \in 1..Len(s) \/ i = Len(s) + 1
    BY <1>7
  <1>16. \A i \in 1..Len(s) : s[i].id \in Nat
    <2>1. \A t \in Transaction : t.id \in Nat
      BY DEF Transaction
    <2>2. QED
      BY <1>7, <2>1
  <1>17. Increasing(g) /\ Below(g, next_id + 1)
    <2>1. \A i \in 1..Len(s) : g[i].id < next_id /\ g[i].id \in Nat
      BY <1>8, <1>9, <1>16 DEF Below
    <2>2. Below(g, next_id + 1)
      BY <1>7, <1>8, <1>15, <2>1 DEF Below
    <2>3. ASSUME NEW i \in 1..Len(g), NEW j \in 1..Len(g), i < j
          PROVE  g[i].id < g[j].id
      <3>1. i \in 1..Len(s)
        BY <1>7, <1>8, <2>3
      <3>2. CASE j \in 1..Len(s)
        BY <1>8, <1>9, <2>3, <3>1, <3>2 DEF Increasing
      <3>3. CASE j = Len(s) + 1
        BY <1>8, <2>1, <3>1, <3>3
      <3>4. QED
        BY <1>8, <1>15, <3>2, <3>3
    <2>4. QED
      BY <2>2, <2>3 DEF Increasing
  <1>18. RowTransactions' = RowTransactions /\ LogIds' = LogIds
    BY RowsFrame DEF storageVars
  <1>19. JournalAt(k)'
    BY <1>4, <1>5, <1>7, <1>8, <1>9, <1>12, <1>14, <1>17 DEF JournalAt, storageVars
  <1>20. k + n <= Len(s) /\ (\A i \in 1..n : RowTransactions[i] = s[k + i])
         /\ durable = At(s, k, d, k + n)
    BY <1>2, <1>3, <1>5, <1>6 DEF OpenAt, RowsAt
  <1>21. RowsAt(k)'
    <2>1. k + n <= Len(g) /\ \A i \in 1..n : k + i \in 1..Len(s)
      BY <1>7, <1>8, <1>20
    <2>2. \A i \in 1..n : RowTransactions[i] = g[k + i]
      BY <1>8, <1>20, <2>1
    <2>3. At(g, k, d, k + n) = At(s, k, d, k + n)
      BY <1>7, <1>13, <1>20
    <2>4. QED
      BY <1>4, <1>5, <1>6, <1>18, <1>20, <2>1, <2>2, <2>3 DEF RowsAt, storageVars
  <1>22. BatchAt(k)'
    <2>1. PICK b : b = Len(batch.transactions)
      OBVIOUS
    <2>2. /\ phase = "none" => b = 0
          /\ phase # "none" => k + n <= b /\ batch.document = At(s, k, d, b)
          /\ phase = "committing" => k + n = b
          /\ phase \in {"acking", "succeeded"} => k = b
      BY <1>2, <1>3, <1>5, <1>6, <2>1 DEF OpenAt, BatchAt
    <2>3. b \in Nat /\ b <= Len(s)
      BY <1>3, <2>1, JournalType
    <2>4. k + n <= b => At(g, k, d, b) = At(s, k, d, b)
      BY <1>7, <1>13, <2>3
    <2>5. QED
      BY <1>4, <1>5, <1>6, <1>18, <2>1, <2>2, <2>4 DEF BatchAt, saveVars, storageVars
  <1>23. KnownAt(k)'
    <2>1. /\ Recovering /\ phase \notin {"acking", "succeeded"} => k = 0
          /\ OneSession =>
               /\ \A id \in LogIds : id < next_id
               /\ \A i \in 1..Len(s) : i > k + n => s[i].id \notin LogIds
               /\ phase # "succeeded" => \A i \in 1..Len(s) : i <= k + n => s[i].id \in LogIds
      BY <1>2, <1>3, <1>6 DEF OpenAt, KnownAt
    <2>2. ASSUME OneSession
          PROVE  /\ \A id \in LogIds : id < next_id + 1
                 /\ \A i \in 1..Len(g) : i > k + n => g[i].id \notin LogIds
                 /\ phase # "succeeded" => \A i \in 1..Len(g) : i <= k + n => g[i].id \in LogIds
      <3>1. \A id \in LogIds : id \in Nat /\ id < next_id
        <4>1. \A row \in Row : row.transaction.id \in Nat
          BY DEF Row, Transaction
        <4>2. \A id \in LogIds : id \in Nat
          BY <4>1, RowTransactionsType DEF LogIds
        <4>3. QED
          BY <2>1, <2>2, <4>2
      <3>2. \A id \in LogIds : id < next_id + 1 /\ id # next_id
        BY <1>7, <3>1
      <3>3. g[Len(s) + 1].id \notin LogIds
        BY <1>8, <3>2
      <3>4. \A i \in 1..Len(g) : i > k + n => g[i].id \notin LogIds
        BY <1>8, <1>15, <2>1, <2>2, <3>3
      <3>5. \A i \in 1..Len(g) : i <= k + n => i \in 1..Len(s)
        BY <1>7, <1>8, <1>20
      <3>6. phase # "succeeded" => \A i \in 1..Len(g) : i <= k + n => g[i].id \in LogIds
        BY <1>8, <2>1, <2>2, <3>5
      <3>7. QED
        BY <3>2, <3>4, <3>6
    <2>3. QED
      BY <1>4, <1>6, <1>18, <2>1, <2>2 DEF KnownAt, saveVars
  <1>24. CountInv'
    <2>1. /\ document'.version = document.version + 1
          /\ document'.edits = document.edits \cup {tx.edit}
      BY DEF Applied
    <2>2. document.version \in Nat /\ durable.version \in Nat
      BY DEF JournalInv, TypeInv, EditTypes, StorageTypes, Document
    <2>3. \A x \in 1..changes : x \in 1..changes + 1
      BY <1>7
    <2>4. changes + 1 \in 1..changes + 1
      BY <1>7
    <2>5. document'.edits \subseteq 1..changes + 1 /\ durable.edits \subseteq 1..changes + 1
      BY <1>10, <2>1, <2>3, <2>4
    <2>6. document'.version <= 1 + (changes + 1) /\ durable.version <= 1 + (changes + 1)
      BY <1>7, <1>10, <2>1, <2>2
    <2>7. QED
      BY <1>10, <2>5, <2>6 DEF CountInv, sessionVars, storageVars
  <1>25. OpenAt(k)' /\ k \in 0..Len(Journal')
    BY <1>4, <1>7, <1>8, <1>9, <1>19, <1>21, <1>22, <1>23 DEF OpenAt
  <1>26. QED
    BY <1>1, <1>24, <1>25 DEF RecoveryInv, sessionVars
\* Steps of a save that leave the journal as a whole, and storage, alone.
LEMMA SameJournal ==
  ASSUME NEW k \in Nat, OpenAt(k), Journal' = Journal,
         UNCHANGED <<document, next_id, storageVars>>,
         phase # "succeeded", phase' # "succeeded", Recovering => k = 0
  PROVE  JournalAt(k)' /\ RowsAt(k)' /\ KnownAt(k)' /\ RowTransactions' = RowTransactions
  <1>1. RowTransactions' = RowTransactions /\ LogIds' = LogIds
    BY RowsFrame DEF storageVars
  <1>2. stored' = stored /\ durable' = durable
    BY DEF storageVars
  <1>3. JournalAt(k)'
    BY <1>2 DEF OpenAt, JournalAt
  <1>4. RowsAt(k)'
    BY <1>1, <1>2 DEF OpenAt, RowsAt
  <1>5. KnownAt(k)'
    BY <1>1 DEF OpenAt, KnownAt
  <1>6. QED
    BY <1>1, <1>3, <1>4, <1>5

\* CountInv speaks of these variables only.
LEMMA SameCounts ==
  ASSUME CountInv, UNCHANGED <<state, readonly, stored, durable, document, changes, crashes>>
  PROVE  CountInv'
  BY DEF CountInv

\* A capture moves the pending transactions into the batch.
LEMMA CaptureStep ==
  ASSUME JournalInv, RecoveryInv, Capture
  PROVE  RecoveryInv'
  <1>1. state = "open" /\ CountInv /\ \E k \in 0..Len(Journal) : OpenAt(k)
    BY DEF RecoveryInv, Capture
  <1>2. PICK k \in 0..Len(Journal) : OpenAt(k)
    BY <1>1
  <1>3. Len(Journal) \in Nat /\ k \in Nat /\ pending \in Seq(Transaction)
        /\ batch.transactions \in Seq(Transaction) /\ Len(RowTransactions) \in Nat
    BY <1>2, JournalType, RowTransactionsType
  <1>4. Journal = pending /\ Journal' = pending
    <2>1. Len(batch.transactions) = 0
      BY <1>2 DEF OpenAt, BatchAt, Capture
    <2>2. batch.transactions = <<>>
      BY <1>3, <2>1
    <2>3. batch'.transactions = pending /\ pending' = <<>>
      BY DEF Capture
    <2>4. QED
      BY <1>3, <2>2, <2>3 DEF Journal
  <1>5. Recovering => k = 0
    BY <1>2 DEF OpenAt, KnownAt, Capture
  <1>6. phase # "succeeded" /\ phase' # "succeeded" /\ phase' \in {"appending", "committing"}
    BY DEF Capture
  <1>7. UNCHANGED <<document, next_id, storageVars>>
    BY DEF Capture
  <1>8. JournalAt(k)' /\ RowsAt(k)' /\ KnownAt(k)' /\ RowTransactions' = RowTransactions
    BY <1>2, <1>3, <1>4, <1>5, <1>6, <1>7, SameJournal
  <1>9. BatchAt(k)'
    <2>1. PICK n : n = Len(RowTransactions)
      OBVIOUS
    <2>2. k + n <= Len(pending) /\ n \in Nat /\ Len(pending) \in Nat
      BY <1>2, <1>3, <1>4, <2>1 DEF OpenAt, RowsAt
    <2>3. document = At(pending, k, stored, Len(pending))
      BY <1>2, <1>4 DEF OpenAt, JournalAt
    <2>4. phase' = "committing" => Len(pending) = 0
      BY DEF Capture
    <2>5. phase' = "committing" => k + n = Len(pending)
      BY <1>3, <2>2, <2>4
    <2>6. batch'.transactions = pending /\ batch'.document = document /\ stored' = stored
      BY DEF Capture, storageVars
    <2>7. QED
      BY <1>4, <1>6, <1>8, <2>1, <2>2, <2>3, <2>5, <2>6 DEF BatchAt
  <1>10. CountInv'
    BY <1>1, SameCounts DEF Capture, sessionVars, storageVars
  <1>11. OpenAt(k)' /\ k \in 0..Len(Journal')
    BY <1>2, <1>4, <1>8, <1>9 DEF OpenAt
  <1>12. QED
    BY <1>1, <1>10, <1>11 DEF RecoveryInv, Capture, sessionVars

\* A failed save leaves its batch to be put back.
LEMMA SaveFailsStep ==
  ASSUME Exact, JournalInv, RecoveryInv, SaveFails
  PROVE  RecoveryInv'
  <1>1. state = "open"
    BY DEF JournalInv, CleanInv, SaveFails
  <1>2. PICK k \in 0..Len(Journal) : OpenAt(k)
    BY <1>1 DEF RecoveryInv
  <1>3. Len(Journal) \in Nat /\ k \in Nat
    BY <1>2, JournalType
  <1>4. Journal' = Journal
    BY DEF SaveFails, Journal, editVars
  <1>5. Recovering => k = 0
    BY <1>2 DEF OpenAt, KnownAt, SaveFails, Recovering
  <1>6. phase # "succeeded" /\ phase' = "failed" /\ phase # "none"
    BY DEF SaveFails
  <1>7. UNCHANGED <<document, next_id, storageVars>> /\ phase' # "succeeded"
    BY <1>6 DEF SaveFails, editVars
  <1>8. JournalAt(k)' /\ RowsAt(k)' /\ KnownAt(k)' /\ RowTransactions' = RowTransactions
    BY <1>2, <1>3, <1>4, <1>5, <1>6, <1>7, SameJournal
  <1>9. BatchAt(k)'
    BY <1>2, <1>4, <1>6, <1>8 DEF OpenAt, BatchAt, SaveFails, storageVars
  <1>10. CountInv'
    BY SameCounts DEF RecoveryInv, SaveFails, sessionVars, storageVars, editVars
  <1>11. OpenAt(k)' /\ k \in 0..Len(Journal')
    BY <1>2, <1>4, <1>8, <1>9 DEF OpenAt
  <1>12. QED
    BY <1>1, <1>10, <1>11 DEF RecoveryInv, SaveFails, sessionVars

\* The parts of the empty batch.
LEMMA NoBatchParts ==
  NoBatch.transactions = <<>> /\ Len(<<>>) = 0
  BY DEF NoBatch

\* Putting the batch back in front leaves the journal as it was.
LEMMA ApplyFailureStep ==
  ASSUME JournalInv, RecoveryInv, ApplyFailure
  PROVE  RecoveryInv'
  <1>1. state = "open"
    BY DEF JournalInv, CleanInv, ApplyFailure
  <1>2. PICK k \in 0..Len(Journal) : OpenAt(k)
    BY <1>1 DEF RecoveryInv
  <1>3. Len(Journal) \in Nat /\ k \in Nat /\ Journal \in Seq(Transaction)
    BY <1>2, JournalType
  <1>4. Journal' = Journal /\ batch'.transactions = <<>>
    <2>1. batch'.transactions = <<>> /\ pending' = Journal
      BY NoBatchParts DEF ApplyFailure, Restored, Journal
    <2>2. Journal' = <<>> \o Journal
      BY <2>1 DEF Journal
    <2>3. QED
      BY <1>3, <2>1, <2>2
  <1>5. Recovering => k = 0
    BY <1>2 DEF OpenAt, KnownAt, ApplyFailure
  <1>6. phase # "succeeded" /\ phase' = "none"
    BY DEF ApplyFailure
  <1>7. UNCHANGED <<document, next_id, storageVars>> /\ phase' # "succeeded"
    BY <1>6 DEF ApplyFailure
  <1>8. JournalAt(k)' /\ RowsAt(k)' /\ KnownAt(k)' /\ RowTransactions' = RowTransactions
    BY <1>2, <1>3, <1>4, <1>5, <1>6, <1>7, SameJournal
  <1>9. BatchAt(k)'
    BY <1>4, <1>6, NoBatchParts DEF BatchAt
  <1>10. CountInv'
    BY SameCounts DEF RecoveryInv, ApplyFailure, sessionVars, storageVars
  <1>11. OpenAt(k)' /\ k \in 0..Len(Journal')
    BY <1>2, <1>4, <1>8, <1>9 DEF OpenAt
  <1>12. QED
    BY <1>1, <1>10, <1>11 DEF RecoveryInv, ApplyFailure, sessionVars

\* A successful save leaves the newer transactions alone in the journal.
LEMMA ApplySuccessStep ==
  ASSUME JournalInv, RecoveryInv, ApplySuccess
  PROVE  RecoveryInv'
  <1>1. state = "open"
    BY DEF JournalInv, CleanInv, ApplySuccess
  <1>2. PICK k \in 0..Len(Journal) : OpenAt(k)
    BY <1>1 DEF RecoveryInv
  <1>3. PICK s : s = Journal
    OBVIOUS
  <1>4. PICK g : g = pending
    OBVIOUS
  <1>5. PICK d : d = stored
    OBVIOUS
  <1>6. /\ s \in Seq(Transaction) /\ g \in Seq(Transaction) /\ Len(s) \in Nat /\ Len(g) \in Nat
        /\ k \in Nat /\ d \in Document /\ d.version \in Nat /\ Len(RowTransactions) \in Nat
    BY <1>2, <1>3, <1>4, <1>5, JournalType, RowTransactionsType
  <1>7. k = Len(batch.transactions) /\ Len(RowTransactions) = 0
    <2>1. k = Len(batch.transactions) /\ k + Len(RowTransactions) <= Len(batch.transactions)
      BY <1>2 DEF OpenAt, BatchAt, ApplySuccess
    <2>2. QED
      BY <1>6, <2>1
  <1>8. Len(s) = k + Len(g) /\ \A i \in 1..Len(g) : g[i] = s[k + i]
    BY <1>3, <1>4, <1>7, JournalType
  <1>9. Journal' = g
    <2>1. batch'.transactions = <<>> /\ pending' = g
      BY <1>4, NoBatchParts DEF ApplySuccess, editVars
    <2>2. QED
      BY <1>6, <2>1 DEF Journal
  <1>10. /\ Line(s, k, d) /\ document = At(s, k, d, Len(s))
         /\ Increasing(s) /\ Below(s, next_id)
    BY <1>2, <1>3, <1>5 DEF OpenAt, JournalAt
  <1>11. /\ 0 \in Nat /\ Len(g) - 0 <= Len(s) - k /\ 1..Len(g) - 0 = 1..Len(g)
         /\ \A i \in 1..Len(g) : 0 + i = i
    BY <1>6, <1>8
  <1>12. \A i \in 1..Len(g) - 0 : g[0 + i] = s[k + i]
    BY <1>8, <1>11
  <1>13. Line(g, 0, d)
    BY ONLY <1>6, <1>10, <1>11, <1>12, LineSame
  <1>14. ASSUME NEW m \in 0..Len(g)
         PROVE  At(g, 0, d, m) = At(s, k, d, k + m)
    <2>1. m \in Nat /\ k \in Nat /\ \A i \in 1..m : i \in 1..Len(g)
      BY <1>6
    <2>2. \A i \in 1..m : g[0 + i] = s[k + i]
      BY <1>8, <1>11, <2>1
    <2>3. Agree(s, k, g, 0, m)
      BY <2>2 DEF Agree
    <2>4. QED
      BY ONLY <2>1, <2>3, AtSameZero
  <1>15. RowTransactions' = RowTransactions /\ LogIds' = LogIds
    BY RowsFrame DEF ApplySuccess, storageVars
  <1>16. \A i \in 1..Len(g) : k + i \in 1..Len(s)
    BY <1>6, <1>8
  <1>17. Increasing(g) /\ Below(g, next_id)
    <2>1. \A i, j \in 1..Len(g) : i < j => k + i < k + j
      BY <1>6
    <2>2. QED
      BY <1>8, <1>10, <1>16, <2>1 DEF Increasing, Below
  <1>18. UNCHANGED <<document, next_id, stored, durable>> /\ phase' = "none"
    BY DEF ApplySuccess, editVars, storageVars
  <1>19. JournalAt(0)'
    <2>1. document = At(g, 0, d, Len(g)) /\ 0 <= Len(g)
      <3>1. Len(g) \in 0..Len(g)
        BY <1>6
      <3>2. At(g, 0, d, Len(g)) = At(s, k, d, k + Len(g))
        BY <1>14, <3>1
      <3>3. QED
        BY <1>6, <1>8, <1>10, <3>2
    <2>2. QED
      BY <1>5, <1>9, <1>13, <1>17, <1>18, <2>1 DEF JournalAt
  <1>20. RowsAt(0)'
    <2>1. durable = At(s, k, d, k)
      <3>1. durable = At(s, k, d, k + Len(RowTransactions)) /\ k + 0 = k
        BY <1>2, <1>3, <1>5, <1>6 DEF OpenAt, RowsAt
      <3>2. QED
        BY <1>7, <3>1
    <2>2. At(g, 0, d, 0) = d /\ At(s, k, d, k) = d
      BY <1>6, AtStart
    <2>3. durable = At(g, 0, d, 0) /\ 0 + 0 = 0 /\ 0 <= Len(g) /\ \A i \in 1..0 : FALSE
      BY <1>6, <2>1, <2>2
    <2>4. QED
      BY <1>5, <1>7, <1>9, <1>15, <1>18, <2>3 DEF RowsAt
  <1>21. BatchAt(0)'
    BY <1>18, NoBatchParts DEF BatchAt, ApplySuccess
  <1>22. KnownAt(0)'
    <2>1. ASSUME OneSession
          PROVE  /\ \A id \in LogIds : id < next_id
                 /\ \A i \in 1..Len(g) : g[i].id \notin LogIds
      <3>1. /\ \A id \in LogIds : id < next_id
            /\ \A i \in 1..Len(s) : i > k + Len(RowTransactions) => s[i].id \notin LogIds
        BY <1>2, <1>3, <2>1 DEF OpenAt, KnownAt
      <3>2. \A i \in 1..Len(g) : k + i > k + Len(RowTransactions)
        BY <1>6, <1>7
      <3>3. QED
        BY <1>8, <1>16, <3>1, <3>2
    <2>2. \A i \in 1..Len(g) : ~(i <= 0 + 0)
      BY <1>6
    <2>3. QED
      BY <1>7, <1>9, <1>15, <1>18, <2>1, <2>2 DEF KnownAt
  <1>23. CountInv'
    BY SameCounts DEF RecoveryInv, ApplySuccess, sessionVars, storageVars, editVars
  <1>24. OpenAt(0)' /\ 0 \in 0..Len(Journal')
    BY <1>6, <1>9, <1>19, <1>20, <1>21, <1>22 DEF OpenAt
  <1>25. QED
    BY <1>1, <1>23, <1>24 DEF RecoveryInv, ApplySuccess, sessionVars

-----------------------------------------------------------------------------
(* Crash and cold start.                                                   *)

\* A crash leaves storage as it is; what the log held can be recovered.
LEMMA CrashStep ==
  ASSUME Exact, JournalInv, RecoveryInv, Crash
  PROVE  RecoveryInv'
  <1>1. state = "open" /\ CountInv
    BY DEF Crash, RecoveryInv
  <1>2. PICK k \in 0..Len(Journal) : OpenAt(k)
    BY <1>1 DEF RecoveryInv
  <1>3. k \in Nat
    BY <1>2, JournalType
  <1>4. Recoverable
    BY <1>2, <1>3, OpenRecoverable
  <1>5. RowTransactions' = RowTransactions
    BY RowsFrame DEF Crash, storageVars
  <1>6. Recoverable'
    BY <1>4, <1>5 DEF Recoverable, Crash, storageVars
  <1>7. Recovering
    <2>1. MaxCrashes # 0
      BY <1>1, JournalAssumption DEF CountInv, Crash
    <2>2. QED
      BY <2>1 DEF Exact, OneSession
  <1>8. CountInv'
    BY <1>1 DEF CountInv, Crash, editVars, storageVars
  <1>9. QED
    BY <1>6, <1>7, <1>8 DEF RecoveryInv, Crash

\* The replay of a recoverable log gives the capture that was secured.
LEMMA RecoveredExact ==
  ASSUME JournalInv, Recoverable
  PROVE  /\ Replayed(RowsToRecover).ok
         /\ Replayed(RowsToRecover).document = durable
         /\ Replayed(RowsToRecover).pending = RowTransactions
         /\ Below(RowTransactions, Replayed(RowsToRecover).next_id)
  <1>1. /\ stored \in Document /\ RowsToRecover \in Seq(Row)
        /\ Len(RowTransactions) = Len(RowsToRecover)
    BY RowTransactionsType
  <1>2. PICK rows : rows = RowsToRecover
    OBVIOUS
  <1>3. RowTransactions = TransactionsOf(rows)
    BY <1>2 DEF RowTransactions
  <1>4. rows \in Seq(Row) /\ Line(TransactionsOf(rows), 0, stored)
    BY <1>1, <1>2, <1>3 DEF Recoverable
  <1>5. /\ Replayed(rows).ok
        /\ Replayed(rows).document = At(TransactionsOf(rows), 0, stored, Len(rows))
        /\ Replayed(rows).pending = TransactionsOf(rows)
        /\ Below(TransactionsOf(rows), Replayed(rows).next_id)
    BY <1>1, <1>4, ReplayLine
  <1>6. durable = At(TransactionsOf(rows), 0, stored, Len(rows))
    BY <1>1, <1>2, <1>3 DEF Recoverable
  <1>7. QED
    BY <1>2, <1>3, <1>5, <1>6

\* A recovered session starts with the replayed transactions as its journal.
LEMMA OpenStep ==
  ASSUME Exact, JournalInv, RecoveryInv, NEW ro \in BOOLEAN, Open(ro)
  PROVE  RecoveryInv'
  <1>1. state = "closed" /\ CountInv /\ Recovering /\ batch = NoBatch /\ Recoverable
    BY DEF Open, RecoveryInv
  <1>2. ~ro
    BY DEF Open, Exact, NoUndo
  <1>3. RowTransactions' = RowTransactions
    BY RowsFrame DEF Open, storageVars
  <1>4. Recoverable'
    BY <1>1, <1>3 DEF Recoverable, Open, storageVars
  <1>5. batch' = NoBatch /\ phase' = "none" /\ readonly' = FALSE
    BY <1>1, <1>2 DEF Open, saveVars, JournalInv, CleanInv
  <1>6. CASE Len(RowsToRecover) > MaxLogEntries
    <2>1. state' = "refused"
      BY <1>6 DEF Open
    <2>2. CountInv'
      BY <1>1, <1>5, <2>1 DEF CountInv, Open, storageVars
    <2>3. QED
      BY <1>1, <1>4, <1>5, <2>1, <2>2 DEF RecoveryInv
  <1>7. CASE ~(Len(RowsToRecover) > MaxLogEntries)
    <2>1. PICK r : r = Replayed(RowsToRecover)
      OBVIOUS
    <2>2. Recovered = r
      BY <1>7, <2>1 DEF Recovered
    <2>3. r.ok /\ r.document = durable /\ r.pending = RowTransactions /\ Below(RowTransactions, r.next_id)
      BY <1>1, <2>1, RecoveredExact
    <2>4. /\ state' = "open" /\ document' = r.document /\ pending' = r.pending
          /\ next_id' = r.next_id /\ UNCHANGED <<changes, storageVars, crashes>>
      BY <1>2, <1>7, <2>2, <2>3 DEF Open
    <2>5. PICK s : s = RowTransactions
      OBVIOUS
    <2>6. s \in Seq(Transaction) /\ Len(s) \in Nat
      BY <2>5, RowTransactionsType
    <2>7. Journal' = s
      <3>1. batch'.transactions = <<>> /\ pending' = s
        BY <1>5, <2>3, <2>4, <2>5, NoBatchParts
      <3>2. QED
        BY <2>6, <3>1 DEF Journal
    <2>8. /\ Line(s, 0, stored) /\ durable = At(s, 0, stored, Len(s)) /\ Increasing(s)
          /\ Below(s, next_id') /\ document' = durable /\ stored' = stored /\ durable' = durable
      BY <1>1, <2>3, <2>4, <2>5 DEF Recoverable, storageVars
    <2>9. 0 <= Len(s) /\ 0 + Len(s) = Len(s) /\ \A i \in 1..Len(s) : 0 + i = i
      BY <2>6
    <2>10. JournalAt(0)'
      BY <2>7, <2>8, <2>9 DEF JournalAt
    <2>11. RowsAt(0)'
      <3>1. RowTransactions' = s
        BY <1>3, <2>5
      <3>2. 0 + Len(s) <= Len(s) /\ \A i \in 1..Len(s) : s[i] = s[0 + i]
        BY <2>6, <2>9
      <3>3. QED
        BY <2>7, <2>8, <2>9, <3>1, <3>2 DEF RowsAt
    <2>12. BatchAt(0)'
      BY <1>5, NoBatchParts DEF BatchAt
    <2>13. KnownAt(0)'
      BY <1>1 DEF KnownAt, Recovering, OneSession
    <2>14. CountInv'
      BY <1>1, <1>5, <2>4, <2>8 DEF CountInv
    <2>15. OpenAt(0)' /\ 0 \in 0..Len(Journal')
      BY <2>6, <2>7, <2>10, <2>11, <2>12, <2>13 DEF OpenAt
    <2>16. QED
      BY <2>4, <2>14, <2>15 DEF RecoveryInv
  <1>8. QED
    BY <1>6, <1>7
-----------------------------------------------------------------------------
(* Append, commit and acknowledge.                                         *)

\* The rows of a log that cold start loads.
ToRecover(rows) == Subsequence(rows, {i \in DOMAIN rows : ~rows[i].materialized})

\* Every row that is not materialized is to be recovered.
LEMMA ToRecoverType ==
  ASSUME NEW rows \in Seq(Row)
  PROVE  /\ ToRecover(rows) \in Seq(Row)
         /\ \A i \in 1..Len(rows) : ~rows[i].materialized =>
              \E x \in 1..Len(ToRecover(rows)) : ToRecover(rows)[x] = rows[i]
         /\ (\A i \in 1..Len(rows) : rows[i].materialized) => Len(ToRecover(rows)) = 0
  <1>1. PICK I : I = {i \in DOMAIN rows : ~rows[i].materialized}
    OBVIOUS
  <1>2. PICK t : t = Subsequence(rows, I)
    OBVIOUS
  <1>3. ToRecover(rows) = t
    BY <1>1, <1>2 DEF ToRecover
  <1>4. /\ t \in Seq(Row)
        /\ \A i \in 1..Len(t) : \E j \in 1..Len(rows) : j \in I /\ t[i] = rows[j]
        /\ \A j \in 1..Len(rows) : j \in I => \E i \in 1..Len(t) : t[i] = rows[j]
    <2>1. /\ Subsequence(rows, I) \in Seq(Row)
          /\ ComesFrom(rows, I, Subsequence(rows, I)) /\ KeepsAll(rows, I, Subsequence(rows, I))
      BY ONLY rows \in Seq(Row), SubsequenceParts
    <2>2. t \in Seq(Row) /\ ComesFrom(rows, I, t) /\ KeepsAll(rows, I, t)
      BY <1>2, <2>1
    <2>3. QED
      BY <2>2 DEF ComesFrom, KeepsAll
  <1>5. \A j \in 1..Len(rows) : j \in I <=> ~rows[j].materialized
    BY <1>1
  <1>6. ASSUME \A i \in 1..Len(rows) : rows[i].materialized
        PROVE  Len(t) = 0
    <2>1. \A i \in 1..Len(t) : FALSE
      BY <1>4, <1>5, <1>6
    <2>2. Len(t) \in Nat
      BY <1>4
    <2>3. QED
      BY <2>1, <2>2
  <1>7. QED
    BY <1>3, <1>4, <1>5, <1>6

\* Rows appended to a log are to be recovered after the others.
LEMMA ToRecoverExtended ==
  ASSUME NEW rows \in Seq(Row), NEW new \in Seq(Row),
         \A i \in 1..Len(new) : ~new[i].materialized
  PROVE  LET t == TransactionsOf(ToRecover(rows))
             v == TransactionsOf(ToRecover(rows \o new))
         IN  /\ Len(v) = Len(t) + Len(new)
             /\ \A i \in 1..Len(t) : v[i] = t[i]
             /\ \A i \in 1..Len(new) : v[Len(t) + i] = new[i].transaction
  <1>1. PICK u : u = rows \o new
    OBVIOUS
  <1>2. u \in Seq(Row) /\ Len(rows) \in Nat /\ Len(new) \in Nat
    BY <1>1
  <1>3. /\ Len(u) = Len(rows) + Len(new)
        /\ \A i \in 1..Len(rows) : u[i] = rows[i]
        /\ \A i \in Len(rows) + 1..Len(u) : u[i] = new[i - Len(rows)]
    BY <1>1, <1>2
  <1>4. \A i \in Len(rows) + 1..Len(u) : i - Len(rows) \in 1..Len(new) /\ i \in 1..Len(u)
    BY <1>2, <1>3
  <1>5. PICK I : I = {i \in DOMAIN rows : ~rows[i].materialized}
    OBVIOUS
  <1>6. PICK J : J = {i \in DOMAIN u : ~u[i].materialized}
    OBVIOUS
  <1>7. DOMAIN rows = 1..Len(rows) /\ DOMAIN u = 1..Len(u)
    BY <1>2
  <1>8. \A i \in 1..Len(rows) : i \in J <=> i \in I
    <2>1. \A i \in 1..Len(rows) : i \in 1..Len(u)
      BY <1>2, <1>3
    <2>2. QED
      BY <1>3, <1>5, <1>6, <1>7, <2>1
  <1>9. \A i \in Len(rows) + 1..Len(u) : i \in J
    BY <1>3, <1>4, <1>6, <1>7
  <1>10. PICK a : a = Subsequence(rows, I)
    OBVIOUS
  <1>11. PICK b : b = Subsequence(u, J)
    OBVIOUS
  <1>12. Len(u) >= Len(rows)
    BY <1>2, <1>3
  <1>13. /\ Len(b) = Len(a) + (Len(u) - Len(rows))
         /\ \A i \in 1..Len(a) : b[i] = a[i]
         /\ \A i \in 1..Len(u) - Len(rows) : b[Len(a) + i] = u[Len(rows) + i]
    <2>1. Extends(rows, I, u, J)
      BY <1>3, <1>8, <1>9, <1>12 DEF Extends
    <2>2. u \in Seq(Row)
      BY <1>2
    <2>3. Continues(Subsequence(rows, I), Subsequence(u, J), rows, u)
      BY ONLY rows \in Seq(Row), <2>1, <2>2, SubsequenceExtended
    <2>4. Continues(a, b, rows, u)
      BY <1>10, <1>11, <2>3
    <2>5. QED
      BY <2>4 DEF Continues
  <1>14. ToRecover(rows) = a /\ ToRecover(u) = b
    BY <1>5, <1>6, <1>10, <1>11 DEF ToRecover
  <1>15. a \in Seq(Row) /\ b \in Seq(Row)
    BY <1>2, <1>14, ToRecoverType
  <1>16. PICK t : t = TransactionsOf(a)
    OBVIOUS
  <1>17. PICK v : v = TransactionsOf(b)
    OBVIOUS
  <1>18. /\ Len(t) = Len(a) /\ \A i \in 1..Len(a) : t[i] = a[i].transaction
         /\ Len(v) = Len(b) /\ \A i \in 1..Len(b) : v[i] = b[i].transaction
    BY <1>15, <1>16, <1>17, TransactionsOfType
  <1>19. Len(a) \in Nat /\ Len(b) = Len(a) + Len(new)
    BY <1>2, <1>3, <1>13, <1>15
  <1>20. Len(v) = Len(t) + Len(new)
    BY <1>18, <1>19
  <1>21. \A i \in 1..Len(t) : v[i] = t[i]
    <2>1. \A i \in 1..Len(a) : i \in 1..Len(b)
      BY <1>2, <1>19
    <2>2. QED
      BY <1>13, <1>18, <2>1
  <1>22. ASSUME NEW i \in 1..Len(new)
         PROVE  v[Len(t) + i] = new[i].transaction
    <2>1. /\ i \in 1..Len(u) - Len(rows) /\ Len(a) + i \in 1..Len(b)
          /\ Len(rows) + i \in Len(rows) + 1..Len(u) /\ (Len(rows) + i) - Len(rows) = i
      BY <1>2, <1>3, <1>19
    <2>2. b[Len(a) + i] = new[i]
      BY <1>3, <1>13, <2>1
    <2>3. QED
      BY <1>18, <2>1, <2>2
  <1>23. QED
    BY <1>1, <1>14, <1>16, <1>17, <1>20, <1>21, <1>22

\* RowTransactions in these terms.
LEMMA RowTransactionsAre ==
  RowsToRecover = ToRecover(log) /\ RowTransactions = TransactionsOf(ToRecover(log))
  BY DEF RowsToRecover, RowTransactions, ToRecover

\* A capture within the journal is bounded like the document.
LEMMA CaptureCounts ==
  ASSUME NEW s, NEW d, NEW k \in Nat, NEW b \in Nat, NEW m \in Nat, NEW c \in Nat,
         d.version \in Nat, d.version >= 1, k <= b, b <= m,
         At(s, k, d, m).edits \subseteq 1..c, At(s, k, d, m).version <= 1 + c
  PROVE  /\ At(s, k, d, b).edits \subseteq 1..c /\ At(s, k, d, b).version <= 1 + c
         /\ At(s, k, d, b).version >= 1
  <1>1. At(s, k, d, b).edits \subseteq At(s, k, d, m).edits
    BY AtGrows
  <1>2. /\ At(s, k, d, b).version = d.version + (b - k)
        /\ At(s, k, d, m).version = d.version + (m - k)
    BY DEF At
  <1>3. At(s, k, d, b).version <= 1 + c /\ At(s, k, d, b).version >= 1
    BY <1>2
  <1>4. QED
    BY <1>1, <1>3

\* A commit stores the batch; the rows to recover were all of it.
LEMMA CommitStep ==
  ASSUME JournalInv, RecoveryInv, Commit
  PROVE  RecoveryInv'
  <1>1. state = "open" /\ CountInv
    BY DEF JournalInv, CleanInv, Commit, RecoveryInv
  <1>2. PICK k \in 0..Len(Journal) : OpenAt(k)
    BY <1>1 DEF RecoveryInv
  <1>3. PICK s : s = Journal
    OBVIOUS
  <1>4. PICK d : d = stored
    OBVIOUS
  <1>5. PICK b : b = Len(batch.transactions)
    OBVIOUS
  <1>6. PICK n : n = Len(RowTransactions)
    OBVIOUS
  <1>7. PICK e : e = batch.document
    OBVIOUS
  <1>8. /\ s \in Seq(Transaction) /\ Len(s) \in Nat /\ b \in Nat /\ b <= Len(s) /\ n \in Nat
        /\ k \in Nat /\ d.version \in Nat /\ e \in Document /\ log \in Seq(Row)
        /\ batch.transactions \in Seq(Transaction)
        /\ \A i \in 1..b : s[i] = batch.transactions[i]
    <2>1. e \in Document
      BY <1>7 DEF JournalInv, TypeInv, SaveTypes, Batch
    <2>2. s \in Seq(Transaction) /\ Len(s) \in Nat /\ b \in Nat /\ b <= Len(s)
          /\ batch.transactions \in Seq(Transaction)
          /\ \A i \in 1..b : s[i] = batch.transactions[i]
      BY <1>3, <1>5, JournalType
    <2>3. n \in Nat /\ d.version \in Nat /\ log \in Seq(Row)
      BY <1>4, <1>6, RowTransactionsType
    <2>4. k \in Nat
      BY <1>2, <1>3, <2>2
    <2>5. QED
      BY <2>1, <2>2, <2>3, <2>4
  <1>9. k + n = b /\ e = At(s, k, d, b) /\ k <= b
    <2>1. k + n = b /\ e = At(s, k, d, b)
      BY <1>2, <1>3, <1>4, <1>5, <1>6, <1>7 DEF OpenAt, BatchAt, Commit
    <2>2. QED
      BY <1>8, <2>1
  <1>10. /\ Line(s, k, d) /\ document = At(s, k, d, Len(s)) /\ Increasing(s) /\ Below(s, next_id)
         /\ \A i \in 1..n : RowTransactions[i] = s[k + i]
    BY <1>2, <1>3, <1>4, <1>6 DEF OpenAt, JournalAt, RowsAt
  <1>11. UNCHANGED <<Journal, document, next_id, changes, readonly, state, crashes, batch>>
         /\ stored' = e /\ durable' = e /\ phase' \in {"acking", "succeeded"}
    BY <1>7 DEF Commit, Journal, editVars, sessionVars
  <1>12. PICK g : g = AfterCommit
    OBVIOUS
  <1>13. /\ g \in Seq(Row) /\ Len(g) = Len(log) /\ Len(log) \in Nat
         /\ \A i \in 1..Len(log) :
              /\ g[i].transaction = log[i].transaction
              /\ g[i].materialized <=>
                   \/ log[i].materialized
                   \/ log[i].transaction.id \in {tx.id : tx \in ToSet(batch.transactions)}
    BY <1>8, <1>12, AfterCommitType
  <1>14. log' = g
    BY <1>12 DEF Commit
  <1>15. \A i \in 1..Len(g) : g[i].materialized
    <2> SUFFICES ASSUME NEW i \in 1..Len(log), ~log[i].materialized
                 PROVE  log[i].transaction.id \in {tx.id : tx \in ToSet(batch.transactions)}
      BY <1>13
    <2>1. PICK x \in 1..Len(ToRecover(log)) : ToRecover(log)[x] = log[i]
      BY <1>8, ToRecoverType
    <2>2. PICK rows : rows = ToRecover(log)
      OBVIOUS
    <2>3. rows \in Seq(Row) /\ RowTransactions = TransactionsOf(rows)
      BY <1>8, <2>2, ToRecoverType, RowTransactionsAre
    <2>4. Len(RowTransactions) = Len(rows) /\ RowTransactions[x] = rows[x].transaction
      BY <2>1, <2>2, <2>3, TransactionsOfType
    <2>5. x \in 1..n /\ k + x \in 1..b
      BY <1>6, <1>8, <1>9, <2>1, <2>2, <2>4
    <2>6. log[i].transaction = batch.transactions[k + x]
      BY <1>8, <1>10, <2>1, <2>2, <2>4, <2>5
    <2>7. batch.transactions[k + x] \in ToSet(batch.transactions)
      BY <1>5, <1>8, <2>5 DEF ToSet
    <2>8. QED
      BY <2>6, <2>7
  <1>16. Len(RowTransactions') = 0
    <2>1. RowTransactions' = TransactionsOf(ToRecover(g))
      BY <1>14 DEF RowTransactions, RowsToRecover, ToRecover
    <2>2. ToRecover(g) \in Seq(Row) /\ Len(ToRecover(g)) = 0
      BY <1>13, <1>15, ToRecoverType
    <2>3. QED
      BY <2>1, <2>2, TransactionsOfType
  <1>17. LogIds' = LogIds
    BY <1>13, <1>14 DEF LogIds
  <1>18. JournalAt(b)'
    <2>1. Line(s, b, At(s, k, d, b))
      BY ONLY <1>8, <1>9, <1>10, LineFrom
    <2>2. At(s, b, At(s, k, d, b), Len(s)) = At(s, k, d, Len(s))
      BY ONLY <1>8, <1>9, AtFrom
    <2>3. Line(s, b, e) /\ document = At(s, b, e, Len(s))
      BY <1>9, <1>10, <2>1, <2>2
    <2>4. QED
      BY <1>3, <1>8, <1>10, <1>11, <2>3 DEF JournalAt
  <1>19. At(s, b, e, b) = e /\ b + 0 = b
    BY <1>8, AtStart
  <1>20. RowsAt(b)'
    <2>1. \A i \in 1..0 : FALSE
      OBVIOUS
    <2>2. QED
      BY <1>3, <1>8, <1>11, <1>16, <1>19, <2>1 DEF RowsAt
  <1>21. BatchAt(b)'
    <2>1. b + 0 <= b
      BY <1>8
    <2>2. QED
      BY <1>3, <1>5, <1>7, <1>11, <1>16, <1>19, <2>1 DEF BatchAt
  <1>22. KnownAt(b)'
    <2>1. OneSession =>
            /\ \A id \in LogIds : id < next_id
            /\ \A i \in 1..Len(s) : i > b => s[i].id \notin LogIds
            /\ \A i \in 1..Len(s) : i <= b => s[i].id \in LogIds
      BY <1>2, <1>3, <1>6, <1>9 DEF OpenAt, KnownAt, Commit
    <2>2. QED
      BY <1>3, <1>11, <1>16, <1>17, <1>19, <2>1 DEF KnownAt
  <1>23. CountInv'
    <2>1. /\ d.version >= 1 /\ changes \in Nat
          /\ At(s, k, d, Len(s)).edits \subseteq 1..changes
          /\ At(s, k, d, Len(s)).version <= 1 + changes
      BY <1>1, <1>4, <1>10, JournalAssumption DEF CountInv, JournalInv, TypeInv, EditTypes
    <2>2. PICK c : c = changes
      OBVIOUS
    <2>3. e.edits \subseteq 1..c /\ e.version <= 1 + c /\ e.version >= 1
      <3>1. /\ c \in Nat /\ d.version >= 1 /\ At(s, k, d, Len(s)).edits \subseteq 1..c
            /\ At(s, k, d, Len(s)).version <= 1 + c
        BY <2>1, <2>2
      <3>2. /\ At(s, k, d, b).edits \subseteq 1..c /\ At(s, k, d, b).version <= 1 + c
            /\ At(s, k, d, b).version >= 1
        BY ONLY <1>8, <1>9, <3>1, CaptureCounts
      <3>3. QED
        BY <1>9, <3>2
    <2>4. QED
      BY <1>1, <1>11, <2>2, <2>3 DEF CountInv
  <1>24. OpenAt(b)' /\ b \in 0..Len(Journal')
    BY <1>3, <1>8, <1>11, <1>18, <1>20, <1>21, <1>22 DEF OpenAt
  <1>25. QED
    BY <1>1, <1>11, <1>23, <1>24 DEF RecoveryInv
\* Acknowledging removes rows whose edits are stored.
LEMMA AcknowledgeStep ==
  ASSUME JournalInv, RecoveryInv, Acknowledge
  PROVE  RecoveryInv'
  <1>1. state = "open" /\ CountInv
    BY DEF JournalInv, CleanInv, Acknowledge, RecoveryInv
  <1>2. PICK k \in 0..Len(Journal) : OpenAt(k)
    BY <1>1 DEF RecoveryInv
  <1>3. k \in Nat /\ Len(RowTransactions) \in Nat /\ log \in Seq(Row)
    BY <1>2, JournalType, RowTransactionsType
  <1>4. k = Len(batch.transactions) /\ Len(RowTransactions) = 0
    <2>1. k = Len(batch.transactions) /\ k + Len(RowTransactions) <= Len(batch.transactions)
      BY <1>2 DEF OpenAt, BatchAt, Acknowledge
    <2>2. QED
      BY <1>3, <2>1
  <1>5. UNCHANGED <<Journal, document, next_id, changes, readonly, state, crashes, batch,
                    stored, durable>>
        /\ phase = "acking" /\ phase' = "succeeded"
    BY DEF Acknowledge, Journal, editVars, sessionVars
  <1>6. PICK h : h = log
    OBVIOUS
  <1>7. PICK g : g = log'
    OBVIOUS
  <1>8. h \in Seq(Row)
    BY <1>3, <1>6
  <1>9. \A i \in 1..Len(h) : h[i].materialized
    <2>1. RowTransactions = TransactionsOf(ToRecover(h)) /\ ToRecover(h) \in Seq(Row)
      BY <1>6, <1>8, RowTransactionsAre, ToRecoverType
    <2>2. Len(ToRecover(h)) = 0
      BY <1>4, <2>1, TransactionsOfType
    <2>3. \A x \in 1..0 : FALSE
      OBVIOUS
    <2>4. QED
      BY <1>8, <2>2, <2>3, ToRecoverType
  <1>10. g \in Seq(Row) /\ \A i \in 1..Len(g) : \E j \in 1..Len(h) : g[i] = h[j]
    <2>1. CASE g = h
      BY <1>8, <2>1
    <2>2. CASE g # h
      <3>1. PICK K : g = Subsequence(h, K)
        BY <1>6, <1>7, <2>2 DEF Acknowledge
      <3>2. QED
        BY ONLY <1>8, <3>1, SubsequenceElements
    <2>3. QED
      BY <2>1, <2>2
  <1>11. Len(RowTransactions') = 0
    <2>1. RowTransactions' = TransactionsOf(ToRecover(g))
      BY <1>7 DEF RowTransactions, RowsToRecover, ToRecover
    <2>2. \A i \in 1..Len(g) : g[i].materialized
      BY <1>9, <1>10
    <2>3. ToRecover(g) \in Seq(Row) /\ Len(ToRecover(g)) = 0
      BY <1>10, <2>2, ToRecoverType
    <2>4. QED
      BY <2>1, <2>3, TransactionsOfType
  <1>12. LogIds' \subseteq LogIds
    <2>1. LogIds = {h[i].transaction.id : i \in 1..Len(h)}
          /\ LogIds' = {g[i].transaction.id : i \in 1..Len(g)}
      BY <1>6, <1>7 DEF LogIds
    <2>2. QED
      BY <1>10, <2>1
  <1>13. JournalAt(k)'
    BY <1>2, <1>5 DEF OpenAt, JournalAt
  <1>14. RowsAt(k)'
    <2>1. /\ k + Len(RowTransactions) <= Len(Journal)
          /\ durable = At(Journal, k, stored, k + Len(RowTransactions))
      BY <1>2 DEF OpenAt, RowsAt
    <2>2. \A i \in 1..0 : FALSE
      OBVIOUS
    <2>3. QED
      BY <1>4, <1>5, <1>11, <2>1, <2>2 DEF RowsAt
  <1>15. BatchAt(k)'
    BY <1>2, <1>4, <1>5, <1>11 DEF OpenAt, BatchAt
  <1>16. KnownAt(k)'
    BY <1>2, <1>4, <1>5, <1>11, <1>12 DEF OpenAt, KnownAt
  <1>17. CountInv'
    BY <1>1, <1>5, SameCounts
  <1>18. OpenAt(k)' /\ k \in 0..Len(Journal')
    BY <1>2, <1>5, <1>13, <1>14, <1>15, <1>16 DEF OpenAt
  <1>19. QED
    BY <1>1, <1>5, <1>17, <1>18 DEF RecoveryInv

\* An append adds exactly the transactions of the batch that neither the
\* stored content nor the rows to recover have.
LEMMA AppendStep ==
  ASSUME Exact, JournalInv, RecoveryInv, AppendLog
  PROVE  RecoveryInv'
  <1>1. state = "open" /\ CountInv
    BY DEF JournalInv, CleanInv, AppendLog, RecoveryInv
  <1>2. PICK k \in 0..Len(Journal) : OpenAt(k)
    BY <1>1 DEF RecoveryInv
  <1>3. PICK s : s = Journal
    OBVIOUS
  <1>4. PICK d : d = stored
    OBVIOUS
  <1>5. PICK c : c = batch.transactions
    OBVIOUS
  <1>6. PICK T : T = RowTransactions
    OBVIOUS
  <1>7. PICK h : h = log
    OBVIOUS
  <1>8. PICK b : b = Len(c)
    OBVIOUS
  <1>9. PICK n : n = Len(T)
    OBVIOUS
  <1>10. PICK p : p = k + n
    OBVIOUS
  <1>11. /\ s \in Seq(Transaction) /\ Len(s) \in Nat /\ c \in Seq(Transaction)
         /\ b \in Nat /\ b <= Len(s) /\ (\A i \in 1..b : s[i] = c[i])
    BY <1>3, <1>5, <1>8, JournalType
  <1>12. n \in Nat /\ k \in Nat /\ p \in Nat /\ d.version \in Nat /\ h \in Seq(Row)
         /\ sequence \in Nat /\ T \in Seq(Transaction)
    <2>1. sequence \in Nat
      BY DEF JournalInv, TypeInv, StorageTypes
    <2>2. n \in Nat /\ d.version \in Nat /\ h \in Seq(Row) /\ T \in Seq(Transaction)
      BY <1>4, <1>6, <1>7, <1>9, RowTransactionsType
    <2>3. k \in Nat
      BY <1>2, <1>3, <1>11
    <2>4. QED
      BY <1>10, <2>1, <2>2, <2>3
  <1>13. /\ p <= b /\ batch.document = At(s, k, d, b)
         /\ Line(s, k, d) /\ document = At(s, k, d, Len(s))
         /\ Increasing(s) /\ Below(s, next_id)
         /\ \A i \in 1..n : T[i] = s[k + i]
    BY <1>2, <1>3, <1>4, <1>5, <1>6, <1>8, <1>9, <1>10
       DEF OpenAt, BatchAt, JournalAt, RowsAt, AppendLog
  <1>14. /\ Recovering => k = 0
         /\ OneSession =>
              /\ \A id \in LogIds : id < next_id
              /\ \A i \in 1..Len(s) : i > p => s[i].id \notin LogIds
              /\ \A i \in 1..Len(s) : i <= p => s[i].id \in LogIds
    BY <1>2, <1>3, <1>6, <1>9, <1>10 DEF OpenAt, KnownAt, AppendLog
  <1>15. ASSUME NEW i \in 1..Len(s), NEW j \in 1..Len(s), i # j
         PROVE  s[i].id # s[j].id
    <2>1. \A tx \in Transaction : tx.id \in Nat
      BY DEF Transaction
    <2>2. s[i].id \in Nat /\ s[j].id \in Nat
      BY <1>11, <2>1
    <2>3. i < j \/ j < i
      BY <1>15
    <2>4. s[i].id < s[j].id \/ s[j].id < s[i].id
      BY <1>13, <2>3 DEF Increasing
    <2>5. QED
      BY <2>2, <2>4
  <1>16. PICK known : known = {row.transaction.id :
                                 row \in ToSet(IF MatchesRetained THEN log ELSE RowsToRecover)}
    OBVIOUS
  <1>17. \A i \in 1..b : c[i].id \notin known <=> i > p
    <2>1. \A i \in 1..b : i \in 1..Len(s) /\ c[i] = s[i]
      BY <1>11
    <2>2. CASE Recovering
      <3>1. known = {row.transaction.id : row \in ToSet(RowsToRecover)} /\ k = 0 /\ p = n
        BY <1>10, <1>12, <1>14, <1>16, <2>2 DEF Recovering
      <3>2. PICK r : r = RowsToRecover
        OBVIOUS
      <3>3. r \in Seq(Row) /\ T = TransactionsOf(r)
        BY <1>6, <3>2, RowTransactionsType DEF RowTransactions
      <3>4. Len(r) = n /\ \A i \in 1..n : T[i] = r[i].transaction
        BY <1>9, <3>3, TransactionsOfType
      <3>5. DOMAIN r = 1..n
        BY <3>3, <3>4
      <3>6. \A x : x \in known <=> \E i \in 1..n : x = T[i].id
        BY <3>1, <3>2, <3>4, <3>5 DEF ToSet
      <3>7. \A i \in 1..n : T[i] = s[i] /\ i \in 1..Len(s)
        <4>1. \A i \in 1..n : 0 + i = i
          BY <1>12
        <4>2. QED
          BY <1>11, <1>12, <1>13, <3>1, <4>1
      <3>8. ASSUME NEW i \in 1..b
            PROVE  c[i].id \notin known <=> i > p
        <4>1. CASE i > p
          <5>1. \A j \in 1..n : j # i
            BY <1>12, <3>1, <4>1
          <5>2. \A j \in 1..n : s[j].id # s[i].id
            BY <1>15, <2>1, <3>7, <5>1
          <5>3. QED
            BY <2>1, <3>6, <3>7, <4>1, <5>2
        <4>2. CASE ~(i > p)
          <5>1. i \in 1..n
            BY <1>12, <3>1, <4>2
          <5>2. QED
            BY <2>1, <3>6, <3>7, <4>2, <5>1
        <4>3. QED
          BY <4>1, <4>2
      <3>9. QED
        BY <3>8
    <2>3. CASE OneSession
      <3>1. known = {row.transaction.id : row \in ToSet(log)}
        BY <1>16, <2>3 DEF OneSession
      <3>2. \A x : x \in known <=> x \in LogIds
        <4>1. DOMAIN log = 1..Len(log)
          BY <1>7, <1>12
        <4>2. QED
          BY <3>1, <4>1 DEF ToSet, LogIds
      <3>3. ASSUME NEW i \in 1..b
            PROVE  c[i].id \notin known <=> i > p
        <4>1. i > p \/ i <= p
          BY <1>12
        <4>2. QED
          BY <1>12, <1>14, <2>1, <2>3, <3>2, <4>1
      <3>4. QED
        BY <3>3
    <2>4. QED
      BY <2>2, <2>3 DEF Exact
  <1>18. PICK f : f = Fresh(known)
    OBVIOUS
  <1>19. f \in Seq(Transaction) /\ Len(f) = b - p /\ \A i \in 1..b - p : f[i] = c[p + i]
    <2>1. PICK I : I = {i \in DOMAIN c : c[i].id \notin known}
      OBVIOUS
    <2>2. f = Subsequence(c, I)
      BY <1>5, <1>18, <2>1 DEF Fresh
    <2>3. \A i \in 1..Len(c) : i \in I <=> i > p
      BY <1>8, <1>11, <1>17, <2>1
    <2>4. p \in 0..Len(c) /\ c \in Seq(Transaction)
      BY <1>8, <1>11, <1>12, <1>13
    <2>5. /\ Len(Subsequence(c, I)) = Len(c) - p
          /\ \A i \in 1..Len(c) - p : Subsequence(c, I)[i] = c[p + i]
      BY ONLY <2>3, <2>4, SubsequenceTail
    <2>6. Subsequence(c, I) \in Seq(Transaction)
      BY ONLY <2>4, SubsequenceElements
    <2>7. QED
      BY <1>8, <2>2, <2>5, <2>6
  <1>20. PICK a : a = NewRows(f)
    OBVIOUS
  <1>21. /\ a \in Seq(Row) /\ Len(a) = b - p
         /\ \A i \in 1..b - p : a[i].transaction = c[p + i] /\ ~a[i].materialized
    <2>1. /\ a \in Seq(Row) /\ Len(a) = Len(f)
          /\ \A i \in 1..Len(f) : a[i].transaction = f[i] /\ a[i].materialized = FALSE
      BY <1>12, <1>19, <1>20, NewRowsType
    <2>2. QED
      BY <1>19, <2>1
  <1>22. log' = h \o a
    <2>1. log' = log \o NewRows(Fresh(known))
      BY <1>16 DEF AppendLog
    <2>2. QED
      BY <1>7, <1>18, <1>20, <2>1
  <1>23. PICK V : V = RowTransactions'
    OBVIOUS
  <1>24. Len(V) = b - k /\ \A i \in 1..b - k : V[i] = s[k + i]
    <2>1. V = TransactionsOf(ToRecover(h \o a)) /\ T = TransactionsOf(ToRecover(h))
      BY <1>6, <1>7, <1>22, <1>23 DEF RowTransactions, RowsToRecover, ToRecover
    <2>2. \A i \in 1..Len(a) : ~a[i].materialized
      BY <1>21
    <2>3. /\ Len(V) = Len(T) + Len(a) /\ (\A i \in 1..Len(T) : V[i] = T[i])
          /\ \A i \in 1..Len(a) : V[Len(T) + i] = a[i].transaction
      BY <1>12, <1>21, <2>1, <2>2, ToRecoverExtended
    <2>4. n + (b - p) = b - k
      BY <1>10, <1>11, <1>12
    <2>5. Len(V) = b - k
      BY <1>9, <1>21, <2>3, <2>4
    <2>6. ASSUME NEW i \in 1..b - k
          PROVE  V[i] = s[k + i]
      <3>1. CASE i <= n
        <4>1. i \in 1..n
          BY <1>12, <3>1
        <4>2. QED
          BY <1>9, <1>13, <2>3, <4>1
      <3>2. CASE i > n
        <4>1. PICK x : x = i - n
          OBVIOUS
        <4>2. x \in 1..b - p /\ n + x = i /\ p + x = k + i /\ p + x \in 1..b
          BY <1>10, <1>11, <1>12, <3>2, <4>1
        <4>3. V[n + x] = a[x].transaction
          BY <1>9, <1>21, <2>3, <4>2
        <4>4. a[x].transaction = c[p + x]
          BY <1>21, <4>2
        <4>5. c[p + x] = s[p + x]
          BY <1>11, <4>2
        <4>6. QED
          BY <4>2, <4>3, <4>4, <4>5
      <3>3. QED
        BY <1>12, <3>1, <3>2
    <2>7. QED
      BY <2>5, <2>6
  <1>25. /\ Journal' = s /\ batch'.transactions = c /\ batch'.document = batch.document
         /\ durable' = batch.document /\ phase' = "committing"
         /\ UNCHANGED <<document, next_id, changes, readonly, state, crashes, stored>>
    <2>1. batch'.transactions = batch.transactions /\ batch'.document = batch.document
      BY DEF AppendLog, JournalInv, TypeInv, SaveTypes, Batch
    <2>2. QED
      BY <1>3, <1>5, <2>1 DEF AppendLog, Journal, editVars, sessionVars
  <1>26. JournalAt(k)'
    <2>1. k <= Len(s)
      BY <1>2, <1>3
    <2>2. QED
      BY <1>4, <1>13, <1>25, <2>1 DEF JournalAt
  <1>27. k + (b - k) = b
    BY <1>11, <1>12
  <1>28. RowsAt(k)'
    BY <1>4, <1>11, <1>13, <1>23, <1>24, <1>25, <1>27 DEF RowsAt
  <1>29. BatchAt(k)'
    <2>1. b <= b
      BY <1>11
    <2>2. QED
      BY <1>4, <1>8, <1>13, <1>23, <1>24, <1>25, <1>27, <2>1 DEF BatchAt
  <1>30. KnownAt(k)'
    <2>1. ASSUME OneSession
          PROVE  /\ \A id \in LogIds' : id < next_id
                 /\ \A i \in 1..Len(s) : i > b => s[i].id \notin LogIds'
                 /\ \A i \in 1..Len(s) : i <= b => s[i].id \in LogIds'
      <3>1. PICK u : u = h \o a
        OBVIOUS
      <3>2. /\ Len(h) \in Nat /\ Len(a) \in Nat /\ Len(u) = Len(h) + Len(a)
            /\ (\A i \in 1..Len(h) : u[i] = h[i])
            /\ (\A i \in Len(h) + 1..Len(u) : u[i] = a[i - Len(h)])
        <4>1. h \in Seq(Row) /\ a \in Seq(Row)
          BY <1>12, <1>21
        <4>2. QED
          BY ONLY <3>1, <4>1
      <3>3. LogIds' = {u[i].transaction.id : i \in 1..Len(u)}
            /\ LogIds = {h[i].transaction.id : i \in 1..Len(h)}
        BY <1>7, <1>22, <3>1 DEF LogIds
      <3>4. ASSUME NEW id
            PROVE  id \in LogIds' <=> id \in LogIds \/ \E i \in 1..Len(s) : i > p /\ i <= b /\ id = s[i].id
        <4>1. ASSUME id \in LogIds'
              PROVE  id \in LogIds \/ \E i \in 1..Len(s) : i > p /\ i <= b /\ id = s[i].id
          <5>1. PICK i \in 1..Len(u) : id = u[i].transaction.id
            BY <3>3, <4>1
          <5>2. CASE i \in 1..Len(h)
            BY <3>2, <3>3, <5>1, <5>2
          <5>3. CASE i \in Len(h) + 1..Len(u)
            <6>1. PICK x : x = i - Len(h)
              OBVIOUS
            <6>2. /\ x \in 1..b - p /\ u[i] = a[x] /\ p + x \in 1..b /\ p + x > p /\ p + x <= b
                  /\ p + x \in 1..Len(s)
              <7>1. u[i] = a[x]
                BY <3>2, <5>3, <6>1
              <7>2. x \in 1..Len(a) /\ Len(a) = b - p
                BY <1>21, <3>2, <5>3, <6>1
              <7>3. QED
                BY <1>11, <1>12, <7>1, <7>2
            <6>3. id = s[p + x].id
              BY <1>11, <1>21, <5>1, <6>2
            <6>4. QED
              BY <6>2, <6>3
          <5>4. QED
            BY <3>2, <5>2, <5>3
        <4>2. ASSUME id \in LogIds PROVE id \in LogIds'
          <5>1. PICK i \in 1..Len(h) : id = h[i].transaction.id
            BY <3>3, <4>2
          <5>2. i \in 1..Len(u) /\ u[i] = h[i]
            BY <3>2
          <5>3. QED
            BY <3>3, <5>1, <5>2
        <4>3. ASSUME NEW i \in 1..Len(s), i > p, i <= b, id = s[i].id
              PROVE  id \in LogIds'
          <5>1. PICK x : x = i - p
            OBVIOUS
          <5>2. PICK y : y = Len(h) + x
            OBVIOUS
          <5>3. x \in 1..b - p /\ p + x = i /\ i \in 1..b
            BY <1>11, <1>12, <4>3, <5>1
          <5>4. y \in 1..Len(u) /\ y \in Len(h) + 1..Len(u) /\ y - Len(h) = x
            BY <1>11, <1>12, <1>21, <3>2, <5>2, <5>3
          <5>5. u[y].transaction = c[i] /\ c[i] = s[i]
            BY <1>11, <1>21, <3>2, <5>3, <5>4
          <5>6. QED
            BY <3>3, <4>3, <5>4, <5>5
        <4>4. QED
          BY <4>1, <4>2, <4>3
      <3>5. \A id \in LogIds' : id < next_id
        BY <1>13, <1>14, <2>1, <3>4 DEF Below
      <3>6. ASSUME NEW i \in 1..Len(s), i > b
            PROVE  s[i].id \notin LogIds'
        <4>1. i > p
          BY <1>11, <1>12, <1>13, <3>6
        <4>2. s[i].id \notin LogIds
          BY <1>14, <2>1, <4>1
        <4>3. \A j \in 1..Len(s) : j <= b => j # i
          BY <1>11, <3>6
        <4>4. QED
          BY <1>15, <3>4, <4>2, <4>3
      <3>7. ASSUME NEW i \in 1..Len(s), i <= b
            PROVE  s[i].id \in LogIds'
        <4>1. i > p \/ i <= p
          BY <1>12
        <4>2. QED
          BY <1>14, <2>1, <3>4, <3>7, <4>1
      <3>8. QED
        BY <3>5, <3>6, <3>7
    <2>2. QED
      BY <1>14, <1>23, <1>24, <1>25, <1>27, <2>1 DEF KnownAt
  <1>31. CountInv'
    <2>1. /\ d.version >= 1 /\ changes \in Nat
          /\ At(s, k, d, Len(s)).edits \subseteq 1..changes
          /\ At(s, k, d, Len(s)).version <= 1 + changes
      BY <1>1, <1>4, <1>13, JournalAssumption DEF CountInv, JournalInv, TypeInv, EditTypes
    <2>2. PICK q : q = changes
      OBVIOUS
    <2>3. /\ q \in Nat /\ d.version >= 1 /\ At(s, k, d, Len(s)).edits \subseteq 1..q
          /\ At(s, k, d, Len(s)).version <= 1 + q /\ k <= b
      BY <1>10, <1>12, <1>13, <1>11, <2>1, <2>2
    <2>4. At(s, k, d, b).edits \subseteq 1..q /\ At(s, k, d, b).version <= 1 + q
      BY ONLY <1>11, <1>12, <2>3, CaptureCounts
    <2>5. QED
      BY <1>1, <1>13, <1>25, <2>2, <2>4 DEF CountInv
  <1>32. OpenAt(k)' /\ k \in 0..Len(Journal')
    BY <1>2, <1>3, <1>25, <1>26, <1>28, <1>29, <1>30 DEF OpenAt
  <1>33. QED
    BY <1>1, <1>25, <1>31, <1>32 DEF RecoveryInv
-----------------------------------------------------------------------------
(* The invariant of recovery, and the theorems.                            *)

\* The invariant holds of a document just created.
LEMMA RecoveryInit ==
  ASSUME Exact, Init
  PROVE  RecoveryInv
  <1>1. JournalInv
    BY JournalInit
  <1>2. PICK d : d = [version |-> 1, edits |-> {}]
    OBVIOUS
  <1>3. d \in Document /\ d.version = 1 /\ d.edits = {}
    BY <1>2 DEF Document
  <1>4. document = d /\ stored = d /\ durable = d /\ batch.transactions = <<>> /\ pending = <<>>
        /\ log = <<>> /\ state = "open" /\ readonly = FALSE /\ changes = 0 /\ crashes = 0
        /\ phase = "none" /\ next_id = 1
    BY <1>2, NoBatchParts DEF Init
  <1>5. Len(Journal) = 0
    BY <1>4 DEF Journal
  <1>6. log \in Seq(Row) /\ Len(log) = 0 /\ \A i \in 1..0 : FALSE
    BY <1>4
  <1>7. Len(RowTransactions) = 0
    <2>1. ToRecover(log) \in Seq(Row) /\ Len(ToRecover(log)) = 0
      BY <1>6, ToRecoverType
    <2>2. QED
      BY <2>1, TransactionsOfType, RowTransactionsAre
  <1>8. At(Journal, 0, d, 0) = d
    BY <1>3, AtStart
  <1>9. 0 + 0 = 0 /\ 0 <= 0 /\ \A i \in 0 + 1..0 : FALSE
    OBVIOUS
  <1>10. JournalAt(0)
    BY <1>4, <1>5, <1>6, <1>8, <1>9 DEF JournalAt, Line, Increasing, Below
  <1>11. RowsAt(0)
    BY <1>4, <1>5, <1>6, <1>7, <1>8, <1>9 DEF RowsAt
  <1>12. BatchAt(0)
    BY <1>4, NoBatchParts DEF BatchAt
  <1>13. KnownAt(0)
    <2>1. LogIds = {}
      BY <1>6 DEF LogIds
    <2>2. QED
      BY <1>5, <1>6, <2>1 DEF KnownAt
  <1>14. CountInv
    BY <1>3, <1>4 DEF CountInv
  <1>15. OpenAt(0) /\ 0 \in 0..Len(Journal)
    BY <1>5, <1>10, <1>11, <1>12, <1>13 DEF OpenAt
  <1>16. QED
    BY <1>4, <1>14, <1>15 DEF RecoveryInv

\* Every action preserves it.
LEMMA RecoveryStep ==
  ASSUME Exact, JournalInv, RecoveryInv, [Next]_vars
  PROVE  RecoveryInv'
  <1>1. next_id \in Nat /\ document.version \in Nat
    BY DEF JournalInv, TypeInv, EditTypes, Document
  <1>2. ASSUME NEW continues \in BOOLEAN, TypeText(continues) PROVE RecoveryInv'
    <2>1. PICK tx : tx = PreappliedTransaction
      OBVIOUS
    <2>2. tx \in Transaction
      BY <1>2, <2>1, LocalTransactionType DEF TypeText, CanEdit, JournalInv, TypeInv
    <2>3. /\ tx.id = next_id /\ tx.origin = "User" /\ tx.edit = changes + 1
          /\ tx.requires \in {0, document.version}
      BY <2>1 DEF PreappliedTransaction
    <2>4. /\ CanEdit /\ UNCHANGED <<sessionVars, saveVars, storageVars, crashes>>
          /\ document' = Applied(document, tx) /\ pending' = Append(pending, tx)
          /\ next_id' = next_id + 1 /\ changes' = changes + 1
      BY <1>2, <2>1 DEF TypeText
    <2>5. QED
      BY <2>2, <2>3, <2>4, EditStep
  <1>3. ASSUME NEW versioned \in BOOLEAN, ApplyTransaction(versioned) PROVE RecoveryInv'
    <2>1. PICK tx : tx = LocalTransaction(versioned)
      OBVIOUS
    <2>2. tx \in Transaction
      BY <1>3, <2>1, LocalTransactionType DEF ApplyTransaction, CanEdit, JournalInv, TypeInv
    <2>3. /\ tx.id = next_id /\ tx.origin = "User" /\ tx.edit = changes + 1
          /\ tx.requires \in {0, document.version}
      BY <2>1 DEF LocalTransaction
    <2>4. /\ CanEdit /\ UNCHANGED <<sessionVars, saveVars, storageVars, crashes>>
          /\ document' = Applied(document, tx) /\ pending' = Append(pending, tx)
          /\ next_id' = NextIdAfter(next_id + 1, tx) /\ changes' = changes + 1
      BY <1>3, <2>1 DEF ApplyTransaction
    <2>5. NextIdAfter(next_id + 1, tx) = next_id + 1
      BY <1>1, <2>3 DEF NextIdAfter
    <2>6. QED
      BY <2>2, <2>3, <2>4, <2>5, EditStep
  <1>4. ~UndoText /\ ~RedoText /\ ~UndoTransaction /\ ~RedoTransaction /\ ~SetReadonly
    BY DEF Exact, NoUndo, UndoText, RedoText, UndoTransaction, RedoTransaction, SetReadonly
  <1>5. ASSUME UNCHANGED vars PROVE RecoveryInv'
    <2>1. CountInv'
      BY <1>5, SameCounts DEF RecoveryInv, vars, sessionVars, storageVars, editVars
    <2>2. RowTransactions' = RowTransactions /\ LogIds' = LogIds
      BY <1>5, RowsFrame DEF vars, storageVars
    <2>3. UNCHANGED <<state, batch, stored, durable, document, next_id, phase, Journal>>
      BY <1>5 DEF vars, sessionVars, storageVars, editVars, saveVars, Journal
    <2>4. Recoverable => Recoverable'
      BY <2>2, <2>3 DEF Recoverable
    <2>5. ASSUME NEW k, OpenAt(k) PROVE OpenAt(k)'
      BY <2>2, <2>3, <2>5 DEF OpenAt, JournalAt, RowsAt, BatchAt, KnownAt
    <2>6. QED
      BY <2>1, <2>3, <2>4, <2>5 DEF RecoveryInv
  <1>6. QED
    BY <1>2, <1>3, <1>4, <1>5, CaptureStep, AppendStep, CommitStep, AcknowledgeStep,
       SaveFailsStep, ApplySuccessStep, ApplyFailureStep, CrashStep, OpenStep DEF Next

(* In a session without undo, capture, append, commit, acknowledge,         *)
(* failure, crash and open keep the journal a line from the stored content  *)
(* to the document.                                                         *)
THEOREM RecoveryInvariant ==
  ASSUME Exact
  PROVE  Spec => [](JournalInv /\ RecoveryInv)
  <1>1. Init => RecoveryInv
    BY RecoveryInit
  <1>2. JournalInv /\ RecoveryInv /\ [Next]_vars => RecoveryInv'
    BY RecoveryStep
  <1>3. QED
    BY <1>1, <1>2, JournalInvariant, PTL DEF Spec

\* At any point of any session the log can be replayed exactly.
LEMMA AlwaysRecoverable ==
  ASSUME JournalInv, RecoveryInv
  PROVE  Recoverable
  <1>1. CASE state = "open"
    <2>1. PICK k \in 0..Len(Journal) : OpenAt(k)
      BY <1>1 DEF RecoveryInv
    <2>2. k \in Nat
      BY <2>1, JournalType
    <2>3. QED
      BY <2>1, <2>2, OpenRecoverable
  <1>2. CASE state # "open"
    BY <1>2 DEF RecoveryInv
  <1>3. QED
    BY <1>1, <1>2

(* Whenever the process ends, replaying the log on the stored content       *)
(* gives exactly the last capture that reached storage: save_storage_batch  *)
(* and project_emergency_recovery fit together at every point between       *)
(* append, commit and acknowledge.                                          *)
THEOREM JournalRecoveryFaithful ==
  ASSUME Exact
  PROVE  Spec => []RecoveryFaithful
  <1>1. JournalInv /\ RecoveryInv => RecoveryFaithful
    <2> SUFFICES ASSUME JournalInv, RecoveryInv PROVE RecoveryFaithful
      OBVIOUS
    <2>1. Replayed(RowsToRecover).document = durable
      BY AlwaysRecoverable, RecoveredExact
    <2>2. Len(RowsToRecover) > MaxLogEntries => ~Recovered.ok
      BY DEF Recovered, Loaded
    <2>3. ~(Len(RowsToRecover) > MaxLogEntries) => Recovered = Replayed(RowsToRecover)
      BY DEF Recovered
    <2>4. QED
      BY <2>1, <2>2, <2>3 DEF RecoveryFaithful
  <1>2. QED
    BY <1>1, RecoveryInvariant, PTL

(* Cold start never refuses the log that save_storage_batch wrote: the      *)
(* preconditions of every row hold when it is replayed. The number of rows  *)
(* must fit the limit of plan_emergency_recovery, which appending does not  *)
(* enforce.                                                                 *)
THEOREM JournalRecoveryOpens ==
  ASSUME Exact, MaxChanges <= MaxLogEntries
  PROVE  Spec => []RecoveryOpens
  <1>1. JournalInv /\ RecoveryInv => RecoveryOpens
    <2> SUFFICES ASSUME JournalInv, RecoveryInv PROVE RecoveryOpens
      OBVIOUS
    <2>1. Recoverable
      BY AlwaysRecoverable
    <2>2. PICK n : n = Len(RowTransactions)
      OBVIOUS
    <2>3. /\ n \in Nat /\ Len(RowsToRecover) = n /\ stored.version \in Nat
          /\ changes \in Nat /\ changes <= MaxChanges /\ MaxChanges \in Nat /\ MaxLogEntries \in Nat
      <3>1. changes \in 0..MaxChanges
        BY DEF JournalInv, TypeInv, EditTypes
      <3>2. MaxChanges \in Nat /\ MaxLogEntries \in Nat
        BY JournalAssumption
      <3>3. QED
        BY <2>2, <3>1, <3>2, RowTransactionsType
    <2>4. durable.version = stored.version + (n - 0)
      BY <2>1, <2>2 DEF Recoverable, At
    <2>5. durable.version <= 1 + changes /\ stored.version >= 1
      BY DEF RecoveryInv, CountInv
    <2>6. ~(Len(RowsToRecover) > MaxLogEntries)
      BY <2>3, <2>4, <2>5
    <2>7. Recovered = Replayed(RowsToRecover)
      BY <2>6 DEF Recovered
    <2>8. QED
      BY <2>1, <2>7, RecoveredExact DEF RecoveryOpens
  <1>2. QED
    BY <1>1, RecoveryInvariant, PTL

(* A failed save loses no edit: whatever the stored content lacks is in     *)
(* the journal or in the batch in flight (drain_ and                        *)
(* restore_pending_structure_transactions).                                 *)
THEOREM JournalIsComplete ==
  ASSUME Exact
  PROVE  Spec => []JournalComplete
  <1>1. JournalInv /\ RecoveryInv => JournalComplete
    <2> SUFFICES ASSUME JournalInv, RecoveryInv, state = "open",
                        NEW x \in document.edits, x \notin stored.edits
                 PROVE  x \in EditsOf(pending) \cup EditsOf(batch.transactions)
      BY DEF JournalComplete
    <2>1. PICK k \in 0..Len(Journal) : OpenAt(k)
      BY DEF RecoveryInv
    <2>2. PICK s : s = Journal
      OBVIOUS
    <2>3. PICK c : c = batch.transactions
      OBVIOUS
    <2>4. PICK q : q = pending
      OBVIOUS
    <2>5. /\ c \in Seq(Transaction) /\ q \in Seq(Transaction) /\ Len(c) \in Nat /\ Len(q) \in Nat
          /\ Len(s) = Len(c) + Len(q) /\ k \in Nat
          /\ (\A i \in 1..Len(c) : s[i] = c[i]) /\ (\A i \in 1..Len(q) : s[Len(c) + i] = q[i])
      BY <2>1, <2>2, <2>3, <2>4, JournalType
    <2>6. PICK i \in k + 1..Len(s) : x = s[i].edit
      <3>1. document.edits = stored.edits \cup {s[i].edit : i \in k + 1..Len(s)}
        BY <2>1, <2>2 DEF OpenAt, JournalAt, At
      <3>2. QED
        BY <3>1
    <2>7. CASE i <= Len(c)
      <3>1. i \in 1..Len(c) /\ s[i] = c[i]
        BY <2>5, <2>7
      <3>2. c[i] \in ToSet(c)
        BY <2>5, <3>1 DEF ToSet
      <3>3. QED
        BY <2>3, <2>6, <3>1, <3>2 DEF EditsOf
    <2>8. CASE ~(i <= Len(c))
      <3>1. PICK j : j = i - Len(c)
        OBVIOUS
      <3>2. j \in 1..Len(q) /\ Len(c) + j = i
        <4>1. /\ Len(c) \in Nat /\ Len(q) \in Nat /\ k \in Nat /\ Len(s) = Len(c) + Len(q)
              /\ i \in k + 1..Len(s)
          BY <2>5
        <4>2. QED
          BY ONLY <2>8, <3>1, <4>1
      <3>3. s[i] = q[j] /\ q[j] \in ToSet(q)
        BY <2>5, <3>2 DEF ToSet
      <3>4. QED
        BY <2>4, <2>6, <3>3 DEF EditsOf
    <2>9. QED
      BY <2>7, <2>8
  <1>2. QED
    BY <1>1, RecoveryInvariant, PTL

(* The allocator hands out increasing ids across failed saves, which put    *)
(* the older batch back in front, and across recoveries, which move the     *)
(* allocator past the replayed ids.                                         *)
THEOREM JournalIdsGrow ==
  ASSUME Exact
  PROVE  Spec => []JournalIdsIncrease
  <1>1. JournalInv /\ RecoveryInv => JournalIdsIncrease
    <2> SUFFICES ASSUME JournalInv, RecoveryInv, state = "open" PROVE Increasing(Journal)
      BY DEF JournalIdsIncrease, Increasing, Journal
    <2>1. PICK k \in 0..Len(Journal) : OpenAt(k)
      BY DEF RecoveryInv
    <2>2. QED
      BY <2>1 DEF OpenAt, JournalAt
  <1>2. QED
    BY <1>1, RecoveryInvariant, PTL

\* What a crash cannot take is the capture storage secured last ...
SecuredIsDurable == Secured = durable.edits

\* What a crash cannot take is what the last secured capture has ...
LEMMA SecuredEdits ==
  ASSUME JournalInv, RecoveryInv
  PROVE  SecuredIsDurable
  <1>1. PICK r : r = RowsToRecover
    OBVIOUS
  <1>2. r \in Seq(Row) /\ RowTransactions = TransactionsOf(r)
    BY <1>1, RowTransactionsType DEF RowTransactions
  <1>3. PICK t : t = TransactionsOf(r)
    OBVIOUS
  <1>4. /\ Len(t) = Len(r) /\ (\A i \in 1..Len(r) : t[i] = r[i].transaction)
        /\ DOMAIN r = 1..Len(r) /\ Len(r) \in Nat
    BY <1>2, <1>3, TransactionsOfType
  <1>5. durable.edits = stored.edits \cup {t[i].edit : i \in 0 + 1..Len(t)}
    BY <1>2, <1>3, AlwaysRecoverable DEF Recoverable, At
  <1>6. 0 + 1..Len(t) = 1..Len(r)
    BY <1>4
  <1>7. {row.transaction.edit : row \in ToSet(r)} = {t[i].edit : i \in 1..Len(r)}
    BY <1>4 DEF ToSet
  <1>8. QED
    BY <1>1, <1>5, <1>6, <1>7 DEF Secured, SecuredIsDurable

\* ... and no step makes that capture lose an edit.
LEMMA DurableGrows ==
  ASSUME JournalInv, RecoveryInv, [Next]_vars
  PROVE  durable.edits \subseteq durable'.edits
  <1>1. CASE AppendLog \/ Commit
    <2>1. state = "open" /\ phase # "none" /\ durable' = batch.document
      BY <1>1 DEF AppendLog, Commit, JournalInv, CleanInv
    <2>2. PICK k \in 0..Len(Journal) : OpenAt(k)
      BY <2>1 DEF RecoveryInv
    <2>3. PICK b : b = Len(batch.transactions)
      OBVIOUS
    <2>4. PICK m : m = k + Len(RowTransactions)
      OBVIOUS
    <2>5. k \in Nat /\ b \in Nat /\ m \in Nat
      BY <2>2, <2>3, <2>4, JournalType, RowTransactionsType
    <2>6. /\ m <= b /\ batch.document = At(Journal, k, stored, b)
          /\ durable = At(Journal, k, stored, m)
      BY <2>1, <2>2, <2>3, <2>4 DEF OpenAt, BatchAt, RowsAt
    <2>7. At(Journal, k, stored, m).edits \subseteq At(Journal, k, stored, b).edits
      BY <2>5, <2>6, AtGrows
    <2>8. QED
      BY <2>1, <2>6, <2>7
  <1>2. CASE ~(AppendLog \/ Commit)
    <2>1. durable' = durable
      BY <1>2 DEF Next, vars, storageVars, TypeText, ApplyTransaction, UndoText, RedoText,
                  RestoreSnapshot, UndoTransaction, RedoTransaction, SetReadonly, Capture,
                  Acknowledge, SaveFails, ApplySuccess, ApplyFailure, Crash, Open
    <2>2. QED
      BY <2>1
  <1>3. QED
    BY <1>1, <1>2

(* No step takes back an edit that is stored or in a row still to recover:  *)
(* a commit materializes and an acknowledge removes only rows whose edits   *)
(* are stored by then.                                                      *)
THEOREM JournalSecuredStaysSecured ==
  ASSUME Exact
  PROVE  Spec => SecuredStaysSecured
  <1>1. JournalInv /\ RecoveryInv => SecuredIsDurable
    BY SecuredEdits
  <1>2. JournalInv /\ RecoveryInv /\ SecuredIsDurable /\ SecuredIsDurable' /\ [Next]_vars
          => [Secured \subseteq Secured']_vars
    <2> SUFFICES ASSUME JournalInv, RecoveryInv, SecuredIsDurable, SecuredIsDurable', [Next]_vars
                 PROVE  Secured \subseteq Secured'
      OBVIOUS
    <2>1. durable.edits \subseteq durable'.edits
      BY DurableGrows
    <2>2. QED
      BY <2>1 DEF SecuredIsDurable
  <1>3. QED
    BY <1>1, <1>2, RecoveryInvariant, PTL DEF Spec, SecuredStaysSecured
=============================================================================
