----------------------- MODULE EmergencyJournalProofs -----------------------
(****************************************************************************)
(* Proofs about module EmergencyJournal for every setting of its            *)
(* constants: undo and redo, read-only opens, late failures and crashes     *)
(* included. The types, and that a clean document is what storage holds.    *)
(*                                                                          *)
(* The first part says what the recursive functions of the model compute.   *)
(* Their arguments are sequences of any length, so this is by induction:    *)
(* each lemma collects the lengths for which it holds in a set, and         *)
(* NumberInduction shows that the set is Nat.                               *)
(****************************************************************************)
EXTENDS EmergencyJournal, SequenceTheorems, WellFoundedInduction, TLAPS

-----------------------------------------------------------------------------
(* Induction, and what the recursive functions of the model compute.       *)

\* Induction over a set of numbers, from the order of the naturals.
LEMMA NumberInduction ==
  ASSUME NEW S, 0 \in S, \A n \in Nat : n \in S => n + 1 \in S
  PROVE  \A n \in Nat : n \in S
  <1> DEFINE T == {n \in Nat : n \notin S}
  <1>1. SUFFICES ASSUME T # {} PROVE FALSE
    OBVIOUS
  <1>2. PICK x \in T : \A y \in T : ~(<<y, x>> \in OpToRel(<, Nat))
    BY <1>1, NatLessThanWellFounded, WFMin
  <1>3. \A y \in Nat : y < x => y \in S
    BY <1>2 DEF OpToRel
  <1>4. x \in Nat /\ x # 0
    BY <1>2
  <1>5. x - 1 \in Nat /\ x - 1 < x /\ (x - 1) + 1 = x
    BY <1>4
  <1>6. QED
    BY <1>2, <1>3, <1>5

\* k is the function in Subsequence, up to m.
KeptUpTo(s, I, m, k) ==
    k = [n \in 0..m |-> IF n = 0 THEN <<>>
                        ELSE IF n \in I THEN Append(k[n - 1], s[n]) ELSE k[n - 1]]

\* Such a function exists for every length.
LEMMA KeptExists ==
  ASSUME NEW s, NEW I
  PROVE  \A m \in Nat : \E k : KeptUpTo(s, I, m, k)
  <1> DEFINE S == {x \in Nat : \E k : KeptUpTo(s, I, x, k)}
  <1>1. 0 \in S
    <2> DEFINE k == [n \in 0..0 |-> <<>>]
    <2>1. KeptUpTo(s, I, 0, k)
      BY DEF KeptUpTo
    <2>2. QED
      BY <2>1
  <1>2. ASSUME NEW y \in Nat, y \in S
        PROVE  y + 1 \in S
    <2>1. PICK k : KeptUpTo(s, I, y, k)
      BY <1>2
    <2>2. PICK x : x = y + 1
      OBVIOUS
    <2>3. PICK v : v = IF x \in I THEN Append(k[y], s[x]) ELSE k[y]
      OBVIOUS
    <2> DEFINE g == [n \in 0..x |-> IF n = x THEN v ELSE k[n]]
    <2>4. \A n \in 0..y : k[n] = IF n = 0 THEN <<>>
                                 ELSE IF n \in I THEN Append(k[n - 1], s[n]) ELSE k[n - 1]
      BY <2>1 DEF KeptUpTo
    <2>5. x \in Nat /\ x # 0 /\ x - 1 = y /\ \A n \in 0..x : n # x => n \in 0..y
      BY <2>2
    <2>6. \A n \in 0..x : n # 0 => n - 1 \in 0..x /\ n - 1 # x
      BY <2>5
    <2>7. \A n \in 0..x : n # 0 => g[n - 1] = k[n - 1]
      BY <2>6
    <2>8. ASSUME NEW n \in 0..x
          PROVE  (IF n = x THEN v ELSE k[n])
                   = IF n = 0 THEN <<>>
                     ELSE IF n \in I THEN Append(g[n - 1], s[n]) ELSE g[n - 1]
      <3> HIDE DEF g
      <3>1. QED
        BY <2>3, <2>4, <2>5, <2>7
    <2>9. KeptUpTo(s, I, x, g)
      BY <2>8 DEF KeptUpTo
    <2>10. QED
      BY <2>2, <2>5, <2>9
  <1> HIDE DEF S
  <1>3. \A m \in Nat : m \in S
    BY <1>1, <1>2, NumberInduction
  <1>4. QED
    BY <1>3 DEF S

\* Subsequence is its value at the end.
LEMMA KeptFunction ==
  ASSUME NEW X, NEW s \in Seq(X), NEW I
  PROVE  \E k : /\ Subsequence(s, I) = k[Len(s)]
                /\ k[0] = <<>>
                /\ \A n \in 0..Len(s) - 1 :
                     k[n + 1] = IF n + 1 \in I THEN Append(k[n], s[n + 1]) ELSE k[n]
  <1>1. Len(s) \in Nat
    OBVIOUS
  <1>2. \E k : KeptUpTo(s, I, Len(s), k)
    BY <1>1, KeptExists
  <1> DEFINE K == CHOOSE k : KeptUpTo(s, I, Len(s), k)
  <1>3. KeptUpTo(s, I, Len(s), K)
    BY <1>2
  <1>4. Subsequence(s, I) = K[Len(s)]
    BY DEF Subsequence, KeptUpTo
  <1> HIDE DEF K
  <1>5. \A n \in 0..Len(s) : K[n] = IF n = 0 THEN <<>>
                                    ELSE IF n \in I THEN Append(K[n - 1], s[n]) ELSE K[n - 1]
    BY <1>3 DEF KeptUpTo
  <1>6. K[0] = <<>>
    BY <1>1, <1>5
  <1>7. ASSUME NEW n \in 0..Len(s) - 1
        PROVE  K[n + 1] = IF n + 1 \in I THEN Append(K[n], s[n + 1]) ELSE K[n]
    <2>1. n + 1 \in 0..Len(s) /\ n + 1 # 0 /\ (n + 1) - 1 = n
      BY <1>1
    <2>2. QED
      BY <1>5, <2>1
  <1>8. QED
    BY <1>4, <1>6, <1>7

\* Elements in and elements out.
ComesFrom(s, I, t) == \A i \in 1..Len(t) : \E j \in 1..Len(s) : j \in I /\ t[i] = s[j]
KeepsAll(s, I, t) == \A j \in 1..Len(s) : j \in I => \E i \in 1..Len(t) : t[i] = s[j]

\* A subsequence has the elements at the indices in I, and no others.
LEMMA SubsequenceParts ==
  ASSUME NEW X, NEW s \in Seq(X), NEW I
  PROVE  /\ Subsequence(s, I) \in Seq(X)
         /\ ComesFrom(s, I, Subsequence(s, I)) /\ KeepsAll(s, I, Subsequence(s, I))
  <1>1. PICK k : /\ Subsequence(s, I) = k[Len(s)]
                 /\ k[0] = <<>>
                 /\ \A n \in 0..Len(s) - 1 :
                      k[n + 1] = IF n + 1 \in I THEN Append(k[n], s[n + 1]) ELSE k[n]
    BY KeptFunction
  <1> DEFINE P(n) == /\ k[n] \in Seq(X)
                     /\ \A i \in 1..Len(k[n]) : \E j \in 1..n : j \in I /\ k[n][i] = s[j]
                     /\ \A j \in 1..n : j \in I => \E i \in 1..Len(k[n]) : k[n][i] = s[j]
             S == {n \in Nat : n <= Len(s) => P(n)}
  <1>2. 0 \in S
    <2>1. k[0] \in Seq(X) /\ Len(k[0]) = 0
      BY <1>1
    <2>2. \A i \in 1..0 : FALSE
      OBVIOUS
    <2>3. P(0)
      BY <2>1, <2>2
    <2>4. QED
      BY <2>3
  <1>3. ASSUME NEW n \in Nat, n \in S
        PROVE  n + 1 \in S
    <2> SUFFICES ASSUME n + 1 <= Len(s) PROVE P(n + 1)
      OBVIOUS
    <2>1. n <= Len(s) /\ n \in 0..Len(s) - 1 /\ n + 1 \in 1..Len(s) /\ n + 1 \in 1..n + 1
      OBVIOUS
    <2>2. P(n)
      BY <1>3, <2>1
    <2>3. s[n + 1] \in X
      BY <2>1
    <2>4. \A j \in 1..n + 1 : j \in 1..n \/ j = n + 1
      OBVIOUS
    <2>5. \A j \in 1..n : j \in 1..n + 1
      OBVIOUS
    <2>6. CASE n + 1 \notin I
      <3>1. k[n + 1] = k[n]
        BY <1>1, <2>1, <2>6
      <3>2. QED
        BY <2>2, <2>4, <2>5, <2>6, <3>1
    <2>7. CASE n + 1 \in I
      <3> DEFINE a == k[n]
                 b == k[n + 1]
      <3>1. b = Append(a, s[n + 1])
        BY <1>1, <2>1, <2>7
      <3>2. a \in Seq(X) /\ Len(a) \in Nat
        BY <2>2
      <3>3. /\ b \in Seq(X) /\ Len(b) = Len(a) + 1
            /\ \A i \in 1..Len(a) : b[i] = a[i]
            /\ b[Len(a) + 1] = s[n + 1]
        BY <2>3, <3>1, <3>2
      <3> HIDE DEF a, b
      <3>4. \A i \in 1..Len(b) : i \in 1..Len(a) \/ i = Len(a) + 1
        BY <3>2, <3>3
      <3>5. (\A i \in 1..Len(a) : i \in 1..Len(b)) /\ Len(a) + 1 \in 1..Len(b)
        BY <3>2, <3>3
      <3>6. \A i \in 1..Len(b) : \E j \in 1..n + 1 : j \in I /\ b[i] = s[j]
        BY <2>1, <2>2, <2>5, <2>7, <3>3, <3>4 DEF a
      <3>7. \A j \in 1..n + 1 : j \in I => \E i \in 1..Len(b) : b[i] = s[j]
        BY <2>2, <2>4, <3>3, <3>5 DEF a
      <3>8. QED
        BY <3>3, <3>6, <3>7 DEF b
    <2>8. QED
      BY <2>6, <2>7
  <1> HIDE DEF S
  <1>4. \A n \in Nat : n \in S
    BY <1>2, <1>3, NumberInduction
  <1>5. P(Len(s))
    <2>1. Len(s) \in Nat /\ Len(s) <= Len(s)
      OBVIOUS
    <2>2. QED
      BY <1>4, <2>1 DEF S
  <1>6. QED
    BY <1>1, <1>5 DEF ComesFrom, KeepsAll

\* The same, and its type.
LEMMA SubsequenceElements ==
  ASSUME NEW X, NEW s \in Seq(X), NEW I
  PROVE  LET t == Subsequence(s, I)
         IN  t \in Seq(X) /\ \A i \in 1..Len(t) : \E j \in 1..Len(s) : j \in I /\ t[i] = s[j]
  <1>1. Subsequence(s, I) \in Seq(X) /\ ComesFrom(s, I, Subsequence(s, I))
    BY SubsequenceParts
  <1>2. QED
    BY <1>1 DEF ComesFrom

\* Append, element by element.
LEMMA Appended ==
  ASSUME NEW X, NEW s \in Seq(X), NEW e \in X
  PROVE  /\ Append(s, e) \in Seq(X) /\ Len(Append(s, e)) = Len(s) + 1 /\ Len(s) \in Nat
         /\ \A i \in 1..Len(s) : Append(s, e)[i] = s[i]
         /\ Append(s, e)[Len(s) + 1] = e
  OBVIOUS

\* Rows with growing sequences.
Growing(rows) ==
    \A i \in 1..Len(rows) : \A j \in 1..Len(rows) : i < j => rows[i].sequence < rows[j].sequence

\* A subsequence of rows in sequence order is in sequence order.
LEMMA SubsequenceGrows ==
  ASSUME NEW X, NEW s \in Seq(X), NEW I, Growing(s)
  PROVE  Growing(Subsequence(s, I))
  <1>1. PICK k : /\ Subsequence(s, I) = k[Len(s)]
                 /\ k[0] = <<>>
                 /\ \A n \in 0..Len(s) - 1 :
                      k[n + 1] = IF n + 1 \in I THEN Append(k[n], s[n + 1]) ELSE k[n]
    BY ONLY s \in Seq(X), KeptFunction
  <1> DEFINE P(n) == /\ k[n] \in Seq(X) /\ Growing(k[n])
                     /\ \A i \in 1..Len(k[n]) : \E j \in 1..n : k[n][i] = s[j]
             S == {n \in Nat : n <= Len(s) => P(n)}
  <1>2. 0 \in S
    <2>1. k[0] \in Seq(X) /\ Len(k[0]) = 0
      BY <1>1
    <2>2. \A i \in 1..0 : FALSE
      OBVIOUS
    <2>3. P(0)
      BY <2>1, <2>2 DEF Growing
    <2>4. QED
      BY <2>3
  <1>3. ASSUME NEW n \in Nat, n \in S
        PROVE  n + 1 \in S
    <2> SUFFICES ASSUME n + 1 <= Len(s) PROVE P(n + 1)
      OBVIOUS
    <2>1. n <= Len(s) /\ n \in 0..Len(s) - 1 /\ n + 1 \in 1..Len(s) /\ n + 1 \in 1..n + 1
      OBVIOUS
    <2>2. P(n)
      BY <1>3, <2>1
    <2>3. \A j \in 1..n : j \in 1..n + 1 /\ j \in 1..Len(s) /\ j < n + 1
      BY <2>1
    <2>4. CASE n + 1 \notin I
      <3>1. k[n + 1] = k[n]
        BY <1>1, <2>1, <2>4
      <3>2. QED
        BY <2>2, <2>3, <3>1
    <2>5. CASE n + 1 \in I
      <3> DEFINE a == k[n]
                 b == k[n + 1]
      <3>0. s[n + 1] \in X
        BY <2>1
      <3>1. b = Append(a, s[n + 1])
        BY <1>1, <2>1, <2>5
      <3>2. a \in Seq(X) /\ Len(a) \in Nat
        BY <2>2
      <3>3. /\ b \in Seq(X) /\ Len(b) = Len(a) + 1
            /\ \A i \in 1..Len(a) : b[i] = a[i]
            /\ b[Len(a) + 1] = s[n + 1]
        BY <3>0, <3>1, <3>2, Appended
      <3> HIDE DEF a, b
      <3>4. \A i \in 1..Len(b) : i \in 1..Len(a) \/ i = Len(a) + 1
        BY <3>2, <3>3
      <3>5. \A i \in 1..Len(b) : \E j \in 1..n + 1 : b[i] = s[j]
        BY <2>1, <2>2, <2>3, <3>3, <3>4 DEF a
      <3>6. \A i \in 1..Len(a) : a[i].sequence < s[n + 1].sequence
        BY <2>1, <2>2, <2>3 DEF a, Growing
      <3>7. Growing(a)
        BY <2>2 DEF a
      <3>8. ASSUME NEW i \in 1..Len(b), NEW j \in 1..Len(b), i < j
            PROVE  b[i].sequence < b[j].sequence
        <4>1. i \in 1..Len(a)
          BY <3>2, <3>3, <3>8
        <4>2. CASE j \in 1..Len(a)
          BY <3>3, <3>7, <3>8, <4>1, <4>2 DEF Growing
        <4>3. CASE j = Len(a) + 1
          BY <3>3, <3>6, <4>1, <4>3
        <4>4. QED
          BY <3>4, <4>2, <4>3
      <3>9. QED
        BY <3>3, <3>5, <3>8 DEF b, Growing
    <2>6. QED
      BY <2>4, <2>5
  <1> HIDE DEF S
  <1>4. \A n \in Nat : n \in S
    BY <1>2, <1>3, NumberInduction
  <1>5. P(Len(s))
    <2>1. Len(s) \in Nat /\ Len(s) <= Len(s)
      OBVIOUS
    <2>2. QED
      BY <1>4, <2>1 DEF S
  <1>6. QED
    BY <1>1, <1>5

\* All elements from an index on.
LEMMA SubsequenceTail ==
  ASSUME NEW X, NEW s \in Seq(X), NEW I, NEW p \in 0..Len(s),
         \A i \in 1..Len(s) : i \in I <=> i > p
  PROVE  LET t == Subsequence(s, I)
         IN  Len(t) = Len(s) - p /\ \A i \in 1..Len(s) - p : t[i] = s[p + i]
  <1>1. PICK k : /\ Subsequence(s, I) = k[Len(s)]
                 /\ k[0] = <<>>
                 /\ \A n \in 0..Len(s) - 1 :
                      k[n + 1] = IF n + 1 \in I THEN Append(k[n], s[n + 1]) ELSE k[n]
    BY KeptFunction
  <1> DEFINE P(n) == /\ k[n] \in Seq(X)
                     /\ n <= p => Len(k[n]) = 0
                     /\ n > p => /\ Len(k[n]) = n - p
                                 /\ \A i \in 1..n - p : k[n][i] = s[p + i]
             S == {n \in Nat : n <= Len(s) => P(n)}
  <1>2. 0 \in S
    <2>1. k[0] \in Seq(X) /\ Len(k[0]) = 0
      BY <1>1
    <2>2. 0 <= p
      OBVIOUS
    <2>3. P(0)
      BY <2>1, <2>2
    <2>4. QED
      BY <2>3
  <1>3. ASSUME NEW n \in Nat, n \in S
        PROVE  n + 1 \in S
    <2> SUFFICES ASSUME n + 1 <= Len(s) PROVE P(n + 1)
      OBVIOUS
    <2>1. n <= Len(s) /\ n \in 0..Len(s) - 1 /\ n + 1 \in 1..Len(s) /\ s[n + 1] \in X
      OBVIOUS
    <2>2. P(n)
      BY <1>3, <2>1
    <2>3. n + 1 \in I <=> n + 1 > p
      BY <2>1
    <2>4. CASE n + 1 <= p
      <3>1. k[n + 1] = k[n]
        BY <1>1, <2>1, <2>3, <2>4
      <3>2. QED
        BY <2>2, <2>4, <3>1
    <2>5. CASE n + 1 > p
      <3> DEFINE a == k[n]
                 b == k[n + 1]
      <3>1. b = Append(a, s[n + 1])
        BY <1>1, <2>1, <2>3, <2>5
      <3>2. a \in Seq(X) /\ Len(a) = n - p
        BY <2>2, <2>5
      <3>3. /\ b \in Seq(X) /\ Len(b) = Len(a) + 1
            /\ \A i \in 1..Len(a) : b[i] = a[i]
            /\ b[Len(a) + 1] = s[n + 1]
        BY <2>1, <3>1, <3>2, Appended
      <3>4. \A i \in 1..Len(a) : a[i] = s[p + i]
        BY <2>2, <2>5, <3>2
      <3> HIDE DEF a, b
      <3>5. Len(b) = (n + 1) - p
        BY <3>2, <3>3
      <3>6. ASSUME NEW i \in 1..(n + 1) - p
            PROVE  b[i] = s[p + i]
        <4>1. CASE i \in 1..Len(a)
          BY <3>3, <3>4, <4>1
        <4>2. CASE i = Len(a) + 1
          <5>1. p + i = n + 1
            BY <3>2, <4>2
          <5>2. QED
            BY <3>3, <4>2, <5>1
        <4>3. QED
          BY <3>2, <4>1, <4>2
      <3>7. QED
        BY <2>5, <3>3, <3>5, <3>6 DEF b
    <2>6. QED
      BY <2>4, <2>5
  <1> HIDE DEF S
  <1>4. \A n \in Nat : n \in S
    BY <1>2, <1>3, NumberInduction
  <1>5. P(Len(s))
    <2>1. Len(s) \in Nat /\ Len(s) <= Len(s)
      OBVIOUS
    <2>2. QED
      BY <1>4, <2>1 DEF S
  <1>6. QED
    BY <1>1, <1>5

\* New elements that all count.
Extends(s, I, u, J) ==
    /\ Len(u) >= Len(s) /\ \A i \in 1..Len(s) : u[i] = s[i]
    /\ \A i \in 1..Len(s) : i \in J <=> i \in I
    /\ \A i \in Len(s) + 1..Len(u) : i \in J

Continues(a, b, s, u) ==
    /\ Len(b) = Len(a) + (Len(u) - Len(s))
    /\ \A i \in 1..Len(a) : b[i] = a[i]
    /\ \A i \in 1..Len(u) - Len(s) : b[Len(a) + i] = u[Len(s) + i]

\* A sequence that continues another has a subsequence that continues its.
LEMMA SubsequenceExtended ==
  ASSUME NEW X, NEW s \in Seq(X), NEW u \in Seq(X), NEW I, NEW J, Extends(s, I, u, J)
  PROVE  Continues(Subsequence(s, I), Subsequence(u, J), s, u)
  <1>0. /\ Len(u) >= Len(s) /\ \A i \in 1..Len(s) : u[i] = s[i]
        /\ \A i \in 1..Len(s) : i \in J <=> i \in I
        /\ \A i \in Len(s) + 1..Len(u) : i \in J
    BY DEF Extends
  <1>1. PICK k : /\ Subsequence(s, I) = k[Len(s)]
                 /\ k[0] = <<>>
                 /\ \A n \in 0..Len(s) - 1 :
                      k[n + 1] = IF n + 1 \in I THEN Append(k[n], s[n + 1]) ELSE k[n]
    BY KeptFunction
  <1>2. PICK g : /\ Subsequence(u, J) = g[Len(u)]
                 /\ g[0] = <<>>
                 /\ \A n \in 0..Len(u) - 1 :
                      g[n + 1] = IF n + 1 \in J THEN Append(g[n], u[n + 1]) ELSE g[n]
    BY KeptFunction
  <1>3. Len(s) \in Nat /\ Len(u) \in Nat /\ Len(u) >= Len(s)
    BY <1>0
  <1>4. PICK a : a = Subsequence(s, I)
    OBVIOUS
  <1>5. a \in Seq(X) /\ Len(a) \in Nat
    BY <1>4, SubsequenceElements
  <1>6. g[Len(s)] = a
    <2> DEFINE S == {n \in Nat : n <= Len(s) => g[n] = k[n]}
    <2>1. 0 \in S
      BY <1>1, <1>2
    <2>2. ASSUME NEW n \in Nat, n \in S
          PROVE  n + 1 \in S
      <3> SUFFICES ASSUME n + 1 <= Len(s) PROVE g[n + 1] = k[n + 1]
        OBVIOUS
      <3>1. /\ n <= Len(s) /\ n \in 0..Len(s) - 1 /\ n \in 0..Len(u) - 1
            /\ n + 1 \in 1..Len(s)
        BY <1>3
      <3>2. g[n] = k[n]
        BY <2>2, <3>1
      <3>3. u[n + 1] = s[n + 1] /\ (n + 1 \in J <=> n + 1 \in I)
        BY <1>0, <3>1
      <3>4. QED
        BY <1>1, <1>2, <3>1, <3>2, <3>3
    <2> HIDE DEF S
    <2>3. \A n \in Nat : n \in S
      BY <2>1, <2>2, NumberInduction
    <2>4. Len(s) \in S /\ Len(s) <= Len(s)
      BY <1>3, <2>3
    <2>5. QED
      BY <1>1, <1>4, <2>4 DEF S
  <1> DEFINE P(n) == /\ g[Len(s) + n] \in Seq(X)
                     /\ Len(g[Len(s) + n]) = Len(a) + n
                     /\ \A i \in 1..Len(a) : g[Len(s) + n][i] = a[i]
                     /\ \A i \in 1..n : g[Len(s) + n][Len(a) + i] = u[Len(s) + i]
             T == {n \in Nat : n <= Len(u) - Len(s) => P(n)}
  <1>7. 0 \in T
    <2>1. Len(s) + 0 = Len(s) /\ Len(a) + 0 = Len(a)
      BY <1>3, <1>5
    <2>2. \A i \in 1..0 : FALSE
      OBVIOUS
    <2>3. P(0)
      BY <1>5, <1>6, <2>1, <2>2
    <2>4. QED
      BY <2>3
  <1>8. ASSUME NEW n \in Nat, n \in T
        PROVE  n + 1 \in T
    <2> SUFFICES ASSUME n + 1 <= Len(u) - Len(s) PROVE P(n + 1)
      OBVIOUS
    <2>1. /\ n <= Len(u) - Len(s) /\ Len(s) + n \in 0..Len(u) - 1
          /\ (Len(s) + n) + 1 \in Len(s) + 1..Len(u) /\ (Len(s) + n) + 1 = Len(s) + (n + 1)
          /\ Len(s) + (n + 1) \in 1..Len(u)
      BY <1>3
    <2>2. P(n)
      BY <1>8, <2>1
    <2>3. PICK x : x = Len(s) + (n + 1)
      OBVIOUS
    <2> DEFINE c == g[Len(s) + n]
               b == g[x]
    <2>4. b = Append(c, u[x])
      BY <1>0, <1>2, <2>1, <2>3
    <2>5. u[x] \in X
      BY <2>1, <2>3
    <2>6. c \in Seq(X) /\ Len(c) = Len(a) + n
      BY <2>2
    <2>7. /\ b \in Seq(X) /\ Len(b) = Len(c) + 1
          /\ \A i \in 1..Len(c) : b[i] = c[i]
          /\ b[Len(c) + 1] = u[x]
      <3> HIDE DEF c, b
      <3>1. QED
        BY ONLY <2>4, <2>5, <2>6, Appended
    <2>8. /\ \A i \in 1..Len(a) : c[i] = a[i]
          /\ \A i \in 1..n : c[Len(a) + i] = u[Len(s) + i]
      BY <2>2
    <2> HIDE DEF c, b
    <2>9. Len(b) = Len(a) + (n + 1)
      BY <1>5, <2>6, <2>7
    <2>10. ASSUME NEW i \in 1..Len(a)
           PROVE  b[i] = a[i]
      <3>1. i \in 1..Len(c)
        BY <1>5, <2>6
      <3>2. QED
        BY <2>7, <2>8, <3>1
    <2>11. ASSUME NEW i \in 1..n + 1
           PROVE  b[Len(a) + i] = u[Len(s) + i]
      <3>1. CASE i \in 1..n
        <4>1. Len(a) + i \in 1..Len(c)
          BY <1>5, <2>6, <3>1
        <4>2. QED
          BY <2>7, <2>8, <3>1, <4>1
      <3>2. CASE i = n + 1
        <4>1. Len(a) + i = Len(c) + 1
          BY <1>5, <2>6, <3>2
        <4>2. QED
          BY <2>3, <2>7, <3>2, <4>1
      <3>3. QED
        BY <3>1, <3>2
    <2>12. QED
      BY <2>3, <2>7, <2>9, <2>10, <2>11 DEF b
  <1> HIDE DEF T
  <1>9. \A n \in Nat : n \in T
    BY <1>7, <1>8, NumberInduction
  <1>10. P(Len(u) - Len(s)) /\ Len(s) + (Len(u) - Len(s)) = Len(u)
    <2>1. PICK d : d = Len(u) - Len(s)
      OBVIOUS
    <2>2. d \in Nat /\ d <= Len(u) - Len(s) /\ Len(s) + d = Len(u)
      BY <1>3, <2>1
    <2>3. P(d)
      BY <1>9, <2>2 DEF T
    <2>4. QED
      BY <2>1, <2>2, <2>3
  <1>11. QED
    BY <1>2, <1>4, <1>10 DEF Continues
-----------------------------------------------------------------------------
(* Types: everything the journal, the save and the log hold.               *)

Row == [sequence : Nat, transaction : Transaction, materialized : BOOLEAN]
Batch == [transactions : Seq(Transaction), document : Document, through : Nat]
Runtime == [ok : BOOLEAN, document : Document, pending : Seq(Transaction),
            undo : Seq(UndoEvent), next_id : Nat \ {0}]

SessionTypes ==
    /\ state \in {"open", "closed", "refused"}
    /\ readonly \in BOOLEAN /\ unpersisted \in BOOLEAN

EditTypes ==
    /\ document \in Document
    /\ pending \in Seq(Transaction) /\ next_id \in Nat \ {0}
    /\ changes \in 0..MaxChanges

HistoryTypes ==
    /\ undo \in Seq(UndoEvent) /\ redo \in Seq(UndoEvent)
    /\ typing_group \in BOOLEAN
    /\ typing_group => undo # <<>> /\ Last(undo).type = "Text" /\ redo = <<>>

SaveTypes == phase \in Phase /\ batch \in Batch

StorageTypes ==
    /\ stored \in Document /\ durable \in Document
    /\ log \in Seq(Row) /\ sequence \in Nat
    /\ Growing(log)
    /\ \A i \in 1..Len(log) : log[i].sequence <= sequence

TypeInv == SessionTypes /\ EditTypes /\ HistoryTypes /\ SaveTypes /\ StorageTypes

\* The types of the operators that build transactions, documents and events.
LEMMA AppliedType ==
  ASSUME NEW d \in Document, NEW tx \in Transaction
  PROVE  Applied(d, tx) \in Document
  BY DEF Applied, Document, Transaction

\* Allocated ids are numbers.
LEMMA NextIdType ==
  ASSUME NEW n \in Nat \ {0}, NEW tx \in Transaction
  PROVE  NextIdAfter(n, tx) \in Nat \ {0} /\ NextIdAfter(n, tx) >= n
         /\ NextIdAfter(n, tx) > tx.id
  BY DEF NextIdAfter, Transaction

\* Recording keeps the undo stack one of events.
LEMMA RecordUndoType ==
  ASSUME NEW u \in Seq(UndoEvent), NEW tx \in Transaction
  PROVE  RecordUndo(u, tx) \in Seq(UndoEvent)
  <1>1. [tx EXCEPT !.requires = 0] \in Transaction
    BY DEF Transaction
  <1>2. [type |-> "Transaction", transaction |-> [tx EXCEPT !.requires = 0]] \in UndoEvent
    BY <1>1 DEF UndoEvent
  <1>3. QED
    BY <1>2 DEF RecordUndo

\* A typing snapshot is an undo event.
LEMMA TextEventType ==
  ASSUME NEW d \in Document
  PROVE  [type |-> "Text", snapshot |-> d] \in UndoEvent
  BY DEF UndoEvent

\* What is on top of a stack of undo events.
LEMMA TopOfStack ==
  ASSUME NEW u \in Seq(UndoEvent), u # <<>>
  PROVE  /\ Last(u) \in UndoEvent /\ Front(u) \in Seq(UndoEvent)
         /\ Last(u).type = "Text" => Last(u).snapshot \in Document
         /\ Last(u).type = "Transaction" => Last(u).transaction \in Transaction
  <1>1. Len(u) \in Nat /\ Len(u) >= 1 /\ Len(u) \in 1..Len(u)
    OBVIOUS
  <1>2. Last(u) \in UndoEvent
    BY <1>1 DEF Last
  <1>3. Front(u) \in Seq(UndoEvent)
    BY <1>1 DEF Front
  <1>4. QED
    BY <1>2, <1>3 DEF UndoEvent

\* The replay of rows on the stored content, row by row.
ReplayUpTo(base, rows, m, f) ==
    f = [n \in 0..m |-> IF n = 0 THEN base ELSE ReplayRow(f[n - 1], rows[n])]

\* There is a replay of every length.
LEMMA ReplayExists ==
  ASSUME NEW base, NEW rows
  PROVE  \A m \in Nat : \E f : ReplayUpTo(base, rows, m, f)
  <1> DEFINE S == {x \in Nat : \E f : ReplayUpTo(base, rows, x, f)}
  <1>1. 0 \in S
    <2> DEFINE f == [n \in 0..0 |-> base]
    <2>1. ReplayUpTo(base, rows, 0, f)
      BY DEF ReplayUpTo
    <2>2. QED
      BY <2>1
  <1>2. ASSUME NEW y \in Nat, y \in S
        PROVE  y + 1 \in S
    <2>1. PICK f : ReplayUpTo(base, rows, y, f)
      BY <1>2
    <2>2. PICK x : x = y + 1
      OBVIOUS
    <2>3. PICK v : v = ReplayRow(f[y], rows[x])
      OBVIOUS
    <2> DEFINE g == [n \in 0..x |-> IF n = x THEN v ELSE f[n]]
    <2>4. \A n \in 0..y : f[n] = IF n = 0 THEN base ELSE ReplayRow(f[n - 1], rows[n])
      BY <2>1 DEF ReplayUpTo
    <2>5. x \in Nat /\ x # 0 /\ x - 1 = y /\ \A n \in 0..x : n # x => n \in 0..y
      BY <2>2
    <2>6. \A n \in 0..x : n # 0 => n - 1 \in 0..x /\ n - 1 # x
      BY <2>5
    <2>7. \A n \in 0..x : n # 0 => g[n - 1] = f[n - 1]
      BY <2>6
    <2>8. ASSUME NEW n \in 0..x
          PROVE  (IF n = x THEN v ELSE f[n])
                   = IF n = 0 THEN base ELSE ReplayRow(g[n - 1], rows[n])
      <3> HIDE DEF g
      <3>1. QED
        BY <2>3, <2>4, <2>5, <2>7
    <2>9. ReplayUpTo(base, rows, x, g)
      BY <2>8 DEF ReplayUpTo
    <2>10. QED
      BY <2>2, <2>5, <2>9
  <1> HIDE DEF S
  <1>3. \A m \in Nat : m \in S
    BY <1>1, <1>2, NumberInduction
  <1>4. QED
    BY <1>3 DEF S

\* Replayed is its result after the last row.
LEMMA ReplayFunction ==
  ASSUME NEW rows, Len(rows) \in Nat
  PROVE  \E f : /\ Replayed(rows) = f[Len(rows)]
                /\ f[0] = Loaded
                /\ \A n \in 0..Len(rows) - 1 : f[n + 1] = ReplayRow(f[n], rows[n + 1])
  <1>2. \E f : ReplayUpTo(Loaded, rows, Len(rows), f)
    BY ReplayExists
  <1> DEFINE R == CHOOSE f : ReplayUpTo(Loaded, rows, Len(rows), f)
  <1>3. ReplayUpTo(Loaded, rows, Len(rows), R)
    BY <1>2
  <1>4. Replayed(rows) = R[Len(rows)]
    BY DEF Replayed, ReplayUpTo
  <1> HIDE DEF R
  <1>5. \A n \in 0..Len(rows) : R[n] = IF n = 0 THEN Loaded ELSE ReplayRow(R[n - 1], rows[n])
    BY <1>3 DEF ReplayUpTo
  <1>6. R[0] = Loaded
    BY <1>5
  <1>7. ASSUME NEW n \in 0..Len(rows) - 1
        PROVE  R[n + 1] = ReplayRow(R[n], rows[n + 1])
    <2>1. n + 1 \in 0..Len(rows) /\ n + 1 # 0 /\ (n + 1) - 1 = n
      OBVIOUS
    <2>2. QED
      BY <1>5, <2>1
  <1>8. QED
    BY <1>4, <1>6, <1>7
\* One replayed row keeps the types; a replay that fails stays failed.
LEMMA ReplayRowType ==
  ASSUME NEW r \in Runtime, NEW row \in Row
  PROVE  /\ ReplayRow(r, row) \in Runtime
         /\ ReplayRow(r, row).ok => /\ r.ok
                                    /\ ReplayRow(r, row).pending = Append(r.pending, row.transaction)
  <1> DEFINE tx == row.transaction
  <1>1. tx \in Transaction
    BY DEF Row
  <1>2. r.document \in Document /\ r.pending \in Seq(Transaction) /\ r.undo \in Seq(UndoEvent)
        /\ r.next_id \in Nat \ {0}
    BY DEF Runtime
  <1>3. CASE ~r.ok \/ ~Applicable(r.document, tx)
    <2>1. ReplayRow(r, row) = [r EXCEPT !.ok = FALSE]
      BY <1>3 DEF ReplayRow
    <2>2. QED
      BY <2>1 DEF Runtime
  <1>4. CASE ~(~r.ok \/ ~Applicable(r.document, tx))
    <2>1. ReplayRow(r, row) = [ok |-> TRUE,
              document |-> Applied(r.document, tx),
              pending |-> Append(r.pending, tx),
              undo |-> RecordUndo(r.undo, tx),
              next_id |-> NextIdAfter(r.next_id, tx)]
      BY <1>4 DEF ReplayRow
    <2>2. Applied(r.document, tx) \in Document
      BY <1>1, <1>2, AppliedType
    <2>3. RecordUndo(r.undo, tx) \in Seq(UndoEvent)
      BY <1>1, <1>2, RecordUndoType
    <2>4. NextIdAfter(r.next_id, tx) \in Nat \ {0}
      BY <1>1, <1>2, NextIdType
    <2>5. Append(r.pending, tx) \in Seq(Transaction)
      BY <1>1, <1>2
    <2> HIDE DEF tx
    <2>6. QED
      BY <1>4, <2>1, <2>2, <2>3, <2>4, <2>5 DEF Runtime, tx
  <1>5. QED
    BY <1>3, <1>4

\* A replay keeps the types, and one that succeeds has taken every row.
LEMMA ReplayType ==
  ASSUME stored \in Document, NEW rows \in Seq(Row)
  PROVE  /\ Replayed(rows) \in Runtime
         /\ Replayed(rows).ok => Len(Replayed(rows).pending) = Len(rows)
         /\ Len(rows) = 0 => Replayed(rows) = Loaded
  <1>1. Len(rows) \in Nat
    OBVIOUS
  <1>2. PICK f : /\ Replayed(rows) = f[Len(rows)]
                 /\ f[0] = Loaded
                 /\ \A n \in 0..Len(rows) - 1 : f[n + 1] = ReplayRow(f[n], rows[n + 1])
    BY ONLY <1>1, ReplayFunction
  <1> DEFINE P(n) == f[n] \in Runtime /\ (f[n].ok => Len(f[n].pending) = n)
             S == {n \in Nat : n <= Len(rows) => P(n)}
  <1>3. 0 \in S
    <2>1. Loaded \in Runtime /\ Len(Loaded.pending) = 0
      BY DEF Loaded, Runtime
    <2>2. QED
      BY <1>2, <2>1
  <1>4. ASSUME NEW n \in Nat, n \in S
        PROVE  n + 1 \in S
    <2> SUFFICES ASSUME n + 1 <= Len(rows) PROVE P(n + 1)
      OBVIOUS
    <2>1. n <= Len(rows) /\ n \in 0..Len(rows) - 1 /\ n + 1 \in 1..Len(rows)
      OBVIOUS
    <2>2. P(n)
      BY <1>4, <2>1
    <2>3. rows[n + 1] \in Row
      BY <2>1
    <2>4. PICK r : r = f[n]
      OBVIOUS
    <2>5. PICK row : row = rows[n + 1]
      OBVIOUS
    <2>6. f[n + 1] = ReplayRow(r, row)
      BY <1>2, <2>1, <2>4, <2>5
    <2>7. r \in Runtime /\ (r.ok => Len(r.pending) = n) /\ row \in Row
      BY <2>2, <2>3, <2>4, <2>5
    <2>8. /\ ReplayRow(r, row) \in Runtime
          /\ ReplayRow(r, row).ok => /\ r.ok
                                     /\ ReplayRow(r, row).pending = Append(r.pending, row.transaction)
      BY ONLY <2>7, ReplayRowType
    <2>9. r.ok => Len(Append(r.pending, row.transaction)) = n + 1
      BY <2>7 DEF Runtime, Row
    <2>10. QED
      BY <2>6, <2>8, <2>9
  <1> HIDE DEF S
  <1>5. \A n \in Nat : n \in S
    BY <1>3, <1>4, NumberInduction
  <1>6. P(Len(rows))
    BY <1>1, <1>5 DEF S
  <1>7. QED
    BY <1>2, <1>6

\* The rows to recover are rows of the log.
LEMMA RowsToRecoverType ==
  ASSUME log \in Seq(Row)
  PROVE  RowsToRecover \in Seq(Row)
  <1>1. PICK s : s = log
    OBVIOUS
  <1>2. PICK I : I = {i \in DOMAIN log : ~log[i].materialized}
    OBVIOUS
  <1>3. s \in Seq(Row)
    BY <1>1
  <1>4. Subsequence(s, I) \in Seq(Row)
    BY ONLY <1>3, SubsequenceElements
  <1>5. QED
    BY <1>1, <1>2, <1>4 DEF RowsToRecover

\* What cold start makes of storage.
LEMMA RecoveredType ==
  ASSUME stored \in Document, log \in Seq(Row)
  PROVE  /\ Recovered \in Runtime
         /\ Recovered.ok /\ Recovered.pending = <<>> => Recovered.document = stored
  <1>1. RowsToRecover \in Seq(Row)
    BY RowsToRecoverType
  <1>2. Loaded \in Runtime /\ Loaded.document = stored
    BY DEF Loaded, Runtime
  <1>3. CASE Len(RowsToRecover) > MaxLogEntries
    <2>1. Recovered = [Loaded EXCEPT !.ok = FALSE]
      BY <1>3 DEF Recovered
    <2>2. QED
      BY <1>2, <2>1 DEF Runtime
  <1>4. CASE ~(Len(RowsToRecover) > MaxLogEntries)
    <2>1. Recovered = Replayed(RowsToRecover)
      BY <1>4 DEF Recovered
    <2>2. PICK rows : rows = RowsToRecover
      OBVIOUS
    <2>3. rows \in Seq(Row)
      BY <1>1, <2>2
    <2>4. /\ Replayed(rows) \in Runtime
          /\ Replayed(rows).ok => Len(Replayed(rows).pending) = Len(rows)
          /\ Len(rows) = 0 => Replayed(rows) = Loaded
      BY <2>3, ReplayType
    <2>5. Recovered = Replayed(rows)
      BY <2>1, <2>2
    <2>6. Len(<<>>) = 0
      OBVIOUS
    <2>7. QED
      BY <1>2, <2>4, <2>5, <2>6
  <1>5. QED
    BY <1>3, <1>4

\* The rows an append adds.
LEMMA NewRowsType ==
  ASSUME sequence \in Nat, NEW txs \in Seq(Transaction)
  PROVE  /\ NewRows(txs) \in Seq(Row) /\ Len(NewRows(txs)) = Len(txs)
         /\ \A i \in 1..Len(txs) : /\ NewRows(txs)[i].sequence = sequence + i
                                   /\ NewRows(txs)[i].transaction = txs[i]
                                   /\ NewRows(txs)[i].materialized = FALSE
  <1>1. Len(txs) \in Nat
    OBVIOUS
  <1>2. ASSUME NEW i \in 1..Len(txs)
        PROVE  [sequence |-> sequence + i, transaction |-> txs[i], materialized |-> FALSE] \in Row
    <2>1. txs[i] \in Transaction /\ sequence + i \in Nat
      OBVIOUS
    <2>2. QED
      BY <2>1 DEF Row
  <1>3. NewRows(txs) \in [1..Len(txs) -> Row]
    BY <1>2 DEF NewRows
  <1>4. NewRows(txs) \in Seq(Row) /\ Len(NewRows(txs)) = Len(txs)
    BY <1>1, <1>3
  <1>5. QED
    BY <1>4 DEF NewRows

\* Marking the rows of a batch as materialized changes nothing else of the log.
LEMMA AfterCommitType ==
  ASSUME log \in Seq(Row)
  PROVE  /\ AfterCommit \in Seq(Row) /\ Len(AfterCommit) = Len(log)
         /\ \A i \in 1..Len(log) :
              /\ AfterCommit[i].sequence = log[i].sequence
              /\ AfterCommit[i].transaction = log[i].transaction
              /\ AfterCommit[i].materialized <=>
                   \/ log[i].materialized
                   \/ log[i].transaction.id \in {tx.id : tx \in ToSet(batch.transactions)}
  <1> DEFINE done == {tx.id : tx \in ToSet(batch.transactions)}
             after(i) == [log[i] EXCEPT !.materialized =
                            log[i].materialized \/ log[i].transaction.id \in done]
  <1>1. Len(log) \in Nat /\ DOMAIN log = 1..Len(log)
    OBVIOUS
  <1> HIDE DEF done
  <1>2. ASSUME NEW i \in 1..Len(log)
        PROVE  /\ after(i) \in Row
               /\ after(i).sequence = log[i].sequence
               /\ after(i).transaction = log[i].transaction
               /\ after(i).materialized <=> log[i].materialized \/ log[i].transaction.id \in done
    <2>1. PICK row : row = log[i]
      OBVIOUS
    <2>2. row \in Row
      BY <2>1
    <2>3. PICK b \in BOOLEAN : b <=> (row.materialized \/ row.transaction.id \in done)
      OBVIOUS
    <2>4. after(i) = [row EXCEPT !.materialized = b]
      BY <2>1, <2>3, Zenon
    <2>5. [row EXCEPT !.materialized = b] \in Row
      BY <2>2 DEF Row
    <2>6. /\ [row EXCEPT !.materialized = b].sequence = row.sequence
          /\ [row EXCEPT !.materialized = b].transaction = row.transaction
          /\ [row EXCEPT !.materialized = b].materialized = b
      BY <2>2 DEF Row
    <2>7. QED
      BY <2>1, <2>3, <2>4, <2>5, <2>6
  <1>3. AfterCommit = [i \in 1..Len(log) |-> after(i)]
    BY <1>1 DEF AfterCommit, done
  <1> HIDE DEF after
  <1>4. AfterCommit \in [1..Len(log) -> Row] /\ \A i \in 1..Len(log) : AfterCommit[i] = after(i)
    BY <1>2, <1>3
  <1>5. AfterCommit \in Seq(Row) /\ Len(AfterCommit) = Len(log)
    BY <1>1, <1>4
  <1>6. QED
    BY <1>2, <1>4, <1>5 DEF done
\* A log stays ordered when rows are appended ...
LEMMA AppendLogType ==
  ASSUME StorageTypes, SaveTypes, AppendLog
  PROVE  /\ log' \in Seq(Row) /\ sequence' \in Nat /\ Growing(log)'
         /\ \A i \in 1..Len(log') : log'[i].sequence <= sequence'
  <1>1. log \in Seq(Row) /\ sequence \in Nat /\ Growing(log)
        /\ (\A i \in 1..Len(log) : log[i].sequence <= sequence)
        /\ batch.transactions \in Seq(Transaction)
    BY DEF StorageTypes, SaveTypes, Batch
  <1>2. PICK known : /\ log' = log \o NewRows(Fresh(known))
                     /\ sequence' = sequence + Len(Fresh(known))
    BY DEF AppendLog
  <1>3. PICK s : s = batch.transactions
    OBVIOUS
  <1>4. PICK I : I = {i \in DOMAIN batch.transactions : batch.transactions[i].id \notin known}
    OBVIOUS
  <1>5. PICK t : t = Fresh(known)
    OBVIOUS
  <1>6. s \in Seq(Transaction)
    BY <1>1, <1>3
  <1>7. Subsequence(s, I) \in Seq(Transaction)
    BY ONLY <1>6, SubsequenceElements
  <1>8. t \in Seq(Transaction) /\ Len(t) \in Nat
    BY <1>3, <1>4, <1>5, <1>7 DEF Fresh
  <1>9. PICK a : a = NewRows(t)
    OBVIOUS
  <1>10. /\ a \in Seq(Row) /\ Len(a) = Len(t)
         /\ \A i \in 1..Len(t) : a[i].sequence = sequence + i
    BY <1>1, <1>8, <1>9, NewRowsType
  <1>11. log' = log \o a /\ sequence' = sequence + Len(a)
    BY <1>2, <1>5, <1>9, <1>10
  <1>12. PICK g : g = log'
    OBVIOUS
  <1>13. PICK h : h = log
    OBVIOUS
  <1>14. PICK q : q = sequence
    OBVIOUS
  <1>15. /\ h \in Seq(Row) /\ a \in Seq(Row) /\ q \in Nat /\ g = h \o a
         /\ Len(h) \in Nat /\ Len(a) \in Nat
    BY <1>1, <1>8, <1>10, <1>11, <1>12, <1>13, <1>14
  <1>16. \A i \in 1..Len(h) : h[i].sequence \in Nat /\ h[i].sequence <= q
    <2>1. \A row \in Row : row.sequence \in Nat
      BY DEF Row
    <2>2. QED
      BY <1>1, <1>13, <1>14, <1>15, <2>1
  <1>17. \A i \in 1..Len(a) : a[i].sequence = q + i
    BY <1>10, <1>14
  <1>18. /\ g \in Seq(Row) /\ Len(g) = Len(h) + Len(a)
         /\ \A i \in 1..Len(h) : g[i] = h[i]
         /\ \A i \in Len(h) + 1..Len(g) : g[i] = a[i - Len(h)]
    BY ONLY <1>15
  <1>19. \A i \in Len(h) + 1..Len(g) : i - Len(h) \in 1..Len(a)
    BY ONLY <1>15, <1>18
  <1>20. \A i \in Len(h) + 1..Len(g) : g[i].sequence = q + (i - Len(h))
    BY ONLY <1>17, <1>18, <1>19
  <1>21. \A i \in 1..Len(g) : i \in 1..Len(h) \/ i \in Len(h) + 1..Len(g)
    BY ONLY <1>15, <1>18
  <1>22. ASSUME NEW i \in 1..Len(g)
         PROVE  g[i].sequence <= q + Len(a)
    <2>1. CASE i \in 1..Len(h)
      BY ONLY <1>15, <1>16, <1>18, <2>1
    <2>2. CASE i \in Len(h) + 1..Len(g)
      BY ONLY <1>15, <1>18, <1>20, <2>2
    <2>3. QED
      BY <1>21, <2>1, <2>2
  <1>23. ASSUME NEW i \in 1..Len(g), NEW j \in 1..Len(g), i < j
         PROVE  g[i].sequence < g[j].sequence
    <2>1. CASE j \in 1..Len(h)
      <3>1. i \in 1..Len(h)
        BY ONLY i \in 1..Len(g), i < j, <1>15, <1>18, <2>1
      <3>2. QED
        BY <1>1, <1>13, <1>18, <1>23, <2>1, <3>1 DEF Growing
    <2>2. CASE j \in Len(h) + 1..Len(g) /\ i \in 1..Len(h)
      BY ONLY <1>15, <1>16, <1>18, <1>20, <2>2
    <2>3. CASE j \in Len(h) + 1..Len(g) /\ i \in Len(h) + 1..Len(g)
      BY ONLY i < j, <1>15, <1>18, <1>20, <2>3
    <2>4. QED
      BY <1>21, <2>1, <2>2, <2>3
  <1>24. QED
    BY <1>11, <1>12, <1>14, <1>15, <1>18, <1>22, <1>23 DEF Growing

\* ... when its rows are marked ...
LEMMA CommitLogType ==
  ASSUME StorageTypes, Commit
  PROVE  /\ log' \in Seq(Row) /\ Growing(log)'
         /\ \A i \in 1..Len(log') : log'[i].sequence <= sequence
  <1>1. PICK g : g = AfterCommit
    OBVIOUS
  <1>2. /\ g \in Seq(Row) /\ Len(g) = Len(log)
        /\ \A i \in 1..Len(log) : g[i].sequence = log[i].sequence
    BY <1>1, AfterCommitType DEF StorageTypes
  <1>3. log' = g
    BY <1>1 DEF Commit
  <1>4. QED
    BY <1>2, <1>3 DEF StorageTypes, Growing

\* ... and when some are removed.
LEMMA AcknowledgeLogType ==
  ASSUME StorageTypes, Acknowledge
  PROVE  /\ log' \in Seq(Row) /\ Growing(log)'
         /\ \A i \in 1..Len(log') : log'[i].sequence <= sequence
  <1>1. CASE log' = log
    BY <1>1 DEF StorageTypes, Growing
  <1>2. CASE log' # log
    <2>1. PICK I : log' = Subsequence(log, I)
      BY <1>2 DEF Acknowledge
    <2>2. PICK s : s = log
      OBVIOUS
    <2>3. s \in Seq(Row) /\ Growing(s)
      BY <2>2 DEF StorageTypes
    <2>4. PICK t : t = Subsequence(s, I)
      OBVIOUS
    <2>5. t \in Seq(Row) /\ \A i \in 1..Len(t) : \E j \in 1..Len(s) : t[i] = s[j]
      BY ONLY <2>3, <2>4, SubsequenceElements
    <2>6. Growing(t)
      BY ONLY <2>3, <2>4, SubsequenceGrows
    <2>7. QED
      BY <2>1, <2>2, <2>4, <2>5, <2>6 DEF StorageTypes, Growing
  <1>3. QED
    BY <1>1, <1>2
-----------------------------------------------------------------------------
(* The type invariant, and a document without unsaved changes.             *)

\* The batch of a save under way is the document unless it changed since,
\* and a save that committed has stored its batch.
CleanInv ==
    /\ state # "open" => phase = "none"
    /\ phase \in {"acking", "succeeded"} => stored = batch.document
    /\ state = "open" /\ ~unpersisted /\ phase = "none" => stored = document
    /\ state = "open" /\ ~unpersisted /\ phase \in {"appending", "committing", "acking", "succeeded"}
         => batch.document = document

JournalInv == TypeInv /\ CleanInv

\* The empty batch is a batch.
LEMMA NoBatchType ==
  NoBatch \in Batch /\ [version |-> 1, edits |-> {}] \in Document
  BY DEF NoBatch, Batch, Document

\* The invariant holds of a document just created.
LEMMA JournalInit ==
  Init => JournalInv
  <1> SUFFICES ASSUME Init PROVE JournalInv
    OBVIOUS
  <1>1. <<>> \in Seq(Transaction) /\ <<>> \in Seq(UndoEvent) /\ <<>> \in Seq(Row) /\ Len(<<>>) = 0
    OBVIOUS
  <1>2. SessionTypes /\ EditTypes
    <2>1. SessionTypes
      BY DEF Init, SessionTypes
    <2>2. MaxChanges \in Nat /\ 0 \in 0..MaxChanges
      BY JournalAssumption
    <2>3. EditTypes
      BY <1>1, <2>2, NoBatchType DEF Init, EditTypes
    <2>4. QED
      BY <2>1, <2>3
  <1>3. HistoryTypes
    BY <1>1 DEF Init, HistoryTypes
  <1>4. SaveTypes
    BY NoBatchType DEF Init, SaveTypes, Phase
  <1>5. StorageTypes
    <2>1. \A i \in 1..0 : FALSE
      OBVIOUS
    <2>2. Growing(log)
      BY <1>1, <2>1 DEF Init, Growing
    <2>3. QED
      BY <1>1, <2>1, <2>2, NoBatchType DEF Init, StorageTypes
  <1>6. CleanInv
    BY DEF Init, CleanInv
  <1>7. QED
    BY <1>2, <1>3, <1>4, <1>5, <1>6 DEF JournalInv, TypeInv

\* A transaction taken into the document and the journal.
LEMMA EditedType ==
  ASSUME EditTypes, changes < MaxChanges, changes' = changes + 1, NEW tx \in Transaction,
         document' = Applied(document, tx), pending' = Append(pending, tx),
         next_id' \in Nat \ {0}
  PROVE  EditTypes'
  <1>1. changes' \in 0..MaxChanges
    BY JournalAssumption DEF EditTypes
  <1>2. document' \in Document
    BY AppliedType DEF EditTypes
  <1>3. QED
    BY <1>1, <1>2 DEF EditTypes

\* A local transaction is a transaction.
LEMMA LocalTransactionType ==
  ASSUME EditTypes, changes < MaxChanges, NEW v \in BOOLEAN
  PROVE  LocalTransaction(v) \in Transaction /\ PreappliedTransaction \in Transaction
  <1>1. changes + 1 \in 1..MaxChanges
    BY JournalAssumption DEF EditTypes
  <1>2. QED
    BY <1>1 DEF LocalTransaction, PreappliedTransaction, EditTypes, Document, Transaction, Origin

\* So is one replayed under another origin.
LEMMA EventTransactionType ==
  ASSUME NEW tx \in Transaction, NEW o \in Origin
  PROVE  [tx EXCEPT !.origin = o] \in Transaction
  BY DEF Transaction

\* Every action preserves the types and CleanInv.
LEMMA JournalStep ==
  JournalInv /\ [Next]_vars => JournalInv'
  <1> SUFFICES ASSUME JournalInv, [Next]_vars PROVE JournalInv'
    OBVIOUS
  <1> USE DEF JournalInv
  <1>1. SessionTypes /\ EditTypes /\ HistoryTypes /\ SaveTypes /\ StorageTypes /\ CleanInv
    BY DEF TypeInv
  <1>2. ASSUME UNCHANGED storageVars PROVE StorageTypes'
    BY <1>1, <1>2 DEF StorageTypes, storageVars, Growing
  <1>3. ASSUME UNCHANGED saveVars PROVE SaveTypes'
    BY <1>1, <1>3 DEF SaveTypes, saveVars
  <1>4. ASSUME UNCHANGED editVars, UNCHANGED sessionVars
        PROVE  SessionTypes' /\ EditTypes' /\ HistoryTypes'
    BY <1>1, <1>4 DEF SessionTypes, EditTypes, HistoryTypes, editVars, sessionVars, historyVars
  <1>5. ASSUME NEW continues \in BOOLEAN, TypeText(continues) PROVE JournalInv'
    <2>1. EditTypes'
      <3>1. PreappliedTransaction \in Transaction
        BY <1>1, <1>5, LocalTransactionType DEF TypeText, CanEdit
      <3>2. next_id' \in Nat \ {0}
        BY <1>1, <1>5 DEF TypeText, EditTypes
      <3>3. QED
        BY <1>1, <1>5, <3>1, <3>2, EditedType DEF TypeText, CanEdit
    <2>2. HistoryTypes'
      <3>1. [type |-> "Text", snapshot |-> document] \in UndoEvent
        BY <1>1, TextEventType DEF EditTypes
      <3>2. typing_group' = TRUE /\ redo' = <<>> /\ undo' = PushUndoSnapshot(continues)
        BY <1>5 DEF TypeText
      <3>3. CASE continues
        <4>1. undo' = undo /\ typing_group
          BY <1>5, <3>2, <3>3 DEF TypeText, PushUndoSnapshot
        <4>2. QED
          BY <1>1, <3>2, <4>1 DEF HistoryTypes
      <3>4. CASE ~continues
        <4>1. PICK e : e = [type |-> "Text", snapshot |-> document]
          OBVIOUS
        <4>2. undo' = Append(undo, e) /\ e \in UndoEvent /\ e.type = "Text"
          BY <3>1, <3>2, <3>4, <4>1 DEF PushUndoSnapshot
        <4>3. undo' \in Seq(UndoEvent) /\ undo' # <<>> /\ Last(undo') = e
          BY <1>1, <4>2 DEF HistoryTypes, Last
        <4>4. <<>> \in Seq(UndoEvent)
          OBVIOUS
        <4>5. QED
          BY <3>2, <4>2, <4>3, <4>4 DEF HistoryTypes
      <3>5. QED
        BY <3>3, <3>4
    <2>3. SessionTypes'
      BY <1>1, <1>5 DEF TypeText, SessionTypes, sessionVars
    <2>4. SaveTypes' /\ StorageTypes'
      BY <1>2, <1>3, <1>5 DEF TypeText
    <2>5. CleanInv'
      BY <1>1, <1>5 DEF TypeText, CleanInv, CanEdit, sessionVars, saveVars, storageVars
    <2>6. QED
      BY <2>1, <2>2, <2>3, <2>4, <2>5 DEF TypeInv
  <1>6. ASSUME NEW versioned \in BOOLEAN, ApplyTransaction(versioned) PROVE JournalInv'
    <2>1. PICK tx : tx = LocalTransaction(versioned)
      OBVIOUS
    <2>2. tx \in Transaction
      BY <1>1, <1>6, <2>1, LocalTransactionType DEF ApplyTransaction, CanEdit
    <2>3. /\ document' = Applied(document, tx) /\ pending' = Append(pending, tx)
          /\ undo' = RecordUndo(undo, tx) /\ next_id' = NextIdAfter(next_id + 1, tx)
          /\ changes < MaxChanges /\ changes' = changes + 1
      BY <1>6, <2>1 DEF ApplyTransaction, CanEdit
    <2>4. EditTypes'
      <3>1. next_id + 1 \in Nat \ {0}
        BY <1>1 DEF EditTypes
      <3>2. next_id' \in Nat \ {0}
        BY <2>2, <2>3, <3>1, NextIdType
      <3>3. QED
        BY <1>1, <2>2, <2>3, <3>2, EditedType
    <2>5. HistoryTypes'
      <3>1. undo' \in Seq(UndoEvent)
        BY <1>1, <2>2, <2>3, RecordUndoType DEF HistoryTypes
      <3>2. typing_group' = FALSE /\ redo' = <<>> /\ <<>> \in Seq(UndoEvent)
        BY <1>6 DEF ApplyTransaction
      <3>3. QED
        BY <3>1, <3>2 DEF HistoryTypes
    <2>6. SessionTypes'
      BY <1>1, <1>6 DEF ApplyTransaction, SessionTypes, sessionVars
    <2>7. SaveTypes' /\ StorageTypes'
      BY <1>2, <1>3, <1>6 DEF ApplyTransaction
    <2>8. CleanInv'
      BY <1>1, <1>6 DEF ApplyTransaction, CleanInv, CanEdit, sessionVars, saveVars, storageVars
    <2>9. QED
      BY <2>4, <2>5, <2>6, <2>7, <2>8 DEF TypeInv
  <1>7. ASSUME UndoText \/ RedoText PROVE JournalInv'
    <2>1. /\ CanEdit /\ UNCHANGED <<sessionVars, pending, next_id, saveVars, storageVars>>
          /\ typing_group' = FALSE /\ unpersisted' = TRUE /\ changes' = changes + 1
      BY <1>7 DEF UndoText, RedoText, RestoreSnapshot
    <2>2. PICK e : e = [type |-> "Text", snapshot |-> document]
      OBVIOUS
    <2>3. e \in UndoEvent
      BY <1>1, <2>2, TextEventType DEF EditTypes
    <2>4. document' \in Document /\ undo' \in Seq(UndoEvent) /\ redo' \in Seq(UndoEvent)
      <3>1. CASE UndoText
        <4>1. /\ undo # <<>> /\ Last(undo).type = "Text"
              /\ undo' = Front(undo) /\ redo' = Append(redo, e) /\ document' = Last(undo).snapshot
          BY <2>2, <3>1 DEF UndoText, RestoreSnapshot
        <4>2. undo \in Seq(UndoEvent) /\ redo \in Seq(UndoEvent)
          BY <1>1 DEF HistoryTypes
        <4>3. Last(undo).snapshot \in Document /\ Front(undo) \in Seq(UndoEvent)
          BY <4>1, <4>2, TopOfStack
        <4>4. QED
          BY <2>3, <4>1, <4>2, <4>3
      <3>2. CASE RedoText
        <4>1. /\ redo # <<>> /\ Last(redo).type = "Text"
              /\ redo' = Front(redo) /\ undo' = Append(undo, e) /\ document' = Last(redo).snapshot
          BY <2>2, <3>2 DEF RedoText, RestoreSnapshot
        <4>2. undo \in Seq(UndoEvent) /\ redo \in Seq(UndoEvent)
          BY <1>1 DEF HistoryTypes
        <4>3. Last(redo).snapshot \in Document /\ Front(redo) \in Seq(UndoEvent)
          BY <4>1, <4>2, TopOfStack
        <4>4. QED
          BY <2>3, <4>1, <4>2, <4>3
      <3>3. QED
        BY <1>7, <3>1, <3>2
    <2>5. EditTypes'
      BY <1>1, <2>1, <2>4, JournalAssumption DEF EditTypes, CanEdit
    <2>6. HistoryTypes'
      BY <2>1, <2>4 DEF HistoryTypes
    <2>7. SessionTypes'
      BY <1>1, <2>1 DEF SessionTypes, sessionVars
    <2>8. SaveTypes' /\ StorageTypes'
      BY <1>2, <1>3, <2>1
    <2>9. CleanInv'
      BY <1>1, <2>1 DEF CleanInv, CanEdit, sessionVars, saveVars, storageVars
    <2>10. QED
      BY <2>5, <2>6, <2>7, <2>8, <2>9 DEF TypeInv
  <1>8. ASSUME UndoTransaction \/ RedoTransaction PROVE JournalInv'
    <2>1. /\ CanEdit /\ UNCHANGED <<sessionVars, saveVars, storageVars>>
          /\ typing_group' = FALSE /\ unpersisted' = TRUE /\ changes' = changes + 1
      BY <1>8 DEF UndoTransaction, RedoTransaction
    <2>2. undo \in Seq(UndoEvent) /\ redo \in Seq(UndoEvent)
      BY <1>1 DEF HistoryTypes
    <2>3. \E tx \in Transaction :
            /\ document' = Applied(document, tx) /\ pending' = Append(pending, tx)
            /\ next_id' = NextIdAfter(next_id, tx)
            /\ undo' \in Seq(UndoEvent) /\ redo' \in Seq(UndoEvent)
      <3>1. CASE UndoTransaction
        <4>1. PICK t : t = Last(undo).transaction
          OBVIOUS
        <4>2. PICK tx : tx = [t EXCEPT !.origin = "Undo"]
          OBVIOUS
        <4>3. /\ undo # <<>> /\ Last(undo).type = "Transaction"
              /\ document' = Applied(document, tx) /\ pending' = Append(pending, tx)
              /\ next_id' = NextIdAfter(next_id, tx)
              /\ undo' = Front(undo) /\ redo' = Append(redo, Last(undo))
          BY <3>1, <4>1, <4>2 DEF UndoTransaction
        <4>4. t \in Transaction /\ Front(undo) \in Seq(UndoEvent) /\ Last(undo) \in UndoEvent
          BY <2>2, <4>1, <4>3, TopOfStack
        <4>5. tx \in Transaction
          BY <4>2, <4>4, EventTransactionType DEF Origin
        <4>6. QED
          BY <2>2, <4>3, <4>4, <4>5
      <3>2. CASE RedoTransaction
        <4>1. PICK t : t = Last(redo).transaction
          OBVIOUS
        <4>2. PICK tx : tx = [t EXCEPT !.origin = "Redo"]
          OBVIOUS
        <4>3. /\ redo # <<>> /\ Last(redo).type = "Transaction"
              /\ document' = Applied(document, tx) /\ pending' = Append(pending, tx)
              /\ next_id' = NextIdAfter(next_id, tx)
              /\ redo' = Front(redo) /\ undo' = Append(undo, Last(redo))
          BY <3>2, <4>1, <4>2 DEF RedoTransaction
        <4>4. t \in Transaction /\ Front(redo) \in Seq(UndoEvent) /\ Last(redo) \in UndoEvent
          BY <2>2, <4>1, <4>3, TopOfStack
        <4>5. tx \in Transaction
          BY <4>2, <4>4, EventTransactionType DEF Origin
        <4>6. QED
          BY <2>2, <4>3, <4>4, <4>5
      <3>3. QED
        BY <1>8, <3>1, <3>2
    <2>4. EditTypes'
      <3>1. PICK tx \in Transaction : /\ document' = Applied(document, tx)
                                      /\ pending' = Append(pending, tx)
                                      /\ next_id' = NextIdAfter(next_id, tx)
        BY <2>3
      <3>2. next_id' \in Nat \ {0}
        BY <1>1, <3>1, NextIdType DEF EditTypes
      <3>3. QED
        BY <1>1, <2>1, <3>1, <3>2, EditedType DEF CanEdit
    <2>5. HistoryTypes'
      BY <2>1, <2>3 DEF HistoryTypes
    <2>6. SessionTypes'
      BY <1>1, <2>1 DEF SessionTypes, sessionVars
    <2>7. SaveTypes' /\ StorageTypes'
      BY <1>2, <1>3, <2>1
    <2>8. CleanInv'
      BY <1>1, <2>1 DEF CleanInv, CanEdit, sessionVars, saveVars, storageVars
    <2>9. QED
      BY <2>4, <2>5, <2>6, <2>7, <2>8 DEF TypeInv
  <1>9. ASSUME SetReadonly PROVE JournalInv'
    <2>1. SaveTypes' /\ StorageTypes'
      BY <1>2, <1>3, <1>9 DEF SetReadonly
    <2>2. SessionTypes' /\ EditTypes' /\ HistoryTypes'
      BY <1>1, <1>9 DEF SetReadonly, SessionTypes, EditTypes, HistoryTypes, editVars, historyVars
    <2>3. CleanInv'
      BY <1>1, <1>9 DEF SetReadonly, CleanInv, editVars, saveVars, storageVars
    <2>4. QED
      BY <2>1, <2>2, <2>3 DEF TypeInv
  <1>10. ASSUME Capture PROVE JournalInv'
    <2>1. SaveTypes'
      BY <1>1, <1>10 DEF Capture, SaveTypes, Phase, Batch, EditTypes
    <2>2. StorageTypes'
      BY <1>2, <1>10 DEF Capture
    <2>3. SessionTypes' /\ EditTypes' /\ HistoryTypes'
      <3>1. <<>> \in Seq(Transaction)
        OBVIOUS
      <3>2. QED
        BY <1>1, <1>10, <3>1 DEF Capture, SessionTypes, EditTypes, HistoryTypes, historyVars, sessionVars
    <2>4. CleanInv'
      BY <1>1, <1>10 DEF Capture, CleanInv, sessionVars, storageVars
    <2>5. QED
      BY <2>1, <2>2, <2>3, <2>4 DEF TypeInv
  <1>11. ASSUME AppendLog PROVE JournalInv'
    <2>1. sequence' \in Nat
      BY <1>1, <1>11, AppendLogType
    <2>2. SaveTypes' /\ durable' \in Document
      BY <1>1, <1>11, <2>1 DEF AppendLog, SaveTypes, Phase, Batch
    <2>3. StorageTypes'
      BY <1>1, <1>11, <2>2, AppendLogType DEF AppendLog, StorageTypes
    <2>4. SessionTypes' /\ EditTypes' /\ HistoryTypes'
      BY <1>4, <1>11 DEF AppendLog
    <2>5. CleanInv'
      <3>1. batch'.document = batch.document
        BY <1>1, <1>11 DEF AppendLog, SaveTypes, Batch
      <3>2. QED
        BY <1>1, <1>11, <3>1 DEF AppendLog, CleanInv, sessionVars, editVars
    <2>6. QED
      BY <2>2, <2>3, <2>4, <2>5 DEF TypeInv
  <1>12. ASSUME Commit PROVE JournalInv'
    <2>1. SaveTypes' /\ stored' \in Document /\ durable' \in Document
      BY <1>1, <1>12 DEF Commit, SaveTypes, Phase, Batch
    <2>2. StorageTypes'
      BY <1>1, <1>12, <2>1, CommitLogType DEF Commit, StorageTypes
    <2>3. SessionTypes' /\ EditTypes' /\ HistoryTypes'
      BY <1>4, <1>12 DEF Commit
    <2>4. CleanInv'
      BY <1>1, <1>12 DEF Commit, CleanInv, sessionVars, editVars
    <2>5. QED
      BY <2>1, <2>2, <2>3, <2>4 DEF TypeInv
  <1>13. ASSUME Acknowledge PROVE JournalInv'
    <2>1. SaveTypes'
      BY <1>1, <1>13 DEF Acknowledge, SaveTypes, Phase
    <2>2. StorageTypes'
      BY <1>1, <1>13, AcknowledgeLogType DEF Acknowledge, StorageTypes
    <2>3. SessionTypes' /\ EditTypes' /\ HistoryTypes'
      BY <1>4, <1>13 DEF Acknowledge
    <2>4. CleanInv'
      BY <1>1, <1>13 DEF Acknowledge, CleanInv, sessionVars, editVars
    <2>5. QED
      BY <2>1, <2>2, <2>3, <2>4 DEF TypeInv
  <1>14. ASSUME SaveFails PROVE JournalInv'
    <2>1. SaveTypes'
      BY <1>1, <1>14 DEF SaveFails, SaveTypes, Phase
    <2>2. StorageTypes' /\ SessionTypes' /\ EditTypes' /\ HistoryTypes'
      BY <1>2, <1>4, <1>14 DEF SaveFails
    <2>3. CleanInv'
      BY <1>1, <1>14 DEF SaveFails, CleanInv, sessionVars, editVars, storageVars
    <2>4. QED
      BY <2>1, <2>2, <2>3 DEF TypeInv
  <1>15. ASSUME ApplySuccess PROVE JournalInv'
    <2>1. SaveTypes'
      BY <1>15, NoBatchType DEF ApplySuccess, SaveTypes, Phase
    <2>2. StorageTypes' /\ SessionTypes' /\ EditTypes' /\ HistoryTypes'
      BY <1>2, <1>4, <1>15 DEF ApplySuccess
    <2>3. CleanInv'
      BY <1>1, <1>15 DEF ApplySuccess, CleanInv, sessionVars, editVars, storageVars
    <2>4. QED
      BY <2>1, <2>2, <2>3 DEF TypeInv
  <1>16. ASSUME ApplyFailure PROVE JournalInv'
    <2>1. SaveTypes'
      BY <1>16, NoBatchType DEF ApplyFailure, SaveTypes, Phase
    <2>2. EditTypes'
      <3>1. batch.transactions \in Seq(Transaction) /\ pending \in Seq(Transaction)
        BY <1>1 DEF SaveTypes, Batch, EditTypes
      <3>2. Restored \in Seq(Transaction)
        BY <3>1 DEF Restored
      <3>3. QED
        BY <1>1, <1>16, <3>2 DEF ApplyFailure, EditTypes
    <2>3. StorageTypes'
      BY <1>2, <1>16 DEF ApplyFailure
    <2>4. SessionTypes' /\ HistoryTypes'
      BY <1>1, <1>16 DEF ApplyFailure, SessionTypes, HistoryTypes, historyVars, sessionVars
    <2>5. CleanInv'
      BY <1>1, <1>16 DEF ApplyFailure, CleanInv, sessionVars, storageVars
    <2>6. QED
      BY <2>1, <2>2, <2>3, <2>4, <2>5 DEF TypeInv
  <1>17. ASSUME Crash PROVE JournalInv'
    <2>1. SaveTypes'
      BY <1>17, NoBatchType DEF Crash, SaveTypes, Phase
    <2>2. StorageTypes'
      BY <1>2, <1>17 DEF Crash
    <2>3. SessionTypes' /\ EditTypes' /\ HistoryTypes'
      BY <1>1, <1>17 DEF Crash, SessionTypes, EditTypes, HistoryTypes, editVars, historyVars
    <2>4. CleanInv'
      BY <1>1, <1>17 DEF Crash, CleanInv
    <2>5. QED
      BY <2>1, <2>2, <2>3, <2>4 DEF TypeInv
  <1>18. ASSUME NEW ro \in BOOLEAN, Open(ro) PROVE JournalInv'
    <2>1. PICK r : r = IF ro THEN Loaded ELSE Recovered
      OBVIOUS
    <2>2. /\ document' = r.document /\ pending' = r.pending /\ undo' = r.undo
          /\ next_id' = r.next_id /\ unpersisted' = DirtyAfterOpen(r)
          /\ state' \in {"open", "refused"} /\ (state' = "open" => r.ok)
          /\ readonly' = ro /\ redo' = <<>> /\ typing_group' = FALSE
          /\ state = "closed" /\ UNCHANGED <<changes, saveVars, storageVars>>
      BY <1>18, <2>1 DEF Open
    <2>3. r \in Runtime /\ (r.ok /\ r.pending = <<>> => r.document = stored)
      <3>1. Loaded \in Runtime /\ Loaded.document = stored
        BY <1>1 DEF Loaded, Runtime, StorageTypes
      <3>2. Recovered \in Runtime
            /\ (Recovered.ok /\ Recovered.pending = <<>> => Recovered.document = stored)
        BY <1>1, RecoveredType DEF StorageTypes
      <3>3. CASE ro
        BY <2>1, <3>1, <3>3
      <3>4. CASE ~ro
        BY <2>1, <3>2, <3>4
      <3>5. QED
        BY <3>3, <3>4
    <2>4. /\ r.document \in Document /\ r.pending \in Seq(Transaction)
          /\ r.undo \in Seq(UndoEvent) /\ r.next_id \in Nat \ {0}
      BY <2>3 DEF Runtime
    <2>5. unpersisted' = (r.pending # <<>>) /\ unpersisted' \in BOOLEAN
      BY <2>2 DEF DirtyAfterOpen
    <2>6. SessionTypes'
      BY <2>2, <2>5 DEF SessionTypes
    <2>7. EditTypes'
      BY <1>1, <2>2, <2>4 DEF EditTypes
    <2>8. HistoryTypes'
      <3>1. <<>> \in Seq(UndoEvent)
        OBVIOUS
      <3>2. QED
        BY <2>2, <2>4, <3>1 DEF HistoryTypes
    <2>9. SaveTypes' /\ StorageTypes'
      BY <1>2, <1>3, <2>2
    <2>10. phase' = "none"
      BY <1>1, <2>2 DEF CleanInv, saveVars
    <2>11. state' = "open" /\ ~unpersisted' => stored' = document'
      BY <2>2, <2>3, <2>5 DEF storageVars
    <2>12. CleanInv'
      BY <2>10, <2>11 DEF CleanInv
    <2>13. QED
      BY <2>6, <2>7, <2>8, <2>9, <2>12 DEF TypeInv
  <1>19. ASSUME UNCHANGED vars PROVE JournalInv'
    <2>1. SessionTypes' /\ EditTypes' /\ HistoryTypes' /\ SaveTypes' /\ StorageTypes'
      BY <1>2, <1>3, <1>4, <1>19 DEF vars
    <2>2. CleanInv'
      BY <1>1, <1>19 DEF CleanInv, vars, sessionVars, editVars, saveVars, storageVars
    <2>3. QED
      BY <2>1, <2>2 DEF TypeInv
  <1>20. QED
    BY <1>5, <1>6, <1>7, <1>8, <1>9, <1>10, <1>11, <1>12, <1>13, <1>14, <1>15, <1>16, <1>17,
       <1>18, <1>19 DEF Next

(* Types and CleanInv hold after every edit, undo, redo, step of a save,    *)
(* crash and open.                                                          *)
THEOREM JournalInvariant ==
  Spec => []JournalInv
  BY JournalInit, JournalStep, PTL DEF Spec

\* What ToSet collects from a sequence.
LEMMA ToSetOf ==
  ASSUME NEW X, NEW s \in Seq(X)
  PROVE  ToSet(s) \subseteq X /\ \A x \in ToSet(s) : \E i \in 1..Len(s) : x = s[i]
  BY DEF ToSet

(* The journal, the history, the batch and the log keep their shape: rows   *)
(* stay in sequence order through appends, commits and acknowledges, and    *)
(* an open typing group has its snapshot on top of the undo stack.          *)
THEOREM JournalTypeOK ==
  Spec => []TypeOK
  <1>1. JournalInv => TypeOK
    <2> SUFFICES ASSUME JournalInv PROVE TypeOK
      OBVIOUS
    <2>1. SessionTypes /\ EditTypes /\ HistoryTypes /\ SaveTypes /\ StorageTypes
      BY DEF JournalInv, TypeInv
    <2>2. batch.document \in Document /\ batch.transactions \in Seq(Transaction)
      BY <2>1 DEF SaveTypes, Batch
    <2>3. ToSet(undo) \cup ToSet(redo) \subseteq UndoEvent
      BY <2>1, ToSetOf DEF HistoryTypes
    <2>4. ToSet(pending) \cup ToSet(batch.transactions) \subseteq Transaction
      BY <2>1, <2>2, ToSetOf DEF EditTypes
    <2>5. ASSUME NEW row \in ToSet(log)
          PROVE  row.sequence <= sequence /\ row.transaction \in Transaction
      <3>1. row \in Row /\ \E i \in 1..Len(log) : row = log[i]
        BY <2>1, ToSetOf DEF StorageTypes
      <3>2. row.transaction \in Transaction
        BY <3>1 DEF Row
      <3>3. QED
        BY <2>1, <3>1, <3>2 DEF StorageTypes
    <2>6. next_id > 0
      BY <2>1 DEF EditTypes
    <2>7. QED
      BY <2>1, <2>2, <2>3, <2>4, <2>5, <2>6
         DEF TypeOK, SessionTypes, EditTypes, HistoryTypes, SaveTypes, StorageTypes, Growing
  <1>2. QED
    BY <1>1, JournalInvariant, PTL

(* A document with no change since its last capture and no save under way   *)
(* is what storage holds, whatever was undone, redone, failed, retried or   *)
(* recovered before (capture, success and failure of a save in              *)
(* persistence_port.rs).                                                    *)
THEOREM JournalCleanIsStored ==
  Spec => []CleanIsStored
  <1>1. JournalInv => CleanIsStored
    BY DEF JournalInv, CleanInv, CleanIsStored
  <1>2. QED
    BY <1>1, JournalInvariant, PTL
=============================================================================
