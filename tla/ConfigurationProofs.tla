------------------------- MODULE ConfigurationProofs -------------------------
(***************************************************************************)
(* Proofs about the loading of wrapper.conf, for all files, includes,      *)
(* environments, command lines and nesting limits, and with the launches   *)
(* of JvmCommand going on; and about the PROPERTIES packet the bridge is   *)
(* sent of what was loaded.                                                *)
(***************************************************************************)
EXTENDS JvmCommand, TLAPS, SequenceTheorems, FiniteSetTheorems, WellFoundedInduction

-----------------------------------------------------------------------------
(* Sequences and numbers.                                                  *)

\* Induction over the natural numbers, for a set of them.
LEMMA Induction ==
  ASSUME NEW A \in SUBSET Nat, 0 \in A, \A n \in A : n + 1 \in A
  PROVE  A = Nat
<1> SUFFICES ASSUME Nat \ A # {} PROVE FALSE
  OBVIOUS
<1> DEFINE R == {ss \in Nat \X Nat : ss[1] < ss[2]}
           B == Nat \ A
<1>1. IsWellFoundedOn(R, Nat)
  BY NatLessThanWellFounded, Zenon DEF OpToRel
<1>2. PICK x \in B : \A y \in B : ~(<<y, x>> \in R)
  <2> HIDE DEF R
  <2>1. B \subseteq Nat /\ B # {}
    OBVIOUS
  <2> HIDE DEF B
  <2> QED
    BY <1>1, <2>1, WFMin
<1>3. x \in Nat /\ x # 0 /\ x \notin A
  OBVIOUS
<1>4. x - 1 \in Nat /\ x - 1 < x /\ (x - 1) + 1 = x
  BY <1>3
<1>5. x - 1 \in A
  BY <1>2, <1>3, <1>4
<1> QED
  BY <1>3, <1>4, <1>5

\* A set of natural numbers has a least element.
LEMMA LeastPosition ==
  ASSUME NEW A \in SUBSET Nat, A # {}
  PROVE  Min(A) \in A /\ \A y \in A : Min(A) <= y
<1> DEFINE R == {ss \in Nat \X Nat : ss[1] < ss[2]}
<1>1. IsWellFoundedOn(R, Nat)
  BY NatLessThanWellFounded, Zenon DEF OpToRel
<1>2. PICK x \in A : \A y \in A : ~(<<y, x>> \in R)
  <2> HIDE DEF R
  <2> QED
    BY <1>1, WFMin
<1>3. \A y \in A : x <= y
  <2>1. \A y \in A : y \in Nat /\ x \in Nat /\ ~(y < x)
    BY <1>2
  <2> QED
    BY <2>1
<1> QED
  BY <1>3 DEF Min

\* A bounded set of natural numbers has a greatest element.
LEMMA GreatestPosition ==
  ASSUME NEW n \in Nat, NEW A \in SUBSET (0..n), A # {}
  PROVE  Max(A) \in A /\ \A y \in A : Max(A) >= y
<1> DEFINE B == {b \in 0..n : n - b \in A}
<1>1. B \in SUBSET Nat
  OBVIOUS
<1>2. B # {}
  <2>1. PICK a \in A : TRUE
    OBVIOUS
  <2>2. n - a \in 0..n /\ n - (n - a) = a
    OBVIOUS
  <2>3. n - a \in B
    BY <2>2
  <2> QED
    BY <2>3
<1> DEFINE b == Min(B)
<1>3. b \in B /\ \A y \in B : b <= y
  <2> HIDE DEF B
  <2> QED
    BY <1>1, <1>2, LeastPosition
<1> HIDE DEF b
<1>4. n - b \in A /\ b \in 0..n
  BY <1>3
<1>5. ASSUME NEW y \in A PROVE n - b >= y
  <2>1. y \in 0..n /\ n - y \in 0..n /\ n - (n - y) = y
    OBVIOUS
  <2>2. n - y \in B
    BY <2>1
  <2>3. b <= n - y
    BY <1>3, <2>2
  <2> QED
    BY <1>4, <2>1, <2>3
<1>6. \E x \in A : \A y \in A : x >= y
  BY <1>4, <1>5
<1> QED
  BY <1>6 DEF Max

\* Append and concatenation.
LEMMA ConcatAppend ==
  ASSUME NEW S, NEW s \in Seq(S), NEW t \in Seq(S), NEW x \in S
  PROVE  s \o Append(t, x) = Append(s \o t, x)
<1>1. Append(t, x) = t \o <<x>> /\ s \o t \in Seq(S) /\ <<x>> \in Seq(S)
  BY AppendIsConcat, ConcatProperties
<1>2. Append(s \o t, x) = (s \o t) \o <<x>>
  BY <1>1, AppendIsConcat
<1> QED
  BY <1>1, <1>2, ConcatAssociative

\* Three sequences, one after the other.
LEMMA Associative ==
  ASSUME NEW S, NEW a \in Seq(S), NEW b \in Seq(S), NEW c \in Seq(S)
  PROVE  a \o (b \o c) = (a \o b) \o c
<1>1. (a \o b) \o c = a \o (b \o c)
  BY ConcatAssociative
<1> QED
  BY <1>1

\* A sequence, cut.
LEMMA CutAt ==
  ASSUME NEW S, NEW a \in Seq(S), NEW n \in 0..Len(a)
  PROVE  /\ SubSeq(a, 1, n) \in Seq(S) /\ Len(SubSeq(a, 1, n)) = n
         /\ SubSeq(a, n + 1, Len(a)) \in Seq(S) /\ Len(SubSeq(a, n + 1, Len(a))) = Len(a) - n
         /\ a = SubSeq(a, 1, n) \o SubSeq(a, n + 1, Len(a))
         /\ \A i \in 1..n : SubSeq(a, 1, n)[i] = a[i]
<1>1. Len(a) \in Nat /\ n \in Int /\ n + 1 \in Int /\ Len(a) \in Int /\ 1 \in Int /\ n \in Nat
  BY LenProperties
<1>2. \A i \in 1..Len(a) : a[i] \in S
  BY ElementOfSeq
<1>3. (\A i \in 1..n : a[i] \in S) /\ (\A i \in (n + 1)..Len(a) : a[i] \in S)
  BY <1>1, <1>2
<1>4. /\ SubSeq(a, 1, n) \in Seq(S) /\ Len(SubSeq(a, 1, n)) = IF 1 <= n THEN n - 1 + 1 ELSE 0
      /\ \A i \in 1..(n - 1 + 1) : SubSeq(a, 1, n)[i] = a[1 + i - 1]
  BY <1>1, <1>3, SubSeqProperties
<1>5. /\ SubSeq(a, n + 1, Len(a)) \in Seq(S)
      /\ Len(SubSeq(a, n + 1, Len(a))) = IF n + 1 <= Len(a) THEN Len(a) - (n + 1) + 1 ELSE 0
  BY <1>1, <1>3, SubSeqProperties
<1>6. n - 1 + 1 = n /\ Len(SubSeq(a, 1, n)) = n /\ Len(SubSeq(a, n + 1, Len(a))) = Len(a) - n
  BY <1>1, <1>4, <1>5
<1>7. \A i \in 1..n : SubSeq(a, 1, n)[i] = a[i]
  <2>1. \A i \in 1..n : 1 + i - 1 = i
    BY <1>1
  <2> QED
    BY <1>4, <1>6, <2>1
<1>8. SubSeq(a, 1, n) \o SubSeq(a, n + 1, Len(a)) = SubSeq(a, 1, Len(a))
  <2>1. 1 \in 1..(Len(a) + 1) /\ n \in 1 - 1..Len(a) /\ Len(a) \in n..Len(a)
    BY <1>1
  <2> QED
    BY <2>1, ConcatAdjacentSubSeq
<1>9. SubSeq(a, 1, Len(a)) = a
  BY SubSeqFull
<1> QED
  BY <1>4, <1>5, <1>6, <1>7, <1>8, <1>9

\* The recursion of FlattenSeq, begun with the empty sequence.
Flattens(f, q, n) ==
  /\ f[0] = <<>>
  /\ \A i \in 1..n : f[i] = f[i - 1] \o q[i]

\* It has a solution.
LEMMA FlattenExists ==
  ASSUME NEW S, NEW q \in Seq(Seq(S))
  PROVE  \A n \in Nat : n <= Len(q) => \E f \in [0..n -> Seq(S)] : Flattens(f, q, n)
<1> DEFINE A == {n \in Nat : n <= Len(q) => \E f \in [0..n -> Seq(S)] : Flattens(f, q, n)}
<1>1. 0 \in A
  <2> DEFINE f == [i \in 0..0 |-> <<>>]
  <2>1. f \in [0..0 -> Seq(S)] /\ f[0] = <<>>
    BY EmptySeq
  <2>2. Flattens(f, q, 0)
    BY <2>1 DEF Flattens
  <2> QED
    BY <2>1, <2>2
<1>2. ASSUME NEW n \in A PROVE n + 1 \in A
  <2> SUFFICES ASSUME n + 1 <= Len(q)
               PROVE  \E f \in [0..(n + 1) -> Seq(S)] : Flattens(f, q, n + 1)
    BY <1>2
  <2>0. n \in Nat /\ Len(q) \in Nat
    BY LenProperties
  <2>1. PICK f \in [0..n -> Seq(S)] : Flattens(f, q, n)
    BY <2>0
  <2> DEFINE x == f[n] \o q[n + 1]
             g == [i \in 0..(n + 1) |-> IF i = n + 1 THEN x ELSE f[i]]
  <2>2. n \in 0..n /\ n + 1 \in 1..Len(q)
    BY <2>0
  <2>3. x \in Seq(S)
    <3>1. f[n] \in Seq(S) /\ q[n + 1] \in Seq(S)
      BY <2>1, <2>2, ElementOfSeq
    <3> QED
      BY <3>1, ConcatProperties
  <2> HIDE DEF x
  <2>4. \A i \in 0..(n + 1) : i # n + 1 => i \in 0..n
    BY <2>0
  <2>5. g \in [0..(n + 1) -> Seq(S)]
    BY <2>3, <2>4
  <2>6. \A i \in 0..n : g[i] = f[i]
    BY <2>0
  <2>7. g[n + 1] = x
    BY <2>0
  <2>8. g[0] = <<>>
    BY <2>0, <2>1, <2>6 DEF Flattens
  <2>9. ASSUME NEW i \in 1..(n + 1)
        PROVE  g[i] = g[i - 1] \o q[i]
    <3> HIDE DEF g
    <3>1. CASE i = n + 1
      <4>1. i - 1 = n /\ n \in 0..n
        BY <2>0, <3>1
      <4> QED
        BY <2>6, <2>7, <3>1, <4>1 DEF x
    <3>2. CASE i # n + 1
      <4>1. i \in 1..n /\ i \in 0..n /\ i - 1 \in 0..n
        BY <2>0, <3>2
      <4> QED
        BY <2>1, <2>6, <4>1 DEF Flattens
    <3> QED
      BY <3>1, <3>2
  <2> HIDE DEF g
  <2>10. Flattens(g, q, n + 1)
    BY <2>8, <2>9 DEF Flattens
  <2> QED
    BY <2>5, <2>10
<1>3. A = Nat
  <2>1. A \in SUBSET Nat
    OBVIOUS
  <2> HIDE DEF A
  <2> QED
    BY <1>1, <1>2, <2>1, Induction
<1> QED
  BY <1>3

\* It has one solution.
LEMMA FlattensUnique ==
  ASSUME NEW q, NEW n \in Nat, NEW f, NEW g, Flattens(f, q, n), Flattens(g, q, n)
  PROVE  \A i \in 0..n : f[i] = g[i]
<1> DEFINE A == {i \in Nat : i <= n => f[i] = g[i]}
<1>1. 0 \in A
  BY DEF Flattens
<1>2. ASSUME NEW i \in A PROVE i + 1 \in A
  <2>1. i \in Nat /\ (i + 1 <= n => i <= n /\ i + 1 \in 1..n /\ (i + 1) - 1 = i)
    OBVIOUS
  <2>2. ASSUME i + 1 <= n PROVE f[i + 1] = g[i + 1]
    <3>1. f[i] = g[i] /\ i + 1 \in 1..n /\ (i + 1) - 1 = i
      BY <2>1, <2>2
    <3>2. f[i + 1] = f[i] \o q[i + 1] /\ g[i + 1] = g[i] \o q[i + 1]
      <4> DEFINE j == i + 1
      <4>1. f[j] = f[j - 1] \o q[j] /\ g[j] = g[j - 1] \o q[j]
        BY <3>1, Zenon DEF Flattens
      <4> QED
        BY <3>1, <4>1
    <3> QED
      BY <3>1, <3>2
  <2> QED
    BY <2>1, <2>2
<1>3. A \in SUBSET Nat
  OBVIOUS
<1> HIDE DEF A
<1>4. A = Nat
  BY <1>1, <1>2, <1>3, Induction
<1> QED
  BY <1>4 DEF A

\* FlattenSeq is what that recursion ends with.
LEMMA Flattening ==
  ASSUME NEW S, NEW q \in Seq(Seq(S))
  PROVE  \E f \in [0..Len(q) -> Seq(S)] : Flattens(f, q, Len(q)) /\ FlattenSeq(q) = f[Len(q)]
<1> DEFINE n == Len(q)
<1>1. n \in Nat /\ n <= n
  BY LenProperties
<1>2. PICK g \in [0..n -> Seq(S)] : Flattens(g, q, n)
  BY <1>1, FlattenExists
<1>3. CASE n = 0
  <2>1. q = <<>>
    BY <1>3, EmptySeq
  <2>2. FlattenSeq(q) = <<>>
    BY <1>3, <2>1 DEF FlattenSeq
  <2> QED
    BY <1>2, <1>3, <2>2 DEF Flattens
<1>4. CASE n # 0
  <2> DEFINE f[i \in 1..Len(q)] == IF i = 1 THEN q[i] ELSE f[i - 1] \o q[i]
             h == [i \in 1..Len(q) |-> g[i]]
             k == [i \in 1..Len(q) |-> IF i = 1 THEN q[i] ELSE h[i - 1] \o q[i]]
  <2>1. h = k
    <3>1. ASSUME NEW i \in 1..Len(q) PROVE h[i] = k[i]
      <4>1. g[i] = g[i - 1] \o q[i] /\ q[i] \in Seq(S)
        BY <1>2, ElementOfSeq DEF Flattens
      <4>2. CASE i = 1
        <5>1. g[i - 1] = <<>>
          BY <1>2, <4>2 DEF Flattens
        <5>2. g[i] = q[i]
          BY <4>1, <5>1, ConcatEmptySeq
        <5> QED
          BY <4>2, <5>2
      <4>3. CASE i # 1
        <5>1. i - 1 \in 1..Len(q)
          BY <1>1, <4>3
        <5>2. h[i - 1] = g[i - 1]
          BY <5>1
        <5> QED
          BY <4>1, <4>3, <5>2
      <4> QED
        BY <4>2, <4>3
    <3>2. h = [i \in 1..Len(q) |-> h[i]] /\ k = [i \in 1..Len(q) |-> k[i]]
      OBVIOUS
    <3> HIDE DEF h, k
    <3> QED
      BY <3>1, <3>2
  <2>2. f = [i \in 1..Len(q) |-> IF i = 1 THEN q[i] ELSE f[i - 1] \o q[i]]
    BY <2>1, Zenon
  <2>3. FlattenSeq(q) = f[Len(q)]
    BY <1>4, Zenon DEF FlattenSeq
  <2> HIDE DEF f, h, k
  <2> DEFINE e == [i \in 0..n |-> IF i = 0 THEN <<>> ELSE f[i]]
  <2>4. Flattens(e, q, n)
    <3>1. e[0] = <<>> /\ \A i \in 1..n : e[i] = f[i]
      BY <1>1
    <3> HIDE DEF e
    <3>2. ASSUME NEW i \in 1..n PROVE e[i] = e[i - 1] \o q[i]
      <4>0. f[i] = IF i = 1 THEN q[i] ELSE f[i - 1] \o q[i]
        BY <2>2
      <4>1. CASE i = 1
        <5>1. q[i] \in Seq(S) /\ e[i - 1] = <<>> /\ e[i] = q[i]
          BY <3>1, <4>0, <4>1, ElementOfSeq
        <5> QED
          BY <5>1, ConcatEmptySeq
      <4>2. CASE i # 1
        <5>1. i - 1 \in 1..n
          BY <1>1, <4>2
        <5> QED
          BY <3>1, <4>0, <4>2, <5>1
      <4> QED
        BY <4>1, <4>2
    <3> QED
      BY <3>1, <3>2 DEF Flattens
  <2>5. e[n] = f[n]
    BY <1>1, <1>4
  <2> HIDE DEF e
  <2>6. e[n] = g[n]
    <3>1. n \in 0..n
      BY <1>1
    <3> QED
      BY <1>1, <1>2, <2>4, <3>1, FlattensUnique
  <2> QED
    BY <1>2, <2>3, <2>5, <2>6
<1> QED
  BY <1>3, <1>4

\* A flattened sequence is one of the elements.
LEMMA FlattenType ==
  ASSUME NEW S, NEW q \in Seq(Seq(S))
  PROVE  FlattenSeq(q) \in Seq(S)
<1>1. PICK f \in [0..Len(q) -> Seq(S)] : FlattenSeq(q) = f[Len(q)]
  BY Flattening
<1>2. Len(q) \in 0..Len(q)
  BY LenProperties
<1> QED
  BY <1>1, <1>2

\* Nothing, flattened.
LEMMA FlattenEmpty == FlattenSeq(<<>>) = <<>>
  BY EmptySeq DEF FlattenSeq

\* Two sequences, one after the other.
LEMMA FlattenConcat ==
  ASSUME NEW S, NEW q \in Seq(Seq(S)), NEW r \in Seq(Seq(S))
  PROVE  FlattenSeq(q \o r) = FlattenSeq(q) \o FlattenSeq(r)
<1> DEFINE m == Len(q)
           n == Len(r)
           u == q \o r
<1>1. m \in Nat /\ n \in Nat
  BY LenProperties
<1>2. /\ u \in Seq(Seq(S)) /\ Len(u) = m + n
      /\ \A i \in 1..(m + n) : u[i] = IF i <= m THEN q[i] ELSE r[i - m]
  BY ConcatProperties
<1>3. PICK g \in [0..m -> Seq(S)] : Flattens(g, q, m) /\ FlattenSeq(q) = g[m]
  BY Flattening
<1>4. PICK h \in [0..n -> Seq(S)] : Flattens(h, r, n) /\ FlattenSeq(r) = h[n]
  BY Flattening
<1> HIDE DEF u
<1>5. PICK f \in [0..(m + n) -> Seq(S)] : Flattens(f, u, m + n) /\ FlattenSeq(u) = f[m + n]
  <2>1. u \in Seq(Seq(S)) /\ Len(u) = m + n
    BY <1>2
  <2>2. \E f \in [0..Len(u) -> Seq(S)] : Flattens(f, u, Len(u)) /\ FlattenSeq(u) = f[Len(u)]
    BY <2>1, Flattening, Zenon
  <2> QED
    BY <2>1, <2>2
<1>6. \A i \in 1..n : r[i] \in Seq(S)
  BY ElementOfSeq
<1> HIDE DEF m, n
<1> DEFINE e == [i \in 0..(m + n) |-> IF i <= m THEN g[i] ELSE g[m] \o h[i - m]]
<1>7. g[0] = <<>> /\ h[0] = <<>> /\ g[m] \in Seq(S) /\ \A j \in 0..n : h[j] \in Seq(S)
  <2>1. m \in 0..m
    BY <1>1
  <2> QED
    BY <1>3, <1>4, <2>1 DEF Flattens
<1>8. \A i \in 0..m : e[i] = g[i]
  BY <1>1
<1>9. ASSUME NEW j \in 0..n PROVE e[m + j] = g[m] \o h[j]
  <2>2. CASE j = 0
    <3>1. e[m + j] = g[m]
      BY <1>1, <2>2
    <3> HIDE DEF e
    <3>2. g[m] \o h[j] = g[m]
      BY <1>7, <2>2, ConcatEmptySeq
    <3> QED
      BY <3>1, <3>2
  <2>3. CASE j # 0
    <3> DEFINE k == m + j
    <3>1. k \in 0..(m + n) /\ ~(k <= m) /\ k - m = j
      BY <1>1, <2>3
    <3> HIDE DEF k
    <3>2. e[k] = g[m] \o h[k - m]
      BY <3>1
    <3> HIDE DEF e
    <3> QED
      BY <3>1, <3>2 DEF k
  <2> QED
    BY <2>2, <2>3
<1> HIDE DEF e
<1>10. Flattens(e, u, m + n)
  <2>1. e[0] = <<>>
    <3>1. 0 \in 0..m
      BY <1>1
    <3> QED
      BY <1>7, <1>8, <3>1
  <2>2. ASSUME NEW i \in 1..(m + n) PROVE e[i] = e[i - 1] \o u[i]
    <3>1. CASE i <= m
      <4>1. i \in 0..m /\ i - 1 \in 0..m /\ i \in 1..m
        BY <1>1, <3>1
      <4>2. e[i] = g[i] /\ e[i - 1] = g[i - 1] /\ u[i] = q[i]
        BY <1>2, <1>8, <3>1, <4>1
      <4> QED
        BY <1>3, <4>1, <4>2 DEF Flattens
    <3>2. CASE ~(i <= m)
      <4> DEFINE j == i - m
      <4>1. j \in 1..n /\ j \in 0..n /\ j - 1 \in 0..n /\ i = m + j /\ i - 1 = m + (j - 1)
        BY <1>1, <3>2
      <4>2. u[i] = r[j]
        BY <1>2, <3>2
      <4> HIDE DEF j
      <4>3. e[i] = g[m] \o h[j] /\ e[i - 1] = g[m] \o h[j - 1]
        BY <1>9, <4>1
      <4>5. h[j] = h[j - 1] \o r[j]
        BY <1>4, <4>1 DEF Flattens
      <4>6. g[m] \o (h[j - 1] \o r[j]) = (g[m] \o h[j - 1]) \o r[j]
        <5>1. h[j - 1] \in Seq(S) /\ r[j] \in Seq(S) /\ g[m] \in Seq(S)
          BY <1>6, <1>7, <4>1
        <5>2. ASSUME NEW a \in Seq(S), NEW b \in Seq(S), NEW c \in Seq(S)
              PROVE  a \o (b \o c) = (a \o b) \o c
          BY Associative, SMTT(30)
        <5> QED
          BY <5>1, <5>2
      <4> QED
        BY <4>2, <4>3, <4>5, <4>6
    <3> QED
      BY <3>1, <3>2
  <2> QED
    BY <2>1, <2>2 DEF Flattens
<1>11. f[m + n] = e[m + n]
  <2>1. Flattens(f, u, m + n) /\ Flattens(e, u, m + n) /\ m + n \in Nat /\ m + n \in 0..(m + n)
    BY <1>1, <1>5, <1>10
  <2>2. \A i \in 0..(m + n) : f[i] = e[i]
    BY <2>1, FlattensUnique
  <2> QED
    BY <2>1, <2>2
<1>12. n \in 0..n
  BY <1>1
<1> QED
  BY <1>3, <1>4, <1>5, <1>9, <1>11, <1>12 DEF u

\* One sequence more.
LEMMA FlattenAppend ==
  ASSUME NEW S, NEW q \in Seq(Seq(S)), NEW x \in Seq(S)
  PROVE  FlattenSeq(Append(q, x)) = FlattenSeq(q) \o x
<1> DEFINE r == <<x>>
<1>1. r \in Seq(Seq(S)) /\ Len(r) = 1 /\ r[1] = x
  OBVIOUS
<1>2. Append(q, x) = q \o r
  BY AppendIsConcat
<1> HIDE DEF r
<1>3. FlattenSeq(q \o r) = FlattenSeq(q) \o FlattenSeq(r)
  BY <1>1, FlattenConcat
<1>4. PICK f \in [0..1 -> Seq(S)] : Flattens(f, r, 1) /\ FlattenSeq(r) = f[1]
  <2>1. \E f \in [0..Len(r) -> Seq(S)] : Flattens(f, r, Len(r)) /\ FlattenSeq(r) = f[Len(r)]
    BY <1>1, Flattening, Zenon
  <2> QED
    BY <1>1, <2>1
<1>5. f[1] = <<>> \o x
  <2>1. 1 \in 1..1 /\ 1 - 1 = 0
    OBVIOUS
  <2> QED
    BY <1>1, <1>4, <2>1 DEF Flattens
<1>6. <<>> \o x = x
  BY ConcatEmptySeq
<1> QED
  BY <1>2, <1>3, <1>4, <1>5, <1>6

\* One sequence, flattened.
LEMMA FlattenOne ==
  ASSUME NEW S, NEW x \in Seq(S)
  PROVE  FlattenSeq(<<x>>) = x
<1> DEFINE e == <<>>
<1>1. e \in Seq(Seq(S)) /\ <<x>> = Append(e, x)
  OBVIOUS
<1>2. FlattenSeq(Append(e, x)) = FlattenSeq(e) \o x
  <2> HIDE DEF e
  <2> QED
    BY <1>1, FlattenAppend
<1>3. FlattenSeq(e) = <<>>
  BY FlattenEmpty
<1>4. <<>> \o x = x
  BY ConcatEmptySeq
<1> QED
  BY <1>1, <1>2, <1>3, <1>4, Zenon

\* What begins at a position is the element there and what begins after it.
LEMMA FlattenFrom ==
  ASSUME NEW S, NEW q \in Seq(Seq(S)), NEW k \in 1..Len(q)
  PROVE  /\ SubSeq(q, k, Len(q)) \in Seq(Seq(S)) /\ SubSeq(q, k + 1, Len(q)) \in Seq(Seq(S))
         /\ FlattenSeq(SubSeq(q, k, Len(q))) = q[k] \o FlattenSeq(SubSeq(q, k + 1, Len(q)))
<1> DEFINE T == Seq(S)
           n == Len(q)
           a == SubSeq(q, k, k)
           b == SubSeq(q, k + 1, n)
<1>1. n \in Nat /\ k \in Nat /\ k \in 0..n /\ k - 1 \in 0..n /\ (k - 1) + 1 = k /\ q[k] \in T
  BY LenProperties, ElementOfSeq
<1>2. b \in Seq(T)
  BY <1>1, CutAt
<1>3. SubSeq(q, k, n) \in Seq(T)
  <2>1. SubSeq(q, (k - 1) + 1, n) \in Seq(T)
    BY <1>1, CutAt
  <2> QED
    BY <1>1, <2>1
<1>4. a \in Seq(T) /\ Len(a) = 1 /\ a[1] = q[k]
  <2>1. \A i \in k..k : q[i] \in T
    BY <1>1
  <2>2. /\ a \in Seq(T) /\ Len(a) = IF k <= k THEN k - k + 1 ELSE 0
        /\ \A i \in 1..(k - k + 1) : a[i] = q[k + i - 1]
    BY <1>1, <2>1, SubSeqProperties
  <2>3. k - k + 1 = 1 /\ 1 \in 1..1 /\ k + 1 - 1 = k /\ k <= k
    BY <1>1
  <2> QED
    BY <2>2, <2>3
<1>5. a = <<q[k]>>
  <2> HIDE DEF a
  <2>1. a = [i \in 1..1 |-> a[i]]
    BY <1>4
  <2> QED
    BY <1>4, <2>1
<1>6. SubSeq(q, k, n) = a \o b
  <2>1. k \in 1..(n + 1) /\ k \in (k - 1)..n /\ n \in k..n
    BY <1>1
  <2> QED
    BY <2>1, ConcatAdjacentSubSeq
<1>7. FlattenSeq(a) = q[k]
  BY <1>1, <1>5, FlattenOne
<1>8. FlattenSeq(a \o b) = FlattenSeq(a) \o FlattenSeq(b)
  <2> HIDE DEF a, b
  <2> QED
    BY <1>2, <1>4, FlattenConcat
<1> QED
  BY <1>2, <1>3, <1>6, <1>7, <1>8, Zenon

\* Nothing begins after the end.
LEMMA FlattenFromEnd ==
  ASSUME NEW S, NEW q \in Seq(Seq(S)), NEW k \in Nat, k > Len(q)
  PROVE  FlattenSeq(SubSeq(q, k, Len(q))) = <<>>
<1>1. Len(q) \in Nat
  BY LenProperties
<1>2. SubSeq(q, k, Len(q)) = <<>>
  BY <1>1, SubSeqEmpty
<1> QED
  BY <1>2, FlattenEmpty

\* Characters one by one are the text.
LEMMA FlattenSingles ==
  ASSUME NEW S, NEW v \in Seq(S)
  PROVE  FlattenSeq([i \in DOMAIN v |-> <<v[i]>>]) = v
<1> DEFINE q == [i \in DOMAIN v |-> <<v[i]>>]
           n == Len(v)
<1>1. n \in Nat /\ DOMAIN v = 1..n /\ \A i \in 1..n : v[i] \in S
  BY LenProperties, ElementOfSeq
<1>2. q \in Seq(Seq(S)) /\ Len(q) = n /\ \A i \in 1..n : q[i] = <<v[i]>>
  <2>1. \A i \in 1..n : <<v[i]>> \in Seq(S)
    BY <1>1
  <2>2. q \in [1..n -> Seq(S)]
    BY <1>1, <2>1
  <2> QED
    BY <1>1, <2>2
<1> HIDE DEF q
<1>3. PICK f \in [0..n -> Seq(S)] : Flattens(f, q, n) /\ FlattenSeq(q) = f[n]
  BY <1>2, Flattening
<1> DEFINE A == {i \in Nat : i <= n => f[i] = SubSeq(v, 1, i)}
<1>4. 0 \in A
  <2>1. SubSeq(v, 1, 0) = <<>>
    BY SubSeqEmpty
  <2> QED
    BY <1>3, <2>1 DEF Flattens
<1>5. ASSUME NEW i \in A PROVE i + 1 \in A
  <2>1. SUFFICES ASSUME i + 1 <= n PROVE f[i + 1] = SubSeq(v, 1, i + 1)
    OBVIOUS
  <2>2. i \in Nat /\ i <= n /\ i + 1 \in 1..n /\ (i + 1) - 1 = i /\ i \in 0..n
    BY <1>1, <2>1
  <2>3. f[i] = SubSeq(v, 1, i)
    BY <2>2
  <2>4. f[i + 1] = f[(i + 1) - 1] \o q[i + 1]
    BY <1>3, <2>2 DEF Flattens
  <2>5. f[i + 1] = SubSeq(v, 1, i) \o <<v[i + 1]>>
    BY <1>2, <2>2, <2>3, <2>4
  <2> DEFINE c == SubSeq(v, 1, i + 1)
             a == SubSeq(v, 1, i)
  <2>6. c \in Seq(S) /\ Len(c) = i + 1 /\ \A j \in 1..(i + 1) : c[j] = v[j]
    <3>1. i + 1 \in 0..n
      BY <2>2
    <3> QED
      BY <3>1, CutAt, ZenonT(30)
  <2>7. a \in Seq(S) /\ Len(a) = i /\ \A j \in 1..i : a[j] = v[j]
    BY <2>2, CutAt, ZenonT(30)
  <2> HIDE DEF a, c
  <2>8. v[i + 1] \in S
    BY <1>1, <2>2
  <2>9. /\ Append(a, v[i + 1]) \in Seq(S) /\ Len(Append(a, v[i + 1])) = i + 1
        /\ \A j \in 1..(i + 1) : Append(a, v[i + 1])[j] = v[j]
    BY <2>2, <2>7, <2>8, AppendProperties
  <2>10. Append(a, v[i + 1]) = c
    <3> DEFINE d == Append(a, v[i + 1])
    <3>1. d \in Seq(S) /\ Len(d) = i + 1 /\ \A j \in 1..(i + 1) : d[j] = v[j]
      BY <2>9
    <3> HIDE DEF d
    <3>2. d = [j \in 1..(i + 1) |-> d[j]] /\ c = [j \in 1..(i + 1) |-> c[j]]
      BY <2>6, <3>1
    <3>3. d = c
      BY <2>6, <3>1, <3>2
    <3> QED
      BY <3>3 DEF d
  <2>11. Append(a, v[i + 1]) = a \o <<v[i + 1]>>
    BY <2>7, <2>8, AppendIsConcat
  <2> QED
    BY <2>5, <2>10, <2>11 DEF a, c
<1>6. A = Nat
  <2>1. A \in SUBSET Nat
    OBVIOUS
  <2> HIDE DEF A
  <2> QED
    BY <1>4, <1>5, <2>1, Induction
<1>7. f[n] = SubSeq(v, 1, n)
  <2>1. n \in A /\ n <= n
    BY <1>1, <1>6
  <2> QED
    BY <2>1
<1>8. SubSeq(v, 1, n) = v
  BY SubSeqFull
<1> QED
  BY <1>3, <1>7, <1>8 DEF q

-----------------------------------------------------------------------------
(* Values.                                                                 *)

\* A value without references is expanded to itself, in every environment.
LEMMA ExpandLiteral ==
  ASSUME NEW v \in Seq(Char), NEW env, Literal(v)
  PROVE  expand_environment(v, env) = v
<1>1. expand_environment(v, env) = FlattenSeq([i \in DOMAIN v |-> <<v[i]>>])
  BY DEF expand_environment, Literal
<1> QED
  BY <1>1, FlattenSingles

\* What trim leaves of a text is a text.
LEMMA TrimType ==
  ASSUME NEW S, NEW v \in Seq(S)
  PROVE  Trim(v) \in Seq(S)
<1> DEFINE text == {i \in DOMAIN v : v[i] \notin {" ", "TAB"}}
<1>1. Len(v) \in Nat /\ DOMAIN v = 1..Len(v) /\ \A i \in 1..Len(v) : v[i] \in S
  BY LenProperties, ElementOfSeq
<1>2. text \in SUBSET Nat /\ text \in SUBSET (0..Len(v)) /\ text \subseteq 1..Len(v)
  <2>1. text \subseteq 1..Len(v)
    BY <1>1
  <2> HIDE DEF text
  <2> QED
    BY <1>1, <2>1
<1>3. CASE text = {}
  <2>1. Trim(v) = <<>>
    BY <1>3 DEF Trim
  <2> QED
    BY <2>1
<1>4. CASE text # {}
  <2>1. Trim(v) = SubSeq(v, Min(text), Max(text))
    BY <1>4 DEF Trim
  <2> HIDE DEF text
  <2>2. Min(text) \in text
    BY <1>2, <1>4, LeastPosition
  <2>3. Max(text) \in text
    BY <1>1, <1>2, <1>4, GreatestPosition
  <2> DEFINE m == Min(text)
             n == Max(text)
  <2>4. m \in 1..Len(v) /\ n \in 1..Len(v)
    BY <1>2, <2>2, <2>3
  <2> HIDE DEF m, n
  <2>5. m \in Int /\ n \in Int /\ \A i \in m..n : v[i] \in S
    BY <1>1, <2>4
  <2>6. SubSeq(v, m, n) \in Seq(S)
    BY <2>5, SubSeqProperties
  <2> QED
    BY <2>1, <2>6 DEF m, n
<1> QED
  BY <1>3, <1>4

\* The recursion of decode_hash_comments, from a position on.
Decoded(f, v, i) ==
  IF i > Len(v) THEN <<>>
  ELSE IF v[i] # "#" THEN <<v[i]>> \o f[i + 1]
  ELSE IF i < Len(v) /\ v[i + 1] = "#" THEN <<"#">> \o f[i + 2]
  ELSE <<>>

\* It has a solution, position by position from the end of the text.
LEMMA DecodeExists ==
  ASSUME NEW S, NEW v \in Seq(S)
  PROVE  \E f \in [1..(Len(v) + 2) -> Seq(S)] :
           \A i \in 1..(Len(v) + 2) : f[i] = Decoded(f, v, i)
<1> DEFINE L == Len(v)
           D(n) == (L + 2 - n)..(L + 2)
           A == {n \in Nat : n <= L + 1 =>
                   \E f \in [D(n) -> Seq(S)] : \A i \in D(n) : f[i] = Decoded(f, v, i)}
<1>1. L \in Nat /\ \A i \in 1..L : v[i] \in S
  BY LenProperties, ElementOfSeq
<1>2. 0 \in A
  <2> DEFINE f == [i \in D(0) |-> <<>>]
  <2>1. f \in [D(0) -> Seq(S)] /\ \A i \in D(0) : f[i] = <<>>
    OBVIOUS
  <2> HIDE DEF f
  <2>2. \A i \in D(0) : i > Len(v)
    BY <1>1
  <2>3. \A i \in D(0) : f[i] = Decoded(f, v, i)
    BY <2>1, <2>2 DEF Decoded
  <2> QED
    BY <2>1, <2>3
<1>3. ASSUME NEW n \in A PROVE n + 1 \in A
  <2>1. SUFFICES ASSUME n + 1 <= L + 1
                 PROVE  \E f \in [D(n + 1) -> Seq(S)] :
                          \A i \in D(n + 1) : f[i] = Decoded(f, v, i)
    OBVIOUS
  <2>2. n \in Nat /\ n <= L + 1
    BY <1>1, <2>1
  <2>3. PICK g \in [D(n) -> Seq(S)] : \A i \in D(n) : g[i] = Decoded(g, v, i)
    BY <2>2
  <2> DEFINE k == L + 1 - n
             f == [i \in D(n + 1) |-> IF i = k THEN Decoded(g, v, k) ELSE g[i]]
  <2>4. /\ k \in Nat \ {0} /\ k \in D(n + 1) /\ k \notin D(n) /\ k \in 1..(L + 1)
        /\ D(n + 1) = D(n) \cup {k} /\ k + 1 \in D(n)
        /\ (k <= L => k + 2 \in D(n) /\ k \in 1..L)
        /\ (k < L => k + 1 \in 1..L)
    BY <1>1, <2>1, <2>2
  <2> HIDE DEF k, D
  <2>5. Decoded(g, v, k) \in Seq(S)
    <3>1. CASE k > L
      BY <3>1 DEF Decoded
    <3>2. CASE ~(k > L)
      <4>1. k <= L /\ v[k] \in S /\ g[k + 1] \in Seq(S) /\ g[k + 2] \in Seq(S)
        BY <1>1, <2>3, <2>4, <3>2
      <4>2. <<v[k]>> \o g[k + 1] \in Seq(S) /\ (v[k] = "#" => <<"#">> \o g[k + 2] \in Seq(S))
        <5>1. <<v[k]>> \in Seq(S)
          BY <4>1
        <5> QED
          BY <4>1, <5>1, ConcatProperties
      <4> QED
        BY <4>2 DEF Decoded
    <3> QED
      BY <3>1, <3>2
  <2>6. /\ f \in [D(n + 1) -> Seq(S)] /\ f[k] = Decoded(g, v, k)
        /\ \A i \in D(n) : f[i] = g[i]
    BY <2>3, <2>4, <2>5
  <2> HIDE DEF f
  <2>7. ASSUME NEW i \in D(n + 1) PROVE f[i] = Decoded(f, v, i)
    <3>1. CASE i = k
      <4>1. f[k + 1] = g[k + 1] /\ (k <= Len(v) => f[k + 2] = g[k + 2])
        BY <2>4, <2>6
      <4>2. Decoded(f, v, k) = Decoded(g, v, k)
        <5>1. CASE k > Len(v)
          BY <5>1 DEF Decoded
        <5>2. CASE ~(k > Len(v))
          <6>1. k <= Len(v)
            BY <1>1, <2>4, <5>2
          <6> QED
            BY <4>1, <6>1 DEF Decoded
        <5> QED
          BY <5>1, <5>2
      <4> QED
        BY <2>6, <3>1, <4>2
    <3>2. CASE i # k
      <4>1. i \in D(n) /\ f[i] = g[i] /\ g[i] = Decoded(g, v, i)
        BY <2>3, <2>4, <2>6, <3>2
      <4>2. i <= Len(v) => i + 1 \in D(n) /\ (i < Len(v) => i + 2 \in D(n))
        BY <1>1, <2>2, <4>1 DEF D
      <4>3. i \in Int
        BY <1>1, <2>2, <4>1 DEF D
      <4>4. Decoded(f, v, i) = Decoded(g, v, i)
        <5>1. CASE i > Len(v)
          BY <5>1 DEF Decoded
        <5>2. CASE ~(i > Len(v))
          <6>1. i <= Len(v)
            BY <1>1, <4>3, <5>2
          <6>2. f[i + 1] = g[i + 1] /\ (i < Len(v) => f[i + 2] = g[i + 2])
            BY <2>6, <4>2, <6>1
          <6> QED
            BY <6>2 DEF Decoded
        <5> QED
          BY <5>1, <5>2
      <4> QED
        BY <4>1, <4>4
    <3> QED
      BY <3>1, <3>2
  <2> QED
    BY <2>6, <2>7
<1>4. A = Nat
  <2>1. A \in SUBSET Nat
    OBVIOUS
  <2> HIDE DEF A
  <2> QED
    BY <1>2, <1>3, <2>1, Induction
<1>5. L + 1 \in A /\ L + 1 <= L + 1 /\ D(L + 1) = 1..(L + 2)
  <2> HIDE DEF A
  <2>1. L + 1 \in Nat /\ L + 1 <= L + 1 /\ L + 2 - (L + 1) = 1
    BY <1>1
  <2> QED
    BY <1>4, <2>1
<1> HIDE DEF D
<1>6. \E f \in [D(L + 1) -> Seq(S)] : \A i \in D(L + 1) : f[i] = Decoded(f, v, i)
  BY <1>5
<1> QED
  BY <1>5, <1>6

\* What is before the comment of a text is a text.
LEMMA DecodeType ==
  ASSUME NEW S, NEW v \in Seq(S)
  PROVE  decode_hash_comments(v) \in Seq(S)
<1> DEFINE L == Len(v)
<1>1. L \in Nat /\ L + 1 \in Nat /\ L + 1 <= L + 1 /\ L + 2 - (L + 1) = 1
  BY LenProperties
<1>2. PICK g \in [1..(L + 2) -> Seq(S)] : \A i \in 1..(L + 2) : g[i] = Decoded(g, v, i)
  BY DecodeExists
<1> DEFINE f[i \in 1..(Len(v) + 2)] ==
             IF i > Len(v) THEN <<>>
             ELSE IF v[i] # "#" THEN <<v[i]>> \o f[i + 1]
             ELSE IF i < Len(v) /\ v[i + 1] = "#" THEN <<"#">> \o f[i + 2]
             ELSE <<>>
           k == [i \in 1..(Len(v) + 2) |->
             IF i > Len(v) THEN <<>>
             ELSE IF v[i] # "#" THEN <<v[i]>> \o g[i + 1]
             ELSE IF i < Len(v) /\ v[i + 1] = "#" THEN <<"#">> \o g[i + 2]
             ELSE <<>>]
<1>3. g = k
  <2>1. \A i \in 1..(Len(v) + 2) : g[i] = k[i]
    BY <1>2 DEF Decoded
  <2>2. g = [i \in 1..(Len(v) + 2) |-> g[i]] /\ k = [i \in 1..(Len(v) + 2) |-> k[i]]
    BY <1>2
  <2> HIDE DEF k
  <2> QED
    BY <2>1, <2>2
<1>4. f = [i \in 1..(Len(v) + 2) |->
             IF i > Len(v) THEN <<>>
             ELSE IF v[i] # "#" THEN <<v[i]>> \o f[i + 1]
             ELSE IF i < Len(v) /\ v[i + 1] = "#" THEN <<"#">> \o f[i + 2]
             ELSE <<>>]
  BY <1>3, Zenon
<1>5. decode_hash_comments(v) = f[1]
  BY Zenon DEF decode_hash_comments
<1> HIDE DEF f, k
<1>6. \A i \in 1..(L + 2) : f[i] = Decoded(f, v, i)
  BY <1>4 DEF Decoded
<1> DEFINE A == {n \in Nat : n <= L + 1 => \A i \in (L + 2 - n)..(L + 2) : f[i] \in Seq(S)}
<1>7. 0 \in A
  <2>1. ASSUME NEW i \in (L + 2 - 0)..(L + 2) PROVE f[i] \in Seq(S)
    <3>1. i \in 1..(L + 2) /\ i > Len(v)
      BY <1>1
    <3>2. f[i] = <<>>
      BY <1>6, <3>1 DEF Decoded
    <3> QED
      BY <3>2
  <2> QED
    BY <2>1
<1>8. ASSUME NEW n \in A PROVE n + 1 \in A
  <2>1. SUFFICES ASSUME n + 1 <= L + 1, NEW i \in (L + 2 - (n + 1))..(L + 2)
                 PROVE  f[i] \in Seq(S)
    OBVIOUS
  <2>2. n \in Nat /\ n <= L + 1 /\ i \in 1..(L + 2) /\ i \in Int
    BY <1>1, <2>1
  <2>3. \A j \in (L + 2 - n)..(L + 2) : f[j] \in Seq(S)
    BY <2>2
  <2>4. CASE i > Len(v)
    <3>1. f[i] = <<>>
      BY <1>6, <2>2, <2>4 DEF Decoded
    <3> QED
      BY <3>1
  <2>5. CASE i <= Len(v)
    <3>1. i + 1 \in (L + 2 - n)..(L + 2) /\ i + 2 \in (L + 2 - n)..(L + 2) /\ i \in 1..L
      BY <1>1, <2>1, <2>2, <2>5
    <3>2. f[i + 1] \in Seq(S) /\ f[i + 2] \in Seq(S) /\ v[i] \in S
      BY <2>3, <3>1, ElementOfSeq
    <3>3. <<v[i]>> \o f[i + 1] \in Seq(S) /\ (v[i] = "#" => <<"#">> \o f[i + 2] \in Seq(S))
      <4>1. <<v[i]>> \in Seq(S)
        BY <3>2
      <4> QED
        BY <3>2, <4>1, ConcatProperties
    <3>4. f[i] = Decoded(f, v, i)
      BY <1>6, <2>2
    <3> QED
      BY <3>3, <3>4 DEF Decoded
  <2> QED
    BY <1>1, <2>2, <2>4, <2>5
<1>9. A = Nat
  <2>1. A \in SUBSET Nat
    OBVIOUS
  <2> HIDE DEF A
  <2> QED
    BY <1>7, <1>8, <2>1, Induction
<1>10. f[1] \in Seq(S)
  <2>1. L + 1 \in A /\ 1 \in (L + 2 - (L + 1))..(L + 2)
    BY <1>1, <1>9
  <2> QED
    BY <1>1, <2>1
<1> QED
  BY <1>5, <1>10

\* The value of a property line, before it is expanded, is a text.
LEMMA PlainType ==
  ASSUME NEW v \in Seq(Char)
  PROVE  Plain(v) \in Seq(Char)
  BY DecodeType, TrimType DEF Plain

-----------------------------------------------------------------------------
(* The inductive invariant, in named parts.                                *)

Types ==
  /\ system \in Systems /\ overrides \in OverrideSets
  /\ stack \in Seq([file : DOMAIN system.files, next : Nat \ {0}])
  /\ applied \in 0..Len(overrides)
  /\ status \in {"files", "overrides", "loaded"} \cup Errors
  /\ status = "files" => stack # <<>> /\ applied = 0
  /\ status = "overrides" => stack = <<>>
  /\ status = "loaded" => applied = Len(overrides)

\* The overrides applied so far are properties, and a later one replaces an
\* earlier one.
Overriding ==
  \A i \in 1..applied :
    /\ overrides[i].name \in DOMAIN properties
    /\ (\A j \in (i + 1)..applied : overrides[j].name # overrides[i].name)
         /\ Literal(overrides[i].value)
       => properties[overrides[i].name] = overrides[i].value

\* The set.NAME override that defines a variable, as Loader::new leaves it.
Definer(v) == Max({i \in SetOverrides(overrides) : VariableOf(overrides[i].name) = v})

\* A variable of the command line keeps the value it was given there.
Locking ==
  /\ locked = {VariableOf(overrides[i].name) : i \in SetOverrides(overrides)}
  /\ \A v \in locked : v \in DOMAIN environment
                         /\ environment[v] = overrides[Definer(v)].value

\* A property that sets a variable, and not only a default of it.
Sets(name) == HasPrefix(name, <<"set">>) /\ ~HasPrefix(name, <<"set", "default">>)

\* A variable of the files shows one of the properties that set it.
Setting ==
  \A name \in DOMAIN properties :
    Sets(name) /\ VariableOf(name) \notin locked =>
      \E other \in DOMAIN properties :
        /\ Sets(other) /\ VariableOf(other) = VariableOf(name)
        /\ VariableOf(name) \in DOMAIN environment
        /\ environment[VariableOf(name)] = properties[other]

Lines(s) == UNION {Range(s.files[f]) : f \in DOMAIN s.files}

\* The lines of a file, with the text of its includes in their places.
Pieces(s, f, texts) == [i \in DOMAIN s.files[f] |-> InPlace(s, s.files[f][i], texts)]

\* The text of an open file that is still to be read; level tells how deep its
\* includes may go, the file itself counted.
Rest(s, open, level) ==
  LET pieces == Pieces(s, open.file, Texts(s)[level - 1])
  IN FlattenSeq(SubSeq(pieces, open.next, Len(pieces)))

Level(i) == MaxIncludeDepth + 2 - i

\* The properties are what the lines read so far define, the last of them for
\* each name.
Described(done) ==
  /\ DOMAIN properties = {done[i].name : i \in Defining(done)}
  /\ \A name \in DOMAIN properties :
       \E i \in Defining(done) :
         /\ done[i].name = name
         /\ \A j \in Defining(done) : done[j].name = name => j <= i
         /\ Literal(Plain(done[i].value)) => properties[name] = Plain(done[i].value)

\* The lines read so far, and then what is left of each open file from the
\* innermost to the root, are the whole text.
Reading(done, rest) ==
  /\ rest[0] = <<>>
  /\ \A i \in 1..Len(stack) : rest[i] = Rest(system, stack[i], Level(i)) \o rest[i - 1]
  /\ TextOf(system) = done \o rest[Len(stack)]
  /\ Described(done)

Textual ==
  PlainIncludes(system) /\ (status = "files" \/ (status = "overrides" /\ applied = 0)) =>
    \E done \in Seq(Lines(system)), rest \in [0..Len(stack) -> Seq(Lines(system))] :
      Reading(done, rest)

LoadInv == Types /\ NestingIsBounded /\ Overriding /\ Locking /\ Setting /\ Textual

-----------------------------------------------------------------------------
(* Properties and variables.                                               *)

\* What a property does to the environment: a variable that is defined changes
\* only through set.NAME, and not if the command line locked it.
LEMMA Applied ==
  ASSUME NEW name, NEW value,
         environment' = apply_environment_property(environment, name, value)
  PROVE  /\ \A v \in DOMAIN environment :
              /\ v \in DOMAIN environment'
              /\ environment'[v] # environment[v] =>
                   v \notin locked /\ Sets(name) /\ VariableOf(name) = v
                     /\ environment'[v] = value
         /\ Sets(name) /\ VariableOf(name) \notin locked =>
              VariableOf(name) \in DOMAIN environment'
                /\ environment'[VariableOf(name)] = value
<1> DEFINE default == HasPrefix(name, <<"set", "default">>)
           v == normalize_environment_name(
                  StripPrefix(name, IF default THEN <<"set", "default">> ELSE <<"set">>))
<1>1. environment' = IF /\ HasPrefix(name, <<"set">>)
                        /\ v \notin locked
                        /\ default => v \notin DOMAIN environment
                       THEN Put(environment, v, value) ELSE environment
  BY DEF apply_environment_property
<1>2. ~default => v = VariableOf(name)
  BY DEF VariableOf
<1>3. Sets(name) <=> HasPrefix(name, <<"set">>) /\ ~default
  BY DEF Sets
<1> HIDE DEF v, default
<1>4. CASE HasPrefix(name, <<"set">>) /\ v \notin locked /\ (default => v \notin DOMAIN environment)
  <2>1. environment' = Put(environment, v, value)
    BY <1>1, <1>4
  <2>2. /\ DOMAIN environment' = DOMAIN environment \cup {v}
        /\ environment'[v] = value
        /\ \A k \in DOMAIN environment : k # v => environment'[k] = environment[k]
    BY <2>1 DEF Put
  <2> QED
    BY <1>2, <1>3, <1>4, <2>2
<1>5. CASE ~(HasPrefix(name, <<"set">>) /\ v \notin locked /\ (default => v \notin DOMAIN environment))
  <2>1. environment' = environment
    BY <1>1, <1>5
  <2> QED
    BY <1>2, <1>3, <1>5, <2>1
<1> QED
  BY <1>4, <1>5

\* What a property does to the properties.
LEMMA Inserted ==
  ASSUME NEW name, NEW value, properties' = Put(properties, name, value)
  PROVE  /\ DOMAIN properties' = DOMAIN properties \cup {name}
         /\ properties'[name] = value
         /\ \A k \in DOMAIN properties : k # name => properties'[k] = properties[k]
  BY DEF Put

\* Both together keep what the variables show, and what is locked.
LEMMA SettingKept ==
  ASSUME NEW name, NEW value, Setting, Locking,
         properties' = Put(properties, name, value),
         environment' = apply_environment_property(environment, name, value),
         UNCHANGED <<overrides, locked>>
  PROVE  Setting' /\ Locking'
<1>1. /\ DOMAIN properties' = DOMAIN properties \cup {name}
      /\ properties'[name] = value
      /\ \A k \in DOMAIN properties : k # name => properties'[k] = properties[k]
  BY Inserted
<1>2. /\ \A v \in DOMAIN environment :
           /\ v \in DOMAIN environment'
           /\ environment'[v] # environment[v] =>
                v \notin locked /\ Sets(name) /\ VariableOf(name) = v
                  /\ environment'[v] = value
      /\ Sets(name) /\ VariableOf(name) \notin locked =>
           VariableOf(name) \in DOMAIN environment'
             /\ environment'[VariableOf(name)] = value
  BY Applied
<1>3. ASSUME NEW n \in DOMAIN properties', Sets(n), VariableOf(n) \notin locked
      PROVE  \E other \in DOMAIN properties' :
               /\ Sets(other) /\ VariableOf(other) = VariableOf(n)
               /\ VariableOf(n) \in DOMAIN environment'
               /\ environment'[VariableOf(n)] = properties'[other]
  <2>1. CASE Sets(name) /\ VariableOf(name) = VariableOf(n)
    BY <1>1, <1>2, <1>3, <2>1
  <2>2. CASE ~(Sets(name) /\ VariableOf(name) = VariableOf(n))
    <3>1. n \in DOMAIN properties
      BY <1>1, <1>3, <2>2
    <3>2. PICK other \in DOMAIN properties :
            /\ Sets(other) /\ VariableOf(other) = VariableOf(n)
            /\ VariableOf(n) \in DOMAIN environment
            /\ environment[VariableOf(n)] = properties[other]
      BY <1>3, <3>1 DEF Setting
    <3>3. other # name /\ other \in DOMAIN properties' /\ properties'[other] = properties[other]
      BY <1>1, <2>2, <3>2
    <3>4. /\ VariableOf(n) \in DOMAIN environment'
          /\ environment'[VariableOf(n)] = environment[VariableOf(n)]
      BY <1>2, <2>2, <3>2
    <3> QED
      BY <3>2, <3>3, <3>4
  <2> QED
    BY <2>1, <2>2
<1>4. Setting'
  BY <1>3 DEF Setting, Sets, VariableOf, HasPrefix
<1>5. Locking'
  BY <1>2 DEF Locking, Definer
<1> QED
  BY <1>4, <1>5

-----------------------------------------------------------------------------
(* The open files.                                                         *)

Open == [file : DOMAIN system.files, next : Nat \ {0}]

\* The innermost open file, and going on to its next line.
LEMMA TopOpen ==
  ASSUME stack \in Seq(Open), stack # <<>>
  PROVE  /\ Len(stack) \in Nat \ {0} /\ Top \in Open
         /\ Advanced \in Seq(Open) /\ Len(Advanced) = Len(stack)
         /\ \A i \in 1..Len(stack) : /\ stack[i] \in Open /\ Advanced[i] \in Open
                                     /\ Advanced[i].file = stack[i].file
                                     /\ i # Len(stack) => Advanced[i] = stack[i]
         /\ Advanced[Len(stack)].next = Top.next + 1
<1> DEFINE n == Len(stack)
<1>1. n \in Nat /\ DOMAIN stack = 1..n /\ n # 0 /\ n \in 1..n
  BY LenProperties, EmptySeq
<1>2. \A i \in 1..n : stack[i] \in Open
  BY ElementOfSeq
<1>3. Advanced = [i \in 1..n |-> IF i = n THEN [stack[n] EXCEPT !.next = stack[n].next + 1]
                                 ELSE stack[i]]
  BY <1>1 DEF Advanced
<1>4. [stack[n] EXCEPT !.next = stack[n].next + 1] \in Open
  BY <1>1, <1>2 DEF Open
<1>5. /\ \A i \in 1..n : Advanced[i] = IF i = n THEN [stack[n] EXCEPT !.next = stack[n].next + 1]
                                       ELSE stack[i]
      /\ Advanced \in [1..n -> Open]
  BY <1>1, <1>2, <1>3, <1>4
<1>6. Advanced \in Seq(Open) /\ Len(Advanced) = n
  <2> DEFINE a == Advanced
  <2>1. a \in [1..n -> Open]
    BY <1>5
  <2> HIDE DEF a, Open
  <2>2. a \in Seq(Open) /\ Len(a) = n
    BY <1>1, <2>1
  <2> QED
    BY <2>2 DEF a
<1>7. /\ [stack[n] EXCEPT !.next = stack[n].next + 1].file = stack[n].file
      /\ [stack[n] EXCEPT !.next = stack[n].next + 1].next = stack[n].next + 1
  BY <1>1, <1>2 DEF Open
<1>8. Top = stack[n]
  BY DEF Top
<1> HIDE DEF Open
<1> QED
  BY <1>1, <1>2, <1>4, <1>5, <1>6, <1>7, <1>8

\* Another file on top of them.
LEMMA PushOpen ==
  ASSUME stack \in Seq(Open), stack # <<>>, NEW file \in DOMAIN system.files
  PROVE  LET pushed == Append(Advanced, [file |-> file, next |-> 1]) IN
           /\ pushed \in Seq(Open) /\ Len(pushed) = Len(stack) + 1
           /\ \A i \in 1..Len(stack) : pushed[i] = Advanced[i]
           /\ pushed[Len(stack) + 1] = [file |-> file, next |-> 1]
<1> DEFINE x == [file |-> file, next |-> 1]
<1>1. x \in Open
  BY DEF Open
<1>2. Advanced \in Seq(Open) /\ Len(Advanced) = Len(stack) /\ Len(stack) \in Nat
  BY TopOpen
<1> HIDE DEF x
<1>3. /\ Append(Advanced, x) \in Seq(Open) /\ Len(Append(Advanced, x)) = Len(Advanced) + 1
      /\ \A i \in 1..Len(Advanced) : Append(Advanced, x)[i] = Advanced[i]
      /\ Append(Advanced, x)[Len(Advanced) + 1] = x
  BY <1>1, <1>2, AppendProperties
<1> QED
  BY <1>2, <1>3 DEF x

\* The innermost one closed.
LEMMA PopOpen ==
  ASSUME stack \in Seq(Open), stack # <<>>
  PROVE  /\ Front(stack) \in Seq(Open) /\ Len(Front(stack)) = Len(stack) - 1
         /\ \A i \in 1..(Len(stack) - 1) : Front(stack)[i] = stack[i]
<1> DEFINE n == Len(stack)
<1>1. n \in Nat /\ n # 0 /\ n - 1 \in 0..n
  BY LenProperties, EmptySeq
<1>2. /\ SubSeq(stack, 1, n - 1) \in Seq(Open) /\ Len(SubSeq(stack, 1, n - 1)) = n - 1
      /\ \A i \in 1..(n - 1) : SubSeq(stack, 1, n - 1)[i] = stack[i]
  BY <1>1, CutAt, ZenonT(30)
<1> QED
  BY <1>2 DEF Front

\* The types and the nesting, step by step.
LEMMA TypesKept ==
  ASSUME Types, NestingIsBounded, LoadStep
  PROVE  Types' /\ NestingIsBounded'
<1>1. /\ system \in Systems /\ overrides \in OverrideSets /\ stack \in Seq(Open)
      /\ applied \in 0..Len(overrides)
      /\ status \in {"files", "overrides", "loaded"} \cup Errors
      /\ status = "files" => stack # <<>> /\ applied = 0
      /\ status = "overrides" => stack = <<>>
      /\ status = "loaded" => applied = Len(overrides)
  BY DEF Types, Open
<1>2. system' = system /\ overrides' = overrides /\ Open' = Open
  BY DEF LoadStep, Skip, NoName, Property, Include, EndOfFile, ApplyOverride, Loaded, Fail,
         input, Open
<1>3. Len(overrides) \in Nat
  <2>1. overrides \in Seq([name : Seq(Char), value : Seq(Char)])
    BY <1>1, OverridesAssumption
  <2> QED
    BY <2>1, LenProperties
<1>4. /\ Len(stack) \in Nat /\ DOMAIN stack = 1..Len(stack) /\ Len(stack) <= MaxIncludeDepth + 1
      /\ \A i, j \in 1..Len(stack) : stack[i].file = stack[j].file => i = j
  BY <1>1, LenProperties DEF NestingIsBounded
<1> DEFINE Good ==
             /\ stack' \in Seq(Open)
             /\ applied' \in 0..Len(overrides)
             /\ status' \in {"files", "overrides", "loaded"} \cup Errors
             /\ status' = "files" => stack' # <<>> /\ applied' = 0
             /\ status' = "overrides" => stack' = <<>>
             /\ status' = "loaded" => applied' = Len(overrides)
             /\ Len(stack') <= MaxIncludeDepth + 1
             /\ \A i, j \in 1..Len(stack') : stack'[i].file = stack'[j].file => i = j
<1>5. SUFFICES Good
  <2>1. stack' \in Seq(Open) => DOMAIN stack' = 1..Len(stack')
    BY LenProperties
  <2> QED
    BY <1>1, <1>2, <2>1 DEF Types, NestingIsBounded, Open
<1>6. ASSUME stack' = stack, applied' = applied, status' \in Errors \cup {status}
      PROVE  Good
  BY <1>1, <1>4, <1>6 DEF Errors
<1>7. ASSUME status = "files", stack' = Advanced, applied' = applied, status' = status
      PROVE  Good
  <2>1. /\ Advanced \in Seq(Open) /\ Len(Advanced) = Len(stack) /\ Len(stack) # 0
        /\ \A i \in 1..Len(stack) : Advanced[i].file = stack[i].file
    BY <1>1, <1>7, TopOpen, Zenon
  <2>2. Advanced # <<>>
    BY <2>1, EmptySeq
  <2> HIDE DEF Open
  <2> QED
    BY <1>1, <1>4, <1>7, <2>1, <2>2
<1>8. ASSUME status = "files", NEW file \in DOMAIN system.files, ~OnStack(file),
             ~TooDeep(Depth + 1), applied' = applied, status' = status,
             stack' = Append(Advanced, [file |-> file, next |-> 1])
      PROVE  Good
  <2>1. \A i \in 1..Len(stack) : Advanced[i].file = stack[i].file
    BY <1>1, <1>8, TopOpen, Zenon
  <2>2. /\ stack' \in Seq(Open) /\ Len(stack') = Len(stack) + 1
        /\ \A i \in 1..Len(stack) : stack'[i] = Advanced[i]
        /\ stack'[Len(stack) + 1] = [file |-> file, next |-> 1]
    BY <1>1, <1>8, PushOpen
  <2>3. stack' # <<>>
    BY <1>4, <2>2, EmptySeq
  <2>4. Len(stack) + 1 <= MaxIncludeDepth + 1
    BY <1>4, <1>8, DepthAssumption DEF TooDeep, Depth
  <2>5. \A i \in 1..Len(stack) : stack'[i].file = stack[i].file /\ stack[i].file # file
    BY <1>4, <1>8, <2>1, <2>2 DEF OnStack
  <2>6. stack'[Len(stack) + 1].file = file
    BY <2>2
  <2>7. \A i, j \in 1..Len(stack') : stack'[i].file = stack'[j].file => i = j
    <3>1. \A i \in 1..Len(stack') : i \in 1..Len(stack) \/ i = Len(stack) + 1
      BY <1>4, <2>2
    <3> QED
      BY <1>4, <2>5, <2>6, <3>1
  <2> HIDE DEF Open
  <2> QED
    BY <1>1, <1>8, <2>2, <2>3, <2>4, <2>7
<1>9. CASE Skip
  BY <1>7, <1>9 DEF Skip, AtLine
<1>10. CASE NoName
  BY <1>6, <1>10 DEF NoName, Fail, Errors
<1>11. CASE Property
  BY <1>7, <1>11 DEF Property, AtLine
<1>12. CASE Include
  <2> DEFINE path == Trim(expand_environment(CurrentLine.value, environment))
  <2>1. CASE \E e \in Errors : Fail(e)
    BY <1>6, <2>1 DEF Fail
  <2>2. CASE stack' = Advanced /\ applied' = applied /\ status' = status
    BY <1>7, <1>12, <2>2 DEF Include, AtLine
  <2>3. CASE /\ ~TooDeep(Depth + 1) /\ path \in DOMAIN system.paths
             /\ ~OnStack(system.paths[path]) /\ applied' = applied /\ status' = status
             /\ stack' = Append(Advanced, [file |-> system.paths[path], next |-> 1])
    <3>1. system.paths[path] \in DOMAIN system.files /\ status = "files"
      BY <1>1, <1>12, <2>3, SystemAssumption DEF SystemOK, Include, AtLine
    <3> QED
      BY <1>8, <2>3, <3>1
  <2>4. {"depth", "missing", "cycle"} \subseteq Errors
    BY DEF Errors
  <2> HIDE DEF path, Good
  <2> QED
    BY <1>12, <2>1, <2>2, <2>3, <2>4 DEF Include, path
<1>13. CASE EndOfFile
  <2>1. /\ status = "files" /\ stack' = Front(stack) /\ applied' = applied
        /\ status' = IF Len(stack) = 1 THEN "overrides" ELSE "files"
    BY <1>13 DEF EndOfFile
  <2>2. /\ stack' \in Seq(Open) /\ Len(stack') = Len(stack) - 1
        /\ \A i \in 1..(Len(stack) - 1) : stack'[i] = stack[i]
    BY <1>1, <2>1, PopOpen
  <2>3. /\ Len(stack) # 1 => stack' # <<>>
        /\ Len(stack) = 1 => stack' = <<>>
    BY <1>4, <2>2, EmptySeq
  <2>4. \A i, j \in 1..Len(stack') : stack'[i].file = stack'[j].file => i = j
    BY <1>4, <2>2
  <2>5. Len(stack') <= MaxIncludeDepth + 1
    BY <1>4, <2>2, DepthAssumption
  <2> HIDE DEF Open
  <2> QED
    BY <1>1, <2>1, <2>2, <2>3, <2>4, <2>5
<1>14. CASE ApplyOverride
  <2>1. /\ applied' = applied + 1 /\ applied < Len(overrides)
        /\ status = "overrides" /\ status' = "overrides" /\ stack' = stack
    BY <1>14 DEF ApplyOverride
  <2> QED
    BY <1>1, <1>3, <1>4, <2>1
<1>15. CASE Loaded
  <2>1. /\ applied' = Len(overrides) /\ status' = "loaded" /\ stack' = stack
    BY <1>15 DEF Loaded
  <2> QED
    BY <1>1, <1>3, <1>4, <2>1
<1> QED
  BY <1>9, <1>10, <1>11, <1>12, <1>13, <1>14, <1>15 DEF LoadStep

-----------------------------------------------------------------------------
(* The other parts, step by step.                                          *)

\* An override of the command line has a name and a value.
LEMMA OverrideType ==
  ASSUME Types
  PROVE  /\ Len(overrides) \in Nat
         /\ \A i \in 1..Len(overrides) : overrides[i].value \in Seq(Char)
<1>1. overrides \in Seq([name : Seq(Char), value : Seq(Char)])
  BY OverridesAssumption DEF Types
<1>2. \A i \in 1..Len(overrides) : overrides[i] \in [name : Seq(Char), value : Seq(Char)]
  BY <1>1, ElementOfSeq
<1> QED
  BY <1>1, <1>2, LenProperties

\* Overrides are applied in order, after the files.
LEMMA OverridingKept ==
  ASSUME Types, Overriding, LoadStep
  PROVE  Overriding'
<1>1. overrides' = overrides
  BY DEF LoadStep, Skip, NoName, Property, Include, EndOfFile, ApplyOverride, Loaded, Fail,
         input
<1>2. ASSUME applied' = applied, properties' = properties
      PROVE  Overriding'
  BY <1>1, <1>2 DEF Overriding, Literal
<1>3. CASE Property
  <2>1. applied = 0 /\ applied' = applied
    BY <1>3 DEF Property, AtLine, Types
  <2> QED
    BY <2>1 DEF Overriding
<1>4. CASE ApplyOverride
  <2> DEFINE o == overrides[applied + 1]
             w == expand_environment(o.value, environment)
  <2>1. properties' = Put(properties, o.name, w) /\ applied' = applied + 1
    BY <1>4 DEF ApplyOverride
  <2>2. applied \in Nat /\ applied + 1 \in 1..Len(overrides) /\ o.value \in Seq(Char)
    BY <1>4, OverrideType DEF ApplyOverride, Types
  <2>3. Literal(o.value) => w = o.value
    BY <2>2, ExpandLiteral
  <2> HIDE DEF w
  <2>4. /\ DOMAIN properties' = DOMAIN properties \cup {o.name}
        /\ properties'[o.name] = w
        /\ \A k \in DOMAIN properties : k # o.name => properties'[k] = properties[k]
    BY <2>1, Inserted
  <2>5. ASSUME NEW i \in 1..(applied + 1)
        PROVE  /\ overrides[i].name \in DOMAIN properties'
               /\ (\A j \in (i + 1)..(applied + 1) : overrides[j].name # overrides[i].name)
                    /\ Literal(overrides[i].value)
                  => properties'[overrides[i].name] = overrides[i].value
    <3>1. CASE i = applied + 1
      BY <2>3, <2>4, <3>1
    <3>2. CASE i # applied + 1
      <4>1. i \in 1..applied /\ applied + 1 \in (i + 1)..(applied + 1)
            /\ (i + 1)..applied \subseteq (i + 1)..(applied + 1)
        BY <2>2, <3>2
      <4>2. /\ overrides[i].name \in DOMAIN properties
            /\ (\A j \in (i + 1)..applied : overrides[j].name # overrides[i].name)
                 /\ Literal(overrides[i].value)
               => properties[overrides[i].name] = overrides[i].value
        BY <4>1 DEF Overriding
      <4> QED
        BY <2>4, <4>1, <4>2
    <3> QED
      BY <3>1, <3>2
  <2> HIDE DEF o
  <2> QED
    BY <1>1, <2>1, <2>5 DEF Overriding, Literal
<1>5. ~Property /\ ~ApplyOverride => applied' = applied /\ properties' = properties
  BY DEF LoadStep, Skip, NoName, Include, EndOfFile, Loaded, Fail
<1> QED
  BY <1>2, <1>3, <1>4, <1>5

\* What the variables show, and what is locked.
LEMMA VariablesKept ==
  ASSUME Setting, Locking, LoadStep
  PROVE  Setting' /\ Locking'
<1>1. overrides' = overrides /\ locked' = locked
  BY DEF LoadStep, Skip, NoName, Property, Include, EndOfFile, ApplyOverride, Loaded, Fail,
         input
<1>2. ASSUME environment' = environment, properties' = properties
      PROVE  Setting' /\ Locking'
  BY <1>1, <1>2 DEF Setting, Locking, Sets, VariableOf, HasPrefix, Definer, SetOverrides
<1>3. CASE Property
  BY <1>1, <1>3, SettingKept DEF Property
<1>4. CASE ApplyOverride
  BY <1>1, <1>4, SettingKept DEF ApplyOverride
<1>5. ~Property /\ ~ApplyOverride => environment' = environment /\ properties' = properties
  BY DEF LoadStep, Skip, NoName, Include, EndOfFile, Loaded, Fail
<1> QED
  BY <1>2, <1>3, <1>4, <1>5

\* At the start the command line has defined and locked its variables.
LEMMA InitVariables ==
  ASSUME Init
  PROVE  Types /\ NestingIsBounded /\ Overriding /\ Locking /\ Setting
<1>1. /\ system \in Systems /\ overrides \in OverrideSets /\ properties = <<>>
      /\ stack = <<[file |-> system.root, next |-> 1]>> /\ applied = 0 /\ status = "files"
      /\ new(system, overrides)
  BY DEF Init
<1>2. overrides \in Seq([name : Seq(Char), value : Seq(Char)]) /\ Len(overrides) \in Nat
  BY <1>1, OverridesAssumption, LenProperties
<1>3. system.root \in DOMAIN system.files
  BY <1>1, SystemAssumption DEF SystemOK
<1>4. stack \in Seq(Open) /\ Len(stack) = 1 /\ stack # <<>> /\ DOMAIN stack = 1..1
  BY <1>1, <1>3 DEF Open
<1>5. Types
  BY <1>1, <1>2, <1>4 DEF Types, Open
<1>6. NestingIsBounded
  BY <1>4, DepthAssumption DEF NestingIsBounded
<1>7. Overriding
  BY <1>1 DEF Overriding
<1>8. Locking
  <2> DEFINE names == {VariableOf(overrides[i].name) : i \in SetOverrides(overrides)}
             last(v) == Max({i \in SetOverrides(overrides) : VariableOf(overrides[i].name) = v})
  <2>1. /\ locked = names
        /\ environment = [v \in names \cup DOMAIN system.environment |->
                            IF v \in names THEN overrides[last(v)].value
                                           ELSE system.environment[v]]
    BY <1>1 DEF new
  <2> HIDE DEF names
  <2>2. \A v \in names : v \in DOMAIN environment /\ environment[v] = overrides[last(v)].value
    BY <2>1
  <2> QED
    BY <2>1, <2>2 DEF Locking, Definer, names
<1>9. Setting
  BY <1>1, EmptySeq DEF Setting
<1> QED
  BY <1>5, <1>6, <1>7, <1>8, <1>9

-----------------------------------------------------------------------------
(* The text of the files.                                                  *)

\* The lines of a file, with included texts in their places, are texts.
LEMMA PiecesType ==
  ASSUME NEW s \in Systems, NEW f \in DOMAIN s.files,
         NEW texts \in [DOMAIN s.files -> Seq(Lines(s))]
  PROVE  /\ DOMAIN s.files[f] = 1..Len(s.files[f]) /\ Len(s.files[f]) \in Nat
         /\ Pieces(s, f, texts) \in Seq(Seq(Lines(s)))
         /\ Len(Pieces(s, f, texts)) = Len(s.files[f])
         /\ \A i \in 1..Len(s.files[f]) :
              /\ Pieces(s, f, texts)[i] = InPlace(s, s.files[f][i], texts)
              /\ s.files[f][i] \in Lines(s) /\ LineOK(s.files[f][i])
<1> DEFINE L == Lines(s)
           n == Len(s.files[f])
<1>1. /\ \A path \in DOMAIN s.paths : s.paths[path] \in DOMAIN s.files
      /\ s.files[f] \in Seq(Range(s.files[f]))
      /\ \A i \in DOMAIN s.files[f] : LineOK(s.files[f][i])
  BY SystemAssumption DEF SystemOK
<1>2. n \in Nat /\ DOMAIN s.files[f] = 1..n
  BY <1>1, LenProperties
<1>3. \A i \in 1..n : s.files[f][i] \in L
  BY <1>2 DEF Lines, Range
<1>4. \A i \in 1..n : InPlace(s, s.files[f][i], texts) \in Seq(L)
  <2>1. SUFFICES ASSUME NEW l \in L PROVE InPlace(s, l, texts) \in Seq(L)
    BY <1>3
  <2> HIDE DEF L
  <2>2. <<l>> \in Seq(L) /\ <<>> \in Seq(L)
    BY <2>1
  <2>3. \A path \in DOMAIN s.paths : texts[s.paths[path]] \in Seq(L)
    BY <1>1 DEF L
  <2> QED
    BY <2>2, <2>3 DEF InPlace
<1> DEFINE q == Pieces(s, f, texts)
<1>5. q = [i \in 1..n |-> InPlace(s, s.files[f][i], texts)]
  BY <1>2 DEF Pieces
<1>6. q \in [1..n -> Seq(L)] /\ \A i \in 1..n : q[i] = InPlace(s, s.files[f][i], texts)
  BY <1>4, <1>5
<1> HIDE DEF q, L
<1>7. q \in Seq(Seq(L)) /\ Len(q) = n
  BY <1>2, <1>6
<1> QED
  BY <1>1, <1>2, <1>3, <1>6, <1>7 DEF q, L

\* The recursion of Texts, down to a level.
Nests(t, s, n) ==
  /\ t[0] = [f \in DOMAIN s.files |-> <<>>]
  /\ \A d \in 1..n : t[d] = [f \in DOMAIN s.files |-> FlattenSeq(Pieces(s, f, t[d - 1]))]

\* It has a solution.
LEMMA NestsExists ==
  ASSUME NEW s \in Systems
  PROVE  \E t \in [0..(MaxIncludeDepth + 1) -> [DOMAIN s.files -> Seq(Lines(s))]] :
           Nests(t, s, MaxIncludeDepth + 1)
<1> DEFINE T == [DOMAIN s.files -> Seq(Lines(s))]
           A == {n \in Nat : \E t \in [0..n -> T] : Nests(t, s, n)}
           next(u) == [f \in DOMAIN s.files |-> FlattenSeq(Pieces(s, f, u))]
<1>0. \A u \in T : next(u) \in T
  <2>1. ASSUME NEW u \in T, NEW f \in DOMAIN s.files
        PROVE  FlattenSeq(Pieces(s, f, u)) \in Seq(Lines(s))
    <3>1. Pieces(s, f, u) \in Seq(Seq(Lines(s)))
      BY <2>1, PiecesType
    <3> QED
      BY <3>1, FlattenType
  <2> QED
    BY <2>1
<1>1. 0 \in A
  <2> DEFINE e == [f \in DOMAIN s.files |-> <<>>]
             t == [d \in 0..0 |-> e]
  <2>1. e \in T
    BY EmptySeq
  <2> HIDE DEF e, T
  <2>2. t \in [0..0 -> T] /\ t[0] = e
    BY <2>1
  <2> HIDE DEF t
  <2>3. Nests(t, s, 0)
    BY <2>2 DEF Nests, e
  <2> QED
    BY <2>2, <2>3
<1>2. ASSUME NEW n \in A PROVE n + 1 \in A
  <2>1. PICK g \in [0..n -> T] : Nests(g, s, n)
    BY <1>2
  <2>2. n \in Nat
    BY <1>2
  <2> DEFINE t == [d \in 0..(n + 1) |-> IF d = n + 1 THEN next(g[n]) ELSE g[d]]
  <2>3. g[n] \in T /\ next(g[n]) \in T
    <3>1. g[n] \in T
      BY <2>1, <2>2
    <3> HIDE DEF T, next
    <3> QED
      BY <1>0, <3>1
  <2> HIDE DEF T, next
  <2>4. /\ t \in [0..(n + 1) -> T] /\ t[n + 1] = next(g[n])
        /\ \A d \in 0..n : t[d] = g[d]
    BY <2>1, <2>2, <2>3
  <2> HIDE DEF t
  <2>5. \A d \in 1..(n + 1) : t[d] = next(t[d - 1])
    <3>1. ASSUME NEW d \in 1..(n + 1) PROVE t[d] = next(t[d - 1])
      <4>1. CASE d = n + 1
        <5>1. d - 1 = n /\ n \in 0..n
          BY <2>2, <4>1
        <5> QED
          BY <2>4, <4>1, <5>1
      <4>2. CASE d # n + 1
        <5>1. d \in 1..n /\ d \in 0..n /\ d - 1 \in 0..n
          BY <2>2, <4>2
        <5>2. g[d] = next(g[d - 1])
          BY <2>1, <5>1 DEF Nests, next
        <5> QED
          BY <2>4, <5>1, <5>2
      <4> QED
        BY <4>1, <4>2
    <3> QED
      BY <3>1
  <2>6. t[0] = [f \in DOMAIN s.files |-> <<>>]
    <3>1. 0 \in 0..n
      BY <2>2
    <3> QED
      BY <2>1, <2>4, <3>1 DEF Nests
  <2>7. Nests(t, s, n + 1)
    BY <2>5, <2>6 DEF Nests, next
  <2> QED
    BY <2>2, <2>4, <2>7
<1>3. MaxIncludeDepth + 1 \in A
  <2>1. A \in SUBSET Nat
    OBVIOUS
  <2> HIDE DEF A
  <2>2. A = Nat
    BY <1>1, <1>2, <2>1, Induction
  <2> QED
    BY <2>2, DepthAssumption
<1> QED
  BY <1>3

\* The text of a file is that of its lines, with the text of each include, one
\* level deeper, in its place.
LEMMA TextsMean ==
  ASSUME NEW s \in Systems
  PROVE  /\ \A d \in 0..(MaxIncludeDepth + 1) : Texts(s)[d] \in [DOMAIN s.files -> Seq(Lines(s))]
         /\ \A d \in 1..(MaxIncludeDepth + 1) : \A f \in DOMAIN s.files :
              Texts(s)[d][f] = FlattenSeq(Pieces(s, f, Texts(s)[d - 1]))
<1> DEFINE M == MaxIncludeDepth + 1
           T == [DOMAIN s.files -> Seq(Lines(s))]
<1>1. PICK g \in [0..M -> T] : Nests(g, s, M)
  BY NestsExists
<1> DEFINE t[d \in 0..(MaxIncludeDepth + 1)] ==
             IF d = 0 THEN [f \in DOMAIN s.files |-> <<>>]
             ELSE [f \in DOMAIN s.files |->
                    FlattenSeq([i \in DOMAIN s.files[f] |->
                      InPlace(s, s.files[f][i], t[d - 1])])]
           k == [d \in 0..(MaxIncludeDepth + 1) |->
             IF d = 0 THEN [f \in DOMAIN s.files |-> <<>>]
             ELSE [f \in DOMAIN s.files |->
                    FlattenSeq([i \in DOMAIN s.files[f] |->
                      InPlace(s, s.files[f][i], g[d - 1])])]]
<1>2. g = k
  <2>1. ASSUME NEW d \in 0..M PROVE g[d] = k[d]
    <3>1. CASE d = 0
      BY <1>1, <3>1 DEF Nests
    <3>2. CASE d # 0
      <4>1. d \in 1..M
        BY <3>2, DepthAssumption
      <4>2. g[d] = [f \in DOMAIN s.files |-> FlattenSeq(Pieces(s, f, g[d - 1]))]
        BY <1>1, <4>1 DEF Nests
      <4> QED
        BY <3>2, <4>2 DEF Pieces
    <3> QED
      BY <3>1, <3>2
  <2>2. g = [d \in 0..M |-> g[d]] /\ k = [d \in 0..M |-> k[d]]
    BY <1>1
  <2> HIDE DEF k
  <2> QED
    BY <2>1, <2>2
<1>3. t = [d \in 0..(MaxIncludeDepth + 1) |->
             IF d = 0 THEN [f \in DOMAIN s.files |-> <<>>]
             ELSE [f \in DOMAIN s.files |->
                    FlattenSeq([i \in DOMAIN s.files[f] |->
                      InPlace(s, s.files[f][i], t[d - 1])])]]
  BY <1>2, Zenon
<1>4. Texts(s) = t
  BY Zenon DEF Texts
<1> HIDE DEF t, k
<1>5. t[0] = [f \in DOMAIN s.files |-> <<>>]
  <2>1. 0 \in 0..(MaxIncludeDepth + 1)
    BY DepthAssumption
  <2> QED
    BY <1>3, <2>1
<1>6. \A d \in 1..M : t[d] = [f \in DOMAIN s.files |-> FlattenSeq(Pieces(s, f, t[d - 1]))]
  <2>1. SUFFICES ASSUME NEW d \in 1..M
                 PROVE  t[d] = [f \in DOMAIN s.files |-> FlattenSeq(Pieces(s, f, t[d - 1]))]
    OBVIOUS
  <2>2. d \in 0..(MaxIncludeDepth + 1) /\ d # 0
    BY DepthAssumption
  <2>3. t[d] = [f \in DOMAIN s.files |->
                  FlattenSeq([i \in DOMAIN s.files[f] |->
                    InPlace(s, s.files[f][i], t[d - 1])])]
    BY <1>3, <2>2
  <2> QED
    BY <2>3 DEF Pieces
<1> DEFINE A == {n \in Nat : n <= M => t[n] \in T}
<1>7. 0 \in A
  <2>1. [f \in DOMAIN s.files |-> <<>>] \in T
    BY EmptySeq
  <2> QED
    BY <1>5, <2>1
<1>8. ASSUME NEW n \in A PROVE n + 1 \in A
  <2>1. SUFFICES ASSUME n + 1 <= M PROVE t[n + 1] \in T
    OBVIOUS
  <2>2. n \in Nat /\ n + 1 \in 1..M /\ (n + 1) - 1 = n /\ n <= M
    BY <2>1, DepthAssumption
  <2>3. t[n] \in T
    BY <2>2
  <2>4. t[n + 1] = [f \in DOMAIN s.files |-> FlattenSeq(Pieces(s, f, t[n]))]
    BY <1>6, <2>2
  <2>5. ASSUME NEW f \in DOMAIN s.files
        PROVE  FlattenSeq(Pieces(s, f, t[n])) \in Seq(Lines(s))
    <3>1. Pieces(s, f, t[n]) \in Seq(Seq(Lines(s)))
      BY <2>3, PiecesType
    <3> QED
      BY <3>1, FlattenType
  <2> QED
    BY <2>4, <2>5
<1>9. A = Nat
  <2>1. A \in SUBSET Nat
    OBVIOUS
  <2> HIDE DEF A
  <2> QED
    BY <1>7, <1>8, <2>1, Induction
<1>10. \A d \in 0..M : t[d] \in T
  <2>1. ASSUME NEW d \in 0..M PROVE t[d] \in T
    <3>1. d \in Nat /\ d <= M
      BY DepthAssumption
    <3>2. d \in A
      <4> HIDE DEF A
      <4> QED
        BY <1>9, <3>1
    <3> QED
      BY <3>1, <3>2
  <2> QED
    BY <2>1
<1>11. ASSUME NEW d \in 1..M, NEW f \in DOMAIN s.files
       PROVE  t[d][f] = FlattenSeq(Pieces(s, f, t[d - 1]))
  BY <1>6, <1>11
<1> QED
  BY <1>4, <1>10, <1>11

-----------------------------------------------------------------------------
(* What is left of the open files.                                         *)

\* The next line of an open file, or what is included there, comes before the
\* rest of it, and nothing is left behind its last line.
LEMMA RestMeans ==
  ASSUME NEW s \in Systems, NEW level \in 1..(MaxIncludeDepth + 1),
         NEW f \in DOMAIN s.files, NEW k \in Nat \ {0}
  PROVE  LET open == [file |-> f, next |-> k]
             after == [file |-> f, next |-> k + 1]
         IN /\ k <= Len(s.files[f]) =>
                 /\ InPlace(s, s.files[f][k], Texts(s)[level - 1]) \in Seq(Lines(s))
                 /\ Rest(s, after, level) \in Seq(Lines(s))
                 /\ Rest(s, open, level)
                      = InPlace(s, s.files[f][k], Texts(s)[level - 1]) \o Rest(s, after, level)
            /\ k > Len(s.files[f]) => Rest(s, open, level) = <<>>
<1> DEFINE texts == Texts(s)[level - 1]
           q == Pieces(s, f, texts)
           n == Len(s.files[f])
           L == Lines(s)
           open == [file |-> f, next |-> k]
           after == [file |-> f, next |-> k + 1]
<1>1. level - 1 \in 0..(MaxIncludeDepth + 1)
  BY DepthAssumption
<1>2. texts \in [DOMAIN s.files -> Seq(L)]
  BY <1>1, TextsMean
<1>3. /\ n \in Nat /\ q \in Seq(Seq(L)) /\ Len(q) = n
      /\ \A i \in 1..n : q[i] = InPlace(s, s.files[f][i], texts)
  BY <1>2, PiecesType
<1>4. /\ Rest(s, open, level) = FlattenSeq(SubSeq(q, k, Len(q)))
      /\ Rest(s, after, level) = FlattenSeq(SubSeq(q, k + 1, Len(q)))
  BY DEF Rest
<1> HIDE DEF q, L, open, after, texts
<1>6. ASSUME k <= n
      PROVE  /\ q[k] \in Seq(L) /\ FlattenSeq(SubSeq(q, k + 1, Len(q))) \in Seq(L)
             /\ FlattenSeq(SubSeq(q, k, Len(q))) = q[k] \o FlattenSeq(SubSeq(q, k + 1, Len(q)))
             /\ q[k] = InPlace(s, s.files[f][k], texts)
  <2>1. k \in 1..Len(q)
    BY <1>3, <1>6
  <2>2. /\ SubSeq(q, k + 1, Len(q)) \in Seq(Seq(L))
        /\ FlattenSeq(SubSeq(q, k, Len(q))) = q[k] \o FlattenSeq(SubSeq(q, k + 1, Len(q)))
    BY <1>3, <2>1, FlattenFrom
  <2>3. FlattenSeq(SubSeq(q, k + 1, Len(q))) \in Seq(L)
    BY <2>2, FlattenType
  <2>4. q[k] \in Seq(L)
    BY <1>3, <2>1, ElementOfSeq
  <2> QED
    BY <1>3, <2>1, <2>2, <2>3, <2>4
<1>7. k > n => FlattenSeq(SubSeq(q, k, Len(q))) = <<>>
  BY <1>3, FlattenFromEnd
<1> QED
  BY <1>4, <1>6, <1>7 DEF L, open, after, texts

\* A file that was just opened has all of its text left.
LEMMA RestStart ==
  ASSUME NEW s \in Systems, NEW level \in 1..(MaxIncludeDepth + 1), NEW f \in DOMAIN s.files
  PROVE  Rest(s, [file |-> f, next |-> 1], level) = Texts(s)[level][f]
<1> DEFINE texts == Texts(s)[level - 1]
           q == Pieces(s, f, texts)
           L == Lines(s)
<1>1. level - 1 \in 0..(MaxIncludeDepth + 1)
  BY DepthAssumption
<1>2. texts \in [DOMAIN s.files -> Seq(L)]
  BY <1>1, TextsMean
<1>3. q \in Seq(Seq(L))
  BY <1>2, PiecesType
<1>4. Rest(s, [file |-> f, next |-> 1], level) = FlattenSeq(SubSeq(q, 1, Len(q)))
  BY DEF Rest
<1>5. Texts(s)[level][f] = FlattenSeq(q)
  BY TextsMean
<1> HIDE DEF q, L, texts
<1>6. SubSeq(q, 1, Len(q)) = q
  <2>1. ASSUME NEW u \in Seq(Seq(L)) PROVE SubSeq(u, 1, Len(u)) = u
    BY SubSeqFull
  <2> QED
    BY <1>3, <2>1
<1> QED
  BY <1>4, <1>5, <1>6

\* One that was read has none.
LEMMA RestEnd ==
  ASSUME NEW s \in Systems, NEW level \in 1..(MaxIncludeDepth + 1), NEW f \in DOMAIN s.files,
         NEW k \in Nat \ {0}, k > Len(s.files[f])
  PROVE  Rest(s, [file |-> f, next |-> k], level) = <<>>
  BY RestMeans

\* The line that is read next, and what is left after it.
LEMMA ReadNext ==
  ASSUME Types, NestingIsBounded, AtLine,
         NEW done \in Seq(Lines(system)),
         NEW rest \in [0..Len(stack) -> Seq(Lines(system))], Reading(done, rest)
  PROVE  LET piece == InPlace(system, CurrentLine, Texts(system)[Level(Len(stack)) - 1]) IN
           /\ CurrentLine \in Lines(system) /\ LineOK(CurrentLine)
           /\ piece \in Seq(Lines(system))
           /\ \E after \in [0..Len(stack) -> Seq(Lines(system))] :
                /\ after[0] = <<>>
                /\ \A i \in 1..Len(stack) :
                     after[i] = Rest(system, Advanced[i], Level(i)) \o after[i - 1]
                /\ TextOf(system) = done \o (piece \o after[Len(stack)])
<1> DEFINE n == Len(stack)
           L == Lines(system)
           top == stack[n]
           f == top.file
           k == top.next
           piece == InPlace(system, CurrentLine, Texts(system)[Level(n) - 1])
           later == Rest(system, Advanced[n], Level(n))
           after == [i \in 0..n |-> IF i = n THEN later \o rest[n - 1] ELSE rest[i]]
<1>1. /\ system \in Systems /\ stack \in Seq(Open) /\ stack # <<>>
  BY DEF Types, Open, AtLine
<1>2. /\ n \in Nat \ {0} /\ top \in Open /\ Advanced[n] \in Open
      /\ Advanced[n].file = f /\ Advanced[n].next = k + 1
      /\ \A i \in 1..n : i # n => Advanced[i] = stack[i]
  <2>1. Top = top
    BY DEF Top
  <2>2. n \in Nat \ {0}
    BY <1>1, TopOpen
  <2>3. n \in 1..n
    BY <2>2
  <2> HIDE DEF Open
  <2> QED
    BY <1>1, <2>1, <2>2, <2>3, TopOpen
<1>3. /\ f \in DOMAIN system.files /\ k \in Nat \ {0}
      /\ top = [file |-> f, next |-> k] /\ Advanced[n] = [file |-> f, next |-> k + 1]
  BY <1>2 DEF Open
<1>4. Level(n) \in 1..(MaxIncludeDepth + 1)
  BY <1>2, DepthAssumption DEF NestingIsBounded, Level
<1>5. k <= Len(system.files[f]) /\ CurrentLine = system.files[f][k]
  BY DEF AtLine, Top, CurrentLine
<1> HIDE DEF n, L, top, f, k
<1>6. /\ piece \in Seq(L) /\ later \in Seq(L)
      /\ Rest(system, top, Level(n)) = piece \o later
  <2> DEFINE v == Level(n)
             x == [file |-> f, next |-> k]
             y == [file |-> f, next |-> k + 1]
  <2>1. v \in 1..(MaxIncludeDepth + 1) /\ system \in Systems /\ f \in DOMAIN system.files
        /\ k \in Nat \ {0} /\ k <= Len(system.files[f])
    BY <1>1, <1>3, <1>4, <1>5
  <2> HIDE DEF v
  <2>2. /\ InPlace(system, system.files[f][k], Texts(system)[v - 1]) \in Seq(Lines(system))
        /\ Rest(system, y, v) \in Seq(Lines(system))
        /\ Rest(system, x, v)
             = InPlace(system, system.files[f][k], Texts(system)[v - 1]) \o Rest(system, y, v)
    BY <2>1, RestMeans
  <2>3. /\ piece = InPlace(system, system.files[f][k], Texts(system)[v - 1])
        /\ later = Rest(system, y, v) /\ top = x
    BY <1>3, <1>5 DEF v
  <2> HIDE DEF piece, later, x, y
  <2> QED
    BY <2>2, <2>3, Zenon DEF v, L
<1>7. CurrentLine \in L /\ LineOK(CurrentLine)
  <2>1. Level(n) - 1 \in 0..(MaxIncludeDepth + 1)
    BY <1>4, DepthAssumption
  <2>2. Texts(system)[Level(n) - 1] \in [DOMAIN system.files -> Seq(Lines(system))]
    BY <1>1, <2>1, TextsMean
  <2>3. /\ Len(system.files[f]) \in Nat
        /\ \A i \in 1..Len(system.files[f]) :
             system.files[f][i] \in Lines(system) /\ LineOK(system.files[f][i])
    BY <1>1, <1>3, <2>2, PiecesType
  <2>4. k \in 1..Len(system.files[f])
    BY <1>3, <1>5, <2>3
  <2> QED
    BY <1>5, <2>3, <2>4 DEF L
<1> HIDE DEF piece, later
<1>8. /\ rest \in [0..n -> Seq(L)] /\ rest[0] = <<>>
      /\ \A i \in 1..n : rest[i] = Rest(system, stack[i], Level(i)) \o rest[i - 1]
      /\ TextOf(system) = done \o rest[n]
  BY DEF Reading, n, L
<1>9. /\ n - 1 \in 0..n /\ n \in 1..n /\ 0 \in 0..n /\ n # 0 /\ rest[n - 1] \in Seq(L)
      /\ \A i \in 1..n : i # n => i - 1 # n /\ i \in 0..n /\ i - 1 \in 0..n
      /\ n - 1 # n
  BY <1>2, <1>8
<1>10. later \o rest[n - 1] \in Seq(L)
  BY <1>6, <1>9, ConcatProperties
<1>11. /\ after \in [0..n -> Seq(L)] /\ after[n] = later \o rest[n - 1]
       /\ \A i \in 0..n : i # n => after[i] = rest[i]
  BY <1>8, <1>9, <1>10
<1> HIDE DEF after
<1>12. ASSUME NEW i \in 1..n
       PROVE  after[i] = Rest(system, Advanced[i], Level(i)) \o after[i - 1]
  <2>1. CASE i = n
    BY <1>9, <1>11, <2>1 DEF later
  <2>2. CASE i # n
    <3>1. after[i] = rest[i] /\ after[i - 1] = rest[i - 1] /\ Advanced[i] = stack[i]
      BY <1>2, <1>9, <1>11, <2>2
    <3> QED
      BY <1>8, <3>1
  <2> QED
    BY <2>1, <2>2
<1>13. rest[n] = piece \o after[n]
  <2>1. rest[n] = Rest(system, top, Level(n)) \o rest[n - 1]
    BY <1>8, <1>9 DEF top
  <2>2. rest[n] = (piece \o later) \o rest[n - 1]
    BY <1>6, <2>1
  <2>3. piece \o (later \o rest[n - 1]) = (piece \o later) \o rest[n - 1]
    <3>1. ASSUME NEW a \in Seq(L), NEW b \in Seq(L), NEW c \in Seq(L)
          PROVE  a \o (b \o c) = (a \o b) \o c
      BY Associative, SMTT(30)
    <3> DEFINE r == rest[n - 1]
    <3>2. r \in Seq(L) /\ piece \in Seq(L) /\ later \in Seq(L)
      BY <1>6, <1>9
    <3> HIDE DEF r
    <3>3. piece \o (later \o r) = (piece \o later) \o r
      BY <3>1, <3>2
    <3> QED
      BY <3>3 DEF r
  <2> QED
    BY <1>11, <2>2, <2>3
<1>14. TextOf(system) = done \o (piece \o after[n])
  BY <1>8, <1>13
<1>15. after[0] = <<>>
  BY <1>8, <1>9, <1>11
<1> QED
  BY <1>6, <1>7, <1>11, <1>12, <1>14, <1>15 DEF piece, n, L

-----------------------------------------------------------------------------
(* One more line read.                                                     *)

\* A line that defines a property is the last of its name; any other changes
\* nothing.
LEMMA DescribedNext ==
  ASSUME NEW L, NEW done \in Seq(L), NEW l \in L, LineOK(l), Described(done),
         \/ l.kind # "property" /\ properties' = properties
         \/ /\ l.kind = "property"
            /\ properties' = Put(properties, l.name,
                                 expand_environment(Plain(l.value), environment))
  PROVE  Described(Append(done, l))'
<1> DEFINE n == Len(done)
           d == Append(done, l)
<1>1. n \in Nat /\ DOMAIN done = 1..n
  BY LenProperties
<1>2. /\ d \in Seq(L) /\ Len(d) = n + 1 /\ d[n + 1] = l
      /\ \A i \in 1..n : d[i] = done[i]
  BY AppendProperties
<1>3. DOMAIN d = 1..(n + 1)
  BY <1>2, LenProperties
<1> HIDE DEF d
<1>4. Defining(done) = {i \in 1..n : done[i].kind = "property"}
  BY <1>1 DEF Defining
<1>5. Defining(d) = {i \in 1..(n + 1) : d[i].kind = "property"}
  BY <1>3 DEF Defining
<1>6. \A i \in Defining(done) : i \in Defining(d) /\ i \in 1..n /\ d[i] = done[i] /\ i <= n + 1
  BY <1>1, <1>2, <1>4, <1>5
<1>7. \A i \in Defining(d) : i \in Defining(done) \/ (i = n + 1 /\ l.kind = "property")
  BY <1>1, <1>2, <1>4, <1>5
<1>8. l.kind = "property" => n + 1 \in Defining(d)
  BY <1>1, <1>2, <1>5
<1>9. CASE l.kind # "property" /\ properties' = properties
  <2>1. \A i : i \in Defining(d) <=> i \in Defining(done)
    BY <1>6, <1>7, <1>9
  <2>2. \A i \in Defining(d) : d[i] = done[i]
    BY <1>6, <2>1
  <2>3. DOMAIN properties' = {d[i].name : i \in Defining(d)}
    BY <1>9, <2>1, <2>2 DEF Described
  <2>4. ASSUME NEW name \in DOMAIN properties'
        PROVE  \E i \in Defining(d) :
                 /\ d[i].name = name
                 /\ \A j \in Defining(d) : d[j].name = name => j <= i
                 /\ Literal(Plain(d[i].value)) => properties'[name] = Plain(d[i].value)
    BY <1>9, <2>1, <2>2 DEF Described
  <2> QED
    BY <2>3, <2>4 DEF Described, Literal, d
<1>10. CASE /\ l.kind = "property"
            /\ properties' = Put(properties, l.name,
                                 expand_environment(Plain(l.value), environment))
  <2> DEFINE w == expand_environment(Plain(l.value), environment)
  <2>1. Literal(Plain(l.value)) => w = Plain(l.value)
    <3>1. Plain(l.value) \in Seq(Char)
      BY <1>10, PlainType DEF LineOK
    <3> QED
      BY <3>1, ExpandLiteral
  <2>2. properties' = Put(properties, l.name, w)
    BY <1>10
  <2> HIDE DEF w
  <2>3. /\ DOMAIN properties' = DOMAIN properties \cup {l.name}
        /\ properties'[l.name] = w
        /\ \A k \in DOMAIN properties : k # l.name => properties'[k] = properties[k]
    BY <2>2, Inserted
  <2>4. DOMAIN properties = {done[i].name : i \in Defining(done)}
    BY DEF Described
  <2>5. DOMAIN properties' = {d[i].name : i \in Defining(d)}
    <3>1. ASSUME NEW k \in DOMAIN properties'
          PROVE  \E i \in Defining(d) : k = d[i].name
      <4>1. CASE k = l.name
        BY <1>2, <1>8, <1>10, <4>1
      <4>2. CASE k \in DOMAIN properties
        <5>1. PICK i \in Defining(done) : k = done[i].name
          BY <2>4, <4>2
        <5> QED
          BY <1>6, <5>1
      <4> QED
        BY <2>3, <4>1, <4>2
    <3>2. ASSUME NEW i \in Defining(d)
          PROVE  d[i].name \in DOMAIN properties'
      <4>1. CASE i = n + 1
        BY <1>2, <2>3, <4>1
      <4>2. CASE i \in Defining(done)
        <5>1. d[i] = done[i] /\ done[i].name \in DOMAIN properties
          BY <1>6, <2>4, <4>2
        <5> QED
          BY <2>3, <5>1
      <4> QED
        BY <1>7, <4>1, <4>2
    <3> QED
      BY <3>1, <3>2
  <2>6. ASSUME NEW name \in DOMAIN properties'
        PROVE  \E i \in Defining(d) :
                 /\ d[i].name = name
                 /\ \A j \in Defining(d) : d[j].name = name => j <= i
                 /\ Literal(Plain(d[i].value)) => properties'[name] = Plain(d[i].value)
    <3>1. CASE name = l.name
      <4>1. \A j \in Defining(d) : j <= n + 1
        BY <1>1, <1>5
      <4> QED
        BY <1>2, <1>8, <1>10, <2>1, <2>3, <3>1, <4>1
    <3>2. CASE name # l.name
      <4>1. name \in DOMAIN properties
        BY <2>3, <3>2
      <4>2. PICK i \in Defining(done) :
              /\ done[i].name = name
              /\ \A j \in Defining(done) : done[j].name = name => j <= i
              /\ Literal(Plain(done[i].value)) => properties[name] = Plain(done[i].value)
        BY <4>1 DEF Described
      <4>3. i \in Defining(d) /\ d[i] = done[i] /\ properties'[name] = properties[name]
        BY <1>6, <2>3, <3>2, <4>1
      <4>4. ASSUME NEW j \in Defining(d), d[j].name = name PROVE j <= i
        <5>1. j \in Defining(done) /\ d[j] = done[j]
          BY <1>2, <1>6, <1>7, <3>2, <4>4
        <5> QED
          BY <4>2, <4>4, <5>1
      <4> QED
        BY <4>2, <4>3, <4>4
    <3> QED
      BY <3>1, <3>2
  <2> QED
    BY <2>5, <2>6 DEF Described, Literal, d
<1> QED
  BY <1>9, <1>10

\* A line that includes nothing leaves what is read as it is.
LEMMA DescribedSame ==
  ASSUME NEW done, Described(done), properties' = properties
  PROVE  Described(done)'
  BY DEF Described, Literal

\* What is left of the files, after a line.
Left(done, rest, open) ==
  /\ rest[0] = <<>>
  /\ \A i \in 1..Len(open) : rest[i] = Rest(system, open[i], Level(i)) \o rest[i - 1]
  /\ TextOf(system) = done \o rest[Len(open)]

\* The invariant again, from its parts.
LEMMA TextualAgain ==
  ASSUME NEW done \in Seq(Lines(system)), system' = system, Described(done)',
         NEW rest \in [0..Len(stack') -> Seq(Lines(system))], Left(done, rest, stack')
  PROVE  Textual'
<1>1. Reading(done, rest)'
  BY DEF Reading, Left
<1>2. \E d \in Seq(Lines(system)), r \in [0..Len(stack') -> Seq(Lines(system))] : Reading(d, r)'
  BY <1>1
<1> QED
  BY <1>2 DEF Textual

\* What is read and what is left stay the text of all files, step by step.
LEMMA TextualKept ==
  ASSUME Types, NestingIsBounded, Textual, LoadStep
  PROVE  Textual'
<1> DEFINE n == Len(stack)
           L == Lines(system)
<1>1. system' = system /\ overrides' = overrides
  BY DEF LoadStep, Skip, NoName, Property, Include, EndOfFile, ApplyOverride, Loaded, Fail,
         input
<1>2. SUFFICES ASSUME PlainIncludes(system),
                      status' = "files" \/ (status' = "overrides" /\ applied' = 0)
               PROVE  Textual'
  BY <1>1 DEF Textual, PlainIncludes, Literal
<1>3. /\ system \in Systems /\ stack \in Seq(Open) /\ applied \in Nat
      /\ status = "files" => stack # <<>>
  BY DEF Types, Open
<1>4. status = "files"
  BY <1>2, <1>3 DEF LoadStep, Skip, NoName, Property, Include, EndOfFile, ApplyOverride,
                    Loaded, Fail, AtLine
<1>5. PICK done \in Seq(L), rest \in [0..n -> Seq(L)] : Reading(done, rest)
  BY <1>2, <1>4 DEF Textual
<1>6. /\ n \in Nat \ {0} /\ Top = stack[n] /\ Top \in Open
      /\ Advanced \in Seq(Open) /\ Len(Advanced) = n
  BY <1>3, <1>4, TopOpen DEF Top
<1>7. Described(done)
  BY <1>5 DEF Reading
<1> DEFINE l == CurrentLine
           piece == InPlace(system, l, Texts(system)[Level(n) - 1])
<1>8. ASSUME AtLine
      PROVE  /\ l \in L /\ LineOK(l) /\ piece \in Seq(L)
             /\ \E after \in [0..n -> Seq(L)] : Left(done \o piece, after, Advanced)
  <2>1. /\ l \in L /\ LineOK(l) /\ piece \in Seq(L)
        /\ \E after \in [0..n -> Seq(L)] :
             /\ after[0] = <<>>
             /\ \A i \in 1..n : after[i] = Rest(system, Advanced[i], Level(i)) \o after[i - 1]
             /\ TextOf(system) = done \o (piece \o after[n])
    BY <1>5, <1>8, ReadNext
  <2> HIDE DEF piece, l, L, n
  <2>2. PICK after \in [0..n -> Seq(L)] :
             /\ after[0] = <<>>
             /\ \A i \in 1..n : after[i] = Rest(system, Advanced[i], Level(i)) \o after[i - 1]
             /\ TextOf(system) = done \o (piece \o after[n])
    BY <2>1
  <2> DEFINE r == after[n]
  <2>3. r \in Seq(L)
    BY <1>6, <2>2
  <2> HIDE DEF r
  <2>4. done \o (piece \o r) = (done \o piece) \o r
    <3>1. ASSUME NEW a \in Seq(L), NEW b \in Seq(L), NEW c \in Seq(L)
          PROVE  a \o (b \o c) = (a \o b) \o c
      BY Associative, SMTT(30)
    <3> QED
      BY <1>5, <2>1, <2>3, <3>1
  <2>5. TextOf(system) = (done \o piece) \o after[n]
    BY <2>2, <2>4 DEF r
  <2>6. Left(done \o piece, after, Advanced)
    BY <1>6, <2>2, <2>5 DEF Left
  <2> QED
    BY <2>1, <2>6
<1>9. ASSUME AtLine, l.kind \notin Includes, stack' = Advanced,
             \/ l.kind # "property" /\ properties' = properties
             \/ /\ l.kind = "property"
                /\ properties' = Put(properties, l.name,
                                     expand_environment(Plain(l.value), environment))
      PROVE  Textual'
  <2>1. piece = <<l>>
    BY <1>9 DEF InPlace
  <2>2. PICK after \in [0..n -> Seq(L)] : Left(done \o piece, after, Advanced)
    BY <1>8, <1>9
  <2>3. l \in L /\ LineOK(l)
    BY <1>8, <1>9
  <2> HIDE DEF l, piece, L
  <2>4. PICK c : c = l
    OBVIOUS
  <2>5. c \in L /\ LineOK(c) /\ done \in Seq(L)
    BY <1>5, <2>3, <2>4
  <2>6. \/ c.kind # "property" /\ properties' = properties
        \/ /\ c.kind = "property"
           /\ properties' = Put(properties, c.name,
                                expand_environment(Plain(c.value), environment))
    BY <1>9, <2>4
  <2>7. Described(Append(done, c))'
    <3>1. ASSUME NEW S, done \in Seq(S), c \in S PROVE Described(Append(done, c))'
      BY <1>7, <2>5, <2>6, <3>1, DescribedNext
    <3>2. PICK S : S = L
      OBVIOUS
    <3> QED
      BY <2>5, <3>1, <3>2
  <2>8. Append(done, c) \in Seq(L) /\ Append(done, c) = done \o <<c>>
    BY <2>5, AppendProperties, AppendIsConcat
  <2>9. Left(Append(done, c), after, Advanced)
    BY <2>1, <2>2, <2>4, <2>8
  <2>10. after \in [0..Len(stack') -> Seq(L)] /\ Left(Append(done, c), after, stack')
    BY <1>6, <1>9, <2>2, <2>9
  <2>11. PICK d : d = Append(done, c)
    OBVIOUS
  <2>12. d \in Seq(L) /\ Described(d)' /\ Left(d, after, stack')
    BY <2>7, <2>8, <2>10, <2>11
  <2> QED
    BY <1>1, <2>10, <2>12, TextualAgain DEF L
<1>10. CASE Skip
  <2>1. l.kind \notin Includes /\ l.kind # "property"
    BY <1>10 DEF Skip, Includes
  <2> QED
    BY <1>9, <1>10, <2>1 DEF Skip
<1>11. CASE NoName
  BY <1>2, <1>11 DEF NoName, Fail
<1>12. CASE Property
  <2>1. l.kind = "property" /\ l.kind \notin Includes /\ AtLine /\ stack' = Advanced
    BY <1>12 DEF Property, Includes
  <2>2. properties' = Put(properties, l.name, expand_environment(Plain(l.value), environment))
    BY <1>12 DEF Property, Plain
  <2> QED
    BY <1>9, <2>1, <2>2
<1>13. CASE Include
  <2> DEFINE path == Trim(expand_environment(l.value, environment))
  <2>1. AtLine /\ l.kind \in Includes
    BY <1>13 DEF Include
  <2>2. l \in L /\ LineOK(l) /\ piece \in Seq(L)
    BY <1>8, <2>1
  <2>3. Literal(l.value)
    <3>1. /\ Top.file \in DOMAIN system.files /\ Top.next \in Nat \ {0}
          /\ Top.next <= Len(system.files[Top.file])
          /\ l = system.files[Top.file][Top.next]
      BY <1>6, <2>1 DEF Open, AtLine, CurrentLine
    <3>2. DOMAIN system.files[Top.file] = 1..Len(system.files[Top.file])
      BY <1>3, <3>1, SystemAssumption, LenProperties DEF SystemOK
    <3>3. Len(system.files[Top.file]) \in Nat
      BY <1>3, <3>1, SystemAssumption, LenProperties DEF SystemOK
    <3>4. Top.next \in DOMAIN system.files[Top.file]
      BY <3>1, <3>2, <3>3
    <3> QED
      BY <1>2, <2>1, <3>1, <3>4 DEF PlainIncludes
  <2>4. path = l.value
    <3>1. l.value \in Seq(Char) /\ Trim(l.value) = l.value
      BY <2>1, <2>2 DEF LineOK
    <3>2. expand_environment(l.value, environment) = l.value
      BY <2>3, <3>1, ExpandLiteral
    <3> QED
      BY <3>1, <3>2
  <2>5. PICK after \in [0..n -> Seq(L)] : Left(done \o piece, after, Advanced)
    BY <1>8, <2>1
  <2>6. CASE path \notin DOMAIN system.paths /\ stack' = Advanced /\ properties' = properties
    <3>1. piece = <<>>
      BY <2>1, <2>4, <2>6 DEF InPlace
    <3>2. done \o piece = done
      BY <1>5, <3>1, ConcatEmptySeq
    <3>3. Left(done, after, stack') /\ after \in [0..Len(stack') -> Seq(L)]
      BY <1>6, <2>5, <2>6, <3>2
    <3>4. Described(done)'
      BY <1>7, <2>6, DescribedSame
    <3> QED
      BY <1>1, <1>5, <3>3, <3>4, TextualAgain
  <2>7. CASE /\ path \in DOMAIN system.paths /\ ~TooDeep(Depth + 1)
             /\ stack' = Append(Advanced, [file |-> system.paths[path], next |-> 1])
             /\ properties' = properties
    <3> DEFINE file == system.paths[path]
               x == [file |-> file, next |-> 1]
               r == [i \in 0..(n + 1) |-> IF i = n + 1 THEN piece \o after[n] ELSE after[i]]
    <3>1. file \in DOMAIN system.files
      BY <1>3, <2>7, SystemAssumption DEF SystemOK
    <3>2. piece = Texts(system)[Level(n) - 1][file]
      BY <2>1, <2>4, <2>7 DEF InPlace
    <3>3. /\ Level(n + 1) = Level(n) - 1 /\ Level(n + 1) \in 1..(MaxIncludeDepth + 1)
      BY <1>6, <2>7, DepthAssumption DEF TooDeep, Depth, Level
    <3>4. Rest(system, x, Level(n + 1)) = piece
      <4> DEFINE v == Level(n + 1)
      <4>1. v \in 1..(MaxIncludeDepth + 1)
        BY <3>3
      <4> HIDE DEF v, file
      <4>2. Rest(system, x, v) = Texts(system)[v][file]
        BY <1>3, <3>1, <4>1, RestStart
      <4>3. v = Level(n) - 1
        BY <3>3 DEF v
      <4> HIDE DEF x
      <4>4. Rest(system, x, v) = piece
        BY <3>2, <4>2, <4>3
      <4> QED
        BY <4>4 DEF v
    <3>5. /\ Len(stack') = n + 1 /\ stack'[n + 1] = x
          /\ \A i \in 1..n : stack'[i] = Advanced[i]
      BY <1>3, <1>4, <2>7, <3>1, PushOpen
    <3>6. after[n] \in Seq(L) /\ piece \o after[n] \in Seq(L)
      <4>1. after[n] \in Seq(L)
        BY <1>6, <2>5
      <4> QED
        BY <2>2, <4>1, ConcatProperties
    <3> HIDE DEF x, file, piece, path, l
    <3>7. /\ r \in [0..(n + 1) -> Seq(L)] /\ r[n + 1] = piece \o after[n]
          /\ \A i \in 0..n : r[i] = after[i]
      BY <1>6, <2>5, <3>6
    <3> HIDE DEF r
    <3>8. Left(done, r, stack')
      <4>1. /\ after[0] = <<>> /\ TextOf(system) = (done \o piece) \o after[n]
            /\ \A i \in 1..n : after[i] = Rest(system, Advanced[i], Level(i)) \o after[i - 1]
        BY <1>6, <2>5 DEF Left
      <4>2. r[0] = <<>>
        BY <1>6, <3>7, <4>1
      <4>3. ASSUME NEW i \in 1..(n + 1)
            PROVE  r[i] = Rest(system, stack'[i], Level(i)) \o r[i - 1]
        <5>1. CASE i = n + 1
          <6>1. i - 1 = n /\ n \in 0..n
            BY <1>6, <5>1
          <6> QED
            BY <3>4, <3>5, <3>7, <5>1, <6>1
        <5>2. CASE i # n + 1
          <6>1. i \in 1..n /\ i \in 0..n /\ i - 1 \in 0..n
            BY <1>6, <5>2
          <6> QED
            BY <3>5, <3>7, <4>1, <6>1
        <5> QED
          BY <5>1, <5>2
      <4>4. done \o (piece \o after[n]) = (done \o piece) \o after[n]
        <5>1. ASSUME NEW a \in Seq(L), NEW b \in Seq(L), NEW c \in Seq(L)
              PROVE  a \o (b \o c) = (a \o b) \o c
          BY Associative, SMTT(30)
        <5> DEFINE z == after[n]
        <5>2. z \in Seq(L) /\ piece \in Seq(L) /\ done \in Seq(L)
          BY <1>5, <2>2, <3>6
        <5> HIDE DEF z
        <5>3. done \o (piece \o z) = (done \o piece) \o z
          BY <5>1, <5>2
        <5> QED
          BY <5>3 DEF z
      <4>5. TextOf(system) = done \o r[n + 1]
        BY <3>7, <4>1, <4>4
      <4> QED
        BY <3>5, <4>2, <4>3, <4>5 DEF Left
    <3>9. Described(done)'
      BY <1>7, <2>7, DescribedSame
    <3>10. r \in [0..Len(stack') -> Seq(L)]
      BY <3>5, <3>7
    <3> QED
      BY <1>1, <1>5, <3>8, <3>9, <3>10, TextualAgain
  <2>8. ~(status' = "depth" \/ status' = "missing" \/ status' = "cycle")
    BY <1>2
  <2> HIDE DEF path, piece
  <2> QED
    BY <1>13, <2>6, <2>7, <2>8 DEF Include, Fail, path
<1>14. CASE EndOfFile
  <2>1. stack' = Front(stack) /\ properties' = properties /\ ~AtLine
    BY <1>14 DEF EndOfFile
  <2>2. Len(stack') = n - 1 /\ \A i \in 1..(n - 1) : stack'[i] = stack[i]
    BY <1>3, <1>4, <2>1, PopOpen
  <2>3. /\ rest[0] = <<>> /\ TextOf(system) = done \o rest[n]
        /\ \A i \in 1..n : rest[i] = Rest(system, stack[i], Level(i)) \o rest[i - 1]
    BY <1>5 DEF Reading
  <2>4. rest[n] = rest[n - 1]
    <3> DEFINE f == stack[n].file
               k == stack[n].next
               v == Level(n)
    <3>1. f \in DOMAIN system.files /\ k \in Nat \ {0} /\ stack[n] = [file |-> f, next |-> k]
      BY <1>6 DEF Open
    <3>2. k > Len(system.files[f])
      <4>1. Len(system.files[f]) \in Nat
        BY <1>3, <3>1, SystemAssumption, LenProperties DEF SystemOK
      <4> QED
        BY <1>4, <1>6, <2>1, <3>1, <4>1 DEF AtLine
    <3>3. v \in 1..(MaxIncludeDepth + 1)
      BY <1>6, DepthAssumption DEF NestingIsBounded, Level
    <3> DEFINE x == [file |-> f, next |-> k]
    <3> HIDE DEF f, k, v
    <3>4. Rest(system, x, v) = <<>>
      BY <1>3, <3>1, <3>2, <3>3, RestEnd
    <3>5. stack[n] = x
      BY <3>1
    <3> HIDE DEF x
    <3>6. Rest(system, stack[n], Level(n)) = <<>>
      BY <3>4, <3>5 DEF v
    <3>7. n \in 1..n /\ n - 1 \in 0..n
      BY <1>6
    <3>8. rest[n] = <<>> \o rest[n - 1] /\ rest[n - 1] \in Seq(L)
      BY <1>5, <2>3, <3>6, <3>7
    <3> QED
      BY <3>8, ConcatEmptySeq
  <2> DEFINE r == [i \in 0..(n - 1) |-> rest[i]]
  <2>5. r \in [0..(n - 1) -> Seq(L)] /\ \A i \in 0..(n - 1) : r[i] = rest[i]
    <3>1. \A i \in 0..(n - 1) : i \in 0..n
      BY <1>6
    <3> QED
      BY <1>5, <3>1
  <2> HIDE DEF r
  <2>6. Left(done, r, stack')
    <3>1. 0 \in 0..(n - 1) /\ n - 1 \in 0..(n - 1)
      BY <1>6
    <3>2. ASSUME NEW i \in 1..(n - 1)
          PROVE  r[i] = Rest(system, stack'[i], Level(i)) \o r[i - 1]
      <4>1. i \in 1..n /\ i \in 0..(n - 1) /\ i - 1 \in 0..(n - 1)
        BY <1>6
      <4> QED
        BY <2>2, <2>3, <2>5, <4>1
    <3> QED
      BY <2>2, <2>3, <2>4, <2>5, <3>1, <3>2 DEF Left
  <2>7. Described(done)'
    BY <1>7, <2>1, DescribedSame
  <2>8. r \in [0..Len(stack') -> Seq(L)]
    BY <2>2, <2>5
  <2> QED
    BY <1>1, <1>5, <2>6, <2>7, <2>8, TextualAgain
<1> QED
  BY <1>4, <1>10, <1>11, <1>12, <1>13, <1>14 DEF LoadStep, ApplyOverride, Loaded


\* Before the first line the whole text is left, and nothing is defined.
LEMMA InitTextual ==
  ASSUME Init
  PROVE  Textual
<1> DEFINE L == Lines(system)
           top == [file |-> system.root, next |-> 1]
           r == Rest(system, top, Level(1))
           rest == [i \in 0..1 |-> IF i = 0 THEN <<>> ELSE r]
<1>1. /\ system \in Systems /\ properties = <<>> /\ stack = <<top>>
  BY DEF Init
<1>2. system.root \in DOMAIN system.files
  BY <1>1, SystemAssumption DEF SystemOK
<1>3. Level(1) = MaxIncludeDepth + 1 /\ Level(1) \in 1..(MaxIncludeDepth + 1)
  BY DepthAssumption DEF Level
<1>4. r = TextOf(system)
  BY <1>1, <1>2, <1>3, RestStart DEF TextOf
<1>5. r \in Seq(L)
  <2>1. MaxIncludeDepth + 1 \in 0..(MaxIncludeDepth + 1)
    BY DepthAssumption
  <2>2. Texts(system)[MaxIncludeDepth + 1] \in [DOMAIN system.files -> Seq(L)]
    BY <1>1, <2>1, TextsMean
  <2> QED
    BY <1>2, <1>4, <2>2 DEF TextOf
<1>6. stack[1] = top /\ Len(stack) = 1
  <2> HIDE DEF top
  <2> QED
    BY <1>1
<1> HIDE DEF r, L, top
<1>7. <<>> \in Seq(L)
  BY EmptySeq
<1>8. /\ rest \in [0..1 -> Seq(L)] /\ rest[0] = <<>> /\ rest[1] = r
  BY <1>5, <1>7
<1> HIDE DEF rest
<1>9. r \o <<>> = r /\ <<>> \o r = r
  BY <1>5, ConcatEmptySeq
<1>10. Described(<<>>)
  <2>1. Defining(<<>>) = {} /\ DOMAIN properties = {}
    BY <1>1 DEF Defining
  <2> QED
    BY <2>1 DEF Described
<1>11. \A i \in 1..Len(stack) : rest[i] = Rest(system, stack[i], Level(i)) \o rest[i - 1]
  <2>1. ASSUME NEW i \in 1..Len(stack) PROVE i = 1
    BY <1>6
  <2>2. rest[1] = Rest(system, stack[1], Level(1)) \o rest[1 - 1]
    BY <1>6, <1>8, <1>9 DEF r
  <2> QED
    BY <2>1, <2>2
<1>12. Reading(<<>>, rest)
  BY <1>4, <1>6, <1>8, <1>9, <1>10, <1>11 DEF Reading
<1> QED
  BY <1>6, <1>7, <1>8, <1>12 DEF Textual, L

\* Building a command line changes nothing that was loaded.
LEMMA LoadInvSame ==
  ASSUME LoadInv, UNCHANGED vars
  PROVE  LoadInv'
<1>1. UNCHANGED <<system, overrides, properties, environment, locked, stack, applied, status>>
  BY DEF vars, input
<1>2. Types' /\ NestingIsBounded'
  BY <1>1 DEF LoadInv, Types, NestingIsBounded
<1>3. Overriding'
  BY <1>1 DEF LoadInv, Overriding, Literal
<1>4. Locking'
  BY <1>1 DEF LoadInv, Locking, Definer, SetOverrides, VariableOf, HasPrefix
<1>5. Setting'
  BY <1>1 DEF LoadInv, Setting, Sets, VariableOf, HasPrefix
<1>6. Textual'
  <2>1. SUFFICES ASSUME PlainIncludes(system),
                        status = "files" \/ (status = "overrides" /\ applied = 0)
                 PROVE  Textual'
    BY <1>1 DEF Textual, PlainIncludes, Literal
  <2>2. PICK done \in Seq(Lines(system)), rest \in [0..Len(stack) -> Seq(Lines(system))] :
               Reading(done, rest)
    BY <2>1 DEF LoadInv, Textual
  <2>3. Described(done)'
    BY <1>1, <2>2, DescribedSame DEF Reading
  <2>4. Left(done, rest, stack')
    BY <1>1, <2>2 DEF Reading, Left
  <2> QED
    BY <1>1, <2>2, <2>3, <2>4, TextualAgain
<1> QED
  BY <1>2, <1>3, <1>4, <1>5, <1>6 DEF LoadInv

\* Loading and building keep the invariant.
LEMMA LoadInvNext ==
  ASSUME LoadInv, [CommandNext]_commandVars
  PROVE  LoadInv'
<1>1. CASE LoadStep
  BY <1>1, TypesKept, OverridingKept, VariablesKept, TextualKept DEF LoadInv
<1>2. CASE UNCHANGED vars
  BY <1>2, LoadInvSame
<1>3. ~LoadStep => UNCHANGED vars
  BY DEF CommandNext, Build, Finished, commandVars
<1> QED
  BY <1>1, <1>2, <1>3

\* Loading reads the files and the command line in order, however the files
\* include each other.
THEOREM LoadInvariant == CommandSpec => []LoadInv
<1>1. CommandInit => LoadInv
  BY InitVariables, InitTextual DEF CommandInit, LoadInv
<1>2. LoadInv /\ [CommandNext]_commandVars => LoadInv'
  BY LoadInvNext
<1> QED
  BY <1>1, <1>2, PTL DEF CommandSpec

-----------------------------------------------------------------------------
(* What was loaded.                                                        *)

\* The last of the overrides of a name.
LEMMA LastOverrideMeans ==
  ASSUME Types, NEW i \in 1..Len(overrides)
  PROVE  LET l == LastOverride(overrides[i].name) IN
           /\ l \in 1..Len(overrides) /\ l >= i
           /\ overrides[l].name = overrides[i].name
           /\ \A j \in (l + 1)..Len(overrides) : overrides[j].name # overrides[i].name
<1> DEFINE name == overrides[i].name
           n == Len(overrides)
           A == {0} \cup {j \in DOMAIN overrides : overrides[j].name = name}
           l == LastOverride(name)
<1>1. n \in Nat /\ DOMAIN overrides = 1..n
  <2>1. overrides \in Seq([name : Seq(Char), value : Seq(Char)])
    BY OverridesAssumption DEF Types
  <2> QED
    BY <2>1, LenProperties
<1>2. A \in SUBSET (0..n) /\ i \in A /\ \A j \in 1..n : overrides[j].name = name => j \in A
  BY <1>1
<1>3. \A j \in A : j # 0 => j \in 1..n /\ overrides[j].name = name
  BY <1>1
<1>4. l = Max(A)
  BY DEF LastOverride
<1> HIDE DEF A, l
<1>5. l \in A /\ \A j \in A : l >= j
  <2>1. Max(A) \in A /\ \A j \in A : Max(A) >= j
    BY <1>1, <1>2, GreatestPosition
  <2> QED
    BY <1>4, <2>1
<1> HIDE DEF name, n
<1>6. l \in 1..n /\ l >= i /\ overrides[l].name = name
  <2>1. l >= i /\ l \in 0..n /\ i \in 1..n
    BY <1>2, <1>5 DEF n
  <2>2. l # 0
    BY <2>1
  <2> QED
    BY <1>3, <1>5, <2>1, <2>2
<1>7. ASSUME NEW j \in (l + 1)..n PROVE overrides[j].name # name
  <2>1. j \in 1..n /\ ~(l >= j)
    BY <1>1, <1>6
  <2> QED
    BY <1>2, <1>5, <2>1
<1> QED
  BY <1>6, <1>7 DEF name, n, l

\* Whatever the files say, the last override of a name holds.
LEMMA OverridesHold ==
  ASSUME LoadInv
  PROVE  OverridesWin
<1>1. SUFFICES ASSUME status = "loaded", NEW i \in DOMAIN overrides,
                      Literal(overrides[LastOverride(overrides[i].name)].value)
               PROVE  properties[overrides[i].name]
                        = overrides[LastOverride(overrides[i].name)].value
  BY DEF OverridesWin
<1> DEFINE name == overrides[i].name
           l == LastOverride(name)
<1>2. applied = Len(overrides) /\ Len(overrides) \in Nat /\ i \in 1..Len(overrides)
  <2>1. overrides \in Seq([name : Seq(Char), value : Seq(Char)])
    BY OverridesAssumption DEF LoadInv, Types
  <2> QED
    BY <1>1, <2>1, LenProperties DEF LoadInv, Types
<1>3. /\ l \in 1..Len(overrides) /\ overrides[l].name = name
      /\ \A j \in (l + 1)..Len(overrides) : overrides[j].name # name
  BY <1>2, LastOverrideMeans DEF LoadInv
<1> HIDE DEF l
<1>4. properties[overrides[l].name] = overrides[l].value
  BY <1>1, <1>2, <1>3 DEF LoadInv, Overriding, l
<1> QED
  BY <1>3, <1>4 DEF l

\* The variables show what the properties of the loaded configuration say.
LEMMA VariablesShowProperties ==
  ASSUME LoadInv
  PROVE  SetMeansEnvironment
<1>1. SUFFICES ASSUME status = "loaded", NEW name \in DOMAIN properties, Sets(name),
                      \A other \in DOMAIN properties :
                        HasPrefix(other, <<"set">>) /\ VariableOf(other) = VariableOf(name)
                          => other = name,
                      LastOverride(name) # 0 => Literal(overrides[LastOverride(name)].value)
               PROVE  /\ VariableOf(name) \in DOMAIN environment
                      /\ environment[VariableOf(name)] = properties[name]
  BY DEF SetMeansEnvironment, Sets
<1> DEFINE v == VariableOf(name)
<1>2. CASE v \notin locked
  <2>1. PICK other \in DOMAIN properties :
          /\ Sets(other) /\ VariableOf(other) = v
          /\ v \in DOMAIN environment /\ environment[v] = properties[other]
    BY <1>1, <1>2 DEF LoadInv, Setting
  <2>2. other = name
    BY <1>1, <2>1 DEF Sets
  <2> QED
    BY <2>1, <2>2
<1>3. CASE v \in locked
  <2> DEFINE A == {i \in SetOverrides(overrides) : VariableOf(overrides[i].name) = v}
             d == Definer(v)
             n == Len(overrides)
             l == LastOverride(name)
  <2>1. applied = n /\ n \in Nat /\ DOMAIN overrides = 1..n
    <3>1. overrides \in Seq([name : Seq(Char), value : Seq(Char)])
      BY OverridesAssumption DEF LoadInv, Types
    <3> QED
      BY <1>1, <3>1, LenProperties DEF LoadInv, Types
  <2>2. A \subseteq 1..n /\ A # {} /\ A \in SUBSET (0..n)
    <3>1. \E i \in SetOverrides(overrides) : v = VariableOf(overrides[i].name)
      BY <1>3 DEF LoadInv, Locking
    <3>2. A # {}
      BY <3>1
    <3>3. A \subseteq 1..n
      BY <2>1 DEF SetOverrides
    <3> HIDE DEF A
    <3> QED
      BY <2>1, <3>2, <3>3
  <2>3. d \in A /\ \A j \in A : d >= j
    <3> HIDE DEF A
    <3>1. Max(A) \in A /\ \A j \in A : Max(A) >= j
      BY <2>1, <2>2, GreatestPosition
    <3> QED
      BY <3>1 DEF Definer, A
  <2>4. /\ d \in 1..n /\ HasPrefix(overrides[d].name, <<"set">>)
        /\ VariableOf(overrides[d].name) = v
    BY <2>2, <2>3 DEF SetOverrides
  <2> HIDE DEF d
  <2>5. overrides[d].name = name
    <3>1. overrides[d].name \in DOMAIN properties
      BY <2>1, <2>4 DEF LoadInv, Overriding
    <3> QED
      BY <1>1, <2>4, <3>1
  <2>6. l \in 1..n /\ l >= d /\ overrides[l].name = name
    BY <2>4, <2>5, LastOverrideMeans DEF LoadInv
  <2> HIDE DEF l
  <2>7. d = l
    <3>1. l \in A
      BY <2>1, <2>4, <2>5, <2>6 DEF SetOverrides
    <3>2. d >= l
      BY <2>3, <3>1
    <3> QED
      BY <2>4, <2>6, <3>2
  <2>8. properties[name] = overrides[l].value
    <3>1. Literal(overrides[l].value)
      BY <1>1, <2>6 DEF l
    <3>2. name \in {overrides[i].name : i \in DOMAIN overrides}
      BY <2>1, <2>6
    <3> QED
      BY <1>1, <3>1, <3>2, OverridesHold DEF OverridesWin, l
  <2>9. v \in DOMAIN environment /\ environment[v] = overrides[d].value
    BY <1>3 DEF LoadInv, Locking, d
  <2> QED
    BY <2>7, <2>8, <2>9
<1> QED
  BY <1>2, <1>3

\* Of several definitions the last one of the whole text holds.
LEMMA TextHolds ==
  ASSUME LoadInv
  PROVE  IncludeIsTextual
<1> DEFINE text == TextOf(system)
<1>1. SUFFICES ASSUME status = "overrides", applied = 0, PlainIncludes(system)
               PROVE  /\ DOMAIN properties = {text[i].name : i \in Defining(text)}
                      /\ \A name \in DOMAIN properties :
                           LET last == Max({i \in Defining(text) : text[i].name = name})
                           IN Literal(Plain(text[last].value)) =>
                                properties[name] = Plain(text[last].value)
  BY DEF IncludeIsTextual
<1>2. PICK done \in Seq(Lines(system)), rest \in [0..Len(stack) -> Seq(Lines(system))] :
             Reading(done, rest)
  BY <1>1 DEF LoadInv, Textual
<1>3. text = done
  <2>1. Len(stack) = 0
    BY <1>1 DEF LoadInv, Types
  <2>2. text = done \o <<>>
    BY <1>2, <2>1 DEF Reading
  <2> QED
    BY <1>2, <2>2, ConcatEmptySeq
<1>4. Described(done) /\ Len(done) \in Nat /\ DOMAIN done = 1..Len(done)
  BY <1>2, LenProperties DEF Reading
<1> HIDE DEF text
<1>5. ASSUME NEW name \in DOMAIN properties,
             Literal(Plain(done[Max({i \in Defining(done) : done[i].name = name})].value))
      PROVE  properties[name]
               = Plain(done[Max({i \in Defining(done) : done[i].name = name})].value)
  <2> DEFINE A == {i \in Defining(done) : done[i].name = name}
  <2>1. PICK i \in Defining(done) :
          /\ done[i].name = name
          /\ \A j \in Defining(done) : done[j].name = name => j <= i
          /\ Literal(Plain(done[i].value)) => properties[name] = Plain(done[i].value)
    BY <1>4, <1>5 DEF Described
  <2>2. i \in A /\ A \subseteq 1..Len(done) /\ \A j \in A : j <= i
    BY <1>4, <2>1 DEF Defining
  <2> HIDE DEF A
  <2>3. A \in SUBSET (0..Len(done)) /\ A # {}
    BY <1>4, <2>2
  <2>4. Max(A) \in A /\ \A j \in A : Max(A) >= j
    BY <1>4, <2>3, GreatestPosition
  <2>5. Max(A) = i
    <3>1. Max(A) >= i /\ Max(A) <= i /\ Max(A) \in 1..Len(done) /\ i \in 1..Len(done)
      BY <2>2, <2>4
    <3> QED
      BY <3>1
  <2> QED
    BY <1>5, <2>1, <2>5 DEF A
<1> QED
  BY <1>3, <1>4, <1>5 DEF Described

\* What is loaded is what the files and the command line say, read in order:
\* includes are bounded and stand for their text, later lines and overrides
\* replace earlier ones, and variables show the properties that set them.
THEOREM LoadedIsWritten == CommandSpec => []LoadedAsWritten
<1>1. LoadInv => LoadedAsWritten
  BY OverridesHold, VariablesShowProperties, TextHolds DEF LoadInv, LoadedAsWritten
<1> QED
  BY <1>1, LoadInvariant, PTL

\* A variable that is defined changes only by a set.NAME line or override, and
\* one of the command line never.
LEMMA ChangeBySet ==
  ASSUME CommandNext, NEW v \in DOMAIN environment, environment'[v] # environment[v]
  PROVE  /\ v \notin locked
         /\ \E name \in DOMAIN properties' :
              /\ Sets(name) /\ VariableOf(name) = v
              /\ properties'[name] = environment'[v]
<1>1. ASSUME NEW name, NEW value,
             properties' = Put(properties, name, value),
             environment' = apply_environment_property(environment, name, value)
      PROVE  /\ v \notin locked
             /\ \E n \in DOMAIN properties' :
                  Sets(n) /\ VariableOf(n) = v /\ properties'[n] = environment'[v]
  <2>1. v \notin locked /\ Sets(name) /\ VariableOf(name) = v /\ environment'[v] = value
    BY <1>1, Applied
  <2>2. name \in DOMAIN properties' /\ properties'[name] = value
    BY <1>1, Inserted
  <2> QED
    BY <2>1, <2>2
<1>2. CASE Property
  BY <1>1, <1>2 DEF Property
<1>3. CASE ApplyOverride
  BY <1>1, <1>3 DEF ApplyOverride
<1>4. ~Property /\ ~ApplyOverride => environment' = environment
  BY DEF CommandNext, LoadStep, Skip, NoName, Include, EndOfFile, Loaded, Fail, Build,
         Finished, commandVars, vars
<1> QED
  BY <1>2, <1>3, <1>4

\* set.default.NAME yields to a value that is there, set.NAME replaces it, and
\* nothing else changes a variable that is defined.
THEOREM VariablesBySet == CommandSpec => VariablesChangeBySet
<1>1. [CommandNext]_commandVars =>
        [\A v \in DOMAIN environment : environment'[v] # environment[v] =>
           /\ v \notin locked
           /\ \E name \in DOMAIN properties' :
                /\ HasPrefix(name, <<"set">>) /\ ~HasPrefix(name, <<"set", "default">>)
                /\ VariableOf(name) = v
                /\ properties'[name] = environment'[v]]_vars
  <2>1. SUFFICES ASSUME CommandNext, NEW v \in DOMAIN environment,
                        environment'[v] # environment[v]
                 PROVE  /\ v \notin locked
                        /\ \E name \in DOMAIN properties' :
                             /\ HasPrefix(name, <<"set">>)
                             /\ ~HasPrefix(name, <<"set", "default">>)
                             /\ VariableOf(name) = v
                             /\ properties'[name] = environment'[v]
    BY DEF commandVars
  <2> QED
    BY <2>1, ChangeBySet DEF Sets
<1> QED
  BY <1>1, PTL DEF CommandSpec, VariablesChangeBySet

-----------------------------------------------------------------------------
(* What is launched.                                                       *)

\* The JVM's maximum is never below its initial heap.
LEMMA MaxMemoryIsEnough ==
  ASSUME NEW init \in Nat, NEW max \in Nat
  PROVE  MaxMemory(init, max) # 0 => MaxMemory(init, max) >= init
<1> DEFINE A == {max, init, 1}
<1>1. CASE max > 0
  <2>1. A \in SUBSET (0..(max + init + 1)) /\ A # {} /\ init \in A
    OBVIOUS
  <2> HIDE DEF A
  <2>2. max + init + 1 \in Nat
    OBVIOUS
  <2>3. Max(A) >= init
    BY <2>1, <2>2, GreatestPosition
  <2> QED
    BY <1>1, <2>3 DEF MaxMemory, A
<1>2. CASE ~(max > 0)
  BY <1>2 DEF MaxMemory
<1> QED
  BY <1>1, <1>2

\* A number of the configuration is one, whatever the file says.
LEMMA NumbersAreNumbers ==
  ASSUME NEW name
  PROVE  get_u64(name) \in Nat
<1>1. CASE /\ name \in DOMAIN properties
           /\ \E n \in DOMAIN Numerals : Trim(properties[name]) = <<n>>
  <2>1. PICK n \in DOMAIN Numerals : Trim(properties[name]) = <<n>>
    BY <1>1
  <2>2. Trim(properties[name])[1] = n
    BY <2>1
  <2>3. get_u64(name) = Numerals[n]
    BY <1>1, <2>2 DEF get_u64
  <2> QED
    BY <2>3, NumeralsAssumption
<1>2. CASE ~(/\ name \in DOMAIN properties
             /\ \E n \in DOMAIN Numerals : Trim(properties[name]) = <<n>>)
  BY <1>2 DEF get_u64
<1> QED
  BY <1>1, <1>2

\* A command that is built can start as it was meant.
LEMMA BuildIsConsistent ==
  ASSUME NEW configured, NEW class_found, NEW bridge_found,
         Build(configured, class_found, bridge_found)
  PROVE  CommandIsConsistent'
<1> DEFINE init == get_u64(<<"initmemory">>)
           max == get_u64(<<"maxmemory">>)
           main == resolve_main_class(configured, class_found)
<1>1. SUFFICES ASSUME command'.kind = "built"
               PROVE  /\ command'.xmx # 0 => command'.xmx >= command'.xms
                      /\ command'.main = "bundled" => command'.bridge_found
                      /\ command'.configured # "launcher" /\ command'.class_found =>
                           command'.main = "direct"
  BY DEF CommandIsConsistent
<1>2. /\ ~(main = "bundled" /\ ~bridge_found)
      /\ command'.xms = init /\ command'.xmx = MaxMemory(init, max)
      /\ command'.main = main /\ command'.bridge_found = bridge_found
      /\ command'.configured = configured /\ command'.class_found = class_found
  <2>1. CASE ~Present(<<"java">>)
    BY <1>1, <2>1 DEF Build
  <2>2. CASE Present(<<"java">>) /\ main = "bundled" /\ ~bridge_found
    BY <1>1, <2>2 DEF Build
  <2>3. CASE Present(<<"java">>) /\ ~(main = "bundled" /\ ~bridge_found)
    BY <2>3 DEF Build
  <2> QED
    BY <2>1, <2>2, <2>3
<1>3. init \in Nat /\ max \in Nat
  BY NumbersAreNumbers
<1> HIDE DEF init, max
<1>4. MaxMemory(init, max) # 0 => MaxMemory(init, max) >= init
  BY <1>3, MaxMemoryIsEnough
<1>5. /\ main \in {"bundled", "direct"}
      /\ configured # "launcher" /\ class_found => main = "direct"
  BY DEF resolve_main_class
<1> HIDE DEF main
<1> QED
  BY <1>2, <1>4, <1>5

\* Every JVM that is launched has a heap whose maximum is not below its start, a
\* bundled launcher only with the bridge on its classpath, and the class of the
\* user if that is there.
THEOREM LaunchIsConsistent == CommandSpec => []CommandIsConsistent
<1>1. CommandInit => CommandIsConsistent
  BY DEF CommandInit, NoCommand, CommandIsConsistent
<1>2. ASSUME CommandIsConsistent, [CommandNext]_commandVars
      PROVE  CommandIsConsistent'
  <2>1. ASSUME command' = command
        PROVE  CommandIsConsistent'
    BY <1>2, <2>1 DEF CommandIsConsistent
  <2> QED
    BY <1>2, <2>1, BuildIsConsistent DEF CommandNext, Finished, commandVars
<1> QED
  BY <1>1, <1>2, PTL DEF CommandSpec

-----------------------------------------------------------------------------
(* Recursion over the subsets of a finite set, as the folds do it.         *)

\* What such a recursion is given, and what solves it.
Recursion(S, D, base, step, pick) ==
  /\ IsFiniteSet(S) /\ base \in D /\ step \in [S \X D -> D]
  /\ \A T \in SUBSET S : T # {} => pick[T] \in T
Solves(g, S, D, base, step, pick) ==
  /\ g \in [SUBSET S -> D]
  /\ \A T \in SUBSET S : g[T] = IF T = {} THEN base ELSE step[pick[T], g[T \ {pick[T]}]]

\* It has a solution, whichever element is taken first.
LEMMA SetRecursion ==
  ASSUME NEW S, NEW D, NEW base, NEW step, NEW pick, Recursion(S, D, base, step, pick)
  PROVE  \E g : Solves(g, S, D, base, step, pick)
<1> SUFFICES ASSUME IsFiniteSet(S), base \in D, step \in [S \X D -> D],
                    \A T \in SUBSET S : T # {} => pick[T] \in T
             PROVE  \E g \in [SUBSET S -> D] : \A T \in SUBSET S :
                      g[T] = IF T = {} THEN base ELSE step[pick[T], g[T \ {pick[T]}]]
  BY DEF Recursion, Solves
<1> DEFINE Next(g, T) == IF T = {} THEN base ELSE step[pick[T], g[T \ {pick[T]}]]
           SolvesTo(g, n) == \A T \in SUBSET S : Cardinality(T) <= n => g[T] = Next(g, T)
           A == {n \in Nat : \E g \in [SUBSET S -> D] : SolvesTo(g, n)}
<1>1. \A T \in SUBSET S : IsFiniteSet(T) /\ Cardinality(T) \in Nat
  BY FS_Subset, FS_CardinalityType
<1>2. \A T \in SUBSET S : T # {} =>
        /\ T \ {pick[T]} \in SUBSET S
        /\ Cardinality(T \ {pick[T]}) = Cardinality(T) - 1
  BY <1>1, FS_RemoveElement
<1>3. \A T \in SUBSET S : T = {} <=> Cardinality(T) = 0
  BY <1>1, FS_EmptySet
<1>4. \A g \in [SUBSET S -> D], T \in SUBSET S : Next(g, T) \in D
  <2>1. SUFFICES ASSUME NEW g \in [SUBSET S -> D], NEW T \in SUBSET S, T # {}
                 PROVE  step[pick[T], g[T \ {pick[T]}]] \in D
    OBVIOUS
  <2>2. pick[T] \in S /\ g[T \ {pick[T]}] \in D
    BY <1>2, <2>1
  <2> QED
    BY <2>2
<1>5. 0 \in A
  <2> DEFINE g == [T \in SUBSET S |-> base]
  <2>1. g \in [SUBSET S -> D] /\ \A T \in SUBSET S : g[T] = base
    OBVIOUS
  <2> HIDE DEF g
  <2>2. ASSUME NEW T \in SUBSET S, Cardinality(T) <= 0
        PROVE  g[T] = Next(g, T)
    <3>1. Cardinality(T) \in Nat
      BY <1>1
    <3>2. Cardinality(T) = 0
      BY <2>2, <3>1
    <3>3. T = {}
      BY <1>3, <3>2
    <3> QED
      BY <2>1, <3>3
  <2>3. SolvesTo(g, 0)
    BY <2>2
  <2> HIDE DEF SolvesTo
  <2> QED
    BY <2>1, <2>3
<1>6. ASSUME NEW n \in Nat, NEW g \in [SUBSET S -> D], SolvesTo(g, n)
      PROVE  \E h \in [SUBSET S -> D] : SolvesTo(h, n + 1)
  <2>1. n \in Nat
    OBVIOUS
  <2>2. SolvesTo(g, n)
    BY <1>6
  <2> DEFINE h == [T \in SUBSET S |-> IF Cardinality(T) <= n THEN g[T] ELSE Next(g, T)]
  <2>3. /\ h \in [SUBSET S -> D]
        /\ \A T \in SUBSET S : Cardinality(T) <= n => h[T] = g[T]
        /\ \A T \in SUBSET S : ~(Cardinality(T) <= n) => h[T] = Next(g, T)
    <3> HIDE DEF Next, SolvesTo
    <3> QED
      BY <1>4, <2>2
  <2> HIDE DEF h
  <2>4. ASSUME NEW T \in SUBSET S, Cardinality(T) <= n + 1
        PROVE  h[T] = Next(h, T)
    <3>1. CASE T = {}
      <4>1. Cardinality(T) <= n
        <5>1. Cardinality(T) = 0
          BY <1>3, <3>1
        <5> QED
          BY <2>1, <5>1
      <4> QED
        BY <2>2, <2>3, <3>1, <4>1
    <3>2. CASE T # {}
      <4>1. T \ {pick[T]} \in SUBSET S /\ Cardinality(T \ {pick[T]}) <= n
        <5>1. /\ T \ {pick[T]} \in SUBSET S
              /\ Cardinality(T \ {pick[T]}) = Cardinality(T) - 1
          BY <1>2, <3>2
        <5>2. Cardinality(T) \in Nat
          BY <1>1
        <5> QED
          BY <2>1, <2>4, <5>1, <5>2
      <4>2. h[T \ {pick[T]}] = g[T \ {pick[T]}]
        BY <2>3, <4>1
      <4>3. Next(h, T) = Next(g, T)
        BY <4>2
      <4>4. h[T] = Next(g, T)
        <5> HIDE DEF Next
        <5> QED
          BY <2>2, <2>3
      <4> QED
        BY <4>3, <4>4
    <3> QED
      BY <3>1, <3>2
  <2>5. SolvesTo(h, n + 1)
    BY <2>4
  <2> HIDE DEF SolvesTo
  <2> QED
    BY <2>3, <2>5
<1>7. A = Nat
  <2>1. A \in SUBSET Nat
    OBVIOUS
  <2>2. ASSUME NEW n \in A PROVE n + 1 \in A
    <3>1. n \in Nat /\ n + 1 \in Nat /\ \E g \in [SUBSET S -> D] : SolvesTo(g, n)
      <4> HIDE DEF SolvesTo
      <4>1. n \in Nat /\ \E g \in [SUBSET S -> D] : SolvesTo(g, n)
        BY <2>2, Zenon
      <4>2. \A k \in Nat : k + 1 \in Nat
        OBVIOUS
      <4> QED
        BY <4>1, <4>2, Zenon
    <3>2. \E h \in [SUBSET S -> D] : SolvesTo(h, n + 1)
      <4> HIDE DEF SolvesTo
      <4> QED
        BY <1>6, <3>1, Zenon
    <3> HIDE DEF SolvesTo
    <3> QED
      BY <3>1, <3>2, Zenon
  <2> HIDE DEF A
  <2> QED
    BY <1>5, <2>1, <2>2, Induction
<1>8. Cardinality(S) \in A
  <2> HIDE DEF A
  <2> QED
    BY <1>1, <1>7
<1>9. PICK g \in [SUBSET S -> D] : SolvesTo(g, Cardinality(S))
  BY <1>8
<1>10. \A T \in SUBSET S : Cardinality(T) <= Cardinality(S)
  BY FS_Subset
<1>11. ASSUME NEW T \in SUBSET S PROVE g[T] = Next(g, T)
  BY <1>9, <1>10
<1> QED
  BY <1>11

\* The set of the first numbers, from which the greatest is taken.
LEMMA Greatest ==
  ASSUME NEW n \in Nat
  PROVE  /\ \A T \in SUBSET (1..n) : T # {} => Max(T) \in T
         /\ \A k \in 1..n : /\ 1..k \in SUBSET (1..n) /\ 1..k # {}
                            /\ Max(1..k) = k /\ (1..k) \ {k} = 1..(k - 1)
<1>1. ASSUME NEW T \in SUBSET (1..n), T # {}
      PROVE  Max(T) \in T /\ \A y \in T : Max(T) >= y
  <2>1. T \in SUBSET (0..n)
    OBVIOUS
  <2> QED
    BY <1>1, <2>1, GreatestPosition
<1>2. ASSUME NEW k \in 1..n
      PROVE  /\ 1..k \in SUBSET (1..n) /\ 1..k # {}
             /\ Max(1..k) = k /\ (1..k) \ {k} = 1..(k - 1)
  <2>1. 1..k \in SUBSET (1..n) /\ k \in 1..k /\ (1..k) \ {k} = 1..(k - 1)
    OBVIOUS
  <2>2. Max(1..k) \in 1..k /\ Max(1..k) >= k
    BY <1>1, <2>1
  <2>3. Max(1..k) = k
    <3> DEFINE m == Max(1..k)
    <3>1. m \in 1..k /\ m >= k
      BY <2>2
    <3> HIDE DEF m
    <3>2. m = k
      BY <3>1
    <3> QED
      BY <3>2 DEF m
  <2> QED
    BY <2>1, <2>3
<1> QED
  BY <1>1, <1>2

-----------------------------------------------------------------------------
(* What the bridge reads, character by character.                          *)

\* A character of the packet, and what was read when it stands before a lone
\* tab or not.
Wire == Char \cup {"=", "TAB"}
Scanned(es, e, tab) == [entries |-> es, entry |-> e, tab |-> tab]

LEMMA ScanStep ==
  ASSUME NEW es, NEW e, NEW c
  PROVE  /\ c = "TAB" => SplitStep(Scanned(es, e, FALSE), c) = Scanned(es, e, TRUE)
         /\ c # "TAB" => SplitStep(Scanned(es, e, FALSE), c) = Scanned(es, Append(e, c), FALSE)
         /\ c = "TAB" => SplitStep(Scanned(es, e, TRUE), c) = Scanned(es, Append(e, c), FALSE)
         /\ c # "TAB" => SplitStep(Scanned(es, e, TRUE), c) = Scanned(Append(es, e), <<c>>, FALSE)
  BY DEF SplitStep, Scanned

\* From one state the text leads to the other.
Reaches(s, w, t) ==
  \E f : /\ f[0] = s /\ f[Len(w)] = t
         /\ \A i \in 1..Len(w) : f[i] = SplitStep(f[i - 1], w[i])

\* Nothing, a character, and two texts one after the other.
LEMMA ReachesEmpty == ASSUME NEW s PROVE Reaches(s, <<>>, s)
<1> DEFINE f == [i \in 0..0 |-> s]
<1>1. f[0] = s /\ f[Len(<<>>)] = s /\ \A i \in 1..Len(<<>>) : f[i] = SplitStep(f[i - 1], <<>>[i])
  OBVIOUS
<1> HIDE DEF f
<1> QED
  BY <1>1 DEF Reaches

\* One character.
LEMMA ReachesOne == ASSUME NEW s, NEW c PROVE Reaches(s, <<c>>, SplitStep(s, c))
<1> DEFINE f == [i \in 0..1 |-> IF i = 0 THEN s ELSE SplitStep(s, c)]
           w == <<c>>
<1>1. f[0] = s /\ f[1] = SplitStep(s, c) /\ Len(w) = 1 /\ w[1] = c
  OBVIOUS
<1> HIDE DEF f, w
<1>2. ASSUME NEW i \in 1..Len(w) PROVE f[i] = SplitStep(f[i - 1], w[i])
  <2>1. i = 1 /\ i - 1 = 0
    BY <1>1
  <2> QED
    BY <1>1, <2>1
<1>3. Reaches(s, w, SplitStep(s, c))
  BY <1>1, <1>2 DEF Reaches
<1> QED
  BY <1>3 DEF w

\* Two texts, one after the other.
LEMMA ReachesConcat ==
  ASSUME NEW S, NEW a \in Seq(S), NEW b \in Seq(S), NEW s, NEW t, NEW u,
         Reaches(s, a, t), Reaches(t, b, u)
  PROVE  Reaches(s, a \o b, u)
<1> DEFINE m == Len(a)
           n == Len(b)
           w == a \o b
<1>1. m \in Nat /\ n \in Nat
  BY LenProperties
<1>2. /\ Len(w) = m + n
      /\ \A i \in 1..(m + n) : w[i] = IF i <= m THEN a[i] ELSE b[i - m]
  BY ConcatProperties
<1>3. PICK f : /\ f[0] = s /\ f[m] = t
               /\ \A i \in 1..m : f[i] = SplitStep(f[i - 1], a[i])
  BY DEF Reaches
<1>4. PICK g : /\ g[0] = t /\ g[n] = u
               /\ \A i \in 1..n : g[i] = SplitStep(g[i - 1], b[i])
  BY DEF Reaches
<1> DEFINE h == [i \in 0..(m + n) |-> IF i <= m THEN f[i] ELSE g[i - m]]
<1> HIDE DEF m, n, w
<1>5. /\ \A i \in 0..m : h[i] = f[i]
      /\ \A i \in (m + 1)..(m + n) : h[i] = g[i - m]
  BY <1>1
<1> HIDE DEF h
<1>6. h[0] = s /\ h[m + n] = u
  <2>1. h[0] = s
    BY <1>1, <1>3, <1>5
  <2>2. CASE n = 0
    <3>1. m + n = m /\ m \in 0..m
      BY <1>1, <2>2
    <3> QED
      BY <1>3, <1>4, <1>5, <2>1, <2>2, <3>1
  <2>3. CASE n # 0
    <3>1. m + n \in (m + 1)..(m + n) /\ (m + n) - m = n
      BY <1>1, <2>3
    <3> QED
      BY <1>4, <1>5, <2>1, <3>1
  <2> QED
    BY <2>2, <2>3
<1>7. ASSUME NEW i \in 1..(m + n) PROVE h[i] = SplitStep(h[i - 1], w[i])
  <2>1. CASE i <= m
    <3>1. i \in 1..m /\ i \in 0..m /\ i - 1 \in 0..m
      BY <1>1, <2>1
    <3> QED
      BY <1>2, <1>3, <1>5, <2>1, <3>1
  <2>2. CASE i = m + 1
    <3>1. i \in (m + 1)..(m + n) /\ i - m = 1 /\ i - 1 = m /\ m \in 0..m /\ 1 \in 1..n
          /\ ~(i <= m) /\ 1 - 1 = 0
      BY <1>1, <2>2
    <3>2. h[i] = g[1] /\ h[i - 1] = g[0] /\ w[i] = b[1]
      BY <1>2, <1>3, <1>4, <1>5, <3>1
    <3>3. g[1] = SplitStep(g[0], b[1])
      BY <1>4, <3>1
    <3> QED
      BY <3>2, <3>3
  <2>3. CASE i > m + 1
    <3>1. i \in (m + 1)..(m + n) /\ i - 1 \in (m + 1)..(m + n) /\ i - m \in 1..n
          /\ (i - 1) - m = (i - m) - 1 /\ ~(i <= m)
      BY <1>1, <2>3
    <3>2. h[i] = g[i - m] /\ h[i - 1] = g[(i - m) - 1] /\ w[i] = b[i - m]
      BY <1>2, <1>5, <3>1
    <3>3. g[i - m] = SplitStep(g[(i - m) - 1], b[i - m])
      BY <1>4, <3>1
    <3> QED
      BY <3>2, <3>3
  <2> QED
    BY <1>1, <2>1, <2>2, <2>3
<1>8. Reaches(s, w, u)
  BY <1>2, <1>6, <1>7 DEF Reaches
<1> QED
  BY <1>8 DEF w

\* A text leads to one state.
LEMMA ReachesOnce ==
  ASSUME NEW S, NEW w \in Seq(S), NEW s, NEW t, NEW u, Reaches(s, w, t), Reaches(s, w, u)
  PROVE  t = u
<1> DEFINE n == Len(w)
<1>1. n \in Nat
  BY LenProperties
<1>2. PICK f : /\ f[0] = s /\ f[n] = t
               /\ \A i \in 1..n : f[i] = SplitStep(f[i - 1], w[i])
  BY DEF Reaches
<1>3. PICK g : /\ g[0] = s /\ g[n] = u
               /\ \A i \in 1..n : g[i] = SplitStep(g[i - 1], w[i])
  BY DEF Reaches
<1> HIDE DEF n
<1> DEFINE A == {i \in Nat : i <= n => f[i] = g[i]}
<1>4. 0 \in A
  BY <1>2, <1>3
<1>5. ASSUME NEW i \in A PROVE i + 1 \in A
  <2>1. SUFFICES ASSUME i + 1 <= n PROVE f[i + 1] = g[i + 1]
    OBVIOUS
  <2>2. i \in Nat /\ i <= n /\ i + 1 \in 1..n /\ (i + 1) - 1 = i
    BY <1>1, <2>1
  <2>3. f[i] = g[i]
    BY <2>2
  <2>4. f[i + 1] = SplitStep(f[i], w[i + 1]) /\ g[i + 1] = SplitStep(g[i], w[i + 1])
    BY <1>2, <1>3, <2>2
  <2> QED
    BY <2>3, <2>4
<1>6. A = Nat
  <2>1. A \in SUBSET Nat
    OBVIOUS
  <2> HIDE DEF A
  <2> QED
    BY <1>4, <1>5, <2>1, Induction
<1>7. f[n] = g[n]
  <2>1. n \in A
    BY <1>1, <1>6
  <2> QED
    BY <1>1, <2>1
<1> QED
  BY <1>2, <1>3, <1>7

-----------------------------------------------------------------------------
(* A text with its tabs doubled is read as the text.                       *)

\* A character after itself.
LEMMA Twice == ASSUME NEW S, NEW x \in S PROVE <<x>> \o <<x>> = <<x, x>>
<1> DEFINE a == <<x>>
           b == a \o a
           d == <<x, x>>
<1>1. a \in Seq(S) /\ Len(a) = 1 /\ a[1] = x
  OBVIOUS
<1>2. d \in Seq(S) /\ Len(d) = 2 /\ d[1] = x /\ d[2] = x
  OBVIOUS
<1> HIDE DEF a, d
<1>3. /\ b \in Seq(S) /\ Len(b) = Len(a) + Len(a)
      /\ \A i \in 1..(Len(a) + Len(a)) : b[i] = IF i <= Len(a) THEN a[i] ELSE a[i - Len(a)]
  BY <1>1, ConcatProperties
<1> HIDE DEF b
<1>4. Len(b) = 2 /\ b[1] = x /\ b[2] = x
  <2>1. 2 - 1 = 1 /\ 1 + 1 = 2 /\ 1 <= 1 /\ ~(2 <= 1) /\ 1 \in 1..2 /\ 2 \in 1..2
    OBVIOUS
  <2> QED
    BY <1>1, <1>3, <2>1
<1>5. b = d
  <2>1. \A i \in 1..Len(b) : b[i] = d[i]
    <3>1. \A i \in 1..Len(b) : i = 1 \/ i = 2
      BY <1>4
    <3> QED
      BY <1>2, <1>4, <3>1
  <2> QED
    BY <1>2, <1>3, <1>4, <2>1, SeqEqual
<1> QED
  BY <1>5 DEF a, b, d

\* What a character is sent as.
Sent(c) == IF c = "TAB" THEN <<"TAB", "TAB">> ELSE <<c>>
SentAll(text) == [i \in DOMAIN text |-> Sent(text[i])]

\* A character is sent as one or two.
LEMMA SentType ==
  ASSUME NEW text \in Seq(Wire)
  PROVE  /\ SentAll(text) \in Seq(Seq(Wire)) /\ Len(SentAll(text)) = Len(text)
         /\ Doubled(text) = FlattenSeq(SentAll(text))
         /\ Doubled(text) \in Seq(Wire)
<1>1. Len(text) \in Nat /\ DOMAIN text = 1..Len(text) /\ \A i \in 1..Len(text) : text[i] \in Wire
  BY LenProperties, ElementOfSeq
<1>2. \A c \in Wire : Sent(c) \in Seq(Wire)
  <2>1. "TAB" \in Wire
    BY DEF Wire
  <2>2. <<"TAB", "TAB">> \in Seq(Wire)
    BY <2>1
  <2>3. \A c \in Wire : <<c>> \in Seq(Wire)
    OBVIOUS
  <2> QED
    BY <2>2, <2>3 DEF Sent
<1> DEFINE q == SentAll(text)
           n == Len(text)
<1>3. q \in [1..n -> Seq(Wire)]
  BY <1>1, <1>2 DEF SentAll
<1>4. q \in Seq(Seq(Wire)) /\ Len(q) = n
  <2> HIDE DEF q, n
  <2> QED
    BY <1>1, <1>3, IsASeq DEF n
<1>5. Doubled(text) = FlattenSeq(q)
  BY DEF Doubled, SentAll, Sent
<1>6. FlattenSeq(q) \in Seq(Wire)
  BY <1>4, FlattenType
<1> QED
  BY <1>4, <1>5, <1>6

\* One character.
LEMMA DoubledOne == ASSUME NEW c \in Wire PROVE Doubled(<<c>>) = Sent(c)
<1> DEFINE t == <<c>>
           q == SentAll(t)
<1>1. t \in Seq(Wire) /\ Len(t) = 1 /\ t[1] = c
  OBVIOUS
<1>2. q \in Seq(Seq(Wire)) /\ Len(q) = 1 /\ Doubled(t) = FlattenSeq(q)
  BY <1>1, SentType
<1>3. q[1] = Sent(c)
  <2>1. 1 \in DOMAIN t
    OBVIOUS
  <2> HIDE DEF t
  <2> QED
    BY <1>1, <2>1 DEF SentAll
<1> HIDE DEF q, t
<1>4. q[1] \in Seq(Wire) /\ q = <<q[1]>>
  <2>1. q[1] \in Seq(Wire)
    BY <1>2, ElementOfSeq
  <2>2. q = <<q[1]>>
    BY <1>2
  <2> QED
    BY <2>1, <2>2
<1>5. FlattenSeq(<<q[1]>>) = q[1]
  BY <1>4, FlattenOne
<1> QED
  BY <1>2, <1>3, <1>4, <1>5 DEF t

\* Two texts.
LEMMA DoubledConcat ==
  ASSUME NEW a \in Seq(Wire), NEW b \in Seq(Wire)
  PROVE  Doubled(a \o b) = Doubled(a) \o Doubled(b)
<1> DEFINE t == a \o b
           p == SentAll(a)
           q == SentAll(b)
           r == SentAll(t)
<1>1. /\ t \in Seq(Wire) /\ Len(t) = Len(a) + Len(b)
      /\ \A i \in 1..(Len(a) + Len(b)) :
           t[i] = IF i <= Len(a) THEN a[i] ELSE b[i - Len(a)]
  BY ConcatProperties
<1> HIDE DEF t
<1>2. /\ p \in Seq(Seq(Wire)) /\ Len(p) = Len(a) /\ Doubled(a) = FlattenSeq(p)
      /\ q \in Seq(Seq(Wire)) /\ Len(q) = Len(b) /\ Doubled(b) = FlattenSeq(q)
      /\ r \in Seq(Seq(Wire)) /\ Len(r) = Len(t) /\ Doubled(t) = FlattenSeq(r)
  BY <1>1, SentType
<1>3. /\ \A i \in 1..Len(a) : p[i] = Sent(a[i])
      /\ \A i \in 1..Len(b) : q[i] = Sent(b[i])
      /\ \A i \in 1..Len(t) : r[i] = Sent(t[i])
  <2>1. DOMAIN a = 1..Len(a) /\ DOMAIN b = 1..Len(b) /\ DOMAIN t = 1..Len(t)
    BY <1>1
  <2> QED
    BY <2>1 DEF SentAll
<1> HIDE DEF p, q, r
<1>4. r = p \o q
  <2> DEFINE u == p \o q
             m == Len(a)
             n == Len(b)
  <2>1. m \in Nat /\ n \in Nat
    BY LenProperties
  <2>2. /\ u \in Seq(Seq(Wire)) /\ Len(u) = m + n
        /\ \A i \in 1..(m + n) : u[i] = IF i <= m THEN p[i] ELSE q[i - m]
    <3>1. /\ u \in Seq(Seq(Wire)) /\ Len(u) = Len(p) + Len(q)
          /\ \A i \in 1..(Len(p) + Len(q)) : u[i] = IF i <= Len(p) THEN p[i] ELSE q[i - Len(p)]
      <4>1. p \in Seq(Seq(Wire)) /\ q \in Seq(Seq(Wire))
        BY <1>2
      <4> QED
        BY <4>1, ConcatProperties
    <3>2. Len(p) = m /\ Len(q) = n
      BY <1>2
    <3> HIDE DEF u, m, n
    <3> QED
      BY <3>1, <3>2
  <2> HIDE DEF u, m, n
  <2>3. ASSUME NEW i \in 1..(m + n) PROVE r[i] = u[i]
    <3>1. r[i] = Sent(t[i])
      BY <1>1, <1>3 DEF m, n
    <3>2. CASE i <= m
      <4>1. i \in 1..m /\ t[i] = a[i] /\ u[i] = p[i]
        BY <1>1, <2>1, <2>2, <3>2 DEF m, n
      <4>2. p[i] = Sent(a[i])
        BY <1>3, <4>1 DEF m
      <4> QED
        BY <3>1, <4>1, <4>2
    <3>3. CASE ~(i <= m)
      <4>1. i - m \in 1..n
        BY <2>1, <3>3
      <4>2. t[i] = b[i - m] /\ u[i] = q[i - m]
        BY <1>1, <2>2, <3>3 DEF m, n
      <4>3. q[i - m] = Sent(b[i - m])
        BY <1>3, <4>1 DEF n
      <4> QED
        BY <3>1, <4>2, <4>3
    <3> QED
      BY <3>2, <3>3
  <2>4. Len(r) = m + n /\ m + n \in Nat
    BY <1>1, <1>2, <2>1 DEF m, n
  <2>5. r = u
    BY <1>2, <2>2, <2>3, <2>4, SeqEqual
  <2> QED
    BY <2>5 DEF u
<1>5. FlattenSeq(p \o q) = FlattenSeq(p) \o FlattenSeq(q)
  BY <1>2, FlattenConcat
<1> QED
  BY <1>2, <1>4, <1>5 DEF t

\* It is read as the text, after whatever was read of the entry.
LEMMA TextIsRead ==
  ASSUME NEW es, NEW e \in Seq(Wire), NEW text \in Seq(Wire)
  PROVE  Reaches(Scanned(es, e, FALSE), Doubled(text), Scanned(es, e \o text, FALSE))
<1> DEFINE n == Len(text)
           P(i) == SubSeq(text, 1, i)
           A == {i \in Nat : i <= n =>
                   Reaches(Scanned(es, e, FALSE), Doubled(P(i)), Scanned(es, e \o P(i), FALSE))}
<1>1. n \in Nat /\ \A i \in 1..n : text[i] \in Wire
  BY LenProperties, ElementOfSeq
<1>2. P(0) = <<>>
  OBVIOUS
<1>3. \A i \in 0..n : P(i) \in Seq(Wire)
  BY CutAt
<1>4. \A i \in 0..(n - 1) : P(i + 1) = P(i) \o <<text[i + 1]>>
  <2> SUFFICES ASSUME NEW i \in 0..(n - 1) PROVE P(i + 1) = P(i) \o <<text[i + 1]>>
    OBVIOUS
  <2> DEFINE c == P(i + 1)
             d == P(i) \o <<text[i + 1]>>
  <2>1. i \in 0..n /\ i + 1 \in 0..n /\ i + 1 \in 1..n /\ i + 1 \in Nat /\ i \in Nat
    BY <1>1
  <2>2. c \in Seq(Wire) /\ Len(c) = i + 1 /\ \A j \in 1..(i + 1) : c[j] = text[j]
    BY <2>1, CutAt
  <2>3. P(i) \in Seq(Wire) /\ Len(P(i)) = i /\ \A j \in 1..i : P(i)[j] = text[j]
    BY <2>1, CutAt
  <2>4. text[i + 1] \in Wire
    BY <1>1, <2>1
  <2> HIDE DEF P, c
  <2>5. d \in Seq(Wire) /\ Len(d) = i + 1 /\ \A j \in 1..(i + 1) : d[j] = text[j]
    <3> DEFINE o == <<text[i + 1]>>
    <3>1. o \in Seq(Wire) /\ Len(o) = 1 /\ o[1] = text[i + 1]
      BY <2>4
    <3> HIDE DEF o
    <3>2. /\ P(i) \o o \in Seq(Wire) /\ Len(P(i) \o o) = i + 1
          /\ \A j \in 1..(i + 1) : (P(i) \o o)[j] = IF j <= i THEN P(i)[j] ELSE o[j - i]
      <4> DEFINE a == P(i)
      <4>1. a \in Seq(Wire) /\ o \in Seq(Wire)
        BY <2>3, <3>1
      <4>2. /\ a \o o \in Seq(Wire) /\ Len(a \o o) = Len(a) + Len(o)
            /\ \A j \in 1..(Len(a) + Len(o)) :
                 (a \o o)[j] = IF j <= Len(a) THEN a[j] ELSE o[j - Len(a)]
        <5> HIDE DEF a
        <5> QED
          BY <4>1, ConcatProperties
      <4>3. Len(a) = i /\ Len(o) = 1
        BY <2>3, <3>1
      <4> HIDE DEF a
      <4>4. /\ a \o o \in Seq(Wire) /\ Len(a \o o) = i + 1
            /\ \A j \in 1..(i + 1) : (a \o o)[j] = IF j <= i THEN a[j] ELSE o[j - i]
        BY <4>2, <4>3
      <4> QED
        BY <4>4 DEF a
    <3>3. ASSUME NEW j \in 1..(i + 1) PROVE (P(i) \o o)[j] = text[j]
      <4>1. CASE j <= i
        <5>1. j \in 1..i
          BY <2>1, <4>1
        <5> QED
          BY <2>3, <3>2, <4>1, <5>1
      <4>2. CASE ~(j <= i)
        <5>1. j = i + 1 /\ j - i = 1
          BY <2>1, <4>2
        <5> QED
          BY <3>1, <3>2, <4>2, <5>1
      <4> QED
        BY <4>1, <4>2
    <3> QED
      BY <3>2, <3>3 DEF o
  <2> HIDE DEF d
  <2>6. c = d
    BY <2>1, <2>2, <2>5, SeqEqual
  <2> QED
    BY <2>6 DEF c, d
<1> HIDE DEF P
<1>5. 0 \in A
  <2>1. e \o <<>> = e
    BY ConcatEmptySeq
  <2>2. Doubled(<<>>) = <<>>
    BY FlattenEmpty DEF Doubled
  <2> QED
    BY <1>2, <2>1, <2>2, ReachesEmpty
<1>6. ASSUME NEW i \in Nat, i + 1 <= n,
             Reaches(Scanned(es, e, FALSE), Doubled(P(i)), Scanned(es, e \o P(i), FALSE))
      PROVE  Reaches(Scanned(es, e, FALSE), Doubled(P(i + 1)), Scanned(es, e \o P(i + 1), FALSE))
  <2> DEFINE c == text[i + 1]
             d == e \o P(i)
             s == Scanned(es, d, FALSE)
             t == Scanned(es, Append(d, c), FALSE)
  <2>1. i \in 0..n /\ i \in 0..(n - 1) /\ i + 1 \in 1..n
    BY <1>1, <1>6
  <2>2. c \in Wire /\ <<c>> \in Seq(Wire) /\ P(i) \in Seq(Wire) /\ d \in Seq(Wire)
    <3>1. c \in Wire /\ P(i) \in Seq(Wire)
      BY <1>1, <1>3, <2>1
    <3> HIDE DEF c
    <3>2. <<c>> \in Seq(Wire)
      BY <3>1
    <3> QED
      BY <3>1, <3>2, ConcatProperties
  <2>3. P(i + 1) = P(i) \o <<c>>
    BY <1>4, <2>1
  <2> HIDE DEF c
  <2>4. Doubled(P(i + 1)) = Doubled(P(i)) \o Sent(c)
    BY <2>2, <2>3, DoubledConcat, DoubledOne
  <2>5. e \o P(i + 1) = Append(d, c)
    <3>1. e \o (P(i) \o <<c>>) = (e \o P(i)) \o <<c>>
      BY <2>2, Associative
    <3>2. Append(d, c) = d \o <<c>>
      BY <2>2, AppendIsConcat
    <3> QED
      BY <2>3, <3>1, <3>2
  <2> HIDE DEF d
  <2>6. Reaches(s, Sent(c), t)
    <3>1. CASE c = "TAB"
      <4> DEFINE h == Scanned(es, d, TRUE)
      <4>1. Reaches(s, <<c>>, h)
        <5>1. SplitStep(s, c) = h
          BY <3>1 DEF SplitStep, Scanned
        <5> QED
          BY <5>1, ReachesOne
      <4>2. Reaches(h, <<c>>, t)
        <5>1. SplitStep(h, c) = t
          BY <3>1 DEF SplitStep, Scanned
        <5> QED
          BY <5>1, ReachesOne
      <4>3. <<c>> \o <<c>> = Sent(c)
        <5>1. <<"TAB">> \o <<"TAB">> = <<"TAB", "TAB">>
          <6>1. "TAB" \in Wire
            BY DEF Wire
          <6> QED
            BY <6>1, Twice
        <5> QED
          BY <3>1, <5>1 DEF Sent
      <4> HIDE DEF s, t, h
      <4>4. Reaches(s, <<c>> \o <<c>>, t)
        BY <2>2, <4>1, <4>2, ReachesConcat
      <4> QED
        BY <4>3, <4>4
    <3>2. CASE c # "TAB"
      <4>1. SplitStep(s, c) = t
        BY <3>2 DEF SplitStep, Scanned
      <4>2. Sent(c) = <<c>>
        BY <3>2 DEF Sent
      <4> QED
        BY <4>1, <4>2, ReachesOne
    <3> QED
      BY <3>1, <3>2
  <2>7. Doubled(P(i)) \in Seq(Wire) /\ Sent(c) \in Seq(Wire)
    BY <2>2, SentType, DoubledOne
  <2>8. Reaches(Scanned(es, e, FALSE), Doubled(P(i)), s)
    BY <1>6 DEF d
  <2> HIDE DEF s, t
  <2>9. Reaches(Scanned(es, e, FALSE), Doubled(P(i)) \o Sent(c), t)
    BY <2>6, <2>7, <2>8, ReachesConcat
  <2> QED
    BY <2>4, <2>5, <2>9 DEF t
<1>7. A = Nat
  <2>1. A \in SUBSET Nat
    OBVIOUS
  <2>2. ASSUME NEW i \in A PROVE i + 1 \in A
    <3>1. i \in Nat /\ i + 1 \in Nat
      OBVIOUS
    <3>2. ASSUME i + 1 <= n
          PROVE  Reaches(Scanned(es, e, FALSE), Doubled(P(i + 1)), Scanned(es, e \o P(i + 1), FALSE))
      <4>1. i <= n
        BY <1>1, <3>1, <3>2
      <4>2. Reaches(Scanned(es, e, FALSE), Doubled(P(i)), Scanned(es, e \o P(i), FALSE))
        BY <2>2, <4>1
      <4> QED
        BY <1>6, <3>1, <3>2, <4>2
    <3> QED
      BY <3>1, <3>2
  <2> HIDE DEF A
  <2> QED
    BY <1>5, <2>1, <2>2, Induction
<1>8. P(n) = text
  BY SubSeqFull DEF P
<1>9. Reaches(Scanned(es, e, FALSE), Doubled(P(n)), Scanned(es, e \o P(n), FALSE))
  <2>1. n \in A
    <3> HIDE DEF A
    <3> QED
      BY <1>1, <1>7
  <2>2. n <= n
    BY <1>1
  <2> HIDE DEF n
  <2> QED
    BY <2>1, <2>2
<1> QED
  BY <1>8, <1>9

\* A lone tab before a text that does not begin with one ends the entry.
LEMMA NextEntry ==
  ASSUME NEW es, NEW e \in Seq(Wire), NEW text \in Seq(Wire), text # <<>>, text[1] # "TAB"
  PROVE  Reaches(Scanned(es, e, FALSE), <<"TAB">> \o Doubled(text),
                 Scanned(Append(es, e), text, FALSE))
<1> DEFINE c == text[1]
           rest == SubSeq(text, 2, Len(text))
           s == Scanned(es, e, FALSE)
           h == Scanned(es, e, TRUE)
           t == Scanned(Append(es, e), <<c>>, FALSE)
           u == Scanned(Append(es, e), text, FALSE)
<1>1. Len(text) \in Nat /\ Len(text) # 0 /\ 1 \in 0..Len(text) /\ 1 \in 1..Len(text)
  <2>1. Len(text) \in Nat /\ Len(text) # 0
    BY LenProperties, EmptySeq
  <2> QED
    BY <2>1
<1>2. c \in Wire
  BY <1>1, ElementOfSeq
<1>3. rest \in Seq(Wire) /\ text = <<c>> \o rest
  <2> DEFINE k == SubSeq(text, 1, 1)
  <2>1. /\ k \in Seq(Wire) /\ Len(k) = 1 /\ SubSeq(text, 1 + 1, Len(text)) \in Seq(Wire)
        /\ text = k \o SubSeq(text, 1 + 1, Len(text))
        /\ \A i \in 1..1 : k[i] = text[i]
    BY <1>1, CutAt
  <2>2. SubSeq(text, 1 + 1, Len(text)) = rest
    OBVIOUS
  <2> HIDE DEF k, rest, c
  <2>3. k = <<c>>
    <3>1. k[1] = c
      BY <2>1 DEF c
    <3> QED
      BY <1>2, <2>1, <3>1
  <2> QED
    BY <2>1, <2>2, <2>3
<1> HIDE DEF c, rest
<1>4. <<c>> \in Seq(Wire)
  BY <1>2
<1>5. Doubled(text) = <<c>> \o Doubled(rest)
  <2>1. Sent(c) = <<c>>
    BY DEF Sent, c
  <2>2. Doubled(<<c>>) = <<c>>
    BY <1>2, <2>1, DoubledOne
  <2>3. Doubled(<<c>> \o rest) = Doubled(<<c>>) \o Doubled(rest)
    BY <1>3, <1>4, DoubledConcat
  <2> QED
    BY <1>3, <2>2, <2>3
<1>6. Reaches(s, <<"TAB">>, h)
  <2>1. SplitStep(s, "TAB") = h
    BY ScanStep
  <2> QED
    BY <2>1, ReachesOne
<1>7. Reaches(h, <<c>>, t)
  <2>1. SplitStep(h, c) = t
    BY ScanStep DEF c
  <2> QED
    BY <2>1, ReachesOne
<1>8. Reaches(t, Doubled(rest), u)
  <2>1. Reaches(Scanned(Append(es, e), <<c>>, FALSE), Doubled(rest),
                Scanned(Append(es, e), <<c>> \o rest, FALSE))
    BY <1>3, <1>4, TextIsRead
  <2> QED
    BY <1>3, <2>1
<1> HIDE DEF s, h, t, u
<1>9. Doubled(rest) \in Seq(Wire) /\ Doubled(text) \in Seq(Wire) /\ <<"TAB">> \in Seq(Wire)
  <2>1. "TAB" \in Wire
    BY DEF Wire
  <2>2. <<"TAB">> \in Seq(Wire)
    BY <2>1
  <2>3. Doubled(rest) \in Seq(Wire) /\ Doubled(text) \in Seq(Wire)
    BY <1>3, SentType
  <2> QED
    BY <2>2, <2>3
<1>10. Reaches(h, Doubled(text), u)
  <2>1. Reaches(h, <<c>> \o Doubled(rest), u)
    BY <1>4, <1>7, <1>8, <1>9, ReachesConcat
  <2> QED
    BY <1>5, <2>1
<1>11. Reaches(s, <<"TAB">> \o Doubled(text), u)
  BY <1>6, <1>9, <1>10, ReachesConcat
<1> QED
  BY <1>11 DEF s, u

-----------------------------------------------------------------------------
(* The packet, entry by entry.                                             *)

\* The properties that are sent, and an entry before its tabs are doubled.
SentNames(props) == {n \in DOMAIN props : ~is_sensitive_name(n)}
Written(props, n) == n \o <<"=">> \o props[n]

\* protocol_properties adds an entry.
AddTo(props, n, output) ==
  (IF output = <<>> THEN <<>> ELSE Append(output, "TAB"))
    \o (Doubled(n) \o <<"=">> \o Doubled(props[n]))

\* Names and values as the loader makes them.
Packable(props) ==
  /\ IsFiniteSet(DOMAIN props)
  /\ \A n \in DOMAIN props : NameOK(n) /\ props[n] \in Seq(Char)

\* A name does not begin with a blank.
LEMMA NameStart ==
  ASSUME NEW n \in Seq(Char), Trim(n) = n, n # <<>>
  PROVE  n[1] # "TAB"
<1> DEFINE text == {i \in DOMAIN n : n[i] \notin {" ", "TAB"}}
<1>1. Len(n) \in Nat /\ DOMAIN n = 1..Len(n)
  BY LenProperties
<1>2. /\ text \in SUBSET Nat /\ text \in SUBSET (0..Len(n)) /\ text \subseteq 1..Len(n)
      /\ \A i \in text : n[i] # "TAB"
  <2>1. text \subseteq 1..Len(n)
    BY <1>1
  <2>2. \A i \in text : n[i] # "TAB"
    OBVIOUS
  <2> HIDE DEF text
  <2> QED
    BY <1>1, <2>1, <2>2
<1>3. text # {} /\ n = SubSeq(n, Min(text), Max(text))
  BY DEF Trim
<1> HIDE DEF text
<1> DEFINE a == Min(text)
           b == Max(text)
<1>4. a \in text /\ b \in text /\ a <= b
  <2>1. a \in text /\ \A y \in text : a <= y
    BY <1>2, <1>3, LeastPosition
  <2>2. b \in text
    BY <1>1, <1>2, <1>3, GreatestPosition
  <2> QED
    BY <2>1, <2>2
<1> HIDE DEF a, b
<1>5. a \in 1..Len(n) /\ b \in 1..Len(n) /\ a \in Int /\ b \in Int
  BY <1>1, <1>2, <1>4
<1>6. SubSeq(n, a, b)[1] = n[a]
  <2>1. \A i \in a..b : n[i] \in Char
    <3>1. \A i \in 1..Len(n) : n[i] \in Char
      BY ElementOfSeq
    <3> QED
      BY <1>1, <1>5, <3>1
  <2>2. \A i \in 1..(b - a + 1) : SubSeq(n, a, b)[i] = n[a + i - 1]
    BY <1>5, <2>1, SubSeqProperties
  <2>3. 1 \in 1..(b - a + 1) /\ a + 1 - 1 = a
    BY <1>4, <1>5
  <2> QED
    BY <2>2, <2>3
<1> QED
  BY <1>2, <1>3, <1>4, <1>6 DEF a, b

\* An entry, and that it is sent with its tabs doubled.
LEMMA WrittenType ==
  ASSUME NEW props, Packable(props), NEW n \in DOMAIN props
  PROVE  /\ n \in Seq(Wire) /\ props[n] \in Seq(Wire) /\ <<"=">> \in Seq(Wire)
         /\ Written(props, n) \in Seq(Wire) /\ Written(props, n) # <<>>
         /\ Len(Written(props, n)) = Len(n) + 1 + Len(props[n])
         /\ \A i \in 1..Len(n) : Written(props, n)[i] = n[i]
         /\ Written(props, n)[Len(n) + 1] = "="
         /\ \A i \in 1..Len(props[n]) : Written(props, n)[Len(n) + 1 + i] = props[n][i]
         /\ Written(props, n)[1] # "TAB"
         /\ Doubled(n) \o <<"=">> \o Doubled(props[n]) = Doubled(Written(props, n))
<1> DEFINE v == props[n]
           eq == <<"=">>
           w == Written(props, n)
           k == Len(n)
           m == Len(v)
<1>1. n \in Seq(Char) /\ Trim(n) = n /\ v \in Seq(Char)
  BY DEF Packable, NameOK
<1>2. Seq(Char) \subseteq Seq(Wire) /\ "=" \in Wire
  <2>1. Char \subseteq Wire /\ "=" \in Wire
    BY DEF Wire
  <2>2. \A s \in Seq(Char) : s \in Seq(Wire)
    <3> TAKE s \in Seq(Char)
    <3>1. Len(s) \in Nat /\ \A i \in 1..Len(s) : s[i] \in Char
      BY LenProperties, ElementOfSeq
    <3>2. s \in [1..Len(s) -> Wire]
      <4>1. s \in [1..Len(s) -> Char]
        BY LenProperties
      <4> QED
        BY <2>1, <4>1
    <3> QED
      BY <3>1, <3>2, IsASeq
  <2> QED
    BY <2>1, <2>2
<1>3. n \in Seq(Wire) /\ v \in Seq(Wire)
  BY <1>1, <1>2
<1>4. eq \in Seq(Wire) /\ Len(eq) = 1 /\ eq[1] = "="
  BY <1>2
<1>5. k \in Nat /\ m \in Nat
  BY LenProperties, <1>3
<1>6. w = (n \o eq) \o v
  BY DEF Written
<1> HIDE DEF v, eq, w
<1> DEFINE h == n \o eq
<1>7. /\ h \in Seq(Wire) /\ Len(h) = k + 1
      /\ \A i \in 1..k : h[i] = n[i]
      /\ h[k + 1] = "="
  <2>1. /\ h \in Seq(Wire) /\ Len(h) = Len(n) + Len(eq)
        /\ \A i \in 1..(Len(n) + Len(eq)) : h[i] = IF i <= Len(n) THEN n[i] ELSE eq[i - Len(n)]
    BY <1>3, <1>4, ConcatProperties
  <2> HIDE DEF h, k
  <2>2. Len(n) = k
    BY DEF k
  <2>3. k + 1 \in 1..(k + 1) /\ ~(k + 1 <= k) /\ (k + 1) - k = 1 /\ \A i \in 1..k : i \in 1..(k + 1) /\ i <= k
    BY <1>5
  <2> QED
    BY <1>4, <2>1, <2>2, <2>3
<1> HIDE DEF h
<1>8. /\ w \in Seq(Wire) /\ Len(w) = k + 1 + m
      /\ \A i \in 1..(k + 1) : w[i] = h[i]
      /\ \A i \in 1..m : w[k + 1 + i] = v[i]
  <2>1. w = h \o v
    BY <1>6 DEF h
  <2>2. /\ h \o v \in Seq(Wire) /\ Len(h \o v) = Len(h) + Len(v)
        /\ \A i \in 1..(Len(h) + Len(v)) :
             (h \o v)[i] = IF i <= Len(h) THEN h[i] ELSE v[i - Len(h)]
    BY <1>3, <1>7, ConcatProperties
  <2>3. Len(v) = m /\ Len(h) = k + 1
    BY <1>7
  <2> HIDE DEF k, m
  <2>4. /\ \A i \in 1..(k + 1) : i \in 1..(k + 1 + m) /\ i <= k + 1
        /\ \A i \in 1..m : /\ k + 1 + i \in 1..(k + 1 + m) /\ ~(k + 1 + i <= k + 1)
                           /\ (k + 1 + i) - (k + 1) = i
    BY <1>5
  <2>5. /\ w \in Seq(Wire) /\ Len(w) = k + 1 + m
        /\ \A i \in 1..(k + 1 + m) : w[i] = IF i <= k + 1 THEN h[i] ELSE v[i - (k + 1)]
    BY <2>1, <2>2, <2>3
  <2> QED
    BY <2>4, <2>5
<1>9. \A i \in 1..k : w[i] = n[i]
  BY <1>5, <1>7, <1>8
<1>10. w[k + 1] = "="
  <2>1. k + 1 \in 1..(k + 1)
    BY <1>5
  <2> QED
    BY <1>7, <1>8, <2>1
<1>11. w # <<>>
  <2>1. Len(w) # 0
    BY <1>5, <1>8
  <2> QED
    BY <1>8, <2>1, EmptySeq
<1>12. w[1] # "TAB"
  <2>1. CASE k = 0
    <3>1. k + 1 = 1
      BY <2>1
    <3> QED
      BY <1>10, <3>1
  <2>2. CASE k # 0
    <3>1. n # <<>> /\ 1 \in 1..k
      BY <1>5, <2>2
    <3>2. n[1] # "TAB"
      BY <1>1, <3>1, NameStart
    <3> QED
      BY <1>9, <3>1, <3>2
  <2> QED
    BY <2>1, <2>2
<1>13. Doubled(n) \o eq \o Doubled(v) = Doubled(w)
  <2>1. Doubled(eq) = eq
    BY <1>2, DoubledOne DEF eq, Sent
  <2>2. Doubled(h) = Doubled(n) \o eq
    <3>1. Doubled(n \o eq) = Doubled(n) \o Doubled(eq)
      BY <1>3, <1>4, DoubledConcat
    <3> QED
      BY <2>1, <3>1 DEF h
  <2>3. Doubled(w) = Doubled(h) \o Doubled(v)
    <3>1. w = h \o v
      BY <1>6 DEF h
    <3> QED
      BY <1>3, <1>7, <3>1, DoubledConcat
  <2> QED
    BY <2>2, <2>3
<1> QED
  BY <1>3, <1>4, <1>8, <1>9, <1>10, <1>11, <1>12, <1>13 DEF v, eq, w

\* What an entry adds.
LEMMA AddedType ==
  ASSUME NEW props, Packable(props), NEW n \in DOMAIN props, NEW output \in Seq(Wire)
  PROVE  /\ AddTo(props, n, output) \in Seq(Wire) /\ AddTo(props, n, output) # <<>>
         /\ Doubled(Written(props, n)) \in Seq(Wire)
         /\ output = <<>> => AddTo(props, n, output) = Doubled(Written(props, n))
         /\ output # <<>> =>
              AddTo(props, n, output) = output \o (<<"TAB">> \o Doubled(Written(props, n)))
<1> DEFINE w == Written(props, n)
           d == Doubled(w)
           a == AddTo(props, n, output)
           tab == <<"TAB">>
<1>1. w \in Seq(Wire) /\ w # <<>> /\ w[1] # "TAB"
  BY WrittenType
<1>2. d \in Seq(Wire)
  BY <1>1, SentType
<1>3. d # <<>>
  <2> DEFINE q == SentAll(w)
             c == w[1]
             rest == SubSeq(w, 2, Len(w))
  <2>1. Len(w) \in Nat /\ Len(w) # 0 /\ 1 \in 0..Len(w) /\ 1 \in 1..Len(w)
    <3>1. Len(w) \in Nat /\ Len(w) # 0
      BY <1>1, LenProperties, EmptySeq
    <3> QED
      BY <3>1
  <2>2. c \in Wire
    BY <1>1, <2>1, ElementOfSeq
  <2> DEFINE k == SubSeq(w, 1, 1)
             r == SubSeq(w, 1 + 1, Len(w))
  <2>3. k \in Seq(Wire) /\ Len(k) = 1 /\ r \in Seq(Wire) /\ w = k \o r /\ k[1] = c
    <3> HIDE DEF w
    <3>1. /\ k \in Seq(Wire) /\ Len(k) = 1 /\ r \in Seq(Wire)
          /\ w = k \o r /\ \A i \in 1..1 : k[i] = w[i]
      BY <1>1, <2>1, CutAt
    <3> QED
      BY <3>1
  <2> HIDE DEF k, r, c, w
  <2>4. k = <<c>>
    BY <2>2, <2>3
  <2>5. d = Sent(c) \o Doubled(r)
    BY <2>2, <2>3, <2>4, DoubledConcat, DoubledOne
  <2>6. Sent(c) = <<c>>
    BY <1>1 DEF c, Sent
  <2>7. Doubled(r) \in Seq(Wire) /\ <<c>> \in Seq(Wire)
    BY <2>2, <2>3, SentType
  <2>8. Len(d) = 1 + Len(Doubled(r)) /\ Len(Doubled(r)) \in Nat
    <3> DEFINE o == <<c>>
               s == Doubled(r)
    <3>1. o \in Seq(Wire) /\ s \in Seq(Wire) /\ Len(o) = 1 /\ d = o \o s
      BY <2>5, <2>6, <2>7
    <3> HIDE DEF o, s, d
    <3>2. Len(o \o s) = Len(o) + Len(s) /\ Len(s) \in Nat
      BY <3>1, ConcatProperties, LenProperties
    <3> QED
      BY <3>1, <3>2 DEF s
  <2>9. Len(d) # 0
    BY <2>8
  <2> QED
    BY <1>2, <2>9, EmptySeq
<1>4. a = (IF output = <<>> THEN <<>> ELSE Append(output, "TAB")) \o d
  BY WrittenType DEF AddTo
<1>5. "TAB" \in Wire /\ tab \in Seq(Wire)
  <2>1. "TAB" \in Wire
    BY DEF Wire
  <2> QED
    BY <2>1
<1> HIDE DEF w, d, a, tab
<1>6. output = <<>> => a = d
  BY <1>2, <1>4, ConcatEmptySeq
<1>7. output # <<>> => a = output \o (tab \o d)
  <2>1. Append(output, "TAB") = output \o tab
    BY <1>5, AppendIsConcat DEF tab
  <2>2. output \o (tab \o d) = (output \o tab) \o d
    <3>1. tab \in Seq(Wire)
      BY <1>5
    <3> QED
      BY <1>2, <3>1, Associative
  <2> QED
    BY <1>4, <2>1, <2>2
<1>8. output \o (tab \o d) \in Seq(Wire) /\ output \o (tab \o d) # <<>>
  <2>1. tab \o d \in Seq(Wire)
    BY <1>2, <1>5, ConcatProperties
  <2> DEFINE s == tab \o d
  <2> HIDE DEF s
  <2>2. /\ tab \o d \in Seq(Wire) /\ Len(tab \o d) = Len(tab) + Len(d)
        /\ Len(tab) = 1 /\ Len(d) \in Nat
    BY <1>2, <1>5, ConcatProperties, LenProperties DEF tab
  <2>3. s \in Seq(Wire) /\ Len(s) \in Nat /\ Len(s) # 0
    BY <2>1, <2>2 DEF s
  <2>4. output \o s \in Seq(Wire) /\ Len(output \o s) = Len(output) + Len(s) /\ Len(output) \in Nat
    BY <2>3, ConcatProperties, LenProperties
  <2>5. Len(output \o s) # 0
    BY <2>3, <2>4
  <2>6. output \o s # <<>>
    BY <2>4, <2>5, EmptySeq
  <2> QED
    BY <2>4, <2>6 DEF s
<1>9. a \in Seq(Wire) /\ a # <<>>
  BY <1>2, <1>3, <1>6, <1>7, <1>8
<1> QED
  BY <1>2, <1>6, <1>7, <1>9 DEF w, d, a, tab

\* What is appended is found in the sequence.
LEMMA RangeAppend ==
  ASSUME NEW S, NEW es \in Seq(S), NEW e \in S
  PROVE  Append(es, e) \in Seq(S) /\ Range(Append(es, e)) = Range(es) \cup {e}
<1> DEFINE fs == Append(es, e)
           n == Len(es)
<1>1. n \in Nat /\ DOMAIN es = 1..n
  BY LenProperties
<1>2. /\ fs \in Seq(S) /\ Len(fs) = n + 1
      /\ \A i \in 1..(n + 1) : fs[i] = IF i <= n THEN es[i] ELSE e
  OBVIOUS
<1>3. DOMAIN fs = 1..(n + 1)
  <2> HIDE DEF fs, n
  <2> QED
    BY <1>2
<1> HIDE DEF fs, n
<1>4. Range(fs) \subseteq Range(es) \cup {e}
  <2> SUFFICES ASSUME NEW i \in 1..(n + 1) PROVE fs[i] \in Range(es) \cup {e}
    BY <1>3 DEF Range
  <2>1. i <= n => i \in 1..n
    BY <1>1
  <2> QED
    BY <1>1, <1>2, <2>1 DEF Range
<1>5. Range(es) \subseteq Range(fs)
  <2> SUFFICES ASSUME NEW i \in 1..n PROVE es[i] \in Range(fs)
    BY <1>1 DEF Range
  <2>1. i \in 1..(n + 1) /\ i <= n
    BY <1>1
  <2> QED
    BY <1>2, <1>3, <2>1 DEF Range
<1>6. e \in Range(fs)
  <2>1. n + 1 \in 1..(n + 1) /\ ~(n + 1 <= n)
    BY <1>1
  <2> QED
    BY <1>2, <1>3, <2>1 DEF Range
<1> QED
  BY <1>2, <1>4, <1>5, <1>6 DEF fs

\* The characters sent for each set of names, one name taken after the other.
Adds(g, pick, props) ==
  /\ g \in [SUBSET SentNames(props) -> Seq(Wire)]
  /\ \A T \in SUBSET SentNames(props) :
       /\ T # {} => pick[T] \in T
       /\ g[T] = IF T = {} THEN <<>> ELSE AddTo(props, pick[T], g[T \ {pick[T]}])

\* The fold over the names does that, and the packet is where it ends.
LEMMA PacketFolds ==
  ASSUME NEW props, Packable(props)
  PROVE  \E g, pick : Adds(g, pick, props) /\ protocol_properties(props) = g[SentNames(props)]
<1> DEFINE S == SentNames(props)
           D == Seq(Wire)
           pick == [T \in SUBSET S |-> CHOOSE x \in T : TRUE]
           step == [p \in S \X D |-> AddTo(props, p[1], p[2])]
<1>1. IsFiniteSet(S) /\ S \subseteq DOMAIN props
  <2>1. S \subseteq DOMAIN props
    BY DEF SentNames
  <2> QED
    BY <2>1, FS_Subset DEF Packable
<1>2. \A x \in S : \A y \in D : AddTo(props, x, y) \in D
  BY <1>1, AddedType
<1>3. step \in [S \X D -> D] /\ \A x \in S : \A y \in D : step[x, y] = AddTo(props, x, y)
  <2> HIDE DEF S, D
  <2> QED
    BY <1>2
<1>4. \A T \in SUBSET S : /\ pick[T] = CHOOSE x \in T : TRUE
                          /\ T # {} => pick[T] \in T
  OBVIOUS
<1>5. <<>> \in D
  OBVIOUS
<1> HIDE DEF pick, step
<1>6. PICK g \in [SUBSET S -> D] : \A T \in SUBSET S :
             g[T] = IF T = {} THEN <<>> ELSE step[pick[T], g[T \ {pick[T]}]]
  <2> HIDE DEF S, D
  <2> DEFINE base == <<>>
  <2>1. base \in D
    BY <1>5
  <2> HIDE DEF base
  <2>2. Recursion(S, D, base, step, pick)
    BY <1>1, <1>3, <1>4, <2>1 DEF Recursion
  <2>3. PICK g : Solves(g, S, D, base, step, pick)
    BY <2>2, SetRecursion
  <2> QED
    BY <2>3 DEF base, Solves
<1>7. ASSUME NEW T \in SUBSET S
      PROVE  g[T] = IF T = {} THEN <<>> ELSE AddTo(props, pick[T], g[T \ {pick[T]}])
  <2>1. CASE T = {}
    BY <1>6, <2>1
  <2>2. CASE T # {}
    <3>1. pick[T] \in S /\ T \ {pick[T]} \in SUBSET S
      BY <1>4, <2>2
    <3>2. g[T \ {pick[T]}] \in D
      BY <1>6, <3>1
    <3> HIDE DEF S, D
    <3> QED
      BY <1>3, <1>6, <2>2, <3>1, <3>2
  <2> QED
    BY <2>1, <2>2
<1> DEFINE iter[s \in SUBSET S] ==
             IF s = {} THEN <<>>
             ELSE AddTo(props, CHOOSE x \in s : TRUE, iter[s \ {CHOOSE x \in s : TRUE}])
           Body(s) ==
             IF s = {} THEN <<>>
             ELSE AddTo(props, CHOOSE x \in s : TRUE, g[s \ {CHOOSE x \in s : TRUE}])
           k == [s \in SUBSET S |-> Body(s)]
<1>8. g = k
  <2>1. \A T \in SUBSET S : g[T] = Body(T)
    BY <1>4, <1>7
  <2> HIDE DEF Body
  <2>2. g = [T \in SUBSET S |-> g[T]]
    BY <1>6
  <2> QED
    BY <2>1, <2>2
<1>9. iter = [s \in SUBSET S |->
                IF s = {} THEN <<>>
                ELSE AddTo(props, CHOOSE x \in s : TRUE, iter[s \ {CHOOSE x \in s : TRUE}])]
  BY <1>8, Zenon
<1>10. protocol_properties(props) = iter[S]
  BY Zenon DEF protocol_properties, FoldSet, MapThenFoldSet, AddTo, SentNames
<1> HIDE DEF iter, k
<1>11. ASSUME NEW T \in SUBSET S
       PROVE  iter[T] = IF T = {} THEN <<>> ELSE AddTo(props, pick[T], iter[T \ {pick[T]}])
  BY <1>4, <1>9
<1>12. iter[S] = g[S]
  <2> DEFINE A == {n \in Nat : \A T \in SUBSET S : Cardinality(T) <= n => iter[T] = g[T]}
  <2>1. \A T \in SUBSET S : IsFiniteSet(T) /\ Cardinality(T) \in Nat
    BY <1>1, FS_Subset, FS_CardinalityType
  <2> HIDE DEF S, D
  <2>2. ASSUME NEW T \in SUBSET S, T # {}
        PROVE  /\ T \ {pick[T]} \in SUBSET S
               /\ Cardinality(T \ {pick[T]}) = Cardinality(T) - 1
    <3>1. pick[T] \in T
      BY <1>4, <2>2
    <3> QED
      BY <2>1, <3>1, FS_RemoveElement
  <2>3. 0 \in A
    <3>1. ASSUME NEW T \in SUBSET S, Cardinality(T) <= 0 PROVE T = {}
      <4>1. Cardinality(T) = 0
        BY <2>1, <3>1
      <4> QED
        BY <2>1, <4>1, FS_EmptySet
    <3>2. ASSUME NEW T \in SUBSET S, T = {} PROVE iter[T] = g[T]
      BY <1>7, <1>11, <3>2
    <3> QED
      BY <3>1, <3>2
  <2>4. ASSUME NEW n \in A PROVE n + 1 \in A
    <3>1. ASSUME NEW T \in SUBSET S, Cardinality(T) <= n + 1
          PROVE  iter[T] = g[T]
      <4>1. CASE T = {}
        BY <1>7, <1>11, <4>1
      <4>2. CASE T # {}
        <5>1. T \ {pick[T]} \in SUBSET S /\ Cardinality(T \ {pick[T]}) <= n
          <6>1. Cardinality(T \ {pick[T]}) = Cardinality(T) - 1 /\ T \ {pick[T]} \in SUBSET S
            BY <2>2, <4>2
          <6>2. Cardinality(T) \in Nat
            BY <2>1
          <6> QED
            BY <3>1, <6>1, <6>2
        <5>2. iter[T \ {pick[T]}] = g[T \ {pick[T]}]
          BY <5>1
        <5> QED
          BY <1>7, <1>11, <4>2, <5>2
      <4> QED
        BY <4>1, <4>2
    <3> QED
      BY <3>1
  <2>5. A = Nat
    <3>1. A \in SUBSET Nat
      OBVIOUS
    <3> HIDE DEF A
    <3> QED
      BY <2>3, <2>4, <3>1, Induction
  <2>6. Cardinality(S) \in A /\ Cardinality(S) <= Cardinality(S) /\ S \in SUBSET S
    <3>1. Cardinality(S) \in Nat /\ S \in SUBSET S
      BY <2>1
    <3> HIDE DEF A
    <3> QED
      BY <2>5, <3>1
  <2> QED
    BY <2>6
<1>13. \A T \in SUBSET S : /\ T # {} => pick[T] \in T
                           /\ g[T] = IF T = {} THEN <<>> ELSE AddTo(props, pick[T], g[T \ {pick[T]}])
  BY <1>4, <1>7
<1>14. Adds(g, pick, props)
  BY <1>6, <1>13 DEF Adds
<1> QED
  BY <1>10, <1>12, <1>14

\* The characters sent for any of the names are read as their entries, the last
\* of which has not ended.
LEMMA PacketIsRead ==
  ASSUME NEW props, Packable(props), NEW g, NEW pick, Adds(g, pick, props)
  PROVE  \A T \in SUBSET SentNames(props) : T # {} =>
           \E es \in Seq(Seq(Wire)), e \in Seq(Wire) :
             /\ Reaches(Scanned(<<>>, <<>>, FALSE), g[T], Scanned(es, e, FALSE))
             /\ Range(es) \cup {e} = {Written(props, n) : n \in T}
<1> USE DEF Adds
<1> DEFINE S == SentNames(props)
           W(T) == {Written(props, n) : n \in T}
           start == Scanned(<<>>, <<>>, FALSE)
           Claim(T) == \E es \in Seq(Seq(Wire)), e \in Seq(Wire) :
                         /\ Reaches(start, g[T], Scanned(es, e, FALSE))
                         /\ Range(es) \cup {e} = W(T)
           A == {n \in Nat : \A T \in SUBSET S :
                   T # {} => (Cardinality(T) <= n => Claim(T))}
<1>1. IsFiniteSet(S) /\ S \subseteq DOMAIN props
  <2>1. S \subseteq DOMAIN props
    BY DEF SentNames
  <2> QED
    BY <2>1, FS_Subset DEF Packable
<1>2. \A T \in SUBSET S : IsFiniteSet(T) /\ Cardinality(T) \in Nat
  BY <1>1, FS_Subset, FS_CardinalityType
<1>3. \A T \in SUBSET S : g[T] \in Seq(Wire)
  OBVIOUS
<1>4. ASSUME NEW T \in SUBSET S, T # {}, T \ {pick[T]} # {} => Claim(T \ {pick[T]})
      PROVE  Claim(T)
  <2> DEFINE x == pick[T]
             R == T \ {x}
             w == Written(props, x)
  <2>1. x \in T /\ x \in DOMAIN props /\ R \in SUBSET S /\ g[T] = AddTo(props, x, g[R])
    <3>1. x \in T /\ g[T] = AddTo(props, x, g[R])
      BY <1>4
    <3> QED
      BY <1>1, <3>1
  <2>2. W(T) = W(R) \cup {w}
    BY <2>1
  <2>3. w \in Seq(Wire) /\ w # <<>> /\ w[1] # "TAB"
    BY <2>1, WrittenType
  <2>4. g[R] \in Seq(Wire)
    BY <1>3, <2>1
  <2> HIDE DEF x, R, w, W
  <2>5. CASE R = {}
    <3>1. g[R] = <<>>
      BY <2>1, <2>5
    <3>2. g[T] = Doubled(w)
      BY <2>1, <2>4, <3>1, AddedType DEF w
    <3>3. Reaches(start, g[T], Scanned(<<>>, w, FALSE))
      <4> DEFINE none == <<>>
      <4>1. none \in Seq(Wire)
        OBVIOUS
      <4>2. Reaches(Scanned(none, none, FALSE), Doubled(w), Scanned(none, none \o w, FALSE))
        <5> HIDE DEF none
        <5> QED
          BY <2>3, <4>1, TextIsRead
      <4>3. none \o w = w
        BY <2>3, ConcatEmptySeq
      <4> QED
        BY <3>2, <4>2, <4>3
    <3>4. Range(<<>>) \cup {w} = W(T)
      <4>1. W(R) = {} /\ Range(<<>>) = {}
        BY <2>5 DEF W, Range
      <4> QED
        BY <2>2, <4>1
    <3>5. <<>> \in Seq(Seq(Wire))
      OBVIOUS
    <3> HIDE DEF start
    <3> QED
      BY <2>3, <3>3, <3>4, <3>5
  <2>6. CASE R # {}
    <3>1. PICK es \in Seq(Seq(Wire)), e \in Seq(Wire) :
                 /\ Reaches(start, g[R], Scanned(es, e, FALSE))
                 /\ Range(es) \cup {e} = W(R)
      BY <1>4, <2>6 DEF R, x
    <3>2. g[R] # <<>>
      <4>1. pick[R] \in R /\ pick[R] \in DOMAIN props /\ R \ {pick[R]} \in SUBSET S
            /\ g[R] = AddTo(props, pick[R], g[R \ {pick[R]}])
        <5>1. pick[R] \in R /\ g[R] = AddTo(props, pick[R], g[R \ {pick[R]}])
          BY <2>1, <2>6
        <5> QED
          BY <1>1, <2>1, <5>1
      <4>2. g[R \ {pick[R]}] \in Seq(Wire)
        BY <1>3, <4>1
      <4> QED
        <5>1. \A o \in Seq(Wire) : AddTo(props, pick[R], o) # <<>>
          BY <4>1, AddedType
        <5> QED
          BY <4>1, <4>2, <5>1
    <3> DEFINE tail == <<"TAB">> \o Doubled(w)
               fs == Append(es, e)
    <3>3. g[T] = g[R] \o tail
      <4>1. \A o \in Seq(Wire) : o # <<>> =>
              AddTo(props, x, o) = o \o (<<"TAB">> \o Doubled(Written(props, x)))
        BY <2>1, AddedType
      <4>2. AddTo(props, x, g[R]) = g[R] \o tail
        BY <2>4, <3>2, <4>1, Zenon DEF w
      <4> QED
        BY <2>1, <4>2
    <3>4. Reaches(Scanned(es, e, FALSE), tail, Scanned(fs, w, FALSE))
      BY <2>3, NextEntry
    <3>5. tail \in Seq(Wire)
      <4>1. Doubled(w) \in Seq(Wire)
        BY <2>3, SentType
      <4>2. <<"TAB">> \in Seq(Wire)
        <5>1. "TAB" \in Wire
          BY DEF Wire
        <5> QED
          BY <5>1
      <4> QED
        BY <4>1, <4>2, ConcatProperties
    <3>6. fs \in Seq(Seq(Wire)) /\ Range(fs) = Range(es) \cup {e}
      BY RangeAppend
    <3>7. Range(fs) \cup {w} = W(T)
      BY <2>2, <3>1, <3>6
    <3> HIDE DEF start, tail, fs
    <3>8. Reaches(start, g[R] \o tail, Scanned(fs, w, FALSE))
      BY <2>4, <3>1, <3>4, <3>5, ReachesConcat
    <3> QED
      BY <2>3, <3>3, <3>6, <3>7, <3>8
  <2> QED
    BY <2>5, <2>6
<1> HIDE DEF Claim, S
<1>5. 0 \in A
  <2>1. ASSUME NEW T \in SUBSET S, Cardinality(T) <= 0 PROVE T = {}
    <3>1. Cardinality(T) = 0
      BY <1>2, <2>1
    <3> QED
      BY <1>2, <3>1, FS_EmptySet
  <2> QED
    BY <2>1
<1>6. ASSUME NEW n \in A PROVE n + 1 \in A
  <2>1. n \in Nat /\ n + 1 \in Nat
    OBVIOUS
  <2>2. ASSUME NEW T \in SUBSET S, T # {}, Cardinality(T) <= n + 1 PROVE Claim(T)
    <3> DEFINE R == T \ {pick[T]}
    <3>1. pick[T] \in T /\ R \in SUBSET S
      BY <2>2 DEF S
    <3>2. Cardinality(R) = Cardinality(T) - 1
      BY <1>2, <3>1, FS_RemoveElement
    <3>3. Cardinality(R) <= n
      <4> DEFINE a == Cardinality(R)
                 b == Cardinality(T)
      <4>1. a \in Nat /\ b \in Nat /\ a = b - 1 /\ b <= n + 1
        BY <1>2, <2>2, <3>1, <3>2
      <4> HIDE DEF a, b
      <4>2. a <= n
        BY <2>1, <4>1
      <4> QED
        BY <4>2 DEF a
    <3>4. R # {} => Claim(R)
      BY <3>1, <3>3
    <3> QED
      BY <1>4, <2>2, <3>4
  <2> QED
    BY <2>1, <2>2
<1>7. A = Nat
  <2>1. A \in SUBSET Nat
    OBVIOUS
  <2> HIDE DEF A
  <2> QED
    BY <1>5, <1>6, <2>1, Induction
<1>8. ASSUME NEW T \in SUBSET S, T # {} PROVE Claim(T)
  <2>1. Cardinality(T) \in A /\ Cardinality(T) <= Cardinality(T)
    <3>1. Cardinality(T) \in Nat
      BY <1>2
    <3> HIDE DEF A
    <3> QED
      BY <1>7, <3>1
  <2> QED
    BY <1>8, <2>1
<1> QED
  BY <1>8 DEF Claim, S

-----------------------------------------------------------------------------
(* The bridge reads the entries.                                           *)

States == [entries : Seq(Seq(Wire)), entry : Seq(Wire), tab : BOOLEAN]

\* A step of the bridge's loop.
LEMMA SplitType ==
  ASSUME NEW s \in States, NEW c \in Wire
  PROVE  SplitStep(s, c) \in States
<1>1. s.entries \in Seq(Seq(Wire)) /\ s.entry \in Seq(Wire) /\ s.tab \in BOOLEAN
  BY DEF States
<1>2. /\ Append(s.entries, s.entry) \in Seq(Seq(Wire))
      /\ Append(s.entry, c) \in Seq(Wire) /\ <<c>> \in Seq(Wire)
  BY <1>1
<1>3. CASE c = "TAB" /\ ~s.tab
  BY <1>3 DEF SplitStep, States
<1>4. CASE s.tab /\ c # "TAB"
  <2>1. SplitStep(s, c) = [entries |-> Append(s.entries, s.entry), entry |-> <<c>>, tab |-> FALSE]
    BY <1>4 DEF SplitStep
  <2> QED
    BY <1>2, <2>1 DEF States
<1>5. CASE ~(c = "TAB" /\ ~s.tab) /\ ~(s.tab /\ c # "TAB")
  <2>1. SplitStep(s, c) = [s EXCEPT !.entry = Append(@, c), !.tab = FALSE]
    BY <1>5 DEF SplitStep
  <2> QED
    BY <1>2, <2>1 DEF States
<1> QED
  BY <1>3, <1>4, <1>5

\* The loop ends where the text leads.
LEMMA LoopReaches ==
  ASSUME NEW w \in Seq(Wire), NEW t, Reaches(SplitStart, w, t)
  PROVE  FoldLeft(SplitStep, SplitStart, w) = t
<1> DEFINE n == Len(w)
           S == DOMAIN w
           pick == [T \in SUBSET S |-> Max(T)]
           step == [p \in S \X States |-> SplitStep(p[2], w[p[1]])]
<1>1. n \in Nat /\ S = 1..n /\ \A i \in 1..n : w[i] \in Wire
  BY LenProperties, ElementOfSeq
<1>2. /\ \A T \in SUBSET S : T # {} => Max(T) \in T
      /\ \A k \in 1..n : /\ 1..k \in SUBSET S /\ 1..k # {}
                         /\ Max(1..k) = k /\ (1..k) \ {k} = 1..(k - 1)
  <2> HIDE DEF n, S
  <2> QED
    BY <1>1, Greatest
<1>3. SplitStart \in States
  BY DEF SplitStart, States
<1>4. /\ step \in [S \X States -> States]
      /\ \A x \in S : \A y \in States : step[x, y] = SplitStep(y, w[x])
  <2>1. \A x \in S : \A y \in States : SplitStep(y, w[x]) \in States
    BY <1>1, SplitType
  <2> HIDE DEF S
  <2> QED
    BY <2>1
<1>5. \A T \in SUBSET S : pick[T] = Max(T)
  OBVIOUS
<1> HIDE DEF pick, step, S, n
<1>6. Recursion(S, States, SplitStart, step, pick)
  <2>1. IsFiniteSet(S)
    BY <1>1, FS_Interval
  <2>2. \A T \in SUBSET S : T # {} => pick[T] \in T
    BY <1>2, <1>5
  <2> QED
    BY <1>3, <1>4, <2>1, <2>2 DEF Recursion
<1>7. PICK g : Solves(g, S, States, SplitStart, step, pick)
  BY <1>6, SetRecursion
<1>8. ASSUME NEW T \in SUBSET S
      PROVE  g[T] = IF T = {} THEN SplitStart ELSE SplitStep(g[T \ {Max(T)}], w[Max(T)])
  <2>1. CASE T = {}
    BY <1>7, <2>1 DEF Solves
  <2>2. CASE T # {}
    <3>1. Max(T) \in S /\ T \ {Max(T)} \in SUBSET S
      BY <1>2, <2>2
    <3>2. g[T \ {Max(T)}] \in States
      BY <1>7, <3>1 DEF Solves
    <3>3. g[T] = step[Max(T), g[T \ {Max(T)}]]
      BY <1>5, <1>7, <2>2 DEF Solves
    <3> QED
      BY <1>4, <2>2, <3>1, <3>2, <3>3
  <2> QED
    BY <2>1, <2>2
<1> DEFINE iter[s \in SUBSET DOMAIN w] ==
             IF s = {} THEN SplitStart ELSE SplitStep(iter[s \ {Max(s)}], w[Max(s)])
           Body(s) == IF s = {} THEN SplitStart ELSE SplitStep(g[s \ {Max(s)}], w[Max(s)])
           k == [s \in SUBSET DOMAIN w |-> Body(s)]
<1>9. g = k
  <2>1. \A T \in SUBSET S : g[T] = Body(T)
    BY <1>8
  <2> HIDE DEF Body
  <2>2. g = [T \in SUBSET S |-> g[T]]
    BY <1>7 DEF Solves
  <2> QED
    BY <2>1, <2>2 DEF S
<1>10. iter = [s \in SUBSET DOMAIN w |->
                 IF s = {} THEN SplitStart ELSE SplitStep(iter[s \ {Max(s)}], w[Max(s)])]
  BY <1>9, Zenon
<1>11. FoldLeft(SplitStep, SplitStart, w) = iter[DOMAIN w]
  BY Zenon DEF FoldLeft, MapThenFoldSet
<1> HIDE DEF iter, k
<1> DEFINE f == [i \in 0..n |-> iter[1..i]]
<1>12. f[0] = SplitStart /\ f[n] = iter[DOMAIN w]
  <2>1. f[0] = iter[1..0] /\ f[n] = iter[1..n] /\ 1..0 = {}
    BY <1>1
  <2> HIDE DEF f
  <2>2. iter[{}] = SplitStart
    BY <1>10
  <2> QED
    BY <1>1, <2>1, <2>2 DEF S
<1>13. ASSUME NEW i \in 1..n PROVE f[i] = SplitStep(f[i - 1], w[i])
  <2>1. f[i] = iter[1..i] /\ f[i - 1] = iter[1..(i - 1)]
    BY <1>1
  <2> HIDE DEF f
  <2>2. iter[1..i] = SplitStep(iter[(1..i) \ {Max(1..i)}], w[Max(1..i)])
    BY <1>2, <1>10 DEF S
  <2> QED
    BY <1>2, <2>1, <2>2
<1> HIDE DEF f
<1>14. Reaches(SplitStart, w, f[n])
  BY <1>12, <1>13 DEF Reaches, n
<1>15. f[n] = t
  BY <1>14, ReachesOnce
<1> QED
  BY <1>11, <1>12, <1>15

\* The name of an entry ends at its first `=`, the rest is the value.
LEMMA EntryParts ==
  ASSUME NEW props, Packable(props), NEW n \in DOMAIN props
  PROVE  LET e == Written(props, n)
             cut == Min({i \in DOMAIN e : e[i] = "="})
         IN /\ "=" \in Range(e)
            /\ SubSeq(e, 1, cut - 1) = n
            /\ SubSeq(e, cut + 1, Len(e)) = props[n]
<1> DEFINE e == Written(props, n)
           v == props[n]
           k == Len(n)
           m == Len(v)
           A == {i \in DOMAIN e : e[i] = "="}
           cut == Min(A)
<1>1. /\ n \in Seq(Wire) /\ v \in Seq(Wire) /\ e \in Seq(Wire)
      /\ Len(e) = k + 1 + m /\ \A i \in 1..k : e[i] = n[i]
      /\ e[k + 1] = "=" /\ \A i \in 1..m : e[k + 1 + i] = v[i]
  BY WrittenType
<1>2. \A i \in 1..k : n[i] # "="
  <2>1. "=" \notin Range(n)
    BY DEF Packable, NameOK
  <2>2. DOMAIN n = 1..k
    BY <1>1, LenProperties
  <2> QED
    BY <2>1, <2>2 DEF Range
<1>3. k \in Nat /\ m \in Nat
  BY <1>1, LenProperties
<1> HIDE DEF e, v
<1>4. DOMAIN e = 1..(k + 1 + m)
  BY <1>1
<1> HIDE DEF k, m
<1>5. k + 1 \in A /\ A \in SUBSET Nat /\ \A i \in A : i >= k + 1
  <2>1. k + 1 \in 1..(k + 1 + m)
    BY <1>3
  <2>2. ASSUME NEW i \in A PROVE i \in Nat /\ i >= k + 1
    <3>1. i \in 1..(k + 1 + m) /\ e[i] = "="
      BY <1>4
    <3>2. ~(i \in 1..k)
      BY <1>1, <1>2, <3>1
    <3> QED
      BY <1>3, <3>1, <3>2
  <2> QED
    BY <1>1, <1>4, <2>1, <2>2
<1> HIDE DEF A
<1>6. cut = k + 1
  <2>1. cut \in A /\ \A y \in A : cut <= y
    BY <1>5, LeastPosition
  <2>2. cut \in Nat /\ cut >= k + 1 /\ cut <= k + 1
    BY <1>5, <2>1
  <2> HIDE DEF cut
  <2> QED
    BY <1>3, <2>2
<1> HIDE DEF cut
<1>7. "=" \in Range(e)
  <2>1. k + 1 \in DOMAIN e
    BY <1>5 DEF A
  <2> QED
    BY <1>1, <2>1 DEF Range
<1>8. \A i \in 1..(k + 1 + m) : e[i] \in Wire
  BY <1>1, ElementOfSeq
<1>9. SubSeq(e, 1, k) = n
  <2> DEFINE s == SubSeq(e, 1, k)
  <2>1. s \in Seq(Wire) /\ Len(s) = k /\ \A i \in 1..k : s[i] = e[i]
    <3>1. k \in 0..Len(e)
      BY <1>1, <1>3
    <3> QED
      BY <1>1, <3>1, CutAt
  <2> HIDE DEF s
  <2>2. Len(n) = k
    BY DEF k
  <2>3. s = n
    BY <1>1, <2>1, <2>2, SeqEqual
  <2> QED
    BY <2>3 DEF s
<1>10. SubSeq(e, k + 1 + 1, k + 1 + m) = v
  <2> DEFINE a == k + 1 + 1
             b == k + 1 + m
             s == SubSeq(e, a, b)
  <2>1. a \in Int /\ b \in Int /\ b - a + 1 = m /\ \A i \in a..b : i \in 1..(k + 1 + m)
    BY <1>3
  <2> HIDE DEF a, b
  <2>2. \A i \in a..b : e[i] \in Wire
    BY <1>8, <2>1
  <2>3. /\ s \in Seq(Wire) /\ Len(s) = IF a <= b THEN b - a + 1 ELSE 0
        /\ \A i \in 1..(b - a + 1) : s[i] = e[a + i - 1]
    BY <2>1, <2>2, SubSeqProperties
  <2> HIDE DEF s
  <2>4. Len(s) = m
    <3>1. a <= b \/ m = 0
      BY <1>3 DEF a, b
    <3>2. ~(a <= b) => m = 0
      BY <3>1
    <3> QED
      BY <2>1, <2>3, <3>2
  <2>5. ASSUME NEW i \in 1..m PROVE s[i] = v[i]
    <3>1. a + i - 1 = k + 1 + i
      BY <1>3 DEF a
    <3> QED
      BY <1>1, <2>1, <2>3, <3>1
  <2>6. Len(v) = m
    BY DEF m
  <2>7. s = v
    BY <1>1, <2>3, <2>4, <2>5, <2>6, SeqEqual
  <2> QED
    BY <2>7 DEF s, a, b
<1>11. SubSeq(e, 1, cut - 1) = n /\ SubSeq(e, cut + 1, Len(e)) = v
  <2>1. cut - 1 = k /\ cut + 1 = k + 1 + 1
    BY <1>3, <1>6
  <2> QED
    BY <1>1, <1>9, <1>10, <2>1
<1> QED
  BY <1>7, <1>11 DEF e, v, cut, A

\* The bridge finds in the packet the entries that were put into it.
LEMMA EntriesAreKept ==
  ASSUME NEW props, Packable(props)
  PROVE  {e \in Range(SplitEntries(protocol_properties(props))) : "=" \in Range(e)}
           = {Written(props, n) : n \in SentNames(props)}
<1> DEFINE S == SentNames(props)
           packet == protocol_properties(props)
           E == Range(SplitEntries(packet))
           W == {Written(props, n) : n \in S}
           start == Scanned(<<>>, <<>>, FALSE)
<1>1. PICK g, pick : Adds(g, pick, props) /\ packet = g[S]
  BY PacketFolds
<1>2. packet \in Seq(Wire)
  <2>1. S \in SUBSET S /\ g \in [SUBSET S -> Seq(Wire)]
    BY <1>1 DEF Adds
  <2> HIDE DEF packet, S
  <2> QED
    BY <1>1, <2>1
<1>3. \A n \in S : n \in DOMAIN props
  BY DEF SentNames
<1>4. \A e \in W : "=" \in Range(e)
  <2> SUFFICES ASSUME NEW n \in S PROVE "=" \in Range(Written(props, n))
    OBVIOUS
  <2>1. n \in DOMAIN props
    BY <1>3
  <2> QED
    BY <2>1, EntryParts
<1>5. start = SplitStart
  BY DEF Scanned, SplitStart
<1>6. ASSUME NEW es \in Seq(Seq(Wire)), NEW e \in Seq(Wire),
             Reaches(start, packet, Scanned(es, e, FALSE))
      PROVE  E = Range(es) \cup {e}
  <2>1. FoldLeft(SplitStep, SplitStart, packet) = Scanned(es, e, FALSE)
    <3> HIDE DEF packet, start
    <3> QED
      BY <1>2, <1>5, <1>6, LoopReaches
  <2>2. SplitEntries(packet) = Append(es, e)
    <3> HIDE DEF packet
    <3> QED
      BY <2>1 DEF SplitEntries, Scanned
  <2>3. Range(Append(es, e)) = Range(es) \cup {e}
    BY RangeAppend
  <2> QED
    BY <2>2, <2>3
<1>7. CASE S = {}
  <2> DEFINE none == <<>>
  <2>1. packet = <<>>
    <3>1. \A T \in SUBSET S : T = {} => g[T] = <<>>
      BY <1>1 DEF Adds
    <3> HIDE DEF packet, S
    <3> QED
      BY <1>1, <1>7, <3>1
  <2>2. none \in Seq(Seq(Wire)) /\ none \in Seq(Wire) /\ Range(none) = {}
    BY DEF Range
  <2>3. Reaches(start, packet, Scanned(none, none, FALSE))
    BY <2>1, ReachesEmpty
  <2> HIDE DEF none, packet, start
  <2>4. E = {none}
    BY <1>6, <2>2, <2>3
  <2>5. W = {}
    BY <1>7
  <2>6. "=" \notin Range(none)
    BY <2>2
  <2> HIDE DEF E, W
  <2>7. {e \in E : "=" \in Range(e)} = W
    BY <2>4, <2>5, <2>6
  <2> QED
    BY <2>7 DEF E, W, packet
<1>8. CASE S # {}
  <2>1. PICK es \in Seq(Seq(Wire)), pending \in Seq(Wire) :
               /\ Reaches(start, g[S], Scanned(es, pending, FALSE))
               /\ Range(es) \cup {pending} = W
    <3>1. \A T \in SUBSET S : T # {} =>
            \E es \in Seq(Seq(Wire)), e \in Seq(Wire) :
              /\ Reaches(start, g[T], Scanned(es, e, FALSE))
              /\ Range(es) \cup {e} = {Written(props, n) : n \in T}
      BY <1>1, PacketIsRead
    <3> HIDE DEF S, start
    <3> QED
      BY <1>8, <3>1
  <2> HIDE DEF W, E, packet, start
  <2>2. E = W
    BY <1>1, <1>6, <2>1
  <2>3. {e \in E : "=" \in Range(e)} = W
    BY <1>4, <2>2
  <2> QED
    BY <2>3 DEF E, W, packet
<1> QED
  BY <1>7, <1>8

\* What the bridge reads is what was to be sent.
LEMMA PacketDecodes ==
  ASSUME NEW props, Packable(props)
  PROVE  loadProperties(protocol_properties(props)) = [n \in SentNames(props) |-> props[n]]
<1> DEFINE packet == protocol_properties(props)
           S == SentNames(props)
           W == {Written(props, n) : n \in S}
           cut(e) == Min({i \in DOMAIN e : e[i] = "="})
           named == {e \in Range(SplitEntries(packet)) : "=" \in Range(e)}
           name(e) == SubSeq(e, 1, cut(e) - 1)
           value(e) == SubSeq(e, cut(e) + 1, Len(e))
           chosen(n) == CHOOSE e \in named : name(e) = n
<1>1. named = W
  BY EntriesAreKept
<1>2. ASSUME NEW n \in S
      PROVE  name(Written(props, n)) = n /\ value(Written(props, n)) = props[n]
  <2>1. n \in DOMAIN props
    BY DEF SentNames
  <2> QED
    BY <2>1, EntryParts
<1>3. loadProperties(packet) = [n \in {name(e) : e \in named} |-> value(chosen(n))]
  BY Zenon DEF loadProperties
<1> HIDE DEF name, value, named, S, packet
<1>4. {name(e) : e \in named} = S
  BY <1>1, <1>2
<1>5. ASSUME NEW n \in S PROVE value(chosen(n)) = props[n]
  <2>1. \E e \in named : name(e) = n
    BY <1>1, <1>2
  <2>2. chosen(n) \in named /\ name(chosen(n)) = n
    BY <2>1
  <2> HIDE DEF chosen
  <2>3. PICK m \in S : chosen(n) = Written(props, m)
    BY <1>1, <2>2
  <2>4. m = n
    BY <1>2, <2>2, <2>3
  <2> QED
    BY <1>2, <2>3, <2>4
<1> HIDE DEF chosen
<1>6. [n \in {name(e) : e \in named} |-> value(chosen(n))] = [n \in S |-> props[n]]
  BY <1>4, <1>5
<1> QED
  BY <1>3, <1>6 DEF packet, S

-----------------------------------------------------------------------------
(* The loader keeps names and values as the packet needs them.             *)

\* The values of variables are texts, which references are replaced by.
Naming ==
  /\ Packable(properties)
  /\ \A v \in DOMAIN environment : environment[v] \in Seq(Char)

\* An expanded text is a text.
LEMMA ExpandType ==
  ASSUME NEW value \in Seq(Char), NEW env, \A v \in DOMAIN env : env[v] \in Seq(Char)
  PROVE  expand_environment(value, env) \in Seq(Char)
<1> DEFINE expansion(c) ==
             IF c \in DOMAIN References
                  /\ normalize_environment_name(References[c]) \in DOMAIN env
             THEN env[normalize_environment_name(References[c])]
             ELSE <<c>>
           q == [i \in DOMAIN value |-> expansion(value[i])]
<1>1. \A c \in Char : expansion(c) \in Seq(Char)
  <2> SUFFICES ASSUME NEW c \in Char PROVE expansion(c) \in Seq(Char)
    OBVIOUS
  <2>1. <<c>> \in Seq(Char)
    OBVIOUS
  <2> QED
    BY <2>1
<1>2. Len(value) \in Nat /\ DOMAIN value = 1..Len(value) /\ \A i \in 1..Len(value) : value[i] \in Char
  BY LenProperties, ElementOfSeq
<1>3. expand_environment(value, env) = FlattenSeq(q)
  BY DEF expand_environment
<1> HIDE DEF expansion
<1>4. q \in [1..Len(value) -> Seq(Char)]
  BY <1>1, <1>2
<1> HIDE DEF q
<1>5. q \in Seq(Seq(Char))
  BY <1>2, <1>4, IsASeq
<1> QED
  BY <1>3, <1>5, FlattenType

\* A property with a name and a value of that kind keeps them so.
LEMMA NamingPut ==
  ASSUME Naming, NEW name, NEW value, NameOK(name), value \in Seq(Char),
         properties' = Put(properties, name, value),
         environment' = apply_environment_property(environment, name, value)
  PROVE  Naming'
<1>1. /\ DOMAIN properties' = DOMAIN properties \cup {name}
      /\ properties'[name] = value
      /\ \A k \in DOMAIN properties : k # name => properties'[k] = properties[k]
  BY Inserted
<1>2. IsFiniteSet(DOMAIN properties')
  BY <1>1, FS_AddElement DEF Naming, Packable
<1>3. \A n \in DOMAIN properties' : NameOK(n) /\ properties'[n] \in Seq(Char)
  BY <1>1 DEF Naming, Packable
<1>4. Packable(properties')
  BY <1>2, <1>3 DEF Packable
<1>5. \A v \in DOMAIN environment' : environment'[v] \in Seq(Char)
  <2>1. \/ environment' = environment
        \/ \E v : environment' = Put(environment, v, value)
    BY DEF apply_environment_property
  <2>2. CASE environment' = environment
    BY <2>2 DEF Naming
  <2>3. ASSUME NEW v, environment' = Put(environment, v, value)
        PROVE  \A u \in DOMAIN environment' : environment'[u] \in Seq(Char)
    BY <2>3 DEF Naming, Put
  <2> QED
    BY <2>1, <2>2, <2>3
<1> QED
  BY <1>4, <1>5 DEF Naming

\* Loading keeps names and values so.
LEMMA NamingKept ==
  ASSUME Types, Naming, LoadStep
  PROVE  Naming'
<1>1. CASE Property
  <2> DEFINE l == CurrentLine
             value == expand_environment(Plain(l.value), environment)
  <2>1. /\ l.kind = "property"
        /\ properties' = Put(properties, l.name, value)
        /\ environment' = apply_environment_property(environment, l.name, value)
    BY <1>1 DEF Property, Plain
  <2>2. LineOK(l)
    <3>1. status = "files" /\ AtLine
      BY <1>1 DEF Property, AtLine
    <3>2. stack \in Seq(Open) /\ stack # <<>> /\ system \in Systems
      BY <3>1 DEF Types, Open
    <3>3. Top \in Open
      BY <3>2, TopOpen
    <3>4. Top.file \in DOMAIN system.files /\ Top.next \in Nat \ {0}
      BY <3>3 DEF Open
    <3>5. SystemOK(system)
      BY <3>2, SystemAssumption
    <3> DEFINE f == system.files[Top.file]
    <3>6. f \in Seq(Range(f)) /\ \A i \in DOMAIN f : LineOK(f[i])
      BY <3>4, <3>5 DEF SystemOK
    <3>7. Top.next <= Len(f) /\ l = f[Top.next]
      BY <3>1 DEF AtLine, CurrentLine
    <3> HIDE DEF f, l
    <3>8. DOMAIN f = 1..Len(f) /\ Len(f) \in Nat
      BY <3>6, LenProperties
    <3>9. Top.next \in DOMAIN f
      BY <3>4, <3>7, <3>8
    <3> QED
      BY <3>6, <3>7, <3>9
  <2>3. NameOK(l.name) /\ l.value \in Seq(Char)
    BY <2>1, <2>2 DEF LineOK
  <2> HIDE DEF l
  <2>4. value \in Seq(Char)
    BY <2>3, PlainType, ExpandType DEF Naming
  <2> HIDE DEF value
  <2> QED
    BY <2>1, <2>3, <2>4, NamingPut
<1>2. CASE ApplyOverride
  <2> DEFINE o == overrides[applied + 1]
             value == expand_environment(o.value, environment)
  <2>1. /\ applied < Len(overrides)
        /\ properties' = Put(properties, o.name, value)
        /\ environment' = apply_environment_property(environment, o.name, value)
    BY <1>2 DEF ApplyOverride
  <2>2. Len(overrides) \in Nat /\ DOMAIN overrides = 1..Len(overrides)
        /\ \A i \in 1..Len(overrides) : overrides[i].value \in Seq(Char)
    <3>1. overrides \in Seq([name : Seq(Char), value : Seq(Char)])
      BY OverridesAssumption DEF Types
    <3> QED
      BY <3>1, OverrideType, LenProperties
  <2>3. applied + 1 \in 1..Len(overrides)
    <3>1. applied \in 0..Len(overrides)
      BY DEF Types
    <3> QED
      BY <2>1, <2>2, <3>1
  <2>4. NameOK(o.name) /\ o.value \in Seq(Char)
    <3>1. \A i \in DOMAIN overrides : NameOK(overrides[i].name)
      BY OverridesAssumption DEF Types
    <3> QED
      BY <2>2, <2>3, <3>1
  <2> HIDE DEF o
  <2>5. value \in Seq(Char)
    BY <2>4, ExpandType DEF Naming
  <2> HIDE DEF value
  <2> QED
    BY <2>1, <2>4, <2>5, NamingPut
<1>3. CASE UNCHANGED <<properties, environment>>
  BY <1>3 DEF Naming
<1>4. ~Property /\ ~ApplyOverride => UNCHANGED <<properties, environment>>
  BY DEF LoadStep, Skip, NoName, Include, EndOfFile, Loaded, Fail
<1> QED
  BY <1>1, <1>2, <1>3, <1>4

\* They are so at the start: no property, and variables from outside and from
\* the command line.
LEMMA InitNaming ==
  ASSUME Init
  PROVE  Naming
<1>1. system \in Systems /\ overrides \in OverrideSets /\ properties = <<>> /\ new(system, overrides)
  BY DEF Init
<1>2. Packable(properties)
  <2>1. DOMAIN properties = {}
    BY <1>1
  <2> QED
    BY <2>1, FS_EmptySet DEF Packable
<1>3. overrides \in Seq([name : Seq(Char), value : Seq(Char)])
  BY <1>1, OverridesAssumption
<1> DEFINE n == Len(overrides)
           At(v) == {i \in SetOverrides(overrides) : VariableOf(overrides[i].name) = v}
           names == {VariableOf(overrides[i].name) : i \in SetOverrides(overrides)}
<1>4. n \in Nat /\ DOMAIN overrides = 1..n /\ \A i \in 1..n : overrides[i].value \in Seq(Char)
  <2>1. n \in Nat /\ DOMAIN overrides = 1..n
    BY <1>3, LenProperties
  <2>2. \A i \in 1..n : overrides[i] \in [name : Seq(Char), value : Seq(Char)]
    BY <1>3, ElementOfSeq
  <2> QED
    BY <2>1, <2>2
<1>5. \A v \in DOMAIN environment :
        /\ v \in names => environment[v] = overrides[Max(At(v))].value
        /\ v \notin names => environment[v] = system.environment[v] /\ v \in DOMAIN system.environment
  BY <1>1 DEF new
<1>6. ASSUME NEW v \in DOMAIN environment PROVE environment[v] \in Seq(Char)
  <2>1. CASE v \in names
    <3>1. At(v) # {} /\ At(v) \subseteq 1..n
      BY <1>4, <2>1 DEF SetOverrides
    <3>2. At(v) \in SUBSET (0..n)
      BY <1>4, <3>1
    <3> DEFINE T == At(v)
    <3> HIDE DEF At, T, n
    <3>3. Max(T) \in T
      BY <1>4, <3>1, <3>2, GreatestPosition DEF T
    <3> QED
      BY <1>4, <1>5, <2>1, <3>1, <3>3 DEF T
  <2>2. CASE v \notin names
    <3>1. SystemOK(system)
      BY <1>1, SystemAssumption
    <3> QED
      BY <1>5, <2>2, <3>1 DEF SystemOK
  <2> QED
    BY <2>1, <2>2
<1> QED
  BY <1>2, <1>6 DEF Naming

\* The bridge reads from the PROPERTIES packet exactly the properties that may be
\* shown to the JVM, whatever their names and values hold: the doubled tabs and
\* the first `=` are enough to tell entries, names and values apart.
THEOREM PacketIsFaithful == CommandSpec => []PacketKeepsProperties
<1>1. CommandInit => Naming
  BY InitNaming DEF CommandInit
<1>2. LoadInv /\ Naming /\ [CommandNext]_commandVars => Naming'
  <2> SUFFICES ASSUME LoadInv, Naming, [CommandNext]_commandVars PROVE Naming'
    OBVIOUS
  <2>1. CASE LoadStep
    BY <2>1, NamingKept DEF LoadInv
  <2>2. ~LoadStep => UNCHANGED <<properties, environment>>
    BY DEF CommandNext, Build, Finished, commandVars, vars
  <2> QED
    BY <2>1, <2>2 DEF Naming
<1>3. Naming => PacketKeepsProperties
  BY PacketDecodes DEF Naming, PacketKeepsProperties, SentNames
<1> QED
  BY <1>1, <1>2, <1>3, LoadInvariant, PTL DEF CommandSpec
=============================================================================
