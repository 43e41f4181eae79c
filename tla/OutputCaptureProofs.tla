------------------------- MODULE OutputCaptureProofs -------------------------
(***************************************************************************)
(* Proofs about the output of one JVM invocation, for every script, buffer *)
(* size, batch limit and set of filters.  There are three invariants: one  *)
(* of the stages a line passes (reader, channel, batch, log), one of the   *)
(* place each byte has among the lines of its stream, and one of what the  *)
(* filters said of the lines that are logged.  The last needs that the     *)
(* backtracking matcher decides what a wildcard pattern covers, which is   *)
(* an induction over its states, done here by hand.                        *)
(***************************************************************************)
EXTENDS OutputCapture, TLAPS, SequenceTheorems, WellFoundedInduction, FiniteSetTheorems

\* Induction over the natural numbers, for a set of them.
LEMMA Induction ==
  ASSUME NEW A \in SUBSET Nat, 0 \in A, \A n \in A : n + 1 \in A
  PROVE  A = Nat
<1> SUFFICES ASSUME Nat \ A # {} PROVE FALSE
  OBVIOUS
<1> DEFINE R == {ss \in Nat \X Nat : ss[1] < ss[2]}
           B == Nat \ A
<1>1. IsWellFoundedOn(R, Nat)
  BY NatLessThanWellFounded, Zenon DEF OpToRel
<1>2. PICK x \in B : \A y \in B : ~(<<y, x>> \in R)
  <2> HIDE DEF R
  <2>1. B \subseteq Nat /\ B # {}
    OBVIOUS
  <2> HIDE DEF B
  <2> QED
    BY <1>1, <2>1, WFMin
<1>3. x \in Nat /\ x # 0 /\ x \notin A
  OBVIOUS
<1>4. x - 1 \in Nat /\ x - 1 < x /\ (x - 1) + 1 = x
  BY <1>3
<1>5. x - 1 \in A
  BY <1>2, <1>3, <1>4
<1> QED
  BY <1>3, <1>4, <1>5

\* The recursion of Pick, step by step.
Picks(f, s, P, n) ==
  /\ f[0] = <<>>
  /\ \A i \in 1..n : f[i] = IF i \in P THEN Append(f[i - 1], s[i]) ELSE f[i - 1]

LEMMA PickExists ==
  ASSUME NEW S, NEW T, NEW s \in Seq(S), NEW P, \A i \in 1..Len(s) : i \in P => s[i] \in T
  PROVE  \A n \in Nat : n <= Len(s) => \E f \in [0..n -> Seq(T)] : Picks(f, s, P, n)
<1> DEFINE A == {n \in Nat : n <= Len(s) => \E f \in [0..n -> Seq(T)] : Picks(f, s, P, n)}
<1>1. 0 \in A
  <2> DEFINE f == [i \in 0..0 |-> <<>>]
  <2>1. f \in [0..0 -> Seq(T)] /\ f[0] = <<>>
    BY EmptySeq
  <2>2. Picks(f, s, P, 0)
    BY <2>1 DEF Picks
  <2> QED
    BY <2>1, <2>2
<1>2. ASSUME NEW n \in A PROVE n + 1 \in A
  <2> SUFFICES ASSUME n + 1 <= Len(s)
               PROVE  \E f \in [0..(n + 1) -> Seq(T)] : Picks(f, s, P, n + 1)
    BY <1>2
  <2>0. n \in Nat /\ Len(s) \in Nat
    BY LenProperties
  <2>1. PICK f \in [0..n -> Seq(T)] : Picks(f, s, P, n)
    BY <2>0
  <2> DEFINE x == IF n + 1 \in P THEN Append(f[n], s[n + 1]) ELSE f[n]
             g == [i \in 0..(n + 1) |-> IF i = n + 1 THEN x ELSE f[i]]
  <2>2. n \in 0..n /\ n + 1 \in 1..Len(s)
    BY <2>0
  <2>3. x \in Seq(T)
    BY <2>1, <2>2, AppendProperties
  <2> HIDE DEF x
  <2>4. \A i \in 0..(n + 1) : i # n + 1 => i \in 0..n
    BY <2>0
  <2>5. g \in [0..(n + 1) -> Seq(T)]
    BY <2>3, <2>4
  <2>6. \A i \in 0..n : g[i] = f[i]
    BY <2>0
  <2>7. g[n + 1] = x
    BY <2>0
  <2>8. g[0] = <<>>
    BY <2>0, <2>1, <2>6 DEF Picks
  <2>9. ASSUME NEW i \in 1..(n + 1)
        PROVE  g[i] = IF i \in P THEN Append(g[i - 1], s[i]) ELSE g[i - 1]
    <3> HIDE DEF g
    <3>1. CASE i = n + 1
      <4>1. i - 1 = n /\ n \in 0..n
        BY <2>0, <3>1
      <4> QED
        BY <2>6, <2>7, <3>1, <4>1 DEF x
    <3>2. CASE i # n + 1
      <4>1. i \in 1..n /\ i \in 0..n /\ i - 1 \in 0..n
        BY <2>0, <3>2
      <4> QED
        BY <2>1, <2>6, <4>1 DEF Picks
    <3> QED
      BY <3>1, <3>2
  <2> HIDE DEF g
  <2>10. Picks(g, s, P, n + 1)
    BY <2>8, <2>9 DEF Picks
  <2> QED
    BY <2>5, <2>10
<1>3. A = Nat
  <2>1. A \in SUBSET Nat
    OBVIOUS
  <2> HIDE DEF A
  <2> QED
    BY <1>1, <1>2, <2>1, Induction
<1> QED
  BY <1>3

\* It has one solution.
LEMMA PicksUnique ==
  ASSUME NEW s, NEW P, NEW n \in Nat, NEW f, NEW g, Picks(f, s, P, n), Picks(g, s, P, n)
  PROVE  \A i \in 0..n : f[i] = g[i]
<1> DEFINE A == {i \in Nat : i <= n => f[i] = g[i]}
<1>1. 0 \in A
  BY DEF Picks
<1>2. ASSUME NEW i \in A PROVE i + 1 \in A
  <2>1. i \in Nat /\ (i + 1 <= n => i <= n /\ i + 1 \in 1..n /\ (i + 1) - 1 = i)
    OBVIOUS
  <2> QED
    BY <2>1 DEF Picks
<1>3. A \in SUBSET Nat
  OBVIOUS
<1> HIDE DEF A
<1>4. A = Nat
  BY <1>1, <1>2, <1>3, Induction
<1> QED
  BY <1>4 DEF A

\* Pick is what that recursion ends with.
LEMMA Picking ==
  ASSUME NEW S, NEW T, NEW s \in Seq(S), NEW P, \A i \in 1..Len(s) : i \in P => s[i] \in T
  PROVE  \E f \in [0..Len(s) -> Seq(T)] : Picks(f, s, P, Len(s)) /\ Pick(s, P) = f[Len(s)]
<1>1. Len(s) \in Nat /\ Len(s) <= Len(s)
  BY LenProperties
<1>2. PICK g \in [0..Len(s) -> Seq(T)] : Picks(g, s, P, Len(s))
  BY <1>1, PickExists
<1> DEFINE f[n \in 0..Len(s)] ==
             IF n = 0 THEN <<>>
             ELSE IF n \in P THEN Append(f[n - 1], s[n]) ELSE f[n - 1]
           h == [n \in 0..Len(s) |->
                   IF n = 0 THEN <<>>
                   ELSE IF n \in P THEN Append(g[n - 1], s[n]) ELSE g[n - 1]]
<1>3. g = h
  <2>1. \A n \in 0..Len(s) : n = 0 \/ n \in 1..Len(s)
    BY <1>1
  <2>2. \A n \in 0..Len(s) : g[n] = h[n]
    BY <1>2, <2>1 DEF Picks
  <2>3. h = [n \in 0..Len(s) |-> h[n]] /\ g = [n \in 0..Len(s) |-> g[n]]
    OBVIOUS
  <2> HIDE DEF h
  <2> QED
    BY <2>2, <2>3
<1>4. f = [n \in 0..Len(s) |->
             IF n = 0 THEN <<>>
             ELSE IF n \in P THEN Append(f[n - 1], s[n]) ELSE f[n - 1]]
  BY <1>3, Zenon
<1>5. Pick(s, P) = f[Len(s)]
  BY Zenon DEF Pick
<1> HIDE DEF f
<1>6. Picks(f, s, P, Len(s))
  <2>1. 0 \in 0..Len(s) /\ \A n \in 1..Len(s) : n \in 0..Len(s) /\ n # 0
    BY <1>1
  <2> QED
    BY <1>4, <2>1 DEF Picks
<1>7. f[Len(s)] = g[Len(s)]
  BY <1>1, <1>2, <1>6, PicksUnique
<1> QED
  BY <1>2, <1>5, <1>7

\* What Pick keeps is a sequence of the elements it may keep.
LEMMA PickType ==
  ASSUME NEW S, NEW T, NEW s \in Seq(S), NEW P, \A i \in 1..Len(s) : i \in P => s[i] \in T
  PROVE  Pick(s, P) \in Seq(T)
<1>1. PICK f \in [0..Len(s) -> Seq(T)] : Pick(s, P) = f[Len(s)]
  BY Picking
<1>2. Len(s) \in 0..Len(s)
  BY LenProperties
<1> QED
  BY <1>1, <1>2

\* Nothing is kept of nothing.
LEMMA PickEmpty ==
  ASSUME NEW P
  PROVE  Pick(<<>>, P) = <<>>
<1> DEFINE e == <<>>
           N == {}
<1>1. e \in Seq(N) /\ Len(e) = 0
  BY EmptySeq
<1> HIDE DEF e, N
<1>2. \A i \in 1..Len(e) : i \in P => e[i] \in N
  BY <1>1
<1>3. PICK f \in [0..Len(e) -> Seq(N)] : Picks(f, e, P, Len(e)) /\ Pick(e, P) = f[Len(e)]
  BY <1>1, <1>2, Picking, ZenonT(30)
<1> QED
  BY <1>1, <1>3 DEF Picks, e

\* Append and concatenation.
LEMMA ConcatAppend ==
  ASSUME NEW S, NEW s \in Seq(S), NEW t \in Seq(S), NEW x \in S
  PROVE  s \o Append(t, x) = Append(s \o t, x)
<1>1. Append(t, x) = t \o <<x>> /\ s \o t \in Seq(S) /\ <<x>> \in Seq(S)
  BY AppendIsConcat, ConcatProperties
<1>2. Append(s \o t, x) = (s \o t) \o <<x>>
  BY <1>1, AppendIsConcat
<1> QED
  BY <1>1, <1>2, ConcatAssociative

\* What is kept of two sequences one after the other.
LEMMA PickConcat ==
  ASSUME NEW S, NEW s \in Seq(S), NEW t \in Seq(S), NEW P, NEW Q, NEW R,
         \A i \in 1..Len(s) : i \in R <=> i \in P,
         \A i \in 1..Len(t) : Len(s) + i \in R <=> i \in Q
  PROVE  Pick(s \o t, R) = Pick(s, P) \o Pick(t, Q)
<1> DEFINE m == Len(s)
           n == Len(t)
           u == s \o t
<1>1. m \in Nat /\ n \in Nat
  BY LenProperties
<1>2. /\ u \in Seq(S) /\ Len(u) = m + n
      /\ \A i \in 1..(m + n) : u[i] = IF i <= m THEN s[i] ELSE t[i - m]
  BY ConcatProperties
<1>3. PICK g \in [0..m -> Seq(S)] : Picks(g, s, P, m) /\ Pick(s, P) = g[m]
  BY Picking, ElementOfSeq
<1>4. PICK h \in [0..n -> Seq(S)] : Picks(h, t, Q, n) /\ Pick(t, Q) = h[n]
  BY Picking, ElementOfSeq
<1> HIDE DEF u
<1>5. PICK f \in [0..(m + n) -> Seq(S)] : Picks(f, u, R, m + n) /\ Pick(u, R) = f[m + n]
  <2>1. \A i \in 1..Len(u) : i \in R => u[i] \in S
    BY <1>2, ElementOfSeq
  <2>2. \E f \in [0..Len(u) -> Seq(S)] : Picks(f, u, R, Len(u)) /\ Pick(u, R) = f[Len(u)]
    <3>1. u \in Seq(S)
      BY <1>2
    <3> QED
      BY <2>1, <3>1, Picking, Zenon
  <2> QED
    BY <1>2, <2>2
<1>6. /\ \A i \in 1..m : i \in R <=> i \in P
      /\ \A i \in 1..n : m + i \in R <=> i \in Q
      /\ \A i \in 1..n : t[i] \in S
  BY ElementOfSeq
<1> HIDE DEF m, n
<1> DEFINE e == [i \in 0..(m + n) |-> IF i <= m THEN g[i] ELSE g[m] \o h[i - m]]
<1>7. g[0] = <<>> /\ h[0] = <<>> /\ g[m] \in Seq(S) /\ \A j \in 0..n : h[j] \in Seq(S)
  <2>1. m \in 0..m
    BY <1>1
  <2> QED
    BY <1>3, <1>4, <2>1 DEF Picks
<1>8. \A i \in 0..m : e[i] = g[i]
  BY <1>1
<1>9. ASSUME NEW j \in 0..n PROVE e[m + j] = g[m] \o h[j]
  <2>1. m + j \in 0..(m + n) /\ (m + j <= m <=> j = 0) /\ m + j - m = j /\ m + 0 = m
    BY <1>1
  <2>2. CASE j = 0
    <3>1. e[m + j] = g[m]
      BY <2>1, <2>2
    <3> HIDE DEF e
    <3>2. g[m] \o h[j] = g[m]
      BY <1>7, <2>2, ConcatEmptySeq
    <3> QED
      BY <3>1, <3>2
  <2>3. CASE j # 0
    <3> DEFINE k == m + j
    <3>1. k \in 0..(m + n) /\ ~(k <= m) /\ k - m = j
      BY <1>1, <2>3
    <3> HIDE DEF k
    <3>2. e[k] = g[m] \o h[k - m]
      BY <3>1
    <3> HIDE DEF e
    <3> QED
      BY <3>1, <3>2 DEF k
  <2> QED
    BY <2>2, <2>3
<1> HIDE DEF e
<1>10. Picks(e, u, R, m + n)
  <2>1. e[0] = <<>>
    <3>1. 0 \in 0..m
      BY <1>1
    <3> QED
      BY <1>7, <1>8, <3>1
  <2>2. ASSUME NEW i \in 1..(m + n)
        PROVE  e[i] = IF i \in R THEN Append(e[i - 1], u[i]) ELSE e[i - 1]
    <3>1. CASE i <= m
      <4>1. i \in 0..m /\ i - 1 \in 0..m /\ i \in 1..m
        BY <1>1, <3>1
      <4>2. e[i] = g[i] /\ e[i - 1] = g[i - 1] /\ u[i] = s[i] /\ (i \in R <=> i \in P)
        BY <1>2, <1>6, <1>8, <3>1, <4>1
      <4> QED
        BY <1>3, <4>1, <4>2 DEF Picks
    <3>2. CASE ~(i <= m)
      <4> DEFINE j == i - m
      <4>1. j \in 1..n /\ j \in 0..n /\ j - 1 \in 0..n /\ i = m + j /\ i - 1 = m + (j - 1)
        BY <1>1, <3>2
      <4>2. u[i] = t[j]
        BY <1>2, <3>2
      <4> HIDE DEF j
      <4>3. e[i] = g[m] \o h[j] /\ e[i - 1] = g[m] \o h[j - 1]
        BY <1>9, <4>1
      <4>4. i \in R <=> j \in Q
        BY <1>6, <4>1
      <4>5. h[j] = IF j \in Q THEN Append(h[j - 1], t[j]) ELSE h[j - 1]
        BY <1>4, <4>1 DEF Picks
      <4>6. g[m] \o Append(h[j - 1], t[j]) = Append(g[m] \o h[j - 1], t[j])
        <5>1. h[j - 1] \in Seq(S) /\ t[j] \in S /\ g[m] \in Seq(S)
          BY <1>6, <1>7, <4>1
        <5>2. ASSUME NEW a \in Seq(S), NEW b \in Seq(S), NEW c \in S
              PROVE  a \o Append(b, c) = Append(a \o b, c)
          BY ConcatAppend
        <5> QED
          BY <5>1, <5>2
      <4> QED
        BY <4>2, <4>3, <4>4, <4>5, <4>6
    <3> QED
      BY <3>1, <3>2
  <2> QED
    BY <2>1, <2>2 DEF Picks
<1>11. f[m + n] = e[m + n]
  <2>1. m + n \in Nat /\ m + n \in 0..(m + n)
    BY <1>1
  <2> QED
    BY <1>5, <1>10, <2>1, PicksUnique
<1>12. n \in 0..n
  BY <1>1
<1> QED
  BY <1>3, <1>4, <1>5, <1>9, <1>11, <1>12 DEF u

-----------------------------------------------------------------------------
(* FlattenSeq, in the same way.                                            *)

\* The recursion of FlattenSeq, begun with the empty sequence.
Flattens(f, q, n) ==
  /\ f[0] = <<>>
  /\ \A i \in 1..n : f[i] = f[i - 1] \o q[i]

\* It has a solution.
LEMMA FlattenExists ==
  ASSUME NEW S, NEW q \in Seq(Seq(S))
  PROVE  \A n \in Nat : n <= Len(q) => \E f \in [0..n -> Seq(S)] : Flattens(f, q, n)
<1> DEFINE A == {n \in Nat : n <= Len(q) => \E f \in [0..n -> Seq(S)] : Flattens(f, q, n)}
<1>1. 0 \in A
  <2> DEFINE f == [i \in 0..0 |-> <<>>]
  <2>1. f \in [0..0 -> Seq(S)] /\ f[0] = <<>>
    BY EmptySeq
  <2>2. Flattens(f, q, 0)
    BY <2>1 DEF Flattens
  <2> QED
    BY <2>1, <2>2
<1>2. ASSUME NEW n \in A PROVE n + 1 \in A
  <2> SUFFICES ASSUME n + 1 <= Len(q)
               PROVE  \E f \in [0..(n + 1) -> Seq(S)] : Flattens(f, q, n + 1)
    BY <1>2
  <2>0. n \in Nat /\ Len(q) \in Nat
    BY LenProperties
  <2>1. PICK f \in [0..n -> Seq(S)] : Flattens(f, q, n)
    BY <2>0
  <2> DEFINE x == f[n] \o q[n + 1]
             g == [i \in 0..(n + 1) |-> IF i = n + 1 THEN x ELSE f[i]]
  <2>2. n \in 0..n /\ n + 1 \in 1..Len(q)
    BY <2>0
  <2>3. x \in Seq(S)
    <3>1. f[n] \in Seq(S) /\ q[n + 1] \in Seq(S)
      BY <2>1, <2>2, ElementOfSeq
    <3> QED
      BY <3>1, ConcatProperties
  <2> HIDE DEF x
  <2>4. \A i \in 0..(n + 1) : i # n + 1 => i \in 0..n
    BY <2>0
  <2>5. g \in [0..(n + 1) -> Seq(S)]
    BY <2>3, <2>4
  <2>6. \A i \in 0..n : g[i] = f[i]
    BY <2>0
  <2>7. g[n + 1] = x
    BY <2>0
  <2>8. g[0] = <<>>
    BY <2>0, <2>1, <2>6 DEF Flattens
  <2>9. ASSUME NEW i \in 1..(n + 1)
        PROVE  g[i] = g[i - 1] \o q[i]
    <3> HIDE DEF g
    <3>1. CASE i = n + 1
      <4>1. i - 1 = n /\ n \in 0..n
        BY <2>0, <3>1
      <4> QED
        BY <2>6, <2>7, <3>1, <4>1 DEF x
    <3>2. CASE i # n + 1
      <4>1. i \in 1..n /\ i \in 0..n /\ i - 1 \in 0..n
        BY <2>0, <3>2
      <4> QED
        BY <2>1, <2>6, <4>1 DEF Flattens
    <3> QED
      BY <3>1, <3>2
  <2> HIDE DEF g
  <2>10. Flattens(g, q, n + 1)
    BY <2>8, <2>9 DEF Flattens
  <2> QED
    BY <2>5, <2>10
<1>3. A = Nat
  <2>1. A \in SUBSET Nat
    OBVIOUS
  <2> HIDE DEF A
  <2> QED
    BY <1>1, <1>2, <2>1, Induction
<1> QED
  BY <1>3

\* It has one solution.
LEMMA FlattensUnique ==
  ASSUME NEW q, NEW n \in Nat, NEW f, NEW g, Flattens(f, q, n), Flattens(g, q, n)
  PROVE  \A i \in 0..n : f[i] = g[i]
<1> DEFINE A == {i \in Nat : i <= n => f[i] = g[i]}
<1>1. 0 \in A
  BY DEF Flattens
<1>2. ASSUME NEW i \in A PROVE i + 1 \in A
  <2>1. i \in Nat /\ (i + 1 <= n => i <= n /\ i + 1 \in 1..n /\ (i + 1) - 1 = i)
    OBVIOUS
  <2>2. ASSUME i + 1 <= n PROVE f[i + 1] = g[i + 1]
    <3>1. f[i] = g[i] /\ i + 1 \in 1..n /\ (i + 1) - 1 = i
      BY <2>1, <2>2
    <3>2. f[i + 1] = f[i] \o q[i + 1] /\ g[i + 1] = g[i] \o q[i + 1]
      <4> DEFINE j == i + 1
      <4>1. f[j] = f[j - 1] \o q[j] /\ g[j] = g[j - 1] \o q[j]
        BY <3>1, Zenon DEF Flattens
      <4> QED
        BY <3>1, <4>1
    <3> QED
      BY <3>1, <3>2
  <2> QED
    BY <2>1, <2>2
<1>3. A \in SUBSET Nat
  OBVIOUS
<1> HIDE DEF A
<1>4. A = Nat
  BY <1>1, <1>2, <1>3, Induction
<1> QED
  BY <1>4 DEF A

\* FlattenSeq is what that recursion ends with.
LEMMA Flattening ==
  ASSUME NEW S, NEW q \in Seq(Seq(S))
  PROVE  \E f \in [0..Len(q) -> Seq(S)] : Flattens(f, q, Len(q)) /\ FlattenSeq(q) = f[Len(q)]
<1> DEFINE n == Len(q)
<1>1. n \in Nat /\ n <= n
  BY LenProperties
<1>2. PICK g \in [0..n -> Seq(S)] : Flattens(g, q, n)
  BY <1>1, FlattenExists
<1>3. CASE n = 0
  <2>1. q = <<>>
    BY <1>3, EmptySeq
  <2>2. FlattenSeq(q) = <<>>
    BY <1>3, <2>1 DEF FlattenSeq
  <2> QED
    BY <1>2, <1>3, <2>2 DEF Flattens
<1>4. CASE n # 0
  <2> DEFINE f[i \in 1..Len(q)] == IF i = 1 THEN q[i] ELSE f[i - 1] \o q[i]
             h == [i \in 1..Len(q) |-> g[i]]
             k == [i \in 1..Len(q) |-> IF i = 1 THEN q[i] ELSE h[i - 1] \o q[i]]
  <2>1. h = k
    <3>1. ASSUME NEW i \in 1..Len(q) PROVE h[i] = k[i]
      <4>1. g[i] = g[i - 1] \o q[i] /\ q[i] \in Seq(S)
        BY <1>2, ElementOfSeq DEF Flattens
      <4>2. CASE i = 1
        <5>1. g[i - 1] = <<>>
          BY <1>2, <4>2 DEF Flattens
        <5>2. g[i] = q[i]
          BY <4>1, <5>1, ConcatEmptySeq
        <5> QED
          BY <4>2, <5>2
      <4>3. CASE i # 1
        <5>1. i - 1 \in 1..Len(q)
          BY <1>1, <4>3
        <5>2. h[i - 1] = g[i - 1]
          BY <5>1
        <5> QED
          BY <4>1, <4>3, <5>2
      <4> QED
        BY <4>2, <4>3
    <3>2. h = [i \in 1..Len(q) |-> h[i]] /\ k = [i \in 1..Len(q) |-> k[i]]
      OBVIOUS
    <3> HIDE DEF h, k
    <3> QED
      BY <3>1, <3>2
  <2>2. f = [i \in 1..Len(q) |-> IF i = 1 THEN q[i] ELSE f[i - 1] \o q[i]]
    BY <2>1, Zenon
  <2>3. FlattenSeq(q) = f[Len(q)]
    BY <1>4, Zenon DEF FlattenSeq
  <2> HIDE DEF f, h, k
  <2> DEFINE e == [i \in 0..n |-> IF i = 0 THEN <<>> ELSE f[i]]
  <2>4. Flattens(e, q, n)
    <3>1. e[0] = <<>> /\ \A i \in 1..n : e[i] = f[i]
      BY <1>1
    <3> HIDE DEF e
    <3>2. ASSUME NEW i \in 1..n PROVE e[i] = e[i - 1] \o q[i]
      <4>0. f[i] = IF i = 1 THEN q[i] ELSE f[i - 1] \o q[i]
        BY <2>2
      <4>1. CASE i = 1
        <5>1. q[i] \in Seq(S) /\ e[i - 1] = <<>> /\ e[i] = q[i]
          BY <3>1, <4>0, <4>1, ElementOfSeq
        <5> QED
          BY <5>1, ConcatEmptySeq
      <4>2. CASE i # 1
        <5>1. i - 1 \in 1..n
          BY <1>1, <4>2
        <5> QED
          BY <3>1, <4>0, <4>2, <5>1
      <4> QED
        BY <4>1, <4>2
    <3> QED
      BY <3>1, <3>2 DEF Flattens
  <2>5. e[n] = f[n]
    BY <1>1, <1>4
  <2> HIDE DEF e
  <2>6. e[n] = g[n]
    <3>1. n \in 0..n
      BY <1>1
    <3> QED
      BY <1>1, <1>2, <2>4, <3>1, FlattensUnique
  <2> QED
    BY <1>2, <2>3, <2>5, <2>6
<1> QED
  BY <1>3, <1>4

\* A flattened sequence is one of the elements.
LEMMA FlattenType ==
  ASSUME NEW S, NEW q \in Seq(Seq(S))
  PROVE  FlattenSeq(q) \in Seq(S)
<1>1. PICK f \in [0..Len(q) -> Seq(S)] : FlattenSeq(q) = f[Len(q)]
  BY Flattening
<1>2. Len(q) \in 0..Len(q)
  BY LenProperties
<1> QED
  BY <1>1, <1>2

\* Nothing, flattened.
LEMMA FlattenEmpty == FlattenSeq(<<>>) = <<>>
  BY EmptySeq DEF FlattenSeq

\* Three sequences, one after the other.
LEMMA Associative ==
  ASSUME NEW S, NEW a \in Seq(S), NEW b \in Seq(S), NEW c \in Seq(S)
  PROVE  a \o (b \o c) = (a \o b) \o c
<1>1. (a \o b) \o c = a \o (b \o c)
  BY ConcatAssociative
<1> QED
  BY <1>1

\* Two sequences, one after the other.
LEMMA FlattenConcat ==
  ASSUME NEW S, NEW q \in Seq(Seq(S)), NEW r \in Seq(Seq(S))
  PROVE  FlattenSeq(q \o r) = FlattenSeq(q) \o FlattenSeq(r)
<1> DEFINE m == Len(q)
           n == Len(r)
           u == q \o r
<1>1. m \in Nat /\ n \in Nat
  BY LenProperties
<1>2. /\ u \in Seq(Seq(S)) /\ Len(u) = m + n
      /\ \A i \in 1..(m + n) : u[i] = IF i <= m THEN q[i] ELSE r[i - m]
  BY ConcatProperties
<1>3. PICK g \in [0..m -> Seq(S)] : Flattens(g, q, m) /\ FlattenSeq(q) = g[m]
  BY Flattening
<1>4. PICK h \in [0..n -> Seq(S)] : Flattens(h, r, n) /\ FlattenSeq(r) = h[n]
  BY Flattening
<1> HIDE DEF u
<1>5. PICK f \in [0..(m + n) -> Seq(S)] : Flattens(f, u, m + n) /\ FlattenSeq(u) = f[m + n]
  <2>1. u \in Seq(Seq(S)) /\ Len(u) = m + n
    BY <1>2
  <2>2. \E f \in [0..Len(u) -> Seq(S)] : Flattens(f, u, Len(u)) /\ FlattenSeq(u) = f[Len(u)]
    BY <2>1, Flattening, Zenon
  <2> QED
    BY <2>1, <2>2
<1>6. \A i \in 1..n : r[i] \in Seq(S)
  BY ElementOfSeq
<1> HIDE DEF m, n
<1> DEFINE e == [i \in 0..(m + n) |-> IF i <= m THEN g[i] ELSE g[m] \o h[i - m]]
<1>7. g[0] = <<>> /\ h[0] = <<>> /\ g[m] \in Seq(S) /\ \A j \in 0..n : h[j] \in Seq(S)
  <2>1. m \in 0..m
    BY <1>1
  <2> QED
    BY <1>3, <1>4, <2>1 DEF Flattens
<1>8. \A i \in 0..m : e[i] = g[i]
  BY <1>1
<1>9. ASSUME NEW j \in 0..n PROVE e[m + j] = g[m] \o h[j]
  <2>2. CASE j = 0
    <3>1. e[m + j] = g[m]
      BY <1>1, <2>2
    <3> HIDE DEF e
    <3>2. g[m] \o h[j] = g[m]
      BY <1>7, <2>2, ConcatEmptySeq
    <3> QED
      BY <3>1, <3>2
  <2>3. CASE j # 0
    <3> DEFINE k == m + j
    <3>1. k \in 0..(m + n) /\ ~(k <= m) /\ k - m = j
      BY <1>1, <2>3
    <3> HIDE DEF k
    <3>2. e[k] = g[m] \o h[k - m]
      BY <3>1
    <3> HIDE DEF e
    <3> QED
      BY <3>1, <3>2 DEF k
  <2> QED
    BY <2>2, <2>3
<1> HIDE DEF e
<1>10. Flattens(e, u, m + n)
  <2>1. e[0] = <<>>
    <3>1. 0 \in 0..m
      BY <1>1
    <3> QED
      BY <1>7, <1>8, <3>1
  <2>2. ASSUME NEW i \in 1..(m + n) PROVE e[i] = e[i - 1] \o u[i]
    <3>1. CASE i <= m
      <4>1. i \in 0..m /\ i - 1 \in 0..m /\ i \in 1..m
        BY <1>1, <3>1
      <4>2. e[i] = g[i] /\ e[i - 1] = g[i - 1] /\ u[i] = q[i]
        BY <1>2, <1>8, <3>1, <4>1
      <4> QED
        BY <1>3, <4>1, <4>2 DEF Flattens
    <3>2. CASE ~(i <= m)
      <4> DEFINE j == i - m
      <4>1. j \in 1..n /\ j \in 0..n /\ j - 1 \in 0..n /\ i = m + j /\ i - 1 = m + (j - 1)
        BY <1>1, <3>2
      <4>2. u[i] = r[j]
        BY <1>2, <3>2
      <4> HIDE DEF j
      <4>3. e[i] = g[m] \o h[j] /\ e[i - 1] = g[m] \o h[j - 1]
        BY <1>9, <4>1
      <4>5. h[j] = h[j - 1] \o r[j]
        BY <1>4, <4>1 DEF Flattens
      <4>6. g[m] \o (h[j - 1] \o r[j]) = (g[m] \o h[j - 1]) \o r[j]
        <5>1. h[j - 1] \in Seq(S) /\ r[j] \in Seq(S) /\ g[m] \in Seq(S)
          BY <1>6, <1>7, <4>1
        <5>2. ASSUME NEW a \in Seq(S), NEW b \in Seq(S), NEW c \in Seq(S)
              PROVE  a \o (b \o c) = (a \o b) \o c
          BY Associative, SMTT(30)
        <5> QED
          BY <5>1, <5>2
      <4> QED
        BY <4>2, <4>3, <4>5, <4>6
    <3> QED
      BY <3>1, <3>2
  <2> QED
    BY <2>1, <2>2 DEF Flattens
<1>11. f[m + n] = e[m + n]
  <2>1. Flattens(f, u, m + n) /\ Flattens(e, u, m + n) /\ m + n \in Nat /\ m + n \in 0..(m + n)
    BY <1>1, <1>5, <1>10
  <2>2. \A i \in 0..(m + n) : f[i] = e[i]
    BY <2>1, FlattensUnique
  <2> QED
    BY <2>1, <2>2
<1>12. n \in 0..n
  BY <1>1
<1> QED
  BY <1>3, <1>4, <1>5, <1>9, <1>11, <1>12 DEF u

\* One sequence more.
LEMMA FlattenAppend ==
  ASSUME NEW S, NEW q \in Seq(Seq(S)), NEW x \in Seq(S)
  PROVE  FlattenSeq(Append(q, x)) = FlattenSeq(q) \o x
<1> DEFINE r == <<x>>
<1>1. r \in Seq(Seq(S)) /\ Len(r) = 1 /\ r[1] = x
  OBVIOUS
<1>2. Append(q, x) = q \o r
  BY AppendIsConcat
<1> HIDE DEF r
<1>3. FlattenSeq(q \o r) = FlattenSeq(q) \o FlattenSeq(r)
  BY <1>1, FlattenConcat
<1>4. PICK f \in [0..1 -> Seq(S)] : Flattens(f, r, 1) /\ FlattenSeq(r) = f[1]
  <2>1. \E f \in [0..Len(r) -> Seq(S)] : Flattens(f, r, Len(r)) /\ FlattenSeq(r) = f[Len(r)]
    BY <1>1, Flattening, Zenon
  <2> QED
    BY <1>1, <2>1
<1>5. f[1] = <<>> \o x
  <2>1. 1 \in 1..1 /\ 1 - 1 = 0
    OBVIOUS
  <2> QED
    BY <1>1, <1>4, <2>1 DEF Flattens
<1>6. <<>> \o x = x
  BY ConcatEmptySeq
<1> QED
  BY <1>2, <1>3, <1>4, <1>5, <1>6

-----------------------------------------------------------------------------
(* Letters, the lines of one stream, and their texts.                      *)

\* The letters of bytes are bytes.
LEMMA LettersType ==
  ASSUME NEW a \in Seq(Byte)
  PROVE  Letters(a) \in Seq(Byte)
<1> DEFINE P == {i \in DOMAIN a : a[i] \notin {CR, LF}}
<1>1. \A i \in 1..Len(a) : i \in P => a[i] \in Byte
  BY ElementOfSeq
<1> HIDE DEF P
<1> QED
  BY <1>1, PickType DEF Letters, P

\* Letters goes through a concatenation.
LEMMA LettersConcat ==
  ASSUME NEW a \in Seq(Byte), NEW b \in Seq(Byte)
  PROVE  Letters(a \o b) = Letters(a) \o Letters(b)
<1> DEFINE c == a \o b
           P == {i \in DOMAIN a : a[i] \notin {CR, LF}}
           Q == {i \in DOMAIN b : b[i] \notin {CR, LF}}
           R == {i \in DOMAIN c : c[i] \notin {CR, LF}}
<1>1. /\ c \in Seq(Byte) /\ Len(c) = Len(a) + Len(b)
      /\ \A i \in 1..(Len(a) + Len(b)) : c[i] = IF i <= Len(a) THEN a[i] ELSE b[i - Len(a)]
  BY ConcatProperties
<1> HIDE DEF c
<1>2. /\ Len(a) \in Nat /\ Len(b) \in Nat
      /\ DOMAIN a = 1..Len(a) /\ DOMAIN b = 1..Len(b) /\ DOMAIN c = 1..(Len(a) + Len(b))
  BY <1>1, LenProperties
<1>3. ASSUME NEW i \in 1..Len(a) PROVE i \in R <=> i \in P
  <2>1. i \in 1..(Len(a) + Len(b)) /\ i <= Len(a)
    BY <1>2
  <2>2. c[i] = a[i]
    BY <1>1, <2>1
  <2> QED
    BY <1>2, <2>1, <2>2
<1>4. ASSUME NEW i \in 1..Len(b) PROVE Len(a) + i \in R <=> i \in Q
  <2> DEFINE k == Len(a) + i
  <2>1. k \in 1..(Len(a) + Len(b)) /\ ~(k <= Len(a)) /\ k - Len(a) = i
    BY <1>2
  <2> HIDE DEF k
  <2>2. c[k] = b[i]
    BY <1>1, <2>1
  <2>3. k \in R <=> i \in Q
    BY <1>2, <2>1, <2>2
  <2> QED
    BY <2>3 DEF k
<1> HIDE DEF P, Q, R
<1>5. Pick(a \o b, R) = Pick(a, P) \o Pick(b, Q)
  <2>1. \A i \in 1..Len(a) : i \in R <=> i \in P
    BY <1>3
  <2>2. \A i \in 1..Len(b) : Len(a) + i \in R <=> i \in Q
    BY <1>4
  <2>3. ASSUME NEW p, NEW q, NEW r,
               \A i \in 1..Len(a) : i \in r <=> i \in p,
               \A i \in 1..Len(b) : Len(a) + i \in r <=> i \in q
        PROVE  Pick(a \o b, r) = Pick(a, p) \o Pick(b, q)
    BY <2>3, PickConcat
  <2> QED
    BY <2>1, <2>2, <2>3, Zenon
<1> QED
  BY <1>5, Zenon DEF Letters, P, Q, R, c

\* Nothing has no letters.
LEMMA LettersEmpty == Letters(<<>>) = <<>>
  BY PickEmpty DEF Letters

\* A line end is no letter.
LEMMA LettersOfEnd ==
  ASSUME NEW x \in Byte, x \in {CR, LF}
  PROVE  Letters(<<x>>) = <<>>
<1> DEFINE e == <<x>>
           P == {i \in DOMAIN e : e[i] \notin {CR, LF}}
<1>1. e \in Seq(Byte) /\ Len(e) = 1 /\ e[1] = x
  OBVIOUS
<1> HIDE DEF e
<1>2. P = {}
  <2>1. DOMAIN e = {1}
    BY <1>1, LenProperties
  <2> QED
    BY <1>1, <2>1
<1>3. \A i \in 1..Len(e) : i \in P => e[i] \in {}
  BY <1>2
<1>4. Letters(e) = Pick(e, P)
  BY DEF Letters
<1> HIDE DEF P
<1>5. PICK f \in [0..Len(e) -> Seq(Byte)] : Picks(f, e, P, Len(e)) /\ Pick(e, P) = f[Len(e)]
  BY <1>1, ElementOfSeq, Picking
<1>6. f[0] = <<>> /\ f[1] = f[0]
  <2>1. 1 \in 1..1 /\ 1 - 1 = 0
    OBVIOUS
  <2> QED
    BY <1>1, <1>2, <1>5, <2>1 DEF Picks
<1> QED
  BY <1>1, <1>4, <1>5, <1>6 DEF e

\* The lines of one stream.
LEMMA OfType ==
  ASSUME NEW s, NEW q \in Seq(Line)
  PROVE  Of(s, q) \in Seq(Line)
<1> DEFINE P == {i \in DOMAIN q : q[i].stream = s}
<1>1. \A i \in 1..Len(q) : i \in P => q[i] \in Line
  BY ElementOfSeq
<1> HIDE DEF P
<1> QED
  BY <1>1, PickType DEF Of, P

\* Of goes through a concatenation.
LEMMA OfConcat ==
  ASSUME NEW s, NEW a \in Seq(Line), NEW b \in Seq(Line)
  PROVE  Of(s, a \o b) = Of(s, a) \o Of(s, b)
<1> DEFINE c == a \o b
           P == {i \in DOMAIN a : a[i].stream = s}
           Q == {i \in DOMAIN b : b[i].stream = s}
           R == {i \in DOMAIN c : c[i].stream = s}
<1>1. /\ c \in Seq(Line) /\ Len(c) = Len(a) + Len(b)
      /\ \A i \in 1..(Len(a) + Len(b)) : c[i] = IF i <= Len(a) THEN a[i] ELSE b[i - Len(a)]
  BY ConcatProperties
<1> HIDE DEF c
<1>2. /\ Len(a) \in Nat /\ Len(b) \in Nat
      /\ DOMAIN a = 1..Len(a) /\ DOMAIN b = 1..Len(b) /\ DOMAIN c = 1..(Len(a) + Len(b))
  BY <1>1, LenProperties
<1>3. ASSUME NEW i \in 1..Len(a) PROVE i \in R <=> i \in P
  <2>1. i \in 1..(Len(a) + Len(b)) /\ i <= Len(a)
    BY <1>2
  <2>2. c[i] = a[i]
    BY <1>1, <2>1
  <2> QED
    BY <1>2, <2>1, <2>2
<1>4. ASSUME NEW i \in 1..Len(b) PROVE Len(a) + i \in R <=> i \in Q
  <2> DEFINE k == Len(a) + i
  <2>1. k \in 1..(Len(a) + Len(b)) /\ ~(k <= Len(a)) /\ k - Len(a) = i
    BY <1>2
  <2> HIDE DEF k
  <2>2. c[k] = b[i]
    BY <1>1, <2>1
  <2>3. k \in R <=> i \in Q
    BY <1>2, <2>1, <2>2
  <2> QED
    BY <2>3 DEF k
<1> HIDE DEF P, Q, R
<1>5. Pick(a \o b, R) = Pick(a, P) \o Pick(b, Q)
  <2>1. \A i \in 1..Len(a) : i \in R <=> i \in P
    BY <1>3
  <2>2. \A i \in 1..Len(b) : Len(a) + i \in R <=> i \in Q
    BY <1>4
  <2>3. ASSUME NEW p, NEW q, NEW r,
               \A i \in 1..Len(a) : i \in r <=> i \in p,
               \A i \in 1..Len(b) : Len(a) + i \in r <=> i \in q
        PROVE  Pick(a \o b, r) = Pick(a, p) \o Pick(b, q)
    BY <2>3, PickConcat
  <2> QED
    BY <2>1, <2>2, <2>3, Zenon
<1> QED
  BY <1>5, Zenon DEF Of, P, Q, R, c

\* One line is of its stream and no other.
LEMMA OfSingle ==
  ASSUME NEW s, NEW x \in Line
  PROVE  Of(s, <<x>>) = IF x.stream = s THEN <<x>> ELSE <<>>
<1> DEFINE e == <<x>>
           P == {i \in DOMAIN e : e[i].stream = s}
<1>1. e \in Seq(Line) /\ Len(e) = 1 /\ e[1] = x /\ DOMAIN e = 1..1
  OBVIOUS
<1>2. Append(<<>>, x) = e
  OBVIOUS
<1> HIDE DEF e
<1>3. 1 \in P <=> x.stream = s
  BY <1>1
<1>4. Of(s, e) = Pick(e, P)
  BY DEF Of
<1> HIDE DEF P
<1>5. PICK f \in [0..Len(e) -> Seq(Line)] : Picks(f, e, P, Len(e)) /\ Pick(e, P) = f[Len(e)]
  BY <1>1, ElementOfSeq, Picking
<1>6. f[0] = <<>> /\ f[1] = IF x.stream = s THEN Append(<<>>, x) ELSE <<>>
  <2>1. 1 \in 1..1 /\ 1 - 1 = 0
    OBVIOUS
  <2>2. f[0] = <<>> /\ f[1] = IF 1 \in P THEN Append(f[1 - 1], e[1]) ELSE f[1 - 1]
    BY <1>1, <1>5, <2>1 DEF Picks
  <2> QED
    BY <1>1, <1>3, <2>1, <2>2
<1> QED
  BY <1>1, <1>2, <1>4, <1>5, <1>6 DEF e

\* The texts of lines or records.
Texts(lines) == [i \in DOMAIN lines |-> lines[i].bytes]
Texted == [bytes : Seq(Byte), match : Nat] \cup Line

\* They are as many as the lines.
LEMMA TextsType ==
  ASSUME NEW a \in Seq(Texted)
  PROVE  /\ Texts(a) \in Seq(Seq(Byte)) /\ Len(Texts(a)) = Len(a)
         /\ \A i \in 1..Len(a) : Texts(a)[i] = a[i].bytes
<1>1. Len(a) \in Nat /\ DOMAIN a = 1..Len(a)
  BY LenProperties
<1>2. \A i \in 1..Len(a) : a[i].bytes \in Seq(Byte)
  BY ElementOfSeq DEF Texted, Line
<1>3. Texts(a) = [i \in 1..Len(a) |-> a[i].bytes]
  BY <1>1 DEF Texts
<1> QED
  BY <1>1, <1>2, <1>3

\* Texts goes through a concatenation.
LEMMA TextsConcat ==
  ASSUME NEW a \in Seq(Texted), NEW b \in Seq(Texted)
  PROVE  Texts(a \o b) = Texts(a) \o Texts(b)
<1> DEFINE c == a \o b
           T == Seq(Byte)
<1>1. /\ c \in Seq(Texted) /\ Len(c) = Len(a) + Len(b)
      /\ \A i \in 1..(Len(a) + Len(b)) : c[i] = IF i <= Len(a) THEN a[i] ELSE b[i - Len(a)]
  BY ConcatProperties
<1> HIDE DEF c, T
<1>2. Len(a) \in Nat /\ Len(b) \in Nat
  BY LenProperties
<1>3. /\ Texts(a) \in Seq(T) /\ Len(Texts(a)) = Len(a)
      /\ \A i \in 1..Len(a) : Texts(a)[i] = a[i].bytes
  BY TextsType DEF T
<1>4. /\ Texts(b) \in Seq(T) /\ Len(Texts(b)) = Len(b)
      /\ \A i \in 1..Len(b) : Texts(b)[i] = b[i].bytes
  BY TextsType DEF T
<1>5. /\ Texts(c) \in Seq(T) /\ Len(Texts(c)) = Len(a) + Len(b)
      /\ \A i \in 1..(Len(a) + Len(b)) : Texts(c)[i] = c[i].bytes
  <2>1. c \in Seq(Texted) /\ Len(c) = Len(a) + Len(b)
    BY <1>1
  <2>2. /\ Texts(c) \in Seq(T) /\ Len(Texts(c)) = Len(c)
        /\ \A i \in 1..Len(c) : Texts(c)[i] = c[i].bytes
    BY <2>1, TextsType DEF T
  <2> QED
    BY <2>1, <2>2
<1> DEFINE d == Texts(a) \o Texts(b)
<1>6. /\ d \in Seq(T) /\ Len(d) = Len(a) + Len(b)
      /\ \A i \in 1..(Len(a) + Len(b)) : d[i] = IF i <= Len(a) THEN Texts(a)[i] ELSE Texts(b)[i - Len(a)]
  <2>1. Texts(a) \in Seq(T) /\ Texts(b) \in Seq(T)
    BY <1>3, <1>4
  <2>2. /\ d \in Seq(T) /\ Len(d) = Len(Texts(a)) + Len(Texts(b))
        /\ \A i \in 1..(Len(Texts(a)) + Len(Texts(b))) :
             d[i] = IF i <= Len(Texts(a)) THEN Texts(a)[i] ELSE Texts(b)[i - Len(Texts(a))]
    BY <2>1, ConcatProperties
  <2> QED
    BY <1>3, <1>4, <2>2
<1> HIDE DEF d
<1>7. ASSUME NEW i \in 1..(Len(a) + Len(b)) PROVE Texts(c)[i] = d[i]
  <2>1. CASE i <= Len(a)
    <3>1. i \in 1..Len(a)
      BY <1>2, <2>1
    <3> QED
      BY <1>1, <1>3, <1>5, <1>6, <2>1, <3>1
  <2>2. CASE ~(i <= Len(a))
    <3> DEFINE j == i - Len(a)
    <3>1. j \in 1..Len(b)
      BY <1>2, <2>2
    <3>2. c[i] = b[j] /\ d[i] = Texts(b)[j]
      BY <1>1, <1>6, <2>2
    <3> HIDE DEF j
    <3> QED
      BY <1>4, <1>5, <3>1, <3>2
  <2> QED
    BY <2>1, <2>2
<1>8. Texts(c) = d
  BY <1>2, <1>5, <1>6, <1>7, SeqEqual
<1> QED
  BY <1>8 DEF c, d

\* The text of one line.
LEMMA TextsSingle ==
  ASSUME NEW x
  PROVE  Texts(<<x>>) = <<x.bytes>>
  BY DEF Texts

-----------------------------------------------------------------------------
(* What a reader takes from its pipe, and what it makes a line of.         *)

\* A set of natural numbers has a least element.
LEMMA LeastPosition ==
  ASSUME NEW A \in SUBSET Nat, A # {}
  PROVE  Min(A) \in A /\ \A y \in A : Min(A) <= y
<1> DEFINE R == {ss \in Nat \X Nat : ss[1] < ss[2]}
<1>1. IsWellFoundedOn(R, Nat)
  BY NatLessThanWellFounded, Zenon DEF OpToRel
<1>2. PICK x \in A : \A y \in A : ~(<<y, x>> \in R)
  <2> HIDE DEF R
  <2> QED
    BY <1>1, WFMin
<1>3. \A y \in A : x <= y
  <2>1. \A y \in A : y \in Nat /\ x \in Nat /\ ~(y < x)
    BY <1>2
  <2> QED
    BY <2>1
<1> QED
  BY <1>3 DEF Min

\* A bounded set of natural numbers has a greatest element.
LEMMA GreatestPosition ==
  ASSUME NEW n \in Nat, NEW A \in SUBSET (0..n), A # {}
  PROVE  Max(A) \in A /\ \A y \in A : Max(A) >= y
<1> DEFINE B == {b \in 0..n : n - b \in A}
<1>1. B \in SUBSET Nat
  OBVIOUS
<1>2. B # {}
  <2>1. PICK a \in A : TRUE
    OBVIOUS
  <2>2. n - a \in 0..n /\ n - (n - a) = a
    OBVIOUS
  <2>3. n - a \in B
    BY <2>2
  <2> QED
    BY <2>3
<1> DEFINE b == Min(B)
<1>3. b \in B /\ \A y \in B : b <= y
  <2> HIDE DEF B
  <2> QED
    BY <1>1, <1>2, LeastPosition
<1> HIDE DEF b
<1>4. n - b \in A /\ b \in 0..n
  BY <1>3
<1>5. ASSUME NEW y \in A PROVE n - b >= y
  <2>1. y \in 0..n /\ n - y \in 0..n /\ n - (n - y) = y
    OBVIOUS
  <2>2. n - y \in B
    BY <2>1
  <2>3. b <= n - y
    BY <1>3, <2>2
  <2> QED
    BY <1>4, <2>1, <2>3
<1>6. \E x \in A : \A y \in A : x >= y
  BY <1>4, <1>5
<1> QED
  BY <1>6 DEF Max

\* The greater of a number and 1.
LEMMA AtLeastOne ==
  ASSUME NEW a \in Nat, a >= 1
  PROVE  Max({a, 1}) = a
<1>1. a \in {a, 1} /\ \A y \in {a, 1} : a >= y
  OBVIOUS
<1>2. ASSUME NEW x \in {a, 1}, \A y \in {a, 1} : x >= y PROVE x = a
  BY <1>2
<1> QED
  BY <1>1, <1>2 DEF Max

\* The smaller of two numbers.
LEMMA SmallerOfTwo ==
  ASSUME NEW a \in Nat, NEW b \in Nat
  PROVE  Min({a, b}) \in {a, b} /\ Min({a, b}) <= a /\ Min({a, b}) <= b
<1>1. {a, b} \in SUBSET Nat /\ {a, b} # {}
  OBVIOUS
<1> QED
  BY <1>1, LeastPosition

\* A reader takes at least one byte, no more than its line may hold, and no
\* newline but as the last byte.
LEMMA TakenBytes ==
  ASSUME NEW s, pipe[s] \in Seq(Byte), pipe[s] # <<>>, Len(line[s]) \in Nat,
         Len(line[s]) < MaxOutputLine
  PROVE  /\ Taken(s) \in 1..Len(pipe[s])
         /\ Len(line[s]) + Taken(s) <= MaxOutputLine
         /\ \A i \in 1..Len(pipe[s]) : i < Taken(s) => pipe[s][i] # LF
<1> DEFINE p == pipe[s]
           A == {i \in DOMAIN p : p[i] = LF}
           u == Min(A \cup {Len(p)})
           m == MaxOutputLine - Len(line[s])
<1>1. Len(p) \in Nat /\ Len(p) # 0 /\ DOMAIN p = 1..Len(p)
  BY EmptySeq, LenProperties
<1>2. m \in Nat /\ m >= 1 /\ MaxOutputLine \in Nat
  BY OutputAssumption
<1>3. Taken(s) = Min({u, Max({m, 1})})
  BY Zenon DEF Taken
<1>4. Max({m, 1}) = m
  <2> HIDE DEF m
  <2> QED
    BY <1>2, AtLeastOne
<1> DEFINE B == A \cup {Len(p)}
<1>5. B \in SUBSET Nat /\ B # {} /\ B \subseteq 1..Len(p)
  BY <1>1
<1>6. u \in B /\ \A y \in B : u <= y
  <2> HIDE DEF A
  <2> QED
    BY <1>5, LeastPosition
<1>7. \A i \in 1..Len(p) : p[i] = LF => i \in B
  BY <1>1
<1> HIDE DEF u, B, m
<1>8. u \in 1..Len(p) /\ \A i \in 1..Len(p) : i < u => p[i] # LF
  BY <1>1, <1>5, <1>6, <1>7
<1>9. Taken(s) \in {u, m} /\ Taken(s) <= u /\ Taken(s) <= m
  <2>1. Taken(s) = Min({u, m})
    BY <1>3, <1>4
  <2>2. u \in Nat
    BY <1>1, <1>8
  <2> QED
    BY <1>2, <2>1, <2>2, SmallerOfTwo
<1>10. Taken(s) \in 1..Len(p)
  BY <1>1, <1>2, <1>8, <1>9
<1>11. Len(line[s]) + Taken(s) <= MaxOutputLine
  BY <1>1, <1>2, <1>9, <1>10 DEF m
<1>12. ASSUME NEW i \in 1..Len(p), i < Taken(s) PROVE p[i] # LF
  <2>1. i < u
    BY <1>1, <1>8, <1>9, <1>10, <1>12
  <2> QED
    BY <1>8, <2>1
<1> QED
  BY <1>10, <1>11, <1>12

\* A sequence that is not empty, without its last element.
LEMMA FrontLast ==
  ASSUME NEW S, NEW a \in Seq(S), a # <<>>
  PROVE  /\ Front(a) \in Seq(S) /\ Last(a) \in S
         /\ a = Front(a) \o <<Last(a)>>
         /\ Len(Front(a)) = Len(a) - 1
         /\ \A i \in 1..Len(Front(a)) : Front(a)[i] = a[i]
<1> DEFINE n == Len(a)
<1>1. n \in Nat /\ n # 0
  BY EmptySeq, LenProperties
<1>2. \A i \in 1..n : a[i] \in S
  BY ElementOfSeq
<1>3. n \in 1..n /\ 1 \in Int /\ n - 1 \in Int /\ \A i \in 1..(n - 1) : a[i] \in S
  BY <1>1, <1>2
<1>4. Last(a) \in S
  BY <1>2, <1>3 DEF Last
<1>5. /\ Front(a) \in Seq(S)
      /\ Len(Front(a)) = IF 1 <= n - 1 THEN n - 1 - 1 + 1 ELSE 0
      /\ \A i \in 1..(n - 1 - 1 + 1) : Front(a)[i] = a[1 + i - 1]
  BY <1>3, SubSeqProperties DEF Front
<1>6. Len(Front(a)) = n - 1 /\ n - 1 - 1 + 1 = n - 1
  <2> HIDE DEF n
  <2>1. n - 1 - 1 + 1 = n - 1 /\ (~(1 <= n - 1) => n - 1 = 0)
    BY <1>1
  <2> QED
    BY <1>5, <2>1
<1>7. \A i \in 1..(n - 1) : Front(a)[i] = a[i]
  <2>1. \A i \in 1..(n - 1) : 1 + i - 1 = i
    BY <1>1
  <2> QED
    BY <1>5, <1>6, <2>1
<1> DEFINE b == Front(a) \o <<Last(a)>>
<1>8. <<Last(a)>> \in Seq(S) /\ Len(<<Last(a)>>) = 1 /\ <<Last(a)>>[1] = Last(a)
  BY <1>4
<1>9. /\ b \in Seq(S) /\ Len(b) = n
      /\ \A i \in 1..n : b[i] = IF i <= n - 1 THEN Front(a)[i] ELSE <<Last(a)>>[i - (n - 1)]
  <2>1. /\ b \in Seq(S) /\ Len(b) = Len(Front(a)) + Len(<<Last(a)>>)
        /\ \A i \in 1..(Len(Front(a)) + Len(<<Last(a)>>)) :
             b[i] = IF i <= Len(Front(a)) THEN Front(a)[i] ELSE <<Last(a)>>[i - Len(Front(a))]
    BY <1>5, <1>8, ConcatProperties
  <2>2. Len(Front(a)) + Len(<<Last(a)>>) = n
    BY <1>1, <1>6, <1>8
  <2> QED
    BY <1>6, <2>1, <2>2
<1> HIDE DEF b
<1>10. ASSUME NEW i \in 1..n PROVE b[i] = a[i]
  <2>1. CASE i <= n - 1
    <3>1. i \in 1..(n - 1)
      BY <1>1, <2>1
    <3> QED
      BY <1>7, <1>9, <2>1, <3>1
  <2>2. CASE ~(i <= n - 1)
    <3>1. i = n /\ i - (n - 1) = 1
      BY <1>1, <2>2
    <3> QED
      BY <1>8, <1>9, <2>2, <3>1 DEF Last
  <2> QED
    BY <2>1, <2>2
<1>11. a = b
  BY <1>9, <1>10, SeqEqual
<1> QED
  BY <1>4, <1>5, <1>6, <1>7, <1>11 DEF b

\* The end of a line is all that a line loses.
LEMMA StrippedLine ==
  ASSUME NEW a \in Seq(Byte), a # <<>>
  PROVE  /\ Stripped(a) \in Seq(Byte)
         /\ Len(Stripped(a)) <= Len(a)
         /\ Letters(Stripped(a)) = Letters(a)
<1> DEFINE b == Front(a)
<1>1. b \in Seq(Byte) /\ Last(a) \in Byte /\ a = b \o <<Last(a)>> /\ Len(b) = Len(a) - 1
  BY FrontLast
<1>2. Len(a) \in Nat /\ Len(b) \in Nat
  BY <1>1, LenProperties
<1>3. CASE Last(a) # LF
  <2>1. Stripped(a) = a
    BY <1>3 DEF Stripped
  <2> QED
    BY <1>2, <2>1
<1>4. CASE Last(a) = LF
  <2> HIDE DEF b
  <2>1. Letters(a) = Letters(b)
    <3>1. <<Last(a)>> \in Seq(Byte)
      BY <1>1
    <3>2. Letters(a) = Letters(b) \o Letters(<<Last(a)>>)
      BY <1>1, <3>1, LettersConcat
    <3>3. Letters(<<Last(a)>>) = <<>>
      BY <1>1, <1>4, LettersOfEnd
    <3>4. Letters(b) \in Seq(Byte)
      BY <1>1, LettersType
    <3> QED
      BY <3>2, <3>3, <3>4, ConcatEmptySeq
  <2>2. CASE b # <<>> /\ Last(b) = CR
    <3> DEFINE c == Front(b)
    <3>1. Stripped(a) = c
      BY <1>4, <2>2 DEF Stripped, b
    <3>2. c \in Seq(Byte) /\ Last(b) \in Byte /\ b = c \o <<Last(b)>> /\ Len(c) = Len(b) - 1
      BY <1>1, <2>2, FrontLast
    <3> HIDE DEF c
    <3>3. <<Last(b)>> \in Seq(Byte)
      BY <3>2
    <3>4. Letters(b) = Letters(c) \o Letters(<<Last(b)>>)
      BY <3>2, <3>3, LettersConcat
    <3>5. Letters(<<Last(b)>>) = <<>>
      BY <2>2, <3>2, LettersOfEnd
    <3>6. Letters(c) \in Seq(Byte)
      BY <3>2, LettersType
    <3>7. Letters(b) = Letters(c)
      BY <3>4, <3>5, <3>6, ConcatEmptySeq
    <3> QED
      BY <1>1, <1>2, <2>1, <3>1, <3>2, <3>7
  <2>3. CASE ~(b # <<>> /\ Last(b) = CR)
    <3>1. Stripped(a) = b
      BY <1>4, <2>3 DEF Stripped, b
    <3> QED
      BY <1>1, <1>2, <2>1, <3>1
  <2> QED
    BY <2>2, <2>3
<1> QED
  BY <1>3, <1>4

\* What comes before the end w of a sequence.
Before(a, w) == SubSeq(a, 1, Len(a) - Len(w))

\* ... is what w was appended to.
LEMMA BeforeConcat ==
  ASSUME NEW S, NEW a \in Seq(S), NEW b \in Seq(S)
  PROVE  Before(a \o b, b) = a /\ Len(b) <= Len(a \o b) /\ Len(a) <= Len(a \o b)
<1> DEFINE c == a \o b
<1>1. /\ c \in Seq(S) /\ Len(c) = Len(a) + Len(b)
      /\ \A i \in 1..(Len(a) + Len(b)) : c[i] = IF i <= Len(a) THEN a[i] ELSE b[i - Len(a)]
  BY ConcatProperties
<1>2. Len(a) \in Nat /\ Len(b) \in Nat
  BY LenProperties
<1> HIDE DEF c
<1>3. Len(c) - Len(b) = Len(a) /\ 1 \in Int /\ Len(a) \in Int
  BY <1>1, <1>2
<1>4. \A i \in 1..Len(a) : c[i] = a[i] /\ a[i] \in S
  <2>1. \A i \in 1..Len(a) : i \in 1..(Len(a) + Len(b)) /\ i <= Len(a)
    BY <1>2
  <2> QED
    BY <1>1, <2>1, ElementOfSeq
<1>5. \A i \in 1..Len(a) : c[i] \in S
  BY <1>4
<1> DEFINE d == SubSeq(c, 1, Len(a))
<1>6. /\ d \in Seq(S)
      /\ Len(d) = IF 1 <= Len(a) THEN Len(a) - 1 + 1 ELSE 0
      /\ \A i \in 1..(Len(a) - 1 + 1) : d[i] = c[1 + i - 1]
  BY <1>3, <1>5, SubSeqProperties
<1> HIDE DEF d
<1>7. Len(d) = Len(a) /\ Len(a) - 1 + 1 = Len(a)
  BY <1>2, <1>6
<1>8. \A i \in 1..Len(a) : d[i] = a[i]
  <2>1. \A i \in 1..Len(a) : 1 + i - 1 = i
    BY <1>2
  <2> QED
    BY <1>4, <1>6, <1>7, <2>1
<1>9. d = a
  BY <1>6, <1>7, <1>8, SeqEqual
<1>10. Before(c, b) = d
  BY <1>3 DEF Before, d
<1>11. Len(b) <= Len(c) /\ Len(a) <= Len(c)
  BY <1>1, <1>2
<1> QED
  BY <1>9, <1>10, <1>11 DEF c

\* A sequence, cut.
LEMMA CutAt ==
  ASSUME NEW S, NEW a \in Seq(S), NEW n \in 0..Len(a)
  PROVE  /\ SubSeq(a, 1, n) \in Seq(S) /\ Len(SubSeq(a, 1, n)) = n
         /\ SubSeq(a, n + 1, Len(a)) \in Seq(S) /\ Len(SubSeq(a, n + 1, Len(a))) = Len(a) - n
         /\ a = SubSeq(a, 1, n) \o SubSeq(a, n + 1, Len(a))
         /\ \A i \in 1..n : SubSeq(a, 1, n)[i] = a[i]
<1>1. Len(a) \in Nat /\ n \in Int /\ n + 1 \in Int /\ Len(a) \in Int /\ 1 \in Int /\ n \in Nat
  BY LenProperties
<1>2. \A i \in 1..Len(a) : a[i] \in S
  BY ElementOfSeq
<1>3. (\A i \in 1..n : a[i] \in S) /\ (\A i \in (n + 1)..Len(a) : a[i] \in S)
  BY <1>1, <1>2
<1>4. /\ SubSeq(a, 1, n) \in Seq(S) /\ Len(SubSeq(a, 1, n)) = IF 1 <= n THEN n - 1 + 1 ELSE 0
      /\ \A i \in 1..(n - 1 + 1) : SubSeq(a, 1, n)[i] = a[1 + i - 1]
  BY <1>1, <1>3, SubSeqProperties
<1>5. /\ SubSeq(a, n + 1, Len(a)) \in Seq(S)
      /\ Len(SubSeq(a, n + 1, Len(a))) = IF n + 1 <= Len(a) THEN Len(a) - (n + 1) + 1 ELSE 0
  BY <1>1, <1>3, SubSeqProperties
<1>6. n - 1 + 1 = n /\ Len(SubSeq(a, 1, n)) = n /\ Len(SubSeq(a, n + 1, Len(a))) = Len(a) - n
  BY <1>1, <1>4, <1>5
<1>7. \A i \in 1..n : SubSeq(a, 1, n)[i] = a[i]
  <2>1. \A i \in 1..n : 1 + i - 1 = i
    BY <1>1
  <2> QED
    BY <1>4, <1>6, <2>1
<1>8. SubSeq(a, 1, n) \o SubSeq(a, n + 1, Len(a)) = SubSeq(a, 1, Len(a))
  <2>1. 1 \in 1..(Len(a) + 1) /\ n \in 1 - 1..Len(a) /\ Len(a) \in n..Len(a)
    BY <1>1
  <2> QED
    BY <2>1, ConcatAdjacentSubSeq
<1>9. SubSeq(a, 1, Len(a)) = a
  BY SubSeqFull
<1> QED
  BY <1>4, <1>5, <1>6, <1>7, <1>8, <1>9

-----------------------------------------------------------------------------
(* The inductive invariant, in named parts.                                *)

Logged == [bytes : Seq(Byte), match : Nat]

Types ==
  /\ {script, written, pipe, line} \subseteq [Streams -> Seq(Byte)]
  /\ reader \in [Streams -> {"reading", "sending", "last", "over"}]
  /\ queue \in Seq(Line) /\ batch \in Seq(Line)
  /\ log \in [Streams -> Seq(Logged)]
  /\ owed \in [Streams -> Nat]
  /\ child \in {"alive", "exited"}
  /\ heir \in BOOLEAN /\ lost \in BOOLEAN
  /\ loc \in Locations

\* The numbers of filters are those of their positions.
Filtering ==
  \E n \in Nat :
    /\ DOMAIN filters = 1..n
    /\ \A i \in 1..n : /\ filters[i].trigger \in Seq(Byte) /\ filters[i].trigger # <<>>
                       /\ filters[i].wildcards \in BOOLEAN

Bounds ==
  /\ Len(queue) <= QueueCapacity /\ Len(batch) <= OutputBatch
  /\ \A s \in Streams :
       /\ Len(line[s]) <= MaxOutputLine
       /\ reader[s] = "reading" => Len(line[s]) < MaxOutputLine
       /\ Len(pipe[s]) <= PipeCapacity
       /\ owed[s] <= Len(written[s])

\* The thread holds lines of a batch only while it handles one.
Batches == batch # <<>> <=> loc = "batch"

\* The pipe holds the end of what was written.
Consumed(s) == Before(written[s], pipe[s])
Pipes == \A s \in Streams : written[s] = Consumed(s) \o pipe[s]

\* The last line is sent when nobody can write any more.
Endings ==
  \A s \in Streams :
    reader[s] = "last" \/ (reader[s] = "over" /\ loc # "gone") =>
      /\ child = "exited" /\ ~heir /\ pipe[s] = <<>>
      /\ reader[s] = "over" => line[s] = <<>>

\* A line that is being read is the end of what was read, and has no newline.
Partial ==
  \A s \in Streams :
    reader[s] = "reading" =>
      /\ Consumed(s) = Before(Consumed(s), line[s]) \o line[s]
      /\ \A i \in 1..Len(line[s]) : line[s][i] # LF

\* The records of a stream that are in the log or on their way to it.
Recs(s) == Texts(log[s]) \o Texts(Of(s, batch \o queue))

\* All that was read is in them or in the line.
Kept ==
  ~lost /\ loc # "gone" =>
    \A s \in Streams :
      Letters(Consumed(s)) = Letters(FlattenSeq(Recs(s))) \o Letters(line[s])

CaptureInv ==
  Types /\ Filtering /\ Bounds /\ Batches /\ Pipes /\ Endings /\ Partial /\ Kept

\* inspect_bytes: the first filter that matches, or none.
LEMMA Inspected ==
  ASSUME Filtering, NEW l
  PROVE  LET n == inspect_bytes(filters, l) IN
           /\ n \in Nat
           /\ n = 0 => \A i \in DOMAIN filters : ~trigger_matches(l, filters[i])
           /\ n # 0 => /\ n \in DOMAIN filters /\ trigger_matches(l, filters[n])
                       /\ \A i \in 1..(n - 1) : ~trigger_matches(l, filters[i])
<1> DEFINE A == {i \in DOMAIN filters : trigger_matches(l, filters[i])}
           n == inspect_bytes(filters, l)
<1>1. PICK m \in Nat : DOMAIN filters = 1..m
  BY DEF Filtering
<1>2. n = IF A = {} THEN 0 ELSE Min(A)
  BY DEF inspect_bytes, Min
<1>3. A \in SUBSET Nat /\ 0 \notin A
  BY <1>1
<1>4. \A i \in DOMAIN filters : i \notin A => ~trigger_matches(l, filters[i])
  OBVIOUS
<1>5. \A i \in A : i \in DOMAIN filters /\ trigger_matches(l, filters[i])
  OBVIOUS
<1> HIDE DEF A, n
<1>6. CASE A = {}
  BY <1>2, <1>4, <1>6 DEF n
<1>7. CASE A # {}
  <2>1. n \in A /\ \A y \in A : n <= y
    BY <1>2, <1>3, <1>7, LeastPosition
  <2>2. n \in 1..m /\ n # 0
    BY <1>1, <1>3, <1>5, <2>1
  <2>3. ASSUME NEW i \in 1..(n - 1) PROVE ~trigger_matches(l, filters[i])
    <3>1. i \in 1..m /\ i < n
      BY <2>2
    <3>2. i \notin A
      BY <2>1, <2>2, <3>1
    <3> QED
      BY <1>1, <1>4, <3>1, <3>2
  <2> QED
    BY <1>5, <2>1, <2>2, <2>3 DEF n
<1> QED
  BY <1>6, <1>7

\* Types of what a step leaves as it is.
LEMMA TypesOf ==
  ASSUME Types
  PROVE  /\ \A s \in Streams : /\ script[s] \in Seq(Byte) /\ written[s] \in Seq(Byte)
                               /\ pipe[s] \in Seq(Byte) /\ line[s] \in Seq(Byte)
                               /\ log[s] \in Seq(Logged) /\ owed[s] \in Nat
         /\ script \in [Streams -> Seq(Byte)] /\ written \in [Streams -> Seq(Byte)]
         /\ pipe \in [Streams -> Seq(Byte)] /\ line \in [Streams -> Seq(Byte)]
<1>1. /\ script \in [Streams -> Seq(Byte)] /\ written \in [Streams -> Seq(Byte)]
      /\ pipe \in [Streams -> Seq(Byte)] /\ line \in [Streams -> Seq(Byte)]
      /\ log \in [Streams -> Seq(Logged)] /\ owed \in [Streams -> Nat]
  BY DEF Types
<1> QED
  BY <1>1

\* The records of a stream are texts.
LEMMA RecsType ==
  ASSUME Types, NEW s \in Streams
  PROVE  /\ Texts(log[s]) \in Seq(Seq(Byte)) /\ Len(Texts(log[s])) = Len(log[s])
         /\ \A q \in Seq(Line) : Texts(Of(s, q)) \in Seq(Seq(Byte))
         /\ batch \o queue \in Seq(Line)
         /\ Recs(s) \in Seq(Seq(Byte))
<1>1. Logged \subseteq Texted /\ Line \subseteq Texted
  BY DEF Logged, Texted
<1>2. log[s] \in Seq(Texted)
  BY <1>1, TypesOf, SeqMonotonic
<1>3. Texts(log[s]) \in Seq(Seq(Byte)) /\ Len(Texts(log[s])) = Len(log[s])
  BY <1>2, TextsType
<1>4. ASSUME NEW q \in Seq(Line) PROVE Texts(Of(s, q)) \in Seq(Seq(Byte))
  <2>1. Of(s, q) \in Seq(Texted)
    BY <1>1, OfType, SeqMonotonic
  <2> QED
    BY <2>1, TextsType
<1>5. batch \o queue \in Seq(Line)
  BY ConcatProperties DEF Types
<1>6. Texts(Of(s, batch \o queue)) \in Seq(Seq(Byte))
  BY <1>4, <1>5
<1>7. Recs(s) \in Seq(Seq(Byte))
  BY <1>3, <1>6, ConcatProperties DEF Recs
<1> QED
  BY <1>3, <1>4, <1>5, <1>7

\* The texts of the lines of a stream, of two sequences of lines.
LEMMA TextsOfConcat ==
  ASSUME NEW s, NEW a \in Seq(Line), NEW b \in Seq(Line)
  PROVE  Texts(Of(s, a \o b)) = Texts(Of(s, a)) \o Texts(Of(s, b))
<1>1. Line \subseteq Texted
  BY DEF Texted
<1>2. Of(s, a) \in Seq(Texted) /\ Of(s, b) \in Seq(Texted)
  BY <1>1, OfType, SeqMonotonic
<1>3. Of(s, a \o b) = Of(s, a) \o Of(s, b)
  BY OfConcat
<1> QED
  BY <1>2, <1>3, TextsConcat

\* ... and of one line.
LEMMA TextsOfSingle ==
  ASSUME NEW s, NEW x \in Line
  PROVE  Texts(Of(s, <<x>>)) = IF x.stream = s THEN <<x.bytes>> ELSE <<>>
<1>1. CASE x.stream = s
  BY <1>1, OfSingle, TextsSingle
<1>2. CASE x.stream # s
  <2>1. Of(s, <<x>>) = <<>>
    BY <1>2, OfSingle
  <2>2. Texts(<<>>) = <<>>
    <3> DEFINE e == <<>>
    <3>1. e \in Seq(Texted) /\ Len(e) = 0
      BY EmptySeq
    <3> HIDE DEF e
    <3>2. Texts(e) \in Seq(Seq(Byte)) /\ Len(Texts(e)) = 0
      BY <3>1, TextsType
    <3>3. Texts(e) = <<>>
      BY <3>2, EmptySeq
    <3> QED
      BY <3>3 DEF e
  <2> QED
    BY <1>2, <2>1, <2>2
<1> QED
  BY <1>1, <1>2

\* record_output moves the first of the lines into the log.
LEMMA RecordStep ==
  ASSUME Types, Filtering, NEW x \in Line, NEW rest \in Seq(Line), Record(x)
  PROVE  /\ log' \in [Streams -> Seq(Logged)]
         /\ \A s \in Streams : Texts(log'[s]) \o Texts(Of(s, rest))
                               = Texts(log[s]) \o Texts(Of(s, <<x>> \o rest))
         /\ \A s \in Streams : IF s = x.stream
                               THEN log'[s] = Append(log[s], [bytes |-> x.bytes,
                                               match |-> inspect_bytes(filters, x.bytes)])
                               ELSE log'[s] = log[s]
<1> DEFINE r == [bytes |-> x.bytes, match |-> inspect_bytes(filters, x.bytes)]
<1>1. inspect_bytes(filters, x.bytes) \in Nat
  BY Inspected
<1>2. x.stream \in Streams /\ x.bytes \in Seq(Byte)
  BY DEF Line
<1>3. r \in Logged /\ r.bytes = x.bytes
  BY <1>1, <1>2 DEF Logged
<1>4. log' = [log EXCEPT ![x.stream] = Append(@, r)]
  BY DEF Record
<1> HIDE DEF r
<1>5. log \in [Streams -> Seq(Logged)]
  BY DEF Types
<1>6. log' \in [Streams -> Seq(Logged)]
  <2>1. Append(log[x.stream], r) \in Seq(Logged)
    BY <1>2, <1>3, <1>5, AppendProperties
  <2> QED
    BY <1>4, <1>5, <2>1
<1>7. ASSUME NEW s \in Streams
      PROVE  Texts(log'[s]) \o Texts(Of(s, rest)) = Texts(log[s]) \o Texts(Of(s, <<x>> \o rest))
  <2> DEFINE T == Seq(Byte)
             R == Texts(Of(s, rest))
             L == Texts(log[s])
  <2>1. R \in Seq(T) /\ L \in Seq(T)
    BY RecsType
  <2>2. <<x>> \in Seq(Line)
    OBVIOUS
  <2>3. Texts(Of(s, <<x>> \o rest)) = Texts(Of(s, <<x>>)) \o R
    BY <2>2, TextsOfConcat
  <2>4. CASE s # x.stream
    <3>1. log'[s] = log[s]
      BY <1>4, <1>5, <2>4
    <3>2. Texts(Of(s, <<x>>)) = <<>>
      BY <2>4, TextsOfSingle
    <3> HIDE DEF R, L, T
    <3>3. Texts(Of(s, <<x>> \o rest)) = R
      BY <2>1, <2>3, <3>2, ConcatEmptySeq
    <3> QED
      BY <3>1, <3>3 DEF R, L
  <2>5. CASE s = x.stream
    <3>1. log'[s] = Append(log[s], r)
      BY <1>4, <1>5, <2>5
    <3>2. Texts(log'[s]) = L \o <<x.bytes>>
      <4>1. Logged \subseteq Texted
        BY DEF Logged, Texted
      <4>2. log[s] \in Seq(Texted) /\ r \in Texted
        BY <1>3, <1>5, <4>1, SeqMonotonic
      <4>3. Append(log[s], r) = log[s] \o <<r>> /\ <<r>> \in Seq(Texted)
        BY <4>2, AppendIsConcat
      <4>4. Texts(log[s] \o <<r>>) = Texts(log[s]) \o Texts(<<r>>)
        BY <4>2, <4>3, TextsConcat
      <4>5. Texts(<<r>>) = <<x.bytes>>
        BY <1>3, TextsSingle
      <4> QED
        BY <3>1, <4>3, <4>4, <4>5
    <3>3. Texts(Of(s, <<x>>)) = <<x.bytes>>
      BY <2>5, TextsOfSingle
    <3>4. <<x.bytes>> \in Seq(T)
      BY <1>2
    <3> HIDE DEF R, L, T
    <3>5. L \o (<<x.bytes>> \o R) = (L \o <<x.bytes>>) \o R
      BY <2>1, <3>4, Associative
    <3> QED
      BY <2>3, <3>2, <3>3, <3>5 DEF R, L
  <2> QED
    BY <2>4, <2>5
<1>8. ASSUME NEW s \in Streams
      PROVE  IF s = x.stream THEN log'[s] = Append(log[s], r) ELSE log'[s] = log[s]
  BY <1>4, <1>5
<1> QED
  BY <1>6, <1>7, <1>8 DEF r

\* A sequence that is not empty, and its first element.
LEMMA HeadFirst ==
  ASSUME NEW S, NEW a \in Seq(S), a # <<>>
  PROVE  /\ Head(a) \in S /\ Tail(a) \in Seq(S) /\ Len(Tail(a)) = Len(a) - 1
         /\ a = <<Head(a)>> \o Tail(a)
<1>1. Head(a) \in S /\ Tail(a) \in Seq(S) /\ Len(Tail(a)) = Len(a) - 1
  BY HeadTailProperties
<1>2. Len(a) \in Nat /\ Len(a) # 0
  BY EmptySeq, LenProperties
<1>3. Tail(a) = SubSeq(a, 2, Len(a))
  BY TailIsSubSeq
<1>4. 1 \in 1..Len(a) /\ Len(a) \in 1..Len(a) /\ 1 + 1 = 2
  BY <1>2
<1>5. SubSeq(a, 1, Len(a)) = <<a[1]>> \o SubSeq(a, 1 + 1, Len(a))
  BY <1>4, SubSeqRecursiveFirst
<1>6. SubSeq(a, 1, Len(a)) = a
  BY SubSeqFull
<1>7. Head(a) = a[1]
  OBVIOUS
<1> QED
  BY <1>1, <1>3, <1>4, <1>5, <1>6, <1>7

-----------------------------------------------------------------------------
(* The steps of the supervisor thread.                                     *)

\* What the thread does to the lines it takes leaves the processes' output and
\* the readers alone, and no record of a stream is lost.
LEMMA ThreadKeeps ==
  ASSUME CaptureInv,
         UNCHANGED <<script, written, heir, pipe, line, reader, filters>>,
         UNCHANGED <<child, owed>> \/ ChildGone,
         loc # "gone", loc' \in Locations,
         queue' \in Seq(Line), Len(queue') <= Len(queue),
         batch' \in Seq(Line), Len(batch') <= OutputBatch,
         batch' # <<>> <=> loc' = "batch",
         log' \in [Streams -> Seq(Logged)],
         lost' \in BOOLEAN, lost => lost',
         ~lost' /\ loc' # "gone" => \A s \in Streams : Recs(s)' = Recs(s)
  PROVE  CaptureInv'
<1>0. Types /\ Filtering /\ Bounds /\ Batches /\ Pipes /\ Endings /\ Partial /\ Kept
  BY DEF CaptureInv
<1>1. Len(queue) \in Nat /\ Len(queue') \in Nat /\ \A s \in Streams : Len(written[s]) \in Nat
  BY <1>0, TypesOf, LenProperties DEF Types
<1>2. Types'
  <2>1. child' \in {"alive", "exited"} /\ owed' \in [Streams -> Nat]
    BY <1>0, <1>1 DEF Types, ChildGone
  <2>2. {script', written', pipe', line'} \subseteq [Streams -> Seq(Byte)]
    BY <1>0 DEF Types
  <2> QED
    BY <1>0, <2>1, <2>2 DEF Types
<1>3. Filtering'
  BY <1>0 DEF Filtering
<1>4. Bounds'
  <2>1. Len(queue') <= QueueCapacity
    BY <1>0, <1>1, OutputAssumption DEF Bounds
  <2>2. ASSUME NEW s \in Streams PROVE owed'[s] <= Len(written'[s])
    BY <1>0, <1>1 DEF Bounds, ChildGone
  <2> QED
    BY <1>0, <2>1, <2>2 DEF Bounds
<1>5. Batches'
  BY DEF Batches
<1>6. \A s \in Streams : Consumed(s)' = Consumed(s)
  BY DEF Consumed
<1>7. Pipes'
  BY <1>0, <1>6 DEF Pipes
<1>8. Endings'
  <2>1. ASSUME NEW s \in Streams, reader[s] \in {"last", "over"}
        PROVE  child' = "exited" /\ ~heir' /\ pipe'[s] = <<>> /\ (reader'[s] = "over" => line'[s] = <<>>)
    BY <1>0, <2>1 DEF Endings, ChildGone
  <2> QED
    BY <2>1 DEF Endings
<1>9. Partial'
  BY <1>0, <1>6 DEF Partial
<1>10. Kept'
  <2> SUFFICES ASSUME ~lost', loc' # "gone", NEW s \in Streams
               PROVE  Letters(Consumed(s)') = Letters(FlattenSeq(Recs(s)')) \o Letters(line'[s])
    BY DEF Kept
  <2>1. ~lost
    OBVIOUS
  <2>2. Letters(Consumed(s)) = Letters(FlattenSeq(Recs(s))) \o Letters(line[s])
    BY <1>0, <2>1 DEF Kept
  <2>3. Recs(s)' = Recs(s) /\ Consumed(s)' = Consumed(s) /\ line'[s] = line[s]
    BY <1>6
  <2> QED
    BY <2>2, <2>3
<1> QED
  BY <1>2, <1>3, <1>4, <1>5, <1>7, <1>8, <1>9, <1>10 DEF CaptureInv

\* What every step of the thread leaves alone: the readers, and the records.
ThreadKept ==
  /\ UNCHANGED <<written, pipe, line, reader>>
  /\ loc # "gone" /\ (lost => lost')
  /\ ~lost' => \A s \in Streams : Recs(s)' = Recs(s)

\* shutdown_and_drain, as it changes what the other steps of the thread leave.
LEMMA ShutdownStep ==
  ASSUME Types, Shutdown
  PROVE  /\ UNCHANGED <<script, written, heir>>
         /\ UNCHANGED <<child, owed>> \/ ChildGone
         /\ loc' \in Locations \ {"batch", "gone"}
  BY DEF Shutdown, process, Locations, ChildGone, Types

\* The steps that only move the thread.
LEMMA MoveStep ==
  ASSUME CaptureInv, Stop \/ NoticeExit \/ StopTimeout \/ DrainEnds
  PROVE  CaptureInv' /\ ThreadKept
<1>0. Types /\ Batches /\ Bounds
  BY DEF CaptureInv
<1>1. /\ UNCHANGED <<script, written, heir, pipe, line, reader, filters, queue, batch, log, lost>>
      /\ UNCHANGED <<child, owed>> \/ ChildGone
      /\ loc' \in Locations \ {"batch"}
      /\ loc \notin {"gone", "batch"}
  <2>1. CASE Stop
    BY <1>0, <2>1, ShutdownStep DEF Stop, readers
  <2>2. CASE NoticeExit
    BY <2>2 DEF NoticeExit, process, readers, Locations
  <2>3. CASE StopTimeout
    BY <2>3 DEF StopTimeout, readers, Locations
  <2>4. CASE DrainEnds
    BY <2>4 DEF DrainEnds, process, readers, Locations
  <2> QED
    BY <2>1, <2>2, <2>3, <2>4
<1>2. batch = <<>>
  BY <1>0, <1>1 DEF Batches
<1>3. \A s \in Streams : Recs(s)' = Recs(s)
  BY <1>1 DEF Recs
<1>4. /\ queue' \in Seq(Line) /\ Len(queue') <= Len(queue)
      /\ batch' \in Seq(Line) /\ Len(batch') <= OutputBatch
      /\ log' \in [Streams -> Seq(Logged)] /\ lost' \in BOOLEAN
  BY <1>0, <1>1, LenProperties DEF Types, Bounds
<1>5. ThreadKept
  BY <1>1, <1>3 DEF ThreadKept
<1> QED
  BY <1>1, <1>2, <1>3, <1>4, <1>5, ThreadKeeps

\* A line of the channel is logged: the one that wakes the thread, or one of the
\* last.
LEMMA QueueLineStep ==
  ASSUME CaptureInv, FirstLine \/ LastLines
  PROVE  CaptureInv' /\ ThreadKept
<1>0. Types /\ Filtering /\ Batches /\ Bounds
  BY DEF CaptureInv
<1>1. /\ UNCHANGED <<script, written, heir, pipe, line, reader, filters, batch, lost>>
      /\ UNCHANGED <<child, owed>> \/ ChildGone
      /\ loc' \in Locations \ {"batch", "gone"} /\ loc \notin {"gone", "batch"}
      /\ queue # <<>> /\ Record(Head(queue)) /\ queue' = Tail(queue)
  <2>1. CASE FirstLine
    <3>1. CASE EndsInvocation(Head(queue))
      <4>1. Shutdown
        BY <2>1, <3>1 DEF FirstLine
      <4> QED
        BY <1>0, <2>1, <4>1, ShutdownStep DEF FirstLine, readers
    <3>2. CASE ~EndsInvocation(Head(queue))
      <4>1. loc' = "collect" /\ UNCHANGED process
        BY <2>1, <3>2 DEF FirstLine
      <4> QED
        BY <2>1, <4>1 DEF FirstLine, readers, process, Locations
    <3> QED
      BY <3>1, <3>2
  <2>2. CASE LastLines
    BY <2>2 DEF LastLines, process, readers, Locations
  <2> QED
    BY <2>1, <2>2
<1>2. batch = <<>> /\ batch' = <<>>
  BY <1>0, <1>1 DEF Batches
<1>3. queue \in Seq(Line)
  BY <1>0 DEF Types
<1> DEFINE x == Head(queue)
           rest == Tail(queue)
<1>4. x \in Line /\ rest \in Seq(Line) /\ Len(rest) = Len(queue) - 1 /\ queue = <<x>> \o rest
  BY <1>1, <1>3, HeadFirst
<1>5. batch \o queue = <<x>> \o rest /\ batch' \o queue' = rest
  BY <1>1, <1>2, <1>3, <1>4, ConcatEmptySeq
<1>6. Record(x)
  BY <1>1
<1> HIDE DEF x, rest
<1>7. /\ log' \in [Streams -> Seq(Logged)]
      /\ \A s \in Streams : Texts(log'[s]) \o Texts(Of(s, rest))
                            = Texts(log[s]) \o Texts(Of(s, <<x>> \o rest))
  BY <1>0, <1>4, <1>6, RecordStep
<1>8. \A s \in Streams : Recs(s)' = Recs(s)
  BY <1>5, <1>7 DEF Recs
<1>9. Len(queue) \in Nat /\ queue' = rest /\ Len(queue') <= Len(queue) /\ queue' \in Seq(Line)
  BY <1>1, <1>3, <1>4, LenProperties DEF rest
<1>10. batch' \in Seq(Line) /\ Len(batch') <= OutputBatch /\ lost' \in BOOLEAN
  BY <1>0, <1>1 DEF Types, Bounds
<1>11. ThreadKept
  BY <1>1, <1>8 DEF ThreadKept
<1> QED
  BY <1>1, <1>2, <1>7, <1>8, <1>9, <1>10, <1>11, ThreadKeeps

\* The lines behind the first are taken from the channel.
LEMMA CollectStep ==
  ASSUME CaptureInv, Collect
  PROVE  CaptureInv' /\ ThreadKept
<1>0. Types /\ Batches /\ Bounds
  BY DEF CaptureInv
<1> DEFINE n == Min({Len(queue), OutputBatch})
<1>1. /\ UNCHANGED <<script, written, heir, pipe, line, reader, filters, log, lost, child, owed>>
      /\ loc = "collect"
      /\ batch' = SubSeq(queue, 1, n) /\ queue' = SubSeq(queue, n + 1, Len(queue))
      /\ loc' = IF n = 0 THEN "loop" ELSE "batch"
  BY DEF Collect, process, readers
<1>2. queue \in Seq(Line) /\ Len(queue) \in Nat /\ OutputBatch \in Nat
  BY <1>0, LenProperties, OutputAssumption DEF Types
<1>3. n \in 0..Len(queue) /\ n <= OutputBatch
  BY <1>2, SmallerOfTwo
<1> HIDE DEF n
<1>4. /\ batch' \in Seq(Line) /\ Len(batch') = n
      /\ queue' \in Seq(Line) /\ Len(queue') = Len(queue) - n
      /\ queue = batch' \o queue'
  BY <1>1, <1>2, <1>3, CutAt, ZenonT(30)
<1>5. batch = <<>>
  BY <1>0, <1>1 DEF Batches
<1>6. batch \o queue = batch' \o queue'
  BY <1>2, <1>4, <1>5, ConcatEmptySeq
<1>7. \A s \in Streams : Recs(s)' = Recs(s)
  BY <1>1, <1>6 DEF Recs
<1>8. batch' # <<>> <=> loc' = "batch"
  <2>1. batch' # <<>> <=> n # 0
    BY <1>4, EmptySeq
  <2> QED
    BY <1>1, <2>1
<1>9. Len(queue') <= Len(queue) /\ Len(batch') <= OutputBatch
  BY <1>2, <1>3, <1>4
<1>10. loc' \in Locations /\ loc # "gone" /\ lost' \in BOOLEAN /\ log' \in [Streams -> Seq(Logged)]
  BY <1>0, <1>1 DEF Locations, Types
<1>11. ThreadKept
  BY <1>1, <1>7 DEF ThreadKept
<1> QED
  BY <1>1, <1>4, <1>7, <1>8, <1>9, <1>10, <1>11, ThreadKeeps

\* A line of the batch is logged; the rest of the batch stays, or is dropped.
LEMMA BatchLineStep ==
  ASSUME CaptureInv, BatchLine
  PROVE  CaptureInv' /\ ThreadKept
<1>0. Types /\ Filtering /\ Batches /\ Bounds
  BY DEF CaptureInv
<1>1. /\ UNCHANGED <<pipe, line, reader, filters, queue>>
      /\ loc = "batch" /\ Record(Head(batch))
  BY DEF BatchLine, readers
<1>2. batch \in Seq(Line) /\ queue \in Seq(Line) /\ batch # <<>> /\ Len(batch) \in Nat
  BY <1>0, <1>1, LenProperties DEF Types, Batches
<1> DEFINE x == Head(batch)
           rest == Tail(batch)
<1>3. x \in Line /\ rest \in Seq(Line) /\ Len(rest) = Len(batch) - 1 /\ batch = <<x>> \o rest
  BY <1>2, HeadFirst
<1>4. Record(x)
  BY <1>1
<1>5. \/ /\ batch' = rest /\ loc' = (IF batch' = <<>> THEN "loop" ELSE "batch")
         /\ UNCHANGED <<script, written, heir, child, owed, lost>>
      \/ /\ batch' = <<>> /\ lost' = (lost \/ rest # <<>>)
         /\ UNCHANGED <<script, written, heir>>
         /\ UNCHANGED <<child, owed>> \/ ChildGone
         /\ loc' \in Locations \ {"batch", "gone"}
  <2>1. CASE EndsInvocation(Head(batch))
    <3>1. Shutdown /\ batch' = <<>> /\ lost' = (lost \/ rest # <<>>)
      BY <2>1 DEF BatchLine
    <3> QED
      BY <1>0, <3>1, ShutdownStep
  <2>2. CASE ~EndsInvocation(Head(batch))
    <3>1. batch' = rest /\ loc' = (IF batch' = <<>> THEN "loop" ELSE "batch") /\ UNCHANGED <<process, lost>>
      BY <2>2 DEF BatchLine
    <3> QED
      BY <3>1 DEF process
  <2> QED
    BY <2>1, <2>2
<1> HIDE DEF x, rest
<1>6. rest \o queue \in Seq(Line)
  BY <1>2, <1>3, ConcatProperties
<1>7. batch \o queue = <<x>> \o (rest \o queue)
  <2>1. <<x>> \in Seq(Line)
    BY <1>3
  <2>2. <<x>> \o (rest \o queue) = (<<x>> \o rest) \o queue
    BY <1>2, <1>3, <2>1, Associative
  <2> QED
    BY <1>3, <2>2
<1>8. /\ log' \in [Streams -> Seq(Logged)]
      /\ \A s \in Streams : Texts(log'[s]) \o Texts(Of(s, rest \o queue))
                            = Texts(log[s]) \o Texts(Of(s, <<x>> \o (rest \o queue)))
  BY <1>0, <1>3, <1>4, <1>6, RecordStep
<1>9. ~lost' => batch' = rest
  BY <1>5
<1>10. ~lost' => \A s \in Streams : Recs(s)' = Recs(s)
  BY <1>1, <1>7, <1>8, <1>9 DEF Recs
<1>11. /\ batch' \in Seq(Line) /\ Len(batch') <= OutputBatch
       /\ batch' # <<>> <=> loc' = "batch"
  <2>1. Len(rest) <= OutputBatch /\ Len(<<>>) <= OutputBatch /\ <<>> \in Seq(Line)
    BY <1>0, <1>2, <1>3, OutputAssumption, EmptySeq DEF Bounds
  <2> QED
    BY <1>3, <1>5, <2>1
<1>12. /\ UNCHANGED <<script, written, heir>> /\ (UNCHANGED <<child, owed>> \/ ChildGone)
       /\ lost' \in BOOLEAN /\ (lost => lost') /\ loc' \in Locations
  BY <1>0, <1>5 DEF Types, Locations
<1>13. queue' \in Seq(Line) /\ Len(queue') <= Len(queue)
  BY <1>1, <1>2, LenProperties
<1>14. ThreadKept
  BY <1>1, <1>10, <1>12 DEF ThreadKept
<1> QED
  BY <1>1, <1>8, <1>10, <1>11, <1>12, <1>13, <1>14, ThreadKeeps

\* What was read is a sequence of bytes.
LEMMA ConsumedType ==
  ASSUME NEW s, written[s] \in Seq(Byte), pipe[s] \in Seq(Byte)
  PROVE  Consumed(s) \in Seq(Byte)
<1> DEFINE w == written[s]
           n == Len(w) - Len(pipe[s])
<1>1. Len(w) \in Nat /\ Len(pipe[s]) \in Nat
  BY LenProperties
<1>2. n \in Int /\ 1 \in Int /\ \A i \in 1..n : i \in 1..Len(w)
  BY <1>1
<1>3. \A i \in 1..n : w[i] \in Byte
  BY <1>2, ElementOfSeq
<1> HIDE DEF n
<1>4. SubSeq(w, 1, n) \in Seq(Byte)
  BY <1>2, <1>3, SubSeqProperties
<1> QED
  BY <1>4 DEF Consumed, Before, n

-----------------------------------------------------------------------------
(* The steps of the processes.                                             *)

\* A byte is written: it is the last one in the pipe.
LEMMA WriteStep ==
  ASSUME CaptureInv, NEW s \in Streams, Write(s)
  PROVE  CaptureInv'
<1>0. Types /\ Filtering /\ Bounds /\ Batches /\ Pipes /\ Endings /\ Partial /\ Kept
  BY DEF CaptureInv
<1> DEFINE x == Head(script[s])
<1>1. /\ child = "alive" \/ heir
      /\ script[s] # <<>> /\ reader[s] # "over" /\ Len(pipe[s]) < PipeCapacity
      /\ script' = [script EXCEPT ![s] = Tail(@)]
      /\ written' = [written EXCEPT ![s] = Append(@, x)]
      /\ pipe' = [pipe EXCEPT ![s] = Append(@, x)]
      /\ UNCHANGED <<line, reader, queue, child, heir, filters, loc, batch, log, lost, owed>>
  BY DEF Write, thread
<1>2. /\ script \in [Streams -> Seq(Byte)] /\ written \in [Streams -> Seq(Byte)]
      /\ pipe \in [Streams -> Seq(Byte)] /\ line \in [Streams -> Seq(Byte)]
  BY <1>0, TypesOf
<1>3. x \in Byte /\ Tail(script[s]) \in Seq(Byte)
  BY <1>1, <1>2, HeadTailProperties
<1> HIDE DEF x
<1>4. /\ Append(written[s], x) \in Seq(Byte) /\ Len(Append(written[s], x)) = Len(written[s]) + 1
      /\ Append(pipe[s], x) \in Seq(Byte) /\ Len(Append(pipe[s], x)) = Len(pipe[s]) + 1
      /\ Len(written[s]) \in Nat /\ Len(pipe[s]) \in Nat
  BY <1>2, <1>3, AppendProperties, LenProperties
<1>5. Types'
  <2>1. script' \in [Streams -> Seq(Byte)] /\ written' \in [Streams -> Seq(Byte)] /\ pipe' \in [Streams -> Seq(Byte)]
    BY <1>1, <1>2, <1>3, <1>4
  <2> QED
    BY <1>0, <1>1, <1>2, <2>1 DEF Types
<1>6. Filtering'
  BY <1>0, <1>1 DEF Filtering
<1>7. Bounds'
  <2>1. ASSUME NEW q \in Streams PROVE Len(pipe'[q]) <= PipeCapacity /\ owed[q] <= Len(written'[q])
    <3>1. CASE q = s
      <4>1. Len(pipe'[q]) = Len(pipe[s]) + 1 /\ Len(written'[q]) = Len(written[s]) + 1
        BY <1>1, <1>2, <1>4, <3>1
      <4>2. owed[s] \in Nat /\ owed[s] <= Len(written[s])
        BY <1>0, TypesOf DEF Bounds
      <4> QED
        BY <1>1, <1>4, <3>1, <4>1, <4>2, OutputAssumption
    <3>2. CASE q # s
      <4>1. pipe'[q] = pipe[q] /\ written'[q] = written[q]
        BY <1>1, <1>2, <3>2
      <4> QED
        BY <1>0, <4>1 DEF Bounds
    <3> QED
      BY <3>1, <3>2
  <2> QED
    BY <1>0, <1>1, <2>1 DEF Bounds
<1>8. Batches'
  BY <1>0, <1>1 DEF Batches
<1>9. ASSUME NEW q \in Streams
      PROVE  Consumed(q)' = Consumed(q) /\ written'[q] = Consumed(q) \o pipe'[q]
  <2>1. CASE q = s
    <3>1. written[s] = Consumed(s) \o pipe[s] /\ Len(pipe[s]) <= Len(written[s]) /\ Consumed(s) \in Seq(Byte)
      <4>1. written[s] = Consumed(s) \o pipe[s]
        BY <1>0 DEF Pipes
      <4>2. Consumed(s) \in Seq(Byte)
        BY <1>2, <1>4, ConsumedType
      <4>3. Len(pipe[s]) <= Len(written[s])
        BY <1>2, <4>1, <4>2, BeforeConcat
      <4> QED
        BY <4>1, <4>2, <4>3
    <3>2. Consumed(s) \o Append(pipe[s], x) = Append(Consumed(s) \o pipe[s], x)
      BY <1>2, <1>3, <3>1, ConcatAppend, SMTT(30)
    <3>3. written'[s] = Append(written[s], x) /\ pipe'[s] = Append(pipe[s], x)
      BY <1>1, <1>2
    <3>4. written'[s] = Consumed(s) \o pipe'[s]
      BY <3>1, <3>2, <3>3
    <3>5. Before(written'[s], pipe'[s]) = Consumed(s)
      BY <1>4, <3>1, <3>3, <3>4, BeforeConcat
    <3> QED
      BY <2>1, <3>4, <3>5 DEF Consumed
  <2>2. CASE q # s
    <3>1. pipe'[q] = pipe[q] /\ written'[q] = written[q]
      BY <1>1, <1>2, <2>2
    <3> QED
      BY <1>0, <3>1 DEF Pipes, Consumed
  <2> QED
    BY <2>1, <2>2
<1>10. Pipes'
  BY <1>9 DEF Pipes
<1>11. Endings'
  <2>1. ASSUME NEW q \in Streams, reader[q] = "last" \/ (reader[q] = "over" /\ loc # "gone")
        PROVE  child = "exited" /\ ~heir /\ pipe'[q] = <<>> /\ (reader[q] = "over" => line[q] = <<>>)
    <3>1. child = "exited" /\ ~heir /\ pipe[q] = <<>> /\ (reader[q] = "over" => line[q] = <<>>)
      BY <1>0, <2>1 DEF Endings
    <3> QED
      BY <1>1, <3>1
  <2> QED
    BY <1>1, <2>1 DEF Endings
<1>12. Partial'
  BY <1>0, <1>1, <1>9 DEF Partial
<1>13. Kept'
  <2>1. \A q \in Streams : Recs(q)' = Recs(q)
    BY <1>1 DEF Recs
  <2> QED
    BY <1>0, <1>1, <1>9, <2>1 DEF Kept
<1> QED
  BY <1>5, <1>6, <1>7, <1>8, <1>10, <1>11, <1>12, <1>13 DEF CaptureInv

\* A process ends.
LEMMA ExitStep ==
  ASSUME CaptureInv, ChildExits \/ HeirExits
  PROVE  CaptureInv'
<1>0. Types /\ Filtering /\ Bounds /\ Batches /\ Pipes /\ Endings /\ Partial /\ Kept
  BY DEF CaptureInv
<1>1. /\ UNCHANGED <<script, written, pipe, line, reader, queue, filters, loc, batch, log, lost>>
      /\ \/ ChildGone /\ UNCHANGED heir
         \/ heir' = FALSE /\ UNCHANGED <<child, owed>>
  BY DEF ChildExits, HeirExits, readers, thread
<1>2. \A s \in Streams : Len(written[s]) \in Nat
  BY <1>0, TypesOf, LenProperties
<1>3. Types'
  <2>1. child' \in {"alive", "exited"} /\ owed' \in [Streams -> Nat] /\ heir' \in BOOLEAN
    BY <1>0, <1>1, <1>2 DEF Types, ChildGone
  <2>2. {script', written', pipe', line'} \subseteq [Streams -> Seq(Byte)]
    BY <1>0, <1>1 DEF Types
  <2> QED
    BY <1>0, <1>1, <2>1, <2>2 DEF Types
<1>4. Filtering' /\ Batches'
  BY <1>0, <1>1 DEF Filtering, Batches
<1>5. Bounds'
  <2>1. ASSUME NEW s \in Streams PROVE owed'[s] <= Len(written[s])
    BY <1>0, <1>1, <1>2 DEF Bounds, ChildGone
  <2> QED
    BY <1>0, <1>1, <2>1 DEF Bounds
<1>6. \A s \in Streams : Consumed(s)' = Consumed(s) /\ Recs(s)' = Recs(s)
  BY <1>1 DEF Consumed, Recs
<1>7. Pipes' /\ Partial' /\ Kept'
  BY <1>0, <1>1, <1>6 DEF Pipes, Partial, Kept
<1>8. Endings'
  BY <1>0, <1>1 DEF Endings, ChildGone
<1> QED
  BY <1>3, <1>4, <1>5, <1>7, <1>8 DEF CaptureInv

-----------------------------------------------------------------------------
(* The steps of the readers.                                               *)

\* A reader moves bytes from the pipe to its line.
LEMMA ReadBytes ==
  ASSUME CaptureInv, NEW s \in Streams, Read(s)
  PROVE  \E take \in Seq(Byte), rest \in Seq(Byte) :
           /\ take # <<>> /\ pipe[s] = take \o rest
           /\ Len(line[s]) + Len(take) <= MaxOutputLine
           /\ \A i \in 1..Len(take) : i < Len(take) => take[i] # LF
           /\ Consumed(s)' = Consumed(s) \o take
           /\ Consumed(s) \in Seq(Byte)
           /\ pipe' = [pipe EXCEPT ![s] = rest]
           /\ line' = [line EXCEPT ![s] = IF LineEnds(line[s] \o take)
                                          THEN Stripped(line[s] \o take) ELSE line[s] \o take]
           /\ reader' = [reader EXCEPT ![s] = IF LineEnds(line[s] \o take) THEN "sending" ELSE "reading"]
<1>0. Types /\ Bounds /\ Pipes
  BY DEF CaptureInv
<1> DEFINE n == Taken(s)
           p == pipe[s]
           take == SubSeq(p, 1, n)
           rest == SubSeq(p, n + 1, Len(p))
<1>1. /\ reader[s] = "reading" /\ p # <<>>
      /\ pipe' = [pipe EXCEPT ![s] = rest]
      /\ line' = [line EXCEPT ![s] = IF LineEnds(line[s] \o take)
                                     THEN Stripped(line[s] \o take) ELSE line[s] \o take]
      /\ reader' = [reader EXCEPT ![s] = IF LineEnds(line[s] \o take) THEN "sending" ELSE @]
      /\ UNCHANGED written
  BY DEF Read, process
<1>2. p \in Seq(Byte) /\ line[s] \in Seq(Byte) /\ Len(line[s]) \in Nat /\ Len(p) \in Nat /\ written[s] \in Seq(Byte)
  BY <1>0, TypesOf, LenProperties
<1>3. Len(line[s]) < MaxOutputLine
  BY <1>0, <1>1 DEF Bounds
<1>4. /\ n \in 1..Len(p) /\ Len(line[s]) + n <= MaxOutputLine
      /\ \A i \in 1..Len(p) : i < n => p[i] # LF
  BY <1>1, <1>2, <1>3, TakenBytes
<1> HIDE DEF n
<1>5. n \in 0..Len(p) /\ n # 0
  BY <1>2, <1>4
<1>6. /\ take \in Seq(Byte) /\ Len(take) = n
      /\ rest \in Seq(Byte)
      /\ p = take \o rest
      /\ \A i \in 1..n : take[i] = p[i]
  BY <1>2, <1>5, CutAt, ZenonT(30)
<1>7. Consumed(s) \in Seq(Byte)
  BY <1>2, ConsumedType
<1> HIDE DEF take, rest
<1>8. written[s] = (Consumed(s) \o take) \o rest
  <2>1. written[s] = Consumed(s) \o p
    BY <1>0 DEF Pipes
  <2>2. Consumed(s) \o (take \o rest) = (Consumed(s) \o take) \o rest
    BY <1>6, <1>7, Associative
  <2> QED
    BY <1>6, <2>1, <2>2
<1>9. Consumed(s) \o take \in Seq(Byte)
  BY <1>6, <1>7, ConcatProperties
<1>10. Before(written[s], rest) = Consumed(s) \o take
  BY <1>6, <1>8, <1>9, BeforeConcat
<1>11. pipe'[s] = rest /\ written' = written
  BY <1>0, <1>1, TypesOf
<1>12. Consumed(s)' = Consumed(s) \o take
  BY <1>10, <1>11 DEF Consumed
<1>13. take # <<>>
  BY <1>5, <1>6, EmptySeq
<1>14. \A i \in 1..Len(take) : i < Len(take) => take[i] # LF
  <2>1. \A i \in 1..n : i \in 1..Len(p)
    BY <1>2, <1>4
  <2> QED
    BY <1>4, <1>6, <2>1
<1>15. Len(line[s]) + Len(take) <= MaxOutputLine
  BY <1>4, <1>6
<1>16. reader' = [reader EXCEPT ![s] = IF LineEnds(line[s] \o take) THEN "sending" ELSE "reading"]
  BY <1>0, <1>1 DEF Types
<1> QED
  BY <1>1, <1>6, <1>7, <1>12, <1>13, <1>14, <1>15, <1>16

\* Bytes are read: they end a line, or are added to it.
LEMMA ReadStep ==
  ASSUME CaptureInv, NEW s \in Streams, Read(s)
  PROVE  CaptureInv'
<1>0. Types /\ Filtering /\ Bounds /\ Batches /\ Pipes /\ Endings /\ Partial /\ Kept
  BY DEF CaptureInv
<1>1. /\ reader[s] = "reading"
      /\ UNCHANGED <<script, written, child, heir, owed, queue, filters, loc, batch, log, lost>>
  BY DEF Read, process, thread
<1>2. PICK take \in Seq(Byte), rest \in Seq(Byte) :
           /\ take # <<>> /\ pipe[s] = take \o rest
           /\ Len(line[s]) + Len(take) <= MaxOutputLine
           /\ \A i \in 1..Len(take) : i < Len(take) => take[i] # LF
           /\ Consumed(s)' = Consumed(s) \o take
           /\ Consumed(s) \in Seq(Byte)
           /\ pipe' = [pipe EXCEPT ![s] = rest]
           /\ line' = [line EXCEPT ![s] = IF LineEnds(line[s] \o take)
                                          THEN Stripped(line[s] \o take) ELSE line[s] \o take]
           /\ reader' = [reader EXCEPT ![s] = IF LineEnds(line[s] \o take) THEN "sending" ELSE "reading"]
  BY ReadBytes
<1> DEFINE c == Consumed(s)
           l == line[s]
           bytes == l \o take
<1>3. /\ l \in Seq(Byte) /\ Len(l) \in Nat /\ Len(take) \in Nat /\ Len(take) > 0
      /\ pipe \in [Streams -> Seq(Byte)] /\ line \in [Streams -> Seq(Byte)]
      /\ reader \in [Streams -> {"reading", "sending", "last", "over"}]
      /\ written[s] \in Seq(Byte) /\ c \in Seq(Byte)
  <2>1. Len(take) \in Nat /\ Len(take) # 0
    BY <1>2, EmptySeq, LenProperties
  <2>2. Len(take) > 0
    BY <2>1
  <2>3. reader \in [Streams -> {"reading", "sending", "last", "over"}]
    BY <1>0 DEF Types
  <2>4. l \in Seq(Byte) /\ pipe \in [Streams -> Seq(Byte)] /\ line \in [Streams -> Seq(Byte)] /\ written[s] \in Seq(Byte)
    BY <1>0, TypesOf
  <2>5. Len(l) \in Nat
    BY <2>4, LenProperties
  <2> QED
    BY <1>2, <2>1, <2>2, <2>3, <2>4, <2>5
<1>4. /\ bytes \in Seq(Byte) /\ Len(bytes) = Len(l) + Len(take)
      /\ \A i \in 1..(Len(l) + Len(take)) : bytes[i] = IF i <= Len(l) THEN l[i] ELSE take[i - Len(l)]
  BY <1>3, ConcatProperties
<1>5. bytes # <<>> /\ Len(bytes) <= MaxOutputLine
  <2>1. Len(bytes) # 0 /\ Len(bytes) <= MaxOutputLine
    BY <1>2, <1>3, <1>4
  <2> QED
    BY <1>4, <2>1, EmptySeq
<1> HIDE DEF bytes
<1>6. Stripped(bytes) \in Seq(Byte) /\ Len(Stripped(bytes)) <= Len(bytes) /\ Letters(Stripped(bytes)) = Letters(bytes)
  BY <1>4, <1>5, StrippedLine
<1>7. /\ pipe'[s] = rest
      /\ line'[s] = IF LineEnds(bytes) THEN Stripped(bytes) ELSE bytes
      /\ reader'[s] = IF LineEnds(bytes) THEN "sending" ELSE "reading"
      /\ \A q \in Streams \ {s} : pipe'[q] = pipe[q] /\ line'[q] = line[q] /\ reader'[q] = reader[q]
      /\ reader' \in [Streams -> {"reading", "sending", "last", "over"}]
  BY <1>2, <1>3 DEF bytes
<1>8. pipe' \in [Streams -> Seq(Byte)] /\ line' \in [Streams -> Seq(Byte)]
  BY <1>2, <1>3, <1>4, <1>6 DEF bytes
<1>9. Types'
  BY <1>0, <1>1, <1>7, <1>8 DEF Types
<1>10. Filtering' /\ Batches'
  BY <1>0, <1>1 DEF Filtering, Batches
<1>11. Len(rest) \in Nat /\ Len(pipe[s]) = Len(take) + Len(rest)
  BY <1>2, ConcatProperties, LenProperties
<1>12. Bounds'
  <2>1. /\ Len(line'[s]) <= MaxOutputLine
        /\ reader'[s] = "reading" => Len(line'[s]) < MaxOutputLine
        /\ Len(pipe'[s]) <= PipeCapacity
    <3>1. Len(Stripped(bytes)) \in Nat /\ Len(bytes) \in Nat /\ MaxOutputLine \in Nat /\ PipeCapacity \in Nat
      BY <1>4, <1>6, LenProperties, OutputAssumption
    <3>2. Len(pipe[s]) <= PipeCapacity
      BY <1>0 DEF Bounds
    <3>3. Len(pipe'[s]) <= PipeCapacity
      BY <1>3, <1>7, <1>11, <3>1, <3>2
    <3>4. ~LineEnds(bytes) => Len(bytes) < MaxOutputLine
      BY <3>1 DEF LineEnds
    <3>5. Len(Stripped(bytes)) <= MaxOutputLine
      BY <1>5, <1>6, <3>1
    <3> QED
      BY <1>5, <1>7, <3>3, <3>4, <3>5
  <2>2. \A q \in Streams \ {s} :
          /\ Len(line'[q]) <= MaxOutputLine
          /\ reader'[q] = "reading" => Len(line'[q]) < MaxOutputLine
          /\ Len(pipe'[q]) <= PipeCapacity
    BY <1>0, <1>7 DEF Bounds
  <2>3. \A q \in Streams : owed'[q] <= Len(written'[q])
    BY <1>0, <1>1 DEF Bounds
  <2>4. Len(queue') <= QueueCapacity /\ Len(batch') <= OutputBatch
    BY <1>0, <1>1 DEF Bounds
  <2> QED
    BY <2>1, <2>2, <2>3, <2>4 DEF Bounds
<1>13. \A q \in Streams \ {s} : Consumed(q)' = Consumed(q)
  BY <1>1, <1>7 DEF Consumed
<1>14. Pipes'
  <2>1. written'[s] = Consumed(s)' \o pipe'[s]
    <3>1. written[s] = c \o (take \o rest)
      BY <1>0, <1>2 DEF Pipes
    <3>2. c \o (take \o rest) = (c \o take) \o rest
      <4>1. c \in Seq(Byte) /\ take \in Seq(Byte) /\ rest \in Seq(Byte)
        BY <1>2, <1>3
      <4> QED
        BY <4>1, Associative
    <3> QED
      BY <1>1, <1>2, <1>7, <3>1, <3>2
  <2>2. \A q \in Streams \ {s} : written'[q] = Consumed(q)' \o pipe'[q]
    BY <1>0, <1>1, <1>7, <1>13 DEF Pipes
  <2> QED
    BY <2>1, <2>2 DEF Pipes
<1>15. Endings'
  <2>1. reader'[s] \notin {"last", "over"}
    BY <1>7
  <2> QED
    BY <1>0, <1>1, <1>7, <2>1 DEF Endings
<1>16. Partial'
  <2>1. ASSUME reader'[s] = "reading"
        PROVE  /\ Consumed(s)' = Before(Consumed(s)', line'[s]) \o line'[s]
               /\ \A i \in 1..Len(line'[s]) : line'[s][i] # LF
    <3>1. ~LineEnds(bytes) /\ line'[s] = bytes
      BY <1>7, <2>1
    <3>2. c = Before(c, l) \o l /\ \A i \in 1..Len(l) : l[i] # LF
      BY <1>0, <1>1 DEF Partial
    <3>3. Before(c, l) \in Seq(Byte)
      <4>1. Len(c) \in Nat /\ Len(c) - Len(l) \in Int /\ \A i \in 1..(Len(c) - Len(l)) : i \in 1..Len(c)
        BY <1>3, LenProperties
      <4>2. \A i \in 1..(Len(c) - Len(l)) : c[i] \in Byte
        BY <1>3, <4>1, ElementOfSeq
      <4> DEFINE m == Len(c) - Len(l)
      <4>3. m \in Int /\ 1 \in Int /\ \A i \in 1..m : c[i] \in Byte
        BY <4>1, <4>2
      <4> HIDE DEF m
      <4>4. SubSeq(c, 1, m) \in Seq(Byte)
        BY <4>3, SubSeqProperties
      <4> QED
        BY <4>4 DEF Before, m
    <3>4. c \o take = Before(c, l) \o bytes
      <4>1. Before(c, l) \o (l \o take) = (Before(c, l) \o l) \o take
        <5>1. Before(c, l) \in Seq(Byte) /\ take \in Seq(Byte) /\ l \in Seq(Byte)
          BY <1>2, <1>3, <3>3
        <5>2. ASSUME NEW b \in Seq(Byte), NEW d \in Seq(Byte), NEW e \in Seq(Byte)
              PROVE  b \o (d \o e) = (b \o d) \o e
          BY Associative, SMTT(30)
        <5> QED
          BY <5>1, <5>2
      <4> QED
        BY <3>2, <4>1 DEF bytes
    <3>5. Before(c \o take, bytes) = Before(c, l)
      BY <1>4, <3>3, <3>4, BeforeConcat
    <3>6. \A i \in 1..Len(bytes) : bytes[i] # LF
      <4>1. Last(bytes) # LF
        BY <3>1 DEF LineEnds
      <4>2. Last(bytes) = bytes[Len(bytes)]
        BY DEF Last
      <4> SUFFICES ASSUME NEW i \in 1..Len(bytes) PROVE bytes[i] # LF
        OBVIOUS
      <4>3. CASE i = Len(bytes)
        BY <4>1, <4>2, <4>3
      <4>4. CASE i <= Len(l)
        <5>1. i \in 1..Len(l) /\ i \in 1..(Len(l) + Len(take))
          BY <1>3, <1>4, <4>4
        <5> QED
          BY <1>4, <3>2, <4>4, <5>1
      <4>5. CASE i # Len(bytes) /\ ~(i <= Len(l))
        <5>1. i \in 1..(Len(l) + Len(take)) /\ i - Len(l) \in 1..Len(take) /\ i - Len(l) < Len(take)
          <6>1. Len(l) \in Nat /\ Len(take) \in Nat /\ Len(bytes) = Len(l) + Len(take)
            BY <1>3, <1>4
          <6> HIDE DEF l
          <6> QED
            BY <4>5, <6>1
        <5> QED
          BY <1>2, <1>4, <4>5, <5>1
      <4> QED
        BY <4>3, <4>4, <4>5
    <3> QED
      BY <1>2, <3>1, <3>4, <3>5, <3>6
  <2>2. \A q \in Streams \ {s} : reader'[q] = "reading" =>
          /\ Consumed(q)' = Before(Consumed(q)', line'[q]) \o line'[q]
          /\ \A i \in 1..Len(line'[q]) : line'[q][i] # LF
    BY <1>0, <1>7, <1>13, ZenonT(30) DEF Partial
  <2> QED
    BY <2>1, <2>2 DEF Partial
<1>17. Kept'
  <2> SUFFICES ASSUME ~lost', loc' # "gone", NEW q \in Streams
               PROVE  Letters(Consumed(q)') = Letters(FlattenSeq(Recs(q)')) \o Letters(line'[q])
    BY DEF Kept
  <2>1. Letters(Consumed(q)) = Letters(FlattenSeq(Recs(q))) \o Letters(line[q])
    BY <1>0, <1>1 DEF Kept
  <2>2. Recs(q)' = Recs(q)
    BY <1>1 DEF Recs
  <2>3. CASE q = s
    <3>1. Letters(line'[s]) = Letters(bytes)
      BY <1>6, <1>7
    <3>2. Letters(bytes) = Letters(l) \o Letters(take) /\ Letters(c \o take) = Letters(c) \o Letters(take)
      BY <1>3, LettersConcat DEF bytes
    <3> DEFINE f == FlattenSeq(Recs(s))
    <3>3. f \in Seq(Byte)
      BY <1>0, RecsType, FlattenType
    <3>4. Letters(f) \in Seq(Byte) /\ Letters(l) \in Seq(Byte) /\ Letters(take) \in Seq(Byte)
      BY <1>3, <3>3, LettersType
    <3>5. Letters(f) \o (Letters(l) \o Letters(take)) = (Letters(f) \o Letters(l)) \o Letters(take)
      BY <3>4, Associative, SMTT(30)
    <3> QED
      BY <1>2, <2>1, <2>2, <2>3, <3>1, <3>2, <3>5
  <2>4. CASE q # s
    BY <1>7, <1>13, <2>1, <2>2, <2>4
  <2> QED
    BY <2>3, <2>4
<1> QED
  BY <1>9, <1>10, <1>12, <1>14, <1>15, <1>16, <1>17 DEF CaptureInv

\* The pipe is closed: a reader has an unfinished line to send, or nothing.
LEMMA EndOfPipeStep ==
  ASSUME CaptureInv, NEW s \in Streams, EndOfPipe(s)
  PROVE  CaptureInv'
<1>0. Types /\ Filtering /\ Bounds /\ Batches /\ Pipes /\ Endings /\ Partial /\ Kept
  BY DEF CaptureInv
<1>1. /\ reader[s] = "reading" /\ pipe[s] = <<>> /\ child = "exited" /\ ~heir
      /\ reader' = [reader EXCEPT ![s] = IF line[s] = <<>> THEN "over" ELSE "last"]
      /\ UNCHANGED <<script, written, child, heir, owed, pipe, line, queue, filters, loc, batch, log, lost>>
  BY DEF EndOfPipe, process, thread
<1>2. reader \in [Streams -> {"reading", "sending", "last", "over"}]
  BY <1>0 DEF Types
<1>3. /\ reader'[s] = IF line[s] = <<>> THEN "over" ELSE "last"
      /\ \A q \in Streams \ {s} : reader'[q] = reader[q]
      /\ reader' \in [Streams -> {"reading", "sending", "last", "over"}]
  BY <1>1, <1>2
<1>4. \A q \in Streams : Consumed(q)' = Consumed(q) /\ Recs(q)' = Recs(q)
  BY <1>1 DEF Consumed, Recs
<1>5. Types' /\ Filtering' /\ Batches' /\ Pipes' /\ Kept'
  <2>1. Types'
    BY <1>0, <1>1, <1>3 DEF Types
  <2>2. Filtering' /\ Batches'
    BY <1>0, <1>1 DEF Filtering, Batches
  <2>3. Pipes' /\ Kept'
    BY <1>0, <1>1, <1>4 DEF Pipes, Kept
  <2> QED
    BY <2>1, <2>2, <2>3
<1>6. Bounds'
  BY <1>0, <1>1, <1>3 DEF Bounds
<1>7. Endings'
  <2> SUFFICES ASSUME NEW q \in Streams, reader'[q] = "last" \/ (reader'[q] = "over" /\ loc # "gone")
               PROVE  child = "exited" /\ ~heir /\ pipe[q] = <<>> /\ (reader'[q] = "over" => line[q] = <<>>)
    BY <1>1 DEF Endings
  <2>1. CASE q = s
    BY <1>1, <1>3, <2>1
  <2>2. CASE q # s
    BY <1>0, <1>3, <2>2 DEF Endings
  <2> QED
    BY <2>1, <2>2
<1>8. Partial'
  BY <1>0, <1>1, <1>3, <1>4 DEF Partial
<1> QED
  BY <1>5, <1>6, <1>7, <1>8 DEF CaptureInv

\* What came before the end of a sequence that was empty.
LEMMA BeforeNothing ==
  ASSUME NEW S, NEW a \in Seq(S)
  PROVE  Before(a, <<>>) = a /\ a \o <<>> = a
<1>1. a \o <<>> = a /\ <<>> \in Seq(S)
  BY ConcatEmptySeq, EmptySeq
<1>2. Before(a \o <<>>, <<>>) = a
  BY <1>1, BeforeConcat
<1> QED
  BY <1>1, <1>2

\* A line that is sent is the next record of its stream, and of no other.
LEMMA SentLine ==
  ASSUME Types, NEW s \in Streams, NEW q \in Streams, UNCHANGED <<log, batch>>,
         queue' = Append(queue, [stream |-> s, bytes |-> line[s]])
  PROVE  Recs(q)' = IF q = s THEN Append(Recs(s), line[s]) ELSE Recs(q)
<1> DEFINE x == [stream |-> s, bytes |-> line[s]]
           T == Seq(Byte)
<1>1. line[s] \in T /\ queue \in Seq(Line) /\ batch \in Seq(Line) /\ batch \o queue \in Seq(Line)
  BY TypesOf, RecsType DEF Types
<1>2. x \in Line
  BY <1>1 DEF Line
<1>2a. x.stream = s /\ x.bytes = line[s]
  OBVIOUS
<1>2b. queue' = Append(queue, x)
  OBVIOUS
<1> HIDE DEF x
<1>3. batch \o Append(queue, x) = Append(batch \o queue, x)
  BY <1>1, <1>2, ConcatAppend
<1>4. Append(batch \o queue, x) = (batch \o queue) \o <<x>> /\ <<x>> \in Seq(Line)
  BY <1>1, <1>2, AppendIsConcat
<1>5. Texts(Of(q, (batch \o queue) \o <<x>>)) = Texts(Of(q, batch \o queue)) \o Texts(Of(q, <<x>>))
  BY <1>1, <1>4, TextsOfConcat
<1>6. Texts(Of(q, <<x>>)) = IF s = q THEN <<line[s]>> ELSE <<>>
  BY <1>2, <1>2a, TextsOfSingle
<1> DEFINE a == Texts(log[q])
           b == Texts(Of(q, batch \o queue))
           e == Texts(Of(q, <<x>>))
<1>7. a \in Seq(T) /\ b \in Seq(T) /\ Recs(q) = a \o b /\ Recs(q) \in Seq(T)
  BY <1>1, RecsType DEF Recs
<1>8. e \in Seq(T)
  <2>1. <<line[s]>> \in Seq(T) /\ <<>> \in Seq(T)
    BY <1>1
  <2> QED
    BY <1>6, <2>1
<1>9. Recs(q)' = a \o (b \o e)
  BY <1>2b, <1>3, <1>4, <1>5 DEF Recs
<1> HIDE DEF a, b, e
<1>10. a \o (b \o e) = Recs(q) \o e
  <2>1. a \in Seq(T) /\ b \in Seq(T) /\ e \in Seq(T)
    BY <1>7, <1>8
  <2> HIDE DEF T
  <2>2. a \o (b \o e) = (a \o b) \o e
    BY <2>1, Associative, SMTT(30)
  <2> QED
    BY <1>7, <2>2
<1>11. CASE q = s
  <2>1. e = <<line[s]>>
    BY <1>6, <1>11 DEF e
  <2>2. Append(Recs(q), line[s]) = Recs(q) \o <<line[s]>>
    BY <1>1, <1>7, AppendIsConcat
  <2> QED
    BY <1>9, <1>10, <1>11, <2>1, <2>2
<1>12. CASE q # s
  <2>1. e = <<>>
    BY <1>6, <1>12 DEF e
  <2>2. Recs(q) \o <<>> = Recs(q)
    BY <1>7, ConcatEmptySeq
  <2> QED
    BY <1>9, <1>10, <1>12, <2>1, <2>2
<1> QED
  BY <1>11, <1>12

\* A line goes to the channel; when the receiver is gone the reader ends.
LEMMA SendStep ==
  ASSUME CaptureInv, NEW s \in Streams, Send(s)
  PROVE  CaptureInv'
<1>0. Types /\ Filtering /\ Bounds /\ Batches /\ Pipes /\ Endings /\ Partial /\ Kept
  BY DEF CaptureInv
<1>1. /\ reader[s] \in {"sending", "last"}
      /\ line' = [line EXCEPT ![s] = <<>>]
      /\ UNCHANGED <<script, written, child, heir, owed, pipe, filters, loc, batch, log, lost>>
  BY DEF Send, process, thread
<1> DEFINE x == [stream |-> s, bytes |-> line[s]]
<1>3. \/ loc = "gone" /\ reader' = [reader EXCEPT ![s] = "over"] /\ queue' = queue
      \/ /\ loc # "gone" /\ Len(queue) < QueueCapacity /\ queue' = Append(queue, x)
         /\ reader' = [reader EXCEPT ![s] = IF @ = "last" THEN "over" ELSE "reading"]
  BY DEF Send
<1>4. /\ reader \in [Streams -> {"reading", "sending", "last", "over"}]
      /\ line \in [Streams -> Seq(Byte)] /\ line[s] \in Seq(Byte)
      /\ written[s] \in Seq(Byte) /\ pipe[s] \in Seq(Byte)
      /\ queue \in Seq(Line) /\ Len(queue) \in Nat
  BY <1>0, TypesOf, LenProperties DEF Types
<1>5. x \in Line
  BY <1>4 DEF Line
<1>6. queue' \in Seq(Line) /\ Len(queue') <= QueueCapacity
  <2>1. Append(queue, x) \in Seq(Line) /\ Len(Append(queue, x)) = Len(queue) + 1
    BY <1>4, <1>5, AppendProperties
  <2>2. Len(queue) <= QueueCapacity
    BY <1>0 DEF Bounds
  <2>3. \/ queue' = queue
        \/ queue' = Append(queue, x) /\ Len(queue) < QueueCapacity
    BY <1>3
  <2> HIDE DEF x
  <2>4. CASE queue' = queue
    BY <1>4, <2>2, <2>4
  <2>5. CASE queue' = Append(queue, x) /\ Len(queue) < QueueCapacity
    <3>1. Len(queue) + 1 <= QueueCapacity
      BY <1>4, <2>5, OutputAssumption
    <3> QED
      BY <2>1, <2>5, <3>1
  <2> QED
    BY <2>3, <2>4, <2>5
<1>7. /\ line'[s] = <<>> /\ line' \in [Streams -> Seq(Byte)]
      /\ \A q \in Streams \ {s} : line'[q] = line[q]
  BY <1>1, <1>4
<1>8. /\ reader'[s] \in {"over", "reading"}
      /\ reader'[s] = "reading" => reader[s] = "sending" /\ loc # "gone"
      /\ reader'[s] = "over" /\ loc # "gone" => reader[s] = "last"
      /\ \A q \in Streams \ {s} : reader'[q] = reader[q]
      /\ reader' \in [Streams -> {"reading", "sending", "last", "over"}]
  <2>1. CASE loc = "gone" /\ reader' = [reader EXCEPT ![s] = "over"]
    BY <1>4, <2>1
  <2>2. CASE loc # "gone" /\ reader' = [reader EXCEPT ![s] = IF @ = "last" THEN "over" ELSE "reading"]
    BY <1>1, <1>4, <2>2
  <2> QED
    BY <1>3, <2>1, <2>2
<1>9. Types'
  <2>1. {script', written', pipe', line'} \subseteq [Streams -> Seq(Byte)]
    BY <1>0, <1>1, <1>7 DEF Types
  <2> QED
    BY <1>0, <1>1, <1>6, <1>8, <2>1 DEF Types
<1>10. Filtering' /\ Batches'
  BY <1>0, <1>1 DEF Filtering, Batches
<1>11. Bounds'
  <2>1. Len(line'[s]) <= MaxOutputLine /\ Len(line'[s]) < MaxOutputLine
    BY <1>7, OutputAssumption, EmptySeq
  <2>2. \A q \in Streams \ {s} : /\ Len(line'[q]) <= MaxOutputLine
                                 /\ reader'[q] = "reading" => Len(line'[q]) < MaxOutputLine
    BY <1>0, <1>7, <1>8 DEF Bounds
  <2>3. \A q \in Streams : Len(pipe'[q]) <= PipeCapacity /\ owed'[q] <= Len(written'[q])
    BY <1>0, <1>1 DEF Bounds
  <2>4. Len(batch') <= OutputBatch
    BY <1>0, <1>1 DEF Bounds
  <2> QED
    BY <1>6, <2>1, <2>2, <2>3, <2>4 DEF Bounds
<1>12. \A q \in Streams : Consumed(q)' = Consumed(q)
  BY <1>1 DEF Consumed
<1>13. Pipes'
  BY <1>0, <1>1, <1>12 DEF Pipes
<1>14. Endings'
  <2> SUFFICES ASSUME NEW q \in Streams, reader'[q] = "last" \/ (reader'[q] = "over" /\ loc # "gone")
               PROVE  child = "exited" /\ ~heir /\ pipe[q] = <<>> /\ (reader'[q] = "over" => line'[q] = <<>>)
    BY <1>1 DEF Endings
  <2>1. CASE q = s
    <3>1. reader[s] = "last" \/ (reader[s] = "over" /\ loc # "gone")
      BY <1>8, <2>1
    <3> QED
      BY <1>0, <1>7, <2>1, <3>1 DEF Endings
  <2>2. CASE q # s
    BY <1>0, <1>7, <1>8, <2>2 DEF Endings
  <2> QED
    BY <2>1, <2>2
<1>15. Partial'
  <2> SUFFICES ASSUME NEW q \in Streams, reader'[q] = "reading"
               PROVE  /\ Consumed(q) = Before(Consumed(q), line'[q]) \o line'[q]
                      /\ \A i \in 1..Len(line'[q]) : line'[q][i] # LF
    BY <1>12 DEF Partial
  <2>1. CASE q = s
    <3>1. Consumed(s) \in Seq(Byte)
      BY <1>4, ConsumedType
    <3>2. Before(Consumed(s), <<>>) = Consumed(s) /\ Consumed(s) \o <<>> = Consumed(s)
      BY <3>1, BeforeNothing
    <3>3. \A i \in 1..Len(<<>>) : FALSE
      BY EmptySeq
    <3> QED
      BY <1>7, <2>1, <3>2, <3>3
  <2>2. CASE q # s
    BY <1>0, <1>7, <1>8, <2>2 DEF Partial
  <2> QED
    BY <2>1, <2>2
<1>16. Kept'
  <2> SUFFICES ASSUME ~lost', loc' # "gone", NEW q \in Streams
               PROVE  Letters(Consumed(q)') = Letters(FlattenSeq(Recs(q)')) \o Letters(line'[q])
    BY DEF Kept
  <2>1. Letters(Consumed(q)) = Letters(FlattenSeq(Recs(q))) \o Letters(line[q])
    BY <1>0, <1>1 DEF Kept
  <2>2. queue' = Append(queue, x) /\ UNCHANGED <<log, batch>>
    BY <1>1, <1>3
  <2>3. Recs(q)' = IF q = s THEN Append(Recs(s), line[s]) ELSE Recs(q)
    BY <1>0, <2>2, SentLine
  <2>4. CASE q = s
    <3> DEFINE f == FlattenSeq(Recs(s))
               l == line[s]
    <3>1. Recs(s) \in Seq(Seq(Byte)) /\ l \in Seq(Byte)
      BY <1>0, <1>4, RecsType
    <3>2. FlattenSeq(Append(Recs(s), l)) = f \o l /\ f \in Seq(Byte)
      BY <3>1, FlattenAppend, FlattenType
    <3> HIDE DEF f, l
    <3>3. Letters(f \o l) = Letters(f) \o Letters(l) /\ Letters(f \o l) \in Seq(Byte)
      <4>1. f \o l \in Seq(Byte)
        BY <3>1, <3>2, ConcatProperties
      <4> QED
        BY <3>1, <3>2, <4>1, LettersConcat, LettersType
    <3>4. Letters(f \o l) \o Letters(<<>>) = Letters(f \o l)
      BY <3>3, LettersEmpty, ConcatEmptySeq
    <3> QED
      BY <1>7, <1>12, <2>1, <2>3, <2>4, <3>2, <3>3, <3>4 DEF f, l
  <2>5. CASE q # s
    BY <1>7, <1>12, <2>1, <2>3, <2>5
  <2> QED
    BY <2>4, <2>5
<1> QED
  BY <1>9, <1>10, <1>11, <1>13, <1>14, <1>15, <1>16 DEF CaptureInv

-----------------------------------------------------------------------------
(* The invariant.                                                          *)

\* The filters of a configuration have triggers.
LEMMA FilteringInit ==
  ASSUME filters \in {from_config(entries) : entries \in FilterSets}
  PROVE  Filtering
<1> DEFINE E == [trigger : Seq(Byte), wildcards : BOOLEAN, words : Seq(STRING)]
           T == {e \in E : e.trigger # <<>>}
<1>1. PICK entries \in FilterSets : filters = from_config(entries)
  OBVIOUS
<1>2. entries \in Seq(E)
  BY <1>1, OutputAssumption
<1> DEFINE P == {i \in DOMAIN entries : entries[i].trigger # <<>>}
           kept == Pick(entries, P)
<1>3. \A i \in 1..Len(entries) : i \in P => entries[i] \in T
  <2>1. \A i \in 1..Len(entries) : entries[i] \in E
    BY <1>2, ElementOfSeq
  <2> HIDE DEF E
  <2> QED
    BY <2>1
<1> HIDE DEF P, E
<1>4. kept \in Seq(T)
  <2> HIDE DEF T
  <2> QED
    BY <1>2, <1>3, PickType
<1>5. filters = [i \in DOMAIN kept |-> [trigger |-> kept[i].trigger, wildcards |-> kept[i].wildcards,
                                        actions |-> ActionsOf(kept[i].words)]]
  BY <1>1 DEF from_config, P
<1> HIDE DEF kept
<1>6. Len(kept) \in Nat /\ DOMAIN kept = 1..Len(kept) /\ \A i \in 1..Len(kept) : kept[i] \in T
  <2> HIDE DEF T
  <2> QED
    BY <1>4, LenProperties, ElementOfSeq
<1>7. \A i \in 1..Len(kept) : /\ filters[i].trigger = kept[i].trigger
                              /\ filters[i].wildcards = kept[i].wildcards
  BY <1>5, <1>6
<1>8. \A e \in T : e.trigger \in Seq(Byte) /\ e.trigger # <<>> /\ e.wildcards \in BOOLEAN
  BY DEF E
<1> HIDE DEF T
<1>9. DOMAIN filters = 1..Len(kept)
  BY <1>5, <1>6
<1>10. \A i \in 1..Len(kept) : /\ filters[i].trigger \in Seq(Byte) /\ filters[i].trigger # <<>>
                               /\ filters[i].wildcards \in BOOLEAN
  BY <1>6, <1>7, <1>8
<1> QED
  BY <1>6, <1>9, <1>10 DEF Filtering

\* Nothing was written yet.
LEMMA CaptureInit ==
  ASSUME Init
  PROVE  CaptureInv
<1>1. /\ written = [s \in Streams |-> <<>>] /\ pipe = [s \in Streams |-> <<>>]
      /\ line = [s \in Streams |-> <<>>] /\ reader = [s \in Streams |-> "reading"]
      /\ queue = <<>> /\ child = "alive" /\ loc = "loop" /\ batch = <<>>
      /\ log = [s \in Streams |-> <<>>] /\ lost = FALSE /\ owed = [s \in Streams |-> 0]
      /\ heir \in BOOLEAN
  BY DEF Init
<1>2. script \in [Streams -> Seq(Byte)]
  <2>1. script \in {f \in [Streams -> UNION {Scripts[s] : s \in Streams}] : \A s \in Streams : f[s] \in Scripts[s]}
    BY DEF Init
  <2>2. \A s \in Streams : Scripts[s] \subseteq Seq(Byte)
    BY OutputAssumption
  <2>3. \A s \in Streams : script[s] \in Seq(Byte)
    BY <2>1, <2>2
  <2> QED
    BY <2>1, <2>3
<1>3. Types
  <2>1. \A S : <<>> \in Seq(S)
    BY EmptySeq
  <2>2. {written, pipe, line} \subseteq [Streams -> Seq(Byte)] /\ log \in [Streams -> Seq(Logged)]
    BY <1>1, <2>1
  <2>3. queue \in Seq(Line) /\ batch \in Seq(Line) /\ owed \in [Streams -> Nat]
    BY <1>1, <2>1
  <2> QED
    BY <1>1, <1>2, <2>2, <2>3 DEF Types, Locations
<1>4. Filtering
  BY FilteringInit DEF Init
<1>5. Len(<<>>) = 0
  BY EmptySeq
<1>6. Bounds
  BY <1>1, <1>5, OutputAssumption DEF Bounds
<1>7. Batches /\ Endings
  BY <1>1 DEF Batches, Endings
<1>8. ASSUME NEW s \in Streams PROVE Consumed(s) = <<>> /\ Recs(s) = <<>> /\ line[s] = <<>> /\ pipe[s] = <<>> /\ written[s] = <<>>
  <2>1. <<>> \in Seq(Byte) /\ <<>> \in Seq(Line) /\ <<>> \in Seq(Logged) /\ <<>> \in Seq(Texted)
    BY EmptySeq
  <2>2. Consumed(s) = <<>>
    BY <1>1, <2>1, BeforeNothing DEF Consumed
  <2>3. Of(s, <<>>) = <<>>
    BY PickEmpty DEF Of
  <2>4. Texts(<<>>) = <<>>
    <3>1. Texts(<<>>) \in Seq(Seq(Byte)) /\ Len(Texts(<<>>)) = 0
      BY <2>1, <1>5, TextsType
    <3> QED
      BY <3>1, EmptySeq
  <2>5. <<>> \o <<>> = <<>>
    BY <2>1, ConcatEmptySeq
  <2> QED
    BY <1>1, <2>2, <2>3, <2>4, <2>5 DEF Recs
<1>9. <<>> \o <<>> = <<>> /\ Before(<<>>, <<>>) = <<>> /\ Letters(<<>>) = <<>> /\ FlattenSeq(<<>>) = <<>>
  <2>1. <<>> \in Seq(Byte)
    BY EmptySeq
  <2> QED
    BY <2>1, BeforeNothing, LettersEmpty, FlattenEmpty
<1>10. Pipes
  BY <1>8, <1>9 DEF Pipes
<1>11. Partial
  <2>1. \A i \in 1..Len(<<>>) : FALSE
    BY <1>5
  <2> QED
    BY <1>8, <1>9, <2>1 DEF Partial
<1>12. Kept
  BY <1>8, <1>9 DEF Kept
<1> QED
  BY <1>3, <1>4, <1>6, <1>7, <1>10, <1>11, <1>12 DEF CaptureInv

\* Nothing happens.
LEMMA CaptureStutter ==
  ASSUME CaptureInv, UNCHANGED vars
  PROVE  CaptureInv'
<1>1. UNCHANGED <<script, written, child, heir, owed, pipe, line, reader, queue, filters, loc, batch, log, lost>>
  BY DEF vars, process, readers, thread
<1>2. \A s \in Streams : Consumed(s)' = Consumed(s) /\ Recs(s)' = Recs(s)
  BY <1>1 DEF Consumed, Recs
<1>3. Types' /\ Filtering' /\ Bounds' /\ Batches' /\ Endings'
  BY <1>1 DEF CaptureInv, Types, Filtering, Bounds, Batches, Endings
<1>4. Pipes' /\ Partial' /\ Kept'
  BY <1>1, <1>2 DEF CaptureInv, Pipes, Partial, Kept
<1> QED
  BY <1>3, <1>4 DEF CaptureInv

\* Every step keeps the invariant.
LEMMA CaptureStep ==
  ASSUME CaptureInv, [Next]_vars
  PROVE  CaptureInv'
<1>1. ASSUME NEW s \in Streams, Write(s) PROVE CaptureInv'
  BY <1>1, WriteStep
<1>2. ASSUME NEW s \in Streams, ReaderStep(s) PROVE CaptureInv'
  BY <1>2, ReadStep, EndOfPipeStep, SendStep DEF ReaderStep
<1>3. CASE ChildExits \/ HeirExits
  BY <1>3, ExitStep
<1>4. CASE FirstLine \/ LastLines
  BY <1>4, QueueLineStep
<1>5. CASE Collect
  BY <1>5, CollectStep
<1>6. CASE BatchLine
  BY <1>6, BatchLineStep
<1>7. CASE Stop \/ NoticeExit \/ StopTimeout \/ DrainEnds
  BY <1>7, MoveStep
<1>8. CASE Terminated \/ UNCHANGED vars
  BY <1>8, CaptureStutter DEF Terminated
<1> QED
  BY <1>1, <1>2, <1>3, <1>4, <1>5, <1>6, <1>7, <1>8 DEF Next, ThreadStep

\* The invariant holds of every invocation.
THEOREM CaptureInvariant == Spec => []CaptureInv
<1>1. Init => CaptureInv
  BY CaptureInit
<1>2. CaptureInv /\ [Next]_vars => CaptureInv'
  BY CaptureStep
<1> QED
  BY <1>1, <1>2, PTL DEF Spec

\* Bytes, lines and queues keep their types; the channel, the batch and the
\* reader's line keep their bounds, whatever the JVM prints.
THEOREM CaptureTypeCorrect == Spec => []TypeOK
<1>1. ASSUME CaptureInv PROVE TypeOK
  <2>0. Types /\ Bounds
    BY <1>1 DEF CaptureInv
  <2>1. ASSUME NEW s \in Streams
        PROVE  /\ reader[s] \in {"reading", "sending", "last", "over"}
               /\ line[s] \in Seq(Byte) /\ Len(line[s]) <= MaxOutputLine
               /\ Len(pipe[s]) <= PipeCapacity
               /\ owed[s] \in 0..Len(written[s])
    <3>1. line[s] \in Seq(Byte) /\ owed[s] \in Nat /\ Len(written[s]) \in Nat
      BY <2>0, TypesOf, LenProperties
    <3>2. owed[s] <= Len(written[s]) /\ Len(line[s]) <= MaxOutputLine /\ Len(pipe[s]) <= PipeCapacity
      BY <2>0 DEF Bounds
    <3>3. owed[s] \in 0..Len(written[s])
      BY <3>1, <3>2
    <3>4. reader[s] \in {"reading", "sending", "last", "over"}
      BY <2>0 DEF Types
    <3> QED
      BY <3>1, <3>2, <3>3, <3>4
  <2>2. {heir, lost} \subseteq BOOLEAN
    BY <2>0 DEF Types
  <2> QED
    BY <2>0, <2>1, <2>2 DEF TypeOK, Types, Bounds
<1>2. CaptureInv => TypeOK
  BY <1>1
<1> QED
  BY <1>2, CaptureInvariant, PTL

-----------------------------------------------------------------------------
(* What the invariant says of the output.                                  *)

\* The bytes on their way, from the log to the line, are those of the records.
LEMMA RecordBytes ==
  ASSUME Types, NEW s \in Streams
  PROVE  /\ BytesOf(log[s]) \in Seq(Byte) /\ BytesOf(Of(s, batch)) \in Seq(Byte)
         /\ BytesOf(Of(s, queue)) \in Seq(Byte)
         /\ FlattenSeq(Recs(s)) = BytesOf(log[s]) \o BytesOf(Of(s, batch)) \o BytesOf(Of(s, queue))
<1> DEFINE T == Seq(Byte)
           a == Texts(log[s])
           b == Texts(Of(s, batch))
           c == Texts(Of(s, queue))
<1>1. batch \in Seq(Line) /\ queue \in Seq(Line)
  BY DEF Types
<1>2. a \in Seq(Seq(Byte)) /\ b \in Seq(Seq(Byte)) /\ c \in Seq(Seq(Byte))
  BY <1>1, RecsType
<1>3. Recs(s) = a \o (b \o c)
  BY <1>1, TextsOfConcat DEF Recs
<1>4. FlattenSeq(a) = BytesOf(log[s]) /\ FlattenSeq(b) = BytesOf(Of(s, batch)) /\ FlattenSeq(c) = BytesOf(Of(s, queue))
  BY DEF Texts, BytesOf
<1> HIDE DEF a, b, c
<1>5. b \o c \in Seq(Seq(Byte))
  BY <1>2, ConcatProperties
<1>6. FlattenSeq(a) \in Seq(Byte) /\ FlattenSeq(b) \in Seq(Byte) /\ FlattenSeq(c) \in Seq(Byte)
  BY <1>2, FlattenType
<1>7. FlattenSeq(a \o (b \o c)) = FlattenSeq(a) \o FlattenSeq(b \o c)
  BY <1>2, <1>5, FlattenConcat
<1>8. FlattenSeq(b \o c) = FlattenSeq(b) \o FlattenSeq(c)
  BY <1>2, FlattenConcat
<1>9. ASSUME NEW x \in Seq(Byte), NEW y \in Seq(Byte), NEW z \in Seq(Byte)
      PROVE  x \o (y \o z) = (x \o y) \o z
  BY Associative, SMTT(30)
<1>10. FlattenSeq(a) \o (FlattenSeq(b) \o FlattenSeq(c)) = (FlattenSeq(a) \o FlattenSeq(b)) \o FlattenSeq(c)
  BY <1>6, <1>9
<1> QED
  BY <1>3, <1>4, <1>6, <1>7, <1>8, <1>10

\* Nothing but line ends gets lost on the way.
LEMMA KeptOutput ==
  ASSUME CaptureInv
  PROVE  NothingIsLost
<1>0. Types /\ Pipes /\ Kept
  BY DEF CaptureInv
<1> SUFFICES ASSUME ~lost, loc # "gone", NEW s \in Streams
             PROVE  Letters(written[s]) =
                      Letters(BytesOf(log[s]) \o BytesOf(Of(s, batch)) \o BytesOf(Of(s, queue))
                                \o line[s] \o pipe[s])
  BY DEF NothingIsLost
<1> DEFINE r == BytesOf(log[s]) \o BytesOf(Of(s, batch)) \o BytesOf(Of(s, queue))
           l == line[s]
           p == pipe[s]
           c == Consumed(s)
<1>1. l \in Seq(Byte) /\ p \in Seq(Byte) /\ written[s] \in Seq(Byte)
  BY <1>0, TypesOf
<1>2. c \in Seq(Byte)
  BY <1>1, ConsumedType
<1>3. Letters(c) = Letters(FlattenSeq(Recs(s))) \o Letters(l)
  BY <1>0 DEF Kept
<1>4. FlattenSeq(Recs(s)) = r
  BY <1>0, RecordBytes
<1>5. r \in Seq(Byte)
  <2>1. Recs(s) \in Seq(Seq(Byte))
    BY <1>0, RecsType
  <2>2. FlattenSeq(Recs(s)) \in Seq(Byte)
    BY <2>1, FlattenType
  <2> QED
    BY <1>4, <2>2
<1>6. written[s] = c \o p
  BY <1>0 DEF Pipes
<1> HIDE DEF r, l, p, c
<1>7. r \o l \in Seq(Byte)
  BY <1>1, <1>5, ConcatProperties
<1>8. Letters(c \o p) = Letters(c) \o Letters(p)
  BY <1>1, <1>2, LettersConcat
<1>9. Letters(r \o l) = Letters(r) \o Letters(l)
  BY <1>1, <1>5, LettersConcat
<1>10. Letters((r \o l) \o p) = Letters(r \o l) \o Letters(p)
  BY <1>1, <1>7, LettersConcat
<1>11. Letters(written[s]) = Letters((r \o l) \o p)
  BY <1>3, <1>4, <1>6, <1>8, <1>9, <1>10
<1> QED
  BY <1>11 DEF r, l, p

\* The letters of the beginning of some bytes are the first of their letters.
LEMMA LettersPrefix ==
  ASSUME NEW a \in Seq(Byte), NEW n \in 0..Len(a)
  PROVE  IsPrefix(Letters(SubSeq(a, 1, n)), Letters(a))
<1> DEFINE b == SubSeq(a, 1, n)
           c == SubSeq(a, n + 1, Len(a))
<1>1. b \in Seq(Byte) /\ c \in Seq(Byte) /\ a = b \o c
  BY CutAt
<1> HIDE DEF b, c
<1>2. Letters(a) = Letters(b) \o Letters(c) /\ Letters(b) \in Seq(Byte) /\ Letters(c) \in Seq(Byte)
  BY <1>1, LettersConcat, LettersType
<1> DEFINE x == Letters(b)
           y == Letters(c)
<1>3. x \in Seq(Byte) /\ y \in Seq(Byte)
  BY <1>2
<1> HIDE DEF x, y
<1>4. Before(x \o y, y) = x /\ Len(x) <= Len(x \o y)
  BY <1>3, BeforeConcat
<1>5. Len(x \o y) = Len(x) + Len(y) /\ Len(x) \in Nat /\ Len(y) \in Nat
  BY <1>3, ConcatProperties, LenProperties
<1>6. Len(x \o y) - Len(y) = Len(x)
  BY <1>5
<1>7. SubSeq(x \o y, 1, Len(x)) = x
  BY <1>4, <1>6 DEF Before
<1>8. SubSeq(x, 1, Len(x)) = x
  BY <1>3, SubSeqFull
<1>9. IsPrefix(x, x \o y)
  BY <1>4, <1>7, <1>8 DEF IsPrefix
<1> QED
  BY <1>2, <1>9 DEF x, y, b

\* A part of the beginning is a part of the whole.
LEMMA PartOfPart ==
  ASSUME NEW S, NEW a \in Seq(S), NEW n \in 0..Len(a), NEW m \in 0..n
  PROVE  SubSeq(SubSeq(a, 1, n), 1, m) = SubSeq(a, 1, m)
<1> DEFINE b == SubSeq(a, 1, n)
<1>1. Len(a) \in Nat /\ m \in 0..Len(a)
  BY LenProperties
<1>2. b \in Seq(S) /\ Len(b) = n /\ \A i \in 1..n : b[i] = a[i]
  BY CutAt
<1> HIDE DEF b
<1>3. m \in 0..Len(b)
  BY <1>2
<1> DEFINE d == SubSeq(b, 1, m)
           e == SubSeq(a, 1, m)
<1>4. d \in Seq(S) /\ Len(d) = m /\ \A i \in 1..m : d[i] = b[i]
  BY <1>2, <1>3, CutAt
<1>5. e \in Seq(S) /\ Len(e) = m /\ \A i \in 1..m : e[i] = a[i]
  BY <1>1, CutAt
<1> HIDE DEF d, e
<1>6. \A i \in 1..m : i \in 1..n
  OBVIOUS
<1>7. \A i \in 1..m : d[i] = e[i]
  BY <1>2, <1>4, <1>5, <1>6
<1>8. d = e
  BY <1>4, <1>5, <1>7, SeqEqual
<1> QED
  BY <1>8 DEF d, e, b

\* When the drain ends, the log has all the complete lines, and all of the
\* output if nobody holds the pipe.
LEMMA DrainedOutput ==
  ASSUME CaptureInv, DrainEnds, ~lost, NEW s \in Streams
  PROVE  LET output == SubSeq(written[s], 1, owed[s])
             complete == SubSeq(output, 1, Max({0} \cup LineEndsAt(output)))
         IN IsPrefix(Letters(IF heir THEN complete ELSE output), Letters(BytesOf(log[s])))
<1>0. Types /\ Bounds /\ Batches /\ Pipes /\ Endings /\ Partial /\ Kept
  BY DEF CaptureInv
<1> DEFINE w == written[s]
           output == SubSeq(w, 1, owed[s])
           m == Max({0} \cup LineEndsAt(output))
           complete == SubSeq(output, 1, m)
           d == BytesOf(log[s])
           l == line[s]
<1>1. /\ loc = "draining" /\ queue = <<>>
      /\ reader[s] = "over" \/ (reader[s] = "reading" /\ pipe[s] = <<>> /\ heir)
  BY DEF DrainEnds
<1>2. batch = <<>>
  BY <1>0, <1>1 DEF Batches
<1>3. /\ w \in Seq(Byte) /\ l \in Seq(Byte) /\ Len(w) \in Nat /\ Len(l) \in Nat
      /\ owed[s] \in 0..Len(w)
  <2>1. w \in Seq(Byte) /\ l \in Seq(Byte) /\ owed[s] \in Nat
    BY <1>0, TypesOf
  <2>2. Len(w) \in Nat /\ Len(l) \in Nat /\ owed[s] <= Len(w)
    BY <1>0, <2>1, LenProperties DEF Bounds
  <2> QED
    BY <2>1, <2>2
<1>4. FlattenSeq(Recs(s)) = d /\ d \in Seq(Byte)
  <2>1. Of(s, <<>>) = <<>>
    BY PickEmpty DEF Of
  <2>2. BytesOf(<<>>) = <<>>
    <3>1. [i \in DOMAIN <<>> |-> <<>>[i].bytes] = <<>>
      OBVIOUS
    <3> QED
      BY <3>1, FlattenEmpty DEF BytesOf
  <2>3. d \in Seq(Byte) /\ FlattenSeq(Recs(s)) = d \o BytesOf(Of(s, batch)) \o BytesOf(Of(s, queue))
    BY <1>0, RecordBytes
  <2> HIDE DEF d
  <2>4. d \o <<>> = d
    BY <2>3, ConcatEmptySeq
  <2> QED
    BY <1>1, <1>2, <2>1, <2>2, <2>3, <2>4
<1>5. pipe[s] = <<>>
  BY <1>0, <1>1 DEF Endings
<1>6. Consumed(s) = w
  <2>1. Before(w, <<>>) = w
    BY <1>3, BeforeNothing
  <2> QED
    BY <1>5, <2>1 DEF Consumed
<1>7. Letters(w) = Letters(d) \o Letters(l)
  BY <1>0, <1>1, <1>4, <1>6 DEF Kept
<1>8. CASE reader[s] = "over"
  <2>1. ~heir /\ l = <<>>
    BY <1>0, <1>1, <1>8 DEF Endings
  <2>2. Letters(d) \in Seq(Byte)
    BY <1>4, LettersType
  <2>3. Letters(w) = Letters(d)
    BY <1>7, <2>1, <2>2, LettersEmpty, ConcatEmptySeq
  <2>4. IsPrefix(Letters(output), Letters(w))
    BY <1>3, LettersPrefix
  <2> QED
    BY <2>1, <2>3, <2>4
<1>9. CASE reader[s] = "reading" /\ heir
  <2> DEFINE e == Before(w, l)
  <2>1. w = e \o l /\ \A i \in 1..Len(l) : l[i] # LF
    BY <1>0, <1>6, <1>9 DEF Partial
  <2>2. e \in Seq(Byte)
    <3>1. Len(w) - Len(l) \in Int /\ 1 \in Int /\ \A i \in 1..(Len(w) - Len(l)) : i \in 1..Len(w)
      BY <1>3
    <3>2. \A i \in 1..(Len(w) - Len(l)) : w[i] \in Byte
      BY <1>3, <3>1, ElementOfSeq
    <3> DEFINE k == Len(w) - Len(l)
    <3>3. k \in Int /\ 1 \in Int /\ \A i \in 1..k : w[i] \in Byte
      BY <3>1, <3>2
    <3> HIDE DEF k
    <3>4. SubSeq(w, 1, k) \in Seq(Byte)
      BY <3>3, SubSeqProperties
    <3> QED
      BY <3>4 DEF Before, k
  <2> HIDE DEF e
  <2>3. Letters(e) = Letters(d)
    <3>1. Letters(w) = Letters(e) \o Letters(l)
      BY <1>3, <2>1, <2>2, LettersConcat
    <3>2. Letters(e) \in Seq(Byte) /\ Letters(d) \in Seq(Byte) /\ Letters(l) \in Seq(Byte)
      BY <1>3, <1>4, <2>2, LettersType
    <3>3. ASSUME NEW x \in Seq(Byte), NEW y \in Seq(Byte), NEW z \in Seq(Byte), x \o z = y \o z
          PROVE  x = y
      BY <3>3, ConcatSimplifications
    <3> QED
      BY <1>7, <3>1, <3>2, <3>3
  <2>4. /\ output \in Seq(Byte) /\ Len(output) = owed[s]
        /\ \A i \in 1..owed[s] : output[i] = w[i]
    BY <1>3, CutAt
  <2>5. /\ Len(e) \in Nat /\ Len(w) = Len(e) + Len(l)
        /\ \A i \in 1..Len(w) : w[i] = IF i <= Len(e) THEN e[i] ELSE l[i - Len(e)]
    BY <1>3, <2>1, <2>2, ConcatProperties, LenProperties
  <2>6. m \in 0..owed[s] /\ m <= Len(e)
    <3> DEFINE A == {0} \cup LineEndsAt(output)
    <3>1. A \in SUBSET (0..owed[s]) /\ A # {} /\ owed[s] \in Nat
      BY <1>3, <2>4, LenProperties DEF LineEndsAt
    <3>2. Max(A) \in A
      <4> HIDE DEF A
      <4> QED
        BY <3>1, GreatestPosition
    <3>3. m \in A
      BY <3>2
    <3>4. m \in 0..owed[s]
      BY <3>1, <3>3
    <3> HIDE DEF output, m
    <3>5. CASE m = 0
      BY <2>5, <3>4, <3>5
    <3>6. CASE m # 0
      <4>1. m \in DOMAIN output /\ output[m] = LF
        BY <3>3, <3>6 DEF LineEndsAt
      <4>2. m \in 1..owed[s] /\ m \in 1..Len(w)
        BY <1>3, <3>4, <3>6
      <4>3. w[m] = LF
        BY <2>4, <4>1, <4>2
      <4>4. CASE m <= Len(e)
        BY <3>4, <4>4
      <4>5. CASE ~(m <= Len(e))
        <5>1. m - Len(e) \in 1..Len(l)
          BY <1>3, <2>5, <4>2, <4>5
        <5> QED
          BY <2>1, <2>5, <4>2, <4>3, <4>5, <5>1
      <4> QED
        BY <4>4, <4>5
    <3> QED
      BY <3>5, <3>6
  <2> HIDE DEF m
  <2>7. complete = SubSeq(w, 1, m)
    BY <1>3, <2>6, PartOfPart
  <2>8. SubSeq(w, 1, m) = SubSeq(e, 1, m)
    <3>1. e = SubSeq(w, 1, Len(e)) /\ Len(e) \in 0..Len(w) /\ m \in 0..Len(e)
      <4>1. Len(w) - Len(l) = Len(e) /\ Len(e) \in 0..Len(w) /\ m \in 0..Len(e)
        BY <1>3, <2>5, <2>6
      <4> QED
        BY <4>1 DEF e, Before
    <3>2. SubSeq(SubSeq(w, 1, Len(e)), 1, m) = SubSeq(w, 1, m)
      BY <1>3, <3>1, PartOfPart
    <3> QED
      BY <3>1, <3>2
  <2>9. m \in 0..Len(e)
    BY <2>5, <2>6
  <2>10. IsPrefix(Letters(SubSeq(e, 1, m)), Letters(e))
    BY <2>2, <2>9, LettersPrefix
  <2>11. IsPrefix(Letters(complete), Letters(d))
    BY <2>3, <2>7, <2>8, <2>10
  <2> QED
    BY <1>9, <2>11 DEF m
<1> QED
  BY <1>1, <1>8, <1>9

\* Only the end of the drain ends the invocation.
LEMMA OnlyDrainEnds ==
  ASSUME Types, [Next]_vars, loc # "gone", loc' = "gone"
  PROVE  DrainEnds
<1>1. ASSUME NEW s \in Streams, Write(s) \/ ReaderStep(s) PROVE FALSE
  BY <1>1 DEF Write, ReaderStep, Read, EndOfPipe, Send, thread
<1>2. ~(ChildExits \/ HeirExits \/ LastLines \/ NoticeExit \/ StopTimeout)
  BY DEF ChildExits, HeirExits, thread, LastLines, NoticeExit, StopTimeout
<1>3. ~Shutdown
  BY ShutdownStep
<1>4. ~(Stop \/ FirstLine \/ BatchLine)
  BY <1>3 DEF Stop, FirstLine, BatchLine
<1>5. ~Collect
  BY DEF Collect
<1>6. ~(Terminated \/ UNCHANGED vars)
  BY DEF Terminated, vars, thread
<1> QED
  BY <1>1, <1>2, <1>4, <1>5, <1>6 DEF Next, ThreadStep

\* When an invocation is over, all that its JVM wrote before it exited is in the
\* log, complete lines at least if another process still holds the pipe.
THEOREM ExitedJvmLogged == Spec => ExitedJvmIsLogged
<1> DEFINE Done == loc # "gone" /\ loc' = "gone" /\ ~lost =>
             \A s \in Streams :
               LET output == SubSeq(written[s], 1, owed[s])
                   complete == SubSeq(output, 1, Max({0} \cup LineEndsAt(output)))
               IN IsPrefix(Letters(IF heir THEN complete ELSE output), Letters(BytesOf(log[s])))
<1>1. ASSUME CaptureInv, [Next]_vars PROVE [Done]_vars
  <2> SUFFICES ASSUME loc # "gone", loc' = "gone", ~lost PROVE Done
    OBVIOUS
  <2>0. Types
    BY <1>1 DEF CaptureInv
  <2>1. DrainEnds
    BY <1>1, <2>0, OnlyDrainEnds
  <2> QED
    BY <1>1, <2>1, DrainedOutput
<1>2. CaptureInv /\ [Next]_vars => [Done]_vars
  BY <1>1
<1>3. ExitedJvmIsLogged <=> [][Done]_vars
  BY DEF ExitedJvmIsLogged
<1> QED
  BY <1>2, <1>3, CaptureInvariant, PTL DEF Spec

-----------------------------------------------------------------------------
(* Records are lines.                                                      *)

\* A line begins behind position m.
AtStart(a, m) == m = 0 \/ a[m] = LF

\* The line that position i is in began at most d bytes before.
Near(a, i, d) == \E m \in 0..(i - 1) : AtStart(a, m) /\ i - m <= d

\* No line, its end included, is longer than MAX_OUTPUT_LINE, and an unfinished
\* one is shorter.
Tidy(a) ==
  \A i \in 1..Len(a) :
    Near(a, i, IF a[i] = LF THEN MaxOutputLine ELSE MaxOutputLine - 1)

LinesIn(a) == Cardinality(LineEndsAt(a))

\* The records of a stream, the one that waits to be sent included; those in
\* the log when the invocation is over.
Out(s) ==
  IF loc = "gone" THEN Texts(log[s])
  ELSE IF reader[s] = "sending" THEN Append(Recs(s), line[s]) ELSE Recs(s)

\* Every line that was read is a record in its place.
Placed(s) ==
  \A n \in LineEndsAt(Consumed(s)) :
    LET p == SubSeq(Consumed(s), 1, n) IN
      Tidy(p) /\ LinesIn(p) <= Len(Out(s)) => Out(s)[LinesIn(p)] = TextBefore(p, n)

\* There are as many records as lines, and only long lines make more.
Counted(s) ==
  /\ loc # "gone" => LinesIn(Consumed(s)) <= Len(Out(s))
  /\ (reader[s] \in {"reading", "sending"} \/ pipe[s] # <<>>) /\ Tidy(Consumed(s))
       => Len(Out(s)) <= LinesIn(Consumed(s))

\* The reader's line began behind a line end.
Begun(s) ==
  Tidy(Consumed(s)) =>
    /\ reader[s] = "reading" => AtStart(Consumed(s), Len(Consumed(s)) - Len(line[s]))
    /\ reader[s] = "sending" => AtStart(Consumed(s), Len(Consumed(s)))

LinesOf(s) == Placed(s) /\ Counted(s) /\ Begun(s)

LinesInv == ~lost => \A s \in Streams : LinesOf(s)

\* Line ends are positions, and can be counted.
LEMMA EndsFinite ==
  ASSUME NEW a \in Seq(Byte)
  PROVE  /\ LineEndsAt(a) = {i \in 1..Len(a) : a[i] = LF} /\ Len(a) \in Nat
         /\ IsFiniteSet(LineEndsAt(a)) /\ LinesIn(a) \in Nat
<1>1. LineEndsAt(a) = {i \in 1..Len(a) : a[i] = LF} /\ Len(a) \in Nat
  BY LenProperties DEF LineEndsAt
<1>2. LineEndsAt(a) \subseteq 1..Len(a)
  BY <1>1
<1>3. IsFiniteSet(1..Len(a))
  <2>1. 1 \in Int /\ Len(a) \in Int
    BY <1>1
  <2> QED
    BY <2>1, FS_Interval
<1>4. IsFiniteSet(LineEndsAt(a))
  BY <1>2, <1>3, FS_Subset
<1>5. LinesIn(a) \in Nat
  BY <1>4, FS_CardinalityType DEF LinesIn
<1> QED
  BY <1>1, <1>4, <1>5

\* Bytes are added: the line ends before them stay, and each new one counts.
LEMMA EndsGrow ==
  ASSUME NEW a \in Seq(Byte), NEW b \in Seq(Byte)
  PROVE  LET c == a \o b IN
           /\ c \in Seq(Byte) /\ Len(c) = Len(a) + Len(b)
           /\ \A i \in 1..Len(a) : c[i] = a[i] /\ (i \in LineEndsAt(c) <=> i \in LineEndsAt(a))
           /\ LineEndsAt(a) \subseteq LineEndsAt(c)
           /\ LinesIn(a) <= LinesIn(c)
           /\ (\A j \in 1..Len(b) : b[j] # LF) => LineEndsAt(c) = LineEndsAt(a)
           /\ (\E j \in 1..Len(b) : b[j] = LF) => LinesIn(a) + 1 <= LinesIn(c)
           /\ b # <<>> /\ b[Len(b)] = LF /\ (\A j \in 1..Len(b) : j < Len(b) => b[j] # LF)
                => LineEndsAt(c) = LineEndsAt(a) \cup {Len(c)} /\ LinesIn(c) = LinesIn(a) + 1
<1> DEFINE c == a \o b
           A == LineEndsAt(a)
           C == LineEndsAt(c)
<1>1. /\ c \in Seq(Byte) /\ Len(c) = Len(a) + Len(b)
      /\ \A i \in 1..(Len(a) + Len(b)) : c[i] = IF i <= Len(a) THEN a[i] ELSE b[i - Len(a)]
  BY ConcatProperties
<1>2. Len(a) \in Nat /\ Len(b) \in Nat
  BY LenProperties
<1> HIDE DEF c
<1>3. /\ A = {i \in 1..Len(a) : a[i] = LF} /\ IsFiniteSet(A) /\ LinesIn(a) \in Nat
      /\ C = {i \in 1..Len(c) : c[i] = LF} /\ IsFiniteSet(C) /\ LinesIn(c) \in Nat
  BY <1>1, EndsFinite
<1>4. LinesIn(a) = Cardinality(A) /\ LinesIn(c) = Cardinality(C)
  BY DEF LinesIn
<1> HIDE DEF A, C
<1>5. \A i \in 1..Len(a) : i \in 1..Len(c) /\ c[i] = a[i]
  BY <1>1, <1>2
<1>6. \A j \in 1..Len(b) : /\ Len(a) + j \in 1..Len(c) /\ Len(a) + j \notin 1..Len(a)
                           /\ c[Len(a) + j] = b[j]
  <2> SUFFICES ASSUME NEW j \in 1..Len(b)
               PROVE  /\ Len(a) + j \in 1..Len(c) /\ Len(a) + j \notin 1..Len(a)
                      /\ c[Len(a) + j] = b[j]
    OBVIOUS
  <2>1. Len(a) + j \in 1..(Len(a) + Len(b)) /\ ~(Len(a) + j <= Len(a)) /\ Len(a) + j - Len(a) = j
    BY <1>2
  <2>2. c[Len(a) + j] = b[j]
    BY <1>1, <2>1
  <2> QED
    BY <1>1, <1>2, <2>1, <2>2
<1>7. \A i \in 1..Len(c) : i \in 1..Len(a) \/ \E j \in 1..Len(b) : i = Len(a) + j
  <2> SUFFICES ASSUME NEW i \in 1..Len(c), ~(i \in 1..Len(a)) PROVE \E j \in 1..Len(b) : i = Len(a) + j
    OBVIOUS
  <2>1. i - Len(a) \in 1..Len(b) /\ i = Len(a) + (i - Len(a))
    BY <1>1, <1>2
  <2> QED
    BY <2>1
<1>8. \A i \in 1..Len(a) : c[i] = a[i] /\ (i \in C <=> i \in A)
  BY <1>3, <1>5
<1>9. A \subseteq C
  BY <1>3, <1>5
<1>10. Cardinality(A) <= Cardinality(C)
  BY <1>3, <1>9, FS_Subset
<1>11. ASSUME \A j \in 1..Len(b) : b[j] # LF PROVE C = A
  <2> SUFFICES ASSUME NEW i \in C PROVE i \in A
    BY <1>9
  <2>1. i \in 1..Len(c) /\ c[i] = LF
    BY <1>3
  <2>2. \A j \in 1..Len(b) : i # Len(a) + j
    BY <1>6, <1>11, <2>1
  <2>3. i \in 1..Len(a)
    BY <1>7, <2>1, <2>2
  <2> QED
    BY <1>8, <2>3
<1>12. ASSUME NEW x \in C, x \notin A PROVE Cardinality(A) + 1 <= Cardinality(C)
  <2>1. A \cup {x} \subseteq C
    BY <1>9, <1>12
  <2>2. Cardinality(A \cup {x}) = Cardinality(A) + 1
    BY <1>3, <1>12, FS_AddElement
  <2>3. Cardinality(A \cup {x}) <= Cardinality(C)
    BY <1>3, <2>1, FS_Subset
  <2> QED
    BY <2>2, <2>3
<1>13. ASSUME NEW j \in 1..Len(b), b[j] = LF PROVE Cardinality(A) + 1 <= Cardinality(C)
  <2>1. Len(a) + j \in C /\ Len(a) + j \notin A
    BY <1>3, <1>6, <1>13
  <2> QED
    BY <1>12, <2>1
<1>14. ASSUME b # <<>>, b[Len(b)] = LF, \A j \in 1..Len(b) : j < Len(b) => b[j] # LF
       PROVE  C = A \cup {Len(c)} /\ Cardinality(C) = Cardinality(A) + 1
  <2>1. Len(b) \in 1..Len(b) /\ Len(a) + Len(b) = Len(c) /\ \A j \in 1..Len(b) : j < Len(b) \/ j = Len(b)
    <3>1. Len(b) # 0
      BY <1>14, EmptySeq
    <3> QED
      BY <1>1, <1>2, <3>1
  <2>2. Len(c) \in C /\ Len(c) \notin A
    BY <1>3, <1>6, <1>14, <2>1
  <2>3. ASSUME NEW i \in C PROVE i \in A \/ i = Len(c)
    <3>1. i \in 1..Len(c) /\ c[i] = LF
      BY <1>3, <2>3
    <3>2. CASE i \in 1..Len(a)
      BY <1>8, <3>2, <2>3
    <3>3. ASSUME NEW j \in 1..Len(b), i = Len(a) + j PROVE i = Len(c)
      <4>1. b[j] = LF
        BY <1>6, <3>1, <3>3
      <4> QED
        BY <1>14, <2>1, <3>3, <4>1
    <3> QED
      BY <1>7, <3>1, <3>2, <3>3
  <2>4. C = A \cup {Len(c)}
    BY <1>9, <2>2, <2>3
  <2>5. Cardinality(A \cup {Len(c)}) = Cardinality(A) + 1
    BY <1>3, <2>2, FS_AddElement
  <2> QED
    BY <2>4, <2>5
<1>15. (\A j \in 1..Len(b) : b[j] # LF) => C = A
  BY <1>11
<1>16. (\E j \in 1..Len(b) : b[j] = LF) => Cardinality(A) + 1 <= Cardinality(C)
  BY <1>13
<1>17. b # <<>> /\ b[Len(b)] = LF /\ (\A j \in 1..Len(b) : j < Len(b) => b[j] # LF)
         => C = A \cup {Len(c)} /\ Cardinality(C) = Cardinality(A) + 1
  BY <1>14
<1> QED
  BY <1>1, <1>4, <1>8, <1>9, <1>10, <1>15, <1>16, <1>17 DEF c, A, C

\* The beginning of some bytes does not depend on what follows.
LEMMA PrefixStays ==
  ASSUME NEW S, NEW a \in Seq(S), NEW b \in Seq(S), NEW n \in 0..Len(a)
  PROVE  SubSeq(a \o b, 1, n) = SubSeq(a, 1, n)
<1> DEFINE c == a \o b
<1>1. c \in Seq(S) /\ Len(c) = Len(a) + Len(b) /\ Len(a) \in Nat /\ Len(b) \in Nat
  BY ConcatProperties, LenProperties
<1>2. Before(c, b) = a
  BY BeforeConcat
<1> HIDE DEF c
<1>3. Len(c) - Len(b) = Len(a) /\ Len(a) \in 0..Len(c)
  BY <1>1
<1>4. SubSeq(c, 1, Len(a)) = a
  BY <1>2, <1>3 DEF Before
<1>5. SubSeq(SubSeq(c, 1, Len(a)), 1, n) = SubSeq(c, 1, n)
  BY <1>1, <1>3, PartOfPart
<1> QED
  BY <1>4, <1>5 DEF c

\* If the lines of some bytes fit, those of their beginning do.
LEMMA TidyPrefix ==
  ASSUME NEW a \in Seq(Byte), NEW b \in Seq(Byte), Tidy(a \o b)
  PROVE  Tidy(a)
<1> DEFINE c == a \o b
<1>1. Len(c) = Len(a) + Len(b) /\ (\A i \in 1..Len(a) : c[i] = a[i]) /\ Len(a) \in Nat /\ Len(b) \in Nat
  BY EndsGrow, LenProperties
<1> HIDE DEF c
<1> SUFFICES ASSUME NEW i \in 1..Len(a)
             PROVE  Near(a, i, IF a[i] = LF THEN MaxOutputLine ELSE MaxOutputLine - 1)
  BY DEF Tidy
<1> DEFINE d == IF a[i] = LF THEN MaxOutputLine ELSE MaxOutputLine - 1
<1>2. i \in 1..Len(c) /\ c[i] = a[i]
  BY <1>1
<1>3. Near(c, i, d)
  <2>1. Tidy(c)
    BY DEF c
  <2> QED
    BY <1>2, <2>1 DEF Tidy
<1> HIDE DEF d
<1>4. PICK m \in 0..(i - 1) : AtStart(c, m) /\ i - m <= d
  BY <1>3 DEF Near
<1>5. AtStart(a, m)
  <2>1. m = 0 \/ m \in 1..Len(a)
    BY <1>1
  <2> QED
    BY <1>1, <1>4, <2>1 DEF AtStart
<1>6. Near(a, i, d)
  BY <1>4, <1>5 DEF Near
<1> QED
  BY <1>6 DEF d

\* The number of a line is positive, and no more than there are lines.
LEMMA LineNumber ==
  ASSUME NEW a \in Seq(Byte), NEW n \in LineEndsAt(a)
  PROVE  LET p == SubSeq(a, 1, n) IN
           /\ n \in 1..Len(a) /\ p \in Seq(Byte) /\ Len(p) = n /\ LinesIn(p) \in Nat
           /\ 1 <= LinesIn(p) /\ LinesIn(p) <= LinesIn(a)
<1> DEFINE p == SubSeq(a, 1, n)
           q == SubSeq(a, n + 1, Len(a))
<1>1. n \in 1..Len(a) /\ a[n] = LF /\ Len(a) \in Nat
  BY EndsFinite
<1>2. n \in 0..Len(a)
  BY <1>1
<1>3. /\ p \in Seq(Byte) /\ Len(p) = n /\ q \in Seq(Byte) /\ a = p \o q
      /\ \A i \in 1..n : p[i] = a[i]
  BY <1>2, CutAt, ZenonT(30)
<1> HIDE DEF p, q
<1>4. LinesIn(p) <= LinesIn(a) /\ LinesIn(p) \in Nat
  BY <1>3, EndsGrow, EndsFinite
<1>5. 1 <= LinesIn(p)
  <2>1. <<>> \in Seq(Byte) /\ <<>> \o p = p
    BY <1>3, ConcatEmptySeq
  <2>2. n \in 1..Len(p) /\ p[n] = LF
    BY <1>1, <1>3
  <2>3. LinesIn(<<>>) + 1 <= LinesIn(<<>> \o p)
    BY <1>3, <2>1, <2>2, EndsGrow
  <2>4. LinesIn(<<>>) \in Nat
    BY <2>1, EndsFinite
  <2> QED
    BY <1>4, <2>1, <2>3, <2>4
<1> QED
  BY <1>1, <1>3, <1>4, <1>5 DEF p

\* An unfinished line as long as MAX_OUTPUT_LINE does not fit.
LEMMA LongLine ==
  ASSUME NEW e \in Seq(Byte), NEW b \in Seq(Byte), b # <<>>, \A i \in 1..Len(b) : b[i] # LF,
         Len(b) >= MaxOutputLine
  PROVE  ~Tidy(e \o b)
<1> DEFINE c == e \o b
           n == Len(c)
<1>1. /\ Len(c) = Len(e) + Len(b)
      /\ \A i \in 1..(Len(e) + Len(b)) : c[i] = IF i <= Len(e) THEN e[i] ELSE b[i - Len(e)]
  BY ConcatProperties
<1>2. Len(e) \in Nat /\ Len(b) \in Nat /\ Len(b) # 0 /\ MaxOutputLine \in Nat
  BY EmptySeq, LenProperties, OutputAssumption
<1> HIDE DEF c
<1>3. n \in 1..Len(c) /\ n \in Nat
  BY <1>1, <1>2
<1>4. ASSUME NEW m \in 1..n, m > Len(e) PROVE c[m] # LF
  <2>1. m \in 1..(Len(e) + Len(b)) /\ ~(m <= Len(e)) /\ m - Len(e) \in 1..Len(b)
    BY <1>1, <1>2, <1>4
  <2> QED
    BY <1>1, <2>1
<1> SUFFICES ASSUME Tidy(c) PROVE FALSE
  BY DEF c
<1>5. c[n] # LF
  <2>1. n \in 1..n /\ n > Len(e)
    BY <1>1, <1>2
  <2> QED
    BY <1>4, <2>1
<1>6. Near(c, n, MaxOutputLine - 1)
  BY <1>3, <1>5 DEF Tidy
<1>7. PICK m \in 0..(n - 1) : AtStart(c, m) /\ n - m <= MaxOutputLine - 1
  BY <1>6 DEF Near
<1>8. m > Len(e) /\ m \in 1..n
  BY <1>1, <1>2, <1>3, <1>7
<1>9. m # 0
  BY <1>8, <1>2
<1> QED
  BY <1>4, <1>7, <1>8, <1>9 DEF AtStart

\* The text before a line end is what the reader sends.
LEMMA TextOfLine ==
  ASSUME NEW e \in Seq(Byte), NEW b \in Seq(Byte), b # <<>>, b[Len(b)] = LF,
         \A i \in 1..Len(b) : i < Len(b) => b[i] # LF, AtStart(e \o b, Len(e))
  PROVE  TextBefore(e \o b, Len(e \o b)) = Stripped(b)
<1> DEFINE c == e \o b
           n == Len(c)
           A == {0} \cup {i \in LineEndsAt(c) : i < n}
<1>1. /\ c \in Seq(Byte) /\ Len(c) = Len(e) + Len(b)
      /\ \A i \in 1..(Len(e) + Len(b)) : c[i] = IF i <= Len(e) THEN e[i] ELSE b[i - Len(e)]
  BY ConcatProperties
<1>2. Len(e) \in Nat /\ Len(b) \in Nat /\ Len(b) # 0
  BY EmptySeq, LenProperties
<1>3. AtStart(c, Len(e))
  OBVIOUS
<1> HIDE DEF c
<1>4. n \in Nat /\ LineEndsAt(c) = {i \in 1..n : c[i] = LF}
  BY <1>1, EndsFinite
<1>5. A \in SUBSET (0..n) /\ A # {}
  BY <1>4
<1>6. Len(e) \in A
  <2>1. CASE Len(e) = 0
    BY <2>1
  <2>2. CASE Len(e) # 0
    <3>1. Len(e) \in 1..n /\ Len(e) < n
      BY <1>1, <1>2, <2>2
    <3>2. c[Len(e)] = LF
      BY <1>3, <2>2 DEF AtStart
    <3> QED
      BY <1>4, <3>1, <3>2
  <2> QED
    BY <2>1, <2>2
<1>7. ASSUME NEW y \in A PROVE y <= Len(e)
  <2>1. CASE y = 0
    BY <1>2, <2>1
  <2>2. CASE y # 0
    <3>1. y \in 1..n /\ c[y] = LF /\ y < n
      BY <1>4, <2>2
    <3>2. CASE ~(y <= Len(e))
      <4>1. y \in 1..(Len(e) + Len(b)) /\ y - Len(e) \in 1..Len(b) /\ y - Len(e) < Len(b)
        BY <1>1, <1>2, <3>1, <3>2
      <4> QED
        BY <1>1, <3>1, <3>2, <4>1
    <3> QED
      BY <3>2
  <2> QED
    BY <2>1, <2>2
<1>8. Max(A) = Len(e)
  <2>1. Max(A) \in A /\ \A y \in A : Max(A) >= y
    <3> HIDE DEF A, n
    <3> QED
      BY <1>4, <1>5, GreatestPosition
  <2>2. Max(A) \in Nat
    BY <1>5, <2>1
  <2>3. Max(A) <= Len(e) /\ Max(A) >= Len(e)
    BY <1>6, <1>7, <2>1
  <2> QED
    BY <1>2, <2>2, <2>3
<1> DEFINE t == SubSeq(c, Len(e) + 1, n - 1)
<1>9. t = Front(b)
  <2> DEFINE f == Front(b)
  <2>1. /\ f \in Seq(Byte) /\ Len(f) = Len(b) - 1
        /\ \A i \in 1..Len(f) : f[i] = b[i]
    BY FrontLast
  <2> HIDE DEF f
  <2>2. Len(e) + 1 \in Int /\ n - 1 \in Int /\ \A i \in (Len(e) + 1)..(n - 1) : i \in 1..Len(c)
    BY <1>1, <1>2
  <2>3. \A i \in (Len(e) + 1)..(n - 1) : c[i] \in Byte
    BY <1>1, <2>2, ElementOfSeq
  <2> DEFINE x == Len(e) + 1
             y == n - 1
  <2>4. x \in Int /\ y \in Int /\ \A i \in x..y : c[i] \in Byte
    BY <2>2, <2>3
  <2> HIDE DEF x, y
  <2>5. /\ SubSeq(c, x, y) \in Seq(Byte) /\ Len(SubSeq(c, x, y)) = IF x <= y THEN y - x + 1 ELSE 0
        /\ \A i \in 1..(y - x + 1) : SubSeq(c, x, y)[i] = c[x + i - 1]
    BY <2>4, SubSeqProperties
  <2>6. t \in Seq(Byte) /\ t = SubSeq(c, x, y)
    BY <2>5 DEF x, y
  <2>7. Len(t) = Len(f) /\ y - x + 1 = Len(f)
    BY <1>1, <1>2, <2>1, <2>5, <2>6 DEF x, y
  <2>8. ASSUME NEW i \in 1..Len(f) PROVE t[i] = f[i]
    <3>1. i \in 1..Len(b) /\ x + i - 1 = Len(e) + i /\ Len(e) + i \in 1..(Len(e) + Len(b)) /\ ~(Len(e) + i <= Len(e))
          /\ Len(e) + i - Len(e) = i
      BY <1>2, <2>1 DEF x
    <3>2. t[i] = c[Len(e) + i]
      BY <2>5, <2>6, <2>7, <3>1
    <3>3. c[Len(e) + i] = b[i]
      BY <1>1, <3>1
    <3> QED
      BY <2>1, <3>2, <3>3
  <2> HIDE DEF t
  <2> QED
    BY <2>1, <2>6, <2>7, <2>8, SeqEqual DEF f
<1>10. TextBefore(c, n) = IF t # <<>> /\ Last(t) = CR THEN Front(t) ELSE t
  BY <1>8 DEF TextBefore
<1>11. Last(b) = LF
  BY DEF Last
<1>12. Stripped(b) = IF Front(b) # <<>> /\ Last(Front(b)) = CR THEN Front(Front(b)) ELSE Front(b)
  BY <1>11 DEF Stripped
<1> HIDE DEF t
<1>13. TextBefore(c, n) = Stripped(b)
  BY <1>9, <1>10, <1>12
<1> QED
  BY <1>13 DEF c

\* The records are sequences of bytes.
LEMMA OutType ==
  ASSUME Types, NEW s \in Streams
  PROVE  Out(s) \in Seq(Seq(Byte)) /\ Len(Out(s)) \in Nat
<1>1. Texts(log[s]) \in Seq(Seq(Byte)) /\ Recs(s) \in Seq(Seq(Byte))
  BY RecsType
<1>2. line[s] \in Seq(Byte)
  BY TypesOf
<1> DEFINE T == Seq(Byte)
<1>3. Append(Recs(s), line[s]) \in Seq(T)
  <2>1. Recs(s) \in Seq(T) /\ line[s] \in T
    BY <1>1, <1>2
  <2> HIDE DEF T
  <2> QED
    BY <2>1, AppendProperties
<1>4. Out(s) \in Seq(T)
  BY <1>1, <1>3 DEF Out
<1> QED
  BY <1>4, LenProperties

\* A step that leaves a stream's records and reader alone.
LEMMA LinesFrame ==
  ASSUME NEW s \in Streams, LinesOf(s), Consumed(s)' = Consumed(s), Out(s)' = Out(s),
         loc' # "gone" => loc # "gone", reader'[s] = reader[s], line'[s] = line[s],
         reader[s] \in {"reading", "sending"} \/ pipe'[s] = pipe[s]
  PROVE  LinesOf(s)'
<1>1. Placed(s)'
  BY DEF LinesOf, Placed
<1>2. Counted(s)'
  BY DEF LinesOf, Counted
<1>3. Begun(s)'
  BY DEF LinesOf, Begun
<1> QED
  BY <1>1, <1>2, <1>3 DEF LinesOf

\* Bytes are read: a line end makes the next record, and so does a line that
\* is too long.
LEMMA LinesRead ==
  ASSUME CaptureInv, NEW s \in Streams, Read(s), LinesOf(s)
  PROVE  LinesOf(s)'
<1>0. Types /\ Bounds /\ Pipes /\ Partial
  BY DEF CaptureInv
<1>1. reader[s] = "reading" /\ UNCHANGED <<written, queue, loc, batch, log, lost>>
  BY DEF Read, process, thread
<1>2. PICK take \in Seq(Byte), rest \in Seq(Byte) :
           /\ take # <<>> /\ pipe[s] = take \o rest
           /\ Len(line[s]) + Len(take) <= MaxOutputLine
           /\ \A i \in 1..Len(take) : i < Len(take) => take[i] # LF
           /\ Consumed(s)' = Consumed(s) \o take
           /\ Consumed(s) \in Seq(Byte)
           /\ pipe' = [pipe EXCEPT ![s] = rest]
           /\ line' = [line EXCEPT ![s] = IF LineEnds(line[s] \o take)
                                          THEN Stripped(line[s] \o take) ELSE line[s] \o take]
           /\ reader' = [reader EXCEPT ![s] = IF LineEnds(line[s] \o take) THEN "sending" ELSE "reading"]
  BY ReadBytes
<1> DEFINE c == Consumed(s)
           d == c \o take
           l == line[s]
           b == l \o take
           e == Before(c, l)
           o == Out(s)
           k == LinesIn(c)
<1>3. /\ c \in Seq(Byte) /\ take \in Seq(Byte) /\ l \in Seq(Byte)
      /\ line \in [Streams -> Seq(Byte)]
      /\ reader \in [Streams -> {"reading", "sending", "last", "over"}]
      /\ Len(c) \in Nat /\ Len(take) \in Nat /\ Len(l) \in Nat /\ Len(take) # 0
  <2>1. l \in Seq(Byte) /\ line \in [Streams -> Seq(Byte)]
    BY <1>0, TypesOf
  <2>2. reader \in [Streams -> {"reading", "sending", "last", "over"}]
    BY <1>0 DEF Types
  <2> QED
    BY <1>2, <2>1, <2>2, EmptySeq, LenProperties
<1>4. Consumed(s)' = d
  BY <1>2
<1>5. line'[s] = (IF LineEnds(b) THEN Stripped(b) ELSE b) /\ reader'[s] = IF LineEnds(b) THEN "sending" ELSE "reading"
  BY <1>2, <1>3
<1>6. c = e \o l /\ \A i \in 1..Len(l) : l[i] # LF
  BY <1>0, <1>1 DEF Partial
<1>7. e \in Seq(Byte)
  <2>1. Len(c) - Len(l) \in Int /\ 1 \in Int /\ \A i \in 1..(Len(c) - Len(l)) : i \in 1..Len(c)
    BY <1>3
  <2>2. \A i \in 1..(Len(c) - Len(l)) : c[i] \in Byte
    BY <1>3, <2>1, ElementOfSeq
  <2> DEFINE m == Len(c) - Len(l)
  <2>3. m \in Int /\ 1 \in Int /\ \A i \in 1..m : c[i] \in Byte
    BY <2>1, <2>2
  <2> HIDE DEF m
  <2>4. SubSeq(c, 1, m) \in Seq(Byte)
    BY <2>3, SubSeqProperties
  <2> QED
    BY <2>4 DEF Before, m
<1> HIDE DEF e, c, l
<1>8. d = e \o b
  <2>1. ASSUME NEW x \in Seq(Byte), NEW y \in Seq(Byte), NEW z \in Seq(Byte)
        PROVE  x \o (y \o z) = (x \o y) \o z
    BY Associative, SMTT(30)
  <2> QED
    BY <1>3, <1>6, <1>7, <2>1, ZenonT(30)
<1>9. /\ b \in Seq(Byte) /\ Len(b) = Len(l) + Len(take)
      /\ \A i \in 1..(Len(l) + Len(take)) : b[i] = IF i <= Len(l) THEN l[i] ELSE take[i - Len(l)]
  BY <1>3, ConcatProperties
<1>10. /\ d \in Seq(Byte) /\ Len(d) = Len(c) + Len(take) /\ Len(d) = Len(e) + Len(b)
       /\ Len(c) = Len(e) + Len(l) /\ Len(e) \in Nat /\ Len(b) \in Nat /\ Len(b) # 0
  <2>1. d \in Seq(Byte) /\ Len(d) = Len(c) + Len(take)
    BY <1>3, ConcatProperties
  <2>2. Len(c) = Len(e) + Len(l) /\ Len(e) \in Nat
    BY <1>3, <1>6, <1>7, ConcatProperties, LenProperties
  <2> QED
    BY <1>3, <1>9, <2>1, <2>2
<1> HIDE DEF b, d
<1>11. b # <<>>
  BY <1>10, EmptySeq
<1>12. ASSUME NEW i \in 1..Len(b), i < Len(b) PROVE b[i] # LF
  <2>1. CASE i <= Len(l)
    <3>1. i \in 1..Len(l) /\ i \in 1..(Len(l) + Len(take))
      BY <1>3, <1>9, <2>1
    <3> QED
      BY <1>6, <1>9, <2>1, <3>1
  <2>2. CASE ~(i <= Len(l))
    <3>1. i \in 1..(Len(l) + Len(take)) /\ i - Len(l) \in 1..Len(take) /\ i - Len(l) < Len(take)
      BY <1>3, <1>9, <1>12, <2>2
    <3> QED
      BY <1>2, <1>9, <2>2, <3>1
  <2> QED
    BY <2>1, <2>2
<1>13. b[Len(b)] = take[Len(take)] /\ Last(b) = b[Len(b)]
  <2>1. Len(b) \in 1..(Len(l) + Len(take)) /\ ~(Len(b) <= Len(l)) /\ Len(b) - Len(l) = Len(take)
    BY <1>3, <1>9
  <2> QED
    BY <1>9, <2>1 DEF Last
<1>14. LineEnds(b) <=> (b[Len(b)] = LF \/ Len(b) >= MaxOutputLine)
  BY <1>13 DEF LineEnds
<1>15. /\ k \in Nat /\ LinesIn(d) \in Nat
       /\ \A i \in 1..Len(c) : d[i] = c[i] /\ (i \in LineEndsAt(d) <=> i \in LineEndsAt(c))
       /\ (\A j \in 1..Len(take) : take[j] # LF) => LineEndsAt(d) = LineEndsAt(c)
       /\ take[Len(take)] = LF => LineEndsAt(d) = LineEndsAt(c) \cup {Len(d)} /\ LinesIn(d) = k + 1
  <2>1. k \in Nat /\ LinesIn(d) \in Nat
    BY <1>3, <1>10, EndsFinite
  <2> QED
    BY <1>2, <1>3, <2>1, EndsGrow DEF d, c
<1>16. take[Len(take)] # LF => LineEndsAt(d) = LineEndsAt(c) /\ LinesIn(d) = k
  <2> SUFFICES ASSUME take[Len(take)] # LF PROVE LineEndsAt(d) = LineEndsAt(c)
    BY DEF LinesIn
  <2>1. \A j \in 1..Len(take) : j < Len(take) \/ j = Len(take)
    BY <1>3
  <2>2. \A j \in 1..Len(take) : take[j] # LF
    BY <1>2, <2>1
  <2> QED
    BY <1>15, <2>2
<1>17. Tidy(d) => Tidy(c)
  BY <1>3, TidyPrefix DEF d
<1>18. /\ loc # "gone" => k <= Len(o)
       /\ Tidy(c) => Len(o) <= k
       /\ Tidy(c) => AtStart(c, Len(c) - Len(l))
  BY <1>1 DEF LinesOf, Counted, Begun, c, l
<1>19. o \in Seq(Seq(Byte)) /\ Len(o) \in Nat
  BY <1>0, OutType
<1>20. /\ loc = "gone" => Out(s)' = o
       /\ loc # "gone" /\ LineEnds(b) => Out(s)' = Append(o, Stripped(b))
       /\ loc # "gone" /\ ~LineEnds(b) => Out(s)' = o
  <2>1. Recs(s)' = Recs(s)
    BY <1>1 DEF Recs
  <2> QED
    BY <1>1, <1>5, <2>1 DEF Out
<1>21. Stripped(b) \in Seq(Byte)
  BY <1>9, <1>11, StrippedLine
<1> HIDE DEF o, k
<1>22. /\ Len(Append(o, Stripped(b))) = Len(o) + 1
       /\ \A i \in 1..Len(o) : Append(o, Stripped(b))[i] = o[i]
       /\ Append(o, Stripped(b))[Len(o) + 1] = Stripped(b)
  <2> DEFINE T == Seq(Byte)
             z == Stripped(b)
  <2>1. o \in Seq(T) /\ z \in T
    BY <1>19, <1>21
  <2> HIDE DEF T, z
  <2>2. /\ Len(Append(o, z)) = Len(o) + 1
        /\ \A i \in 1..Len(o) : Append(o, z)[i] = o[i]
        /\ Append(o, z)[Len(o) + 1] = z
    BY <2>1, AppendProperties
  <2> QED
    BY <2>2 DEF z
<1>23. Tidy(d) => b[Len(b)] = LF \/ ~LineEnds(b)
  <2> SUFFICES ASSUME b[Len(b)] # LF, Len(b) >= MaxOutputLine PROVE ~Tidy(d)
    BY <1>14
  <2>1. \A i \in 1..Len(b) : i < Len(b) \/ i = Len(b)
    BY <1>10
  <2>2. \A i \in 1..Len(b) : b[i] # LF
    BY <1>12, <2>1
  <2>3. ~Tidy(e \o b)
    BY <1>7, <1>9, <1>11, <2>2, LongLine
  <2> QED
    BY <1>8, <2>3
<1>24. \A n \in LineEndsAt(c) :
         Tidy(SubSeq(c, 1, n)) /\ LinesIn(SubSeq(c, 1, n)) <= Len(o)
           => o[LinesIn(SubSeq(c, 1, n))] = TextBefore(SubSeq(c, 1, n), n)
  BY DEF LinesOf, Placed, c, o
<1>25. ASSUME NEW n \in LineEndsAt(d), Tidy(SubSeq(d, 1, n)), LinesIn(SubSeq(d, 1, n)) <= Len(Out(s)')
       PROVE  Out(s)'[LinesIn(SubSeq(d, 1, n))] = TextBefore(SubSeq(d, 1, n), n)
  <2> DEFINE p == SubSeq(d, 1, n)
             j == LinesIn(p)
  <2>1. n \in 1..Len(d)
    BY <1>10, EndsFinite
  <2>2. CASE n <= Len(c)
    <3>1. n \in LineEndsAt(c)
      <4>1. n \in 1..Len(c)
        BY <1>3, <2>1, <2>2
      <4> QED
        BY <1>15, <4>1, <1>25
    <3>2. j \in Nat /\ 1 <= j /\ j <= k /\ p = SubSeq(c, 1, n)
      <4>1. n \in 0..Len(c)
        BY <1>3, <2>1, <2>2
      <4>2. p = SubSeq(c, 1, n)
        BY <1>3, <4>1, PrefixStays DEF d
      <4> QED
        BY <1>3, <3>1, <4>2, LineNumber DEF k
    <3> HIDE DEF p, j
    <3>3. Tidy(p) /\ j <= Len(Out(s)')
      BY <1>25 DEF p, j
    <3>4. j <= Len(o)
      BY <1>15, <1>18, <1>19, <1>20, <3>2, <3>3
    <3>5. o[j] = TextBefore(p, n)
      BY <1>24, <3>1, <3>2, <3>3, <3>4 DEF j
    <3>6. j \in 1..Len(o)
      BY <1>19, <3>2, <3>4
    <3>7. Out(s)'[j] = o[j]
      BY <1>20, <1>22, <3>6
    <3> QED
      BY <3>5, <3>7 DEF p, j
  <2>3. CASE ~(n <= Len(c))
    <3>1. n \notin LineEndsAt(c)
      <4>1. LineEndsAt(c) \subseteq 1..Len(c)
        BY <1>3, EndsFinite
      <4> QED
        BY <1>3, <2>3, <4>1
    <3>2. take[Len(take)] = LF /\ n = Len(d) /\ LinesIn(d) = k + 1
      BY <1>15, <1>16, <1>25, <3>1
    <3>3. p = d
      BY <1>10, <3>2, SubSeqFull
    <3>4. Tidy(c) /\ Len(o) <= k
      BY <1>17, <1>18, <1>25, <3>3
    <3>5. k + 1 <= Len(Out(s)')
      BY <1>25, <3>2, <3>3
    <3>6. loc # "gone" /\ LineEnds(b)
      <4>1. Out(s)' # o
        BY <1>15, <1>19, <3>4, <3>5
      <4>2. LineEnds(b)
        BY <1>13, <1>14, <3>2
      <4> QED
        BY <1>20, <4>1, <4>2
    <3>7. Len(o) = k
      BY <1>15, <1>18, <1>19, <3>4, <3>6
    <3>8. Out(s)'[k + 1] = Stripped(b)
      BY <1>20, <1>22, <3>6, <3>7
    <3>9. AtStart(e \o b, Len(e))
      <4>1. Len(c) - Len(l) = Len(e)
        BY <1>3, <1>10
      <4>2. AtStart(c, Len(e))
        BY <1>18, <3>4, <4>1
      <4>3. Len(e) = 0 \/ Len(e) \in 1..Len(c)
        BY <1>3, <1>10
      <4>4. AtStart(d, Len(e))
        BY <1>15, <4>2, <4>3 DEF AtStart
      <4> QED
        BY <1>8, <4>4
    <3>10. TextBefore(e \o b, Len(e \o b)) = Stripped(b)
      BY <1>7, <1>9, <1>11, <1>12, <1>13, <3>2, <3>9, TextOfLine
    <3> QED
      BY <1>8, <3>2, <3>3, <3>8, <3>10
  <2> QED
    BY <2>2, <2>3
<1>26. Placed(s)'
  BY <1>4, <1>25 DEF Placed
<1>27. Counted(s)'
  <2>1. ASSUME loc # "gone" PROVE LinesIn(d) <= Len(Out(s)')
    <3>1. CASE take[Len(take)] = LF
      <4>1. LinesIn(d) = k + 1 /\ Out(s)' = Append(o, Stripped(b)) /\ Len(Out(s)') = Len(o) + 1
        BY <1>13, <1>14, <1>15, <1>20, <1>22, <2>1, <3>1
      <4> QED
        BY <1>15, <1>18, <1>19, <2>1, <4>1
    <3>2. CASE take[Len(take)] # LF
      <4>1. LinesIn(d) = k /\ (Len(Out(s)') = Len(o) \/ Len(Out(s)') = Len(o) + 1)
        BY <1>16, <1>20, <1>22, <2>1, <3>2
      <4> QED
        BY <1>15, <1>18, <1>19, <2>1, <4>1
    <3> QED
      BY <3>1, <3>2
  <2>2. ASSUME Tidy(d) PROVE Len(Out(s)') <= LinesIn(d)
    <3>1. Len(o) <= k
      BY <1>17, <1>18, <2>2
    <3>2. CASE take[Len(take)] = LF
      <4>1. LinesIn(d) = k + 1 /\ (Len(Out(s)') = Len(o) \/ Len(Out(s)') = Len(o) + 1)
        BY <1>15, <1>20, <1>22, <3>2
      <4> QED
        BY <1>15, <1>19, <3>1, <4>1
    <3>3. CASE take[Len(take)] # LF
      <4>1. LinesIn(d) = k /\ Out(s)' = o
        BY <1>13, <1>16, <1>20, <1>23, <2>2, <3>3
      <4> QED
        BY <3>1, <4>1
    <3> QED
      BY <3>2, <3>3
  <2> QED
    BY <1>1, <1>4, <2>1, <2>2 DEF Counted
<1>28. Begun(s)'
  <2> SUFFICES ASSUME Tidy(d)
               PROVE  /\ reader'[s] = "reading" => AtStart(d, Len(d) - Len(line'[s]))
                      /\ reader'[s] = "sending" => AtStart(d, Len(d))
    BY <1>4 DEF Begun
  <2>1. CASE LineEnds(b)
    <3>1. b[Len(b)] = LF
      BY <1>23, <2>1
    <3>2. Len(d) \in LineEndsAt(d)
      BY <1>13, <1>15, <3>1
    <3>3. d[Len(d)] = LF
      BY <3>2 DEF LineEndsAt
    <3> QED
      BY <1>5, <2>1, <3>3 DEF AtStart
  <2>2. CASE ~LineEnds(b)
    <3>1. line'[s] = b /\ reader'[s] = "reading"
      BY <1>5, <2>2
    <3>2. Len(d) - Len(b) = Len(e) /\ Len(c) - Len(l) = Len(e) /\ (Len(e) = 0 \/ Len(e) \in 1..Len(c))
      <4>1. /\ Len(d) = Len(e) + Len(b) /\ Len(c) = Len(e) + Len(l)
            /\ Len(e) \in Nat /\ Len(b) \in Nat /\ Len(l) \in Nat
        BY <1>3, <1>10
      <4> QED
        BY <4>1
    <3>3. AtStart(c, Len(e))
      BY <1>17, <1>18, <3>2
    <3>4. AtStart(d, Len(e))
      BY <1>15, <3>2, <3>3 DEF AtStart
    <3> QED
      BY <3>1, <3>2, <3>4
  <2> QED
    BY <2>1, <2>2
<1> QED
  BY <1>26, <1>27, <1>28 DEF LinesOf

\* A line is sent: it was counted already, unless it is an unfinished last one.
LEMMA LinesSend ==
  ASSUME CaptureInv, NEW s \in Streams, Send(s), LinesOf(s)
  PROVE  LinesOf(s)'
<1>0. Types /\ Endings
  BY DEF CaptureInv
<1>1. /\ reader[s] \in {"sending", "last"}
      /\ line' = [line EXCEPT ![s] = <<>>]
      /\ UNCHANGED <<written, pipe, loc, batch, log, lost>>
  BY DEF Send, process, thread
<1>2. \/ loc = "gone" /\ reader' = [reader EXCEPT ![s] = "over"]
      \/ /\ loc # "gone" /\ queue' = Append(queue, [stream |-> s, bytes |-> line[s]])
         /\ reader' = [reader EXCEPT ![s] = IF @ = "last" THEN "over" ELSE "reading"]
  BY DEF Send
<1>3. /\ reader \in [Streams -> {"reading", "sending", "last", "over"}]
      /\ line \in [Streams -> Seq(Byte)] /\ line[s] \in Seq(Byte)
      /\ written[s] \in Seq(Byte) /\ pipe[s] \in Seq(Byte)
  BY <1>0, TypesOf DEF Types
<1> DEFINE c == Consumed(s)
           o == Out(s)
           k == LinesIn(c)
<1>4. Consumed(s)' = c /\ line'[s] = <<>>
  BY <1>1, <1>3 DEF Consumed
<1>5. c \in Seq(Byte) /\ Len(c) \in Nat /\ k \in Nat
  BY <1>3, ConsumedType, EndsFinite
<1>6. o \in Seq(Seq(Byte)) /\ Len(o) \in Nat
  BY <1>0, OutType
<1>7. CASE reader[s] = "sending" \/ loc = "gone"
  <2>1. Out(s)' = o
    <3>1. CASE loc = "gone"
      BY <1>1, <3>1 DEF Out
    <3>2. CASE loc # "gone" /\ reader[s] = "sending"
      <4>1. queue' = Append(queue, [stream |-> s, bytes |-> line[s]]) /\ UNCHANGED <<log, batch>>
        BY <1>1, <1>2, <3>2
      <4>2. Recs(s)' = Append(Recs(s), line[s])
        BY <1>0, <4>1, SentLine
      <4>3. reader'[s] = "reading"
        BY <1>2, <1>3, <3>2
      <4> QED
        BY <1>1, <3>2, <4>2, <4>3 DEF Out
    <3> QED
      BY <1>7, <3>1, <3>2
  <2>2. Placed(s)'
    BY <1>4, <2>1 DEF LinesOf, Placed
  <2>3. Counted(s)'
    <3>1. pipe'[s] = pipe[s] /\ loc' = loc
      BY <1>1
    <3>2. reader'[s] \in {"reading", "sending"} \/ pipe'[s] # <<>> => reader[s] \in {"reading", "sending"} \/ pipe[s] # <<>>
      <4>1. reader'[s] = "reading" => reader[s] = "sending"
        BY <1>1, <1>2, <1>3
      <4>2. reader'[s] \in {"reading", "over"}
        BY <1>1, <1>2, <1>3
      <4> QED
        BY <3>1, <4>1, <4>2
    <3> QED
      BY <1>4, <2>1, <3>1, <3>2 DEF LinesOf, Counted
  <2>4. Begun(s)'
    <3>1. reader'[s] \in {"reading", "over"} /\ (reader'[s] = "reading" => reader[s] = "sending")
      BY <1>1, <1>2, <1>3
    <3>2. reader[s] = "sending" /\ Tidy(c) => AtStart(c, Len(c))
      BY DEF LinesOf, Begun
    <3>3. Len(c) - Len(<<>>) = Len(c)
      BY <1>5, EmptySeq
    <3> HIDE DEF c
    <3>4. reader'[s] = "reading" /\ Tidy(c) => AtStart(c, Len(c) - Len(line'[s]))
      BY <1>4, <3>1, <3>2, <3>3
    <3>5. reader'[s] # "sending"
      BY <3>1
    <3> QED
      BY <1>4, <3>4, <3>5 DEF Begun
  <2> QED
    BY <2>2, <2>3, <2>4 DEF LinesOf
<1>8. CASE reader[s] = "last" /\ loc # "gone"
  <2>1. queue' = Append(queue, [stream |-> s, bytes |-> line[s]]) /\ UNCHANGED <<log, batch>>
    BY <1>1, <1>2, <1>8
  <2>2. Recs(s)' = Append(Recs(s), line[s])
    BY <1>0, <2>1, SentLine
  <2>3. reader'[s] = "over" /\ loc' = loc /\ pipe'[s] = <<>>
    <3>1. pipe[s] = <<>>
      BY <1>0, <1>8 DEF Endings
    <3> QED
      BY <1>1, <1>2, <1>3, <1>8, <3>1
  <2>4. Out(s)' = Append(o, line[s])
    BY <1>8, <2>2, <2>3 DEF Out
  <2> DEFINE T == Seq(Byte)
             z == line[s]
  <2>5. /\ Len(Append(o, z)) = Len(o) + 1
        /\ \A i \in 1..Len(o) : Append(o, z)[i] = o[i]
    <3>1. o \in Seq(T) /\ z \in T
      BY <1>3, <1>6
    <3> HIDE DEF T, z, o
    <3> QED
      BY <3>1, AppendProperties
  <2>6. k <= Len(o)
    BY <1>8 DEF LinesOf, Counted
  <2>7. Counted(s)'
    <3>1. k <= Len(Out(s)')
      BY <1>5, <1>6, <2>4, <2>5, <2>6
    <3> QED
      BY <1>4, <2>3, <3>1 DEF Counted
  <2>8. Begun(s)'
    BY <2>3 DEF Begun
  <2>9. Placed(s)'
    <3> SUFFICES ASSUME NEW n \in LineEndsAt(c), Tidy(SubSeq(c, 1, n))
                 PROVE  Out(s)'[LinesIn(SubSeq(c, 1, n))] = TextBefore(SubSeq(c, 1, n), n)
      BY <1>4 DEF Placed
    <3> DEFINE p == SubSeq(c, 1, n)
               j == LinesIn(p)
    <3>1. j \in Nat /\ 1 <= j /\ j <= k
      BY <1>5, LineNumber
    <3>2. j \in 1..Len(o)
      <4> HIDE DEF j, k, o
      <4> QED
        BY <1>5, <1>6, <2>6, <3>1
    <3>3. j <= Len(o)
      <4> HIDE DEF j, k, o
      <4> QED
        BY <1>6, <3>2
    <3>4. o[j] = TextBefore(p, n)
      BY <3>3 DEF LinesOf, Placed
    <3>5. Out(s)'[j] = o[j]
      BY <2>4, <2>5, <3>2
    <3> QED
      BY <3>4, <3>5
  <2> QED
    BY <2>7, <2>8, <2>9 DEF LinesOf
<1> QED
  BY <1>1, <1>7, <1>8

\* The pipe is closed.
LEMMA LinesEndOfPipe ==
  ASSUME CaptureInv, NEW s \in Streams, EndOfPipe(s), LinesOf(s)
  PROVE  LinesOf(s)'
<1>0. Types
  BY DEF CaptureInv
<1>1. /\ reader[s] = "reading" /\ pipe[s] = <<>>
      /\ reader' = [reader EXCEPT ![s] = IF line[s] = <<>> THEN "over" ELSE "last"]
      /\ UNCHANGED <<written, pipe, line, queue, loc, batch, log, lost>>
  BY DEF EndOfPipe, process, thread
<1>2. reader'[s] \in {"last", "over"}
  BY <1>0, <1>1 DEF Types
<1>3. Consumed(s)' = Consumed(s) /\ Recs(s)' = Recs(s)
  BY <1>1 DEF Consumed, Recs
<1>4. Out(s)' = Out(s)
  BY <1>1, <1>2, <1>3 DEF Out
<1>5. Placed(s)'
  BY <1>3, <1>4 DEF LinesOf, Placed
<1>6. Counted(s)'
  BY <1>1, <1>2, <1>3, <1>4 DEF LinesOf, Counted
<1>7. Begun(s)'
  BY <1>2 DEF Begun
<1> QED
  BY <1>5, <1>6, <1>7 DEF LinesOf

\* A reader's step leaves the other streams alone.
LEMMA OtherStreams ==
  ASSUME CaptureInv, NEW s \in Streams, ReaderStep(s), NEW q \in Streams, q # s, LinesOf(q)
  PROVE  LinesOf(q)'
<1>0. Types
  BY DEF CaptureInv
<1>1. /\ reader \in [Streams -> {"reading", "sending", "last", "over"}]
      /\ line \in [Streams -> Seq(Byte)] /\ pipe \in [Streams -> Seq(Byte)]
  BY <1>0, TypesOf DEF Types
<1>2. /\ UNCHANGED <<written, loc, log, batch>>
      /\ pipe'[q] = pipe[q] /\ line'[q] = line[q] /\ reader'[q] = reader[q]
  <2>1. CASE Read(s)
    BY <1>1, <2>1 DEF Read, process, thread
  <2>2. CASE EndOfPipe(s)
    BY <1>1, <2>2 DEF EndOfPipe, process, thread
  <2>3. CASE Send(s)
    BY <1>1, <2>3 DEF Send, process, thread
  <2> QED
    BY <2>1, <2>2, <2>3 DEF ReaderStep
<1>3. Recs(q)' = Recs(q)
  <2>1. CASE queue' = queue
    BY <1>2, <2>1 DEF Recs
  <2>2. CASE queue' = Append(queue, [stream |-> s, bytes |-> line[s]])
    <3>1. UNCHANGED <<log, batch>>
      BY <1>2
    <3> QED
      BY <1>0, <2>2, <3>1, SentLine
  <2>3. queue' = queue \/ queue' = Append(queue, [stream |-> s, bytes |-> line[s]])
    BY DEF ReaderStep, Read, EndOfPipe, Send
  <2> QED
    BY <2>1, <2>2, <2>3
<1>4. Consumed(q)' = Consumed(q) /\ Out(q)' = Out(q)
  BY <1>2, <1>3 DEF Consumed, Out
<1> QED
  BY <1>2, <1>4, LinesFrame

\* A byte is written: it was not read yet.
LEMMA LinesWrite ==
  ASSUME CaptureInv, NEW s \in Streams, Write(s), NEW q \in Streams, LinesOf(q)
  PROVE  LinesOf(q)'
<1>0. Types /\ Pipes /\ Endings
  BY DEF CaptureInv
<1> DEFINE x == Head(script[s])
<1>1. /\ child = "alive" \/ heir
      /\ script[s] # <<>> /\ reader[s] # "over"
      /\ written' = [written EXCEPT ![s] = Append(@, x)]
      /\ pipe' = [pipe EXCEPT ![s] = Append(@, x)]
      /\ UNCHANGED <<line, reader, queue, loc, batch, log>>
  BY DEF Write, thread
<1>2. script[s] \in Seq(Byte) /\ written \in [Streams -> Seq(Byte)] /\ pipe \in [Streams -> Seq(Byte)]
  BY <1>0, TypesOf
<1>3. x \in Byte
  BY <1>1, <1>2, HeadTailProperties
<1> HIDE DEF x
<1>4. Recs(q)' = Recs(q)
  BY <1>1 DEF Recs
<1>5. Out(q)' = Out(q)
  BY <1>1, <1>4 DEF Out
<1>6. CASE q = s
  <2>1. Consumed(s) \in Seq(Byte) /\ written[s] = Consumed(s) \o pipe[s]
    BY <1>0, <1>2, ConsumedType DEF Pipes
  <2>2. Append(written[s], x) = Consumed(s) \o Append(pipe[s], x) /\ Append(pipe[s], x) \in Seq(Byte)
    BY <1>2, <1>3, <2>1, ConcatAppend, AppendProperties, SMTT(30)
  <2>3. Before(Append(written[s], x), Append(pipe[s], x)) = Consumed(s)
    BY <2>1, <2>2, BeforeConcat
  <2>4. Consumed(s)' = Consumed(s)
    BY <1>1, <1>2, <2>3 DEF Consumed
  <2>5. reader[s] \in {"reading", "sending"}
    BY <1>0, <1>1 DEF Types, Endings
  <2> QED
    BY <1>1, <1>5, <1>6, <2>4, <2>5, LinesFrame
<1>7. CASE q # s
  <2>1. written'[q] = written[q] /\ pipe'[q] = pipe[q]
    BY <1>1, <1>2, <1>7
  <2>2. Consumed(q)' = Consumed(q)
    BY <2>1 DEF Consumed
  <2> QED
    BY <1>1, <1>5, <2>1, <2>2, LinesFrame
<1> QED
  BY <1>6, <1>7

\* The thread logs the records of the lines it takes, in their order.
LEMMA LinesThread ==
  ASSUME CaptureInv, ThreadKept, ~lost', NEW q \in Streams, LinesOf(q),
         loc' # "gone" \/ DrainEnds
  PROVE  LinesOf(q)'
<1>0. Types /\ Batches
  BY DEF CaptureInv
<1>1. UNCHANGED <<written, pipe, line, reader>> /\ loc # "gone" /\ Recs(q)' = Recs(q)
  BY DEF ThreadKept
<1>2. Consumed(q)' = Consumed(q)
  BY <1>1 DEF Consumed
<1>3. Out(q)' = Out(q)
  <2>1. CASE loc' # "gone"
    BY <1>1, <2>1 DEF Out
  <2>2. CASE DrainEnds /\ loc' = "gone"
    <3>1. /\ loc = "draining" /\ queue = <<>> /\ reader[q] # "sending"
          /\ UNCHANGED <<log, queue, batch>>
      BY <2>2 DEF DrainEnds
    <3>2. batch = <<>>
      BY <1>0, <3>1 DEF Batches
    <3>3. <<>> \o <<>> = <<>> /\ Of(q, <<>>) = <<>> /\ Texts(<<>>) = <<>>
      <4>1. Of(q, <<>>) = <<>>
        BY PickEmpty DEF Of
      <4>2. Texts(<<>>) = <<>>
        BY DEF Texts
      <4>3. <<>> \o <<>> = <<>>
        BY <3>2, <1>0, ConcatEmptySeq DEF Types
      <4> QED
        BY <4>1, <4>2, <4>3
    <3>4. Texts(log[q]) \in Seq(Seq(Byte))
      BY <1>0, RecsType
    <3>5. Recs(q) = Texts(log[q]) \o <<>>
      BY <3>1, <3>2, <3>3 DEF Recs
    <3>6. Texts(log[q]) \o <<>> = Texts(log[q])
      BY <3>4, ConcatEmptySeq
    <3> QED
      BY <1>1, <2>2, <3>1, <3>5, <3>6 DEF Out
  <2> QED
    BY <2>1, <2>2
<1> QED
  BY <1>1, <1>2, <1>3, LinesFrame

\* No record yet.
LEMMA LinesInit ==
  ASSUME Init
  PROVE  LinesInv
<1> SUFFICES ASSUME NEW s \in Streams PROVE LinesOf(s)
  BY DEF LinesInv
<1>1. /\ written[s] = <<>> /\ pipe[s] = <<>> /\ line[s] = <<>> /\ reader[s] = "reading"
      /\ queue = <<>> /\ batch = <<>> /\ log[s] = <<>> /\ loc = "loop"
  BY DEF Init
<1>2. <<>> \in Seq(Byte) /\ Len(<<>>) = 0
  BY EmptySeq
<1>3. Consumed(s) = <<>>
  BY <1>1, <1>2, BeforeNothing DEF Consumed
<1>4. LineEndsAt(<<>>) = {} /\ LinesIn(<<>>) = 0
  <2>1. LineEndsAt(<<>>) = {}
    BY DEF LineEndsAt
  <2> QED
    BY <2>1, FS_EmptySet DEF LinesIn
<1>5. Out(s) = <<>>
  <2>1. Of(s, <<>>) = <<>>
    BY PickEmpty DEF Of
  <2>2. Texts(<<>>) = <<>>
    BY DEF Texts
  <2>3. <<>> \o <<>> = <<>>
    BY <1>2, ConcatEmptySeq
  <2> QED
    BY <1>1, <2>1, <2>2, <2>3 DEF Out, Recs
<1>6. Placed(s)
  BY <1>3, <1>4 DEF Placed
<1>7. Counted(s)
  BY <1>2, <1>3, <1>4, <1>5 DEF Counted
<1>8. Begun(s)
  BY <1>1, <1>2, <1>3 DEF Begun, AtStart
<1> QED
  BY <1>6, <1>7, <1>8 DEF LinesOf

\* Every step keeps the lines.
LEMMA LinesStep ==
  ASSUME CaptureInv, LinesInv, [Next]_vars
  PROVE  LinesInv'
<1>0. Types
  BY DEF CaptureInv
<1> SUFFICES ASSUME ~lost', NEW q \in Streams PROVE LinesOf(q)'
  BY DEF LinesInv
<1>1. ASSUME NEW s \in Streams, Write(s) PROVE LinesOf(q)'
  <2>1. LinesOf(q)
    BY <1>1 DEF Write, thread, LinesInv
  <2> QED
    BY <1>1, <2>1, LinesWrite
<1>2. ASSUME NEW s \in Streams, ReaderStep(s) PROVE LinesOf(q)'
  <2>1. LinesOf(q)
    BY <1>2 DEF ReaderStep, Read, EndOfPipe, Send, thread, LinesInv
  <2>2. CASE q = s
    BY <1>2, <2>1, <2>2, LinesRead, LinesEndOfPipe, LinesSend DEF ReaderStep
  <2>3. CASE q # s
    BY <1>2, <2>1, <2>3, OtherStreams
  <2> QED
    BY <2>2, <2>3
<1>3. CASE ChildExits \/ HeirExits \/ Terminated \/ UNCHANGED vars
  <2>1. UNCHANGED <<written, pipe, line, reader, queue, loc, batch, log, lost>>
    BY <1>3 DEF ChildExits, HeirExits, Terminated, vars, process, readers, thread
  <2>2. Consumed(q)' = Consumed(q) /\ Recs(q)' = Recs(q)
    BY <2>1 DEF Consumed, Recs
  <2>3. Out(q)' = Out(q) /\ LinesOf(q)
    BY <2>1, <2>2 DEF Out, LinesInv
  <2> QED
    BY <2>1, <2>2, <2>3, LinesFrame
<1>4. CASE ThreadStep \/ Stop
  <2>1. ThreadKept
    BY <1>4, QueueLineStep, CollectStep, BatchLineStep, MoveStep DEF ThreadStep
  <2>2. LinesOf(q) /\ loc # "gone"
    BY <2>1 DEF ThreadKept, LinesInv
  <2>3. loc' # "gone" \/ DrainEnds
    BY <1>0, <2>2, OnlyDrainEnds
  <2> QED
    BY <2>1, <2>2, <2>3, LinesThread
<1> QED
  BY <1>1, <1>2, <1>3, <1>4 DEF Next

\* The lines of every invocation are in their places.
THEOREM LinesInvariant == Spec => []LinesInv
<1>1. Init => LinesInv
  BY LinesInit
<1>2. CaptureInv /\ LinesInv /\ [Next]_vars => LinesInv'
  BY LinesStep
<1> QED
  BY <1>1, <1>2, CaptureInvariant, PTL DEF Spec

\* Bytes that end a line and have no line longer than MAX_OUTPUT_LINE.
LEMMA FittingLines ==
  ASSUME NEW a \in Seq(Byte), Len(a) \in LineEndsAt(a),
         \A i \in LineEndsAt(a) : i - Max({0} \cup {j \in LineEndsAt(a) : j < i}) <= MaxOutputLine
  PROVE  Tidy(a)
<1> DEFINE E == LineEndsAt(a)
           A(i) == {0} \cup {j \in E : j < i}
<1>1. E = {i \in 1..Len(a) : a[i] = LF} /\ Len(a) \in Nat
  BY EndsFinite
<1>2. MaxOutputLine \in Nat
  BY OutputAssumption
<1> HIDE DEF E
<1>3. ASSUME NEW i \in E
      PROVE  /\ Max(A(i)) \in 0..(i - 1) /\ AtStart(a, Max(A(i))) /\ Max(A(i)) \in A(i)
             /\ i - Max(A(i)) <= MaxOutputLine
  <2>1. i \in Nat /\ i >= 1
    BY <1>1
  <2>2. A(i) \in SUBSET (0..(i - 1)) /\ A(i) # {} /\ i - 1 \in Nat
    BY <1>1, <2>1
  <2>3. Max(A(i)) \in A(i)
    <3> DEFINE B == A(i)
               n == i - 1
    <3>1. B \in SUBSET (0..n) /\ B # {} /\ n \in Nat
      BY <2>2
    <3> HIDE DEF B, n
    <3>2. Max(B) \in B
      BY <3>1, GreatestPosition
    <3> QED
      BY <3>2 DEF B
  <2>4. Max(A(i)) \in 0..(i - 1)
    BY <2>2, <2>3
  <2>5. AtStart(a, Max(A(i)))
    BY <1>1, <2>3 DEF AtStart
  <2>6. i - Max(A(i)) <= MaxOutputLine
    BY DEF E
  <2> QED
    BY <2>3, <2>4, <2>5, <2>6
<1> HIDE DEF A
<1> SUFFICES ASSUME NEW i \in 1..Len(a)
             PROVE  Near(a, i, IF a[i] = LF THEN MaxOutputLine ELSE MaxOutputLine - 1)
  BY DEF Tidy
<1>4. CASE a[i] = LF
  <2>1. i \in E
    BY <1>1, <1>4
  <2> QED
    BY <1>3, <1>4, <2>1 DEF Near
<1>5. CASE a[i] # LF
  <2> DEFINE B == {k \in E : k > i}
             k == Min(B)
  <2>1. Len(a) \in E
    BY DEF E
  <2>2. Len(a) # i
    BY <1>1, <1>5, <2>1
  <2>3. B \in SUBSET Nat /\ B # {}
    BY <1>1, <2>1, <2>2
  <2>4. Min(B) \in B /\ \A y \in B : Min(B) <= y
    <3> HIDE DEF B
    <3> QED
      BY <2>3, LeastPosition
  <2>5. k \in E /\ k > i /\ k \in Nat
    BY <2>3, <2>4
  <2> DEFINE m == Max(A(k))
  <2>6. m \in 0..(k - 1) /\ AtStart(a, m) /\ m \in A(k) /\ k - m <= MaxOutputLine
    BY <1>3, <2>5
  <2> HIDE DEF m, k
  <2>7. m <= i - 1
    <3>1. CASE m = 0
      BY <3>1
    <3>2. CASE m # 0
      <4>1. m \in E /\ a[m] = LF /\ m \in Nat
        BY <1>1, <2>6, <3>2 DEF A
      <4>2. m # i
        BY <1>5, <4>1
      <4>3. ~(m > i)
        <5>1. CASE m > i
          <6>1. k <= m
            BY <2>4, <4>1, <5>1 DEF k
          <6> QED
            BY <2>5, <2>6, <6>1
        <5> QED
          BY <5>1
      <4> QED
        BY <4>1, <4>2, <4>3
    <3> QED
      BY <3>1, <3>2
  <2>8. m \in 0..(i - 1) /\ i - m <= MaxOutputLine - 1
    BY <1>2, <2>5, <2>6, <2>7
  <2> QED
    BY <1>5, <2>6, <2>8 DEF Near
<1> QED
  BY <1>4, <1>5

\* The log is where the records begin.
LEMMA LoggedFirst ==
  ASSUME Types, NEW s \in Streams
  PROVE  /\ Len(log[s]) \in Nat /\ Len(log[s]) <= Len(Out(s))
         /\ \A i \in 1..Len(log[s]) : Out(s)[i] = log[s][i].bytes
<1> DEFINE T == Seq(Byte)
           a == Texts(log[s])
           b == Texts(Of(s, batch \o queue))
           z == line[s]
<1>1. a \in Seq(T) /\ Len(a) = Len(log[s]) /\ b \in Seq(T) /\ z \in T
  BY RecsType, TypesOf
<1>2. \A i \in 1..Len(log[s]) : a[i] = log[s][i].bytes
  <2>1. log[s] \in Seq(Logged)
    BY TypesOf
  <2> QED
    BY <2>1, LenProperties DEF Texts
<1>3. Recs(s) = a \o b
  BY DEF Recs
<1>4. Out(s) = a \/ Out(s) = a \o b \/ Out(s) = Append(a \o b, z)
  BY <1>3 DEF Out
<1> HIDE DEF T, a, b, z
<1>5. /\ a \o b \in Seq(T) /\ Len(a \o b) = Len(a) + Len(b) /\ Len(a) \in Nat /\ Len(b) \in Nat
      /\ \A i \in 1..(Len(a) + Len(b)) : (a \o b)[i] = IF i <= Len(a) THEN a[i] ELSE b[i - Len(a)]
  BY <1>1, ConcatProperties, LenProperties
<1>6. /\ Len(Append(a \o b, z)) = Len(a \o b) + 1
      /\ \A i \in 1..Len(a \o b) : Append(a \o b, z)[i] = (a \o b)[i]
  <2> DEFINE d == a \o b
  <2>1. d \in Seq(T) /\ z \in T
    BY <1>1, <1>5
  <2> HIDE DEF d
  <2>2. Len(Append(d, z)) = Len(d) + 1 /\ \A i \in 1..Len(d) : Append(d, z)[i] = d[i]
    BY <2>1, AppendProperties
  <2> QED
    BY <2>2 DEF d
<1>7. Len(a) <= Len(Out(s))
  BY <1>4, <1>5, <1>6
<1>8. ASSUME NEW i \in 1..Len(a) PROVE Out(s)[i] = a[i]
  <2>1. i \in 1..(Len(a) + Len(b)) /\ i <= Len(a) /\ i \in 1..Len(a \o b)
    BY <1>5
  <2>2. (a \o b)[i] = a[i] /\ Append(a \o b, z)[i] = (a \o b)[i]
    BY <1>5, <1>6, <2>1
  <2> QED
    BY <1>4, <2>2
<1> QED
  BY <1>1, <1>2, <1>5, <1>7, <1>8

\* A stream whose lines fit is logged line by line.
LEMMA LoggedLines ==
  ASSUME CaptureInv, LinesInv
  PROVE  LinesAreRecords
<1>0. Types /\ Pipes
  BY DEF CaptureInv
<1> SUFFICES ASSUME ~lost, NEW s \in Streams, NEW n \in LineEndsAt(written[s]),
                    LET upto == SubSeq(written[s], 1, n)
                        ends == LineEndsAt(upto)
                    IN \A i \in ends : i - Max({0} \cup {j \in ends : j < i}) <= MaxOutputLine,
                    Len(log[s]) >= LinesIn(SubSeq(written[s], 1, n))
             PROVE  log[s][LinesIn(SubSeq(written[s], 1, n))].bytes
                      = TextBefore(SubSeq(written[s], 1, n), n)
  BY DEF LinesAreRecords, LinesIn
<1> DEFINE w == written[s]
           c == Consumed(s)
           p == pipe[s]
           u == SubSeq(w, 1, n)
           k == LinesIn(u)
           o == Out(s)
<1>1. w \in Seq(Byte) /\ p \in Seq(Byte)
  BY <1>0, TypesOf
<1>2. c \in Seq(Byte) /\ w = c \o p
  BY <1>0, <1>1, ConsumedType DEF Pipes
<1>3. /\ n \in 1..Len(w) /\ u \in Seq(Byte) /\ Len(u) = n /\ k \in Nat
      /\ 1 <= k /\ k <= LinesIn(w)
  BY <1>1, LineNumber
<1>4. Len(w) \in Nat /\ n \in 0..Len(w) /\ w[n] = LF
  BY <1>1, <1>3, EndsFinite
<1>5. \A i \in 1..n : u[i] = w[i]
  BY <1>1, <1>4, CutAt
<1>6. Tidy(u)
  <2>1. Len(u) \in LineEndsAt(u)
    <3>1. Len(u) \in 1..Len(u) /\ u[Len(u)] = LF
      BY <1>3, <1>4, <1>5
    <3> QED
      BY <1>3, <3>1, EndsFinite
  <2>2. \A i \in LineEndsAt(u) : i - Max({0} \cup {j \in LineEndsAt(u) : j < i}) <= MaxOutputLine
    OBVIOUS
  <2> HIDE DEF u
  <2> QED
    BY <1>3, <2>1, <2>2, FittingLines
<1>7. LinesOf(s)
  BY DEF LinesInv
<1>8. /\ Len(log[s]) \in Nat /\ Len(log[s]) <= Len(o) /\ Len(o) \in Nat
      /\ \A i \in 1..Len(log[s]) : o[i] = log[s][i].bytes
  BY <1>0, LoggedFirst, OutType
<1>9. Len(c) \in Nat /\ Len(p) \in Nat /\ Len(w) = Len(c) + Len(p)
  BY <1>1, <1>2, ConcatProperties, LenProperties
<1>10. k <= Len(o) /\ k \in 1..Len(log[s])
  <2>1. Len(log[s]) >= k
    OBVIOUS
  <2> HIDE DEF k, o
  <2> QED
    BY <1>3, <1>8, <2>1
<1>11. CASE n <= Len(c)
  <2>1. n \in 1..Len(c) /\ n \in 0..Len(c)
    BY <1>3, <1>9, <1>11
  <2>2. u = SubSeq(c, 1, n)
    BY <1>1, <1>2, <2>1, PrefixStays
  <2>3. n \in LineEndsAt(c)
    <3>1. c[n] = LF
      BY <1>1, <1>2, <1>4, <2>1, EndsGrow
    <3> QED
      BY <1>2, <2>1, <3>1, EndsFinite
  <2>4. o[k] = TextBefore(u, n)
    BY <1>6, <1>7, <1>10, <2>2, <2>3 DEF LinesOf, Placed
  <2> QED
    BY <1>8, <1>10, <2>4
<1>12. CASE ~(n <= Len(c))
  <2> DEFINE r == n - Len(c)
             g == SubSeq(p, 1, r)
             h == SubSeq(p, r + 1, Len(p))
  <2>1. r \in 0..Len(p) /\ r # 0 /\ r \in 1..Len(p) /\ Len(c) + r = n
    BY <1>3, <1>9, <1>12
  <2> HIDE DEF r
  <2>2. g \in Seq(Byte) /\ Len(g) = r /\ h \in Seq(Byte) /\ p = g \o h
    BY <1>1, <2>1, CutAt
  <2> HIDE DEF g, h
  <2>3. c \o g \in Seq(Byte) /\ Len(c \o g) = n /\ w = (c \o g) \o h
    <3>1. c \o g \in Seq(Byte) /\ Len(c \o g) = Len(c) + Len(g)
      BY <1>2, <2>2, ConcatProperties
    <3>2. ASSUME NEW x \in Seq(Byte), NEW y \in Seq(Byte), NEW z \in Seq(Byte)
          PROVE  x \o (y \o z) = (x \o y) \o z
      BY Associative
    <3> QED
      BY <1>2, <2>1, <2>2, <3>1, <3>2, SMTT(30)
  <2>4. u = c \o g
    <3>1. n \in 0..Len(c \o g)
      BY <1>3, <2>3
    <3>2. SubSeq((c \o g) \o h, 1, n) = SubSeq(c \o g, 1, n)
      BY <2>2, <2>3, <3>1, PrefixStays
    <3>3. SubSeq(c \o g, 1, Len(c \o g)) = c \o g
      BY <2>3, SubSeqFull
    <3> QED
      BY <2>3, <3>2, <3>3
  <2>5. g[r] = LF
    <3>1. u[n] = LF
      BY <1>3, <1>4, <1>5
    <3>2. (c \o g)[n] = g[n - Len(c)]
      <4>1. n \in 1..(Len(c) + Len(g)) /\ ~(n <= Len(c))
        BY <1>3, <1>12, <2>1, <2>2
      <4> QED
        BY <1>2, <2>2, <4>1, ConcatProperties
    <3> QED
      BY <2>4, <3>1, <3>2 DEF r
  <2>6. LinesIn(c) + 1 <= k
    <3>1. r \in 1..Len(g)
      BY <2>1, <2>2
    <3>2. LinesIn(c) + 1 <= LinesIn(c \o g)
      BY <1>2, <2>2, <2>5, <3>1, EndsGrow
    <3> QED
      BY <2>4, <3>2
  <2>7. Tidy(c)
    BY <1>2, <1>6, <2>2, <2>4, TidyPrefix
  <2>8. p # <<>>
    BY <2>1, EmptySeq
  <2>9. Len(o) <= LinesIn(c) /\ LinesIn(c) \in Nat
    BY <1>2, <1>7, <2>7, <2>8, EndsFinite DEF LinesOf, Counted
  <2> HIDE DEF o, k
  <2> QED
    BY <1>3, <1>8, <1>10, <2>6, <2>9
<1> QED
  BY <1>11, <1>12

\* The log keeps what the processes print: every byte but line ends is on its
\* way or in the log, in order, and records are lines.
THEOREM OutputKept == Spec => []OutputIsKept
<1>1. CaptureInv /\ LinesInv => OutputIsKept
  BY KeptOutput, LoggedLines DEF OutputIsKept
<1> QED
  BY <1>1, CaptureInvariant, LinesInvariant, PTL

-----------------------------------------------------------------------------
(* What the loops of the filters decide.                                   *)

\* Ways to lay the pattern from position p on over the text.
Fits(text, pattern, p, cut) ==
  \A i \in (p + 1)..Len(pattern) :
    /\ cut[i - 1] <= cut[i]
    /\ pattern[i] # "*" => /\ cut[i] = cut[i - 1] + 1
                           /\ pattern[i] \in {"?", text[cut[i]]}

Cuts(text, pattern, p) == [p..Len(pattern) -> 0..Len(text)]

\* The pattern from p on matches what the text from t on begins with.
Ahead(text, pattern, t, p) ==
  \E cut \in Cuts(text, pattern, p) : cut[p] = t /\ Fits(text, pattern, p, cut)

\* Nothing is left of the pattern.
LEMMA AheadEnd ==
  ASSUME NEW text \in Seq(Byte), NEW pattern \in Seq(Byte), NEW t \in 0..Len(text)
  PROVE  Ahead(text, pattern, t, Len(pattern))
<1> DEFINE P == Len(pattern)
           cut == [i \in P..P |-> t]
<1>1. P \in Nat
  BY LenProperties
<1>2. cut \in Cuts(text, pattern, P)
  BY DEF Cuts
<1>3. cut[P] = t
  BY <1>1
<1>4. Fits(text, pattern, P, cut)
  <2>1. \A i \in (P + 1)..P : FALSE
    BY <1>1
  <2> QED
    BY <2>1 DEF Fits
<1> QED
  BY <1>2, <1>3, <1>4 DEF Ahead

\* The first piece, and those of the rest of the pattern.
LEMMA AheadSplit ==
  ASSUME NEW text \in Seq(Byte), NEW pattern \in Seq(Byte), NEW t \in 0..Len(text),
         NEW p \in 0..Len(pattern), p # Len(pattern)
  PROVE  Ahead(text, pattern, t, p) <=>
           \E u \in t..Len(text) :
             /\ pattern[p + 1] # "*" => u = t + 1 /\ pattern[p + 1] \in {"?", text[u]}
             /\ Ahead(text, pattern, u, p + 1)
<1> DEFINE P == Len(pattern)
           N == Len(text)
           q == p + 1
           Piece(u) == pattern[p + 1] # "*" => u = t + 1 /\ pattern[p + 1] \in {"?", text[u]}
<1>1. P \in Nat /\ N \in Nat /\ p \in Nat /\ q \in Nat /\ t \in Nat
  BY LenProperties
<1>2. p < P /\ q \in p..P /\ p \in p..P /\ q \in (p + 1)..P
  BY <1>1
<1>3. ASSUME NEW cut \in Cuts(text, pattern, p), cut[p] = t, Fits(text, pattern, p, cut)
      PROVE  \E u \in t..N : Piece(u) /\ Ahead(text, pattern, u, q)
  <2> DEFINE u == cut[q]
             c == [i \in q..P |-> cut[i]]
  <2>1. \A i \in p..P : cut[i] \in 0..N
    BY DEF Cuts
  <2>2. \A i \in q..P : i \in p..P /\ i \in (p + 1)..P
    BY <1>1
  <2>3. c \in Cuts(text, pattern, q)
    BY <2>1, <2>2 DEF Cuts
  <2>4. c[q] = u
    BY <1>1, <1>2
  <2>5. q - 1 = p
    BY <1>1
  <2>6. t <= u /\ Piece(u)
    BY <1>2, <1>3, <2>5 DEF Fits
  <2>7. u \in t..N
    BY <1>1, <1>2, <2>1, <2>6
  <2>8. Fits(text, pattern, q, c)
    <3> SUFFICES ASSUME NEW i \in (q + 1)..P
                 PROVE  /\ c[i - 1] <= c[i]
                        /\ pattern[i] # "*" => c[i] = c[i - 1] + 1 /\ pattern[i] \in {"?", text[c[i]]}
      BY DEF Fits
    <3>1. i \in q..P /\ i - 1 \in q..P /\ i \in (p + 1)..P
      BY <1>1
    <3>2. c[i] = cut[i] /\ c[i - 1] = cut[i - 1]
      BY <3>1
    <3> QED
      BY <1>3, <3>1, <3>2 DEF Fits
  <2> QED
    BY <2>3, <2>4, <2>6, <2>7, <2>8 DEF Ahead
<1>4. ASSUME NEW u \in t..N, Piece(u), Ahead(text, pattern, u, q)
      PROVE  Ahead(text, pattern, t, p)
  <2>1. PICK c \in Cuts(text, pattern, q) : c[q] = u /\ Fits(text, pattern, q, c)
    BY <1>4 DEF Ahead
  <2> DEFINE cut == [i \in p..P |-> IF i = p THEN t ELSE c[i]]
  <2>2. \A i \in p..P : i = p \/ i \in q..P
    BY <1>1
  <2>3. \A i \in q..P : c[i] \in 0..N
    BY <2>1 DEF Cuts
  <2>4. cut \in Cuts(text, pattern, p)
    <3>1. t \in 0..N
      OBVIOUS
    <3> QED
      BY <2>2, <2>3, <3>1 DEF Cuts
  <2>5. cut[p] = t
    BY <1>2
  <2>6. Fits(text, pattern, p, cut)
    <3> SUFFICES ASSUME NEW i \in (p + 1)..P
                 PROVE  /\ cut[i - 1] <= cut[i]
                        /\ pattern[i] # "*" => cut[i] = cut[i - 1] + 1 /\ pattern[i] \in {"?", text[cut[i]]}
      BY DEF Fits
    <3>1. i \in p..P /\ i - 1 \in p..P /\ i # p /\ i \in q..P
      BY <1>1
    <3>2. cut[i] = c[i]
      BY <3>1
    <3>3. CASE i = q
      <4>1. i - 1 = p
        BY <1>1, <3>3
      <4>2. cut[i - 1] = t /\ cut[i] = u
        BY <2>1, <2>5, <3>2, <3>3, <4>1
      <4>3. t <= u
        BY <1>1
      <4> QED
        BY <1>4, <3>3, <4>2, <4>3
    <3>4. CASE i # q
      <4>1. i \in (q + 1)..P /\ i - 1 # p
        BY <1>1, <3>1, <3>4
      <4>2. cut[i - 1] = c[i - 1]
        BY <3>1, <4>1
      <4> QED
        BY <2>1, <3>2, <4>1, <4>2 DEF Fits
    <3> QED
      BY <3>3, <3>4
  <2> QED
    BY <2>4, <2>5, <2>6 DEF Ahead
<1>5. Ahead(text, pattern, t, p) => \E u \in t..N : Piece(u) /\ Ahead(text, pattern, u, q)
  BY <1>3 DEF Ahead
<1>6. (\E u \in t..N : Piece(u) /\ Ahead(text, pattern, u, q)) => Ahead(text, pattern, t, p)
  BY <1>4
<1> QED
  BY <1>5, <1>6

\* A star leaves any number of characters.
LEMMA AheadStar ==
  ASSUME NEW text \in Seq(Byte), NEW pattern \in Seq(Byte), NEW t \in 0..Len(text),
         NEW p \in 0..Len(pattern), p # Len(pattern), pattern[p + 1] = "*"
  PROVE  Ahead(text, pattern, t, p) <=> \E u \in t..Len(text) : Ahead(text, pattern, u, p + 1)
  BY AheadSplit

\* Any other character of the pattern takes one.
LEMMA AheadOne ==
  ASSUME NEW text \in Seq(Byte), NEW pattern \in Seq(Byte), NEW t \in 0..Len(text),
         NEW p \in 0..Len(pattern), p # Len(pattern), pattern[p + 1] # "*"
  PROVE  Ahead(text, pattern, t, p) <=>
           /\ t < Len(text) /\ pattern[p + 1] \in {"?", text[t + 1]}
           /\ Ahead(text, pattern, t + 1, p + 1)
<1>1. Len(text) \in Nat /\ t \in Nat
  BY LenProperties
<1>2. Ahead(text, pattern, t, p) <=>
        \E u \in t..Len(text) : /\ u = t + 1 /\ pattern[p + 1] \in {"?", text[u]}
                                /\ Ahead(text, pattern, u, p + 1)
  BY AheadSplit
<1>3. t + 1 \in t..Len(text) <=> t < Len(text)
  BY <1>1
<1> QED
  BY <1>2, <1>3

\* A match goes on over characters that are no stars.
LEMMA AheadMany ==
  ASSUME NEW text \in Seq(Byte), NEW pattern \in Seq(Byte), NEW u \in 0..Len(text),
         NEW q \in 0..Len(pattern), NEW p \in q..Len(pattern),
         \A i \in (q + 1)..p : pattern[i] # "*", Ahead(text, pattern, u, q)
  PROVE  u + (p - q) <= Len(text) /\ Ahead(text, pattern, u + (p - q), p)
<1> DEFINE P == Len(pattern)
           N == Len(text)
           G(d) == u + d <= N /\ Ahead(text, pattern, u + d, q + d)
           A == {d \in Nat : d <= p - q => G(d)}
<1>1. P \in Nat /\ N \in Nat /\ u \in Nat /\ q \in Nat /\ p \in Nat /\ q <= p /\ p <= P /\ u <= N
  BY LenProperties
<1>2. 0 \in A
  <2>1. u + 0 = u /\ q + 0 = q /\ u <= N /\ 0 \in Nat
    BY <1>1
  <2> QED
    BY <2>1
<1>3. ASSUME NEW d \in A PROVE d + 1 \in A
  <2> SUFFICES ASSUME d + 1 <= p - q PROVE G(d + 1)
    OBVIOUS
  <2>1. d \in Nat /\ d <= p - q
    BY <1>1
  <2>2. u + d <= N /\ Ahead(text, pattern, u + d, q + d)
    BY <1>3, <2>1
  <2>3. u + d \in 0..N /\ q + d \in 0..P /\ q + d # P /\ (q + d) + 1 \in (q + 1)..p
    BY <1>1, <2>1, <2>2
  <2>4. pattern[(q + d) + 1] # "*"
    BY <2>3
  <2>5. u + d < N /\ Ahead(text, pattern, (u + d) + 1, (q + d) + 1)
    BY <2>2, <2>3, <2>4, AheadOne
  <2>6. (u + d) + 1 = u + (d + 1) /\ (q + d) + 1 = q + (d + 1) /\ u + (d + 1) <= N
    BY <1>1, <2>1, <2>5
  <2> QED
    BY <2>5, <2>6
<1>4. A = Nat
  <2>1. A \in SUBSET Nat
    OBVIOUS
  <2> HIDE DEF A
  <2> QED
    BY <1>2, <1>3, <2>1, Induction
<1>5. p - q \in Nat /\ q + (p - q) = p /\ p - q <= p - q
  BY <1>1
<1>6. G(p - q)
  <2>1. p - q \in A
    BY <1>4, <1>5
  <2> QED
    BY <1>5, <2>1
<1> QED
  BY <1>5, <1>6

\* Where the loop goes from a state: over a star, over a character, or back to
\* the last star, which takes one character more.
OverStar(x) == [x EXCEPT !.p = @ + 1, !.star = x.p + 1, !.st = x.t]
OverOne(x) == [x EXCEPT !.p = @ + 1, !.t = @ + 1]
Back(x) == [x EXCEPT !.st = @ + 1, !.t = x.st + 1, !.p = x.star]

\* One turn of the loop, with f for what comes after it.
Turn(f, text, pattern, x) ==
  IF x.p = Len(pattern) THEN TRUE
  ELSE IF pattern[x.p + 1] = "*" THEN f[OverStar(x)]
  ELSE IF x.t < Len(text) /\ pattern[x.p + 1] \in {"?", text[x.t + 1]} THEN f[OverOne(x)]
  ELSE x.star # 0 /\ x.st # Len(text) /\ f[Back(x)]

\* What the loop finds out from a state: a match ahead, or one behind the last
\* star when that takes more characters.
Finds(text, pattern, x) ==
  \/ Ahead(text, pattern, x.t, x.p)
  \/ x.star # 0 /\ \E u \in (x.st + 1)..Len(text) : Ahead(text, pattern, u, x.star)

\* The states of the loop.
LEMMA LoopState ==
  ASSUME NEW text \in Seq(Byte), NEW pattern \in Seq(Byte), NEW x \in LoopStates(text, pattern)
  PROVE  /\ Len(text) \in Nat /\ Len(pattern) \in Nat
         /\ x.t \in 0..Len(text) /\ x.p \in 0..Len(pattern)
         /\ x.star \in 0..Len(pattern) /\ x.st \in 0..Len(text)
         /\ x.star <= x.p /\ x.p - x.star = x.t - x.st
         /\ \A i \in (x.star + 1)..x.p : pattern[i] # "*"
  BY LenProperties DEF LoopStates

\* The loop goes from state to state.
LEMMA LoopMoves ==
  ASSUME NEW text \in Seq(Byte), NEW pattern \in Seq(Byte), NEW x \in LoopStates(text, pattern),
         x.p # Len(pattern)
  PROVE  /\ pattern[x.p + 1] = "*" =>
              /\ OverStar(x) \in LoopStates(text, pattern)
              /\ OverStar(x).t = x.t /\ OverStar(x).p = x.p + 1
              /\ OverStar(x).star = x.p + 1 /\ OverStar(x).st = x.t
         /\ pattern[x.p + 1] # "*" /\ x.t < Len(text) =>
              /\ OverOne(x) \in LoopStates(text, pattern)
              /\ OverOne(x).t = x.t + 1 /\ OverOne(x).p = x.p + 1
              /\ OverOne(x).star = x.star /\ OverOne(x).st = x.st
         /\ x.st # Len(text) =>
              /\ Back(x) \in LoopStates(text, pattern)
              /\ Back(x).t = x.st + 1 /\ Back(x).p = x.star
              /\ Back(x).star = x.star /\ Back(x).st = x.st + 1
<1> DEFINE N == Len(text)
           P == Len(pattern)
           R == [t : 0..N, p : 0..P, star : 0..P, st : 0..N]
<1>1. x \in R
  BY DEF LoopStates
<1>2. /\ N \in Nat /\ P \in Nat
      /\ x.t \in 0..N /\ x.p \in 0..P /\ x.star \in 0..P /\ x.st \in 0..N
      /\ x.star <= x.p /\ x.p - x.star = x.t - x.st
      /\ \A i \in (x.star + 1)..x.p : pattern[i] # "*"
  BY LoopState
<1>3. x.p + 1 \in 0..P
  BY <1>2
<1>4. ASSUME pattern[x.p + 1] = "*"
      PROVE  /\ OverStar(x) \in LoopStates(text, pattern)
             /\ OverStar(x).t = x.t /\ OverStar(x).p = x.p + 1
             /\ OverStar(x).star = x.p + 1 /\ OverStar(x).st = x.t
  <2> DEFINE y == OverStar(x)
  <2>1. y \in R /\ y.t = x.t /\ y.p = x.p + 1 /\ y.star = x.p + 1 /\ y.st = x.t
    BY <1>1, <1>2, <1>3 DEF OverStar
  <2> HIDE DEF y
  <2>2. y.star <= y.p /\ y.p - y.star = y.t - y.st /\ \A i \in (y.star + 1)..y.p : FALSE
    BY <1>2, <2>1
  <2>3. y \in LoopStates(text, pattern)
    BY <2>1, <2>2 DEF LoopStates
  <2> QED
    BY <2>1, <2>3 DEF y
<1>5. ASSUME pattern[x.p + 1] # "*", x.t < N
      PROVE  /\ OverOne(x) \in LoopStates(text, pattern)
             /\ OverOne(x).t = x.t + 1 /\ OverOne(x).p = x.p + 1
             /\ OverOne(x).star = x.star /\ OverOne(x).st = x.st
  <2> DEFINE y == OverOne(x)
  <2>0. x.t + 1 \in 0..N
    BY <1>2, <1>5
  <2>1. y \in R /\ y.t = x.t + 1 /\ y.p = x.p + 1 /\ y.star = x.star /\ y.st = x.st
    BY <1>1, <1>2, <1>3, <2>0 DEF OverOne
  <2> HIDE DEF y
  <2>2. y.star <= y.p /\ y.p - y.star = y.t - y.st /\ \A i \in (y.star + 1)..y.p : i \in (x.star + 1)..x.p \/ i = x.p + 1
    <3>1. /\ x.t \in Nat /\ x.p \in Nat /\ x.star \in Nat /\ x.st \in Nat
          /\ x.star <= x.p /\ x.p - x.star = x.t - x.st
      BY <1>2
    <3>2. x.star <= x.p + 1 /\ (x.p + 1) - x.star = (x.t + 1) - x.st
      <4>1. ASSUME NEW a \in Nat, NEW b \in Nat, NEW c \in Nat, NEW d \in Nat, c <= b, b - c = a - d
            PROVE  c <= b + 1 /\ (b + 1) - c = (a + 1) - d
        BY <4>1
      <4> QED
        BY <3>1, <4>1, SMTT(30)
    <3>3. \A i \in (x.star + 1)..(x.p + 1) : i \in (x.star + 1)..x.p \/ i = x.p + 1
      BY <3>1
    <3> QED
      BY <2>1, <3>2, <3>3
  <2>3. \A i \in (y.star + 1)..y.p : pattern[i] # "*"
    BY <1>2, <1>5, <2>2
  <2>4. y \in LoopStates(text, pattern)
    BY <2>1, <2>2, <2>3 DEF LoopStates
  <2> QED
    BY <2>1, <2>4 DEF y
<1>6. ASSUME x.st # N
      PROVE  /\ Back(x) \in LoopStates(text, pattern)
             /\ Back(x).t = x.st + 1 /\ Back(x).p = x.star
             /\ Back(x).star = x.star /\ Back(x).st = x.st + 1
  <2> DEFINE y == Back(x)
  <2>0. x.st + 1 \in 0..N
    BY <1>2, <1>6
  <2>1. y \in R /\ y.t = x.st + 1 /\ y.p = x.star /\ y.star = x.star /\ y.st = x.st + 1
    BY <1>1, <1>2, <2>0 DEF Back
  <2> HIDE DEF y
  <2>2. y.star <= y.p /\ y.p - y.star = y.t - y.st /\ \A i \in (y.star + 1)..y.p : FALSE
    BY <1>2, <2>1
  <2>3. y \in LoopStates(text, pattern)
    BY <2>1, <2>2 DEF LoopStates
  <2> QED
    BY <2>1, <2>3 DEF y
<1> QED
  BY <1>4, <1>5, <1>6

\* A turn of the loop finds out the same as the next one.
LEMMA TurnFinds ==
  ASSUME NEW text \in Seq(Byte), NEW pattern \in Seq(Byte), NEW x \in LoopStates(text, pattern),
         NEW g, \A y \in LoopStates(text, pattern) : g[y] <=> Finds(text, pattern, y)
  PROVE  Finds(text, pattern, x) <=> Turn(g, text, pattern, x)
<1> DEFINE N == Len(text)
           P == Len(pattern)
           M(t, p) == Ahead(text, pattern, t, p)
<1>1. /\ N \in Nat /\ P \in Nat
      /\ x.t \in 0..N /\ x.p \in 0..P /\ x.star \in 0..P /\ x.st \in 0..N
      /\ x.star <= x.p /\ x.p - x.star = x.t - x.st
      /\ \A i \in (x.star + 1)..x.p : pattern[i] # "*"
  BY LoopState
<1> DEFINE Later == x.star # 0 /\ \E u \in (x.st + 1)..N : M(u, x.star)
<1>2. Finds(text, pattern, x) <=> M(x.t, x.p) \/ Later
  BY DEF Finds
<1>3. CASE x.p = P
  <2>1. M(x.t, P)
    BY <1>1, AheadEnd
  <2> QED
    BY <1>2, <1>3, <2>1 DEF Turn
<1>4. CASE x.p # P /\ pattern[x.p + 1] = "*"
  <2> DEFINE y == OverStar(x)
  <2>1. /\ y \in LoopStates(text, pattern)
        /\ y.t = x.t /\ y.p = x.p + 1 /\ y.star = x.p + 1 /\ y.st = x.t
    BY <1>4, LoopMoves
  <2>2. Turn(g, text, pattern, x) <=> Finds(text, pattern, y)
    BY <1>4, <2>1 DEF Turn
  <2> HIDE DEF y
  <2>3. M(x.t, x.p) <=> \E u \in x.t..N : M(u, x.p + 1)
    BY <1>1, <1>4, AheadStar
  <2>4. Finds(text, pattern, y) <=> M(x.t, x.p + 1) \/ \E u \in (x.t + 1)..N : M(u, x.p + 1)
    <3>1. x.p + 1 # 0
      BY <1>1
    <3> QED
      BY <2>1, <3>1 DEF Finds
  <2>5. \A u : u \in x.t..N <=> u = x.t \/ u \in (x.t + 1)..N
    BY <1>1
  <2>6. Finds(text, pattern, y) <=> M(x.t, x.p)
    BY <2>3, <2>4, <2>5
  <2>7. ASSUME Later PROVE M(x.t, x.p)
    <3>1. PICK u \in (x.st + 1)..N : M(u, x.star)
      BY <2>7
    <3> DEFINE v == u + (x.p - x.star)
    <3>2. u \in 0..N /\ x.p \in x.star..P
      BY <1>1, <3>1
    <3>3. v <= N /\ M(v, x.p)
      BY <1>1, <3>1, <3>2, AheadMany
    <3>4. v \in 0..N /\ v \in x.t..N /\ v \in Nat
      BY <1>1, <3>1, <3>2, <3>3, SMTT(30)
    <3> HIDE DEF v
    <3>5. PICK z \in v..N : M(z, x.p + 1)
      BY <1>1, <1>4, <3>3, <3>4, AheadStar
    <3>6. z \in x.t..N
      BY <1>1, <3>4, <3>5
    <3> QED
      BY <2>3, <3>5, <3>6
  <2> QED
    BY <1>2, <2>2, <2>6, <2>7
<1>5. CASE x.p # P /\ pattern[x.p + 1] # "*"
  <2>1. M(x.t, x.p) <=> /\ x.t < N /\ pattern[x.p + 1] \in {"?", text[x.t + 1]}
                        /\ M(x.t + 1, x.p + 1)
    BY <1>1, <1>5, AheadOne
  <2>2. CASE x.t < N /\ pattern[x.p + 1] \in {"?", text[x.t + 1]}
    <3> DEFINE y == OverOne(x)
    <3>1. /\ y \in LoopStates(text, pattern)
          /\ y.t = x.t + 1 /\ y.p = x.p + 1 /\ y.star = x.star /\ y.st = x.st
      BY <1>5, <2>2, LoopMoves
    <3>2. Turn(g, text, pattern, x) <=> Finds(text, pattern, y)
      BY <1>5, <2>2, <3>1 DEF Turn
    <3> HIDE DEF y
    <3>3. Finds(text, pattern, y) <=> M(x.t + 1, x.p + 1) \/ Later
      BY <3>1 DEF Finds
    <3> QED
      BY <1>2, <2>1, <2>2, <3>2, <3>3
  <2>3. CASE ~(x.t < N /\ pattern[x.p + 1] \in {"?", text[x.t + 1]})
    <3>1. Finds(text, pattern, x) <=> Later
      BY <1>2, <2>1, <2>3
    <3>2. Turn(g, text, pattern, x) <=> x.star # 0 /\ x.st # N /\ g[Back(x)]
      BY <1>5, <2>3 DEF Turn
    <3>3. CASE x.st = N
      <4>1. \A u \in (x.st + 1)..N : FALSE
        BY <1>1, <3>3
      <4> QED
        BY <3>1, <3>2, <3>3, <4>1
    <3>4. CASE x.st # N
      <4> DEFINE y == Back(x)
      <4>1. /\ y \in LoopStates(text, pattern)
            /\ y.t = x.st + 1 /\ y.p = x.star /\ y.star = x.star /\ y.st = x.st + 1
        BY <1>5, <3>4, LoopMoves
      <4>2. g[y] <=> Finds(text, pattern, y)
        BY <4>1
      <4> HIDE DEF y
      <4>3. Finds(text, pattern, y) <=>
              M(x.st + 1, x.star) \/ (x.star # 0 /\ \E u \in (x.st + 1 + 1)..N : M(u, x.star))
        BY <4>1 DEF Finds
      <4>4. \A u : u \in (x.st + 1)..N <=> u = x.st + 1 \/ u \in (x.st + 1 + 1)..N
        BY <1>1, <3>4
      <4>5. x.star # 0 => (Later <=> Finds(text, pattern, y))
        BY <4>3, <4>4
      <4> QED
        BY <3>1, <3>2, <3>4, <4>2, <4>5 DEF y
    <3> QED
      BY <3>3, <3>4
  <2> QED
    BY <2>2, <2>3
<1> QED
  BY <1>3, <1>4, <1>5

\* The loop goes on to the right: it comes to an end, and decides what it finds.
LEMMA LoopDecides ==
  ASSUME NEW text \in Seq(Byte), NEW pattern \in Seq(Byte),
         NEW f, \A x \in LoopStates(text, pattern) : f[x] <=> Turn(f, text, pattern, x),
         NEW g, \A x \in LoopStates(text, pattern) : g[x] <=> Turn(g, text, pattern, x)
  PROVE  \A x \in LoopStates(text, pattern) : f[x] <=> g[x]
<1> DEFINE L == LoopStates(text, pattern)
           N == Len(text)
           P == Len(pattern)
           D == {x \in L : ~(f[x] <=> g[x])}
<1>1. N \in Nat /\ P \in Nat
  BY LenProperties
<1>2. \A x \in L : x.star \in 0..P /\ x.st \in 0..N /\ x.p \in 0..P /\ x.star <= x.p
  BY LoopState
<1> SUFFICES ASSUME D # {} PROVE FALSE
  OBVIOUS
<1> HIDE DEF L
<1>3. PICK a \in D : \A x \in D : x.star <= a.star
  <2> DEFINE A == {x.star : x \in D}
  <2>1. A \in SUBSET (0..P) /\ A # {}
    BY <1>2
  <2>2. Max(A) \in A /\ \A y \in A : Max(A) >= y
    <3> HIDE DEF A, P
    <3> QED
      BY <1>1, <2>1, GreatestPosition
  <2>3. PICK a \in D : a.star = Max(A)
    BY <2>2
  <2>4. ASSUME NEW x \in D PROVE x.star <= a.star
    <3>1. x.star \in A /\ a.star \in A
      OBVIOUS
    <3>2. a.star >= x.star
      BY <2>2, <2>3, <3>1
    <3>3. x.star \in Nat /\ a.star \in Nat
      BY <2>1, <3>1
    <3> QED
      BY <3>2, <3>3
  <2> QED
    BY <2>4
<1> DEFINE E == {x \in D : x.star = a.star}
<1>4. PICK b \in E : \A x \in E : x.st <= b.st
  <2> DEFINE A == {x.st : x \in E}
  <2>1. A \in SUBSET (0..N) /\ A # {}
    BY <1>2
  <2>2. Max(A) \in A /\ \A y \in A : Max(A) >= y
    <3> HIDE DEF A, N
    <3> QED
      BY <1>1, <2>1, GreatestPosition
  <2>3. PICK b \in E : b.st = Max(A)
    BY <2>2
  <2>4. ASSUME NEW x \in E PROVE x.st <= b.st
    <3>1. x.st \in A /\ b.st \in A
      OBVIOUS
    <3>2. b.st >= x.st
      BY <2>2, <2>3, <3>1
    <3>3. x.st \in Nat /\ b.st \in Nat
      BY <2>1, <3>1
    <3> QED
      BY <3>2, <3>3
  <2> QED
    BY <2>4
<1> DEFINE F == {x \in E : x.st = b.st}
<1>5. PICK c \in F : \A x \in F : x.p <= c.p
  <2> DEFINE A == {x.p : x \in F}
  <2>1. A \in SUBSET (0..P) /\ A # {}
    BY <1>2
  <2>2. Max(A) \in A /\ \A y \in A : Max(A) >= y
    <3> HIDE DEF A, P
    <3> QED
      BY <1>1, <2>1, GreatestPosition
  <2>3. PICK c \in F : c.p = Max(A)
    BY <2>2
  <2>4. ASSUME NEW x \in F PROVE x.p <= c.p
    <3>1. x.p \in A /\ c.p \in A
      OBVIOUS
    <3>2. c.p >= x.p
      BY <2>2, <2>3, <3>1
    <3>3. x.p \in Nat /\ c.p \in Nat
      BY <2>1, <3>1
    <3> QED
      BY <3>2, <3>3
  <2> QED
    BY <2>4
<1>6. c \in L /\ ~(f[c] <=> g[c]) /\ c.star = a.star /\ c.st = b.st
  OBVIOUS
<1>7. c.star \in Nat /\ c.st \in Nat /\ c.p \in Nat /\ c.star <= c.p
  BY <1>2, <1>6
<1>8. (f[c] <=> Turn(f, text, pattern, c)) /\ (g[c] <=> Turn(g, text, pattern, c))
  BY <1>6 DEF L
<1>9. \A y \in L : ~(f[y] <=> g[y]) => y.star <= c.star
  BY <1>3, <1>6
<1>10. \A y \in L : ~(f[y] <=> g[y]) /\ y.star = c.star => y.st <= c.st
  BY <1>4, <1>6
<1>11. \A y \in L : ~(f[y] <=> g[y]) /\ y.star = c.star /\ y.st = c.st => y.p <= c.p
  BY <1>5, <1>6
<1> HIDE DEF D, E, F
<1>12. CASE c.p = P
  BY <1>6, <1>8, <1>12 DEF Turn
<1>13. CASE c.p # P /\ pattern[c.p + 1] = "*"
  <2>1. OverStar(c) \in L /\ OverStar(c).star = c.p + 1
    BY <1>6, <1>13, LoopMoves DEF L
  <2>2. f[OverStar(c)] <=> g[OverStar(c)]
    <3>1. ~(c.p + 1 <= c.star)
      BY <1>7
    <3> QED
      BY <1>9, <2>1, <3>1
  <2> QED
    BY <1>6, <1>8, <1>13, <2>2 DEF Turn
<1>14. CASE c.p # P /\ pattern[c.p + 1] # "*" /\ c.t < N /\ pattern[c.p + 1] \in {"?", text[c.t + 1]}
  <2>1. OverOne(c) \in L /\ OverOne(c).p = c.p + 1 /\ OverOne(c).star = c.star /\ OverOne(c).st = c.st
    BY <1>6, <1>14, LoopMoves DEF L
  <2>2. f[OverOne(c)] <=> g[OverOne(c)]
    <3>1. ~(c.p + 1 <= c.p)
      BY <1>7
    <3> QED
      BY <1>11, <2>1, <3>1
  <2> QED
    BY <1>6, <1>8, <1>14, <2>2 DEF Turn
<1>15. CASE /\ c.p # P /\ pattern[c.p + 1] # "*"
            /\ ~(c.t < N /\ pattern[c.p + 1] \in {"?", text[c.t + 1]})
  <2>1. CASE c.st = N
    BY <1>6, <1>8, <1>15, <2>1 DEF Turn
  <2>2. CASE c.st # N
    <3>1. Back(c) \in L /\ Back(c).star = c.star /\ Back(c).st = c.st + 1
      BY <1>6, <1>15, <2>2, LoopMoves DEF L
    <3>2. f[Back(c)] <=> g[Back(c)]
      <4>1. ~(c.st + 1 <= c.st)
        BY <1>7
      <4> QED
        BY <1>10, <3>1, <4>1
    <3> QED
      BY <1>6, <1>8, <1>15, <2>2, <3>2 DEF Turn
  <2> QED
    BY <2>1, <2>2
<1> QED
  BY <1>12, <1>13, <1>14, <1>15

\* wildcard_matches_prefix finds a match of the whole pattern, and only such.
LEMMA WildcardPrefix ==
  ASSUME NEW text \in Seq(Byte), NEW pattern \in Seq(Byte)
  PROVE  wildcard_matches_prefix(text, pattern) <=> Ahead(text, pattern, 0, 0)
<1> DEFINE L == LoopStates(text, pattern)
           N == Len(text)
           P == Len(pattern)
           first == [t |-> 0, p |-> 0, star |-> 0, st |-> 0]
           g == [x \in L |-> Finds(text, pattern, x)]
           match[x \in L] ==
             IF x.p = Len(pattern) THEN TRUE
             ELSE IF pattern[x.p + 1] = "*"
                    THEN match[[x EXCEPT !.p = @ + 1, !.star = x.p + 1, !.st = x.t]]
             ELSE IF x.t < Len(text) /\ pattern[x.p + 1] \in {"?", text[x.t + 1]}
                    THEN match[[x EXCEPT !.p = @ + 1, !.t = @ + 1]]
             ELSE /\ x.star # 0
                  /\ x.st # Len(text)
                  /\ match[[x EXCEPT !.st = @ + 1, !.t = x.st + 1, !.p = x.star]]
           h == [x \in L |->
             IF x.p = Len(pattern) THEN TRUE
             ELSE IF pattern[x.p + 1] = "*"
                    THEN g[[x EXCEPT !.p = @ + 1, !.star = x.p + 1, !.st = x.t]]
             ELSE IF x.t < Len(text) /\ pattern[x.p + 1] \in {"?", text[x.t + 1]}
                    THEN g[[x EXCEPT !.p = @ + 1, !.t = @ + 1]]
             ELSE /\ x.star # 0
                  /\ x.st # Len(text)
                  /\ g[[x EXCEPT !.st = @ + 1, !.t = x.st + 1, !.p = x.star]]]
<1>1. N \in Nat /\ P \in Nat
  BY LenProperties
<1>2. \A x \in L : Turn(g, text, pattern, x) <=> Finds(text, pattern, x)
  <2>1. \A x \in L : g[x] <=> Finds(text, pattern, x)
    OBVIOUS
  <2> HIDE DEF g
  <2> QED
    BY <2>1, TurnFinds
<1>3. \A x \in L : h[x] = Turn(g, text, pattern, x)
  <2> HIDE DEF g, L
  <2> QED
    BY Zenon DEF Turn, OverStar, OverOne, Back
<1>4. \A x \in L : Turn(g, text, pattern, x) \in BOOLEAN /\ Finds(text, pattern, x) \in BOOLEAN
  <2>1. \A x \in L : Finds(text, pattern, x) \in BOOLEAN
    BY DEF Finds
  <2>2. ASSUME NEW x \in L PROVE Turn(g, text, pattern, x) \in BOOLEAN
    <3>1. CASE x.p = P
      BY <3>1 DEF Turn
    <3>2. CASE x.p # P /\ pattern[x.p + 1] = "*"
      <4>1. OverStar(x) \in L
        BY <3>2, LoopMoves
      <4>2. g[OverStar(x)] \in BOOLEAN
        BY <2>1, <4>1
      <4> HIDE DEF g
      <4> QED
        BY <3>2, <4>2 DEF Turn
    <3>3. CASE x.p # P /\ pattern[x.p + 1] # "*" /\ x.t < N /\ pattern[x.p + 1] \in {"?", text[x.t + 1]}
      <4>1. OverOne(x) \in L
        BY <3>3, LoopMoves
      <4>2. g[OverOne(x)] \in BOOLEAN
        BY <2>1, <4>1
      <4> HIDE DEF g
      <4> QED
        BY <3>3, <4>2 DEF Turn
    <3>4. CASE /\ x.p # P /\ pattern[x.p + 1] # "*"
               /\ ~(x.t < N /\ pattern[x.p + 1] \in {"?", text[x.t + 1]})
      <4> HIDE DEF g
      <4>1. Turn(g, text, pattern, x) = (x.star # 0 /\ x.st # N /\ g[Back(x)])
        BY <3>4 DEF Turn
      <4> QED
        BY <4>1
    <3> QED
      BY <3>1, <3>2, <3>3, <3>4
  <2> QED
    BY <2>1, <2>2
<1>5. g = h
  <2>1. \A x \in L : Finds(text, pattern, x) = Turn(g, text, pattern, x)
    <3> HIDE DEF g
    <3> QED
      BY <1>2, <1>4
  <2>2. \A x \in L : g[x] = h[x]
    <3>1. \A x \in L : g[x] = Finds(text, pattern, x)
      OBVIOUS
    <3> HIDE DEF g, h
    <3> QED
      BY <1>3, <2>1, <3>1
  <2>3. h = [x \in L |-> h[x]] /\ g = [x \in L |-> g[x]]
    OBVIOUS
  <2> HIDE DEF h, g
  <2> QED
    BY <2>2, <2>3
<1>6. match = [x \in L |->
             IF x.p = Len(pattern) THEN TRUE
             ELSE IF pattern[x.p + 1] = "*"
                    THEN match[[x EXCEPT !.p = @ + 1, !.star = x.p + 1, !.st = x.t]]
             ELSE IF x.t < Len(text) /\ pattern[x.p + 1] \in {"?", text[x.t + 1]}
                    THEN match[[x EXCEPT !.p = @ + 1, !.t = @ + 1]]
             ELSE /\ x.star # 0
                  /\ x.st # Len(text)
                  /\ match[[x EXCEPT !.st = @ + 1, !.t = x.st + 1, !.p = x.star]]]
  <2> HIDE DEF g, L
  <2> QED
    BY <1>5, Zenon
<1>7. wildcard_matches_prefix(text, pattern) = match[first]
  BY Zenon DEF wildcard_matches_prefix
<1> HIDE DEF match
<1>8. \A x \in L : match[x] <=> Turn(match, text, pattern, x)
  <2> HIDE DEF L
  <2> QED
    BY <1>6, Zenon DEF Turn, OverStar, OverOne, Back
<1>9. \A x \in L : g[x] <=> Turn(g, text, pattern, x)
  <2>1. \A x \in L : g[x] <=> Finds(text, pattern, x)
    OBVIOUS
  <2> HIDE DEF g
  <2> QED
    BY <1>2, <2>1
<1>10. \A x \in L : match[x] <=> g[x]
  <2> HIDE DEF g
  <2> QED
    BY <1>8, <1>9, LoopDecides
<1>11. first \in L
  BY <1>1 DEF LoopStates
<1>12. Finds(text, pattern, first) <=> Ahead(text, pattern, 0, 0)
  BY DEF Finds
<1>13. g[first] <=> Finds(text, pattern, first)
  BY <1>11
<1> HIDE DEF g, first
<1> QED
  BY <1>7, <1>10, <1>11, <1>12, <1>13

\* The rest of some text.
LEMMA RestOfText ==
  ASSUME NEW S, NEW a \in Seq(S), NEW n \in 0..Len(a)
  PROVE  LET b == SubSeq(a, n + 1, Len(a)) IN
           /\ b \in Seq(S) /\ Len(b) = Len(a) - n /\ Len(a) \in Nat
           /\ \A i \in 1..(Len(a) - n) : b[i] = a[n + i]
<1> DEFINE b == SubSeq(a, n + 1, Len(a))
           c == SubSeq(a, 1, n)
<1>1. Len(a) \in Nat /\ n \in Nat
  BY LenProperties
<1>2. b \in Seq(S) /\ Len(b) = Len(a) - n /\ c \in Seq(S) /\ Len(c) = n /\ a = c \o b
  BY CutAt, ZenonT(30)
<1> HIDE DEF b, c
<1>3. \A i \in 1..(Len(c) + Len(b)) : (c \o b)[i] = IF i <= Len(c) THEN c[i] ELSE b[i - Len(c)]
  BY <1>2, ConcatProperties
<1>4. ASSUME NEW i \in 1..(Len(a) - n) PROVE b[i] = a[n + i]
  <2>1. n + i \in 1..(Len(c) + Len(b)) /\ ~(n + i <= Len(c)) /\ n + i - Len(c) = i
    BY <1>1, <1>2
  <2> QED
    BY <1>2, <1>3, <2>1
<1> QED
  BY <1>1, <1>2, <1>4 DEF b

\* wildcard_contains finds what the pattern covers.
LEMMA WildcardMeans ==
  ASSUME NEW text \in Seq(Byte), NEW pattern \in Seq(Byte)
  PROVE  wildcard_contains(text, pattern) <=>
           \E cut \in [0..Len(pattern) -> 0..Len(text)] : Covers(text, pattern, cut)
<1> DEFINE N == Len(text)
           P == Len(pattern)
           Rest(n) == SubSeq(text, n + 1, Len(text))
<1>1. N \in Nat /\ P \in Nat
  BY LenProperties
<1>2. \A n \in 0..N : /\ Rest(n) \in Seq(Byte) /\ Len(Rest(n)) = N - n
                      /\ \A i \in 1..(N - n) : Rest(n)[i] = text[n + i]
  BY RestOfText
<1> HIDE DEF Rest
<1>3. wildcard_contains(text, pattern) <=> \E n \in 0..N : Ahead(Rest(n), pattern, 0, 0)
  <2>1. \A n \in 0..N : wildcard_matches_prefix(Rest(n), pattern) <=> Ahead(Rest(n), pattern, 0, 0)
    BY <1>2, WildcardPrefix
  <2>2. wildcard_contains(text, pattern) <=> \E n \in 0..N : wildcard_matches_prefix(Rest(n), pattern)
    BY DEF wildcard_contains, Rest
  <2> QED
    BY <2>1, <2>2
<1>4. ASSUME NEW n \in 0..N, Ahead(Rest(n), pattern, 0, 0)
      PROVE  \E cut \in [0..P -> 0..N] : Covers(text, pattern, cut)
  <2> DEFINE r == Rest(n)
  <2>1. PICK c \in Cuts(r, pattern, 0) : c[0] = 0 /\ Fits(r, pattern, 0, c)
    BY <1>4 DEF Ahead
  <2>2. r \in Seq(Byte) /\ Len(r) = N - n /\ \A i \in 1..(N - n) : r[i] = text[n + i]
    BY <1>2
  <2> HIDE DEF r
  <2>3. \A i \in 0..P : c[i] \in 0..(N - n)
    BY <2>1, <2>2 DEF Cuts
  <2> DEFINE cut == [i \in 0..P |-> n + c[i]]
  <2>4. cut \in [0..P -> 0..N]
    <3>1. \A y \in 0..(N - n) : n + y \in 0..N
      BY <1>1
    <3> QED
      BY <2>3, <3>1
  <2>5. Covers(text, pattern, cut)
    <3> SUFFICES ASSUME NEW i \in 1..P
                 PROVE  /\ cut[i - 1] <= cut[i]
                        /\ pattern[i] # "*" => cut[i] = cut[i - 1] + 1 /\ pattern[i] \in {"?", text[cut[i]]}
      BY DEF Covers
    <3>1. i \in 0..P /\ i - 1 \in 0..P /\ i \in (0 + 1)..P
      BY <1>1
    <3>2. cut[i] = n + c[i] /\ cut[i - 1] = n + c[i - 1]
      BY <3>1
    <3>3. /\ c[i - 1] <= c[i]
          /\ pattern[i] # "*" => c[i] = c[i - 1] + 1 /\ pattern[i] \in {"?", r[c[i]]}
      BY <2>1, <3>1 DEF Fits
    <3>4. c[i] \in 0..(N - n) /\ c[i - 1] \in 0..(N - n) /\ c[i] \in Nat /\ c[i - 1] \in Nat /\ n \in Nat
      BY <1>1, <2>3, <3>1
    <3> HIDE DEF cut
    <3>5. cut[i - 1] <= cut[i]
      BY <3>2, <3>3, <3>4
    <3>6. ASSUME pattern[i] # "*" PROVE cut[i] = cut[i - 1] + 1 /\ pattern[i] \in {"?", text[cut[i]]}
      <4>1. cut[i] = cut[i - 1] + 1
        <5>1. c[i] = c[i - 1] + 1
          BY <3>3, <3>6
        <5> QED
          BY <3>2, <3>4, <5>1
      <4>2. c[i] \in 1..(N - n)
        BY <1>1, <3>3, <3>4, <3>6
      <4>3. r[c[i]] = text[cut[i]]
        BY <2>2, <3>2, <4>2
      <4> QED
        BY <3>3, <3>6, <4>1, <4>3
    <3> QED
      BY <3>5, <3>6
  <2> QED
    BY <2>4, <2>5
<1>5. ASSUME NEW cut \in [0..P -> 0..N], Covers(text, pattern, cut)
      PROVE  \E n \in 0..N : Ahead(Rest(n), pattern, 0, 0)
  <2> DEFINE n == cut[0]
             r == Rest(n)
             c == [i \in 0..P |-> cut[i] - n]
  <2>1. n \in 0..N /\ \A i \in 0..P : cut[i] \in 0..N
    BY <1>1
  <2>2. r \in Seq(Byte) /\ Len(r) = N - n /\ \A i \in 1..(N - n) : r[i] = text[n + i]
    BY <1>2, <2>1
  <2> HIDE DEF n
  <2>3. \A i \in 0..P : n <= cut[i]
    <3> DEFINE A == {i \in Nat : i <= P => n <= cut[i]}
    <3>1. 0 \in A
      BY <1>1, <2>1 DEF n
    <3>2. ASSUME NEW i \in A PROVE i + 1 \in A
      <4> SUFFICES ASSUME i + 1 <= P PROVE n <= cut[i + 1]
        OBVIOUS
      <4>1. i \in 0..P /\ i + 1 \in 0..P /\ i + 1 \in 1..P /\ (i + 1) - 1 = i
        BY <1>1
      <4>2. n <= cut[i] /\ cut[i] <= cut[i + 1]
        BY <1>5, <3>2, <4>1 DEF Covers
      <4>3. cut[i] \in Nat /\ cut[i + 1] \in Nat /\ n \in Nat
        BY <2>1, <4>1
      <4> QED
        BY <4>2, <4>3
    <3>3. A = Nat
      <4>1. A \in SUBSET Nat
        OBVIOUS
      <4> HIDE DEF A
      <4> QED
        BY <3>1, <3>2, <4>1, Induction
    <3> QED
      BY <1>1, <3>3
  <2>4. c \in Cuts(r, pattern, 0)
    <3>1. \A y \in 0..N : n <= y => y - n \in 0..(N - n)
      BY <1>1, <2>1
    <3>2. \A i \in 0..P : cut[i] - n \in 0..(N - n)
      BY <2>1, <2>3, <3>1
    <3> HIDE DEF r
    <3> QED
      BY <2>2, <3>2 DEF Cuts
  <2>5. c[0] = 0
    <3>1. 0 \in 0..P /\ n - n = 0
      BY <1>1, <2>1
    <3> QED
      BY <3>1 DEF n
  <2>6. Fits(r, pattern, 0, c)
    <3> SUFFICES ASSUME NEW i \in (0 + 1)..P
                 PROVE  /\ c[i - 1] <= c[i]
                        /\ pattern[i] # "*" => c[i] = c[i - 1] + 1 /\ pattern[i] \in {"?", r[c[i]]}
      BY DEF Fits
    <3>1. i \in 0..P /\ i - 1 \in 0..P /\ i \in 1..P
      BY <1>1
    <3>2. c[i] = cut[i] - n /\ c[i - 1] = cut[i - 1] - n
      BY <3>1
    <3>3. /\ cut[i - 1] <= cut[i]
          /\ pattern[i] # "*" => cut[i] = cut[i - 1] + 1 /\ pattern[i] \in {"?", text[cut[i]]}
      BY <1>5, <3>1 DEF Covers
    <3>4. /\ cut[i] \in Nat /\ cut[i - 1] \in Nat /\ n \in Nat /\ n <= cut[i] /\ n <= cut[i - 1]
          /\ cut[i] <= N
      BY <1>1, <2>1, <2>3, <3>1
    <3> HIDE DEF c, r
    <3>5. c[i - 1] <= c[i]
      BY <3>2, <3>3, <3>4
    <3>6. ASSUME pattern[i] # "*" PROVE c[i] = c[i - 1] + 1 /\ pattern[i] \in {"?", r[c[i]]}
      <4>1. c[i] = c[i - 1] + 1
        <5>1. cut[i] = cut[i - 1] + 1
          BY <3>3, <3>6
        <5> QED
          BY <3>2, <3>4, <5>1
      <4>2. c[i] \in 1..(N - n) /\ n + c[i] = cut[i]
        BY <1>1, <3>2, <3>3, <3>4, <3>6
      <4>3. r[c[i]] = text[cut[i]]
        BY <2>2, <4>2
      <4> QED
        BY <3>3, <3>6, <4>1, <4>3
    <3> QED
      BY <3>5, <3>6
  <2>7. Ahead(r, pattern, 0, 0)
    BY <2>4, <2>5, <2>6 DEF Ahead
  <2> QED
    BY <2>1, <2>7
<1> QED
  BY <1>3, <1>4, <1>5

\* `windows(n).any(..)` finds the trigger in the line.
LEMMA WindowMeans ==
  ASSUME NEW text \in Seq(Byte), NEW trigger \in Seq(Byte)
  PROVE  HasWindow(text, trigger) <=>
           \E before, after \in 0..Len(text) :
             /\ before + Len(trigger) + after = Len(text)
             /\ \A i \in DOMAIN trigger : text[before + i] = trigger[i]
<1> DEFINE N == Len(text)
           k == Len(trigger)
           W(b) == SubSeq(text, b + 1, b + k)
<1>1. N \in Nat /\ k \in Nat /\ DOMAIN trigger = 1..k
  BY LenProperties
<1>2. ASSUME NEW b \in Nat, b + k <= N
      PROVE  W(b) = trigger <=> \A i \in 1..k : text[b + i] = trigger[i]
  <2> DEFINE x == b + 1
             y == b + k
  <2>1. x \in Int /\ y \in Int /\ (\A i \in x..y : i \in 1..N) /\ y - x + 1 = k
    BY <1>1, <1>2
  <2>2. \A i \in x..y : text[i] \in Byte
    BY <2>1, ElementOfSeq
  <2> HIDE DEF x, y
  <2>3. /\ SubSeq(text, x, y) \in Seq(Byte)
        /\ Len(SubSeq(text, x, y)) = IF x <= y THEN y - x + 1 ELSE 0
        /\ \A i \in 1..(y - x + 1) : SubSeq(text, x, y)[i] = text[x + i - 1]
    BY <2>1, <2>2, SubSeqProperties
  <2>4. W(b) = SubSeq(text, x, y)
    BY DEF x, y
  <2> HIDE DEF W
  <2>5. W(b) \in Seq(Byte) /\ Len(W(b)) = k
    BY <1>1, <2>1, <2>3, <2>4
  <2>6. \A i \in 1..k : W(b)[i] = text[b + i]
    <3>1. \A i \in 1..k : x + i - 1 = b + i
      BY <1>1 DEF x
    <3> QED
      BY <2>1, <2>3, <2>4, <3>1
  <2>7. (\A i \in 1..k : W(b)[i] = trigger[i]) => W(b) = trigger
    BY <2>5, SeqEqual
  <2> QED
    BY <2>6, <2>7
<1> HIDE DEF W
<1>3. HasWindow(text, trigger) <=> \E b \in 0..(N - k) : W(b) = trigger
  BY DEF HasWindow, W
<1>4. ASSUME NEW b \in 0..(N - k), W(b) = trigger
      PROVE  \E before, after \in 0..N : before + k + after = N /\ \A i \in 1..k : text[before + i] = trigger[i]
  <2>1. b \in Nat /\ b + k <= N /\ b \in 0..N /\ N - k - b \in 0..N /\ b + k + (N - k - b) = N
    BY <1>1
  <2> QED
    BY <1>2, <1>4, <2>1
<1>5. ASSUME NEW b \in 0..N, NEW a \in 0..N, b + k + a = N, \A i \in 1..k : text[b + i] = trigger[i]
      PROVE  \E d \in 0..(N - k) : W(d) = trigger
  <2>1. b \in Nat /\ b + k <= N /\ b \in 0..(N - k)
    BY <1>1, <1>5
  <2> QED
    BY <1>2, <1>5, <2>1
<1> QED
  BY <1>1, <1>3, <1>4, <1>5

\* A trigger matches the lines it means.
LEMMA TriggerMeans ==
  ASSUME NEW l \in Seq(Byte), NEW f, f.trigger \in Seq(Byte), f.trigger # <<>>, f.wildcards \in BOOLEAN
  PROVE  trigger_matches(l, f) <=> Means(l, f)
<1> DEFINE t == f.trigger
<1>1. wildcard_contains(l, t) <=> \E cut \in [0..Len(t) -> 0..Len(l)] : Covers(l, t, cut)
  BY WildcardMeans
<1>2. HasWindow(l, t) <=> \E before, after \in 0..Len(l) :
                            /\ before + Len(t) + after = Len(l)
                            /\ \A i \in DOMAIN t : l[before + i] = t[i]
  BY WindowMeans
<1>3. CASE f.wildcards
  BY <1>1, <1>3, Zenon DEF trigger_matches, Means
<1>4. CASE ~f.wildcards
  BY <1>2, <1>4, Zenon DEF trigger_matches, Means
<1> QED
  BY <1>3, <1>4

\* Every line in the log has the number of the filter that inspect_bytes finds.
Matched ==
  \A s \in Streams : \A i \in 1..Len(log[s]) :
    log[s][i].match = inspect_bytes(filters, log[s][i].bytes)

\* A line is logged with its match.
LEMMA MatchedRecord ==
  ASSUME Types, Filtering, Matched, NEW x \in Line, Record(x), UNCHANGED filters
  PROVE  Matched'
<1>1. <<>> \in Seq(Line)
  BY EmptySeq
<1>2. \A s \in Streams : IF s = x.stream
                         THEN log'[s] = Append(log[s], [bytes |-> x.bytes,
                                         match |-> inspect_bytes(filters, x.bytes)])
                         ELSE log'[s] = log[s]
  BY <1>1, RecordStep
<1> SUFFICES ASSUME NEW s \in Streams, NEW i \in 1..Len(log'[s])
             PROVE  log'[s][i].match = inspect_bytes(filters, log'[s][i].bytes)
  BY DEF Matched
<1>3. CASE s # x.stream
  BY <1>2, <1>3 DEF Matched
<1>4. CASE s = x.stream
  <2> DEFINE y == [bytes |-> x.bytes, match |-> inspect_bytes(filters, x.bytes)]
  <2>1. y \in Logged
    <3>1. x.bytes \in Seq(Byte)
      BY DEF Line
    <3>2. inspect_bytes(filters, x.bytes) \in Nat
      BY Inspected
    <3> QED
      BY <3>1, <3>2 DEF Logged
  <2>2. y.match = inspect_bytes(filters, y.bytes)
    OBVIOUS
  <2>3. log'[s] = Append(log[s], y)
    BY <1>2, <1>4
  <2> HIDE DEF y
  <2>4. log[s] \in Seq(Logged)
    BY TypesOf
  <2>5. /\ Len(log'[s]) = Len(log[s]) + 1 /\ Len(log[s]) \in Nat
        /\ \A j \in 1..Len(log[s]) : log'[s][j] = log[s][j]
        /\ log'[s][Len(log[s]) + 1] = y
    BY <2>1, <2>3, <2>4, AppendProperties, LenProperties
  <2>6. CASE i = Len(log[s]) + 1
    BY <2>2, <2>5, <2>6
  <2>7. CASE i # Len(log[s]) + 1
    <3>1. i \in 1..Len(log[s])
      BY <2>5, <2>7
    <3> QED
      BY <2>5, <3>1 DEF Matched
  <2> QED
    BY <2>6, <2>7
<1> QED
  BY <1>3, <1>4

\* Every step keeps the matches: the filters of an invocation never change.
LEMMA MatchedStep ==
  ASSUME CaptureInv, Matched, [Next]_vars
  PROVE  Matched'
<1>0. Types /\ Filtering /\ Batches
  BY DEF CaptureInv
<1>1. ASSUME UNCHANGED <<log, filters>> PROVE Matched'
  BY <1>1 DEF Matched
<1>2. ASSUME NEW s \in Streams, Write(s) \/ ReaderStep(s) PROVE Matched'
  BY <1>1, <1>2 DEF Write, ReaderStep, Read, EndOfPipe, Send, thread
<1>3. CASE ChildExits \/ HeirExits \/ Terminated \/ UNCHANGED vars
  BY <1>1, <1>3 DEF ChildExits, HeirExits, Terminated, vars, thread
<1>4. CASE Collect \/ Stop \/ NoticeExit \/ StopTimeout \/ DrainEnds
  BY <1>1, <1>4 DEF Collect, Stop, NoticeExit, StopTimeout, DrainEnds
<1>5. CASE FirstLine \/ LastLines
  <2>1. queue # <<>> /\ Record(Head(queue)) /\ UNCHANGED filters
    BY <1>5 DEF FirstLine, LastLines
  <2>2. queue \in Seq(Line)
    BY <1>0 DEF Types
  <2>3. Head(queue) \in Line
    BY <2>1, <2>2, HeadTailProperties
  <2> QED
    BY <1>0, <2>1, <2>3, MatchedRecord
<1>6. CASE BatchLine
  <2>1. loc = "batch" /\ Record(Head(batch)) /\ UNCHANGED filters
    BY <1>6 DEF BatchLine
  <2>2. batch \in Seq(Line) /\ batch # <<>>
    BY <1>0, <2>1 DEF Types, Batches
  <2>3. Head(batch) \in Line
    BY <2>2, HeadTailProperties
  <2> QED
    BY <1>0, <2>1, <2>3, MatchedRecord
<1> QED
  BY <1>2, <1>3, <1>4, <1>5, <1>6 DEF Next, ThreadStep

\* Every line of every log has its match.
THEOREM MatchedInvariant == Spec => []Matched
<1>1. ASSUME Init PROVE Matched
  <2>1. \A s \in Streams : log[s] = <<>>
    BY <1>1 DEF Init
  <2>2. \A i \in 1..Len(<<>>) : FALSE
    BY EmptySeq
  <2> QED
    BY <2>1, <2>2 DEF Matched
<1>2. Init => Matched
  BY <1>1
<1>3. CaptureInv /\ Matched /\ [Next]_vars => Matched'
  BY MatchedStep
<1> QED
  BY <1>2, <1>3, CaptureInvariant, PTL DEF Spec

\* The filter found for a line is the first, by its number, whose trigger
\* occurs in the line, wildcards included.
THEOREM FirstMatch == Spec => []FirstMatchWins
<1>1. ASSUME CaptureInv, Matched PROVE FirstMatchWins
  <2>0. Types /\ Filtering
    BY <1>1 DEF CaptureInv
  <2> SUFFICES ASSUME NEW s \in Streams, log[s] # <<>>
               PROVE  LET record == Last(log[s])
                          means(i) == Means(record.bytes, filters[i])
                      IN IF record.match = 0 THEN \A i \in DOMAIN filters : ~means(i)
                         ELSE /\ means(record.match)
                              /\ \A i \in 1..(record.match - 1) : ~means(i)
    BY DEF FirstMatchWins
  <2> DEFINE r == Last(log[s])
             n == r.match
             b == r.bytes
  <2>1. log[s] \in Seq(Logged) /\ Len(log[s]) \in Nat /\ Len(log[s]) # 0
    BY <2>0, TypesOf, LenProperties, EmptySeq
  <2>2. r = log[s][Len(log[s])] /\ Len(log[s]) \in 1..Len(log[s])
    BY <2>1 DEF Last
  <2>3. n = inspect_bytes(filters, b)
    BY <1>1, <2>2 DEF Matched
  <2>4. b \in Seq(Byte)
    <3>1. r \in Logged
      BY <2>1, <2>2, ElementOfSeq
    <3> QED
      BY <3>1 DEF Logged
  <2> HIDE DEF n, b
  <2>5. /\ n \in Nat
        /\ n = 0 => \A i \in DOMAIN filters : ~trigger_matches(b, filters[i])
        /\ n # 0 => /\ n \in DOMAIN filters /\ trigger_matches(b, filters[n])
                    /\ \A i \in 1..(n - 1) : ~trigger_matches(b, filters[i])
    BY <2>0, <2>3, Inspected
  <2>6. PICK m \in Nat :
          /\ DOMAIN filters = 1..m
          /\ \A i \in 1..m : /\ filters[i].trigger \in Seq(Byte) /\ filters[i].trigger # <<>>
                             /\ filters[i].wildcards \in BOOLEAN
    BY <2>0 DEF Filtering
  <2>7. \A i \in DOMAIN filters : trigger_matches(b, filters[i]) <=> Means(b, filters[i])
    BY <2>4, <2>6, TriggerMeans
  <2>8. n # 0 => \A i \in 1..(n - 1) : i \in DOMAIN filters
    <3> SUFFICES ASSUME n # 0, NEW i \in 1..(n - 1) PROVE i \in DOMAIN filters
      OBVIOUS
    <3>1. n \in 1..m
      BY <2>5, <2>6
    <3>2. i \in 1..m
      BY <3>1, <2>6
    <3> QED
      BY <2>6, <3>2
  <2>9. CASE n = 0
    BY <2>5, <2>7, <2>9 DEF n, b
  <2>10. CASE n # 0
    BY <2>5, <2>7, <2>8, <2>10 DEF n, b
  <2> QED
    BY <2>9, <2>10
<1>2. CaptureInv /\ Matched => FirstMatchWins
  BY <1>1
<1> QED
  BY <1>2, CaptureInvariant, MatchedInvariant, PTL

=============================================================================
