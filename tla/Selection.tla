------------------------------ MODULE Selection -----------------------------
(***************************************************************************)
(* Parts of sequences.  SelectSeq has no definition that the proof system  *)
(* can use, so the models that are proved about select by position.  What  *)
(* a recursive function computes is proved by looking at the first place   *)
(* where it would not.                                                     *)
(***************************************************************************)
EXTENDS Integers, Sequences, FiniteSets, SequencesExt, FiniteSetTheorems, FunctionTheorems, SequenceTheorems,
        WellFoundedInduction, TLAPS

\* The elements of s at the positions in I, in their order.
Selection(s, I) ==
    LET upTo[n \in 0 .. Len(s)] ==
            IF n = 0 THEN << >>
            ELSE IF n \in I THEN Append(upTo[n - 1], s[n]) ELSE upTo[n - 1]
    IN  upTo[Len(s)]

\* A set of natural numbers has a least one.
LEMMA Least ==
    ASSUME NEW T, T \subseteq Nat, T # {}
    PROVE  \E n \in T : \A m \in T : n <= m
<1>1. \E x \in T : \A y \in T : ~ (<<y, x>> \in OpToRel(<, Nat))
  BY NatLessThanWellFounded, WFMin
<1>2. PICK x \in T : \A y \in T : ~ (<<y, x>> \in OpToRel(<, Nat))
  BY <1>1
<1>3. \A y \in T : ~ (y < x)
  BY <1>2 DEF OpToRel
<1> QED
  BY <1>3

\* f builds the selection from s up to position n.
Selects(f, s, I, n) ==
    f = [k \in 0 .. n |-> IF k = 0 THEN << >>
                          ELSE IF k \in I THEN Append(f[k - 1], s[k]) ELSE f[k - 1]]

LEMMA SelectsExists ==
    ASSUME NEW s, NEW I, NEW n \in Nat
    PROVE  \E f : Selects(f, s, I, n)
<1> DEFINE T == {m \in Nat : ~ \E f : Selects(f, s, I, m)}
<1> SUFFICES ASSUME T # {} PROVE FALSE
  OBVIOUS
<1>1. PICK m \in T : \A k \in T : m <= k
  BY Least
<1>2. CASE m = 0
  <2> DEFINE f == [k \in 0 .. 0 |-> << >>]
  <2>1. Selects(f, s, I, 0)
    BY DEF Selects
  <2> QED
    BY <1>2, <2>1
<1>3. CASE m # 0
  <2>1. m - 1 \in Nat /\ m - 1 \notin T
    BY <1>1, <1>3
  <2>2. PICK f : Selects(f, s, I, m - 1)
    BY <2>1
  <2> DEFINE g == [k \in 0 .. m |-> IF k < m THEN f[k]
                                    ELSE IF m \in I THEN Append(f[m - 1], s[m]) ELSE f[m - 1]]
  <2>3. ASSUME NEW k \in 0 .. m
        PROVE  g[k] = IF k = 0 THEN << >>
                      ELSE IF k \in I THEN Append(g[k - 1], s[k]) ELSE g[k - 1]
    <3>1. CASE k = m
      <4>1. g[k] = IF m \in I THEN Append(f[m - 1], s[m]) ELSE f[m - 1]
        BY <3>1
      <4>2. g[m - 1] = f[m - 1]
        BY <2>1
      <4> QED
        BY <1>3, <3>1, <4>1, <4>2
    <3>2. CASE k # m
      <4>1. k \in 0 .. m - 1 /\ g[k] = f[k] /\ (k # 0 => g[k - 1] = f[k - 1])
        BY <2>1, <3>2
      <4>2. f[k] = IF k = 0 THEN << >> ELSE IF k \in I THEN Append(f[k - 1], s[k]) ELSE f[k - 1]
        BY <2>2, <4>1 DEF Selects
      <4> QED
        BY <4>1, <4>2
    <3> QED
      BY <3>1, <3>2
  <2>4. Selects(g, s, I, m)
    BY <2>3 DEF Selects
  <2> QED
    BY <2>4
<1> QED
  BY <1>2, <1>3

LEMMA SelectionIsLast ==
    ASSUME NEW s, Len(s) \in Nat, NEW I
    PROVE  \E f : Selects(f, s, I, Len(s)) /\ Selection(s, I) = f[Len(s)]
<1> DEFINE f == CHOOSE f : Selects(f, s, I, Len(s))
<1>1. Selects(f, s, I, Len(s))
  BY SelectsExists
<1>2. Selection(s, I) = f[Len(s)]
  BY DEF Selection, Selects
<1> QED
  BY <1>1, <1>2

\* t has the elements of s at the positions in I up to n: its k-th is the one at
\* position at[k].
Picks(at, t, s, I, n) ==
    /\ at \in [1 .. Len(t) -> 1 .. n]
    /\ \A j, k \in 1 .. Len(t) : j < k => at[j] < at[k]
    /\ \A k \in 1 .. Len(t) : at[k] \in I /\ t[k] = s[at[k]]
    /\ \A i \in 1 .. n : i \in I => \E k \in 1 .. Len(t) : at[k] = i

LEMMA PickNext ==
    ASSUME NEW S, NEW s \in Seq(S), NEW I, NEW n \in 1 .. Len(s), n \in I,
           NEW t \in Seq(S), NEW at, Picks(at, t, s, I, n - 1)
    PROVE  \E new : Picks(new, Append(t, s[n]), s, I, n)
<1> DEFINE u == Append(t, s[n])
           new == [k \in 1 .. Len(t) + 1 |-> IF k = Len(t) + 1 THEN n ELSE at[k]]
<1>1. /\ s[n] \in S /\ Len(t) \in Nat /\ Len(s) \in Nat /\ n \in Nat
      /\ Len(u) = Len(t) + 1 /\ u[Len(t) + 1] = s[n]
      /\ \A k \in 1 .. Len(t) : u[k] = t[k]
  <2>1. s[n] \in S /\ Len(t) \in Nat /\ Len(s) \in Nat
    BY ElementOfSeq, LenProperties
  <2> QED
    BY <2>1, AppendProperties
<1> HIDE DEF u
<1>2. \A k \in 1 .. Len(t) : at[k] \in 1 .. n - 1
  BY DEF Picks
<1>3. new \in [1 .. Len(u) -> 1 .. n]
  BY <1>1, <1>2
<1>4. \A j, k \in 1 .. Len(u) : j < k => new[j] < new[k]
  <2> SUFFICES ASSUME NEW j \in 1 .. Len(u), NEW k \in 1 .. Len(u), j < k PROVE new[j] < new[k]
    OBVIOUS
  <2>1. j \in 1 .. Len(t) /\ new[j] = at[j]
    BY <1>1
  <2>2. CASE k = Len(t) + 1
    BY <1>1, <1>2, <2>1, <2>2
  <2>3. CASE k # Len(t) + 1
    <3>1. k \in 1 .. Len(t) /\ new[k] = at[k]
      BY <1>1, <2>3
    <3> QED
      BY <2>1, <3>1 DEF Picks
  <2> QED
    BY <2>2, <2>3
<1>5. \A k \in 1 .. Len(u) : new[k] \in I /\ u[k] = s[new[k]]
  <2> SUFFICES ASSUME NEW k \in 1 .. Len(u) PROVE new[k] \in I /\ u[k] = s[new[k]]
    OBVIOUS
  <2>1. CASE k = Len(t) + 1
    BY <1>1, <2>1
  <2>2. CASE k # Len(t) + 1
    <3>1. k \in 1 .. Len(t) /\ new[k] = at[k]
      BY <1>1, <2>2
    <3> QED
      BY <1>1, <3>1 DEF Picks
  <2> QED
    BY <2>1, <2>2
<1>6. \A i \in 1 .. n : i \in I => \E k \in 1 .. Len(u) : new[k] = i
  <2> SUFFICES ASSUME NEW i \in 1 .. n, i \in I PROVE \E k \in 1 .. Len(u) : new[k] = i
    OBVIOUS
  <2>1. CASE i = n
    <3>1. Len(t) + 1 \in 1 .. Len(u) /\ new[Len(t) + 1] = n
      BY <1>1
    <3> QED
      BY <2>1, <3>1
  <2>2. CASE i # n
    <3>1. PICK k \in 1 .. Len(t) : at[k] = i
      BY <1>1, <2>2 DEF Picks
    <3>2. k \in 1 .. Len(u) /\ new[k] = i
      BY <1>1, <3>1
    <3> QED
      BY <3>2
  <2> QED
    BY <2>1, <2>2
<1>7. Picks(new, u, s, I, n)
  BY <1>3, <1>4, <1>5, <1>6 DEF Picks
<1> QED
  BY <1>7 DEF u

\* What is selected: the elements at those positions, each once, in their order.
LEMMA SelectionIs ==
    ASSUME NEW S, NEW s \in Seq(S), NEW I
    PROVE  /\ Selection(s, I) \in Seq(S)
           /\ \E at : Picks(at, Selection(s, I), s, I, Len(s))
<1>1. Len(s) \in Nat
  BY LenProperties
<1>2. PICK f : Selects(f, s, I, Len(s)) /\ Selection(s, I) = f[Len(s)]
  BY <1>1, SelectionIsLast
<1> DEFINE Right(n) == f[n] \in Seq(S) /\ \E at : Picks(at, f[n], s, I, n)
           T == {n \in 0 .. Len(s) : ~ Right(n)}
<1>3. T = {}
  <2> SUFFICES ASSUME T # {} PROVE FALSE
    OBVIOUS
  <2>1. T \subseteq Nat
    BY <1>1
  <2> HIDE DEF T
  <2>2. PICK n \in T : \A m \in T : n <= m
    BY <2>1, Least
  <2> USE DEF T
  <2>3. n \in 0 .. Len(s) /\ ~ Right(n)
    OBVIOUS
  <2> HIDE DEF T
  <2>4. f[n] = IF n = 0 THEN << >> ELSE IF n \in I THEN Append(f[n - 1], s[n]) ELSE f[n - 1]
    BY <1>2, <2>3 DEF Selects
  <2>5. CASE n = 0
    <3> DEFINE none == [k \in 1 .. 0 |-> 0]
    <3>1. f[n] = << >> /\ << >> \in Seq(S) /\ Len(<< >>) = 0
      BY <2>4, <2>5
    <3>2. Picks(none, << >>, s, I, 0)
      BY <3>1 DEF Picks
    <3>3. Right(n)
      <4>1. \E new : Picks(new, f[n], s, I, n)
        BY <2>5, <3>1, <3>2
      <4> QED
        BY <2>5, <3>1, <4>1
    <3> QED
      BY <2>3, <3>3
  <2>6. CASE n # 0
    <3>1. n - 1 \in 0 .. Len(s) /\ n \in 1 .. Len(s) /\ n - 1 \notin T
      BY <1>1, <2>2, <2>3, <2>6
    <3>2. Right(n - 1)
      BY <3>1 DEF T
    <3>3. f[n - 1] \in Seq(S) /\ \E at : Picks(at, f[n - 1], s, I, n - 1)
      BY <3>2
    <3>4. PICK at : Picks(at, f[n - 1], s, I, n - 1)
      BY <3>3
    <3>5. CASE n \in I
      <4>1. f[n] = Append(f[n - 1], s[n]) /\ s[n] \in S
        BY <2>4, <2>6, <3>1, <3>5, ElementOfSeq
      <4>2. f[n] \in Seq(S)
        BY <3>3, <4>1, AppendProperties
      <4>3. \E new : Picks(new, f[n], s, I, n)
        BY <3>1, <3>3, <3>4, <3>5, <4>1, PickNext
      <4>4. Right(n)
        BY <4>2, <4>3
      <4> QED
        BY <2>3, <4>4
    <3>6. CASE n \notin I
      <4>1. f[n] = f[n - 1]
        BY <2>4, <2>6, <3>6
      <4>2. at \in [1 .. Len(f[n]) -> 1 .. n]
        <5>1. at \in [1 .. Len(f[n]) -> 1 .. n - 1]
          BY <3>4, <4>1 DEF Picks
        <5>2. n \in Nat /\ 1 .. n - 1 \subseteq 1 .. n
          BY <1>1, <2>3
        <5> QED
          BY <5>1, <5>2
      <4>3. \A i \in 1 .. n : i \in I => i \in 1 .. n - 1
        BY <1>1, <2>3, <3>6
      <4>4. Picks(at, f[n], s, I, n)
        BY <3>4, <4>1, <4>2, <4>3 DEF Picks
      <4>5. Right(n)
        <5>1. \E new : Picks(new, f[n], s, I, n)
          BY <4>4
        <5> QED
          BY <3>3, <4>1, <5>1
      <4> QED
        BY <2>3, <4>5
    <3> QED
      BY <3>5, <3>6
  <2> QED
    BY <2>5, <2>6
<1>4. Len(s) \in 0 .. Len(s) /\ Len(s) \notin T
  BY <1>1, <1>3
<1>5. Right(Len(s))
  BY <1>4
<1> QED
  BY <1>2, <1>5

\* As many elements are selected as there are positions.
LEMMA PicksCount ==
    ASSUME NEW S, NEW s \in Seq(S), NEW I, NEW t \in Seq(S), NEW at, Picks(at, t, s, I, Len(s))
    PROVE  Len(t) = Cardinality(I \cap (1 .. Len(s)))
<1> DEFINE J == I \cap (1 .. Len(s))
           K == 1 .. Len(t)
<1>1. Len(t) \in Nat /\ Len(s) \in Nat
  BY LenProperties
<1>2. at \in [K -> J]
  <2>1. at \in [K -> 1 .. Len(s)] /\ \A k \in K : at[k] \in I
    BY DEF Picks
  <2> QED
    BY <2>1
<1>3. \A j, k \in K : at[j] = at[k] => j = k
  <2> SUFFICES ASSUME NEW j \in K, NEW k \in K, at[j] = at[k], j # k PROVE FALSE
    OBVIOUS
  <2>1. at[j] \in Nat /\ at[k] \in Nat
    BY <1>1, <1>2
  <2>2. j < k \/ k < j
    BY <1>1
  <2> QED
    BY <2>1, <2>2 DEF Picks
<1>4. \A i \in J : \E k \in K : at[k] = i
  BY DEF Picks
<1>5. at \in Bijection(K, J)
  BY <1>2, <1>3, <1>4, Fun_IsBij
<1>6. ExistsBijection(K, J)
  BY <1>5, Fun_ExistsBij
<1>7. Cardinality(J) = Len(t)
  BY <1>1, <1>6, FS_CountingElements
<1> QED
  BY <1>7

\* The k-th element selected at the positions lo to hi is the one at lo + k - 1.
LEMMA SelectionOfInterval ==
    ASSUME NEW S, NEW s \in Seq(S), NEW lo \in Nat \ {0}, NEW hi \in Nat, lo <= hi + 1, hi <= Len(s)
    PROVE  /\ Len(Selection(s, lo .. hi)) = hi - lo + 1
           /\ \A k \in 1 .. hi - lo + 1 : Selection(s, lo .. hi)[k] = s[lo + k - 1]
<1> DEFINE I == lo .. hi
           t == Selection(s, I)
           c == hi - lo + 1
<1>0. Len(s) \in Nat /\ c \in Nat
  BY LenProperties
<1>1. t \in Seq(S) /\ \E at : Picks(at, t, s, I, Len(s))
  BY SelectionIs
<1>2. PICK at : Picks(at, t, s, I, Len(s))
  BY <1>1
<1>3. Len(t) = c
  <2>1. Len(t) = Cardinality(I \cap (1 .. Len(s)))
    BY <1>1, <1>2, PicksCount
  <2>2. I \cap (1 .. Len(s)) = lo .. hi
    BY <1>0
  <2>3. Cardinality(lo .. hi) = IF lo > hi THEN 0 ELSE hi - lo + 1
    BY FS_Interval
  <2>4. Cardinality(lo .. hi) = hi - lo + 1
    <3>1. lo > hi => hi - lo + 1 = 0
      OBVIOUS
    <3> QED
      BY <2>3, <3>1
  <2> HIDE DEF t, I
  <2> QED
    BY <2>1, <2>2, <2>4
<1> HIDE DEF t
<1>4. /\ at \in [1 .. c -> 1 .. Len(s)]
      /\ \A j, k \in 1 .. c : j < k => at[j] < at[k]
      /\ \A k \in 1 .. c : at[k] \in I /\ t[k] = s[at[k]]
      /\ \A i \in 1 .. Len(s) : i \in I => \E k \in 1 .. c : at[k] = i
  BY <1>2, <1>3 DEF Picks
<1> DEFINE T == {k \in 1 .. c : at[k] # lo + k - 1}
<1>5. T = {}
  <2> SUFFICES ASSUME T # {} PROVE FALSE
    OBVIOUS
  <2>1. PICK k \in T : \A j \in T : k <= j
    <3>1. T \subseteq Nat
      BY <1>0
    <3> QED
      BY <3>1, Least
  <2>2. k \in 1 .. c /\ at[k] # lo + k - 1 /\ \A j \in 1 .. c : j < k => at[j] = lo + j - 1
    BY <1>0, <2>1
  <2>3. at[k] \in Nat /\ lo <= at[k] /\ at[k] <= hi /\ k \in Nat
    BY <1>0, <1>4, <2>2
  <2>4. PICK j \in 1 .. c : at[j] = lo + k - 1
    <3>1. lo + k - 1 \in 1 .. Len(s) /\ lo + k - 1 \in I
      BY <1>0, <2>2
    <3> QED
      BY <1>4, <3>1
  <2>5. j > k
    BY <2>2, <2>4, <1>0
  <2>6. at[k] < lo + k - 1
    BY <1>4, <2>2, <2>4, <2>5
  <2> DEFINE i == at[k] - lo + 1
  <2>7. i \in 1 .. c /\ i < k /\ lo + i - 1 = at[k]
    BY <1>0, <2>2, <2>3, <2>6
  <2> HIDE DEF i
  <2>8. at[i] = at[k] /\ at[i] < at[k]
    BY <1>4, <2>2, <2>7
  <2> QED
    BY <2>3, <2>8
<1>6. ASSUME NEW k \in 1 .. c PROVE t[k] = s[lo + k - 1]
  <2>1. at[k] = lo + k - 1
    BY <1>5
  <2>2. t[k] = s[at[k]]
    BY <1>4
  <2> QED
    BY <2>1, <2>2
<1> QED
  BY <1>3, <1>6 DEF t

\* RemoveAt closes the gap.
LEMMA RemoveAtIs ==
    ASSUME NEW S, NEW l \in Seq(S), NEW k \in 1 .. Len(l)
    PROVE  /\ RemoveAt(l, k) \in Seq(S)
           /\ Len(RemoveAt(l, k)) = Len(l) - 1
           /\ \A i \in 1 .. Len(l) - 1 : RemoveAt(l, k)[i] = IF i < k THEN l[i] ELSE l[i + 1]
<1> DEFINE a == SubSeq(l, 1, k - 1)
           b == SubSeq(l, k + 1, Len(l))
<1>1. Len(l) \in Nat /\ k \in Nat /\ \A i \in 1 .. Len(l) : l[i] \in S
  BY LenProperties, ElementOfSeq
<1>2. /\ a \in Seq(S) /\ Len(a) = k - 1
      /\ \A i \in 1 .. k - 1 : a[i] = l[i]
  <2>1. 1 \in Int /\ k - 1 \in Int /\ \A i \in 1 .. k - 1 : l[i] \in S
    BY <1>1
  <2>2. /\ a \in Seq(S) /\ Len(a) = IF 1 <= k - 1 THEN (k - 1) - 1 + 1 ELSE 0
        /\ \A i \in 1 .. (k - 1) - 1 + 1 : a[i] = l[1 + i - 1]
    BY <2>1, SubSeqProperties
  <2> QED
    BY <1>1, <2>2
<1>3. /\ b \in Seq(S) /\ Len(b) = Len(l) - k
      /\ \A i \in 1 .. Len(l) - k : b[i] = l[k + i]
  <2>1. k + 1 \in Int /\ Len(l) \in Int /\ \A i \in k + 1 .. Len(l) : l[i] \in S
    BY <1>1
  <2>2. /\ b \in Seq(S) /\ Len(b) = IF k + 1 <= Len(l) THEN Len(l) - (k + 1) + 1 ELSE 0
        /\ \A i \in 1 .. Len(l) - (k + 1) + 1 : b[i] = l[k + 1 + i - 1]
    BY <2>1, SubSeqProperties
  <2> QED
    BY <1>1, <2>2
<1>4. RemoveAt(l, k) = a \o b
  BY DEF RemoveAt
<1> HIDE DEF a, b
<1>5. /\ a \o b \in Seq(S) /\ Len(a \o b) = Len(a) + Len(b)
      /\ \A i \in 1 .. Len(a) + Len(b) : (a \o b)[i] = IF i <= Len(a) THEN a[i] ELSE b[i - Len(a)]
  BY <1>2, <1>3, ConcatProperties
<1>6. ASSUME NEW i \in 1 .. Len(l) - 1
      PROVE  (a \o b)[i] = IF i < k THEN l[i] ELSE l[i + 1]
  <2>1. (a \o b)[i] = IF i <= k - 1 THEN a[i] ELSE b[i - (k - 1)]
    BY SMTT(30), <1>1, <1>2, <1>3, <1>5
  <2>2. CASE i < k
    BY <1>1, <1>2, <2>1, <2>2
  <2>3. CASE ~ i < k
    <3>1. i - (k - 1) \in 1 .. Len(l) - k /\ k + (i - (k - 1)) = i + 1
      BY <1>1, <2>3
    <3> QED
      BY <1>1, <1>3, <2>1, <2>3, <3>1
  <2> QED
    BY <1>1, <2>2, <2>3
<1> QED
  BY <1>1, <1>2, <1>3, <1>4, <1>5, <1>6
=============================================================================
