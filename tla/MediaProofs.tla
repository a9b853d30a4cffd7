----------------------------- MODULE MediaProofs -----------------------------
(***************************************************************************)
(* What the functions on bytes of Demux, AnnexB and LocalRtsp compute, for *)
(* inputs of any length: packets and reads are cut anywhere, and the NAL   *)
(* units and frames come out as they were put in.                          *)
(***************************************************************************)
EXTENDS Demux, AnnexB, LocalRtsp, SequenceTheorems, WellFoundedInduction, TLAPS

-----------------------------------------------------------------------------
(* Induction up to a number, and functions defined by recursion up to it.  *)
(* Both rest on the least element of a set of numbers.                     *)

LEMMA NatMin ==
    ASSUME NEW S \in SUBSET Nat, S # {}
    PROVE  \E x \in S : \A y \in S : x <= y
<1> DEFINE R == OpToRel(<, Nat)
<1>1. IsWellFoundedOn(R, Nat)
  BY NatLessThanWellFounded
<1>2. \A x, y \in Nat : y < x => <<y, x>> \in R
  <2> SUFFICES ASSUME NEW x \in Nat, NEW y \in Nat, y < x PROVE <<y, x>> \in R
    OBVIOUS
  <2>1. <<y, x>> \in Nat \X Nat /\ <<y, x>>[1] < <<y, x>>[2]
    OBVIOUS
  <2> QED
    BY <2>1 DEF OpToRel
<1> HIDE DEF R
<1>3. PICK x \in S : \A y \in S : ~(<<y, x>> \in R)
  BY <1>1, WFMin
<1>4. ASSUME NEW y \in S PROVE x <= y
  <2>1. x \in Nat /\ y \in Nat /\ ~(y < x)
    BY <1>2, <1>3
  <2> QED
    BY <2>1
<1> QED
  BY <1>4

\* Min of the community modules, on a set of numbers.
LEMMA MinIs ==
    ASSUME NEW S \in SUBSET Nat, S # {}
    PROVE  Min(S) \in S /\ \A y \in S : Min(S) <= y
BY NatMin DEF Min

LEMMA Induction ==
    ASSUME NEW n \in Nat, NEW S, 0 \in S, \A i \in 0..(n - 1) : i \in S => i + 1 \in S
    PROVE  \A i \in 0..n : i \in S
<1> DEFINE B == {i \in 0..n : i \notin S}
<1> SUFFICES ASSUME B # {} PROVE FALSE
  OBVIOUS
<1>1. PICK m \in B : \A y \in B : m <= y
  <2>1. B \in SUBSET Nat
    OBVIOUS
  <2> HIDE DEF B
  <2> QED
    BY <2>1, NatMin
<1>2. m \in 0..n /\ m # 0 /\ m \notin S
  OBVIOUS
<1>3. m - 1 \in 0..(n - 1) /\ m - 1 \in 0..n /\ ~(m <= m - 1) /\ (m - 1) + 1 = m
  BY <1>2
<1>4. m - 1 \in S
  BY <1>1, <1>3
<1> QED
  BY <1>2, <1>3, <1>4

\* The functions that start with base and go on by step, up to n.
Runs(n, V, base, step) ==
    {f \in [0..n -> V] : f[0] = base /\ \A i \in 1..n : f[i] = step[i][f[i - 1]]}

LEMMA Recursion ==
    ASSUME NEW n \in Nat, NEW V, NEW base \in V, NEW step \in [1..n -> [V -> V]]
    PROVE  Runs(n, V, base, step) # {}
<1> DEFINE Solves(f, m) == f[0] = base /\ \A i \in 1..m : f[i] = step[i][f[i - 1]]
           S == {m \in 0..n : \E f \in [0..m -> V] : Solves(f, m)}
<1>1. 0 \in S
  <2> DEFINE f == [i \in 0..0 |-> base]
  <2>1. f \in [0..0 -> V] /\ Solves(f, 0) /\ 0 \in 0..n
    OBVIOUS
  <2> HIDE DEF f, Solves
  <2> QED
    BY <2>1
<1>2. ASSUME NEW m \in 0..(n - 1), m \in S PROVE m + 1 \in S
  <2>1. PICK f \in [0..m -> V] : Solves(f, m)
    BY <1>2
  <2> DEFINE g == [i \in 0..(m + 1) |-> IF i = m + 1 THEN step[m + 1][f[m]] ELSE f[i]]
  <2>2. m + 1 \in 1..n /\ f[m] \in V
    OBVIOUS
  <2>3. g \in [0..(m + 1) -> V]
    BY <2>2
  <2>4. g[0] = base
    BY <2>1
  <2>5. ASSUME NEW i \in 1..(m + 1) PROVE g[i] = step[i][g[i - 1]]
    <3>1. CASE i = m + 1
      BY <3>1
    <3>2. CASE i # m + 1
      <4>1. i \in 1..m /\ i \in 0..(m + 1) /\ i - 1 \in 0..(m + 1) /\ i - 1 # m + 1
        BY <3>2
      <4>2. g[i] = f[i] /\ g[i - 1] = f[i - 1]
        BY <4>1, <3>2
      <4> QED
        BY <4>1, <4>2, <2>1
    <3> QED
      BY <3>1, <3>2
  <2>6. Solves(g, m + 1)
    BY <2>4, <2>5
  <2> HIDE DEF g, Solves
  <2> QED
    BY <2>2, <2>3, <2>6
<1>3. \A i \in 0..n : i \in S
  <2> HIDE DEF S
  <2> QED
    BY <1>1, <1>2, Induction
<1>4. n \in S
  BY <1>3
<1> QED
  BY <1>4 DEF Runs

LEMMA SameRecursion ==
    ASSUME NEW n \in Nat, NEW f, NEW g, f[0] = g[0],
           \A i \in 1..n : f[i - 1] = g[i - 1] => f[i] = g[i]
    PROVE  \A i \in 0..n : f[i] = g[i]
<1> DEFINE S == {i \in 0..n : f[i] = g[i]}
<1>1. 0 \in S
  OBVIOUS
<1>2. ASSUME NEW i \in 0..(n - 1), i \in S PROVE i + 1 \in S
  <2>1. i + 1 \in 1..n /\ (i + 1) - 1 = i
    OBVIOUS
  <2> QED
    BY <2>1, <1>2
<1>3. \A i \in 0..n : i \in S
  <2> HIDE DEF S
  <2> QED
    BY <1>1, <1>2, Induction
<1> QED
  BY <1>3

-----------------------------------------------------------------------------
(* FlattenSeq adds one part after the other *)

Pieces(S) == Seq(Seq(S))
Sums(parts, S) ==
    {g \in [0..Len(parts) -> Seq(S)] :
        g[0] = <<>> /\ \A i \in 1..Len(parts) : g[i] = g[i - 1] \o parts[i]}

LEMMA FlattenIs ==
    ASSUME NEW S, NEW parts \in Pieces(S)
    PROVE  \E g \in Sums(parts, S) : FlattenSeq(parts) = g[Len(parts)]
<1> DEFINE n == Len(parts)
           step == [i \in 1..n |-> [r \in Seq(S) |-> r \o parts[i]]]
           Solves(f) == f = [i \in 1..n |-> IF i = 1 THEN parts[i] ELSE f[i - 1] \o parts[i]]
<1>1. n \in Nat /\ \A i \in 1..n : parts[i] \in Seq(S)
  BY LenProperties, ElementOfSeq DEF Pieces
<1>2. <<>> \in Seq(S)
  BY EmptySeq
<1>3. step \in [1..n -> [Seq(S) -> Seq(S)]]
  <2>1. \A i \in 1..n : \A r \in Seq(S) : r \o parts[i] \in Seq(S)
    BY <1>1, ConcatProperties
  <2> QED
    BY <2>1
<1>4. PICK g \in [0..n -> Seq(S)] : g[0] = <<>> /\ \A i \in 1..n : g[i] = step[i][g[i - 1]]
  <2> HIDE DEF step, n
  <2>1. Runs(n, Seq(S), <<>>, step) # {}
    BY <1>1, <1>2, <1>3, Recursion
  <2> QED
    BY <2>1 DEF Runs
<1>5. \A i \in 1..n : g[i - 1] \in Seq(S) /\ g[i] = g[i - 1] \o parts[i]
  <2> SUFFICES ASSUME NEW i \in 1..n PROVE g[i - 1] \in Seq(S) /\ g[i] = g[i - 1] \o parts[i]
    OBVIOUS
  <2>1. i - 1 \in 0..n
    BY <1>1
  <2> QED
    BY <2>1, <1>4
<1>6. g \in Sums(parts, S)
  BY <1>4, <1>5 DEF Sums
<1>7. n > 0 => parts[1] \in Seq(S) /\ g[1] = parts[1]
  <2> SUFFICES ASSUME n > 0 PROVE parts[1] \in Seq(S) /\ g[1] = parts[1]
    OBVIOUS
  <2>1. 1 \in 1..n /\ 1 - 1 = 0
    BY <1>1
  <2>2. parts[1] \in Seq(S) /\ g[1] = g[0] \o parts[1]
    BY <1>1, <1>5, <2>1
  <2> QED
    BY <1>4, <2>2, ConcatEmptySeq
<1>8. CASE n = 0
  <2>1. parts = <<>> /\ FlattenSeq(parts) = parts
    BY <1>8, EmptySeq DEF FlattenSeq, Pieces
  <2> QED
    BY <1>4, <1>6, <1>8, <2>1
<1>9. CASE n # 0
  <2> DEFINE f == [i \in 1..n |-> g[i]]
  <2>1. Solves(f)
    <3>1. \A i \in 1..n : g[i] = IF i = 1 THEN parts[i] ELSE f[i - 1] \o parts[i]
      <4> SUFFICES ASSUME NEW i \in 1..n
                   PROVE  g[i] = IF i = 1 THEN parts[i] ELSE f[i - 1] \o parts[i]
        OBVIOUS
      <4>1. CASE i = 1
        BY <1>7, <1>1, <4>1
      <4>2. CASE i # 1
        <5>1. i - 1 \in 1..n
          BY <1>1, <4>2
        <5> QED
          BY <1>5, <4>2, <5>1
      <4> QED
        BY <4>1, <4>2
    <3> QED
      BY <3>1
  <2> HIDE DEF f
  <2> DEFINE h == CHOOSE e : Solves(e)
  <2>2. Solves(h)
    <3> HIDE DEF Solves
    <3> QED
      BY <2>1
  <2>3. FlattenSeq(parts) = h[n]
    BY <1>9 DEF FlattenSeq
  <2> HIDE DEF h
  <2>4. \A i \in 1..n : h[i] = IF i = 1 THEN parts[i] ELSE h[i - 1] \o parts[i]
    BY <2>2
  <2> DEFINE P == {i \in 0..n : i > 0 => h[i] = g[i]}
  <2>5. 0 \in P
    BY <1>1
  <2>6. ASSUME NEW i \in 0..(n - 1), i \in P PROVE i + 1 \in P
    <3>1. i + 1 \in 1..n /\ (i + 1) - 1 = i
      BY <1>1
    <3>2. g[i + 1] = g[i] \o parts[i + 1]
      BY <1>5, <3>1
    <3>3. CASE i = 0
      <4>1. 1 \in 1..n /\ h[1] = parts[1]
        BY <1>1, <2>4, <3>1, <3>3
      <4> QED
        BY <1>7, <1>1, <3>1, <3>3, <4>1
    <3>4. CASE i # 0
      <4>1. h[i] = g[i] /\ i + 1 # 1
        BY <2>6, <3>4
      <4>2. h[i + 1] = g[i + 1]
        BY <2>4, <3>1, <3>2, <4>1
      <4> QED
        BY <1>1, <3>1, <4>2
    <3> QED
      BY <3>3, <3>4
  <2>7. n \in P
    <3> HIDE DEF P, n
    <3>1. \A i \in 0..n : i \in P
      BY <1>1, <2>5, <2>6, Induction
    <3> QED
      BY <1>1, <3>1
  <2>8. h[n] = g[n]
    BY <1>1, <1>9, <2>7
  <2> QED
    BY <1>6, <2>3, <2>8
<1> QED
  BY <1>8, <1>9

\* A sequence behind another.
LEMMA Joined ==
    ASSUME NEW S, NEW s \in Seq(S), NEW t \in Seq(S)
    PROVE  /\ s \o t \in Seq(S) /\ Len(s \o t) = Len(s) + Len(t) /\ Len(s) \in Nat /\ Len(t) \in Nat
           /\ \A k \in 1..Len(s) : (s \o t)[k] = s[k]
           /\ \A k \in 1..Len(t) : (s \o t)[Len(s) + k] = t[k]
<1>1. /\ s \o t \in Seq(S) /\ Len(s \o t) = Len(s) + Len(t) /\ Len(s) \in Nat /\ Len(t) \in Nat
      /\ \A k \in 1..(Len(s) + Len(t)) : (s \o t)[k] = IF k <= Len(s) THEN s[k] ELSE t[k - Len(s)]
  BY ConcatProperties, LenProperties
<1>2. ASSUME NEW k \in 1..Len(s) PROVE (s \o t)[k] = s[k]
  BY <1>1
<1>3. ASSUME NEW k \in 1..Len(t) PROVE (s \o t)[Len(s) + k] = t[k]
  <2>1. Len(s) + k \in 1..(Len(s) + Len(t)) /\ ~(Len(s) + k <= Len(s)) /\ (Len(s) + k) - Len(s) = k
    BY <1>1
  <2> QED
    BY <1>1, <2>1
<1> QED
  BY <1>1, <1>2, <1>3

\* The first n of the parts, of lengths w, are laid out in s: part i is what
\* stands behind place e[i - 1].
Laid(s, n, parts, w, e) ==
    /\ e \in [0..n -> 0..Len(s)] /\ w \in [1..n -> Nat] /\ e[0] = 0 /\ e[n] = Len(s)
    /\ \A i \in 1..n :
        /\ w[i] = Len(parts[i]) /\ e[i] = e[i - 1] + w[i]
        /\ \A k \in 1..w[i] : s[e[i - 1] + k] = parts[i][k]

LEMMA LaidStep ==
    ASSUME NEW S, NEW s \in Seq(S), NEW t \in Seq(S), NEW n \in Nat, NEW parts, parts[n + 1] = t,
           \E w, e : Laid(s, n, parts, w, e)
    PROVE  \E w, e : Laid(s \o t, n + 1, parts, w, e)
<1>1. PICK w, e : Laid(s, n, parts, w, e)
  OBVIOUS
<1> DEFINE w2 == [i \in 1..(n + 1) |-> IF i = n + 1 THEN Len(t) ELSE w[i]]
           e2 == [i \in 0..(n + 1) |-> IF i = n + 1 THEN Len(s \o t) ELSE e[i]]
           st == s \o t
<1>2. /\ Len(st) = Len(s) + Len(t) /\ Len(s) \in Nat /\ Len(t) \in Nat
      /\ \A k \in 1..Len(s) : st[k] = s[k]
      /\ \A k \in 1..Len(t) : st[Len(s) + k] = t[k]
  BY Joined
<1> HIDE DEF st
<1>3. e \in [0..n -> 0..Len(s)] /\ w \in [1..n -> Nat] /\ e[0] = 0 /\ e[n] = Len(s)
  BY <1>1 DEF Laid
<1>4. e2 \in [0..(n + 1) -> 0..Len(st)] /\ w2 \in [1..(n + 1) -> Nat] /\ e2[0] = 0 /\ e2[n + 1] = Len(st)
  BY <1>2, <1>3 DEF st
<1>5. ASSUME NEW i \in 1..(n + 1)
      PROVE  /\ w2[i] = Len(parts[i]) /\ e2[i] = e2[i - 1] + w2[i]
             /\ \A k \in 1..w2[i] : st[e2[i - 1] + k] = parts[i][k]
  <2>1. CASE i = n + 1
    <3>1. i - 1 = n /\ n \in 0..(n + 1) /\ n # n + 1
      BY <2>1
    <3>2. w2[i] = Len(t) /\ e2[i] = Len(st) /\ e2[i - 1] = Len(s)
      BY <1>3, <2>1, <3>1 DEF st
    <3> HIDE DEF e2, w2
    <3> QED
      BY <1>2, <2>1, <3>2
  <2>2. CASE i # n + 1
    <3>1. i \in 1..n /\ i - 1 \in 0..n /\ i \in 0..(n + 1) /\ i - 1 \in 0..(n + 1) /\ i - 1 # n + 1
      BY <2>2
    <3>2. w2[i] = w[i] /\ e2[i] = e[i] /\ e2[i - 1] = e[i - 1]
      BY <2>2, <3>1
    <3>3. /\ w[i] = Len(parts[i]) /\ e[i] = e[i - 1] + w[i]
          /\ \A k \in 1..w[i] : s[e[i - 1] + k] = parts[i][k]
      BY <1>1, <3>1 DEF Laid
    <3> HIDE DEF e2, w2
    <3>4. w[i] \in Nat /\ e[i - 1] \in 0..Len(s) /\ e[i] \in 0..Len(s)
      <4>1. i \in 0..n
        BY <3>1
      <4> QED
        BY <1>3, <3>1, <4>1
    <3>5. ASSUME NEW k \in 1..w[i] PROVE st[e[i - 1] + k] = parts[i][k]
      <4>1. e[i - 1] + k \in 1..Len(s)
        BY <1>2, <3>3, <3>4
      <4> QED
        BY <1>2, <3>3, <4>1
    <3> QED
      BY <3>2, <3>3, <3>5
  <2> QED
    BY <2>1, <2>2
<1>6. Laid(st, n + 1, parts, w2, e2)
  <2> HIDE DEF e2, w2
  <2> QED
    BY <1>4, <1>5 DEF Laid
<1> QED
  BY <1>6 DEF st

LEMMA FlattenLaid ==
    ASSUME NEW S, NEW parts \in Pieces(S)
    PROVE  /\ FlattenSeq(parts) \in Seq(S) /\ Len(parts) \in Nat
           /\ \E w, e : Laid(FlattenSeq(parts), Len(parts), parts, w, e)
<1> DEFINE n == Len(parts)
<1>1. PICK g \in Sums(parts, S) : FlattenSeq(parts) = g[Len(parts)]
  BY FlattenIs
<1>2. n \in Nat /\ g[0] = <<>> /\ \A i \in 1..n : parts[i] \in Seq(S)
  BY LenProperties, ElementOfSeq DEF Sums, Pieces
<1>3. (\A i \in 0..n : g[i] \in Seq(S)) /\ \A i \in 1..n : g[i] = g[i - 1] \o parts[i]
  BY DEF Sums
<1> HIDE DEF n
<1> DEFINE P == {m \in 0..n : \E w, e : Laid(g[m], m, parts, w, e)}
<1>4. 0 \in P
  <2> DEFINE w == [i \in 1..0 |-> 0]
             e == [i \in 0..0 |-> 0]
  <2>1. Len(g[0]) = 0
    BY <1>2
  <2>2. Laid(g[0], 0, parts, w, e)
    BY <2>1 DEF Laid
  <2> HIDE DEF w, e
  <2> QED
    BY <1>2, <2>2
<1>5. ASSUME NEW m \in 0..(n - 1), m \in P PROVE m + 1 \in P
  <2>1. m \in 0..n /\ m + 1 \in 0..n /\ m + 1 \in 1..n /\ (m + 1) - 1 = m /\ m \in Nat
    BY <1>2
  <2> DEFINE s == g[m]
             t == parts[m + 1]
  <2>2. s \in Seq(S) /\ t \in Seq(S) /\ g[m + 1] = s \o t
    BY <1>2, <1>3, <2>1
  <2>3. \E w, e : Laid(s, m, parts, w, e)
    BY <1>5
  <2>4. parts[m + 1] = t
    OBVIOUS
  <2> HIDE DEF s, t
  <2>5. \E w, e : Laid(s \o t, m + 1, parts, w, e)
    BY <2>1, <2>2, <2>3, <2>4, LaidStep
  <2> QED
    BY <2>1, <2>2, <2>5
<1>6. \A m \in 0..n : m \in P
  <2> HIDE DEF P
  <2> QED
    BY <1>2, <1>4, <1>5, Induction
<1>7. \E w, e : Laid(g[n], n, parts, w, e)
  BY <1>2, <1>6
<1>8. g[n] \in Seq(S)
  BY <1>2, <1>3
<1> QED
  BY <1>1, <1>2, <1>7, <1>8 DEF n

\* Every place is in one of the parts.
LEMMA LaidWhere ==
    ASSUME NEW s, NEW n \in Nat, NEW parts, NEW w, NEW e, Laid(s, n, parts, w, e),
           Len(s) \in Nat, NEW k \in 1..Len(s)
    PROVE  \E i \in 1..n : \E j \in 1..w[i] : k = e[i - 1] + j
<1> DEFINE P == {i \in 0..n : k <= e[i]}
<1>1. /\ e \in [0..n -> 0..Len(s)] /\ w \in [1..n -> Nat] /\ e[0] = 0 /\ e[n] = Len(s)
      /\ \A i \in 1..n : e[i] = e[i - 1] + w[i]
  BY DEF Laid
<1>2. P \in SUBSET Nat /\ n \in P
  BY <1>1
<1>3. PICK i \in P : \A l \in P : i <= l
  <2> HIDE DEF P
  <2> QED
    BY <1>2, NatMin
<1>4. i \in 0..n /\ k <= e[i] /\ i # 0
  BY <1>1, <1>3
<1>5. i \in 1..n /\ i - 1 \in 0..n /\ ~(i <= i - 1)
  BY <1>4
<1>6. ~(k <= e[i - 1])
  BY <1>3, <1>5
<1>7. e[i] = e[i - 1] + w[i] /\ e[i - 1] \in Nat /\ w[i] \in Nat
  BY <1>1, <1>5
<1>8. k - e[i - 1] \in 1..w[i] /\ k = e[i - 1] + (k - e[i - 1])
  BY <1>4, <1>6, <1>7
<1> QED
  BY <1>5, <1>8

\* A part begins where those before it end.
LEMMA LaidGrows ==
    ASSUME NEW s, NEW n \in Nat, NEW parts, NEW w, NEW e, Laid(s, n, parts, w, e),
           Len(s) \in Nat, NEW i \in 0..n, NEW j \in 0..n, i <= j
    PROVE  e[i] <= e[j]
<1> DEFINE P == {l \in 0..n : l >= i => e[i] <= e[l]}
<1>1. /\ e \in [0..n -> 0..Len(s)] /\ w \in [1..n -> Nat]
      /\ \A l \in 1..n : e[l] = e[l - 1] + w[l]
  BY DEF Laid
<1>2. 0 \in P
  BY <1>1
<1>3. ASSUME NEW l \in 0..(n - 1), l \in P PROVE l + 1 \in P
  <2>1. l + 1 \in 1..n /\ l + 1 \in 0..n /\ l \in 0..n /\ (l + 1) - 1 = l
    OBVIOUS
  <2>2. e[l + 1] = e[l] + w[l + 1] /\ w[l + 1] \in Nat /\ e[l] \in Nat /\ e[i] \in Nat /\ e[l + 1] \in Nat
    BY <1>1, <2>1
  <2>3. l + 1 >= i => l >= i \/ l + 1 = i
    BY <2>1
  <2> QED
    BY <1>3, <2>1, <2>2, <2>3
<1>4. \A l \in 0..n : l \in P
  <2> HIDE DEF P
  <2> QED
    BY <1>2, <1>3, Induction
<1> QED
  BY <1>4

-----------------------------------------------------------------------------
(* Bytes in the middle of others *)

Byte  == 0..255
Bytes == Seq(Byte)

\* What stands behind place a, when it is known byte by byte.
LEMMA Sliced ==
    ASSUME NEW S, NEW s \in Seq(S), NEW t \in Seq(S), NEW a \in Nat, a + Len(t) <= Len(s),
           \A k \in 1..Len(t) : s[a + k] = t[k]
    PROVE  SubSeq(s, a + 1, a + Len(t)) = t
<1> DEFINE r == SubSeq(s, a + 1, a + Len(t))
<1>1. Len(s) \in Nat /\ Len(t) \in Nat /\ \A i \in 1..Len(s) : s[i] \in S
  BY LenProperties, ElementOfSeq
<1>2. \A i \in (a + 1)..(a + Len(t)) : s[i] \in S
  BY <1>1
<1>3. /\ r \in Seq(S) /\ Len(r) = IF a + 1 <= a + Len(t) THEN (a + Len(t)) - (a + 1) + 1 ELSE 0
      /\ \A i \in 1..((a + Len(t)) - (a + 1) + 1) : r[i] = s[(a + 1) + i - 1]
  BY <1>1, <1>2, SubSeqProperties
<1>4. Len(r) = Len(t)
  BY <1>1, <1>3
<1>5. ASSUME NEW i \in 1..Len(r) PROVE r[i] = t[i]
  <2>1. i \in 1..Len(t) /\ i \in 1..((a + Len(t)) - (a + 1) + 1) /\ (a + 1) + i - 1 = a + i
    BY <1>1, <1>4
  <2> QED
    BY <1>3, <2>1
<1> HIDE DEF r
<1>6. r = t
  BY <1>3, <1>4, <1>5, SeqEqual
<1> QED
  BY <1>6 DEF r

\* Bytes, and bytes behind bytes.
LEMMA BytesAre ==
    /\ \A s \in Bytes : /\ Len(s) \in Nat /\ DOMAIN s = 1..Len(s) /\ (Len(s) = 0 <=> s = <<>>)
                        /\ \A i \in 1..Len(s) : s[i] \in Byte
    /\ <<>> \in Bytes /\ Len(<<>>) = 0
<1>1. ASSUME NEW s \in Seq(Byte)
      PROVE  Len(s) \in Nat /\ DOMAIN s = 1..Len(s) /\ \A i \in 1..Len(s) : s[i] \in Byte
  BY LenProperties, ElementOfSeq
<1>2. ASSUME NEW s \in Seq(Byte) PROVE Len(s) = 0 <=> s = <<>>
  BY EmptySeq
<1>3. <<>> \in Seq(Byte) /\ Len(<<>>) = 0
  BY EmptySeq
<1> QED
  BY <1>1, <1>2, <1>3 DEF Bytes

LEMMA BytesJoined ==
    \A s, t \in Bytes :
        /\ s \o t \in Bytes /\ Len(s \o t) = Len(s) + Len(t)
        /\ \A k \in 1..Len(s) : (s \o t)[k] = s[k]
        /\ \A k \in 1..Len(t) : (s \o t)[Len(s) + k] = t[k]
        /\ s \o <<>> = s /\ <<>> \o s = s
BY Joined, ConcatEmptySeq DEF Bytes

LEMMA BytesSliced ==
    ASSUME NEW s \in Bytes, NEW t \in Bytes, NEW a \in Nat, a + Len(t) <= Len(s),
           \A k \in 1..Len(t) : s[a + k] = t[k]
    PROVE  SubSeq(s, a + 1, a + Len(t)) = t
BY Sliced DEF Bytes

\* The parts of three sequences put together.
LEMMA Between ==
    \A s, t, u \in Bytes :
        /\ s \o t \o u \in Bytes /\ Len(s \o t \o u) = Len(s) + Len(t) + Len(u)
        /\ \A k \in 1..Len(s) : (s \o t \o u)[k] = s[k]
        /\ \A k \in 1..Len(t) : (s \o t \o u)[Len(s) + k] = t[k]
        /\ \A k \in 1..Len(u) : (s \o t \o u)[Len(s) + Len(t) + k] = u[k]
        /\ SubSeq(s \o t \o u, Len(s) + 1, Len(s \o t \o u)) = t \o u
        /\ SubSeq(s \o t \o u, Len(s) + 1, Len(s) + Len(t)) = t
        /\ s \o t \o u = s \o (t \o u)
<1> TAKE s, t, u \in Bytes
<1> DEFINE st == s \o t
           tu == t \o u
           x  == st \o u
<1>0. Len(s) \in Nat /\ Len(t) \in Nat /\ Len(u) \in Nat
  BY BytesAre
<1>1. /\ st \in Bytes /\ Len(st) = Len(s) + Len(t)
      /\ \A k \in 1..Len(s) : st[k] = s[k]
      /\ \A k \in 1..Len(t) : st[Len(s) + k] = t[k]
  BY BytesJoined
<1>2. tu \in Bytes /\ x = s \o tu /\ Len(tu) = Len(t) + Len(u)
  <2>1. \A a, b, c \in Seq(Byte) : (a \o b) \o c = a \o (b \o c)
    BY ConcatAssociative
  <2> QED
    BY <2>1, BytesJoined DEF Bytes
<1> HIDE DEF st, tu
<1>3. /\ x \in Bytes /\ Len(x) = Len(st) + Len(u)
      /\ \A k \in 1..Len(st) : x[k] = st[k]
      /\ \A k \in 1..Len(u) : x[Len(st) + k] = u[k]
  BY <1>1, BytesJoined
<1>4. Len(x) = Len(s) + Len(tu) /\ \A k \in 1..Len(tu) : x[Len(s) + k] = tu[k]
  <2>1. /\ Len(s \o tu) = Len(s) + Len(tu)
        /\ \A k \in 1..Len(tu) : (s \o tu)[Len(s) + k] = tu[k]
    BY <1>2, BytesJoined
  <2> HIDE DEF x
  <2> QED
    BY <1>2, <2>1, Zenon
<1> HIDE DEF x
<1>5. Len(x) = Len(s) + Len(t) + Len(u)
  BY <1>1, <1>3
<1>6. \A k \in 1..Len(s) : x[k] = s[k]
  BY <1>0, <1>1, <1>3
<1>7. ASSUME NEW k \in 1..Len(t) PROVE x[Len(s) + k] = t[k]
  <2>1. Len(s) + k \in 1..Len(st)
    BY <1>0, <1>1
  <2> QED
    BY <1>1, <1>3, <2>1
<1>8. \A k \in 1..Len(u) : x[Len(s) + Len(t) + k] = u[k]
  BY <1>1, <1>3
<1>9. SubSeq(x, Len(s) + 1, Len(s) + Len(tu)) = tu
  <2>1. Len(tu) \in Nat /\ Len(s) + Len(tu) <= Len(x)
    BY <1>0, <1>2, <1>4
  <2> QED
    BY <1>0, <1>2, <1>3, <1>4, <2>1, BytesSliced
<1>10. SubSeq(x, Len(s) + 1, Len(s) + Len(t)) = t
  <2>1. Len(s) + Len(t) <= Len(x)
    BY <1>0, <1>5
  <2> QED
    BY <1>0, <1>3, <1>7, <2>1, BytesSliced
<1> QED
  BY <1>1, <1>2, <1>3, <1>4, <1>5, <1>6, <1>7, <1>8, <1>9, <1>10 DEF st, tu, x

\* A slice of a sequence.
IsSlice(x, s, a, b) ==
    x = SubSeq(s, a + 1, b) /\ Len(x) = b - a /\ \A k \in 1..(b - a) : x[k] = s[a + k]

LEMMA SliceIs ==
    ASSUME NEW S, NEW s \in Seq(S)
    PROVE  \A a, b \in Nat : a <= b /\ b <= Len(s) => \E x \in Seq(S) : IsSlice(x, s, a, b)
<1> SUFFICES ASSUME NEW a \in Nat, NEW b \in Nat, a <= b, b <= Len(s)
             PROVE  \E x \in Seq(S) : IsSlice(x, s, a, b)
  OBVIOUS
<1> DEFINE r == SubSeq(s, a + 1, b)
<1>1. Len(s) \in Nat /\ \A i \in 1..Len(s) : s[i] \in S
  BY LenProperties, ElementOfSeq
<1>2. \A i \in (a + 1)..b : s[i] \in S
  BY <1>1
<1>3. /\ r \in Seq(S) /\ Len(r) = IF a + 1 <= b THEN b - (a + 1) + 1 ELSE 0
      /\ \A i \in 1..(b - (a + 1) + 1) : r[i] = s[(a + 1) + i - 1]
  BY <1>2, SubSeqProperties
<1> HIDE DEF r
<1>4. Len(r) = b - a
  BY <1>3
<1>5. ASSUME NEW k \in 1..(b - a) PROVE r[k] = s[a + k]
  <2>1. k \in 1..(b - (a + 1) + 1) /\ (a + 1) + k - 1 = a + k
    OBVIOUS
  <2> QED
    BY <1>3, <2>1
<1>6. r = SubSeq(s, a + 1, b)
  BY DEF r
<1> QED
  BY <1>3, <1>4, <1>5, <1>6, Zenon DEF IsSlice

-----------------------------------------------------------------------------
(* Demux: RTP packets *)

\* A number of two bytes.
LEMMA WordIs ==
    ASSUME NEW n \in Uint16
    PROVE  \E h, l \in Byte : h = n \div 256 /\ l = n % 256 /\ 256 * h + l = n
<1>1. /\ n \div 256 \in Byte /\ n % 256 \in Byte
      /\ 256 * (n \div 256) + (n % 256) = n
  BY SMT DEF Byte, Uint16
<1> QED
  BY <1>1

\* A byte that is repeated.
LEMMA Filling ==
    ASSUME NEW n \in Nat, NEW b \in Byte
    PROVE  \E f \in Bytes : f = [i \in 1..n |-> b] /\ Len(f) = n /\ \A i \in 1..n : f[i] = b
<1>1. [i \in 1..n |-> b] \in Bytes /\ Len([i \in 1..n |-> b]) = n
  BY SMT DEF Bytes
<1> QED
  BY <1>1

\* The header extension, with its length.
LEMMA ExtensionIs ==
    ASSUME NEW ext \in Uint16
    PROVE  \E X \in Bytes :
              /\ X = <<7, 7, ext \div 256, ext % 256>> \o [i \in 1..(4 * ext) |-> 7]
              /\ Len(X) = 4 + 4 * ext /\ 256 * X[3] + X[4] = ext
<1>1. PICK h, l \in Byte : h = ext \div 256 /\ l = ext % 256 /\ 256 * h + l = ext
  BY WordIs
<1>2. ext \in Nat /\ 4 * ext \in Nat /\ 7 \in Byte
  BY SMT DEF Uint16, Byte
<1>3. PICK C \in Bytes : C = [i \in 1..(4 * ext) |-> 7] /\ Len(C) = 4 * ext
  BY <1>2, Filling
<1>4. PICK B \in Bytes : B = <<7, 7, h, l>> /\ Len(B) = 4 /\ B[3] = h /\ B[4] = l
  <2>1. <<7, 7, h, l>> \in Bytes
    BY <1>2, SMT DEF Bytes
  <2> QED
    BY <2>1
<1>5. B \o C \in Bytes /\ Len(B \o C) = Len(B) + Len(C) /\ \A k \in 1..Len(B) : (B \o C)[k] = B[k]
  BY BytesJoined
<1>6. 3 \in 1..Len(B) /\ 4 \in 1..Len(B)
  BY <1>4
<1>7. (B \o C)[3] = h /\ (B \o C)[4] = l
  BY <1>4, <1>5, <1>6
<1>8. Len(B \o C) = 4 + 4 * ext
  BY <1>3, <1>4, <1>5
<1>9. B \o C = <<7, 7, ext \div 256, ext % 256>> \o [i \in 1..(4 * ext) |-> 7]
  BY <1>1, <1>3, <1>4, Zenon
<1>10. 256 * (B \o C)[3] + (B \o C)[4] = ext
  BY <1>1, <1>7
<1> QED
  BY <1>5, <1>8, <1>9, <1>10, Zenon

PacketOf(packet, bytes, c, p, e, H, P) ==
    /\ packet.version = 2 /\ packet.padding = (p > 0) /\ packet.extension = (e > 0)
    /\ 4 * packet.cc = c /\ packet.data = H \o bytes \o P
    /\ Len(H) = c + IF e > 0 THEN 4 + 4 * e ELSE 0
    /\ e > 0 => Word(H, c + 3) = e
    /\ Len(P) = p /\ \A i \in 1..p : P[i] = p

\* A packet is a header whose length parseRTP computes, the bytes, and padding.
LEMMA PacketSplits ==
    ASSUME NEW bytes \in Bytes, NEW form \in Forms
    PROVE  \E c, p \in Nat, e \in Uint16, H, P \in Bytes :
              PacketOf(Packet(bytes, form), bytes, c, p, e, H, P)
<1>1. PICK c \in Nat, p \in Byte, e \in Uint16 : c = 4 * form.csrc /\ p = form.pad /\ e = form.ext
  <2>1. form.csrc \in 0..15 /\ form.ext \in Uint16 /\ form.pad \in Byte
    BY DevicesSendPS DEF Byte
  <2> QED
    BY <2>1
<1>2. p \in Nat /\ e \in Nat /\ 7 \in Byte
  BY SMT DEF Byte, Uint16
<1>3. PICK A \in Bytes : A = [i \in 1..c |-> 7] /\ Len(A) = c
  BY <1>2, Filling
<1>4. PICK P \in Bytes : P = [i \in 1..p |-> p] /\ Len(P) = p /\ \A i \in 1..p : P[i] = p
  BY <1>2, Filling
<1>5. PICK X \in Bytes :
        /\ X = IF e > 0 THEN <<7, 7, e \div 256, e % 256>> \o [i \in 1..(4 * e) |-> 7] ELSE <<>>
        /\ Len(X) = IF e > 0 THEN 4 + 4 * e ELSE 0
        /\ e > 0 => 256 * X[3] + X[4] = e
  <2>1. CASE e > 0
    BY <2>1, ExtensionIs, Zenon
  <2>2. CASE ~(e > 0)
    <3> DEFINE Y == IF e > 0 THEN <<7, 7, e \div 256, e % 256>> \o [i \in 1..(4 * e) |-> 7] ELSE <<>>
    <3>1. Y = <<>>
      BY <2>2, Zenon
    <3> HIDE DEF Y
    <3>2. Y \in Bytes /\ Len(Y) = 0
      BY <3>1, BytesAre, Zenon
    <3> QED
      BY <2>2, <3>2, Zenon DEF Y
  <2> QED
    BY <2>1, <2>2, Zenon
<1>6. Packet(bytes, form).data = A \o X \o bytes \o P
  BY <1>1, <1>3, <1>4, <1>5, Zenon DEF Packet
<1>7. /\ A \o X \in Bytes /\ Len(A \o X) = Len(A) + Len(X)
      /\ \A k \in 1..Len(X) : (A \o X)[Len(A) + k] = X[k]
  BY BytesJoined
<1> DEFINE H == A \o X
<1> HIDE DEF H
<1>8. H \in Bytes /\ Len(H) = c + IF e > 0 THEN 4 + 4 * e ELSE 0
  <2>1. H \in Bytes /\ Len(H) = c + Len(X)
    BY <1>3, <1>7, Zenon DEF H
  <2> QED
    BY <1>5, <2>1, Zenon
<1>9. ASSUME e > 0 PROVE Word(H, c + 3) = e
  <2>1. 3 \in 1..Len(X) /\ 4 \in 1..Len(X) /\ (c + 3) + 1 = c + 4
    BY <1>2, <1>5, <1>9
  <2>2. H[c + 3] = X[3] /\ H[(c + 3) + 1] = X[4]
    BY <1>3, <1>7, <2>1 DEF H
  <2> QED
    BY <1>5, <1>9, <2>2, Zenon DEF Word
<1>10. /\ Packet(bytes, form).version = 2 /\ Packet(bytes, form).padding = (p > 0)
       /\ Packet(bytes, form).extension = (e > 0) /\ 4 * Packet(bytes, form).cc = c
       /\ Packet(bytes, form).data = H \o bytes \o P
  BY <1>1, <1>6, Zenon DEF Packet, H
<1>11. PacketOf(Packet(bytes, form), bytes, c, p, e, H, P)
  BY <1>4, <1>8, <1>9, <1>10, Zenon DEF PacketOf
<1> QED
  BY <1>2, <1>8, <1>11, Zenon

\* parseRTP takes the payload out of a packet, whatever stands around it.
LEMMA ParseRTPIs ==
    ASSUME NEW bytes \in Bytes, bytes # <<>>, NEW form \in Forms
    PROVE  ParseRTP(Packet(bytes, form)) = bytes
<1> DEFINE packet == Packet(bytes, form)
<1>1. PICK c, p \in Nat, e \in Uint16, H, P \in Bytes : PacketOf(packet, bytes, c, p, e, H, P)
  BY PacketSplits
<1> HIDE DEF packet
<1> DEFINE data == H \o bytes \o P
           rest == bytes \o P
<1>2. /\ packet.version = 2 /\ packet.padding = (p > 0) /\ packet.extension = (e > 0)
      /\ 4 * packet.cc = c /\ packet.data = data
  BY <1>1, Zenon DEF PacketOf
<1>11. /\ Len(H) = c + IF e > 0 THEN 4 + 4 * e ELSE 0
       /\ e > 0 => Word(H, c + 3) = e
       /\ Len(P) = p /\ \A i \in 1..p : P[i] = p
  BY <1>1, Zenon DEF PacketOf
<1>3. /\ data \in Bytes /\ Len(data) = Len(H) + Len(bytes) + Len(P)
      /\ \A k \in 1..Len(H) : data[k] = H[k]
      /\ SubSeq(data, Len(H) + 1, Len(data)) = rest
  BY Between, Zenon
<1> HIDE DEF data
<1>4. Len(H) \in Nat /\ Len(bytes) \in Nat /\ Len(bytes) # 0 /\ e \in Nat
  BY BytesAre, SMT DEF Uint16
<1>5. ASSUME e > 0 PROVE Word(data, c + 3) = e /\ Len(data) >= c + 4
  <2>1. c + 3 \in 1..Len(H) /\ (c + 3) + 1 \in 1..Len(H) /\ Len(data) >= c + 4
    BY <1>11, <1>3, <1>4, <1>5
  <2>2. data[c + 3] = H[c + 3] /\ data[(c + 3) + 1] = H[(c + 3) + 1]
    BY <1>3, <2>1
  <2> QED
    BY <1>11, <1>5, <2>1, <2>2, Zenon DEF Word
<1>6. ~(Len(H) >= Len(data))
  BY <1>11, <1>3, <1>4
<1>7. Len(H) = c + IF e > 0 THEN 4 + 4 * Word(data, c + 3) ELSE 0
  BY <1>11, <1>5, Zenon
<1>8. ParseRTP(packet) = IF p > 0 THEN Unpadded(rest) ELSE rest
  <2>1. (~(e > 0) \/ Len(data) >= c + 4) /\ packet.version = 2
    BY <1>2, <1>5
  <2> QED
    BY <1>2, <1>3, <1>6, <1>7, <2>1, Zenon DEF ParseRTP, Drop
<1>9. CASE p = 0
  <2>1. P = <<>>
    BY <1>11, <1>9, BytesAre, Zenon
  <2>2. rest = bytes
    BY <2>1, BytesJoined, Zenon
  <2>3. ~(p > 0)
    BY <1>9
  <2> QED
    BY <1>8, <2>2, <2>3, Zenon DEF packet
<1>10. CASE p > 0
  <2>1. /\ rest \in Bytes /\ Len(rest) = Len(bytes) + Len(P)
        /\ rest[Len(bytes) + p] = P[p]
        /\ \A k \in 1..Len(bytes) : rest[k] = bytes[k]
    <3>1. p \in 1..Len(P)
      BY <1>11, <1>10
    <3> QED
      BY <3>1, BytesJoined, Zenon
  <2> HIDE DEF rest
  <2>2. p \in 1..p /\ P[p] = p /\ Len(rest) = Len(bytes) + p
    BY <1>11, <1>10, <2>1
  <2>3. Len(rest) - p = Len(bytes) /\ p < Len(rest) /\ 0 + Len(bytes) <= Len(rest)
    BY <1>4, <2>2
  <2>4. SubSeq(rest, 1, Len(bytes)) = bytes
    <3>1. \A k \in 1..Len(bytes) : rest[0 + k] = bytes[k]
      BY <2>1, <1>4
    <3>2. SubSeq(rest, 0 + 1, 0 + Len(bytes)) = bytes
      BY <2>1, <2>3, <3>1, BytesSliced
    <3> QED
      BY <1>4, <3>2
  <2>5. Unpadded(rest) = bytes
    BY <2>1, <2>2, <2>3, <2>4, Zenon DEF Unpadded
  <2> QED
    BY <1>8, <1>10, <2>5, Zenon DEF packet
<1> QED
  BY <1>9, <1>10

-----------------------------------------------------------------------------
(* Demux: NAL units between start codes *)

\* The equation of ExtractNALUs has a solution, of which it is the last value.
LEMMA ExtractIs ==
    ASSUME NEW s \in Bytes
    PROVE  \E f : /\ f[0] = <<>> /\ \A i \in 1..Len(s) : f[i] = WithNALUAt(f[i - 1], s, i)
                  /\ ExtractNALUs(s) = f[Len(s)]
<1> DEFINE n == Len(s)
           U == {NALUAt(s, i) : i \in 1..n}
           Solves(f) == f = [i \in 0..n |-> IF i = 0 THEN <<>> ELSE WithNALUAt(f[i - 1], s, i)]
           step == [i \in 1..n |-> [ns \in Seq(U) |-> WithNALUAt(ns, s, i)]]
<1>1. n \in Nat
  BY BytesAre
<1>2. <<>> \in Seq(U)
  BY EmptySeq
<1>3. step \in [1..n -> [Seq(U) -> Seq(U)]]
  <2> SUFFICES ASSUME NEW i \in 1..n, NEW ns \in Seq(U) PROVE WithNALUAt(ns, s, i) \in Seq(U)
    OBVIOUS
  <2>1. NALUAt(s, i) \in U
    OBVIOUS
  <2> HIDE DEF U
  <2> QED
    BY <2>1, AppendProperties DEF WithNALUAt
<1>4. PICK g \in [0..n -> Seq(U)] : g[0] = <<>> /\ \A i \in 1..n : g[i] = step[i][g[i - 1]]
  <2> HIDE DEF step, n, U
  <2>1. Runs(n, Seq(U), <<>>, step) # {}
    BY <1>1, <1>2, <1>3, Recursion
  <2> QED
    BY <2>1 DEF Runs
<1> HIDE DEF U
<1>5. \A i \in 1..n : g[i] = WithNALUAt(g[i - 1], s, i)
  <2> SUFFICES ASSUME NEW i \in 1..n PROVE g[i] = WithNALUAt(g[i - 1], s, i)
    OBVIOUS
  <2>1. i - 1 \in 0..n
    BY <1>1
  <2> QED
    BY <2>1, <1>4
<1>6. Solves(g)
  <2>1. g = [i \in 0..n |-> g[i]]
    OBVIOUS
  <2>2. \A i \in 0..n : g[i] = IF i = 0 THEN <<>> ELSE WithNALUAt(g[i - 1], s, i)
    BY <1>1, <1>4, <1>5
  <2> QED
    BY <2>1, <2>2
<1> DEFINE h == CHOOSE f : Solves(f)
<1>7. Solves(h)
  <2> HIDE DEF Solves
  <2> QED
    BY <1>6
<1>8. ExtractNALUs(s) = h[n]
  BY DEF ExtractNALUs
<1> HIDE DEF h
<1>9. h[0] = <<>> /\ \A i \in 1..n : h[i] = WithNALUAt(h[i - 1], s, i)
  BY <1>1, <1>7
<1> QED
  BY <1>8, <1>9

\* Followed a NAL unit there may only be zeros.
LEMMA TrimmedIs ==
    ASSUME NEW t \in Bytes, NEW x \in Bytes, x # <<>>, x[Len(x)] # 0, Len(x) <= Len(t),
           \A k \in 1..Len(x) : t[k] = x[k],
           \A k \in (Len(x) + 1)..Len(t) : t[k] = 0
    PROVE  Trimmed(t) = x
<1> DEFINE kept == {0} \cup {i \in DOMAIN t : t[i] # 0}
<1>1. Len(t) \in Nat /\ DOMAIN t = 1..Len(t) /\ Len(x) \in Nat \ {0}
  BY BytesAre
<1>2. Len(x) \in kept /\ \A i \in kept : i \in Nat /\ i <= Len(x)
  BY <1>1
<1>3. Max(kept) = Len(x)
  <2>1. \E y \in kept : \A i \in kept : y >= i
    BY <1>1, <1>2
  <2> HIDE DEF kept
  <2>2. Max(kept) \in kept /\ \A i \in kept : Max(kept) >= i
    BY <2>1 DEF Max
  <2> QED
    BY <1>1, <1>2, <2>2
<1>4. SubSeq(t, 0 + 1, 0 + Len(x)) = x
  <2>1. \A k \in 1..Len(x) : t[0 + k] = x[k]
    BY <1>1
  <2> QED
    BY <1>1, <2>1, BytesSliced
<1>5. SubSeq(t, 1, Len(x)) = x
  BY <1>1, <1>4
<1> HIDE DEF kept
<1> QED
  BY <1>3, <1>5 DEF Trimmed, kept

\* Only zeros are left out, at the end.
LEMMA TrimmedFits ==
    ASSUME NEW t \in Bytes, NEW lt \in Nat, lt = Len(t)
    PROVE  \E m \in 0..lt : /\ Trimmed(t) = SubSeq(t, 1, m) /\ Trimmed(t) \in Bytes /\ Len(Trimmed(t)) = m
                            /\ \A k \in 1..m : Trimmed(t)[k] = t[k]
                            /\ m = 0 \/ t[m] # 0
<1> DEFINE kept == {0} \cup {i \in DOMAIN t : t[i] # 0}
<1>1. DOMAIN t = 1..lt
  BY BytesAre
<1>2. \A i \in kept : i \in Nat /\ i <= lt
  BY <1>1
<1>3. 0 \in kept /\ \A i \in kept : i = 0 \/ t[i] # 0
  OBVIOUS
<1> HIDE DEF kept
<1> DEFINE S == {m \in 0..lt : \A i \in kept : i <= m}
<1>4. PICK m \in S : \A j \in S : m <= j
  <2>1. S \in SUBSET Nat /\ lt \in S
    BY <1>2
  <2> HIDE DEF S
  <2> QED
    BY <2>1, NatMin
<1>5. m \in 0..lt /\ \A i \in kept : i <= m
  OBVIOUS
<1>6. m \in kept
  <2>1. CASE m = 0
    BY <1>3, <2>1
  <2>2. ASSUME m # 0, m \notin kept PROVE FALSE
    <3>1. m - 1 \in 0..lt /\ ~(m <= m - 1)
      BY <1>5, <2>2
    <3>2. ASSUME NEW i \in kept PROVE i <= m - 1
      <4>1. i # m /\ i <= m /\ i \in Nat
        BY <1>2, <1>5, <2>2
      <4> QED
        BY <1>5, <4>1
    <3>3. m - 1 \in S
      BY <3>1, <3>2
    <3> HIDE DEF S
    <3> QED
      BY <1>4, <3>1, <3>3
  <2> QED
    BY <2>1, <2>2
<1> HIDE DEF S
<1>7. Max(kept) = m
  <2>1. \E y \in kept : \A i \in kept : y >= i
    <3>1. \A i \in kept : m >= i
      BY <1>2, <1>5
    <3> QED
      BY <1>6, <3>1
  <2>2. Max(kept) \in kept /\ \A i \in kept : Max(kept) >= i
    BY <2>1 DEF Max
  <2>3. Max(kept) >= m /\ Max(kept) <= m /\ Max(kept) \in Nat
    BY <1>2, <1>5, <1>6, <2>2
  <2> QED
    BY <1>5, <2>3
<1>8. m \in Nat /\ 0 <= m /\ m <= lt
  BY <1>2, <1>6
<1>9. PICK y \in Seq(Byte) : IsSlice(y, t, 0, m)
  <2>1. 0 <= m /\ m <= Len(t) /\ 0 \in Nat
    BY <1>8
  <2> QED
    BY <1>8, <2>1, SliceIs DEF Bytes
<1>10. y = SubSeq(t, 1, m) /\ Len(y) = m /\ \A k \in 1..m : y[k] = t[k]
  <2>1. y = SubSeq(t, 0 + 1, m) /\ Len(y) = m - 0 /\ \A k \in 1..(m - 0) : y[k] = t[0 + k]
    BY <1>9, Zenon DEF IsSlice
  <2>2. 0 + 1 = 1 /\ m - 0 = m /\ \A k \in 1..m : 0 + k = k
    BY <1>8
  <2> QED
    BY <2>1, <2>2
<1>11. Trimmed(t) = y
  BY <1>7, <1>10, Zenon DEF Trimmed, kept
<1>12. m = 0 \/ t[m] # 0
  BY <1>3, <1>6
<1>13. y \in Bytes
  BY DEF Bytes
<1> QED
  BY <1>5, <1>10, <1>11, <1>12, <1>13, Zenon

LEMMA HeadsAre ==
    ASSUME NEW nalus \in Pieces(Byte)
    PROVE  Heads(nalus) \in Pieces(Byte)
<1>1. nalus \in Seq(Bytes)
  BY DEF Pieces, Bytes
<1>2. PICK n \in Nat : n = Len(nalus)
  BY <1>1, LenProperties
<1>3. CASE nalus = <<>>
  BY <1>3, EmptySeq DEF Heads, Pieces
<1>4. CASE nalus # <<>>
  <2>1. n # 0
    BY <1>1, <1>2, <1>4, EmptySeq
  <2>2. n \in 1..n /\ n - 1 \in Nat /\ n - 1 <= n
    BY <2>1
  <2>3. Last(nalus) \in Bytes
    <3>1. nalus[n] \in Bytes
      BY <1>1, <1>2, <2>2, ElementOfSeq
    <3> QED
      BY <1>2, <3>1, Zenon DEF Last
  <2>4. PICK head \in Bytes : head = Trimmed(Last(nalus))
    <3>1. PICK lt \in Nat : lt = Len(Last(nalus))
      BY <2>3, BytesAre
    <3> QED
      BY <2>3, <3>1, TrimmedFits
  <2>5. PICK front \in Seq(Bytes) : front = Front(nalus)
    <3>1. PICK x \in Seq(Bytes) : IsSlice(x, nalus, 0, n - 1)
      <4>1. 0 \in Nat /\ 0 <= n - 1 /\ n - 1 <= Len(nalus)
        BY <1>2, <2>2
      <4> QED
        BY <1>1, <2>2, <4>1, SliceIs
    <3>2. 0 + 1 = 1
      OBVIOUS
    <3> QED
      BY <1>2, <3>1, <3>2, Zenon DEF IsSlice, Front
  <2>6. Heads(nalus) = IF head = <<>> THEN front ELSE Append(front, head)
    BY <1>4, <2>4, <2>5, Zenon DEF Heads
  <2>7. Append(front, head) \in Seq(Bytes)
    BY AppendProperties
  <2> QED
    BY <2>6, <2>7 DEF Pieces, Bytes
<1> QED
  BY <1>3, <1>4

\* NAL units; the last of them may be cut.
Plains  == {nalus \in Pieces(Byte) : \A i \in 1..Len(nalus) : Plain(nalus[i])}
LastCut == {nalus \in Pieces(Byte) :
                \A i \in 1..Len(nalus) : Free(nalus[i]) /\ (i = Len(nalus) \/ Plain(nalus[i]))}

\* Units of lengths w, each behind a start code of four bytes, stand in s from
\* place c on, and no start code before: e[i] is where unit i ends.
CutOf(s, len, c, nalus, n, w, e) ==
    /\ len = Len(s) /\ n = Len(nalus) /\ e[0] = c /\ e[n] = len
    /\ \A i \in 1..n :
        /\ nalus[i] \in Bytes /\ Len(nalus[i]) = w[i]
        /\ i = n \/ (w[i] > 0 /\ nalus[i][w[i]] # 0)
        /\ \A k \in 1..(w[i] - 2) : ~CodeAt(nalus[i], k)
        /\ e[i] = e[i - 1] + 4 + w[i]
        /\ s[e[i - 1] + 1] = 0 /\ s[e[i - 1] + 2] = 0 /\ s[e[i - 1] + 3] = 0 /\ s[e[i - 1] + 4] = 1
        /\ \A k \in 1..w[i] : s[e[i - 1] + 4 + k] = nalus[i][k]
    /\ \A i, j \in 0..n : i <= j => e[i] <= e[j]
    /\ \A k \in 1..len : (k <= c /\ ~CodeAt(s, k)) \/ \E i \in 1..n : k > e[i - 1] /\ k <= e[i]

LEMMA LoadIs ==
    ASSUME NEW nalus \in LastCut
    PROVE  /\ Payload(nalus) \in Bytes
           /\ \E len, n \in Nat : \E w \in [1..n -> Nat], e \in [0..n -> Nat] :
                 CutOf(Payload(nalus), len, 0, nalus, n, w, e)
<1> DEFINE n == Len(nalus)
           parts == [i \in DOMAIN nalus |-> <<0>> \o StartCode \o nalus[i]]
           s == Payload(nalus)
<1>1. n \in Nat /\ DOMAIN nalus = 1..n /\ \A i \in 1..n : nalus[i] \in Bytes /\ Free(nalus[i]) /\ (i = n \/ Plain(nalus[i]))
  <2>1. nalus \in Seq(Bytes) /\ \A i \in 1..n : Free(nalus[i]) /\ (i = n \/ Plain(nalus[i]))
    BY DEF LastCut, Pieces, Bytes
  <2> QED
    BY <2>1, LenProperties, ElementOfSeq
<1>2. ASSUME NEW i \in 1..n
      PROVE  /\ parts[i] \in Bytes /\ Len(parts[i]) = 4 + Len(nalus[i])
             /\ parts[i][1] = 0 /\ parts[i][2] = 0 /\ parts[i][3] = 0 /\ parts[i][4] = 1
             /\ \A k \in 1..Len(nalus[i]) : parts[i][4 + k] = nalus[i][k]
  <2> DEFINE c == <<0>> \o StartCode
  <2>1. PICK z \in Bytes : z = <<0>> /\ Len(z) = 1 /\ z[1] = 0
    <3>1. <<0>> \in Bytes
      BY SMT DEF Bytes, Byte
    <3> QED
      BY <3>1
  <2>2. StartCode \in Bytes /\ Len(StartCode) = 3
        /\ StartCode[1] = 0 /\ StartCode[2] = 0 /\ StartCode[3] = 1
    <3>1. <<0, 0, 1>> \in Bytes
      BY SMT DEF Bytes, Byte
    <3> QED
      BY <3>1 DEF StartCode
  <2>6. c \in Bytes /\ Len(c) = 4 /\ c[1] = 0 /\ c[2] = 0 /\ c[3] = 0 /\ c[4] = 1
    <3>1. /\ z \o StartCode \in Bytes /\ Len(z \o StartCode) = Len(z) + Len(StartCode)
          /\ \A k \in 1..Len(z) : (z \o StartCode)[k] = z[k]
          /\ \A k \in 1..Len(StartCode) : (z \o StartCode)[Len(z) + k] = StartCode[k]
      BY <2>2, BytesJoined
    <3>2. c = z \o StartCode
      BY <2>1
    <3> HIDE DEF c
    <3>3. 1 \in 1..Len(z) /\ 1 \in 1..Len(StartCode) /\ 2 \in 1..Len(StartCode) /\ 3 \in 1..Len(StartCode)
      BY <2>1, <2>2
    <3>4. c[1] = z[1] /\ c[1 + 1] = 0 /\ c[1 + 2] = 0 /\ c[1 + 3] = 1
      BY <2>1, <2>2, <3>1, <3>2, <3>3
    <3> QED
      BY <2>1, <2>2, <3>1, <3>2, <3>4
  <2> HIDE DEF c
  <2>3. parts[i] = c \o nalus[i] /\ nalus[i] \in Bytes
    BY <1>1 DEF c
  <2> HIDE DEF parts
  <2>4. /\ c \o nalus[i] \in Bytes /\ Len(c \o nalus[i]) = Len(c) + Len(nalus[i])
        /\ \A k \in 1..Len(c) : (c \o nalus[i])[k] = c[k]
        /\ \A k \in 1..Len(nalus[i]) : (c \o nalus[i])[Len(c) + k] = nalus[i][k]
    BY <2>6, <2>3, BytesJoined
  <2>5. 1 \in 1..Len(c) /\ 2 \in 1..Len(c) /\ 3 \in 1..Len(c) /\ 4 \in 1..Len(c)
    BY <2>6
  <2> QED
    BY <2>6, <2>3, <2>4, <2>5
<1>3. parts \in Pieces(Byte) /\ Len(parts) = n
  <2>1. \A i \in 1..n : parts[i] \in Bytes
    BY <1>2
  <2>2. DOMAIN parts = 1..n /\ parts = [i \in 1..n |-> parts[i]]
    BY <1>1
  <2> HIDE DEF parts, n
  <2>3. parts \in [1..n -> Bytes]
    BY <2>1, <2>2
  <2>4. parts \in Seq(Bytes) /\ Len(parts) = n
    BY <1>1, <2>3
  <2> QED
    BY <2>4 DEF Pieces, Bytes
<1>4. s = FlattenSeq(parts)
  BY DEF Payload
<1> HIDE DEF parts, s, n
<1>5. PICK w, e : Laid(s, n, parts, w, e)
  BY <1>3, <1>4, FlattenLaid
<1>6. s \in Bytes /\ Len(s) \in Nat
  <2>1. s \in Seq(Byte)
    BY <1>3, <1>4, FlattenLaid
  <2> QED
    BY <2>1, BytesAre DEF Bytes
<1>7. /\ e \in [0..n -> 0..Len(s)] /\ w \in [1..n -> Nat] /\ e[0] = 0 /\ e[n] = Len(s)
      /\ \A i \in 1..n :
          /\ w[i] = Len(parts[i]) /\ e[i] = e[i - 1] + w[i]
          /\ \A k \in 1..w[i] : s[e[i - 1] + k] = parts[i][k]
  BY <1>5 DEF Laid
<1>8. ASSUME NEW i \in 1..n
      PROVE  /\ nalus[i] \in Bytes /\ (i = n \/ (Len(nalus[i]) > 0 /\ nalus[i][Len(nalus[i])] # 0))
             /\ \A k \in 1..(Len(nalus[i]) - 2) : ~CodeAt(nalus[i], k)
  <2>1. nalus[i] \in Bytes /\ (i = n \/ (nalus[i] # <<>> /\ nalus[i][Len(nalus[i])] # 0))
        /\ \A k \in DOMAIN nalus[i] : ~CodeAt(nalus[i], k)
    BY <1>1 DEF Plain, Free
  <2>2. Len(nalus[i]) \in Nat /\ (Len(nalus[i]) = 0 <=> nalus[i] = <<>>) /\ DOMAIN nalus[i] = 1..Len(nalus[i])
    BY <2>1, BytesAre
  <2>3. i = n \/ (Len(nalus[i]) > 0 /\ nalus[i][Len(nalus[i])] # 0)
    BY <2>1, <2>2
  <2> QED
    BY <2>1, <2>2, <2>3
<1>9. ASSUME NEW i \in 1..n
      PROVE  /\ e[i] = e[i - 1] + 4 + Len(nalus[i])
             /\ s[e[i - 1] + 1] = 0 /\ s[e[i - 1] + 2] = 0 /\ s[e[i - 1] + 3] = 0 /\ s[e[i - 1] + 4] = 1
             /\ \A k \in 1..Len(nalus[i]) : s[e[i - 1] + 4 + k] = nalus[i][k]
  <2> DEFINE b == e[i - 1]
             l == Len(nalus[i])
  <2>1. l \in Nat /\ b \in Nat
    <3>1. i - 1 \in 0..n
      BY <1>1
    <3> QED
      BY <1>1, <1>6, <1>7, <3>1, BytesAre
  <2>2. w[i] = 4 + l /\ e[i] = b + w[i] /\ \A k \in 1..w[i] : s[b + k] = parts[i][k]
    BY <1>2, <1>7
  <2> HIDE DEF b, l
  <2>3. 1 \in 1..w[i] /\ 2 \in 1..w[i] /\ 3 \in 1..w[i] /\ 4 \in 1..w[i]
    BY <2>1, <2>2
  <2>4. \A k \in 1..l : 4 + k \in 1..w[i] /\ b + 4 + k = b + (4 + k)
    BY <2>1, <2>2
  <2>5. \A k \in 1..l : s[b + 4 + k] = parts[i][4 + k]
    BY <2>2, <2>4
  <2>6. e[i] = b + 4 + l
    BY <2>1, <2>2
  <2>7. s[b + 1] = 0 /\ s[b + 2] = 0 /\ s[b + 3] = 0 /\ s[b + 4] = 1
    BY <1>2, <2>2, <2>3
  <2> QED
    BY <1>2, <2>5, <2>6, <2>7 DEF b, l
<1>10. \A i, j \in 0..n : i <= j => e[i] <= e[j]
  BY <1>1, <1>5, <1>6, LaidGrows
<1>11. ASSUME NEW k \in 1..Len(s) PROVE \E i \in 1..n : k > e[i - 1] /\ k <= e[i]
  <2>1. PICK i \in 1..n : \E j \in 1..w[i] : k = e[i - 1] + j
    <3>1. n \in Nat /\ Len(s) \in Nat
      BY <1>1, <1>6
    <3> QED
      BY <1>5, <3>1, LaidWhere
  <2>2. PICK j \in 1..w[i] : k = e[i - 1] + j
    BY <2>1
  <2>3. e[i] = e[i - 1] + w[i] /\ e[i - 1] \in Nat /\ w[i] \in Nat
    <3>1. i - 1 \in 0..n
      BY <1>1
    <3> QED
      BY <1>6, <1>7, <3>1
  <2> QED
    BY <2>2, <2>3
<1> DEFINE v == [i \in 1..n |-> Len(nalus[i])]
<1>12. v \in [1..n -> Nat] /\ (\A i \in 1..n : v[i] = Len(nalus[i])) /\ e \in [0..n -> Nat] /\ n = Len(nalus)
  <2>1. \A i \in 1..n : Len(nalus[i]) \in Nat
    BY <1>1, BytesAre
  <2>2. \A i \in 0..n : e[i] \in Nat
    BY <1>6, <1>7
  <2>3. n = Len(nalus)
    BY DEF n
  <2> HIDE DEF n
  <2> QED
    BY <1>7, <2>1, <2>2, <2>3
<1> HIDE DEF v
<1>13. ASSUME NEW i \in 1..n
       PROVE  /\ nalus[i] \in Bytes /\ Len(nalus[i]) = v[i]
              /\ i = n \/ (v[i] > 0 /\ nalus[i][v[i]] # 0)
              /\ \A k \in 1..(v[i] - 2) : ~CodeAt(nalus[i], k)
              /\ e[i] = e[i - 1] + 4 + v[i]
              /\ s[e[i - 1] + 1] = 0 /\ s[e[i - 1] + 2] = 0 /\ s[e[i - 1] + 3] = 0 /\ s[e[i - 1] + 4] = 1
              /\ \A k \in 1..v[i] : s[e[i - 1] + 4 + k] = nalus[i][k]
  <2>1. v[i] = Len(nalus[i])
    BY <1>12
  <2> QED
    BY <1>8, <1>9, <2>1, Zenon
<1>14. CutOf(s, Len(s), 0, nalus, n, v, e)
  BY <1>7, <1>10, <1>11, <1>12, <1>13, Zenon DEF CutOf
<1> QED
  BY <1>1, <1>6, <1>12, <1>14 DEF s

\* Behind other bytes that hold no start code.
LEMMA Shifted ==
    ASSUME NEW lead \in Bytes, Free(lead), NEW c \in Nat, c = Len(lead),
           NEW p \in Bytes, NEW nalus, NEW len \in Nat, NEW n \in Nat,
           NEW w \in [1..n -> Nat], NEW e \in [0..n -> Nat], CutOf(p, len, 0, nalus, n, w, e)
    PROVE  \E d \in [0..n -> Nat] : CutOf(lead \o p, c + len, c, nalus, n, w, d)
<1> DEFINE s == lead \o p
           d == [i \in 0..n |-> c + e[i]]
<1>1. /\ s \in Bytes /\ Len(s) = c + len /\ \A k \in 1..c : s[k] = lead[k]
      /\ \A k \in 1..len : s[c + k] = p[k]
  <2>1. len = Len(p)
    BY Zenon DEF CutOf
  <2>2. /\ s \in Bytes /\ Len(s) = Len(lead) + Len(p)
        /\ \A k \in 1..Len(lead) : s[k] = lead[k]
        /\ \A k \in 1..Len(p) : s[Len(lead) + k] = p[k]
    BY BytesJoined
  <2> HIDE DEF s
  <2> QED
    BY <2>1, <2>2
<1>2. d \in [0..n -> Nat] /\ \A i \in 0..n : d[i] = c + e[i]
  OBVIOUS
<1> HIDE DEF s, d
<1>3. /\ n = Len(nalus) /\ e[0] = 0 /\ e[n] = len
      /\ \A i, j \in 0..n : i <= j => e[i] <= e[j]
  BY Zenon DEF CutOf
<1>4. ASSUME NEW i \in 1..n
      PROVE  /\ d[i] = d[i - 1] + 4 + w[i]
             /\ s[d[i - 1] + 1] = 0 /\ s[d[i - 1] + 2] = 0 /\ s[d[i - 1] + 3] = 0 /\ s[d[i - 1] + 4] = 1
             /\ \A k \in 1..w[i] : s[d[i - 1] + 4 + k] = nalus[i][k]
  <2>1. i \in 0..n /\ i - 1 \in 0..n /\ n \in 0..n /\ i <= n
    OBVIOUS
  <2>2. PICK b \in Nat, l \in Nat, f \in Nat : b = e[i - 1] /\ l = w[i] /\ f = e[i]
    BY <2>1
  <2>3. /\ f = b + 4 + l
        /\ p[b + 1] = 0 /\ p[b + 2] = 0 /\ p[b + 3] = 0 /\ p[b + 4] = 1
        /\ \A k \in 1..l : p[b + 4 + k] = nalus[i][k]
    BY <2>2, Zenon DEF CutOf
  <2>4. f <= len
    BY <1>3, <2>1, <2>2
  <2>5. d[i] = c + f /\ d[i - 1] = c + b
    BY <1>2, <2>1, <2>2
  <2>6. /\ b + 1 \in 1..len /\ b + 2 \in 1..len /\ b + 3 \in 1..len /\ b + 4 \in 1..len
        /\ (c + b) + 1 = c + (b + 1) /\ (c + b) + 2 = c + (b + 2)
        /\ (c + b) + 3 = c + (b + 3) /\ (c + b) + 4 = c + (b + 4)
    BY <2>3, <2>4
  <2>7. s[(c + b) + 1] = 0 /\ s[(c + b) + 2] = 0 /\ s[(c + b) + 3] = 0 /\ s[(c + b) + 4] = 1
    BY <1>1, <2>3, <2>6
  <2>8. ASSUME NEW k \in 1..l PROVE s[(c + b) + 4 + k] = nalus[i][k]
    <3>1. f = b + 4 + l /\ Len(lead) \in Nat
      BY <2>3, BytesAre
    <3>2. b + 4 + k \in 1..len /\ (c + b) + 4 + k = c + (b + 4 + k)
      BY <2>4, <3>1
    <3> QED
      BY <1>1, <2>3, <3>2
  <2>9. c + f = (c + b) + 4 + l
    BY <2>3
  <2> QED
    BY <2>2, <2>5, <2>7, <2>8, <2>9, Zenon
<1>5. ASSUME NEW i \in 0..n, NEW j \in 0..n, i <= j PROVE d[i] <= d[j]
  <2>1. e[i] <= e[j] /\ e[i] \in Nat /\ e[j] \in Nat
    BY <1>3, <1>5
  <2> QED
    BY <1>2, <2>1
<1>6. ASSUME NEW k \in 1..(c + len), k <= c PROVE ~CodeAt(s, k)
  <2> SUFFICES ASSUME CodeAt(s, k) PROVE FALSE
    OBVIOUS
  <2>1. k + 2 <= c + len /\ s[k] = 0 /\ s[k + 1] = 0 /\ s[k + 2] = 1
    BY <1>1 DEF CodeAt
  <2>2. CASE k + 2 <= c
    <3>1. k \in 1..c /\ k + 1 \in 1..c /\ k + 2 \in 1..c
      BY <1>6, <2>2
    <3>2. lead[k] = 0 /\ lead[k + 1] = 0 /\ lead[k + 2] = 1
      BY <1>1, <2>1, <3>1
    <3>3. CodeAt(lead, k)
      BY <2>2, <3>2 DEF CodeAt
    <3>4. k \in DOMAIN lead
      BY <3>1, BytesAre
    <3> QED
      BY <3>3, <3>4 DEF Free
  <2>3. CASE ~(k + 2 <= c)
    <3>1. len > 0
      BY <1>6, <2>1, <2>3
    <3>2. n # 0
      BY <1>3, <3>1
    <3>3. 1 \in 1..n /\ 1 - 1 = 0 /\ 0 \in 0..n
      BY <3>2
    <3>4. s[d[0] + 1] = 0 /\ s[d[0] + 2] = 0 /\ d[0] = c
      <4>1. s[d[1 - 1] + 1] = 0 /\ s[d[1 - 1] + 2] = 0
        BY <1>4, <3>3
      <4>2. d[0] = c + 0
        BY <1>2, <1>3, <3>3
      <4> QED
        BY <3>3, <4>1, <4>2
    <3>5. k + 2 = c + 1 \/ k + 2 = c + 2
      <4>1. \A a, b \in Nat : a <= b /\ ~(a + 2 <= b) => a + 2 = b + 1 \/ a + 2 = b + 2
        OBVIOUS
      <4>2. k \in Nat
        OBVIOUS
      <4> QED
        BY <1>6, <2>3, <4>1, <4>2, Zenon
    <3> QED
      BY <2>1, <3>4, <3>5
  <2> QED
    BY <2>2, <2>3
<1>7. ASSUME NEW k \in 1..(c + len), ~(k <= c) PROVE \E i \in 1..n : k > d[i - 1] /\ k <= d[i]
  <2>1. PICK j \in 1..len : k = c + j
    <3>1. k - c \in 1..len /\ k = c + (k - c)
      BY <1>7
    <3> QED
      BY <3>1
  <2>2. ~(j <= 0)
    OBVIOUS
  <2>3. PICK i \in 1..n : j > e[i - 1] /\ j <= e[i]
    BY <2>2 DEF CutOf
  <2>4. i \in 0..n /\ i - 1 \in 0..n /\ e[i] \in Nat
    OBVIOUS
  <2>5. d[i] = c + e[i] /\ d[i - 1] = c + e[i - 1] /\ e[i - 1] \in Nat
    BY <1>2, <2>4
  <2>6. k > d[i - 1] /\ k <= d[i]
    BY <2>1, <2>3, <2>4, <2>5
  <2> QED
    BY <2>6
<1>8. d[0] = c /\ d[n] = c + len
  <2>1. 0 \in 0..n /\ n \in 0..n
    OBVIOUS
  <2> QED
    BY <1>2, <1>3, <2>1
<1>9. ASSUME NEW i \in 1..n
      PROVE  /\ nalus[i] \in Bytes /\ Len(nalus[i]) = w[i]
             /\ i = n \/ (w[i] > 0 /\ nalus[i][w[i]] # 0)
             /\ \A k \in 1..(w[i] - 2) : ~CodeAt(nalus[i], k)
  BY Zenon DEF CutOf
<1>10. CutOf(s, c + len, c, nalus, n, w, d)
  BY <1>1, <1>3, <1>4, <1>5, <1>6, <1>7, <1>8, <1>9, Zenon DEF CutOf
<1> QED
  BY <1>2, <1>10 DEF s

LEMMA CutIs ==
    ASSUME NEW lead \in Bytes, Free(lead), NEW nalus \in LastCut
    PROVE  /\ lead \o Payload(nalus) \in Bytes
           /\ \E c, len, n \in Nat : \E w \in [1..n -> Nat], e \in [0..n -> Nat] :
                 CutOf(lead \o Payload(nalus), len, c, nalus, n, w, e)
<1>1. PICK p \in Bytes : p = Payload(nalus)
  BY LoadIs
<1>2. PICK len \in Nat, n \in Nat : \E w \in [1..n -> Nat], e \in [0..n -> Nat] : CutOf(p, len, 0, nalus, n, w, e)
  BY <1>1, LoadIs
<1>3. PICK w \in [1..n -> Nat], e \in [0..n -> Nat] : CutOf(p, len, 0, nalus, n, w, e)
  BY <1>2
<1>4. PICK c \in Nat : c = Len(lead)
  BY BytesAre
<1>5. PICK d \in [0..n -> Nat] : CutOf(lead \o p, c + len, c, nalus, n, w, d)
  BY <1>3, <1>4, Shifted
<1>6. c + len \in Nat /\ lead \o p \in Bytes
  BY BytesJoined
<1> QED
  BY <1>1, <1>5, <1>6

\* Whole units, and nothing before them: e[i] is where unit i ends.
PayloadOf(s, len, nalus, n, w, e) ==
    /\ len = Len(s) /\ n = Len(nalus) /\ e[0] = 0 /\ e[n] = len
    /\ \A i \in 1..n :
        /\ nalus[i] \in Bytes /\ Len(nalus[i]) = w[i] /\ w[i] > 0 /\ nalus[i][w[i]] # 0
        /\ \A k \in 1..(w[i] - 2) : ~CodeAt(nalus[i], k)
        /\ e[i] = e[i - 1] + 4 + w[i]
        /\ s[e[i - 1] + 1] = 0 /\ s[e[i - 1] + 2] = 0 /\ s[e[i - 1] + 3] = 0 /\ s[e[i - 1] + 4] = 1
        /\ \A k \in 1..w[i] : s[e[i - 1] + 4 + k] = nalus[i][k]
    /\ \A i, j \in 0..n : i <= j => e[i] <= e[j]
    /\ \A k \in 1..len : \E i \in 1..n : k > e[i - 1] /\ k <= e[i]

LEMMA PayloadIs ==
    ASSUME NEW nalus \in Plains
    PROVE  /\ Payload(nalus) \in Bytes
           /\ \E len, n \in Nat : \E w \in [1..n -> Nat], e \in [0..n -> Nat] :
                 PayloadOf(Payload(nalus), len, nalus, n, w, e)
<1>1. nalus \in LastCut
  BY DEF Plains, LastCut, Plain
<1>2. PICK p \in Bytes : p = Payload(nalus)
  BY <1>1, LoadIs
<1>3. PICK len \in Nat, n \in Nat : \E w \in [1..n -> Nat], e \in [0..n -> Nat] : CutOf(p, len, 0, nalus, n, w, e)
  BY <1>1, <1>2, LoadIs
<1>4. PICK w \in [1..n -> Nat], e \in [0..n -> Nat] : CutOf(p, len, 0, nalus, n, w, e)
  BY <1>3
<1>5. /\ len = Len(p) /\ n = Len(nalus) /\ e[0] = 0 /\ e[n] = len
      /\ \A i, j \in 0..n : i <= j => e[i] <= e[j]
  BY <1>4, Zenon DEF CutOf
<1>6. ASSUME NEW k \in 1..len PROVE \E i \in 1..n : k > e[i - 1] /\ k <= e[i]
  <2>1. ~(k <= 0)
    OBVIOUS
  <2> QED
    BY <1>4, <2>1, Zenon DEF CutOf
<1>7. ASSUME NEW i \in 1..n
      PROVE  /\ nalus[i] \in Bytes /\ Len(nalus[i]) = w[i]
             /\ \A k \in 1..(w[i] - 2) : ~CodeAt(nalus[i], k)
             /\ e[i] = e[i - 1] + 4 + w[i]
             /\ p[e[i - 1] + 1] = 0 /\ p[e[i - 1] + 2] = 0 /\ p[e[i - 1] + 3] = 0 /\ p[e[i - 1] + 4] = 1
             /\ \A k \in 1..w[i] : p[e[i - 1] + 4 + k] = nalus[i][k]
  BY <1>4, Zenon DEF CutOf
<1>8. ASSUME NEW i \in 1..n PROVE w[i] > 0 /\ nalus[i][w[i]] # 0
  <2>1. nalus[i] # <<>> /\ nalus[i][Len(nalus[i])] # 0
    BY <1>5 DEF Plains, Plain
  <2>2. Len(nalus[i]) # 0 /\ Len(nalus[i]) \in Nat
    BY <1>7, <2>1, BytesAre
  <2>3. Len(nalus[i]) > 0
    BY <2>2
  <2>4. Len(nalus[i]) = w[i]
    BY <1>7, Zenon
  <2> QED
    BY <2>1, <2>3, <2>4, Zenon
<1>9. PayloadOf(p, len, nalus, n, w, e)
  BY <1>5, <1>6, <1>7, <1>8, Zenon DEF PayloadOf
<1> QED
  BY <1>2, <1>9

\* The start codes of a payload are those before its units.
Codes(s, len, n, e) == \A j \in 1..len : CodeAt(s, j) <=> \E i \in 1..n : j = e[i - 1] + 2
CutInto(s, len, c, nalus, n, w, e) ==
    /\ s \in Bytes /\ len \in Nat /\ c \in Nat /\ n \in Nat
    /\ w \in [1..n -> Nat] /\ e \in [0..n -> Nat] /\ CutOf(s, len, c, nalus, n, w, e)

LEMMA CutCodes ==
    ASSUME NEW s, NEW nalus, NEW len, NEW c, NEW n, NEW w, NEW e, CutInto(s, len, c, nalus, n, w, e)
    PROVE  Codes(s, len, n, e)
<1> SUFFICES ASSUME s \in Bytes, len \in Nat, c \in Nat, n \in Nat,
                    w \in [1..n -> Nat], e \in [0..n -> Nat], CutOf(s, len, c, nalus, n, w, e),
                    NEW j \in 1..len
             PROVE  CodeAt(s, j) <=> \E i \in 1..n : j = e[i - 1] + 2
  BY Zenon DEF CutInto, Codes
<1>1. /\ e[n] = len /\ \A l, m \in 0..n : l <= m => e[l] <= e[m]
      /\ \A k \in 1..len : (k <= c /\ ~CodeAt(s, k)) \/ \E i \in 1..n : k > e[i - 1] /\ k <= e[i]
  BY DEF CutOf
<1>2. len = Len(s)
  BY DEF CutOf
<1>3. ASSUME NEW i \in 1..n
      PROVE  /\ i - 1 \in 0..n /\ i \in 0..n
             /\ e[i - 1] \in Nat /\ e[i] \in Nat /\ e[i] <= len
             /\ Len(nalus[i]) = w[i] /\ (i = n \/ (w[i] > 0 /\ nalus[i][w[i]] # 0))
             /\ \A k \in 1..(w[i] - 2) : ~CodeAt(nalus[i], k)
             /\ e[i] = e[i - 1] + 4 + w[i]
             /\ s[e[i - 1] + 1] = 0 /\ s[e[i - 1] + 2] = 0 /\ s[e[i - 1] + 3] = 0 /\ s[e[i - 1] + 4] = 1
             /\ \A k \in 1..w[i] : s[e[i - 1] + 4 + k] = nalus[i][k]
  <2>1. i - 1 \in 0..n /\ i \in 0..n
    BY <1>1
  <2>2. e[i - 1] \in Nat /\ e[i] \in Nat /\ e[i] <= len
    <3>1. i <= n /\ n \in 0..n
      BY <2>1
    <3> QED
      BY <1>1, <2>1, <3>1
  <2>3. /\ Len(nalus[i]) = w[i] /\ (i = n \/ (w[i] > 0 /\ nalus[i][w[i]] # 0))
        /\ \A k \in 1..(w[i] - 2) : ~CodeAt(nalus[i], k)
        /\ e[i] = e[i - 1] + 4 + w[i]
        /\ s[e[i - 1] + 1] = 0 /\ s[e[i - 1] + 2] = 0 /\ s[e[i - 1] + 3] = 0 /\ s[e[i - 1] + 4] = 1
        /\ \A k \in 1..w[i] : s[e[i - 1] + 4 + k] = nalus[i][k]
    BY DEF CutOf
  <2> QED
    BY <2>1, <2>2, <2>3
<1>4. ASSUME NEW i \in 1..n, j = e[i - 1] + 2 PROVE CodeAt(s, j)
  <2> DEFINE b == e[i - 1]
  <2>1. /\ b \in Nat /\ e[i] = b + 4 + w[i] /\ w[i] \in Nat /\ e[i] <= len
        /\ s[b + 2] = 0 /\ s[b + 3] = 0 /\ s[b + 4] = 1 /\ j = b + 2
    BY <1>3, <1>4
  <2> HIDE DEF b
  <2>2. j + 2 <= len /\ j = b + 2 /\ j + 1 = b + 3 /\ j + 2 = b + 4
    BY <2>1
  <2> QED
    BY <1>2, <2>1, <2>2 DEF CodeAt
<1>5. ASSUME CodeAt(s, j) PROVE \E i \in 1..n : j = e[i - 1] + 2
  <2>1. PICK i \in 1..n : j > e[i - 1] /\ j <= e[i]
    BY <1>1, <1>5
  <2>2. s[j] = 0 /\ s[j + 1] = 0 /\ s[j + 2] = 1 /\ j + 2 <= len
    BY <1>2, <1>5 DEF CodeAt
  <2> DEFINE b == e[i - 1]
             x == nalus[i]
  <2>3. /\ b \in Nat /\ w[i] \in Nat /\ (i = n \/ (w[i] > 0 /\ x[w[i]] # 0))
        /\ i = n => b + 4 + w[i] = len
        /\ \A k \in 1..(w[i] - 2) : ~CodeAt(x, k)
        /\ s[b + 3] = 0 /\ s[b + 4] = 1
        /\ \A k \in 1..w[i] : s[b + 4 + k] = x[k]
        /\ j > b /\ j <= b + 4 + w[i]
    BY <1>1, <1>3, <2>1
  <2> SUFFICES ASSUME j # b + 2 PROVE FALSE
    OBVIOUS
  <2> HIDE DEF b, x
  <2>4. CASE j = b + 1
    <3>1. j + 2 = b + 3
      BY <2>3, <2>4
    <3> QED
      BY <2>2, <2>3, <3>1
  <2>5. CASE j = b + 3
    <3>1. j + 1 = b + 4
      BY <2>3, <2>5
    <3> QED
      BY <2>2, <2>3, <3>1
  <2>6. CASE j = b + 4
    BY <2>2, <2>3, <2>6
  <2>7. CASE j > b + 4
    <3>1. PICK k \in 1..w[i] : j = b + 4 + k
      <4>1. j - (b + 4) \in 1..w[i] /\ j = b + 4 + (j - (b + 4))
        BY <2>3, <2>7
      <4> QED
        BY <4>1
    <3>2. s[j] = x[k]
      BY <2>3, <3>1
    <3>3. k # w[i]
      BY <2>2, <2>3, <3>1, <3>2
    <3>4. k + 1 \in 1..w[i] /\ j + 1 = b + 4 + (k + 1)
      BY <2>3, <3>1, <3>3
    <3>5. s[j + 1] = x[k + 1]
      BY <2>3, <3>4
    <3>6. k + 1 # w[i]
      BY <2>2, <2>3, <3>1, <3>5
    <3>7. k + 2 \in 1..w[i] /\ j + 2 = b + 4 + (k + 2) /\ k \in 1..(w[i] - 2) /\ k + 2 <= w[i]
      <4>1. w[i] \in Nat /\ b \in Nat /\ k \in Nat /\ k >= 1
        BY <2>3
      <4>2. k + 1 <= w[i] /\ k + 1 # w[i]
        BY <3>4, <3>6
      <4>3. k + 2 <= w[i]
        BY <4>1, <4>2
      <4>4. j + 2 = b + 4 + (k + 2)
        BY <3>1, <4>1
      <4> QED
        BY <4>1, <4>3, <4>4
    <3>8. s[j + 2] = x[k + 2]
      BY <2>3, <3>7
    <3>9. CodeAt(x, k)
      <4>1. k + 2 <= Len(x)
        BY <1>3, <3>7 DEF x
      <4> QED
        BY <2>2, <3>2, <3>5, <3>8, <4>1, Zenon DEF CodeAt
    <3> QED
      BY <2>3, <3>7, <3>9
  <2>8. j \in Nat /\ (j = b + 1 \/ j = b + 3 \/ j = b + 4 \/ j > b + 4)
    BY <1>2, <2>3
  <2> QED
    BY <2>4, <2>5, <2>6, <2>7, <2>8
<1> QED
  BY <1>4, <1>5

LEMMA CodesAre ==
    ASSUME NEW s \in Bytes, NEW nalus, NEW len \in Nat, NEW n \in Nat,
           NEW w \in [1..n -> Nat], NEW e \in [0..n -> Nat],
           PayloadOf(s, len, nalus, n, w, e)
    PROVE  \A j \in 1..len : CodeAt(s, j) <=> \E i \in 1..n : j = e[i - 1] + 2
<1>1. CutOf(s, len, 0, nalus, n, w, e)
  BY Zenon DEF PayloadOf, CutOf
<1>4. 0 \in Nat
  OBVIOUS
<1>2. CutInto(s, len, 0, nalus, n, w, e)
  BY <1>1, <1>4, Zenon DEF CutInto
<1>3. Codes(s, len, n, e)
  BY <1>2, CutCodes, Zenon
<1> QED
  BY <1>3, Zenon DEF Codes

\* What stands behind a start code at place b + 2, up to the next one or the end,
\* is the unit x, and perhaps the first zero of the next code.
Followed(s, x, len, b, l) ==
    /\ s \in Bytes /\ x \in Bytes /\ len \in Nat /\ b \in Nat /\ l \in Nat
    /\ len = Len(s) /\ l = Len(x) /\ l > 0 /\ x[l] # 0
    /\ \A k \in 1..l : s[b + 4 + k] = x[k]
    /\ \A k \in (b + 5)..len : CodeAt(s, k) => k >= b + l + 6
    /\ \/ b + l + 4 = len
       \/ b + l + 6 <= len /\ CodeAt(s, b + l + 6) /\ s[b + l + 5] = 0

LEMMA UnitFollowed ==
    ASSUME NEW s, NEW x, NEW len, NEW b, NEW l, Followed(s, x, len, b, l)
    PROVE  NALUAt(s, b + 2) = x
<1> SUFFICES ASSUME s \in Bytes, x \in Bytes, len \in Nat, b \in Nat, l \in Nat,
                    len = Len(s), l = Len(x), l > 0, x[l] # 0,
                    \A k \in 1..l : s[b + 4 + k] = x[k],
                    \A k \in (b + 5)..len : CodeAt(s, k) => k >= b + l + 6,
                    \/ b + l + 4 = len
                    \/ b + l + 6 <= len /\ CodeAt(s, b + l + 6) /\ s[b + l + 5] = 0
             PROVE  NALUAt(s, b + 2) = x
  BY DEF Followed
<1> DEFINE later == {k \in ((b + 2) + 3)..len : CodeAt(s, k)}
           last  == IF later = {} THEN len ELSE Min(later) - 1
           t     == SubSeq(s, (b + 2) + 3, last)
<1>1. NALUAt(s, b + 2) = Trimmed(t)
  BY Zenon DEF NALUAt
<1> HIDE DEF t
<1>2. later \in SUBSET Nat /\ \A k \in later : k >= b + l + 6
  OBVIOUS
<1>3. /\ last \in Nat /\ last <= len /\ last >= b + l + 4
      /\ \A k \in (b + l + 5)..last : s[k] = 0
  <2>1. CASE b + l + 4 = len
    <3>1. later = {}
      BY <2>1
    <3>2. last = len
      BY <3>1
    <3> HIDE DEF last
    <3> QED
      BY <2>1, <3>2
  <2>2. CASE b + l + 6 <= len /\ CodeAt(s, b + l + 6) /\ s[b + l + 5] = 0
    <3>1. b + l + 6 \in later
      BY <2>2
    <3>2. Min(later) \in later /\ \A k \in later : Min(later) <= k
      <4> HIDE DEF later
      <4> QED
        BY <1>2, <3>1, MinIs
    <3>3. Min(later) = b + l + 6
      <4> HIDE DEF later, last
      <4>1. Min(later) \in Nat /\ Min(later) <= b + l + 6 /\ Min(later) >= b + l + 6
        BY <1>2, <3>1, <3>2
      <4> QED
        BY <4>1
    <3>7. last = Min(later) - 1
      <4>1. later # {}
        BY <3>1
      <4> HIDE DEF later
      <4> QED
        BY <4>1, Zenon
    <3> HIDE DEF last, later
    <3>4. last = b + l + 5
      BY <3>3, <3>7
    <3>5. \A k \in (b + l + 5)..last : k = b + l + 5
      BY <3>4
    <3>6. last \in Nat /\ last <= len /\ last >= b + l + 4
      BY <2>2, <3>4
    <3> QED
      BY <2>2, <3>5, <3>6
  <2> QED
    BY <2>1, <2>2
<1> HIDE DEF last, later
<1>4. /\ t \in Bytes /\ Len(t) = last - (b + 4)
      /\ \A k \in 1..(last - (b + 4)) : t[k] = s[b + 4 + k]
  <2> DEFINE a == (b + 2) + 3
  <2>1. \A k \in 1..len : s[k] \in Byte
    BY BytesAre
  <2>2. t = SubSeq(s, a, last)
    BY DEF t
  <2>3. a \in Nat /\ a = b + 5 /\ a <= last
    BY <1>3
  <2> HIDE DEF a
  <2>4. \A k \in a..last : s[k] \in Byte
    BY <1>3, <2>1, <2>3
  <2>5. a \in Int /\ last \in Int
    BY <1>3, <2>3
  <2>6. /\ t \in Seq(Byte) /\ Len(t) = IF a <= last THEN last - a + 1 ELSE 0
        /\ \A k \in 1..(last - a + 1) : t[k] = s[a + k - 1]
    <3>1. ASSUME NEW r, NEW m \in Int, NEW n \in Int, \A k \in m..n : r[k] \in Byte
          PROVE  /\ SubSeq(r, m, n) \in Seq(Byte)
                 /\ Len(SubSeq(r, m, n)) = IF m <= n THEN n - m + 1 ELSE 0
                 /\ \A k \in 1..(n - m + 1) : SubSeq(r, m, n)[k] = r[m + k - 1]
      BY <3>1, SubSeqProperties
    <3>2. /\ SubSeq(s, a, last) \in Seq(Byte)
          /\ Len(SubSeq(s, a, last)) = IF a <= last THEN last - a + 1 ELSE 0
          /\ \A k \in 1..(last - a + 1) : SubSeq(s, a, last)[k] = s[a + k - 1]
      BY <2>4, <2>5, <3>1
    <3> QED
      BY <2>2, <3>2, Zenon
  <2>7. ASSUME NEW k \in 1..(last - (b + 4)) PROVE t[k] = s[b + 4 + k]
    <3>1. k \in 1..(last - a + 1) /\ a + k - 1 = b + 4 + k
      BY <1>3, <2>3
    <3> QED
      BY <2>6, <3>1
  <2>8. Len(t) = last - (b + 4)
    BY <1>3, <2>3, <2>6
  <2> QED
    BY <2>6, <2>7, <2>8 DEF Bytes
<1>5. Trimmed(t) = x
  <2> DEFINE m == last - (b + 4)
  <2>0. m \in Nat /\ l <= m /\ Len(t) = m /\ last = m + b + 4
    BY <1>3, <1>4
  <2>1. \A k \in 1..m : t[k] = s[b + 4 + k]
    BY <1>4
  <2> HIDE DEF m
  <2>2. Len(x) <= Len(t) /\ x[Len(x)] # 0 /\ x # <<>>
    BY <2>0, BytesAre
  <2>3. \A k \in 1..l : t[k] = x[k]
    BY <2>0, <2>1
  <2>4. ASSUME NEW k \in (l + 1)..m PROVE t[k] = 0
    <3>1. k \in 1..m /\ b + 4 + k \in (b + l + 5)..last
      BY <2>0
    <3> QED
      BY <1>3, <2>1, <3>1
  <2>5. (\A k \in 1..Len(x) : t[k] = x[k]) /\ \A k \in (Len(x) + 1)..Len(t) : t[k] = 0
    BY <2>0, <2>3, <2>4
  <2> QED
    BY <1>4, <2>2, <2>5, TrimmedIs
<1> QED
  BY <1>1, <1>5

\* The unit behind a start code of the payload; of the last, which may be cut, what
\* is there but for zeros at its end.
Found(s, nalus, n, e) ==
    \A i \in 1..n : /\ i # n => NALUAt(s, e[i - 1] + 2) = nalus[i] /\ nalus[i] # <<>>
                    /\ i = n => NALUAt(s, e[i - 1] + 2) = Trimmed(nalus[i])

LEMMA NALUsFound ==
    ASSUME NEW s, NEW nalus, NEW len, NEW c, NEW n, NEW w, NEW e, CutInto(s, len, c, nalus, n, w, e)
    PROVE  Found(s, nalus, n, e)
<1> SUFFICES ASSUME s \in Bytes, len \in Nat, c \in Nat, n \in Nat,
                    w \in [1..n -> Nat], e \in [0..n -> Nat], CutOf(s, len, c, nalus, n, w, e),
                    NEW i \in 1..n
             PROVE  /\ i # n => NALUAt(s, e[i - 1] + 2) = nalus[i] /\ nalus[i] # <<>>
                    /\ i = n => NALUAt(s, e[i - 1] + 2) = Trimmed(nalus[i])
  BY Zenon DEF CutInto, Found
<1>0. \A k \in 1..len : CodeAt(s, k) <=> \E m \in 1..n : k = e[m - 1] + 2
  <2>1. CutInto(s, len, c, nalus, n, w, e)
    BY Zenon DEF CutInto
  <2>2. Codes(s, len, n, e)
    BY <2>1, CutCodes, Zenon
  <2> QED
    BY <2>2, Zenon DEF Codes
<1>1. /\ e[n] = len /\ len = Len(s)
      /\ \A l, m \in 0..n : l <= m => e[l] <= e[m]
  BY DEF CutOf
<1>2. i \in 0..n /\ i - 1 \in 0..n /\ n \in 0..n
  OBVIOUS
<1>3. PICK b \in Nat, ei \in Nat, l \in Nat : b = e[i - 1] /\ ei = e[i] /\ l = w[i]
  BY <1>2
<1> DEFINE x == nalus[i]
<1>4. (i = n \/ l > 0) /\ ei = b + 4 + l
  BY <1>3 DEF CutOf
<1>9. /\ x \in Bytes /\ l = Len(x) /\ (i = n \/ x[l] # 0)
      /\ \A k \in 1..l : s[b + 4 + k] = x[k]
  BY <1>3 DEF CutOf
<1> HIDE DEF x
<1>5. \A k \in (b + 5)..len : CodeAt(s, k) => k >= ei + 2 /\ i # n
  <2> SUFFICES ASSUME NEW k \in (b + 5)..len, CodeAt(s, k) PROVE k >= ei + 2 /\ i # n
    OBVIOUS
  <2>1. PICK m \in 1..n : k = e[m - 1] + 2
    <3>1. k \in 1..len
      OBVIOUS
    <3> QED
      BY <1>0, <3>1, Zenon
  <2>2. PICK em \in Nat : m - 1 \in 0..n /\ em = e[m - 1] /\ k = em + 2
    <3>1. m - 1 \in 0..n
      OBVIOUS
    <3> QED
      BY <2>1, <3>1
  <2>3. m - 1 >= i
    <3> SUFFICES ASSUME ~(m - 1 >= i) PROVE FALSE
      OBVIOUS
    <3>1. m - 1 <= i - 1
      OBVIOUS
    <3>2. em <= b
      BY <1>1, <1>2, <1>3, <2>2, <3>1
    <3> QED
      BY <2>2, <3>2
  <2>4. ei <= em
    BY <1>1, <1>2, <1>3, <2>2, <2>3
  <2> QED
    BY <2>2, <2>3, <2>4
<1>6. \A k \in (b + 5)..len : CodeAt(s, k) => k >= b + l + 6
  BY <1>4, <1>5
<1>10. i = n \/ x # <<>>
  BY <1>4, <1>9, BytesAre
<1>11. len = Len(s)
  BY <1>1
<1>7. CASE i = n
  <2>1. ei = len
    BY <1>1, <1>3, <1>7
  <2>2. (b + 4) + l = len
    BY <1>4, <2>1
  <2> DEFINE later == {k \in ((b + 2) + 3)..Len(s) : CodeAt(s, k)}
  <2>3. later = {}
    <3>1. \A k \in (b + 5)..len : ~CodeAt(s, k)
      BY <1>5, <1>7
    <3>2. (b + 2) + 3 = b + 5
      OBVIOUS
    <3> QED
      BY <1>11, <3>1, <3>2
  <2>4. SubSeq(s, (b + 4) + 1, (b + 4) + l) = x
    <3>1. \A k \in 1..Len(x) : s[(b + 4) + k] = x[k]
      BY <1>9
    <3>2. b + 4 \in Nat /\ (b + 4) + Len(x) <= Len(s)
      BY <1>9, <1>11, <2>2
    <3> QED
      BY <1>9, <3>1, <3>2, BytesSliced
  <2>5. NALUAt(s, b + 2) = Trimmed(SubSeq(s, (b + 2) + 3, Len(s)))
    BY <2>3, Zenon DEF NALUAt
  <2>6. (b + 2) + 3 = (b + 4) + 1
    OBVIOUS
  <2>7. NALUAt(s, b + 2) = Trimmed(x)
    BY <1>11, <2>2, <2>4, <2>5, <2>6, Zenon
  <2> QED
    BY <1>3, <1>7, <2>7 DEF x
<1>8. CASE i # n
  <2>1. i + 1 \in 1..n /\ i + 1 \in 0..n /\ (i + 1) - 1 = i
    BY <1>8
  <2>2. PICK l2 \in Nat, e2 \in Nat : l2 = w[i + 1] /\ e2 = e[i + 1]
    BY <2>1
  <2>3. s[ei + 1] = 0 /\ e2 = ei + 4 + l2 /\ e2 <= len
    <3>1. s[e[i] + 1] = 0 /\ e[i + 1] = e[i] + 4 + w[i + 1]
      <4>1. \A m \in 1..n : s[e[m - 1] + 1] = 0 /\ e[m] = e[m - 1] + 4 + w[m]
        BY Zenon DEF CutOf
      <4> QED
        BY <2>1, <4>1
    <3>2. e[i + 1] <= len
      BY <1>1, <1>2, <2>1
    <3> QED
      BY <1>3, <2>2, <3>1, <3>2
  <2>4. b + l + 6 \in 1..len /\ ei + 1 = b + l + 5 /\ ei + 2 = b + l + 6
    BY <1>4, <2>3
  <2>5. CodeAt(s, b + l + 6)
    <3>1. \E m \in 1..n : b + l + 6 = e[m - 1] + 2
      BY <1>3, <2>1, <2>4
    <3> QED
      BY <1>0, <2>4, <3>1, Zenon
  <2>6. s[b + l + 5] = 0
    BY <2>3, <2>4, Zenon
  <2>8. b + l + 6 <= len
    BY <2>4
  <2>9. \/ b + l + 4 = len
        \/ b + l + 6 <= len /\ CodeAt(s, b + l + 6) /\ s[b + l + 5] = 0
    BY <2>5, <2>6, <2>8, Zenon
  <2>10. Followed(s, x, len, b, l)
    BY <1>4, <1>6, <1>8, <1>9, <1>11, <2>9, Zenon DEF Followed
  <2>7. NALUAt(s, b + 2) = x
    BY <2>10, UnitFollowed
  <2> QED
    BY <1>3, <1>8, <1>10, <2>7 DEF x
<1> QED
  BY <1>7, <1>8

\* Up to place j, the units whose start codes stand there.
Reached(e, n, j, i) == i \in 0..n /\ \A m \in 1..n : m <= i <=> e[m - 1] + 2 <= j

LEMMA ReachedStep ==
    ASSUME NEW s \in Bytes, NEW nalus, NEW len \in Nat, NEW c \in Nat, NEW n \in Nat,
           NEW w \in [1..n -> Nat], NEW e \in [0..n -> Nat],
           CutOf(s, len, c, nalus, n, w, e),
           NEW j \in 0..(len - 1), NEW i, Reached(e, n, j, i)
    PROVE  \/ /\ CodeAt(s, j + 1) /\ i + 1 \in 1..n /\ j + 1 = e[i] + 2
              /\ Reached(e, n, j + 1, i + 1)
           \/ ~CodeAt(s, j + 1) /\ Reached(e, n, j + 1, i)
<1>0. \A k \in 1..len : CodeAt(s, k) <=> \E m \in 1..n : k = e[m - 1] + 2
  <2>1. CutInto(s, len, c, nalus, n, w, e)
    BY Zenon DEF CutInto
  <2>2. Codes(s, len, n, e)
    BY <2>1, CutCodes, Zenon
  <2> QED
    BY <2>2, Zenon DEF Codes
<1>1. /\ \A l, m \in 0..n : l <= m => e[l] <= e[m]
      /\ \A m \in 1..n : e[m] = e[m - 1] + 4 + w[m]
  BY DEF CutOf
<1>2. i \in 0..n /\ \A m \in 1..n : m <= i <=> e[m - 1] + 2 <= j
  BY DEF Reached
<1>3. \A m \in 1..n : m - 1 \in 0..n /\ m \in 0..n /\ e[m - 1] \in Nat /\ w[m] \in Nat
  <2> SUFFICES ASSUME NEW m \in 1..n
               PROVE  m - 1 \in 0..n /\ m \in 0..n /\ e[m - 1] \in Nat /\ w[m] \in Nat
    OBVIOUS
  <2>1. m - 1 \in 0..n /\ m \in 0..n
    OBVIOUS
  <2> QED
    BY <2>1
<1>4. CASE CodeAt(s, j + 1)
  <2>1. PICK m \in 1..n : j + 1 = e[m - 1] + 2
    <3>1. j + 1 \in 1..len
      OBVIOUS
    <3> QED
      BY <1>0, <1>4, <3>1, Zenon
  <2>2. PICK em \in Nat : em = e[m - 1] /\ j + 1 = em + 2
    BY <1>3, <2>1
  <2>3. ~(m <= i)
    <3>1. ~(em + 2 <= j)
      BY <2>2
    <3> QED
      BY <1>2, <2>2, <3>1
  <2>4. i + 1 \in 1..n /\ (i + 1) - 1 = i /\ i <= m - 1 /\ i \in 0..n
    BY <1>2, <2>3
  <2>5. PICK ei \in Nat : ei = e[i]
    BY <2>4
  <2>6. ei <= em
    BY <1>1, <1>3, <2>2, <2>4, <2>5
  <2>7. ~(ei + 2 <= j)
    <3>1. ~(i + 1 <= i)
      BY <2>4
    <3> QED
      BY <1>2, <2>4, <2>5, <3>1
  <2>8. ei = em /\ j + 1 = ei + 2
    BY <2>2, <2>6, <2>7
  <2>9. ASSUME NEW l \in 1..n PROVE l <= i + 1 <=> e[l - 1] + 2 <= j + 1
    <3>1. PICK el \in Nat : el = e[l - 1] /\ l - 1 \in 0..n
      BY <1>3
    <3>2. CASE l <= i + 1
      <4>1. l - 1 <= i
        BY <2>4, <3>2
      <4>2. el <= ei
        BY <1>1, <2>4, <2>5, <3>1, <4>1
      <4> QED
        BY <2>8, <3>1, <3>2, <4>2
    <3>3. CASE ~(l <= i + 1)
      <4>1. i + 1 <= l - 1 /\ i + 1 \in 0..n
        BY <2>4, <3>3
      <4>2. PICK e1 \in Nat, w1 \in Nat : e1 = e[i + 1] /\ w1 = w[i + 1]
        BY <2>4, <4>1
      <4>3. e1 <= el
        BY <1>1, <3>1, <4>1, <4>2
      <4>4. e1 = ei + 4 + w1
        BY <1>1, <2>4, <2>5, <4>2
      <4>5. ~(el + 2 <= j + 1)
        BY <2>8, <4>3, <4>4
      <4> QED
        BY <3>1, <3>3, <4>5
    <3> QED
      BY <3>2, <3>3
  <2>10. Reached(e, n, j + 1, i + 1)
    <3>1. i + 1 \in 0..n
      BY <2>4
    <3> QED
      BY <2>9, <3>1, Zenon DEF Reached
  <2> QED
    BY <1>4, <2>4, <2>5, <2>8, <2>10
<1>5. CASE ~CodeAt(s, j + 1)
  <2>1. ASSUME NEW l \in 1..n PROVE l <= i <=> e[l - 1] + 2 <= j + 1
    <3>1. PICK el \in Nat : el = e[l - 1]
      BY <1>3
    <3>2. el + 2 # j + 1
      <4>1. j + 1 \in 1..len
        OBVIOUS
      <4> QED
        BY <1>0, <1>5, <3>1, <4>1
    <3>3. l <= i <=> el + 2 <= j
      BY <1>2, <3>1
    <3>4. el + 2 <= j <=> el + 2 <= j + 1
      BY <3>2
    <3> QED
      BY <3>1, <3>3, <3>4
  <2> QED
    BY <1>2, <1>5, <2>1, Zenon DEF Reached
<1> QED
  BY <1>4, <1>5

\* The beginning of a sequence, one element longer.
LEMMA LongerPrefix ==
    ASSUME NEW S, NEW s \in Seq(S), NEW i \in 0..(Len(s) - 1)
    PROVE  SubSeq(s, 1, i + 1) = Append(SubSeq(s, 1, i), s[i + 1])
<1>1. Len(s) \in Nat /\ \A k \in 1..Len(s) : s[k] \in S
  BY LenProperties, ElementOfSeq
<1>2. i + 1 \in 1..Len(s) /\ (i + 1) - 1 = i /\ s[i + 1] \in S
  BY <1>1
<1>3. SubSeq(s, 1, i + 1) = SubSeq(s, 1, i) \o <<s[i + 1]>>
  <2>1. 1 \in 1..Len(s) /\ 1 <= i + 1 /\ i + 1 \in 1..(Len(s) + 1)
    BY <1>1, <1>2
  <2> QED
    BY <1>2, <2>1, SubSeqRecursiveSecond
<1>4. SubSeq(s, 1, i) \in Seq(S)
  <2>1. \A k \in 1..i : s[k] \in S
    BY <1>1, <1>2
  <2> QED
    BY <1>2, <2>1, SubSeqProperties
<1> QED
  BY <1>2, <1>3, <1>4, AppendIsConcat

\* What the units of a payload hold up to the i-th, when all n are there or fewer.
Taking(nalus, n, i) == IF i = n THEN Heads(nalus) ELSE SubSeq(nalus, 1, i)

More(nalus, n, i, x) ==
    /\ nalus \in Pieces(Byte) /\ n = Len(nalus) /\ n \in Nat /\ i \in 0..(n - 1)
    /\ i + 1 # n => x = nalus[i + 1] /\ x # <<>>
    /\ i + 1 = n => x = Trimmed(nalus[i + 1])

LEMMA TakingMore ==
    ASSUME NEW nalus, NEW n, NEW i, NEW x, More(nalus, n, i, x)
    PROVE  Taking(nalus, n, i + 1) = IF x = <<>> THEN Taking(nalus, n, i) ELSE Append(Taking(nalus, n, i), x)
<1> SUFFICES ASSUME nalus \in Pieces(Byte), n = Len(nalus), n \in Nat, i \in 0..(n - 1),
                    i + 1 # n => x = nalus[i + 1] /\ x # <<>>,
                    i + 1 = n => x = Trimmed(nalus[i + 1])
             PROVE  Taking(nalus, n, i + 1) = IF x = <<>> THEN Taking(nalus, n, i) ELSE Append(Taking(nalus, n, i), x)
  BY Zenon DEF More
<1>1. nalus \in Seq(Bytes) /\ i # n /\ i \in 0..(Len(nalus) - 1)
  BY DEF Pieces, Bytes
<1>2. Taking(nalus, n, i) = SubSeq(nalus, 1, i)
  BY <1>1, Zenon DEF Taking
<1>3. CASE i + 1 # n
  <2>1. SubSeq(nalus, 1, i + 1) = Append(SubSeq(nalus, 1, i), nalus[i + 1])
    BY <1>1, LongerPrefix
  <2> QED
    BY <1>2, <1>3, <2>1, Zenon DEF Taking
<1>4. CASE i + 1 = n
  <2>1. nalus # <<>>
    <3>1. Len(nalus) # 0
      BY <1>4
    <3> QED
      BY <1>1, <3>1, EmptySeq
  <2>2. Last(nalus) = nalus[i + 1]
    BY <1>4, Zenon DEF Last
  <2>3. Front(nalus) = SubSeq(nalus, 1, i)
    <3>1. Len(nalus) - 1 = i
      BY <1>4
    <3> QED
      BY <3>1, Zenon DEF Front
  <2>4. Heads(nalus) = IF x = <<>> THEN Front(nalus) ELSE Append(Front(nalus), x)
    BY <1>4, <2>1, <2>2, Zenon DEF Heads
  <2> QED
    BY <1>2, <1>4, <2>3, <2>4, Zenon DEF Taking
<1> QED
  BY <1>3, <1>4

\* The units of a payload, as they were put in; of the last what is there.
LEMMA ExtractPayload ==
    ASSUME NEW lead \in Bytes, Free(lead), NEW nalus \in LastCut
    PROVE  ExtractNALUs(lead \o Payload(nalus)) = Heads(nalus)
<1> DEFINE s == lead \o Payload(nalus)
<1>1. s \in Bytes
  BY CutIs
<1>2. PICK c \in Nat, len \in Nat, n \in Nat :
         \E w \in [1..n -> Nat], e \in [0..n -> Nat] : CutOf(s, len, c, nalus, n, w, e)
  BY CutIs
<1>3. PICK w \in [1..n -> Nat], e \in [0..n -> Nat] : CutOf(s, len, c, nalus, n, w, e)
  BY <1>2
<1>4. PICK f : /\ f[0] = <<>> /\ \A i \in 1..Len(s) : f[i] = WithNALUAt(f[i - 1], s, i)
               /\ ExtractNALUs(s) = f[Len(s)]
  BY <1>1, ExtractIs
<1> HIDE DEF s
<1>5. len = Len(s) /\ n = Len(nalus) /\ nalus \in Pieces(Byte) /\ e[n] = len
  BY <1>3 DEF CutOf, LastCut
<1>12. Found(s, nalus, n, e)
  <2>1. CutInto(s, len, c, nalus, n, w, e)
    BY <1>1, <1>3, Zenon DEF CutInto
  <2> QED
    BY <2>1, NALUsFound, Zenon
<1>13. \A i \in 1..n : /\ i # n => NALUAt(s, e[i - 1] + 2) = nalus[i] /\ nalus[i] # <<>>
                       /\ i = n => NALUAt(s, e[i - 1] + 2) = Trimmed(nalus[i])
  BY <1>12 DEF Found
<1> DEFINE P == {j \in 0..len : \E i \in 0..n : Reached(e, n, j, i) /\ f[j] = Taking(nalus, n, i)}
<1>6. 0 \in P
  <2>1. ASSUME NEW m \in 1..n PROVE ~(m <= 0) /\ ~(e[m - 1] + 2 <= 0)
    <3>1. m - 1 \in 0..n
      OBVIOUS
    <3>2. e[m - 1] \in Nat
      BY <3>1
    <3> QED
      BY <3>2
  <2>2. Reached(e, n, 0, 0)
    BY <2>1 DEF Reached
  <2>3. Taking(nalus, n, 0) = <<>>
    <3>1. CASE n = 0
      <4>1. nalus = <<>>
        BY <1>5, <3>1, EmptySeq DEF Pieces
      <4> QED
        BY <3>1, <4>1, Zenon DEF Taking, Heads
    <3>2. CASE n # 0
      <4>1. SubSeq(nalus, 1, 0) = <<>>
        BY <1>5, SubSeqEmpty
      <4> QED
        BY <3>2, <4>1, Zenon DEF Taking
    <3> QED
      BY <3>1, <3>2
  <2>4. Reached(e, n, 0, 0) /\ f[0] = Taking(nalus, n, 0)
    BY <1>4, <2>2, <2>3, Zenon
  <2>5. 0 \in 0..n /\ 0 \in 0..len
    OBVIOUS
  <2> QED
    BY <2>4, <2>5, Zenon
<1>7. ASSUME NEW j \in 0..(len - 1), j \in P PROVE j + 1 \in P
  <2>1. PICK i \in 0..n : Reached(e, n, j, i) /\ f[j] = Taking(nalus, n, i)
    BY <1>7
  <2>2. j + 1 \in 1..Len(s) /\ (j + 1) - 1 = j /\ j + 1 \in 0..len
    BY <1>5
  <2>3. f[j + 1] = WithNALUAt(f[j], s, j + 1)
    BY <1>4, <2>2
  <2>4. \/ /\ CodeAt(s, j + 1) /\ i + 1 \in 1..n /\ j + 1 = e[i] + 2
           /\ Reached(e, n, j + 1, i + 1)
        \/ ~CodeAt(s, j + 1) /\ Reached(e, n, j + 1, i)
    BY <1>1, <1>3, <2>1, ReachedStep
  <2>5. CASE CodeAt(s, j + 1)
    <3>1. i + 1 \in 1..n /\ j + 1 = e[i] + 2 /\ Reached(e, n, j + 1, i + 1)
      BY <2>4, <2>5
    <3>2. (i + 1) - 1 = i /\ i \in 0..(n - 1) /\ i + 1 \in 0..n
      BY <3>1
    <3>3. PICK x : x = NALUAt(s, j + 1)
      OBVIOUS
    <3>6. /\ i + 1 # n => x = nalus[i + 1] /\ nalus[i + 1] # <<>>
          /\ i + 1 = n => x = Trimmed(nalus[i + 1])
      <4>1. /\ i + 1 # n => NALUAt(s, e[(i + 1) - 1] + 2) = nalus[i + 1] /\ nalus[i + 1] # <<>>
            /\ i + 1 = n => NALUAt(s, e[(i + 1) - 1] + 2) = Trimmed(nalus[i + 1])
        BY <1>13, <3>1, Zenon
      <4> QED
        BY <3>1, <3>2, <3>3, <4>1, Zenon
    <3>4. f[j + 1] = IF x = <<>> THEN f[j] ELSE Append(f[j], x)
      BY <2>3, <2>5, <3>3, Zenon DEF WithNALUAt
    <3>5. Taking(nalus, n, i + 1) = IF x = <<>> THEN Taking(nalus, n, i) ELSE Append(Taking(nalus, n, i), x)
      <4>1. More(nalus, n, i, x)
        BY <1>5, <3>2, <3>6, Zenon DEF More
      <4> QED
        BY <4>1, TakingMore, Zenon
    <3> QED
      BY <2>1, <2>2, <3>1, <3>2, <3>4, <3>5
  <2>6. CASE ~CodeAt(s, j + 1)
    <3>1. f[j + 1] = f[j]
      BY <2>3, <2>6 DEF WithNALUAt
    <3> QED
      BY <2>1, <2>2, <2>4, <2>6, <3>1
  <2> QED
    BY <2>5, <2>6
<1>8. len \in P
  <2> HIDE DEF P
  <2>1. \A j \in 0..len : j \in P
    BY <1>6, <1>7, Induction
  <2> QED
    BY <2>1
<1>9. PICK i \in 0..n : Reached(e, n, len, i) /\ f[len] = Taking(nalus, n, i)
  BY <1>8
<1>10. i = n
  <2>1. CASE n = 0
    BY <2>1
  <2>2. CASE n # 0
    <3>1. n \in 1..n /\ n - 1 \in 0..n
      BY <2>2
    <3>2. PICK el \in Nat, wl \in Nat : el = e[n - 1] /\ wl = w[n]
      BY <3>1
    <3>3. len = el + 4 + wl
      <4>1. e[n] = e[n - 1] + 4 + w[n]
        BY <1>3, <3>1 DEF CutOf
      <4> QED
        BY <1>5, <3>2, <4>1
    <3>4. n <= i <=> el + 2 <= len
      BY <1>9, <3>1, <3>2 DEF Reached
    <3> QED
      BY <3>3, <3>4
  <2> QED
    BY <2>1, <2>2
<1>11. f[len] = Heads(nalus)
  BY <1>9, <1>10, Zenon DEF Taking
<1> QED
  BY <1>4, <1>5, <1>11, Zenon DEF s

-----------------------------------------------------------------------------
(* Demux: the structures of a program stream *)

LEMMA StartCodeIs ==
    StartCode \in Bytes /\ Len(StartCode) = 3 /\ StartCode[1] = 0 /\ StartCode[2] = 0 /\ StartCode[3] = 1
<1>1. <<0, 0, 1>> \in Bytes
  BY SMT DEF Bytes, Byte
<1> QED
  BY <1>1 DEF StartCode

LEMMA OneByte ==
    ASSUME NEW b \in Byte
    PROVE  \E z \in Bytes : z = <<b>> /\ Len(z) = 1 /\ z[1] = b
<1>1. <<b>> \in Bytes
  BY SMT DEF Bytes
<1> QED
  BY <1>1

\* A start code and the code of the structure.
LEMMA CodeIs ==
    ASSUME NEW code \in Byte
    PROVE  \E z \in Bytes : /\ z = StartCode \o <<code>> /\ Len(z) = 4
                            /\ z[1] = 0 /\ z[2] = 0 /\ z[3] = 1 /\ z[4] = code
<1>1. PICK y \in Bytes : y = <<code>> /\ Len(y) = 1 /\ y[1] = code
  BY OneByte
<1> DEFINE z == StartCode \o y
<1>2. /\ z \in Bytes /\ Len(z) = Len(StartCode) + Len(y)
      /\ \A k \in 1..Len(StartCode) : z[k] = StartCode[k]
      /\ \A k \in 1..Len(y) : z[Len(StartCode) + k] = y[k]
  BY StartCodeIs, BytesJoined
<1> HIDE DEF z
<1>3. 1 \in 1..Len(StartCode) /\ 2 \in 1..Len(StartCode) /\ 3 \in 1..Len(StartCode) /\ 1 \in 1..Len(y)
  BY <1>1, StartCodeIs
<1>4. Len(StartCode) + 1 = 4 /\ Len(z) = 4
  BY <1>1, <1>2, StartCodeIs
<1>5. z[1] = 0 /\ z[2] = 0 /\ z[3] = 1
  BY <1>2, <1>3, StartCodeIs
<1>6. z[4] = code
  BY <1>1, <1>2, <1>3, <1>4
<1>7. z = StartCode \o <<code>>
  BY <1>1 DEF z
<1> QED
  BY <1>2, <1>4, <1>5, <1>6, <1>7, Zenon

\* A length and what has it.
LEMMA SizedIs ==
    ASSUME NEW s \in Bytes, NEW len \in Uint16, len = Len(s)
    PROVE  /\ Sized(s) \in Bytes /\ Len(Sized(s)) = 2 + len
           /\ 256 * Sized(s)[1] + Sized(s)[2] = len
           /\ \A k \in 1..len : Sized(s)[2 + k] = s[k]
<1>1. PICK h, l \in Byte : h = len \div 256 /\ l = len % 256 /\ 256 * h + l = len
  BY WordIs
<1>2. PICK y \in Bytes : y = <<h, l>> /\ Len(y) = 2 /\ y[1] = h /\ y[2] = l
  <2>1. <<h, l>> \in Bytes
    BY SMT DEF Bytes
  <2> QED
    BY <2>1
<1>3. /\ y \o s \in Bytes /\ Len(y \o s) = Len(y) + Len(s)
      /\ \A k \in 1..Len(y) : (y \o s)[k] = y[k]
      /\ \A k \in 1..Len(s) : (y \o s)[Len(y) + k] = s[k]
  BY BytesJoined
<1>4. Sized(s) = y \o s
  BY <1>1, <1>2, Zenon DEF Sized
<1>5. 1 \in 1..Len(y) /\ 2 \in 1..Len(y)
  BY <1>2
<1>6. Sized(s)[1] = h /\ Sized(s)[2] = l
  BY <1>2, <1>3, <1>4, <1>5
<1>7. len \in Nat
  BY DEF Uint16
<1> DEFINE x == Sized(s)
<1> HIDE DEF x
<1>8. x \in Bytes /\ Len(x) = 2 + len /\ \A k \in 1..len : x[2 + k] = s[k]
  BY <1>2, <1>3, <1>4, <1>7 DEF x
<1> QED
  BY <1>1, <1>6, <1>8 DEF x

\* A structure with its length.
Structure(x, code, s, len) ==
    /\ x = StartCode \o <<code>> \o Sized(s) /\ Len(x) = 6 + len
    /\ x[1] = 0 /\ x[2] = 0 /\ x[3] = 1 /\ x[4] = code /\ Word(x, 5) = len
    /\ \A k \in 1..len : x[6 + k] = s[k]

LEMMA StructureIs ==
    \A code \in Byte, s \in Bytes : \A len \in Uint16 :
        len = Len(s) => \E x \in Bytes : Structure(x, code, s, len)
<1> SUFFICES ASSUME NEW code \in Byte, NEW s \in Bytes, NEW len \in Uint16, len = Len(s)
             PROVE  \E x \in Bytes : Structure(x, code, s, len)
  OBVIOUS
<1>1. PICK z \in Bytes : /\ z = StartCode \o <<code>> /\ Len(z) = 4
                         /\ z[1] = 0 /\ z[2] = 0 /\ z[3] = 1 /\ z[4] = code
  BY CodeIs
<1>2. PICK y \in Bytes :
        /\ y = Sized(s) /\ Len(y) = 2 + len /\ 256 * y[1] + y[2] = len
        /\ \A k \in 1..len : y[2 + k] = s[k]
  BY SizedIs
<1>3. len \in Nat
  BY DEF Uint16
<1> DEFINE x == z \o y
<1>4. /\ x \in Bytes /\ Len(x) = Len(z) + Len(y)
      /\ \A k \in 1..Len(z) : x[k] = z[k]
      /\ \A k \in 1..Len(y) : x[Len(z) + k] = y[k]
  BY BytesJoined
<1>5. x = StartCode \o <<code>> \o Sized(s)
  BY <1>1, <1>2
<1> HIDE DEF x
<1>6. 1 \in 1..4 /\ 2 \in 1..4 /\ 3 \in 1..4 /\ 4 \in 1..4 /\ 1 \in 1..(2 + len) /\ 2 \in 1..(2 + len)
  BY <1>3
<1>7. x[1] = 0 /\ x[2] = 0 /\ x[3] = 1 /\ x[4] = code
  BY <1>1, <1>4, <1>6
<1>8. x[4 + 1] = y[1] /\ x[4 + 2] = y[2]
  BY <1>1, <1>2, <1>4, <1>6
<1>9. Word(x, 5) = len
  <2>1. x[5] = y[1] /\ x[5 + 1] = y[2]
    BY <1>8
  <2> QED
    BY <1>2, <2>1 DEF Word
<1>10. ASSUME NEW k \in 1..len PROVE x[6 + k] = s[k]
  <2>1. 2 + k \in 1..(2 + len) /\ 4 + (2 + k) = 6 + k
    BY <1>3
  <2>2. x[4 + (2 + k)] = y[2 + k]
    BY <1>1, <1>2, <1>4, <2>1
  <2> QED
    BY <1>2, <2>1, <2>2
<1>11. Len(x) = 6 + len
  BY <1>1, <1>2, <1>3, <1>4
<1> QED
  BY <1>4, <1>5, <1>7, <1>9, <1>10, <1>11, Zenon DEF Structure

\* The branches of parseOne.
LEMMA BranchIs ==
    ASSUME NEW s
    PROVE  /\ s[4] = 186 => ParseUnit(s) = ParsePackHeader(s)
           /\ s[4] \in {187, 188} => ParseUnit(s) = ParseHeader(s)
           /\ s[4] \in 189..191 => ParseUnit(s) = ParsePES(s, FALSE)
           /\ s[4] \in 224..239 => ParseUnit(s) = ParsePES(s, TRUE)
<1>1. ASSUME s[4] = 186 PROVE ParseUnit(s) = ParsePackHeader(s)
  <2>1. ~(s[4] \in {187, 188}) /\ ~(s[4] \in 189..191) /\ ~(s[4] \in 224..239)
    BY <1>1
  <2> QED
    BY <1>1, <2>1, Zenon DEF ParseUnit
<1>2. ASSUME s[4] \in {187, 188} PROVE ParseUnit(s) = ParseHeader(s)
  <2>1. ~(s[4] = 186) /\ ~(s[4] \in 189..191) /\ ~(s[4] \in 224..239)
    BY <1>2
  <2> QED
    BY <1>2, <2>1, Zenon DEF ParseUnit
<1>3. ASSUME s[4] \in 189..191 PROVE ParseUnit(s) = ParsePES(s, FALSE)
  <2>1. ~(s[4] = 186) /\ ~(s[4] \in {187, 188}) /\ ~(s[4] \in 224..239)
    BY <1>3
  <2> QED
    BY <1>3, <2>1, Zenon DEF ParseUnit
<1>4. ASSUME s[4] \in 224..239 PROVE ParseUnit(s) = ParsePES(s, TRUE)
  <2>1. ~(s[4] = 186) /\ ~(s[4] \in {187, 188}) /\ ~(s[4] \in 189..191)
    BY <1>4
  <2> QED
    BY <1>4, <2>1, Zenon DEF ParseUnit
<1> QED
  BY <1>1, <1>2, <1>3, <1>4, Zenon

\* What the demuxer does at the head of a buffer, of length n.
LEMMA ParsePack ==
    ASSUME NEW s, NEW n \in Nat, n = Len(s), s[4] = 186, n >= 5 => s[5] = 68
    PROVE  ParseUnit(s) = IF n < 14 THEN Wait ELSE Skip(14)
<1>1. ParseUnit(s) = IF n < 14 THEN Wait ELSE Skip(IF (s[5] \div 64) % 2 = 1 THEN 14 ELSE 12)
  BY BranchIs DEF ParsePackHeader
<1>2. CASE n < 14
  BY <1>1, <1>2, Zenon
<1>3. CASE ~(n < 14)
  <2>1. s[5] = 68
    BY <1>3
  <2>2. (68 \div 64) % 2 = 1
    BY SMT
  <2> QED
    BY <1>1, <1>3, <2>1, <2>2, Zenon
<1> QED
  BY <1>2, <1>3

LEMMA ParsePESIs ==
    ASSUME NEW s, NEW n \in Nat, n = Len(s), NEW len \in Nat, len > 2, n >= 6 => Word(s, 5) = len,
           NEW video \in BOOLEAN
    PROVE  ParsePES(s, video) =
             IF n < 6 + len THEN Wait
             ELSE IF 9 + s[9] >= 6 + len \/ ~video THEN Skip(6 + len)
             ELSE [consumed |-> 6 + len, nalus |-> ExtractNALUs(SubSeq(s, 9 + s[9] + 1, 6 + len))]
<1>1. CASE n < 9
  <2>1. n < 6 + len /\ Len(s) < 9
    BY <1>1
  <2> QED
    BY <2>1, Zenon DEF ParsePES
<1>2. CASE ~(n < 9)
  <2>1. Word(s, 5) = len /\ len > 0 /\ ~(Len(s) < 9)
    BY <1>2
  <2> DEFINE next == FirstCode(s, 9 + s[9] + 2, 0)
             total == IF Word(s, 5) > 0 THEN 6 + Word(s, 5) ELSE IF next = 0 THEN Len(s) ELSE next - 1
  <2>2. total = 6 + len
    BY <2>1, Zenon
  <2>3. ParsePES(s, video) =
          IF Len(s) < total THEN Wait
          ELSE IF 9 + s[9] >= total \/ ~video THEN Skip(total)
          ELSE [consumed |-> total, nalus |-> ExtractNALUs(SubSeq(s, 9 + s[9] + 1, total))]
    BY <2>1, Zenon DEF ParsePES
  <2> HIDE DEF total
  <2> QED
    BY <2>2, <2>3, Zenon
<1> QED
  BY <1>1, <1>2

LEMMA ParseOther ==
    ASSUME NEW s, NEW n \in Nat, n = Len(s), NEW len \in Nat, s[4] \in 187..191,
           s[4] > 188 => len > 2, n >= 6 => Word(s, 5) = len
    PROVE  ParseUnit(s) = IF n < 6 + len THEN Wait ELSE Skip(6 + len)
<1>1. CASE s[4] \in {187, 188}
  <2>1. ParseUnit(s) = ParseHeader(s)
    BY <1>1, BranchIs, Zenon
  <2>2. CASE n < 6
    <3>1. n < 6 + len
      BY <2>2
    <3> QED
      BY <2>1, <2>2, <3>1, Zenon DEF ParseHeader
  <2>3. CASE ~(n < 6)
    <3>1. Word(s, 5) = len
      BY <2>3
    <3> QED
      BY <2>1, <2>3, <3>1, Zenon DEF ParseHeader
  <2> QED
    BY <2>2, <2>3
<1>2. CASE ~(s[4] \in {187, 188})
  <2>1. s[4] \in 189..191 /\ len > 2
    BY <1>2
  <2>2. ParseUnit(s) = ParsePES(s, FALSE)
    BY <2>1, BranchIs, Zenon
  <2>3. ParsePES(s, FALSE) =
             IF n < 6 + len THEN Wait
             ELSE IF 9 + s[9] >= 6 + len \/ ~FALSE THEN Skip(6 + len)
             ELSE [consumed |-> 6 + len, nalus |-> ExtractNALUs(SubSeq(s, 9 + s[9] + 1, 6 + len))]
    BY <2>1, ParsePESIs
  <2> QED
    BY <2>2, <2>3, Zenon
<1> QED
  BY <1>1, <1>2

LEMMA ParseVideo ==
    ASSUME NEW s, NEW n \in Nat, n = Len(s), NEW len \in Nat, s[4] \in 224..239, len > 2,
           n >= 6 => Word(s, 5) = len
    PROVE  ParseUnit(s) =
             IF n < 6 + len THEN Wait
             ELSE IF 9 + s[9] >= 6 + len THEN Skip(6 + len)
             ELSE [consumed |-> 6 + len, nalus |-> ExtractNALUs(SubSeq(s, 9 + s[9] + 1, 6 + len))]
<1>1. ParseUnit(s) = ParsePES(s, TRUE)
  BY BranchIs, Zenon
<1>2. ParsePES(s, TRUE) =
             IF n < 6 + len THEN Wait
             ELSE IF 9 + s[9] >= 6 + len \/ ~TRUE THEN Skip(6 + len)
             ELSE [consumed |-> 6 + len, nalus |-> ExtractNALUs(SubSeq(s, 9 + s[9] + 1, 6 + len))]
  BY ParsePESIs
<1> QED
  BY <1>1, <1>2, Zenon

\* What a unit of the stream, of size bytes, does to the demuxer: it waits for
\* all of it, then drops it and delivers nalus.
Begins(s, n, E, size) == \A k \in 1..n : k <= size => s[k] = E[k]
Parsed(E, size, nalus) ==
    \A s \in Bytes : \A n \in Nat :
        n = Len(s) /\ n >= 4 /\ Begins(s, n, E, size)
          => ParseUnit(s) = IF n < size THEN Wait ELSE [consumed |-> size, nalus |-> nalus]
UnitOf(E, size, nalus) ==
    /\ E \in Bytes /\ size = Len(E) /\ size >= 6
    /\ E[1] = 0 /\ E[2] = 0 /\ E[3] = 1
    /\ Parsed(E, size, nalus)

LEMMA PackEncoded ==
    ASSUME NEW u, u.kind = "pack", NEW rest \in [1..9 -> Byte], rest = u.rest
    PROVE  \E size \in Nat : UnitOf(Encoded(u), size, <<>>)
<1>1. rest \in Bytes /\ Len(rest) = 9
  <2>1. rest \in Bytes
    <3>1. rest \in UNION {[1..n -> Byte] : n \in Nat}
      OBVIOUS
    <3> QED
      BY <3>1, SeqDef, Zenon DEF Bytes
  <2>2. DOMAIN rest = 1..9
    OBVIOUS
  <2> QED
    BY <2>1, <2>2, BytesAre
<1>2. PICK y \in Bytes : y = <<186, 68>> /\ Len(y) = 2 /\ y[1] = 186 /\ y[2] = 68
  <2>1. <<186, 68>> \in Bytes
    BY SMT DEF Bytes, Byte
  <2> QED
    BY <2>1
<1> DEFINE E == StartCode \o y \o rest
<1>3. /\ E \in Bytes /\ Len(E) = Len(StartCode) + Len(y) + Len(rest)
      /\ \A k \in 1..Len(StartCode) : E[k] = StartCode[k]
      /\ \A k \in 1..Len(y) : E[Len(StartCode) + k] = y[k]
  <2>1. rest \in Bytes /\ StartCode \in Bytes
    BY <1>1, StartCodeIs
  <2>2. E \in Bytes
    BY <2>1, Between, Zenon
  <2>3. Len(E) = Len(StartCode) + Len(y) + Len(rest)
    BY <2>1, Between, Zenon
  <2>4. \A k \in 1..Len(StartCode) : E[k] = StartCode[k]
    BY <2>1, Between, Zenon
  <2>5. \A k \in 1..Len(y) : E[Len(StartCode) + k] = y[k]
    BY <2>1, Between, Zenon
  <2> QED
    BY <2>2, <2>3, <2>4, <2>5
<1>4. E = Encoded(u)
  BY <1>2, Zenon DEF Encoded
<1> HIDE DEF E
<1>5. Len(E) = 14
  BY <1>1, <1>2, <1>3, StartCodeIs
<1>6. E[1] = 0 /\ E[2] = 0 /\ E[3] = 1
  <2>1. 1 \in 1..3 /\ 2 \in 1..3 /\ 3 \in 1..3
    OBVIOUS
  <2> QED
    BY <2>1, <1>3, StartCodeIs
<1>7. E[4] = 186 /\ E[5] = 68
  <2>1. 1 \in 1..2 /\ 2 \in 1..2 /\ 3 + 1 = 4 /\ 3 + 2 = 5
    OBVIOUS
  <2> QED
    BY <2>1, <1>2, <1>3, StartCodeIs
<1>8. ASSUME NEW s \in Bytes, NEW n \in Nat, n = Len(s), n >= 4, Begins(s, n, E, 14)
      PROVE  ParseUnit(s) = IF n < 14 THEN Wait ELSE [consumed |-> 14, nalus |-> <<>>]
  <2>1. 4 \in 1..n /\ (n >= 5 => 5 \in 1..n)
    BY <1>8
  <2>2. s[4] = 186 /\ (n >= 5 => s[5] = 68)
    BY <1>7, <1>8, <2>1 DEF Begins
  <2>3. ParseUnit(s) = IF n < 14 THEN Wait ELSE Skip(14)
    BY <1>8, <2>2, ParsePack
  <2> QED
    BY <2>3, Zenon DEF Skip
<1>9. Parsed(E, 14, <<>>)
  BY <1>8, Zenon DEF Parsed
<1> QED
  BY <1>3, <1>4, <1>5, <1>6, <1>9 DEF UnitOf

\* What a structure with its length has in common with a buffer it is at the
\* head of.
LEMMA StructureSeen ==
    ASSUME NEW E, NEW len \in Nat, NEW s, NEW n \in Nat, n >= 4, Word(E, 5) = len,
           Begins(s, n, E, 6 + len)
    PROVE  s[4] = E[4] /\ (n >= 6 => Word(s, 5) = len)
<1>1. 4 \in 1..n /\ 4 <= 6 + len
  OBVIOUS
<1>2. s[4] = E[4]
  BY <1>1 DEF Begins
<1>3. ASSUME n >= 6 PROVE Word(s, 5) = len
  <2>1. 5 \in 1..n /\ 6 \in 1..n /\ 5 + 1 = 6 /\ 5 <= 6 + len /\ 6 <= 6 + len
    BY <1>3
  <2>2. s[5] = E[5] /\ s[5 + 1] = E[5 + 1]
    BY <2>1 DEF Begins
  <2> QED
    BY <2>2, Zenon DEF Word
<1> QED
  BY <1>2, <1>3

LEMMA OtherEncoded ==
    ASSUME NEW u, u.kind = "other", NEW body \in Bytes, body = u.body,
           NEW code \in 187..191, code = u.code, NEW len \in Uint16, len = Len(body), code > 188 => len > 2
    PROVE  \E size \in Nat : UnitOf(Encoded(u), size, <<>>)
<1>1. code \in Byte /\ len \in Nat
  BY DEF Byte, Uint16
<1>2. PICK E \in Bytes :
        /\ E = StartCode \o <<code>> \o Sized(body) /\ Len(E) = 6 + len
        /\ E[1] = 0 /\ E[2] = 0 /\ E[3] = 1 /\ E[4] = code /\ Word(E, 5) = len
  <2>1. PICK E \in Bytes : Structure(E, code, body, len)
    BY <1>1, StructureIs, Zenon
  <2> QED
    BY <2>1, Zenon DEF Structure
<1>3. E = Encoded(u)
  BY <1>2, Zenon DEF Encoded
<1>4. ASSUME NEW s \in Bytes, NEW n \in Nat, n = Len(s), n >= 4,
             Begins(s, n, E, 6 + len)
      PROVE  ParseUnit(s) = IF n < 6 + len THEN Wait ELSE [consumed |-> 6 + len, nalus |-> <<>>]
  <2>1. s[4] = code /\ (n >= 6 => Word(s, 5) = len)
    BY <1>1, <1>2, <1>4, StructureSeen
  <2>2. s[4] \in 187..191 /\ (s[4] > 188 => len > 2)
    BY <2>1
  <2>3. ParseUnit(s) = IF n < 6 + len THEN Wait ELSE Skip(6 + len)
    BY <1>1, <1>4, <2>1, <2>2, ParseOther
  <2> QED
    BY <2>3, Zenon DEF Skip
<1>5. Parsed(E, 6 + len, <<>>)
  BY <1>4, Zenon DEF Parsed
<1>6. 6 + len \in Nat /\ 6 + len >= 6
  BY <1>1
<1> QED
  BY <1>2, <1>3, <1>5, <1>6 DEF UnitOf

LEMMA ExtractNothing == ExtractNALUs(<<>>) = <<>>
<1>1. PICK f : f[0] = <<>> /\ ExtractNALUs(<<>>) = f[Len(<<>>)]
  BY ExtractIs, BytesAre
<1> QED
  BY <1>1, BytesAre

\* The body of a video PES: an optional header of o bytes and a payload of q.
VideoBody(body, o, opt, q, pl) ==
    /\ body = <<128, 0, o>> \o opt \o pl /\ Len(body) = 3 + o + q /\ body[3] = o
    /\ \A k \in 1..q : body[3 + o + k] = pl[k]

LEMMA VideoBodyIs ==
    ASSUME NEW opt \in Bytes, NEW pl \in Bytes, NEW o \in Byte, o = Len(opt), NEW q \in Nat, q = Len(pl)
    PROVE  \E body \in Bytes : VideoBody(body, o, opt, q, pl)
<1>1. PICK y \in Bytes : y = <<128, 0, o>> /\ Len(y) = 3 /\ y[3] = o
  <2>1. 128 \in Byte /\ 0 \in Byte
    BY SMT DEF Byte
  <2>2. <<128, 0, o>> \in Seq(Byte)
    BY <2>1, SMT
  <2>3. <<128, 0, o>> \in Bytes
    BY <2>2, Zenon DEF Bytes
  <2> QED
    BY <2>3
<1> DEFINE body == y \o opt \o pl
<1>2. body \in Bytes
  BY Between, Zenon
<1>3. Len(body) = Len(y) + Len(opt) + Len(pl)
  BY Between, Zenon
<1>4. \A k \in 1..Len(y) : body[k] = y[k]
  BY Between, Zenon
<1>5. \A k \in 1..Len(pl) : body[Len(y) + Len(opt) + k] = pl[k]
  BY Between, Zenon
<1>6. body = <<128, 0, o>> \o opt \o pl
  BY <1>1, Zenon
<1> HIDE DEF body
<1>7. Len(body) = 3 + o + q
  BY <1>1, <1>3
<1>8. body[3] = o
  <2>1. 3 \in 1..Len(y)
    BY <1>1
  <2> QED
    BY <2>1, <1>1, <1>4
<1>9. \A k \in 1..q : body[3 + o + k] = pl[k]
  BY <1>1, <1>5
<1> QED
  BY <1>2, <1>6, <1>7, <1>8, <1>9, Zenon DEF VideoBody

\* Such a PES, and what the demuxer sees of it.
VideoPES(E, code, body, opt, o, pl, q, len) ==
    /\ VideoBody(body, o, opt, q, pl) /\ q = Len(pl) /\ len = 3 + o + q
    /\ Structure(E, code, body, len)

Seen(E, o, pl, len) ==
    \A s \in Bytes : \A n \in Nat :
        n = Len(s) /\ n >= 6 + len /\ Begins(s, n, E, 6 + len)
          => s[9] = o /\ SubSeq(s, 9 + o + 1, 6 + len) = pl

LEMMA VideoSeen ==
    ASSUME NEW E, NEW code, NEW body, NEW opt, NEW o \in Nat, NEW pl \in Bytes, NEW q \in Nat, NEW len \in Nat,
           VideoPES(E, code, body, opt, o, pl, q, len)
    PROVE  Seen(E, o, pl, len)
<1> SUFFICES ASSUME NEW s \in Bytes, NEW n \in Nat, n = Len(s), n >= 6 + len, Begins(s, n, E, 6 + len)
             PROVE  s[9] = o /\ SubSeq(s, 9 + o + 1, 6 + len) = pl
  BY DEF Seen
<1>1. VideoBody(body, o, opt, q, pl) /\ q = Len(pl) /\ len = 3 + o + q /\ Structure(E, code, body, len)
  BY DEF VideoPES
<1>2. ASSUME NEW k \in 1..len PROVE s[6 + k] = body[k]
  <2>1. 6 + k \in 1..n /\ 6 + k <= 6 + len
    OBVIOUS
  <2>2. s[6 + k] = E[6 + k]
    BY <2>1 DEF Begins
  <2>3. E[6 + k] = body[k]
    BY <1>1 DEF Structure
  <2> QED
    BY <2>2, <2>3
<1>3. s[9] = o
  <2>1. 3 \in 1..len /\ 6 + 3 = 9
    BY <1>1
  <2>2. s[6 + 3] = body[3]
    BY <1>2, <2>1
  <2> QED
    BY <1>1, <2>1, <2>2 DEF VideoBody
<1>4. ASSUME NEW k \in 1..q PROVE s[(9 + o) + k] = pl[k]
  <2>1. 3 + o + k \in 1..len /\ 6 + (3 + o + k) = (9 + o) + k
    BY <1>1
  <2>2. s[6 + (3 + o + k)] = body[3 + o + k]
    BY <1>2, <2>1
  <2>3. body[3 + o + k] = pl[k]
    BY <1>1 DEF VideoBody
  <2> QED
    BY <2>1, <2>2, <2>3
<1>5. 9 + o \in Nat /\ (9 + o) + Len(pl) <= Len(s) /\ (9 + o) + Len(pl) = 6 + len
  BY <1>1
<1>6. \A k \in 1..Len(pl) : s[(9 + o) + k] = pl[k]
  <2>1. 1..Len(pl) = 1..q
    BY <1>1
  <2> QED
    BY <1>4, <2>1, Zenon
<1>7. SubSeq(s, (9 + o) + 1, (9 + o) + Len(pl)) = pl
  BY <1>5, <1>6, BytesSliced
<1> QED
  BY <1>3, <1>5, <1>7

\* A video unit, with lengths that fit.
VideoUnit(u, code, opt, o, lead, nalus, q) ==
    /\ u.kind = "video" /\ code = u.code /\ opt = u.opt /\ o = Len(opt)
    /\ lead = u.lead /\ nalus = u.nalus /\ q = Len(lead \o Payload(nalus)) /\ o \in Byte /\ o + 3 + q \in Uint16

LEMMA VideoEncoded ==
    ASSUME NEW u, NEW code \in 224..239, NEW opt \in Bytes, NEW o \in Nat,
           NEW lead \in Bytes, Free(lead), NEW nalus \in LastCut, NEW q \in Nat,
           VideoUnit(u, code, opt, o, lead, nalus, q), NEW len \in Nat, len = 3 + o + q
    PROVE  \E size \in Nat : UnitOf(Encoded(u), size, Heads(nalus))
<1>1. PICK pl \in Bytes : pl = lead \o Payload(nalus)
  BY CutIs
<1>12. PICK given : given = Heads(nalus)
  OBVIOUS
<1>2. PICK body \in Bytes : VideoBody(body, o, opt, q, pl)
  <2>1. o = Len(opt) /\ q = Len(pl) /\ o \in Byte
    BY <1>1, Zenon DEF VideoUnit
  <2> QED
    BY <2>1, VideoBodyIs
<1>3. code \in Byte
  BY DEF Byte
<1>4. len = Len(body)
  BY <1>2, Zenon DEF VideoBody
<1>5. PICK E \in Bytes : Structure(E, code, body, len)
  <2>1. Len(body) \in Uint16
    <3>1. o + 3 + q = 3 + o + q
      OBVIOUS
    <3>2. Len(body) = 3 + o + q
      BY <1>2, Zenon DEF VideoBody
    <3> QED
      BY <3>1, <3>2, Zenon DEF VideoUnit
  <2>2. \E E \in Bytes : Structure(E, code, body, Len(body))
    BY <1>3, <2>1, StructureIs, Zenon
  <2> QED
    BY <1>4, <2>2, Zenon
<1>6. E = Encoded(u)
  <2>1. E = StartCode \o <<code>> \o Sized(<<128, 0, o>> \o opt \o pl)
    BY <1>2, <1>5, Zenon DEF VideoBody, Structure
  <2>2. Encoded(u) = StartCode \o <<u.code>> \o Sized(<<128, 0, Len(u.opt)>> \o u.opt \o (u.lead \o Payload(u.nalus)))
    BY Zenon DEF Encoded, VideoUnit, Body
  <2> QED
    BY <1>1, <2>1, <2>2, Zenon DEF VideoUnit
<1>7. /\ Len(E) = 6 + len /\ E[1] = 0 /\ E[2] = 0 /\ E[3] = 1 /\ E[4] = code /\ Word(E, 5) = len
  BY <1>5 DEF Structure
<1>11. Seen(E, o, pl, len)
  <2>1. VideoPES(E, code, body, opt, o, pl, q, len)
    BY <1>1, <1>2, <1>5, Zenon DEF VideoPES, VideoUnit
  <2> QED
    BY <2>1, VideoSeen
<1>8. ASSUME NEW s \in Bytes, NEW n \in Nat, n = Len(s), n >= 4, Begins(s, n, E, 6 + len)
      PROVE  ParseUnit(s) = IF n < 6 + len THEN Wait ELSE [consumed |-> 6 + len, nalus |-> given]
  <2>1. s[4] = code /\ (n >= 6 => Word(s, 5) = len)
    BY <1>3, <1>7, <1>8, StructureSeen
  <2>2. s[4] \in 224..239 /\ len > 2
    BY <1>3, <2>1
  <2>3. ParseUnit(s) =
             IF n < 6 + len THEN Wait
             ELSE IF 9 + s[9] >= 6 + len THEN Skip(6 + len)
             ELSE [consumed |-> 6 + len, nalus |-> ExtractNALUs(SubSeq(s, 9 + s[9] + 1, 6 + len))]
    BY <1>3, <1>8, <2>1, <2>2, ParseVideo
  <2>4. CASE n < 6 + len
    BY <2>3, <2>4, Zenon
  <2>5. CASE ~(n < 6 + len)
    <3>1. s[9] = o /\ SubSeq(s, 9 + o + 1, 6 + len) = pl
      <4>1. n >= 6 + len
        BY <1>3, <2>5
      <4> QED
        BY <1>8, <1>11, <4>1, Zenon DEF Seen
    <3>2. CASE q = 0
      <4>1. 9 + o >= 6 + len
        BY <1>3, <3>2
      <4>2. pl = <<>>
        BY <1>1, <3>2, BytesAre, Zenon DEF VideoUnit
      <4>3. given = <<>>
        <5>1. ExtractNALUs(pl) = Heads(nalus)
          BY <1>1, ExtractPayload
        <5> QED
          BY <1>12, <4>2, <5>1, ExtractNothing, Zenon
      <4> QED
        BY <2>3, <2>5, <3>1, <4>1, <4>3, Zenon DEF Skip
    <3>3. CASE q # 0
      <4>1. ~(9 + o >= 6 + len)
        BY <1>3, <3>3
      <4>2. ExtractNALUs(pl) = given
        BY <1>1, <1>12, ExtractPayload
      <4> QED
        BY <2>3, <2>5, <3>1, <4>1, <4>2, Zenon
    <3> QED
      BY <3>2, <3>3
  <2> QED
    BY <2>4, <2>5
<1>9. Parsed(E, 6 + len, given)
  BY <1>8, Zenon DEF Parsed
<1>10. 6 + len \in Nat /\ 6 + len >= 6
  BY <1>3
<1> QED
  BY <1>6, <1>7, <1>9, <1>10, <1>12 DEF UnitOf

\* A video PES without a length, of any payload.
LEMMA OpenEncoded ==
    ASSUME NEW u, u.kind = "open", NEW code \in Byte, code = u.code,
           NEW opt \in Bytes, opt = u.opt, NEW load \in Bytes, load = u.load, NEW o \in Byte, o = Len(opt)
    PROVE  Encoded(u) \in Bytes
<1>1. PICK z \in Bytes : z = StartCode \o <<code>>
  BY CodeIs
<1>2. PICK body \in Bytes : body = <<128, 0, o>> \o opt \o load
  <2>1. PICK q \in Nat : q = Len(load)
    BY BytesAre
  <2>2. PICK body \in Bytes : VideoBody(body, o, opt, q, load)
    BY <2>1, VideoBodyIs
  <2> QED
    BY <2>2, Zenon DEF VideoBody
<1>3. PICK y \in Bytes : y = <<0, 0>>
  <2>1. <<0, 0>> \in Bytes
    BY SMT DEF Bytes, Byte
  <2> QED
    BY <2>1
<1>4. z \o (y \o body) \in Bytes
  BY BytesJoined
<1>5. Encoded(u) = z \o (y \o body)
  BY <1>1, <1>2, <1>3, Zenon DEF Encoded, Body
<1> QED
  BY <1>4, <1>5

\* The units that have a length, and the NAL units such a one holds.
Measured == {u \in Units : u.kind # "open"}
Delivers(u) == IF u.kind = "video" THEN Heads(u.nalus) ELSE <<>>

LEMMA UnitsEncoded ==
    ASSUME NEW u \in Measured
    PROVE  Delivers(u) \in Pieces(Byte) /\ \E size \in Nat : UnitOf(Encoded(u), size, Delivers(u))
<1>1. CASE u.kind = "pack" /\ u.rest \in [1..9 -> Byte]
  <2>1. PICK rest \in [1..9 -> Byte] : rest = u.rest
    BY <1>1
  <2>2. \E size \in Nat : UnitOf(Encoded(u), size, <<>>)
    BY <1>1, <2>1, PackEncoded
  <2>3. Delivers(u) = <<>>
    BY <1>1 DEF Delivers
  <2> QED
    BY <2>2, <2>3, EmptySeq DEF Pieces
<1>2. CASE /\ u.kind = "other" /\ u.body \in Seq(Byte) /\ Len(u.body) \in Uint16
           /\ u.code \in 187..191 /\ (u.code > 188 => Len(u.body) > 2)
  <2>1. PICK body \in Bytes : body = u.body
    BY <1>2 DEF Bytes
  <2>2. PICK code \in 187..191 : code = u.code
    BY <1>2
  <2>3. PICK len \in Uint16 : len = Len(body)
    BY <1>2, <2>1
  <2>4. code > 188 => len > 2
    BY <1>2, <2>1, <2>2, <2>3
  <2>5. \E size \in Nat : UnitOf(Encoded(u), size, <<>>)
    BY <1>2, <2>1, <2>2, <2>3, <2>4, OtherEncoded
  <2>6. Delivers(u) = <<>>
    BY <1>2 DEF Delivers
  <2> QED
    BY <2>5, <2>6, EmptySeq DEF Pieces
<1>3. CASE /\ u.kind = "video" /\ u.code \in 224..239
           /\ u.opt \in Seq(Byte) /\ Len(u.opt) < 256
           /\ u.lead \in Seq(Byte) /\ Free(u.lead)
           /\ u.nalus \in Seq(Seq(Byte)) /\ \A i \in DOMAIN u.nalus : Free(u.nalus[i])
           /\ \A i \in DOMAIN u.nalus : i = Len(u.nalus) \/ Plain(u.nalus[i])
           /\ Len(u.opt) + 3 + Len(u.lead \o Payload(u.nalus)) \in Uint16
  <2>1. PICK opt \in Bytes : opt = u.opt
    BY <1>3 DEF Bytes
  <2>2. PICK code \in 224..239 : code = u.code
    BY <1>3
  <2>3. PICK o \in Nat : o = Len(opt)
    BY BytesAre
  <2>4. PICK nalus \in Pieces(Byte) :
          /\ nalus = u.nalus
          /\ \A i \in DOMAIN nalus : Free(nalus[i]) /\ (i = Len(nalus) \/ Plain(nalus[i]))
    BY <1>3, Zenon DEF Pieces
  <2>5. nalus \in LastCut
    BY <2>4, LenProperties DEF LastCut, Pieces
  <2>12. PICK lead \in Bytes : lead = u.lead /\ Free(lead)
    BY <1>3, Zenon DEF Bytes
  <2>6. PICK q \in Nat : q = Len(lead \o Payload(nalus))
    <3>1. lead \o Payload(nalus) \in Bytes
      BY <2>5, <2>12, CutIs
    <3> QED
      BY <3>1, BytesAre
  <2>7. PICK len \in Nat : len = 3 + o + q
    OBVIOUS
  <2>10. o \in Byte
    <3>1. o < 256
      BY <1>3, <2>1, <2>3, Zenon
    <3> QED
      BY <3>1, SMT DEF Byte
  <2>11. VideoUnit(u, code, opt, o, lead, nalus, q)
    BY <1>3, <2>1, <2>2, <2>3, <2>4, <2>6, <2>10, <2>12, Zenon DEF VideoUnit
  <2>8. \E size \in Nat : UnitOf(Encoded(u), size, Heads(nalus))
    BY <2>5, <2>7, <2>11, <2>12, VideoEncoded
  <2>9. Delivers(u) = Heads(nalus)
    BY <1>3, <2>4, Zenon DEF Delivers
  <2> QED
    BY <2>4, <2>8, <2>9, HeadsAre
<1>5. u \in Units /\ u.kind # "open"
  BY DEF Measured
<1>4. \/ u.kind = "pack" /\ u.rest \in [1..9 -> Byte]
      \/ /\ u.kind = "other" /\ u.body \in Seq(Byte) /\ Len(u.body) \in Uint16
         /\ u.code \in 187..191 /\ (u.code > 188 => Len(u.body) > 2)
      \/ /\ u.kind = "video" /\ u.code \in 224..239
         /\ u.opt \in Seq(Byte) /\ Len(u.opt) < 256
         /\ u.lead \in Seq(Byte) /\ Free(u.lead)
         /\ u.nalus \in Seq(Seq(Byte)) /\ \A i \in DOMAIN u.nalus : Free(u.nalus[i])
         /\ \A i \in DOMAIN u.nalus : i = Len(u.nalus) \/ Plain(u.nalus[i])
         /\ Len(u.opt) + 3 + Len(u.lead \o Payload(u.nalus)) \in Uint16
  BY <1>5, DevicesSendPS, Zenon DEF Byte
<1> QED
  BY <1>1, <1>2, <1>3, <1>4, Zenon

\* Whatever is sent is bytes.
LEMMA AllEncoded ==
    ASSUME NEW u \in Units
    PROVE  Encoded(u) \in Bytes
<1>1. CASE u.kind # "open"
  <2>1. u \in Measured
    BY <1>1 DEF Measured
  <2> QED
    BY <2>1, UnitsEncoded DEF UnitOf
<1>2. CASE u.kind = "open"
  <2>1. /\ u.code \in 224..239
        /\ u.opt \in Seq(Byte) /\ Len(u.opt) < 256 /\ u.load \in Seq(Byte)
    BY <1>2, DevicesSendPS, Zenon DEF Byte
  <2>2. PICK opt \in Bytes : opt = u.opt
    BY <2>1 DEF Bytes
  <2>3. PICK load \in Bytes : load = u.load
    BY <2>1 DEF Bytes
  <2>4. PICK code \in Byte : code = u.code
    BY <2>1, SMT DEF Byte
  <2>5. PICK o \in Nat : o = Len(opt)
    BY BytesAre
  <2>6. o < 256
    BY <2>1, <2>2, <2>5, Zenon
  <2>7. o \in Byte
    BY <2>6, SMT DEF Byte
  <2> QED
    BY <1>2, <2>2, <2>3, <2>4, <2>5, <2>7, OpenEncoded
<1> QED
  BY <1>1, <1>2

-----------------------------------------------------------------------------
(* Slices of sequences *)

\* What follows a slice, and what is left of it.
LEMMA SlicesJoin ==
    ASSUME NEW S, NEW s \in Seq(S)
    PROVE  \A a, b, c \in Nat :
              a <= b /\ b <= c /\ c <= Len(s)
                => SubSeq(s, a + 1, b) \o SubSeq(s, b + 1, c) = SubSeq(s, a + 1, c)
<1> SUFFICES ASSUME NEW a \in Nat, NEW b \in Nat, NEW c \in Nat, a <= b, b <= c, c <= Len(s)
             PROVE  SubSeq(s, a + 1, b) \o SubSeq(s, b + 1, c) = SubSeq(s, a + 1, c)
  OBVIOUS
<1>0. Len(s) \in Nat
  BY LenProperties
<1>1. PICK x \in Seq(S) : x = SubSeq(s, a + 1, b) /\ Len(x) = b - a /\ \A k \in 1..(b - a) : x[k] = s[a + k]
  <2>1. a <= b /\ b <= Len(s)
    BY <1>0
  <2>2. \E x \in Seq(S) : IsSlice(x, s, a, b)
    BY <2>1, SliceIs
  <2> QED
    BY <2>2, Zenon DEF IsSlice
<1>2. PICK y \in Seq(S) : y = SubSeq(s, b + 1, c) /\ Len(y) = c - b /\ \A k \in 1..(c - b) : y[k] = s[b + k]
  <2>1. \E y \in Seq(S) : IsSlice(y, s, b, c)
    BY SliceIs
  <2> QED
    BY <2>1, Zenon DEF IsSlice
<1> DEFINE z == x \o y
<1>3. /\ z \in Seq(S) /\ Len(z) = Len(x) + Len(y) /\ \A k \in 1..Len(x) : z[k] = x[k]
      /\ \A k \in 1..Len(y) : z[Len(x) + k] = y[k]
  BY Joined
<1>4. z = SubSeq(s, a + 1, b) \o SubSeq(s, b + 1, c)
  BY <1>1, <1>2
<1> HIDE DEF z
<1>5. Len(z) = c - a
  BY <1>1, <1>2, <1>3
<1>6. ASSUME NEW k \in 1..Len(z) PROVE s[a + k] = z[k]
  <2>1. CASE k <= b - a
    <3>1. k \in 1..(b - a)
      BY <1>5, <2>1
    <3> QED
      BY <1>1, <1>3, <3>1
  <2>2. CASE ~(k <= b - a)
    <3>1. PICK j \in 1..(c - b) : k = (b - a) + j
      <4>1. k - (b - a) \in 1..(c - b) /\ k = (b - a) + (k - (b - a))
        BY <1>5, <2>2
      <4> QED
        BY <4>1
    <3>2. z[(b - a) + j] = y[j] /\ y[j] = s[b + j]
      BY <1>1, <1>2, <1>3
    <3>3. b + j = a + k
      BY <3>1
    <3> QED
      BY <3>1, <3>2, <3>3
  <2> QED
    BY <2>1, <2>2
<1>7. a + Len(z) <= Len(s) /\ a + Len(z) = c
  BY <1>0, <1>5
<1>8. SubSeq(s, a + 1, a + Len(z)) = z
  BY <1>3, <1>6, <1>7, Sliced
<1> QED
  BY <1>4, <1>7, <1>8

LEMMA SliceDropped ==
    ASSUME NEW S, NEW s \in Seq(S), NEW a \in Nat, NEW b \in Nat, NEW d \in Nat,
           a + d <= b, b <= Len(s)
    PROVE  Drop(SubSeq(s, a + 1, b), d) = SubSeq(s, (a + d) + 1, b)
<1>0. Len(s) \in Nat /\ a <= b /\ a + d \in Nat
  BY LenProperties
<1>1. PICK x \in Seq(S) : x = SubSeq(s, a + 1, b) /\ Len(x) = b - a /\ \A k \in 1..(b - a) : x[k] = s[a + k]
  <2>1. a <= b /\ b <= Len(s)
    BY <1>0
  <2>2. \E x \in Seq(S) : IsSlice(x, s, a, b)
    BY <2>1, SliceIs
  <2> QED
    BY <2>2, Zenon DEF IsSlice
<1>2. PICK y \in Seq(S) : /\ y = SubSeq(s, (a + d) + 1, b) /\ Len(y) = b - (a + d)
                          /\ \A k \in 1..(b - (a + d)) : y[k] = s[(a + d) + k]
  <2>1. \E y \in Seq(S) : IsSlice(y, s, a + d, b)
    BY <1>0, SliceIs
  <2> QED
    BY <2>1, Zenon DEF IsSlice
<1>3. ASSUME NEW k \in 1..Len(y) PROVE x[d + k] = y[k]
  <2>1. d + k \in 1..(b - a) /\ a + (d + k) = (a + d) + k /\ k \in 1..(b - (a + d))
    BY <1>2
  <2> QED
    BY <1>1, <1>2, <2>1
<1>4. d + Len(y) <= Len(x) /\ d + Len(y) = Len(x)
  <2>1. Len(x) = b - a /\ Len(y) = b - (a + d)
    BY <1>1, <1>2, Zenon
  <2>2. d + (b - (a + d)) = b - a /\ b - a \in Nat
    BY SMT
  <2> QED
    BY <2>1, <2>2
<1>5. SubSeq(x, d + 1, d + Len(y)) = y
  BY <1>3, <1>4, Sliced
<1> QED
  BY <1>1, <1>2, <1>4, <1>5, Zenon DEF Drop

\* A buffer with a start code at its head is left as it is.
LEMMA AlignedIs ==
    ASSUME NEW s \in Bytes, NEW n \in Nat, n = Len(s), n >= 4, s[1] = 0, s[2] = 0, s[3] = 1
    PROVE  Aligned(s) = s
<1> DEFINE at == {k \in 1..(n - 2 - 1) : CodeAt(s, k)}
<1>1. CodeAt(s, 1)
  <2>1. 1 + 2 <= n /\ 1 + 1 = 2 /\ 1 + 2 = 3
    OBVIOUS
  <2> QED
    BY <2>1, Zenon DEF CodeAt
<1>2. 1 \in at /\ at \in SUBSET Nat
  BY <1>1
<1>3. \A k \in at : k >= 1
  OBVIOUS
<1> HIDE DEF at
<1>4. at # {} /\ Min(at) = 1
  <2>1. at # {}
    BY <1>2
  <2>2. Min(at) \in at /\ Min(at) <= 1
    BY <1>2, <2>1, MinIs
  <2>3. Min(at) \in Nat /\ Min(at) >= 1
    BY <1>2, <1>3, <2>2
  <2> QED
    BY <2>1, <2>2, <2>3
<1>5. FirstCode(s, 1, 1) = 1
  <2>1. FirstCode(s, 1, 1) = IF at = {} THEN 0 ELSE Min(at)
    BY Zenon DEF FirstCode, at
  <2> QED
    BY <1>4, <2>1, Zenon
<1>6. Aligned(s) = Drop(s, 1 - 1)
  <2>1. ~(1 = 0)
    OBVIOUS
  <2> QED
    BY <1>5, <2>1, Zenon DEF Aligned
<1>7. SubSeq(s, 1, Len(s)) = s
  BY SubSeqFull DEF Bytes
<1>8. (1 - 1) + 1 = 1
  OBVIOUS
<1> QED
  BY <1>6, <1>7, <1>8, Zenon DEF Drop

\* Where the units of a stream s end in it, and where what they deliver ends in
\* the units t that were sent.
LaidOut(n, us, s, w, e, t, v, f) ==
    /\ us \in [1..n -> Measured] /\ s \in Bytes /\ t \in Pieces(Byte)
    /\ Laid(s, n, [i \in 1..n |-> Encoded(us[i])], w, e)
    /\ Laid(t, n, [i \in 1..n |-> Delivers(us[i])], v, f)

LEMMA LaidOutIs ==
    ASSUME NEW n \in Nat, NEW us \in [1..n -> Measured]
    PROVE  \E w, e, v, f :
              LaidOut(n, us, FlattenSeq([i \in 1..n |-> Encoded(us[i])]), w, e,
                      FlattenSeq([i \in 1..n |-> Delivers(us[i])]), v, f)
<1> DEFINE parts == [i \in 1..n |-> Encoded(us[i])]
           gains == [i \in 1..n |-> Delivers(us[i])]
<1>1. parts \in Pieces(Byte) /\ Len(parts) = n
  <2>1. \A i \in 1..n : parts[i] \in Seq(Byte)
    BY UnitsEncoded DEF UnitOf, Bytes
  <2>2. parts \in [1..n -> Seq(Byte)]
    BY <2>1
  <2>3. parts \in Seq(Seq(Byte))
    BY <2>2, SeqDef
  <2> HIDE DEF parts
  <2>4. DOMAIN parts = 1..n
    BY <2>2
  <2> QED
    BY <2>3, <2>4, LenProperties DEF Pieces
<1>2. gains \in Pieces(Seq(Byte)) /\ Len(gains) = n
  <2>1. \A i \in 1..n : gains[i] \in Seq(Seq(Byte))
    BY UnitsEncoded DEF Pieces
  <2>2. gains \in [1..n -> Seq(Seq(Byte))]
    BY <2>1
  <2>3. gains \in Seq(Seq(Seq(Byte)))
    BY <2>2, SeqDef
  <2> HIDE DEF gains
  <2>4. DOMAIN gains = 1..n
    BY <2>2
  <2> QED
    BY <2>3, <2>4, LenProperties DEF Pieces
<1> HIDE DEF parts, gains
<1>3. FlattenSeq(parts) \in Seq(Byte) /\ \E w, e : Laid(FlattenSeq(parts), n, parts, w, e)
  BY <1>1, FlattenLaid
<1>4. FlattenSeq(gains) \in Seq(Seq(Byte)) /\ \E v, f : Laid(FlattenSeq(gains), n, gains, v, f)
  BY <1>2, FlattenLaid
<1> QED
  BY <1>3, <1>4, Zenon DEF LaidOut, parts, gains, Bytes, Pieces

\* Unit m + 1, encoded from b on in size bytes; g of the units sent come before
\* what it delivers, and h with that.
Ahead(s, e, t, f, m, b, size, unit, g, h, nalus) ==
    /\ e[m] = b /\ e[m + 1] = b + size /\ b + size <= Len(s)
    /\ unit \in Bytes /\ UnitOf(unit, size, nalus) /\ \A k \in 1..size : s[b + k] = unit[k]
    /\ f[m] = g /\ f[m + 1] = h /\ g <= h /\ h <= Len(t) /\ nalus = SubSeq(t, g + 1, h)

LEMMA UnitAhead ==
    ASSUME NEW n \in Nat, NEW us, NEW s, NEW w, NEW e, NEW t, NEW v, NEW f,
           LaidOut(n, us, s, w, e, t, v, f), NEW m \in 0..(n - 1)
    PROVE  \E b, size, g, h \in Nat, unit \in Bytes, nalus \in Pieces(Byte) :
              Ahead(s, e, t, f, m, b, size, unit, g, h, nalus)
<1> DEFINE parts == [i \in 1..n |-> Encoded(us[i])]
           gains == [i \in 1..n |-> Delivers(us[i])]
<1>1. /\ us \in [1..n -> Measured] /\ s \in Bytes /\ t \in Pieces(Byte)
      /\ Laid(s, n, parts, w, e) /\ Laid(t, n, gains, v, f)
  BY Zenon DEF LaidOut
<1>2. m \in 0..n /\ m + 1 \in 1..n /\ m + 1 \in 0..n /\ (m + 1) - 1 = m
  OBVIOUS
<1>3. us[m + 1] \in Measured
  BY <1>1, <1>2
<1>4. PICK x : x = Encoded(us[m + 1])
  OBVIOUS
<1>5. PICK nalus : nalus = Delivers(us[m + 1])
  OBVIOUS
<1>6. parts[m + 1] = x /\ gains[m + 1] = nalus
  BY <1>2, <1>4, <1>5
<1>7. PICK size \in Nat : UnitOf(x, size, nalus)
  BY <1>3, <1>4, <1>5, UnitsEncoded
<1>8. nalus \in Pieces(Byte)
  BY <1>3, <1>5, UnitsEncoded
<1> HIDE DEF parts, gains
<1>9. x \in Bytes /\ size = Len(x)
  BY <1>7 DEF UnitOf
<1>10. Len(s) \in Nat /\ Len(t) \in Nat /\ Len(nalus) \in Nat
  BY <1>1, <1>8, LenProperties DEF Bytes, Pieces
<1>11. /\ e \in [0..n -> 0..Len(s)] /\ w[m + 1] = Len(parts[m + 1])
       /\ e[m + 1] = e[(m + 1) - 1] + w[m + 1]
       /\ \A k \in 1..w[m + 1] : s[e[(m + 1) - 1] + k] = parts[m + 1][k]
  BY <1>1, <1>2, Zenon DEF Laid
<1>12. /\ f \in [0..n -> 0..Len(t)] /\ v[m + 1] = Len(gains[m + 1])
       /\ f[m + 1] = f[(m + 1) - 1] + v[m + 1]
       /\ \A k \in 1..v[m + 1] : t[f[(m + 1) - 1] + k] = gains[m + 1][k]
  BY <1>1, <1>2, Zenon DEF Laid
<1>13. PICK b \in Nat : e[m] = b
  BY <1>2, <1>10, <1>11
<1>14. w[m + 1] = size
  BY <1>6, <1>9, <1>11
<1>15. e[m + 1] = b + size
  BY <1>2, <1>11, <1>13, <1>14
<1>16. e[m + 1] <= Len(s)
  BY <1>2, <1>10, <1>11
<1>17. \A k \in 1..size : s[b + k] = x[k]
  BY <1>2, <1>6, <1>11, <1>13, <1>14
<1>18. PICK g \in Nat : f[m] = g
  BY <1>2, <1>10, <1>12
<1>19. PICK l \in Nat : l = Len(nalus)
  BY <1>10
<1>20. v[m + 1] = l
  BY <1>6, <1>12, <1>19
<1>21. f[m + 1] = g + l
  BY <1>2, <1>12, <1>18, <1>20
<1>22. g + l <= Len(t)
  BY <1>2, <1>10, <1>12, <1>21
<1>23. \A k \in 1..l : t[g + k] = nalus[k]
  BY <1>2, <1>6, <1>12, <1>18, <1>20
<1>24. nalus = SubSeq(t, g + 1, g + l)
  <2>1. t \in Seq(Seq(Byte)) /\ nalus \in Seq(Seq(Byte))
    BY <1>1, <1>8 DEF Pieces
  <2> QED
    BY <1>19, <1>22, <1>23, <2>1, Sliced
<1>25. g <= g + l /\ g + l \in Nat
  OBVIOUS
<1>26. Ahead(s, e, t, f, m, b, size, x, g, g + l, nalus)
  BY <1>7, <1>9, <1>13, <1>15, <1>16, <1>17, <1>18, <1>21, <1>22, <1>24, <1>25, Zenon DEF Ahead
<1> QED
  BY <1>8, <1>9, <1>25, <1>26

\* One turn of the loop, on the buffer x of l bytes that has arrived of the stream
\* from the start of a unit on.
Arrived(x, s, b, at, l) == b <= at /\ at <= Len(s) /\ IsSlice(x, s, b, at) /\ l = at - b /\ l >= 4

Taken(x, s, b, at, l, t, size, g, h, nalus) ==
    /\ Aligned(x) = x
    /\ ParseUnit(x) = IF l < size THEN Wait ELSE [consumed |-> size, nalus |-> nalus]
    /\ l >= size => Drop(x, size) = SubSeq(s, (b + size) + 1, at)
    /\ SubSeq(t, 1, g) \o nalus = SubSeq(t, 1, h)

LEMMA Turn ==
    ASSUME NEW s \in Bytes, NEW e, NEW t \in Pieces(Byte), NEW f, NEW m, NEW b \in Nat, NEW size \in Nat,
           NEW g \in Nat, NEW h \in Nat, NEW unit, NEW nalus,
           Ahead(s, e, t, f, m, b, size, unit, g, h, nalus),
           NEW at \in Nat, NEW x \in Bytes, NEW l \in Nat, Arrived(x, s, b, at, l)
    PROVE  Taken(x, s, b, at, l, t, size, g, h, nalus)
<1>0. b <= at /\ at <= Len(s) /\ IsSlice(x, s, b, at) /\ l = at - b /\ l >= 4
  BY Zenon DEF Arrived
<1>1. /\ x = SubSeq(s, b + 1, at) /\ Len(x) = l /\ \A k \in 1..l : x[k] = s[b + k]
  BY <1>0, Zenon DEF IsSlice
<1>2. /\ unit \in Bytes /\ size >= 6 /\ unit[1] = 0 /\ unit[2] = 0 /\ unit[3] = 1 /\ Parsed(unit, size, nalus)
      /\ \A k \in 1..size : s[b + k] = unit[k]
  BY Zenon DEF Ahead, UnitOf
<1>3. Begins(x, l, unit, size)
  <2>1. ASSUME NEW k \in 1..l, k <= size PROVE x[k] = unit[k]
    <3>1. k \in 1..size
      BY <2>1
    <3> QED
      BY <1>1, <1>2, <3>1
  <2> QED
    BY <2>1 DEF Begins
<1>4. x[1] = 0 /\ x[2] = 0 /\ x[3] = 1
  <2>1. 1 \in 1..l /\ 2 \in 1..l /\ 3 \in 1..l /\ 1 <= size /\ 2 <= size /\ 3 <= size
    BY <1>0, <1>2
  <2> QED
    BY <1>2, <1>3, <2>1 DEF Begins
<1>5. Aligned(x) = x
  BY <1>0, <1>1, <1>4, AlignedIs
<1>6. ParseUnit(x) = IF l < size THEN Wait ELSE [consumed |-> size, nalus |-> nalus]
  BY <1>0, <1>1, <1>2, <1>3, Zenon DEF Parsed
<1>7. ASSUME l >= size PROVE Drop(x, size) = SubSeq(s, (b + size) + 1, at)
  <2>1. b + size <= at
    BY <1>0, <1>7
  <2>2. Drop(SubSeq(s, b + 1, at), size) = SubSeq(s, (b + size) + 1, at)
    BY <1>0, <2>1, SliceDropped DEF Bytes
  <2> QED
    BY <1>1, <2>2
<1>8. SubSeq(t, 1, g) \o nalus = SubSeq(t, 1, h)
  <2>1. g <= h /\ h <= Len(t) /\ nalus = SubSeq(t, g + 1, h)
    BY Zenon DEF Ahead
  <2>2. SubSeq(t, 0 + 1, g) \o SubSeq(t, g + 1, h) = SubSeq(t, 0 + 1, h)
    <3>1. t \in Seq(Seq(Byte)) /\ 0 \in Nat /\ 0 <= g
      BY DEF Pieces
    <3>2. \A a, c, d \in Nat :
             a <= c /\ c <= d /\ d <= Len(t)
               => SubSeq(t, a + 1, c) \o SubSeq(t, c + 1, d) = SubSeq(t, a + 1, d)
      BY <3>1, SlicesJoin
    <3> QED
      BY <2>1, <3>1, <3>2, Zenon
  <2>3. 0 + 1 = 1
    OBVIOUS
  <2> QED
    BY <2>1, <2>2, <2>3, Zenon
<1> QED
  BY <1>5, <1>6, <1>7, <1>8, Zenon DEF Taken

-----------------------------------------------------------------------------
(* Demux: whatever is parsed, what is delivered stands behind a start code *)

Genuines(s) == {n \in Bytes : Genuine(s, n)}

\* NAL units of a slice are NAL units of the whole.
LEMMA GenuineInside ==
    ASSUME NEW s \in Bytes, NEW b \in Nat, NEW c \in Nat, b <= c, c <= Len(s),
           NEW t \in Bytes, IsSlice(t, s, b, c)
    PROVE  Genuines(t) \subseteq Genuines(s)
<1> SUFFICES ASSUME NEW n \in Genuines(t) PROVE n \in Genuines(s)
  OBVIOUS
<1>1. n \in Bytes /\ n # <<>> /\ Free(n)
  BY Zenon DEF Genuines, Genuine
<1>2. PICK k \in 1..(Len(t) - 2 - Len(n)) : CodeAt(t, k) /\ n = SubSeq(t, k + 3, k + 2 + Len(n))
  BY Zenon DEF Genuines, Genuine
<1>3. PICK l \in Nat : l = Len(n)
  BY <1>1, BytesAre
<1>4. Len(s) \in Nat /\ Len(t) = c - b
  BY BytesAre, Zenon DEF IsSlice
<1>5. k \in Nat /\ k >= 1 /\ k + 2 + l <= c - b
  BY <1>2, <1>3, <1>4
<1>6. \A j \in 1..(c - b) : t[j] = s[b + j]
  BY Zenon DEF IsSlice
<1>7. CodeAt(s, b + k)
  <2>1. t[k] = 0 /\ t[k + 1] = 0 /\ t[k + 2] = 1
    BY <1>2 DEF CodeAt
  <2>2. k \in 1..(c - b) /\ k + 1 \in 1..(c - b) /\ k + 2 \in 1..(c - b)
    BY <1>5
  <2>3. s[b + k] = 0 /\ s[b + (k + 1)] = 0 /\ s[b + (k + 2)] = 1
    BY <1>6, <2>1, <2>2
  <2>4. b + (k + 1) = b + k + 1 /\ b + (k + 2) = b + k + 2
    BY <1>5
  <2>5. b + k + 2 <= Len(s)
    BY <1>4, <1>5
  <2> QED
    BY <2>3, <2>4, <2>5, Zenon DEF CodeAt
<1>8. n = SubSeq(s, b + k + 3, b + k + 2 + l)
  <2>1. n = SubSeq(t, (k + 2) + 1, k + 2 + l)
    <3>1. (k + 2) + 1 = k + 3
      BY <1>5
    <3> QED
      BY <1>2, <1>3, <3>1, Zenon
  <2>2. k + 2 \in Nat /\ k + 2 + l \in Nat /\ k + 2 <= k + 2 + l /\ k + 2 + l <= Len(t)
    BY <1>4, <1>5
  <2>3. PICK x \in Bytes : IsSlice(x, t, k + 2, k + 2 + l)
    BY <2>2, SliceIs DEF Bytes
  <2>4. \A j \in 1..l : n[j] = t[k + 2 + j]
    <3>1. (k + 2 + l) - (k + 2) = l
      BY <1>5
    <3>2. x = n
      BY <2>1, <2>3, Zenon DEF IsSlice
    <3> QED
      BY <2>3, <3>1, <3>2, Zenon DEF IsSlice
  <2>5. \A j \in 1..l : s[(b + k + 2) + j] = n[j]
    <3>1. ASSUME NEW j \in 1..l PROVE s[(b + k + 2) + j] = n[j]
      <4>1. k + 2 + j \in 1..(c - b) /\ b + (k + 2 + j) = (b + k + 2) + j
        BY <1>5
      <4> QED
        BY <1>6, <2>4, <4>1
    <3> QED
      BY <3>1
  <2>6. b + k + 2 \in Nat /\ (b + k + 2) + l <= Len(s)
    BY <1>4, <1>5
  <2>7. SubSeq(s, (b + k + 2) + 1, (b + k + 2) + l) = n
    BY <1>1, <1>3, <2>5, <2>6, Sliced DEF Bytes
  <2>8. (b + k + 2) + 1 = b + k + 3
    BY <1>5
  <2> QED
    BY <2>7, <2>8, Zenon
<1>9. b + k \in 1..(Len(s) - 2 - Len(n))
  BY <1>3, <1>4, <1>5
<1> QED
  BY <1>1, <1>3, <1>7, <1>8, <1>9, Zenon DEF Genuines, Genuine

\* Where the unit behind a start code ends, before trailing zeros go.
LEMMA NALUEnds ==
    ASSUME NEW s \in Bytes, NEW i \in 1..Len(s), CodeAt(s, i)
    PROVE  \E q \in Nat : /\ i + 2 <= q /\ q <= Len(s)
                         /\ NALUAt(s, i) = Trimmed(SubSeq(s, i + 3, q))
                         /\ \A k \in (i + 3)..q : ~CodeAt(s, k)
<1> DEFINE later == {k \in (i + 3)..Len(s) : CodeAt(s, k)}
<1>1. Len(s) \in Nat /\ i \in Nat /\ i + 2 <= Len(s)
  <2>1. Len(s) \in Nat
    BY BytesAre
  <2>2. i + 2 <= Len(s)
    BY Zenon DEF CodeAt
  <2> QED
    BY <2>1, <2>2
<1>2. NALUAt(s, i) = Trimmed(SubSeq(s, i + 3, IF later = {} THEN Len(s) ELSE Min(later) - 1))
  BY Zenon DEF NALUAt
<1>3. later \in SUBSET Nat /\ \A k \in later : i + 3 <= k /\ k <= Len(s)
  BY <1>1
<1>4. \A k \in (i + 3)..Len(s) : CodeAt(s, k) => k \in later
  OBVIOUS
<1> HIDE DEF later
<1>5. CASE later = {}
  <2>1. NALUAt(s, i) = Trimmed(SubSeq(s, i + 3, Len(s)))
    BY <1>2, <1>5, Zenon
  <2>2. \A k \in (i + 3)..Len(s) : ~CodeAt(s, k)
    BY <1>4, <1>5
  <2>3. Len(s) <= Len(s)
    BY <1>1
  <2> QED
    BY <1>1, <2>1, <2>2, <2>3, Zenon
<1>6. CASE later # {}
  <2>1. Min(later) \in later /\ \A k \in later : Min(later) <= k
    BY <1>3, <1>6, MinIs
  <2>2. PICK p \in Nat : p = Min(later)
    BY <1>3, <2>1
  <2>3. p \in Nat /\ i + 3 <= p /\ p <= Len(s)
    BY <1>3, <2>1, <2>2
  <2>4. NALUAt(s, i) = Trimmed(SubSeq(s, i + 3, p - 1))
    BY <1>2, <1>6, <2>2, Zenon
  <2>5. ASSUME NEW k \in (i + 3)..(p - 1) PROVE ~CodeAt(s, k)
    <3>1. k \in (i + 3)..Len(s) /\ ~(p <= k)
      BY <1>1, <2>3
    <3> QED
      BY <1>4, <2>1, <2>2, <3>1, Zenon
  <2>6. p - 1 \in Nat /\ i + 2 <= p - 1 /\ p - 1 <= Len(s)
    BY <1>1, <2>3
  <2> QED
    BY <2>4, <2>5, <2>6
<1> QED
  BY <1>5, <1>6

LEMMA NALUGenuine ==
    ASSUME NEW s \in Bytes, NEW i \in 1..Len(s), CodeAt(s, i), NALUAt(s, i) # <<>>
    PROVE  NALUAt(s, i) \in Genuines(s)
<1>1. PICK q \in Nat : /\ i + 2 <= q /\ q <= Len(s)
                       /\ NALUAt(s, i) = Trimmed(SubSeq(s, i + 3, q))
                       /\ \A k \in (i + 3)..q : ~CodeAt(s, k)
  BY NALUEnds
<1>2. Len(s) \in Nat /\ i \in Nat /\ i >= 1
  BY BytesAre
<1>3. PICK a \in Nat : a = i + 2
  BY <1>2
<1>4. a <= q /\ a + 1 = i + 3
  BY <1>1, <1>2, <1>3
<1>5. PICK t \in Bytes : IsSlice(t, s, a, q)
  BY <1>1, <1>4, SliceIs DEF Bytes
<1>6. t = SubSeq(s, i + 3, q) /\ Len(t) = q - a /\ \A k \in 1..(q - a) : t[k] = s[a + k]
  BY <1>4, <1>5, Zenon DEF IsSlice
<1>7. PICK lt \in Nat : lt = Len(t)
  BY BytesAre
<1>8. PICK m \in 0..lt : /\ Trimmed(t) = SubSeq(t, 1, m) /\ Trimmed(t) \in Bytes /\ Len(Trimmed(t)) = m
                         /\ \A k \in 1..m : Trimmed(t)[k] = t[k]
                         /\ m = 0 \/ t[m] # 0
  BY <1>7, TrimmedFits
<1>9. PICK n \in Bytes : n = Trimmed(t)
  BY <1>8
<1>10. n = NALUAt(s, i) /\ n # <<>> /\ Len(n) = m /\ m \in Nat /\ a + m <= q
  <2>1. n = NALUAt(s, i)
    BY <1>1, <1>6, <1>9, Zenon
  <2>2. m \in Nat /\ a + m <= q
    BY <1>4, <1>6, <1>7, <1>8
  <2> QED
    BY <1>8, <1>9, <2>1, <2>2
<1>11. ASSUME NEW k \in 1..m PROVE s[a + k] = n[k]
  <2>1. k \in 1..(q - a)
    BY <1>10
  <2> QED
    BY <1>6, <1>8, <1>9, <2>1
<1>12. SubSeq(s, a + 1, a + m) = n
  <2>1. a + m <= Len(s)
    BY <1>1, <1>2, <1>10
  <2> QED
    BY <1>10, <1>11, <2>1, Sliced DEF Bytes
<1>13. Free(n)
  <2>1. ASSUME NEW j \in DOMAIN n, CodeAt(n, j) PROVE FALSE
    <3>1. j \in 1..m
      BY <1>10, BytesAre
    <3>2. j + 2 <= m /\ n[j] = 0 /\ n[j + 1] = 0 /\ n[j + 2] = 1
      BY <1>10, <2>1, Zenon DEF CodeAt
    <3>3. j \in 1..m /\ j + 1 \in 1..m /\ j + 2 \in 1..m
      BY <1>10, <3>1, <3>2
    <3>4. s[a + j] = 0 /\ s[a + (j + 1)] = 0 /\ s[a + (j + 2)] = 1
      BY <1>11, <3>2, <3>3
    <3>5. a + (j + 1) = a + j + 1 /\ a + (j + 2) = a + j + 2 /\ a + j + 2 <= Len(s)
      <4>1. a \in Nat /\ m \in Nat /\ j \in Nat /\ q \in Nat /\ Len(s) \in Nat
        BY <1>2, <1>10, <3>1
      <4>2. \A k, l, x, y, z \in Nat :
               k + l <= x /\ x <= y /\ z + 2 <= l
                 => k + (z + 1) = k + z + 1 /\ k + (z + 2) = k + z + 2 /\ k + z + 2 <= y
        OBVIOUS
      <4>3. a + m <= q /\ q <= Len(s) /\ j + 2 <= m
        BY <1>1, <1>10, <3>2, Zenon
      <4> QED
        BY <4>1, <4>2, <4>3, Zenon
    <3>6. CodeAt(s, a + j)
      BY <3>4, <3>5, Zenon DEF CodeAt
    <3>7. a + j \in (i + 3)..q
      BY <1>4, <1>10, <3>2, <3>3
    <3> QED
      BY <1>1, <3>6, <3>7
  <2> QED
    BY <2>1, Zenon DEF Free
<1>14. i \in 1..(Len(s) - 2 - Len(n)) /\ i + 2 + Len(n) = a + m
  BY <1>1, <1>2, <1>3, <1>10
<1>15. n = SubSeq(s, i + 3, i + 2 + Len(n))
  BY <1>4, <1>12, <1>14, Zenon
<1> QED
  BY <1>10, <1>13, <1>14, <1>15, Zenon DEF Genuines, Genuine

LEMMA ExtractGenuine ==
    ASSUME NEW s \in Bytes
    PROVE  ExtractNALUs(s) \in Seq(Genuines(s))
<1>1. PICK f : /\ f[0] = <<>> /\ \A i \in 1..Len(s) : f[i] = WithNALUAt(f[i - 1], s, i)
               /\ ExtractNALUs(s) = f[Len(s)]
  BY ExtractIs
<1>2. Len(s) \in Nat
  BY BytesAre
<1> DEFINE S == {i \in 0..Len(s) : f[i] \in Seq(Genuines(s))}
<1>3. 0 \in S
  <2>1. 0 \in 0..Len(s)
    BY <1>2
  <2>2. <<>> \in Seq(Genuines(s))
    BY EmptySeq
  <2> QED
    BY <1>1, <2>1, <2>2, Zenon
<1>4. ASSUME NEW i \in 0..(Len(s) - 1), i \in S PROVE i + 1 \in S
  <2>1. i + 1 \in 1..Len(s) /\ (i + 1) - 1 = i
    BY <1>2
  <2>2. f[i] \in Seq(Genuines(s))
    BY <1>4
  <2>3. PICK j \in 1..Len(s) : j = i + 1
    BY <2>1
  <2>4. f[j] = WithNALUAt(f[i], s, j)
    BY <1>1, <2>1, <2>3
  <2>5. CASE CodeAt(s, j) /\ NALUAt(s, j) # <<>>
    <3>1. NALUAt(s, j) \in Genuines(s)
      BY <2>5, NALUGenuine
    <3>2. f[j] = Append(f[i], NALUAt(s, j))
      BY <2>4, <2>5, Zenon DEF WithNALUAt
    <3>3. f[j] \in Seq(Genuines(s))
      BY <2>2, <3>1, <3>2, AppendProperties
    <3> QED
      BY <2>1, <2>3, <3>3
  <2>6. CASE ~(CodeAt(s, j) /\ NALUAt(s, j) # <<>>)
    <3>1. f[j] = f[i]
      BY <2>4, <2>6, Zenon DEF WithNALUAt
    <3> QED
      BY <2>1, <2>2, <2>3, <3>1
  <2> QED
    BY <2>5, <2>6
<1>5. \A i \in 0..Len(s) : i \in S
  <2> HIDE DEF S
  <2> QED
    BY <1>2, <1>3, <1>4, Induction
<1>6. Len(s) \in 0..Len(s)
  BY <1>2
<1> QED
  BY <1>1, <1>5, <1>6

\* What is taken off the buffer x, and what is delivered of it.
Returns(x, r) == r.consumed \in 0..Len(x) /\ r.nalus \in Seq(Genuines(x))

LEMMA WaitReturns ==
    ASSUME NEW x \in Bytes
    PROVE  Returns(x, Wait)
<1>1. Wait.consumed = 0 /\ Wait.nalus = <<>>
  BY DEF Wait
<1>2. 0 \in 0..Len(x) /\ <<>> \in Seq(Genuines(x))
  BY BytesAre, EmptySeq
<1> QED
  BY <1>1, <1>2, Zenon DEF Returns

LEMMA SkipReturns ==
    ASSUME NEW x \in Bytes, NEW m \in Nat, m <= Len(x)
    PROVE  Returns(x, Skip(m))
<1>1. Skip(m).consumed = m /\ Skip(m).nalus = <<>>
  BY DEF Skip
<1>2. m \in 0..Len(x) /\ <<>> \in Seq(Genuines(x))
  BY BytesAre, EmptySeq
<1> QED
  BY <1>1, <1>2, Zenon DEF Returns

LEMMA ExtractReturns ==
    ASSUME NEW x \in Bytes, NEW a \in Nat, NEW m \in Nat, a < m, m <= Len(x)
    PROVE  Returns(x, [consumed |-> m, nalus |-> ExtractNALUs(SubSeq(x, a + 1, m))])
<1> DEFINE r == [consumed |-> m, nalus |-> ExtractNALUs(SubSeq(x, a + 1, m))]
<1>1. r.consumed = m /\ r.nalus = ExtractNALUs(SubSeq(x, a + 1, m))
  OBVIOUS
<1>2. a <= m
  OBVIOUS
<1>3. PICK t \in Bytes : IsSlice(t, x, a, m)
  BY <1>2, SliceIs DEF Bytes
<1>4. t = SubSeq(x, a + 1, m)
  BY <1>3, Zenon DEF IsSlice
<1>5. ExtractNALUs(t) \in Seq(Genuines(t)) /\ Genuines(t) \subseteq Genuines(x)
  BY <1>2, <1>3, ExtractGenuine, GenuineInside
<1>6. Seq(Genuines(t)) \subseteq Seq(Genuines(x))
  BY <1>5
<1>7. m \in 0..Len(x)
  BY BytesAre
<1> HIDE DEF r
<1>8. r.nalus \in Seq(Genuines(x))
  BY <1>1, <1>4, <1>5, <1>6, Zenon
<1>9. Returns(x, r)
  BY <1>1, <1>7, <1>8, Zenon DEF Returns
<1> QED
  BY <1>9, Zenon DEF r

LEMMA WordTyped ==
    ASSUME NEW x \in Bytes, NEW n \in Nat, n = Len(x), n >= 6
    PROVE  Word(x, 5) \in Nat
<1>1. 5 \in 1..n /\ 5 + 1 \in 1..n
  OBVIOUS
<1>2. PICK a, b \in Nat : a = x[5] /\ b = x[5 + 1]
  <2>1. \A c \in Byte : c \in Nat
    BY SMT DEF Byte
  <2> QED
    BY <1>1, <2>1, BytesAre
<1>3. Word(x, 5) = 256 * a + b
  BY <1>2, Zenon DEF Word
<1> QED
  BY <1>3

LEMMA PESReturns ==
    ASSUME NEW x \in Bytes, NEW n \in Nat, n = Len(x), NEW video \in BOOLEAN
    PROVE  Returns(x, ParsePES(x, video))
<1> DEFINE next    == FirstCode(x, 9 + x[9] + 2, 0)
           total   == IF Word(x, 5) > 0 THEN 6 + Word(x, 5) ELSE IF next = 0 THEN Len(x) ELSE next - 1
<1>1. CASE n < 9
  <2>1. ParsePES(x, video) = Wait
    BY <1>1, Zenon DEF ParsePES
  <2> QED
    BY <2>1, WaitReturns
<1>2. CASE ~(n < 9)
  <2>1. PICK word \in Nat : word = Word(x, 5)
    BY <1>2, WordTyped
  <2>2. PICK p \in Nat : p = 9 + x[9]
    <3>1. 9 \in 1..n
      BY <1>2
    <3>2. \A c \in Byte : 9 + c \in Nat
      BY SMT DEF Byte
    <3> QED
      BY <3>1, <3>2, BytesAre
  <2>3. next = 0 \/ (next \in Nat /\ 1 <= next /\ next <= n)
    <3> DEFINE at == {k \in (p + 2)..(Len(x) - 2 - 0) : CodeAt(x, k)}
    <3>1. next = IF at = {} THEN 0 ELSE Min(at)
      BY <2>2, Zenon DEF FirstCode
    <3>2. at \in SUBSET Nat /\ \A k \in at : 1 <= k /\ k <= n
      OBVIOUS
    <3> HIDE DEF at, next
    <3>3. CASE at = {}
      BY <3>1, <3>3, Zenon
    <3>4. CASE at # {}
      <4>1. Min(at) \in at
        BY <3>2, <3>4, MinIs
      <4>2. next = Min(at)
        BY <3>1, <3>4, Zenon
      <4> QED
        BY <3>2, <4>1, <4>2
    <3> QED
      BY <3>3, <3>4
  <2>4. total \in Nat
    <3> HIDE DEF next
    <3>1. total = IF word > 0 THEN 6 + word ELSE IF next = 0 THEN n ELSE next - 1
      BY <2>1, Zenon
    <3>2. 6 + word \in Nat /\ (next = 0 \/ next - 1 \in Nat)
      BY <2>3
    <3> HIDE DEF total
    <3> QED
      BY <3>1, <3>2, Zenon
  <2>5. ParsePES(x, video) =
          IF Len(x) < total THEN Wait
          ELSE IF 9 + x[9] >= total \/ ~video THEN Skip(total)
          ELSE [consumed |-> total, nalus |-> ExtractNALUs(SubSeq(x, 9 + x[9] + 1, total))]
    BY <1>2, Zenon DEF ParsePES
  <2> HIDE DEF total
  <2>6. ParsePES(x, video) =
          IF n < total THEN Wait
          ELSE IF p >= total \/ ~video THEN Skip(total)
          ELSE [consumed |-> total, nalus |-> ExtractNALUs(SubSeq(x, p + 1, total))]
    BY <2>2, <2>5, Zenon
  <2>7. CASE n < total
    <3>1. ParsePES(x, video) = Wait
      BY <2>6, <2>7, Zenon
    <3> QED
      BY <3>1, WaitReturns
  <2>8. CASE ~(n < total) /\ (p >= total \/ ~video)
    <3>1. ParsePES(x, video) = Skip(total)
      BY <2>6, <2>8, Zenon
    <3>2. total <= Len(x)
      BY <2>4, <2>8
    <3> QED
      BY <2>4, <3>1, <3>2, SkipReturns
  <2>9. CASE ~(n < total) /\ ~(p >= total \/ ~video)
    <3>1. ParsePES(x, video) = [consumed |-> total, nalus |-> ExtractNALUs(SubSeq(x, p + 1, total))]
      BY <2>6, <2>9, Zenon
    <3>2. p < total /\ total <= Len(x)
      BY <2>4, <2>9
    <3> QED
      BY <2>4, <3>1, <3>2, ExtractReturns
  <2> QED
    BY <2>7, <2>8, <2>9
<1> QED
  BY <1>1, <1>2

LEMMA UnitReturns ==
    ASSUME NEW x \in Bytes, NEW n \in Nat, n = Len(x), n >= 4
    PROVE  Returns(x, ParseUnit(x))
<1>1. CASE x[4] = 186
  <2>1. ParseUnit(x) = IF n < 14 THEN Wait ELSE Skip(IF (x[5] \div 64) % 2 = 1 THEN 14 ELSE 12)
    BY <1>1, BranchIs DEF ParsePackHeader
  <2>2. PICK m \in {12, 14} : m = IF (x[5] \div 64) % 2 = 1 THEN 14 ELSE 12
    BY Zenon
  <2>3. ParseUnit(x) = IF n < 14 THEN Wait ELSE Skip(m)
    BY <2>1, <2>2, Zenon
  <2>4. CASE n < 14
    <3>1. ParseUnit(x) = Wait
      BY <2>3, <2>4, Zenon
    <3> QED
      BY <3>1, WaitReturns
  <2>5. CASE ~(n < 14)
    <3>1. ParseUnit(x) = Skip(m)
      BY <2>3, <2>5, Zenon
    <3>2. m \in Nat /\ m <= Len(x)
      BY <2>2, <2>5
    <3> QED
      BY <3>1, <3>2, SkipReturns
  <2> QED
    BY <2>4, <2>5
<1>2. CASE x[4] \in {187, 188}
  <2>1. ParseUnit(x) = IF Len(x) < 6 \/ Len(x) < 6 + Word(x, 5) THEN Wait ELSE Skip(6 + Word(x, 5))
    BY <1>2, BranchIs DEF ParseHeader
  <2>2. CASE Len(x) < 6 \/ Len(x) < 6 + Word(x, 5)
    <3>1. ParseUnit(x) = Wait
      BY <2>1, <2>2, Zenon
    <3> QED
      BY <3>1, WaitReturns
  <2>3. CASE ~(Len(x) < 6 \/ Len(x) < 6 + Word(x, 5))
    <3>1. ParseUnit(x) = Skip(6 + Word(x, 5))
      BY <2>1, <2>3, Zenon
    <3>2. Word(x, 5) \in Nat
      <4>1. n >= 6
        BY <2>3
      <4> QED
        BY <4>1, WordTyped
    <3>3. 6 + Word(x, 5) \in Nat /\ 6 + Word(x, 5) <= Len(x)
      BY <2>3, <3>2
    <3> QED
      BY <3>1, <3>3, SkipReturns
  <2> QED
    BY <2>2, <2>3
<1>3. CASE x[4] \in 189..191
  <2>1. ParseUnit(x) = ParsePES(x, FALSE)
    BY <1>3, BranchIs
  <2>2. Returns(x, ParsePES(x, FALSE))
    BY PESReturns
  <2> QED
    BY <2>1, <2>2, Zenon
<1>4. CASE x[4] \in 224..239
  <2>1. ParseUnit(x) = ParsePES(x, TRUE)
    BY <1>4, BranchIs
  <2>2. Returns(x, ParsePES(x, TRUE))
    BY PESReturns
  <2> QED
    BY <2>1, <2>2, Zenon
<1>5. CASE ~(x[4] = 186) /\ ~(x[4] \in {187, 188}) /\ ~(x[4] \in 189..191) /\ ~(x[4] \in 224..239)
  <2>1. ParseUnit(x) = Skip(4)
    BY <1>5, Zenon DEF ParseUnit
  <2>2. 4 \in Nat /\ 4 <= Len(x)
    OBVIOUS
  <2> QED
    BY <2>1, <2>2, SkipReturns
<1> QED
  BY <1>1, <1>2, <1>3, <1>4, <1>5, Zenon

\* What stands before the first start code is dropped, and that leaves a code.
LEMMA AlignedLeaves ==
    ASSUME NEW x \in Bytes, NEW n \in Nat, n = Len(x), n >= 4
    PROVE  \E d \in 0..(n - 4) : Aligned(x) = Drop(x, d)
<1> DEFINE at == {k \in 1..(Len(x) - 2 - 1) : CodeAt(x, k)}
<1>1. FirstCode(x, 1, 1) = IF at = {} THEN 0 ELSE Min(at)
  BY Zenon DEF FirstCode
<1>2. at \in SUBSET Nat /\ \A k \in at : 1 <= k /\ k <= n - 3
  OBVIOUS
<1> HIDE DEF at
<1>3. CASE at = {}
  <2>1. Aligned(x) = x
    BY <1>1, <1>3, Zenon DEF Aligned
  <2>2. Drop(x, 0) = x
    <3>1. SubSeq(x, 1, Len(x)) = x
      BY SubSeqFull DEF Bytes
    <3>2. 0 + 1 = 1
      OBVIOUS
    <3> QED
      BY <3>1, <3>2, Zenon DEF Drop
  <2>3. 0 \in 0..(n - 4)
    OBVIOUS
  <2> QED
    BY <2>1, <2>2, <2>3
<1>4. CASE at # {}
  <2>1. Min(at) \in at
    BY <1>2, <1>4, MinIs
  <2>2. PICK k \in Nat : k = Min(at) /\ 1 <= k /\ k <= n - 3
    BY <1>2, <2>1
  <2>3. FirstCode(x, 1, 1) = k /\ k # 0
    BY <1>1, <1>4, <2>2
  <2>4. Aligned(x) = Drop(x, k - 1)
    BY <2>3, Zenon DEF Aligned
  <2>5. k - 1 \in 0..(n - 4)
    BY <2>2
  <2> QED
    BY <2>4, <2>5
<1> QED
  BY <1>3, <1>4

\* The buffer is the end of what has arrived, wherever it begins, and all that
\* was delivered stands in the stream behind a start code.
Buffered(s, at, held, given) ==
    /\ s \in Bytes /\ at <= Len(s) /\ given \in Seq(Genuines(s))
    /\ \E b \in Nat : b <= at /\ held = SubSeq(s, b + 1, at)

LEMMA FeedKept ==
    ASSUME NEW s, NEW at \in Nat, NEW last \in Nat, at < last, last <= Len(s), NEW form \in Forms,
           NEW held, NEW given, Buffered(s, at, held, given)
    PROVE  Buffered(s, last, held \o ParseRTP(Packet(SubSeq(s, at + 1, last), form)), given)
<1>1. s \in Bytes /\ given \in Seq(Genuines(s))
  BY Zenon DEF Buffered
<1>2. PICK b \in Nat : b <= at /\ held = SubSeq(s, b + 1, at)
  BY Zenon DEF Buffered
<1>3. at <= last /\ b <= last
  BY <1>2
<1>4. PICK x \in Bytes : IsSlice(x, s, at, last)
  BY <1>1, <1>3, SliceIs DEF Bytes
<1>5. x = SubSeq(s, at + 1, last) /\ Len(x) = last - at
  BY <1>4, Zenon DEF IsSlice
<1>6. x # <<>>
  <2>1. Len(x) # 0
    BY <1>5
  <2> QED
    BY <2>1, BytesAre
<1>7. ParseRTP(Packet(SubSeq(s, at + 1, last), form)) = x
  BY <1>5, <1>6, ParseRTPIs
<1>8. SubSeq(s, b + 1, at) \o SubSeq(s, at + 1, last) = SubSeq(s, b + 1, last)
  <2>1. \A a, c, d \in Nat :
             a <= c /\ c <= d /\ d <= Len(s)
               => SubSeq(s, a + 1, c) \o SubSeq(s, c + 1, d) = SubSeq(s, a + 1, d)
    BY <1>1, SlicesJoin DEF Bytes
  <2> QED
    BY <1>2, <1>3, <2>1, Zenon
<1> QED
  BY <1>1, <1>2, <1>3, <1>5, <1>7, <1>8, Zenon DEF Buffered

LEMMA TurnKept ==
    ASSUME NEW s, NEW at \in Nat, NEW held, NEW given, Buffered(s, at, held, given), ~(Len(held) < 4)
    PROVE  Buffered(s, at, Drop(Aligned(held), ParseUnit(Aligned(held)).consumed),
                given \o ParseUnit(Aligned(held)).nalus)
<1>1. s \in Bytes /\ at <= Len(s) /\ given \in Seq(Genuines(s)) /\ Len(s) \in Nat
  BY BytesAre, Zenon DEF Buffered
<1>2. PICK b \in Nat : b <= at /\ held = SubSeq(s, b + 1, at)
  BY Zenon DEF Buffered
<1>3. PICK x \in Bytes : IsSlice(x, s, b, at)
  BY <1>1, <1>2, SliceIs DEF Bytes
<1>4. x = held /\ Len(x) = at - b
  BY <1>2, <1>3, Zenon DEF IsSlice
<1>5. PICK n \in Nat : n = Len(x)
  BY BytesAre
<1>6. n >= 4 /\ n = at - b
  BY <1>4, <1>5
<1>7. PICK d \in 0..(n - 4) : Aligned(x) = Drop(x, d)
  BY <1>5, <1>6, AlignedLeaves
<1>8. PICK c \in Nat : c = b + d
  BY <1>6, <1>7
<1>9. c <= at /\ at - c >= 4 /\ b + d <= at /\ d \in Nat
  BY <1>2, <1>6, <1>7, <1>8
<1>10. Aligned(x) = SubSeq(s, c + 1, at)
  BY <1>1, <1>2, <1>4, <1>7, <1>8, <1>9, SliceDropped DEF Bytes
<1>11. PICK y \in Bytes : IsSlice(y, s, c, at)
  BY <1>1, <1>9, SliceIs DEF Bytes
<1>12. y = Aligned(x) /\ Len(y) = at - c
  BY <1>10, <1>11, Zenon DEF IsSlice
<1>13. PICK l \in Nat : l = Len(y)
  BY BytesAre
<1>14. Returns(y, ParseUnit(y))
  <2>1. l >= 4
    BY <1>9, <1>12, <1>13
  <2> QED
    BY <1>13, <2>1, UnitReturns
<1>15. PICK m \in 0..l : m = ParseUnit(y).consumed
  BY <1>13, <1>14, Zenon DEF Returns
<1>16. c + m <= at /\ c + m \in Nat /\ m \in Nat
  BY <1>9, <1>12, <1>13, <1>15
<1>17. Drop(y, m) = SubSeq(s, (c + m) + 1, at)
  <2>1. Drop(SubSeq(s, c + 1, at), m) = SubSeq(s, (c + m) + 1, at)
    BY <1>1, <1>16, SliceDropped DEF Bytes
  <2> QED
    BY <1>10, <1>12, <2>1, Zenon
<1>18. given \o ParseUnit(y).nalus \in Seq(Genuines(s))
  <2>1. ParseUnit(y).nalus \in Seq(Genuines(y))
    BY <1>14, Zenon DEF Returns
  <2>2. Genuines(y) \subseteq Genuines(s)
    BY <1>1, <1>9, <1>11, GenuineInside
  <2>3. Seq(Genuines(y)) \subseteq Seq(Genuines(s))
    BY <2>2
  <2>4. ParseUnit(y).nalus \in Seq(Genuines(s))
    BY <2>1, <2>3, Zenon
  <2> QED
    BY <1>1, <2>4, ConcatProperties
<1>19. Buffered(s, at, Drop(y, ParseUnit(y).consumed), given \o ParseUnit(y).nalus)
  BY <1>1, <1>15, <1>16, <1>17, <1>18, Zenon DEF Buffered
<1> QED
  BY <1>4, <1>12, <1>19, Zenon

LEMMA KeptBounded ==
    ASSUME NEW s, NEW at \in Nat, NEW held, NEW given, Buffered(s, at, held, given)
    PROVE  Len(held) <= at
<1>1. PICK b \in Nat : b <= at /\ held = SubSeq(s, b + 1, at)
  BY Zenon DEF Buffered
<1>2. \E x \in Bytes : IsSlice(x, s, b, at)
  BY <1>1, SliceIs DEF Buffered, Bytes
<1>3. Len(held) = at - b
  BY <1>1, <1>2, Zenon DEF IsSlice
<1> QED
  BY <1>1, <1>3

-----------------------------------------------------------------------------
(* Demux: the NAL units delivered *)

\* What is in the buffer is what has arrived of the stream since the end of a
\* unit; what was delivered is what the units before it hold; and an idle
\* demuxer has come to the end, or to a unit that has not arrived whole.
Progress(n, s, e, t, f, at, held, given, done) ==
    \E m \in 0..n :
        /\ e[m] <= at /\ held = SubSeq(s, e[m] + 1, at) /\ given = SubSeq(t, 1, f[m])
        /\ done => m = n \/ at < e[m + 1]

\* Where the demuxer stands, if the n units sent all have a length.
Orderly(n) ==
    \E w, e, v, f :
        /\ LaidOut(n, units, Stream, w, e, Sent, v, f)
        /\ Progress(n, Stream, e, Sent, f, fed, buffer, out, idle)

PsInv ==
    /\ fed \in 0..Len(Stream) /\ idle \in BOOLEAN
    /\ \E n \in Nat : units \in [1..n -> Units]
    /\ Buffered(Stream, fed, buffer, out)
    /\ \A n \in Nat : units \in [1..n -> Measured] => Orderly(n)

\* The units of one stream.
LEMMA UnitsOf ==
    ASSUME NEW n \in Nat, units \in [1..n -> Measured]
    PROVE  \E w, e, v, f : LaidOut(n, units, Stream, w, e, Sent, v, f)
<1>1. DOMAIN units = 1..n
  OBVIOUS
<1>2. Stream = FlattenSeq([i \in 1..n |-> Encoded(units[i])])
  BY <1>1, Zenon DEF Stream
<1>3. Sent = FlattenSeq([i \in 1..n |-> Delivers(units[i])])
  BY <1>1, Zenon DEF Sent, Delivers
<1> QED
  BY <1>2, <1>3, LaidOutIs, Zenon

LEMMA StreamIs ==
    ASSUME NEW n \in Nat, units \in [1..n -> Units]
    PROVE  Stream \in Bytes
<1> DEFINE parts == [i \in 1..n |-> Encoded(units[i])]
<1>1. DOMAIN units = 1..n
  OBVIOUS
<1>2. Stream = FlattenSeq(parts)
  BY <1>1, Zenon DEF Stream
<1>3. \A i \in 1..n : parts[i] \in Seq(Byte)
  BY AllEncoded DEF Bytes
<1>4. parts \in [1..n -> Seq(Byte)]
  BY <1>3
<1>5. parts \in Seq(Seq(Byte))
  BY <1>4, SeqDef
<1> HIDE DEF parts
<1> QED
  BY <1>2, <1>5, FlattenLaid DEF Pieces, Bytes

Bounds(n, s, e, t, f) ==
    /\ s \in Bytes /\ t \in Pieces(Byte) /\ Len(s) \in Nat /\ Len(t) \in Nat
    /\ e \in [0..n -> 0..Len(s)] /\ f \in [0..n -> 0..Len(t)]
    /\ e[0] = 0 /\ f[0] = 0 /\ e[n] = Len(s) /\ f[n] = Len(t)
    /\ \A m \in 0..n : \A j \in 0..n : m <= j => e[m] <= e[j]

LEMMA LaidBounds ==
    ASSUME NEW n \in Nat, NEW us, NEW s, NEW w, NEW e, NEW t, NEW v, NEW f,
           LaidOut(n, us, s, w, e, t, v, f)
    PROVE  Bounds(n, s, e, t, f)
<1>1. s \in Bytes /\ t \in Pieces(Byte)
  BY Zenon DEF LaidOut
<1>2. Len(s) \in Nat /\ Len(t) \in Nat
  BY <1>1, LenProperties DEF Bytes, Pieces
<1>3. PICK parts, gains : Laid(s, n, parts, w, e) /\ Laid(t, n, gains, v, f)
  BY Zenon DEF LaidOut
<1>4. /\ e \in [0..n -> 0..Len(s)] /\ f \in [0..n -> 0..Len(t)]
      /\ e[0] = 0 /\ f[0] = 0 /\ e[n] = Len(s) /\ f[n] = Len(t)
  BY <1>3, Zenon DEF Laid
<1>5. ASSUME NEW m \in 0..n, NEW j \in 0..n, m <= j PROVE e[m] <= e[j]
  BY <1>2, <1>3, <1>5, LaidGrows
<1> QED
  BY <1>1, <1>2, <1>4, <1>5, Zenon DEF Bounds

LEMMA FeedKeeps ==
    ASSUME NEW n \in Nat, NEW us, NEW s, NEW w, NEW e, NEW t, NEW v, NEW f,
           LaidOut(n, us, s, w, e, t, v, f), NEW at \in Nat, NEW last \in Nat, at < last, last <= Len(s),
           NEW form \in Forms, NEW held, NEW given, NEW done,
           Progress(n, s, e, t, f, at, held, given, done)
    PROVE  Progress(n, s, e, t, f, last, held \o ParseRTP(Packet(SubSeq(s, at + 1, last), form)), given, FALSE)
<1>1. PICK m \in 0..n : e[m] <= at /\ held = SubSeq(s, e[m] + 1, at) /\ given = SubSeq(t, 1, f[m])
  BY Zenon DEF Progress
<1>2. s \in Bytes /\ Len(s) \in Nat /\ e \in [0..n -> 0..Len(s)]
  <2>1. Bounds(n, s, e, t, f)
    BY LaidBounds, Zenon
  <2> QED
    BY <2>1, Zenon DEF Bounds
<1>3. PICK b \in Nat : b = e[m]
  BY <1>2
<1>4. PICK x \in Bytes : IsSlice(x, s, at, last)
  BY <1>2, SliceIs DEF Bytes
<1>5. x = SubSeq(s, at + 1, last) /\ Len(x) = last - at
  BY <1>4, Zenon DEF IsSlice
<1>6. x # <<>>
  <2>1. Len(x) # 0
    BY <1>5
  <2> QED
    BY <2>1, BytesAre
<1>7. ParseRTP(Packet(SubSeq(s, at + 1, last), form)) = x
  BY <1>5, <1>6, ParseRTPIs
<1>8. SubSeq(s, b + 1, at) \o SubSeq(s, at + 1, last) = SubSeq(s, b + 1, last)
  <2>1. \A a, c, d \in Nat :
             a <= c /\ c <= d /\ d <= Len(s)
               => SubSeq(s, a + 1, c) \o SubSeq(s, c + 1, d) = SubSeq(s, a + 1, d)
    BY <1>2, SlicesJoin DEF Bytes
  <2>2. b <= at /\ at <= last
    BY <1>1, <1>3
  <2> QED
    BY <2>1, <2>2, Zenon
<1>9. e[m] <= last
  BY <1>1, <1>3
<1> QED
  BY <1>1, <1>3, <1>5, <1>7, <1>8, <1>9, Zenon DEF Progress

LEMMA TurnKeeps ==
    ASSUME NEW n \in Nat, NEW us, NEW s, NEW w, NEW e, NEW t, NEW v, NEW f,
           LaidOut(n, us, s, w, e, t, v, f), NEW at \in Nat, at <= Len(s), NEW held, NEW given,
           Progress(n, s, e, t, f, at, held, given, FALSE)
    PROVE  /\ Len(held) < 4 => Progress(n, s, e, t, f, at, held, given, TRUE)
           /\ ~(Len(held) < 4) =>
                Progress(n, s, e, t, f, at, Drop(Aligned(held), ParseUnit(Aligned(held)).consumed),
                         given \o ParseUnit(Aligned(held)).nalus, ParseUnit(Aligned(held)).consumed = 0)
<1>1. PICK m \in 0..n : e[m] <= at /\ held = SubSeq(s, e[m] + 1, at) /\ given = SubSeq(t, 1, f[m])
  BY Zenon DEF Progress
<1>2. s \in Bytes /\ Len(s) \in Nat /\ e \in [0..n -> 0..Len(s)] /\ e[n] = Len(s) /\ t \in Pieces(Byte)
  <2>1. Bounds(n, s, e, t, f)
    BY LaidBounds, Zenon
  <2> QED
    BY <2>1, Zenon DEF Bounds
<1>3. PICK b \in Nat : b = e[m]
  BY <1>2
<1>4. PICK x \in Bytes : IsSlice(x, s, b, at)
  BY <1>1, <1>2, <1>3, SliceIs DEF Bytes
<1>5. held = x /\ Len(x) = at - b
  BY <1>1, <1>3, <1>4, Zenon DEF IsSlice
<1>6. PICK l \in Nat : l = at - b
  BY <1>1, <1>3
<1>7. CASE m = n
  <2>1. l < 4
    BY <1>1, <1>2, <1>3, <1>6, <1>7
  <2>2. Len(held) < 4
    BY <1>5, <1>6, <2>1
  <2> QED
    BY <1>1, <1>7, <2>2, Zenon DEF Progress
<1>8. CASE m # n
  <2>1. m \in 0..(n - 1) /\ m + 1 \in 0..n
    BY <1>8
  <2>2. PICK b2, size, g, h \in Nat, unit \in Bytes, nalus \in Pieces(Byte) :
           Ahead(s, e, t, f, m, b2, size, unit, g, h, nalus)
    BY <2>1, UnitAhead, Zenon
  <2>3. e[m] = b2 /\ e[m + 1] = b2 + size /\ f[m] = g /\ f[m + 1] = h /\ size >= 6
    BY <2>2, Zenon DEF Ahead, UnitOf
  <2>4. b2 = b
    BY <1>3, <2>3
  <2>5. CASE l < 4
    <3>1. at < e[m + 1] /\ Len(held) < 4
      BY <1>5, <1>6, <2>3, <2>4, <2>5
    <3> QED
      BY <1>1, <3>1, Zenon DEF Progress
  <2>6. CASE ~(l < 4)
    <3>1. b <= at /\ l >= 4 /\ ~(Len(held) < 4)
      BY <1>1, <1>3, <1>5, <1>6, <2>6
    <3>2. /\ Aligned(x) = x
          /\ ParseUnit(x) = IF l < size THEN Wait ELSE [consumed |-> size, nalus |-> nalus]
          /\ l >= size => Drop(x, size) = SubSeq(s, (b + size) + 1, at)
          /\ SubSeq(t, 1, g) \o nalus = SubSeq(t, 1, h)
      <4>1. Arrived(x, s, b, at, l)
        BY <1>4, <1>6, <3>1, Zenon DEF Arrived
      <4>2. Ahead(s, e, t, f, m, b, size, unit, g, h, nalus)
        BY <2>2, <2>4, Zenon
      <4> QED
        <5>1. Taken(x, s, b, at, l, t, size, g, h, nalus)
          BY <1>2, <4>1, <4>2, Turn
        <5> QED
          BY <5>1, Zenon DEF Taken
    <3> DEFINE r == ParseUnit(x)
    <3>3. CASE l < size
      <4>1. r = Wait
        BY <3>2, <3>3, Zenon
      <4>2. r.consumed = 0 /\ r.nalus = <<>>
        <5>1. Wait.consumed = 0 /\ Wait.nalus = <<>>
          BY DEF Wait
        <5> QED
          BY <4>1, <5>1, Zenon
      <4>3. Drop(x, 0) = x
        <5>1. SubSeq(x, 1, Len(x)) = x
          BY SubSeqFull DEF Bytes
        <5>2. 0 + 1 = 1
          OBVIOUS
        <5> QED
          BY <5>1, <5>2, Zenon DEF Drop
      <4>4. given \o <<>> = given
        <5>1. \E y \in Seq(Seq(Byte)) : IsSlice(y, t, 0, g)
          <6>1. t \in Seq(Seq(Byte)) /\ 0 \in Nat /\ 0 <= g /\ g <= Len(t)
            <7>1. g <= h /\ h <= Len(t)
              BY <2>2, Zenon DEF Ahead
            <7>2. Len(t) \in Nat
              BY LaidBounds, Zenon DEF Bounds
            <7> QED
              BY <1>2, <7>1, <7>2 DEF Pieces
          <6> QED
            BY <6>1, SliceIs
        <5>2. 0 + 1 = 1
          OBVIOUS
        <5>3. given \in Seq(Seq(Byte))
          BY <1>1, <2>3, <5>1, <5>2, Zenon DEF IsSlice
        <5> QED
          BY <5>3, ConcatEmptySeq
      <4>5. at < e[m + 1]
        BY <1>6, <2>3, <2>4, <3>3
      <4>6. Progress(n, s, e, t, f, at, Drop(x, r.consumed), given \o r.nalus, r.consumed = 0)
        BY <1>1, <1>5, <4>2, <4>3, <4>4, <4>5, Zenon DEF Progress
      <4> QED
        BY <1>5, <3>1, <3>2, <4>6, Zenon
    <3>4. CASE ~(l < size)
      <4>1. r = [consumed |-> size, nalus |-> nalus]
        BY <3>2, <3>4, Zenon
      <4>2. r.consumed = size /\ r.nalus = nalus
        <5>1. /\ [consumed |-> size, nalus |-> nalus].consumed = size
              /\ [consumed |-> size, nalus |-> nalus].nalus = nalus
          OBVIOUS
        <5> QED
          BY <4>1, <5>1, Zenon
      <4>3. Drop(x, size) = SubSeq(s, e[m + 1] + 1, at)
        <5>1. l >= size
          BY <3>4
        <5> QED
          BY <2>3, <2>4, <3>2, <5>1, Zenon
      <4>4. given \o nalus = SubSeq(t, 1, f[m + 1])
        BY <1>1, <2>3, <3>2, Zenon
      <4>5. e[m + 1] <= at /\ size # 0
        BY <1>6, <2>3, <2>4, <3>4
      <4>6. Progress(n, s, e, t, f, at, Drop(x, r.consumed), given \o r.nalus, r.consumed = 0)
        <5>1. ~(r.consumed = 0)
          BY <4>2, <4>5, Zenon
        <5> QED
          BY <2>1, <4>2, <4>3, <4>4, <4>5, <5>1, Zenon DEF Progress
      <4> QED
        BY <1>5, <3>1, <3>2, <4>6, Zenon
    <3> QED
      BY <3>3, <3>4
  <2> QED
    BY <2>5, <2>6
<1> QED
  BY <1>7, <1>8

LEMMA OrderlyBegins ==
    ASSUME NEW n \in Nat, units \in [1..n -> Measured],
           fed = 0, buffer = <<>>, idle = TRUE, out = <<>>
    PROVE  Orderly(n)
<1>1. PICK w, e, v, f : LaidOut(n, units, Stream, w, e, Sent, v, f)
  BY UnitsOf
<1>2. Bounds(n, Stream, e, Sent, f)
  BY <1>1, LaidBounds
<1>3. Len(Stream) \in Nat /\ e[0] = 0 /\ f[0] = 0
  BY <1>2, Zenon DEF Bounds
<1>4. ASSUME n # 0 PROVE 0 < e[0 + 1]
  <2>1. 0 \in 0..(n - 1)
    BY <1>4
  <2>2. PICK b, size, g, h \in Nat, unit \in Bytes, nalus \in Pieces(Byte) :
           Ahead(Stream, e, Sent, f, 0, b, size, unit, g, h, nalus)
    BY <1>1, <2>1, UnitAhead, Zenon
  <2>3. e[0 + 1] = b + size /\ size >= 6
    BY <2>2, Zenon DEF Ahead, UnitOf
  <2> QED
    BY <2>3
<1>5. SubSeq(Stream, e[0] + 1, 0) = <<>> /\ SubSeq(Sent, 1, f[0]) = <<>>
  BY <1>3, SubSeqEmpty
<1>6. 0 \in 0..n /\ e[0] <= 0 /\ (0 = n \/ 0 < e[0 + 1])
  BY <1>3, <1>4
<1>7. Progress(n, Stream, e, Sent, f, fed, buffer, out, idle)
  BY <1>5, <1>6, Zenon DEF Progress
<1> QED
  BY <1>1, <1>7, Zenon DEF Orderly

LEMMA PsBegins ==
    ASSUME NEW m \in Nat, units \in [1..m -> Units],
           fed = 0, buffer = <<>>, idle = TRUE, out = <<>>
    PROVE  PsInv
<1>1. Stream \in Bytes /\ Len(Stream) \in Nat
  BY StreamIs, BytesAre
<1>2. Buffered(Stream, 0, <<>>, <<>>)
  <2>1. SubSeq(Stream, 0 + 1, 0) = <<>>
    BY <1>1, SubSeqEmpty
  <2>2. 0 \in Nat /\ 0 <= 0 /\ 0 <= Len(Stream)
    BY <1>1
  <2>3. <<>> \in Seq(Genuines(Stream))
    BY EmptySeq
  <2> QED
    BY <1>1, <2>1, <2>2, <2>3, Zenon DEF Buffered
<1>3. \A n \in Nat : units \in [1..n -> Measured] => Orderly(n)
  BY OrderlyBegins
<1>4. fed \in 0..Len(Stream) /\ idle \in BOOLEAN
  BY <1>1
<1>5. \E n \in Nat : units \in [1..n -> Units]
  OBVIOUS
<1> QED
  BY <1>2, <1>3, <1>4, <1>5, Zenon DEF PsInv

LEMMA PsInitInv == PsInit => PsInv
<1> SUFFICES ASSUME PsInit PROVE PsInv
  OBVIOUS
<1>1. /\ units \in UNION {[1..n -> Units] : n \in 1..MaxUnits}
      /\ fed = 0 /\ buffer = <<>> /\ idle = TRUE /\ out = <<>>
  BY DEF PsInit
<1>2. PICK n \in Nat : units \in [1..n -> Units]
  <2>1. 1..MaxUnits \subseteq Nat
    BY DevicesSendPS
  <2> QED
    BY <1>1, <2>1
<1> QED
  BY <1>1, <1>2, PsBegins

\* A step that keeps both parts.
StepKeeps ==
    /\ fed' \in 0..Len(Stream) /\ idle' \in BOOLEAN
    /\ Buffered(Stream, fed', buffer', out')
    /\ \A n \in Nat : \A e, f : \A w, v :
          /\ LaidOut(n, units, Stream, w, e, Sent, v, f)
          /\ Progress(n, Stream, e, Sent, f, fed, buffer, out, idle)
          => Progress(n, Stream, e, Sent, f, fed', buffer', out', idle')

LEMMA InvKept ==
    ASSUME PsInv, units' = units, StepKeeps
    PROVE  PsInv'
<1>1. Stream' = Stream /\ Sent' = Sent
  BY Zenon DEF Stream, Sent
<1>2. (fed \in 0..Len(Stream))' /\ (idle \in BOOLEAN)' /\ Buffered(Stream', fed', buffer', out')
  BY <1>1, Zenon DEF StepKeeps
<1>3. ASSUME NEW n \in Nat, units' \in [1..n -> Measured] PROVE Orderly(n)'
  <2>1. Orderly(n)
    BY <1>3, Zenon DEF PsInv
  <2>2. PICK w, e, v, f :
          /\ LaidOut(n, units, Stream, w, e, Sent, v, f)
          /\ Progress(n, Stream, e, Sent, f, fed, buffer, out, idle)
    BY <2>1, Zenon DEF Orderly
  <2>3. Progress(n, Stream, e, Sent, f, fed', buffer', out', idle')
    BY <2>2, Zenon DEF StepKeeps
  <2>4. /\ LaidOut(n, units', Stream', w, e, Sent', v, f)
        /\ Progress(n, Stream', e, Sent', f, fed', buffer', out', idle')
    BY <1>1, <2>2, <2>3, Zenon
  <2> QED
    BY <2>4, Zenon DEF Orderly
<1>4. \E n \in Nat : units' \in [1..n -> Units]
  BY Zenon DEF PsInv
<1> QED
  BY <1>2, <1>3, <1>4, Zenon DEF PsInv

LEMMA FeedStep ==
    ASSUME PsInv, Feed
    PROVE  StepKeeps
<1>1. fed \in 0..Len(Stream) /\ idle \in BOOLEAN /\ Buffered(Stream, fed, buffer, out)
  BY Zenon DEF PsInv
<1>2. Len(Stream) \in Nat
  BY <1>1, BytesAre DEF Buffered
<1>3. PICK last \in (fed + 1)..Len(Stream), form \in Forms :
        /\ buffer' = buffer \o ParseRTP(Packet(SubSeq(Stream, fed + 1, last), form))
        /\ fed' = last
  BY Zenon DEF Feed
<1>4. idle' = FALSE /\ out' = out
  BY Zenon DEF Feed
<1>5. fed \in Nat /\ last \in Nat /\ fed < last /\ last <= Len(Stream) /\ fed <= Len(Stream)
      /\ fed' \in 0..Len(Stream)
  BY <1>1, <1>2, <1>3
<1>6. Buffered(Stream, fed', buffer', out')
  <2>1. Buffered(Stream, last, buffer \o ParseRTP(Packet(SubSeq(Stream, fed + 1, last), form)), out)
    BY <1>1, <1>5, FeedKept
  <2> QED
    BY <1>3, <1>4, <2>1, Zenon
<1>7. ASSUME NEW n \in Nat, NEW e, NEW f, NEW w, NEW v,
             LaidOut(n, units, Stream, w, e, Sent, v, f),
             Progress(n, Stream, e, Sent, f, fed, buffer, out, idle)
      PROVE  Progress(n, Stream, e, Sent, f, fed', buffer', out', idle')
  <2>1. Progress(n, Stream, e, Sent, f, last,
                 buffer \o ParseRTP(Packet(SubSeq(Stream, fed + 1, last), form)), out, FALSE)
    BY <1>5, <1>7, FeedKeeps
  <2> QED
    BY <1>3, <1>4, <2>1, Zenon
<1>8. idle' \in BOOLEAN
  BY <1>4
<1> QED
  BY <1>5, <1>6, <1>7, <1>8, Zenon DEF StepKeeps

LEMMA ParseOneStep ==
    ASSUME PsInv, ParseOne
    PROVE  StepKeeps
<1>1. fed \in 0..Len(Stream) /\ idle \in BOOLEAN /\ Buffered(Stream, fed, buffer, out)
  BY Zenon DEF PsInv
<1>2. Len(Stream) \in Nat
  BY <1>1, BytesAre DEF Buffered
<1>3. fed \in Nat /\ fed <= Len(Stream)
  BY <1>1, <1>2
<1>4. ~idle /\ fed' = fed
  BY Zenon DEF ParseOne
<1>5. idle = FALSE
  BY <1>1, <1>4
<1>6. CASE Len(buffer) < 4
  <2>1. idle' = TRUE /\ buffer' = buffer /\ out' = out
    BY <1>6, Zenon DEF ParseOne
  <2>2. ASSUME NEW n \in Nat, NEW e, NEW f, NEW w, NEW v,
               LaidOut(n, units, Stream, w, e, Sent, v, f),
               Progress(n, Stream, e, Sent, f, fed, buffer, out, idle)
        PROVE  Progress(n, Stream, e, Sent, f, fed', buffer', out', idle')
    <3>1. Progress(n, Stream, e, Sent, f, fed, buffer, out, FALSE)
      BY <1>5, <2>2, Zenon
    <3>2. Progress(n, Stream, e, Sent, f, fed, buffer, out, TRUE)
      BY <1>3, <1>6, <2>2, <3>1, TurnKeeps
    <3> QED
      BY <1>4, <2>1, <3>2, Zenon
  <2>3. Buffered(Stream, fed', buffer', out') /\ idle' \in BOOLEAN /\ fed' \in 0..Len(Stream)
    BY <1>1, <1>4, <2>1, Zenon
  <2> QED
    BY <2>2, <2>3, Zenon DEF StepKeeps
<1>7. CASE ~(Len(buffer) < 4)
  <2>1. /\ buffer' = Drop(Aligned(buffer), ParseUnit(Aligned(buffer)).consumed)
        /\ out' = out \o ParseUnit(Aligned(buffer)).nalus
        /\ idle' = (ParseUnit(Aligned(buffer)).consumed = 0)
    BY <1>7, Zenon DEF ParseOne
  <2>2. ASSUME NEW n \in Nat, NEW e, NEW f, NEW w, NEW v,
               LaidOut(n, units, Stream, w, e, Sent, v, f),
               Progress(n, Stream, e, Sent, f, fed, buffer, out, idle)
        PROVE  Progress(n, Stream, e, Sent, f, fed', buffer', out', idle')
    <3>1. Progress(n, Stream, e, Sent, f, fed, buffer, out, FALSE)
      BY <1>5, <2>2, Zenon
    <3>2. Progress(n, Stream, e, Sent, f, fed, Drop(Aligned(buffer), ParseUnit(Aligned(buffer)).consumed),
                   out \o ParseUnit(Aligned(buffer)).nalus, ParseUnit(Aligned(buffer)).consumed = 0)
      BY <1>3, <1>7, <2>2, <3>1, TurnKeeps
    <3> QED
      BY <1>4, <2>1, <3>2, Zenon
  <2>3. Buffered(Stream, fed, Drop(Aligned(buffer), ParseUnit(Aligned(buffer)).consumed),
             out \o ParseUnit(Aligned(buffer)).nalus)
    BY <1>1, <1>3, <1>7, TurnKept
  <2>4. Buffered(Stream, fed', buffer', out')
    BY <1>4, <2>1, <2>3, Zenon
  <2>5. idle' \in BOOLEAN /\ fed' \in 0..Len(Stream)
    BY <1>1, <1>4, <2>1, Zenon
  <2> QED
    BY <2>2, <2>4, <2>5, Zenon DEF StepKeeps
<1> QED
  BY <1>6, <1>7

LEMMA PsNextInv == PsInv /\ [PsNext]_psVars => PsInv'
<1> SUFFICES ASSUME PsInv, [PsNext]_psVars PROVE PsInv'
  OBVIOUS
<1>1. CASE Feed
  <2>1. units' = units /\ StepKeeps
    BY <1>1, FeedStep, Zenon DEF Feed
  <2> QED
    BY <2>1, InvKept
<1>2. CASE ParseOne
  <2>1. units' = units /\ StepKeeps
    BY <1>2, ParseOneStep, Zenon DEF ParseOne
  <2> QED
    BY <2>1, InvKept
<1>3. CASE UNCHANGED psVars
  <2>1. units' = units /\ fed' = fed /\ buffer' = buffer /\ idle' = idle /\ out' = out
    BY <1>3 DEF psVars
  <2>2. StepKeeps
    BY <2>1, Zenon DEF PsInv, StepKeeps
  <2> QED
    BY <2>1, <2>2, InvKept
<1> QED
  BY <1>1, <1>2, <1>3 DEF PsNext

\* If every PES gives its length, all is delivered, in order.
LEMMA OrderlyExact ==
    ASSUME NEW n \in Nat, Orderly(n), fed \in 0..Len(Stream)
    PROVE  IsPrefix(out, Sent) /\ (idle /\ fed = Len(Stream) => out = Sent)
<1>2. PICK w, e, v, f :
        /\ LaidOut(n, units, Stream, w, e, Sent, v, f)
        /\ Progress(n, Stream, e, Sent, f, fed, buffer, out, idle)
  BY Zenon DEF Orderly
<1>3. /\ Sent \in Pieces(Byte) /\ Len(Stream) \in Nat /\ Len(Sent) \in Nat
      /\ e \in [0..n -> 0..Len(Stream)] /\ f \in [0..n -> 0..Len(Sent)]
      /\ e[n] = Len(Stream) /\ f[n] = Len(Sent)
      /\ \A m \in 0..n : \A j \in 0..n : m <= j => e[m] <= e[j]
  <2>1. Bounds(n, Stream, e, Sent, f)
    BY <1>2, LaidBounds
  <2> QED
    BY <2>1, Zenon DEF Bounds
<1>6. PICK m \in 0..n : out = SubSeq(Sent, 1, f[m]) /\ (idle => m = n \/ fed < e[m + 1])
  BY <1>2, Zenon DEF Progress
<1>7. PICK g \in Nat : g = f[m] /\ g <= Len(Sent)
  BY <1>3
<1>8. Len(out) = g
  <2>1. Sent \in Seq(Seq(Byte)) /\ 0 \in Nat /\ 0 <= g
    BY <1>3 DEF Pieces
  <2>2. \E x \in Seq(Seq(Byte)) : IsSlice(x, Sent, 0, g)
    BY <1>7, <2>1, SliceIs
  <2>3. 0 + 1 = 1 /\ g - 0 = g
    OBVIOUS
  <2> QED
    BY <1>6, <1>7, <2>2, <2>3, Zenon DEF IsSlice
<1>9. SubSeq(out, 1, Len(out)) = out
  <2>1. Sent \in Seq(Seq(Byte)) /\ 0 \in Nat /\ 0 <= g
    BY <1>3 DEF Pieces
  <2>2. \E x \in Seq(Seq(Byte)) : IsSlice(x, Sent, 0, g)
    BY <1>7, <2>1, SliceIs
  <2>3. out \in Seq(Seq(Byte))
    <3>1. 0 + 1 = 1
      OBVIOUS
    <3> QED
      BY <1>6, <1>7, <2>2, <3>1, Zenon DEF IsSlice
  <2> QED
    BY <2>3, SubSeqFull
<1>10. IsPrefix(out, Sent)
  BY <1>6, <1>7, <1>8, <1>9, Zenon DEF IsPrefix
<1>11. ASSUME idle, fed = Len(Stream) PROVE out = Sent
  <2>1. m = n
    <3>1. ASSUME m # n PROVE FALSE
      <4>1. m + 1 \in 0..n /\ n \in 0..n /\ m + 1 <= n
        BY <3>1
      <4>2. e[m + 1] <= Len(Stream) /\ fed < e[m + 1]
        BY <1>3, <1>6, <1>11, <3>1, <4>1
      <4>3. e[m + 1] \in Nat
        BY <1>3, <4>1
      <4> QED
        BY <1>3, <1>11, <4>2, <4>3
    <3> QED
      BY <3>1
  <2>2. Sent \in Seq(Seq(Byte))
    BY <1>3 DEF Pieces
  <2>3. SubSeq(Sent, 1, Len(Sent)) = Sent
    BY <2>2, SubSeqFull
  <2> QED
    BY <1>3, <1>6, <2>1, <2>3, Zenon
<1> QED
  BY <1>10, <1>11

LEMMA PsInvExact == PsInv => Len(buffer) <= fed /\ DemuxExact
<1> SUFFICES ASSUME PsInv PROVE Len(buffer) <= fed /\ DemuxExact
  OBVIOUS
<1>1. fed \in 0..Len(Stream) /\ Buffered(Stream, fed, buffer, out)
  BY Zenon DEF PsInv
<1>2. fed \in Nat
  BY <1>1, BytesAre DEF Buffered
<1>3. Len(buffer) <= fed
  BY <1>1, <1>2, KeptBounded
<1>4. ASSUME NEW i \in DOMAIN out PROVE Genuine(Stream, out[i])
  <2>1. out \in Seq(Genuines(Stream))
    BY <1>1, Zenon DEF Buffered
  <2>2. out[i] \in Genuines(Stream)
    BY <1>4, <2>1, ElementOfSeq, LenProperties
  <2> QED
    BY <2>2, Zenon DEF Genuines
<1>5. ASSUME \A i \in DOMAIN units : units[i].kind # "open"
      PROVE  IsPrefix(out, Sent) /\ (idle /\ fed = Len(Stream) => out = Sent)
  <2>1. PICK n \in Nat : units \in [1..n -> Units]
    BY Zenon DEF PsInv
  <2>2. units \in [1..n -> Measured]
    <3>1. \A i \in 1..n : units[i] \in Measured
      BY <1>5, <2>1 DEF Measured
    <3> QED
      BY <2>1, <3>1
  <2>3. Orderly(n)
    BY <2>2, Zenon DEF PsInv
  <2> QED
    BY <1>1, <2>3, OrderlyExact
<1> QED
  BY <1>3, <1>4, <1>5, Zenon DEF DemuxExact

\* The device sends one stream.
PsUnits == units \in UNION {[1..n -> Units] : n \in 1..MaxUnits}

LEMMA PsTyped == PsInv /\ PsUnits => PsTypeOK
BY PsInvExact, Zenon DEF PsInv, PsUnits, PsTypeOK

LEMMA PsUnitsKept == PsUnits /\ [PsNext]_psVars => PsUnits'
<1> SUFFICES ASSUME PsUnits, [PsNext]_psVars PROVE PsUnits'
  OBVIOUS
<1>1. units' = units
  BY Zenon DEF PsNext, Feed, ParseOne, psVars
<1> QED
  BY <1>1, Zenon DEF PsUnits

\* However a stream is cut into packets, the demuxer holds no more than has
\* arrived, and nothing it delivers is joined of two NAL units.  If every PES
\* gives its length, it delivers of each NAL unit the part in the PES with its
\* start code, in order, and of all of them when all has arrived.  What of a unit
\* stands in a further PES, and units of a PES without a length, may be lost
\* (parseRTP, PSDemuxer).
THEOREM PacketsDemuxed == PsSpec => [](PsTypeOK /\ DemuxExact)
<1>1. PsInit => PsInv /\ PsUnits
  BY PsInitInv, Zenon DEF PsInit, PsUnits
<1>2. PsInv /\ PsUnits /\ [PsNext]_psVars => (PsInv /\ PsUnits)'
  BY PsNextInv, PsUnitsKept
<1>3. PsInv /\ PsUnits => PsTypeOK /\ DemuxExact
  BY PsInvExact, PsTyped
<1> QED
  BY <1>1, <1>2, <1>3, PTL DEF PsSpec

-----------------------------------------------------------------------------
(* LocalRtsp: what a receiver makes of the packets *)

Loads   == [fu : {FALSE}, bytes : Bytes] \cup
           [fu : {TRUE}, start : BOOLEAN, end : BOOLEAN, type : 0..31, ref : 0..3, bytes : Bytes]
Packets == [seq : Nat, load : Loads]
Receipts == [units : Seq(Bytes), part : Bytes]

LEMMA TakesTyped ==
    ASSUME NEW r \in Receipts, NEW load \in Loads
    PROVE  Takes(r, load) \in Receipts
<1> DEFINE part == (IF load.start THEN <<32 * load.ref + load.type>> ELSE r.part) \o load.bytes
<1>1. r.units \in Seq(Bytes) /\ r.part \in Bytes /\ load.bytes \in Bytes /\ <<>> \in Bytes
  BY EmptySeq DEF Receipts, Loads, Bytes
<1>2. CASE ~load.fu
  <2>1. Append(r.units, load.bytes) \in Seq(Bytes)
    BY <1>1, AppendProperties
  <2>2. Takes(r, load) = [units |-> Append(r.units, load.bytes), part |-> <<>>]
    BY <1>2 DEF Takes
  <2> QED
    BY <1>1, <2>1, <2>2 DEF Receipts
<1>3. CASE load.fu
  <2>1. load.ref \in 0..3 /\ load.type \in 0..31
    BY <1>3 DEF Loads
  <2>2. 32 * load.ref + load.type \in Byte
    BY <2>1 DEF Byte
  <2>3. <<32 * load.ref + load.type>> \in Bytes
    BY <2>2 DEF Bytes
  <2>4. part \in Bytes
    BY <1>1, <2>3, ConcatProperties DEF Bytes
  <2>5. Append(r.units, part) \in Seq(Bytes)
    BY <1>1, <2>4, AppendProperties
  <2>6. Takes(r, load) = IF load.end THEN [units |-> Append(r.units, part), part |-> <<>>]
                         ELSE [units |-> r.units, part |-> part]
    BY <1>3 DEF Takes
  <2> HIDE DEF part
  <2> QED
    BY <1>1, <2>4, <2>5, <2>6 DEF Receipts
<1> QED
  BY <1>2, <1>3

\* The equation of Received has a solution, and Received is its last value.
LEMMA ReceivedIs ==
    ASSUME NEW ps \in Seq(Packets)
    PROVE  \E f : /\ f = [i \in 0..Len(ps) |-> IF i = 0 THEN Nothing ELSE Takes(f[i - 1], ps[i].load)]
                  /\ \A i \in 0..Len(ps) : f[i] \in Receipts
                  /\ Received(ps) = f[Len(ps)]
<1> DEFINE n == Len(ps)
           Solves(f) == f = [i \in 0..n |-> IF i = 0 THEN Nothing ELSE Takes(f[i - 1], ps[i].load)]
           step == [i \in 1..n |-> [r \in Receipts |-> Takes(r, ps[i].load)]]
<1>1. n \in Nat /\ \A i \in 1..n : ps[i].load \in Loads
  <2>1. n \in Nat
    BY LenProperties
  <2>2. \A i \in 1..n : ps[i] \in Packets
    BY ElementOfSeq
  <2> QED
    BY <2>1, <2>2 DEF Packets
<1>2. Nothing \in Receipts
  BY EmptySeq DEF Nothing, Receipts, Bytes
<1>3. step \in [1..n -> [Receipts -> Receipts]]
  BY <1>1, TakesTyped
<1>4. PICK g \in [0..n -> Receipts] : g[0] = Nothing /\ \A i \in 1..n : g[i] = step[i][g[i - 1]]
  <2> HIDE DEF step, n
  <2>1. Runs(n, Receipts, Nothing, step) # {}
    BY <1>1, <1>2, <1>3, Recursion
  <2> QED
    BY <2>1 DEF Runs
<1>5. \A i \in 1..n : g[i - 1] \in Receipts /\ g[i] = Takes(g[i - 1], ps[i].load)
  <2> SUFFICES ASSUME NEW i \in 1..n
               PROVE  g[i - 1] \in Receipts /\ g[i] = Takes(g[i - 1], ps[i].load)
    OBVIOUS
  <2>1. i - 1 \in 0..n
    BY <1>1
  <2> QED
    BY <2>1, <1>4
<1>6. Solves(g)
  <2>1. g = [i \in 0..n |-> g[i]]
    OBVIOUS
  <2>2. \A i \in 0..n : g[i] = IF i = 0 THEN Nothing ELSE Takes(g[i - 1], ps[i].load)
    BY <1>1, <1>4, <1>5
  <2> QED
    BY <2>1, <2>2
<1> DEFINE h == CHOOSE f : Solves(f)
<1>7. Solves(h)
  <2> HIDE DEF Solves
  <2> QED
    BY <1>6
<1>8. Received(ps) = h[n]
  BY DEF Received
<1>9. \A i \in 0..n : h[i] = g[i]
  <2>1. h[0] = Nothing /\ \A i \in 1..n : h[i] = Takes(h[i - 1], ps[i].load)
    <3> HIDE DEF h
    <3> QED
      BY <1>1, <1>7
  <2>2. h[0] = g[0] /\ \A i \in 1..n : h[i - 1] = g[i - 1] => h[i] = g[i]
    <3> HIDE DEF h
    <3> QED
      BY <1>4, <1>5, <2>1
  <2> HIDE DEF h
  <2> QED
    BY <1>1, <2>2, SameRecursion
<1>10. \A i \in 0..n : h[i] \in Receipts
  BY <1>9
<1> HIDE DEF h
<1> QED
  BY <1>7, <1>8, <1>10

LEMMA ReceivedAppend ==
    ASSUME NEW ps \in Seq(Packets), NEW p \in Packets
    PROVE  Received(Append(ps, p)) = Takes(Received(ps), p.load)
<1> DEFINE n == Len(ps)
           qs == Append(ps, p)
<1>1. /\ n \in Nat /\ qs \in Seq(Packets) /\ Len(qs) = n + 1
      /\ \A i \in 1..n : qs[i] = ps[i]
      /\ qs[n + 1] = p
  BY LenProperties, AppendProperties
<1>2. PICK f : /\ f = [i \in 0..n |-> IF i = 0 THEN Nothing ELSE Takes(f[i - 1], ps[i].load)]
               /\ Received(ps) = f[n]
  BY ReceivedIs
<1> HIDE DEF qs
<1>3. PICK g : /\ g = [i \in 0..Len(qs) |-> IF i = 0 THEN Nothing ELSE Takes(g[i - 1], qs[i].load)]
               /\ Received(qs) = g[Len(qs)]
  BY <1>1, ReceivedIs
<1> HIDE DEF n
<1>4. f[0] = Nothing /\ \A i \in 1..n : f[i] = Takes(f[i - 1], ps[i].load)
  BY <1>1, <1>2
<1>5. g[0] = Nothing /\ \A i \in 1..(n + 1) : g[i] = Takes(g[i - 1], qs[i].load)
  BY <1>1, <1>3
<1>6. f[0] = g[0] /\ \A i \in 1..n : f[i - 1] = g[i - 1] => f[i] = g[i]
  <2>1. \A i \in 1..n : i \in 1..(n + 1)
    BY <1>1
  <2>2. ASSUME NEW i \in 1..n, f[i - 1] = g[i - 1] PROVE f[i] = g[i]
    <3>1. f[i] = Takes(f[i - 1], ps[i].load) /\ g[i] = Takes(g[i - 1], qs[i].load) /\ qs[i] = ps[i]
      BY <1>1, <1>4, <1>5, <2>1, Zenon
    <3> QED
      BY <2>2, <3>1, Zenon
  <2> QED
    BY <1>4, <1>5, <2>2, Zenon
<1>7. \A i \in 0..n : f[i] = g[i]
  <2>1. n \in Nat /\ f[0] = g[0] /\ \A i \in 1..n : f[i - 1] = g[i - 1] => f[i] = g[i]
    BY <1>1, <1>6, Zenon
  <2> QED
    BY <2>1, SameRecursion, Zenon
<1>8. f[n] = g[n] /\ g[n + 1] = Takes(g[n], p.load)
  <2>1. n \in 0..n /\ n + 1 \in 1..(n + 1) /\ (n + 1) - 1 = n
    BY <1>1
  <2> QED
    BY <1>1, <1>5, <1>7, <2>1, Zenon
<1> QED
  BY <1>1, <1>2, <1>3, <1>8 DEF qs

LEMMA ReceivedEmpty == Received(<<>>) = Nothing
<1>1. PICK f : /\ f = [i \in 0..Len(<<>>) |-> IF i = 0 THEN Nothing ELSE Takes(f[i - 1], <<>>[i].load)]
               /\ Received(<<>>) = f[Len(<<>>)]
  <2>1. <<>> \in Seq(Packets)
    BY EmptySeq
  <2> QED
    BY <2>1, ReceivedIs
<1>2. Len(<<>>) = 0 /\ 0 \in 0..0
  OBVIOUS
<1> QED
  BY <1>1, <1>2

-----------------------------------------------------------------------------
(* LocalRtsp: the NAL units of a read *)

\* Not empty, and without the bit that a packet does not carry.
NalUnits == {u \in Bytes : u # <<>> /\ u[1] < 128}

LEMMA NalUnitIs ==
    ASSUME NEW u \in NalUnits
    PROVE  Len(u) \in Nat \ {0} /\ DOMAIN u = 1..Len(u) /\ u[1] \in 0..127 /\ u \in Bytes
<1>1. u \in Seq(Byte) /\ u # <<>>
  BY DEF NalUnits, Bytes
<1>2. Len(u) \in Nat \ {0} /\ DOMAIN u = 1..Len(u)
  BY <1>1, EmptySeq, LenProperties
<1>3. u[1] \in Byte
  BY <1>1, <1>2, ElementOfSeq
<1>4. u[1] < 128
  BY DEF NalUnits
<1>5. u[1] \in 0..127
  BY <1>3, <1>4 DEF Byte
<1> QED
  BY <1>1, <1>2, <1>5 DEF Bytes

LEMMA UnitAtIs ==
    ASSUME NEW s \in Chunks, NEW i \in 1..Len(s), IsCode(s, i), UnitAt(s, i) # <<>>
    PROVE  UnitAt(s, i) \in NalUnits
<1> DEFINE later == {k \in (i + 3)..Len(s) : IsCode(s, k)}
           last  == IF later = {} THEN Len(s)
                    ELSE IF s[Min(later) - 1] = 0 THEN Min(later) - 2 ELSE Min(later) - 1
<1>1. s \in Seq(Byte) /\ Len(s) \in Nat /\ DOMAIN s = 1..Len(s)
  BY FFmpegWritesH264, LenProperties DEF Byte
<1>2. last \in 0..Len(s)
  <2>1. CASE later = {}
    BY <1>1, <2>1
  <2>2. CASE later # {}
    <3>1. later \in SUBSET Nat
      BY <1>1
    <3>2. Min(later) \in later
      <4> HIDE DEF later
      <4> QED
        BY <3>1, <2>2, MinIs
    <3>3. Min(later) \in (i + 3)..Len(s)
      BY <3>2
    <3> QED
      BY <1>1, <2>2, <3>3
  <2> QED
    BY <2>1, <2>2
<1>3. UnitAt(s, i) = SubSeq(s, i + 3, last)
  BY DEF UnitAt
<1> HIDE DEF last
<1>4. \A j \in (i + 3)..last : s[j] \in Byte
  BY <1>1, <1>2, ElementOfSeq
<1>5. /\ UnitAt(s, i) \in Seq(Byte)
      /\ Len(UnitAt(s, i)) = IF i + 3 <= last THEN last - (i + 3) + 1 ELSE 0
      /\ \A j \in 1..(last - (i + 3) + 1) : UnitAt(s, i)[j] = s[(i + 3) + j - 1]
  BY <1>2, <1>3, <1>4, SubSeqProperties
<1>6. Len(UnitAt(s, i)) \in Nat \ {0}
  BY <1>5, EmptySeq
<1>7. i + 3 <= last /\ i + 3 <= Len(s)
  BY <1>1, <1>2, <1>5, <1>6
<1>8. UnitAt(s, i)[1] = s[i + 3]
  <2>1. 1 \in 1..(last - (i + 3) + 1) /\ (i + 3) + 1 - 1 = i + 3
    BY <1>2, <1>7
  <2> QED
    BY <1>5, <2>1
<1>9. s[i + 3] < 128
  BY <1>1, <1>7, FFmpegWritesH264
<1> QED
  BY <1>5, <1>8, <1>9 DEF NalUnits, Bytes

LEMMA SplitNALUsIs == ASSUME NEW s \in Chunks PROVE SplitNALUs(s) \in Seq(NalUnits)
<1> DEFINE n == Len(s)
           Solves(f) == f = [i \in 0..n |-> IF i = 0 THEN <<>> ELSE WithUnitAt(f[i - 1], s, i)]
           step == [i \in 1..n |-> [us \in Seq(NalUnits) |-> WithUnitAt(us, s, i)]]
<1>1. n \in Nat
  BY FFmpegWritesH264, LenProperties
<1>2. <<>> \in Seq(NalUnits)
  BY EmptySeq
<1>3. step \in [1..n -> [Seq(NalUnits) -> Seq(NalUnits)]]
  <2> SUFFICES ASSUME NEW i \in 1..n, NEW us \in Seq(NalUnits)
               PROVE  WithUnitAt(us, s, i) \in Seq(NalUnits)
    OBVIOUS
  <2> QED
    BY UnitAtIs, AppendProperties DEF WithUnitAt
<1>4. PICK g \in [0..n -> Seq(NalUnits)] : g[0] = <<>> /\ \A i \in 1..n : g[i] = step[i][g[i - 1]]
  <2> HIDE DEF step, n
  <2>1. Runs(n, Seq(NalUnits), <<>>, step) # {}
    BY <1>1, <1>2, <1>3, Recursion
  <2> QED
    BY <2>1 DEF Runs
<1>5. \A i \in 1..n : g[i - 1] \in Seq(NalUnits) /\ g[i] = WithUnitAt(g[i - 1], s, i)
  <2> SUFFICES ASSUME NEW i \in 1..n
               PROVE  g[i - 1] \in Seq(NalUnits) /\ g[i] = WithUnitAt(g[i - 1], s, i)
    OBVIOUS
  <2>1. i - 1 \in 0..n
    BY <1>1
  <2> QED
    BY <2>1, <1>4
<1>6. Solves(g)
  <2>1. g = [i \in 0..n |-> g[i]]
    OBVIOUS
  <2>2. \A i \in 0..n : g[i] = IF i = 0 THEN <<>> ELSE WithUnitAt(g[i - 1], s, i)
    BY <1>1, <1>4, <1>5
  <2> QED
    BY <2>1, <2>2
<1> DEFINE h == CHOOSE f : Solves(f)
<1>7. Solves(h)
  <2> HIDE DEF Solves
  <2> QED
    BY <1>6
<1>8. SplitNALUs(s) = h[n]
  BY DEF SplitNALUs
<1> HIDE DEF h
<1>9. h[0] = <<>> /\ \A i \in 1..n : h[i] = WithUnitAt(h[i - 1], s, i)
  BY <1>1, <1>7
<1>10. h[0] = g[0] /\ \A i \in 1..n : h[i - 1] = g[i - 1] => h[i] = g[i]
  BY <1>4, <1>5, <1>9
<1>11. \A i \in 0..n : h[i] = g[i]
  BY <1>1, <1>10, SameRecursion
<1>12. n \in 0..n
  BY <1>1
<1> QED
  BY <1>8, <1>11, <1>12

\* Parameter sets are units of a read, and nothing before they are seen.
LEMMA FirstOfTypeIs ==
    ASSUME NEW us \in Seq(NalUnits), NEW type
    PROVE  FirstOfType(us, type) \in NalUnits \cup {<<>>}
<1> DEFINE found == {i \in DOMAIN us : OfType(us[i], type)}
<1>1. DOMAIN us = 1..Len(us) /\ Len(us) \in Nat
  BY LenProperties
<1>2. found \in SUBSET Nat
  BY <1>1
<1>3. CASE found # {}
  <2>1. Min(found) \in found
    <3> HIDE DEF found
    <3> QED
      BY <1>2, <1>3, MinIs
  <2>2. us[Min(found)] \in NalUnits
    BY <1>1, <2>1, ElementOfSeq
  <2> QED
    BY <1>3, <2>2 DEF FirstOfType
<1> QED
  BY <1>3 DEF FirstOfType

-----------------------------------------------------------------------------
(* Parts of sequences *)

LEMMA PrefixIs ==
    ASSUME NEW S, NEW s \in Seq(S), NEW t \in Seq(S)
    PROVE  IsPrefix(s, s \o t)
<1>1. /\ s \o t \in Seq(S) /\ Len(s \o t) = Len(s) + Len(t)
      /\ Len(s) \in Nat /\ Len(t) \in Nat
  BY ConcatProperties, LenProperties
<1>2. SubSeq(s \o t, 1, Len(s)) = SubSeq(s, 1, Len(s))
  <2>1. CASE s = <<>>
    BY <2>1, EmptySeq, SubSeqEmpty
  <2>2. CASE s # <<>>
    <3>1. 1 \in 1..Len(s) /\ Len(s) \in 1..Len(s)
      BY <2>2, EmptySeq
    <3> QED
      BY <3>1, SubSeqOfConcat1
  <2> QED
    BY <2>1, <2>2
<1> QED
  BY <1>1, <1>2 DEF IsPrefix

LEMMA HeadIsFirst ==
    ASSUME NEW S, NEW s \in Seq(S), s # <<>>
    PROVE  Head(s) = s[1] /\ s = <<Head(s)>> \o Tail(s) /\ Tail(s) \in Seq(S) /\ Head(s) \in S
<1>1. Len(s) \in Nat \ {0} /\ s = SubSeq(s, 1, Len(s))
  BY EmptySeq, SubSeqFull
<1>2. 1 \in 1..Len(s) /\ Len(s) \in 1..Len(s)
  BY <1>1
<1>3. SubSeq(s, 1, Len(s)) = <<s[1]>> \o SubSeq(s, 1 + 1, Len(s))
  BY <1>2, SubSeqRecursiveFirst
<1>4. Head(s) = s[1]
  OBVIOUS
<1> QED
  BY <1>1, <1>3, <1>4, TailIsSubSeq, HeadTailProperties

\* A unit that is taken from what is to come is one that has come.
LEMMA MovesOn ==
    ASSUME NEW S, NEW s \in Seq(S), NEW t \in Seq(S), t # <<>>
    PROVE  Append(s, Head(t)) \in Seq(S) /\ Append(s, Head(t)) \o Tail(t) = s \o t
<1>1. t = <<Head(t)>> \o Tail(t) /\ Tail(t) \in Seq(S) /\ Head(t) \in S
  BY HeadIsFirst
<1>2. Append(s, Head(t)) = s \o <<Head(t)>> /\ Append(s, Head(t)) \in Seq(S)
  BY <1>1, AppendIsConcat, AppendProperties
<1>3. <<Head(t)>> \in Seq(S)
  BY <1>1
<1>4. (s \o <<Head(t)>>) \o Tail(t) = s \o (<<Head(t)>> \o Tail(t))
  BY <1>1, <1>3, ConcatAssociative
<1> QED
  BY <1>1, <1>2, <1>4

-----------------------------------------------------------------------------
(* LocalRtsp: fragments *)

LEMMA HeaderByte ==
    ASSUME NEW b \in 0..127
    PROVE  /\ b % 32 \in 0..31 /\ (b \div 32) % 4 \in 0..3
           /\ 32 * ((b \div 32) % 4) + (b % 32) = b
OBVIOUS

\* Each fragment goes on where the one before it ended, and the last ends with
\* the unit.
LEMMA FragmentIs ==
    ASSUME NEW u \in NalUnits, NEW offset \in Nat, offset < Len(u) - 1
    PROVE  LET load == Fragment(u, offset)
               n    == Len(load.bytes)
           IN  /\ load \in Loads /\ load.fu /\ (load.start <=> offset = 0)
               /\ n \in Nat \ {0} /\ n + 2 <= MaxPayload /\ offset + n <= Len(u) - 1
               /\ load.end <=> offset + n = Len(u) - 1
               /\ load.start => <<32 * load.ref + load.type>> = SubSeq(u, 1, offset + 1)
               /\ SubSeq(u, 1, offset + 1) \o load.bytes = SubSeq(u, 1, offset + n + 1)
<1> DEFINE size == Len(u) - 1
           to   == IF offset + MaxPayload - 2 > size THEN size ELSE offset + MaxPayload - 2
           load == Fragment(u, offset)
           n    == Len(load.bytes)
<1>1. Len(u) \in Nat \ {0} /\ DOMAIN u = 1..Len(u) /\ u[1] \in 0..127 /\ u \in Seq(Byte)
  BY NalUnitIs DEF Bytes
<1>2. to \in (offset + 1)..size /\ to - offset <= MaxPayload - 2
  BY <1>1, RtspBounds
<1>3. load = [fu |-> TRUE, start |-> offset = 0, end |-> to = size,
              type |-> u[1] % 32, ref |-> (u[1] \div 32) % 4, bytes |-> SubSeq(u, offset + 2, to + 1)]
  BY DEF Fragment
<1> HIDE DEF load, to
<1>4. offset + 2 \in 1..Len(u) /\ to + 1 \in (offset + 2)..Len(u)
  BY <1>1, <1>2
<1>5. load.bytes \in Seq(Byte) /\ n = to - offset
  <2>1. \A i \in (offset + 2)..(to + 1) : u[i] \in Byte
    BY <1>1, <1>4, ElementOfSeq
  <2>2. /\ SubSeq(u, offset + 2, to + 1) \in Seq(Byte)
        /\ Len(SubSeq(u, offset + 2, to + 1)) = IF offset + 2 <= to + 1 THEN (to + 1) - (offset + 2) + 1 ELSE 0
    BY <1>4, <2>1, SubSeqProperties
  <2> QED
    BY <1>2, <1>3, <2>2
<1>6. load \in Loads
  BY <1>1, <1>3, <1>5, HeaderByte DEF Loads, Bytes
<1>7. n \in Nat \ {0} /\ n + 2 <= MaxPayload /\ offset + n <= Len(u) - 1 /\ offset + n + 1 = to + 1
  BY <1>1, <1>2, <1>5, RtspBounds
<1>8. load.fu /\ (load.start <=> offset = 0) /\ (load.end <=> offset + n = Len(u) - 1)
  <2>1. load.fu = TRUE /\ load.start = (offset = 0) /\ load.end = (to = size)
    BY <1>3
  <2>2. to = size <=> offset + n = Len(u) - 1
    BY <1>1, <1>2, <1>5
  <2> QED
    BY <2>1, <2>2
<1>9. load.start => <<32 * load.ref + load.type>> = SubSeq(u, 1, offset + 1)
  <2> SUFFICES ASSUME offset = 0 PROVE <<32 * load.ref + load.type>> = SubSeq(u, 1, 1)
    BY <1>8
  <2>1. 32 * load.ref + load.type = u[1]
    BY <1>1, <1>3, HeaderByte
  <2>2. SubSeq(u, 1, 1) = <<u[1]>> \o SubSeq(u, 2, 1) /\ SubSeq(u, 2, 1) = <<>>
    <3>1. 1 \in 1..Len(u) /\ 1 \in 1..1 /\ 1 + 1 = 2
      BY <1>1
    <3> QED
      BY <1>1, <3>1, SubSeqRecursiveFirst, SubSeqEmpty
  <2>3. <<u[1]>> \in Seq(0..127)
    BY <1>1
  <2> QED
    BY <2>1, <2>2, <2>3, ConcatEmptySeq
<1>10. SubSeq(u, 1, offset + 1) \o load.bytes = SubSeq(u, 1, to + 1)
  <2>1. 1 \in 1..(Len(u) + 1) /\ offset + 1 \in (1 - 1)..Len(u) /\ to + 1 \in (offset + 1)..Len(u)
        /\ (offset + 1) + 1 = offset + 2
    BY <1>1, <1>2, <1>4
  <2>2. SubSeq(u, 1, offset + 1) \o SubSeq(u, (offset + 1) + 1, to + 1) = SubSeq(u, 1, to + 1)
    BY <1>1, <2>1, ConcatAdjacentSubSeq
  <2> QED
    BY <1>3, <2>1, <2>2
<1> QED
  BY <1>6, <1>7, <1>8, <1>9, <1>10 DEF load

-----------------------------------------------------------------------------
(* AnnexB: markers in the bytes of FFmpeg *)

\* A marker stands at place k of s.
MarkAt(s, marker, k) ==
    k + Len(marker) - 1 <= Len(s) /\ SubSeq(s, k, k + Len(marker) - 1) = marker

\* The place r is the first one of the marker from i on, or 0 when there is none.
IsFirst(s, marker, i, r) ==
    \/ r >= i /\ MarkAt(s, marker, r) /\ \A k \in Nat : k >= i /\ k < r => ~MarkAt(s, marker, k)
    \/ r = 0 /\ \A k \in Nat : k >= i => ~MarkAt(s, marker, k)

LEMMA IndexIs ==
    ASSUME NEW s, NEW marker, NEW len \in Nat, len = Len(s), NEW l \in Nat, l = Len(marker),
           NEW i \in Nat, i >= 1
    PROVE  IndexFrom(s, marker, i) \in Nat /\ IsFirst(s, marker, i, IndexFrom(s, marker, i))
<1> DEFINE at == {k \in i..(Len(s) - Len(marker) + 1) : SubSeq(s, k, k + Len(marker) - 1) = marker}
           r == IndexFrom(s, marker, i)
<1>1. r = IF at = {} THEN 0 ELSE Min(at)
  BY Zenon DEF IndexFrom
<1>2. ASSUME NEW k \in Nat, k >= i PROVE MarkAt(s, marker, k) <=> k \in at
  <2>1. k + Len(marker) - 1 <= Len(s) <=> k \in i..(Len(s) - Len(marker) + 1)
    BY <1>2
  <2>2. MarkAt(s, marker, k) <=> (k \in i..(Len(s) - Len(marker) + 1) /\ SubSeq(s, k, k + Len(marker) - 1) = marker)
    BY <2>1, Zenon DEF MarkAt
  <2> QED
    BY <2>2, Zenon
<1>3. at \in SUBSET Nat /\ \A k \in at : k >= i
  OBVIOUS
<1> HIDE DEF at, r
<1>4. CASE at = {}
  <2>1. r = 0
    BY <1>1, <1>4, Zenon
  <2>2. \A k \in Nat : k >= i => ~MarkAt(s, marker, k)
    BY <1>2, <1>4, Zenon
  <2>3. r \in Nat
    BY <2>1
  <2> QED
    BY <2>1, <2>2, <2>3, Zenon DEF IsFirst, r
<1>5. CASE at # {}
  <2>1. r \in at /\ \A k \in at : r <= k
    <3>1. Min(at) \in at /\ \A k \in at : Min(at) <= k
      BY <1>3, <1>5, MinIs
    <3>2. r = Min(at)
      BY <1>1, <1>5, Zenon
    <3> QED
      BY <3>1, <3>2, Zenon
  <2>2. r \in Nat /\ r >= i
    BY <1>3, <2>1
  <2>3. MarkAt(s, marker, r)
    BY <1>2, <2>1, <2>2
  <2>4. ASSUME NEW k \in Nat, k >= i, k < r PROVE ~MarkAt(s, marker, k)
    <3>1. ~(r <= k)
      BY <2>2, <2>4
    <3> QED
      BY <1>2, <2>1, <2>4, <3>1, Zenon
  <2>5. \A k \in Nat : k >= i /\ k < r => ~MarkAt(s, marker, k)
    BY <2>4
  <2> QED
    BY <2>2, <2>3, <2>5, Zenon DEF IsFirst, r
<1> QED
  BY <1>4, <1>5

\* Where the first marker is, is where it was found.
LEMMA FirstIs ==
    ASSUME NEW s, NEW marker, NEW i \in Nat, i >= 1, NEW r \in Nat, NEW q \in Nat,
           IsFirst(s, marker, i, r), IsFirst(s, marker, i, q)
    PROVE  r = q
<1>1. ASSUME NEW a \in Nat, NEW b \in Nat, a # 0, IsFirst(s, marker, i, a), IsFirst(s, marker, i, b)
      PROVE  b # 0 /\ b <= a
  <2>1. a >= i /\ MarkAt(s, marker, a)
    BY <1>1, Zenon DEF IsFirst
  <2>2. b # 0
    <3>1. ASSUME b = 0 PROVE ~(b >= i)
      BY <3>1
    <3>2. ASSUME b = 0 PROVE \A k \in Nat : k >= i => ~MarkAt(s, marker, k)
      BY <1>1, <3>1, <3>2, Zenon DEF IsFirst
    <3> QED
      BY <2>1, <3>2, Zenon
  <2>3. b >= i /\ \A k \in Nat : k >= i /\ k < b => ~MarkAt(s, marker, k)
    BY <1>1, <2>2, Zenon DEF IsFirst
  <2>4. ~(a < b)
    BY <2>1, <2>3, Zenon
  <2> QED
    BY <2>2, <2>4
<1>2. CASE r = 0
  <2>1. ASSUME q # 0 PROVE FALSE
    BY <1>1, <1>2, <2>1
  <2> QED
    BY <1>2, <2>1
<1>3. CASE r # 0
  <2>1. q # 0 /\ q <= r
    BY <1>1, <1>3
  <2>2. r <= q
    BY <1>1, <2>1
  <2> QED
    BY <2>1, <2>2
<1> QED
  BY <1>2, <1>3

\* The markers, byte by byte.
Mark2(s, a, b, k)    == k + 1 <= Len(s) /\ s[k] = a /\ s[k + 1] = b

LEMMA TwoBytes ==
    ASSUME NEW s \in Bytes, NEW a \in Byte, NEW b \in Byte, NEW k \in Nat, k >= 1
    PROVE  MarkAt(s, <<a, b>>, k) <=> Mark2(s, a, b, k)
<1> DEFINE m == <<a, b>>
<1>1. m \in Bytes /\ Len(m) = 2 /\ m[1] = a /\ m[2] = b
  BY DEF Bytes
<1> HIDE DEF m
<1>2. Len(s) \in Nat /\ s \in Seq(Byte)
  BY BytesAre DEF Bytes
<1>3. PICK d \in Nat : k = d + 1
  <2>1. k - 1 \in Nat /\ k = (k - 1) + 1
    OBVIOUS
  <2> QED
    BY <2>1
<1>4. k + Len(m) - 1 = d + 2 /\ k + 1 = d + 2
  BY <1>1, <1>3
<1>5. CASE d + 2 <= Len(s)
  <2>1. PICK x \in Seq(Byte) : IsSlice(x, s, d, d + 2)
    <3>1. d <= d + 2 /\ d + 2 \in Nat
      OBVIOUS
    <3> QED
      BY <1>2, <1>5, <3>1, SliceIs
  <2>2. x = SubSeq(s, d + 1, d + 2) /\ Len(x) = (d + 2) - d /\ \A j \in 1..((d + 2) - d) : x[j] = s[d + j]
    BY <2>1, Zenon DEF IsSlice
  <2>3. Len(x) = 2 /\ x[1] = s[d + 1] /\ x[2] = s[d + 2]
    BY <2>2
  <2>4. x = m <=> s[d + 1] = a /\ s[d + 2] = b
    <3>1. ASSUME s[d + 1] = a, s[d + 2] = b PROVE x = m
      <4>1. \A j \in 1..2 : x[j] = m[j]
        BY <1>1, <2>3, <3>1
      <4> QED
        BY <1>1, <2>3, <4>1, SeqEqual DEF Bytes
    <3> QED
      BY <1>1, <2>3, <3>1
  <2> QED
    BY <1>3, <1>4, <1>5, <2>2, <2>4, Zenon DEF MarkAt, Mark2, m
<1>6. CASE ~(d + 2 <= Len(s))
  BY <1>4, <1>6, Zenon DEF MarkAt, Mark2, m
<1> QED
  BY <1>5, <1>6

LEMMA ThreeBytes ==
    ASSUME NEW s \in Bytes, NEW k \in Nat, k >= 1
    PROVE  MarkAt(s, StartMarker, k) <=> CodeAt(s, k)
<1> DEFINE m == StartMarker
<1>1. m \in Bytes /\ Len(m) = 3 /\ m[1] = 0 /\ m[2] = 0 /\ m[3] = 1
  <2>1. <<0, 0, 1>> \in Bytes
    BY SMT DEF Bytes, Byte
  <2> QED
    BY <2>1 DEF StartMarker
<1> HIDE DEF m
<1>2. Len(s) \in Nat /\ s \in Seq(Byte)
  BY BytesAre DEF Bytes
<1>3. PICK d \in Nat : k = d + 1
  <2>1. k - 1 \in Nat /\ k = (k - 1) + 1
    OBVIOUS
  <2> QED
    BY <2>1
<1>4. k + Len(m) - 1 = d + 3 /\ k + 1 = d + 2 /\ k + 2 = d + 3
  BY <1>1, <1>3
<1>5. CASE d + 3 <= Len(s)
  <2>1. PICK x \in Seq(Byte) : IsSlice(x, s, d, d + 3)
    <3>1. d <= d + 3 /\ d + 3 \in Nat
      OBVIOUS
    <3> QED
      BY <1>2, <1>5, <3>1, SliceIs
  <2>2. x = SubSeq(s, d + 1, d + 3) /\ Len(x) = (d + 3) - d /\ \A j \in 1..((d + 3) - d) : x[j] = s[d + j]
    BY <2>1, Zenon DEF IsSlice
  <2>3. Len(x) = 3 /\ x[1] = s[d + 1] /\ x[2] = s[d + 2] /\ x[3] = s[d + 3]
    BY <2>2
  <2>4. x = m <=> s[d + 1] = 0 /\ s[d + 2] = 0 /\ s[d + 3] = 1
    <3>1. ASSUME s[d + 1] = 0, s[d + 2] = 0, s[d + 3] = 1 PROVE x = m
      <4>1. \A j \in 1..3 : x[j] = m[j]
        BY <1>1, <2>3, <3>1
      <4> QED
        BY <1>1, <2>3, <4>1, SeqEqual DEF Bytes
    <3> QED
      BY <1>1, <2>3, <3>1
  <2> QED
    BY <1>3, <1>4, <1>5, <2>2, <2>4, Zenon DEF MarkAt, CodeAt, m
<1>6. CASE ~(d + 3 <= Len(s))
  BY <1>4, <1>6, Zenon DEF MarkAt, CodeAt, m
<1> QED
  BY <1>5, <1>6

-----------------------------------------------------------------------------
(* AnnexB: items in what was read *)

\* What FFmpeg writes, the bytes before the end of each item it is made of: item m
\* begins with the marker at place head[m] and is complete when full[m] bytes have
\* been read; stop[m] bytes are then done with.
Framing(n, len, orig, head, stop, full) ==
    /\ head \in [1..n -> Nat] /\ stop \in [0..n -> Nat] /\ full \in [1..n -> Nat]
    /\ stop[0] = 0 /\ stop[n] = len
    /\ \A m \in 1..n : orig[m] \in Bytes /\ stop[m] <= full[m] /\ full[m] <= stop[m - 1] + Len(orig[m]) + 8
    /\ \A m \in 0..n : \A k \in 1..n : k <= m <=> head[k] <= stop[m]

\* The markers of c items are among the first p bytes.
Passed(n, head, p, c) == c \in 0..n /\ \A m \in 1..n : m <= c <=> head[m] <= p

CompleteOf(kind, x) == IF kind = "nalu" THEN CompleteNALU(x) ELSE CompleteFrame(x)

LastOf(kind, x) ==
    LET start == IndexFrom(x, StartMarker, 1)
    IN  IF kind = "nalu" /\ start # 0 /\ Behind(x, start + 2) # <<>>
        THEN <<Behind(x, start + 2)>> ELSE <<>>

\* In the bytes x between p and q, item c + 1 is found, or none that is complete.
FindsItem(kind, x, c, orig, used) ==
    \E y \in Bytes : /\ CompleteOf(kind, x) = {[item |-> y, used |-> used]}
                     /\ WithoutZeros(y) = orig[c + 1]

FindsPart(kind, x, n, c, orig, whole) ==
    /\ kind = "nalu" /\ c + 1 \in 1..n
    /\ \E y \in Bytes : /\ LastOf(kind, x) = <<y>> /\ IsPrefix(WithoutZeros(y), orig[c + 1])
                        /\ whole => c + 1 = n /\ WithoutZeros(y) = orig[c + 1]

FindsNone(kind, x, n, c, orig, whole) ==
    /\ CompleteOf(kind, x) = {}
    /\ (LastOf(kind, x) = <<>> /\ (whole => c = n)) \/ FindsPart(kind, x, n, c, orig, whole)

Ready(n, full, c, q) == c + 1 \in 1..n /\ full[c + 1] <= q

Finds(kind, s, n, len, orig, head, stop, full) ==
    \A p, q, c \in Nat : p <= q /\ q <= len /\ Passed(n, head, p, c) =>
        /\ Ready(n, full, c, q) => FindsItem(kind, SubSeq(s, p + 1, q), c, orig, stop[c + 1] - p)
        /\ ~Ready(n, full, c, q) =>
             FindsNone(kind, SubSeq(s, p + 1, q), n, c, orig, q = len /\ p = stop[c])

\* The l items given are some of the first c, in order; all of them when all fit.
Placed(l, c, at, fits) ==
    /\ at \in [1..l -> 1..c] /\ \A i, j \in 1..l : i < j => at[i] < at[j]
    /\ fits => l = c /\ \A i \in 1..l : at[i] = i

Given(list, orig, c, at, fits) ==
    /\ list \in Pieces(Byte) /\ Placed(Len(list), c, at, fits)
    /\ \A i \in 1..Len(list) : WithoutZeros(list[i]) = orig[at[i]]

Holding(s, n, orig, head, stop, full, q, held, list, fits, done) ==
    \E p, c \in Nat : \E at :
        /\ p <= q /\ held = SubSeq(s, p + 1, q) /\ Passed(n, head, p, c)
        /\ Given(list, orig, c, at, fits) /\ (fits => p = stop[c])
        /\ done => ~Ready(n, full, c, q)

\* Slices of bytes, and what is left of them.
LEMMA SliceOf ==
    ASSUME NEW s \in Bytes, NEW p \in Nat, NEW q \in Nat, p <= q, q <= Len(s)
    PROVE  SubSeq(s, p + 1, q) \in Bytes /\ Len(SubSeq(s, p + 1, q)) = q - p
<1>1. \E x \in Seq(Byte) : IsSlice(x, s, p, q)
  BY SliceIs DEF Bytes
<1> QED
  BY <1>1, Zenon DEF IsSlice, Bytes

Cut(s, p, b, q)    == p <= b /\ b <= q /\ q <= Len(s)
CutOff(s, p, b, q) ==
    /\ Behind(SubSeq(s, p + 1, q), b - p) = SubSeq(s, b + 1, q)
    /\ Len(SubSeq(s, p + 1, q)) = q - p /\ Len(SubSeq(s, b + 1, q)) = q - b

LEMMA SliceBehind ==
    ASSUME NEW s \in Bytes, NEW p \in Nat, NEW b \in Nat, NEW q \in Nat, Cut(s, p, b, q)
    PROVE  CutOff(s, p, b, q)
<1>0. p <= b /\ b <= q /\ q <= Len(s)
  BY DEF Cut
<1>1. PICK d \in Nat : d = b - p /\ p + d = b /\ p + d <= q
  <2>1. b - p \in Nat /\ p + (b - p) = b
    BY <1>0
  <2> QED
    BY <1>0, <2>1
<1>2. Drop(SubSeq(s, p + 1, q), d) = SubSeq(s, (p + d) + 1, q)
  BY <1>0, <1>1, SliceDropped DEF Bytes
<1>3. Len(SubSeq(s, p + 1, q)) = q - p /\ Len(SubSeq(s, b + 1, q)) = q - b
  <2>1. p <= q
    BY <1>0
  <2> QED
    BY <1>0, <2>1, SliceOf
<1> QED
  BY <1>1, <1>2, <1>3, Zenon DEF Drop, Behind, CutOff

LEMMA HoldsBytes ==
    ASSUME NEW s \in Bytes, NEW n, NEW orig, NEW head, NEW stop, NEW full, NEW q \in Nat, q <= Len(s),
           NEW held, NEW list, NEW fits, NEW done,
           Holding(s, n, orig, head, stop, full, q, held, list, fits, done)
    PROVE  held \in Bytes /\ Len(held) \in Nat /\ list \in Pieces(Byte)
<1>1. PICK p, c \in Nat : p <= q /\ held = SubSeq(s, p + 1, q) /\ list \in Pieces(Byte)
  BY Zenon DEF Holding, Given
<1>2. held \in Bytes
  BY <1>1, SliceOf
<1> QED
  BY <1>1, <1>2, BytesAre

LEMMA ReadKeeps ==
    ASSUME NEW s \in Bytes, NEW n, NEW orig, NEW head, NEW stop, NEW full, NEW q \in Nat,
           NEW next \in Nat, q <= next, next <= Len(s), NEW held, NEW list, NEW fits, NEW done,
           Holding(s, n, orig, head, stop, full, q, held, list, fits, done)
    PROVE  Holding(s, n, orig, head, stop, full, next, held \o SubSeq(s, q + 1, next), list, fits, FALSE)
<1>1. PICK p, c \in Nat : \E at :
        /\ p <= q /\ held = SubSeq(s, p + 1, q) /\ Passed(n, head, p, c)
        /\ Given(list, orig, c, at, fits) /\ (fits => p = stop[c])
  BY Zenon DEF Holding
<1>2. SubSeq(s, p + 1, q) \o SubSeq(s, q + 1, next) = SubSeq(s, p + 1, next)
  <2>1. \A a, b, d \in Nat :
             a <= b /\ b <= d /\ d <= Len(s)
               => SubSeq(s, a + 1, b) \o SubSeq(s, b + 1, d) = SubSeq(s, a + 1, d)
    BY SlicesJoin DEF Bytes
  <2> QED
    BY <1>1, <2>1, Zenon
<1>3. p <= next
  BY <1>1
<1> QED
  BY <1>1, <1>2, <1>3, Zenon DEF Holding

\* One item more.
LEMMA PlacedMore ==
    ASSUME NEW l \in Nat, NEW c \in Nat, NEW at, NEW fits, Placed(l, c, at, fits)
    PROVE  \E to : Placed(l + 1, c + 1, to, fits) /\ to[l + 1] = c + 1 /\ \A i \in 1..l : to[i] = at[i]
<1>1. /\ at \in [1..l -> 1..c] /\ \A i, j \in 1..l : i < j => at[i] < at[j]
      /\ fits => l = c /\ \A i \in 1..l : at[i] = i
  BY Zenon DEF Placed
<1> DEFINE to == [i \in 1..(l + 1) |-> IF i = l + 1 THEN c + 1 ELSE at[i]]
<1>2. to[l + 1] = c + 1 /\ \A i \in 1..l : to[i] = at[i] /\ at[i] \in 1..c
  <2>1. l + 1 \in 1..(l + 1)
    OBVIOUS
  <2>2. \A i \in 1..l : i \in 1..(l + 1) /\ i # l + 1
    OBVIOUS
  <2> QED
    BY <1>1, <2>1, <2>2
<1>3. \A i \in 1..(l + 1) : i = l + 1 \/ i \in 1..l
  OBVIOUS
<1>4. to \in [1..(l + 1) -> 1..(c + 1)]
  <2>1. ASSUME NEW i \in 1..(l + 1) PROVE (IF i = l + 1 THEN c + 1 ELSE at[i]) \in 1..(c + 1)
    <3>1. c + 1 \in 1..(c + 1) /\ 1..c \subseteq 1..(c + 1)
      OBVIOUS
    <3> QED
      BY <1>2, <1>3, <3>1
  <2> QED
    BY <2>1
<1> HIDE DEF to
<1>5. ASSUME NEW i \in 1..(l + 1), NEW j \in 1..(l + 1), i < j PROVE to[i] < to[j]
  <2>1. i \in 1..l
    BY <1>5
  <2>2. CASE j = l + 1
    BY <1>2, <2>1, <2>2
  <2>3. CASE j # l + 1
    <3>1. j \in 1..l
      BY <2>3
    <3>2. at[i] < at[j]
      BY <1>1, <1>5, <2>1, <3>1
    <3> QED
      BY <1>2, <2>1, <3>1, <3>2
  <2> QED
    BY <2>2, <2>3
<1>6. ASSUME fits PROVE l + 1 = c + 1 /\ \A i \in 1..(l + 1) : to[i] = i
  <2>1. l = c /\ \A i \in 1..l : at[i] = i
    BY <1>1, <1>6
  <2> QED
    BY <1>2, <1>3, <2>1
<1>7. Placed(l + 1, c + 1, to, fits)
  BY <1>4, <1>5, <1>6, Zenon DEF Placed
<1> QED
  BY <1>2, <1>7

LEMMA ListMore ==
    ASSUME NEW list \in Pieces(Byte), NEW y \in Bytes, NEW l \in Nat, l = Len(list)
    PROVE  /\ Append(list, y) \in Pieces(Byte) /\ Len(Append(list, y)) = l + 1
           /\ Append(list, y)[l + 1] = y /\ \A i \in 1..l : Append(list, y)[i] = list[i]
           /\ list \o <<y>> = Append(list, y) /\ list \o <<>> = list
<1>1. list \in Seq(Bytes)
  BY DEF Pieces, Bytes
<1>2. /\ Append(list, y) \in Seq(Bytes) /\ Len(Append(list, y)) = l + 1
      /\ Append(list, y)[l + 1] = y /\ \A i \in 1..l : Append(list, y)[i] = list[i]
  BY <1>1, AppendProperties
<1>3. list \o <<y>> = Append(list, y) /\ list \o <<>> = list
  BY <1>1, AppendIsConcat, ConcatEmptySeq
<1> QED
  BY <1>2, <1>3 DEF Pieces, Bytes

LEMMA GivenMore ==
    ASSUME NEW list, NEW orig, NEW c \in Nat, NEW at, NEW fits, Given(list, orig, c, at, fits),
           NEW y \in Bytes, WithoutZeros(y) = orig[c + 1]
    PROVE  \E to : Given(Append(list, y), orig, c + 1, to, fits)
<1>1. /\ list \in Pieces(Byte) /\ Placed(Len(list), c, at, fits)
      /\ \A i \in 1..Len(list) : WithoutZeros(list[i]) = orig[at[i]]
  BY Zenon DEF Given
<1>2. PICK l \in Nat : l = Len(list)
  BY <1>1, LenProperties DEF Pieces
<1> DEFINE more == Append(list, y)
<1>3. /\ more \in Pieces(Byte) /\ Len(more) = l + 1 /\ more[l + 1] = y
      /\ \A i \in 1..l : more[i] = list[i]
  BY <1>1, <1>2, ListMore
<1>4. PICK to : Placed(l + 1, c + 1, to, fits) /\ to[l + 1] = c + 1 /\ \A i \in 1..l : to[i] = at[i]
  BY <1>1, <1>2, PlacedMore
<1> HIDE DEF more
<1>5. ASSUME NEW i \in 1..(l + 1) PROVE WithoutZeros(more[i]) = orig[to[i]]
  <2>1. CASE i = l + 1
    BY <1>3, <1>4, <2>1
  <2>2. CASE i # l + 1
    <3>1. i \in 1..l
      BY <2>2
    <3> QED
      BY <1>1, <1>2, <1>3, <1>4, <3>1
  <2> QED
    BY <2>1, <2>2
<1>6. Given(more, orig, c + 1, to, fits)
  BY <1>3, <1>4, <1>5, Zenon DEF Given
<1> QED
  BY <1>6 DEF more

\* Fewer items than were written.
LEMMA GivenFewer ==
    ASSUME NEW list, NEW orig, NEW c \in Nat, NEW d \in Nat, c <= d, NEW at, NEW fits, ~fits,
           Given(list, orig, c, at, fits)
    PROVE  Given(list, orig, d, at, fits)
<1>1. at \in [1..Len(list) -> 1..c]
  BY Zenon DEF Given, Placed
<1>2. 1..c \subseteq 1..d
  OBVIOUS
<1>3. at \in [1..Len(list) -> 1..d]
  BY <1>1, <1>2
<1> QED
  BY <1>3, Zenon DEF Given, Placed

\* What is known of the framing of item c + 1, when p bytes hold the markers of c.
Coming(n, orig, head, stop, full, c, p, h, b, f, a, l) ==
    /\ h = head[c + 1] /\ b = stop[c + 1] /\ f = full[c + 1] /\ a = stop[c] /\ l = Len(orig[c + 1])
    /\ p < h /\ h <= b /\ b <= f /\ f <= a + l + 8 /\ Passed(n, head, b, c + 1)

LEMMA NextItem ==
    ASSUME NEW n \in Nat, NEW len \in Nat, NEW orig, NEW head, NEW stop, NEW full,
           Framing(n, len, orig, head, stop, full), NEW c \in Nat, c + 1 \in 1..n,
           NEW p \in Nat, Passed(n, head, p, c)
    PROVE  \E h, b, f, a, l \in Nat : Coming(n, orig, head, stop, full, c, p, h, b, f, a, l)
<1>1. /\ head \in [1..n -> Nat] /\ stop \in [0..n -> Nat] /\ full \in [1..n -> Nat]
      /\ \A m \in 1..n : orig[m] \in Bytes /\ stop[m] <= full[m] /\ full[m] <= stop[m - 1] + Len(orig[m]) + 8
      /\ \A m \in 0..n : \A k \in 1..n : k <= m <=> head[k] <= stop[m]
  BY Zenon DEF Framing
<1>2. c + 1 \in 0..n /\ c \in 0..n /\ (c + 1) - 1 = c
  OBVIOUS
<1>3. PICK h \in Nat, b \in Nat, f \in Nat, a \in Nat :
        h = head[c + 1] /\ b = stop[c + 1] /\ f = full[c + 1] /\ a = stop[c]
  BY <1>1, <1>2
<1>4. PICK l \in Nat : l = Len(orig[c + 1])
  BY <1>1, BytesAre
<1>5. b <= f /\ f <= a + l + 8
  BY <1>1, <1>2, <1>3, <1>4
<1>6. h <= b
  <2>1. c + 1 <= c + 1
    OBVIOUS
  <2> QED
    BY <1>1, <1>2, <1>3, <2>1
<1>7. p < h
  <2>1. ~(c + 1 <= c)
    OBVIOUS
  <2>2. ~(h <= p)
    BY <1>3, <2>1, Zenon DEF Passed
  <2> QED
    BY <2>2
<1>8. Passed(n, head, b, c + 1)
  BY <1>1, <1>2, <1>3, Zenon DEF Passed
<1>9. Coming(n, orig, head, stop, full, c, p, h, b, f, a, l)
  BY <1>3, <1>4, <1>5, <1>6, <1>7, <1>8, Zenon DEF Coming
<1> QED
  BY <1>9

LEMMA ExtractKeeps ==
    ASSUME NEW kind, NEW s \in Bytes, NEW n \in Nat, NEW len \in Nat, len = Len(s),
           NEW orig, NEW head, NEW stop, NEW full,
           Framing(n, len, orig, head, stop, full), Finds(kind, s, n, len, orig, head, stop, full),
           NEW q \in Nat, q <= len, NEW held, NEW list, NEW fits, NEW done,
           Holding(s, n, orig, head, stop, full, q, held, list, fits, done),
           NEW found \in CompleteOf(kind, held)
    PROVE  /\ Holding(s, n, orig, head, stop, full, q, Behind(held, found.used),
                      Append(list, found.item), fits, FALSE)
           /\ Len(Behind(held, found.used)) <= Len(held)
<1>1. PICK p, c \in Nat : \E at :
        /\ p <= q /\ held = SubSeq(s, p + 1, q) /\ Passed(n, head, p, c)
        /\ Given(list, orig, c, at, fits) /\ (fits => p = stop[c])
  BY Zenon DEF Holding
<1>2. Ready(n, full, c, q)
  <2>1. ASSUME ~Ready(n, full, c, q) PROVE FALSE
    <3>1. CompleteOf(kind, held) = {}
      BY <1>1, <2>1, Zenon DEF Finds, FindsNone
    <3> QED
      BY <3>1
  <2> QED
    BY <2>1
<1>3. PICK y \in Bytes : /\ CompleteOf(kind, held) = {[item |-> y, used |-> stop[c + 1] - p]}
                         /\ WithoutZeros(y) = orig[c + 1]
  <2>1. FindsItem(kind, SubSeq(s, p + 1, q), c, orig, stop[c + 1] - p)
    BY <1>1, <1>2, Zenon DEF Finds
  <2>2. FindsItem(kind, held, c, orig, stop[c + 1] - p)
    BY <1>1, <2>1, Zenon
  <2> QED
    BY <2>2, Zenon DEF FindsItem
<1>4. found.item = y /\ found.used = stop[c + 1] - p
  <2>1. found = [item |-> y, used |-> stop[c + 1] - p]
    <3>1. found \in {[item |-> y, used |-> stop[c + 1] - p]}
      BY <1>3, Zenon
    <3> QED
      BY <3>1, Zenon
  <2>2. /\ [item |-> y, used |-> stop[c + 1] - p].item = y
        /\ [item |-> y, used |-> stop[c + 1] - p].used = stop[c + 1] - p
    OBVIOUS
  <2> QED
    BY <2>1, <2>2, Zenon
<1>5. c + 1 \in 1..n /\ full[c + 1] <= q
  BY <1>2, Zenon DEF Ready
<1>6. PICK h, b, f, a, l \in Nat : Coming(n, orig, head, stop, full, c, p, h, b, f, a, l)
  BY <1>1, <1>5, NextItem
<1>7. f <= q
  BY <1>5, <1>6, Zenon DEF Coming
<1>8. p <= b /\ b <= q /\ q <= Len(s)
  <2>1. p < h /\ h <= b /\ b <= f
    BY <1>6, Zenon DEF Coming
  <2>2. p <= b /\ b <= q
    BY <1>7, <2>1
  <2> QED
    BY <2>2, Zenon
<1>9. found.used = b - p
  BY <1>4, <1>6, Zenon DEF Coming
<1>10. /\ Behind(held, found.used) = SubSeq(s, b + 1, q)
       /\ Len(held) = q - p /\ Len(Behind(held, found.used)) = q - b
  <2>1. Cut(s, p, b, q)
    BY <1>8, Zenon DEF Cut
  <2>2. CutOff(s, p, b, q)
    BY <2>1, SliceBehind
  <2> QED
    BY <1>1, <1>9, <2>2, Zenon DEF CutOff
<1>11. PICK to : Given(Append(list, y), orig, c + 1, to, fits)
  BY <1>1, <1>3, GivenMore
<1>12. c + 1 \in Nat
  OBVIOUS
<1>13. Holding(s, n, orig, head, stop, full, q, Behind(held, found.used), Append(list, found.item), fits, FALSE)
  BY <1>4, <1>6, <1>8, <1>10, <1>11, <1>12, Zenon DEF Holding, Coming
<1>14. Len(Behind(held, found.used)) <= Len(held)
  BY <1>8, <1>10
<1> QED
  BY <1>13, <1>14

\* Of the markers, some number c are among the first q bytes.
LEMMA SomePassed ==
    ASSUME NEW n \in Nat, NEW len \in Nat, NEW orig, NEW head, NEW stop, NEW full,
           Framing(n, len, orig, head, stop, full), NEW q \in Nat
    PROVE  \E c \in Nat : Passed(n, head, q, c)
<1>1. /\ head \in [1..n -> Nat] /\ stop \in [0..n -> Nat]
      /\ \A m \in 0..n : \A k \in 1..n : k <= m <=> head[k] <= stop[m]
  BY Zenon DEF Framing
<1>2. ASSUME NEW j \in 1..n, NEW k \in 1..n, j < k PROVE head[j] < head[k]
  <2>1. PICK a \in Nat, b \in Nat, z \in Nat : a = head[j] /\ b = stop[j] /\ z = head[k] /\ j \in 0..n
    <3>1. j \in 0..n
      OBVIOUS
    <3> QED
      BY <1>1, <3>1
  <2>2. a <= b /\ ~(z <= b)
    <3>1. j <= j /\ ~(k <= j)
      BY <1>2
    <3> QED
      BY <1>1, <2>1, <3>1
  <2> QED
    BY <2>1, <2>2
<1> DEFINE S == {m \in 0..n : \A k \in 1..n : k > m => head[k] > q}
<1>3. S \in SUBSET Nat /\ n \in S
  OBVIOUS
<1>4. PICK c \in S : \A m \in S : c <= m
  <2> HIDE DEF S
  <2> QED
    BY <1>3, NatMin
<1>5. c \in 0..n /\ \A k \in 1..n : k > c => head[k] > q
  OBVIOUS
<1>6. ASSUME c # 0 PROVE head[c] <= q
  <2>1. c - 1 \in 0..n /\ ~(c <= c - 1)
    BY <1>5, <1>6
  <2>2. c - 1 \notin S
    <3> HIDE DEF S
    <3> QED
      BY <1>4, <2>1
  <2>3. PICK k \in 1..n : k > c - 1 /\ ~(head[k] > q)
    BY <2>1, <2>2
  <2>4. k = c
    BY <1>5, <2>3
  <2>5. head[k] \in Nat
    BY <1>1
  <2> QED
    BY <2>3, <2>4, <2>5
<1> HIDE DEF S
<1>7. ASSUME NEW m \in 1..n PROVE m <= c <=> head[m] <= q
  <2>1. head[m] \in Nat
    BY <1>1
  <2>2. CASE m <= c
    <3>1. c \in 1..n /\ c # 0 /\ (m < c \/ m = c)
      BY <1>5, <2>2
    <3>2. head[c] \in Nat /\ head[c] <= q
      BY <1>1, <1>6, <3>1
    <3> QED
      BY <1>2, <2>1, <2>2, <3>1, <3>2
  <2>3. CASE ~(m <= c)
    <3>1. m > c
      BY <1>5, <2>3
    <3> QED
      BY <1>5, <2>1, <2>3, <3>1
  <2> QED
    BY <2>2, <2>3
<1>8. Passed(n, head, q, c)
  BY <1>5, <1>7, Zenon DEF Passed
<1> QED
  BY <1>5, <1>8

LEMMA MorePassed ==
    ASSUME NEW n \in Nat, NEW head \in [1..n -> Nat], NEW p \in Nat, NEW q \in Nat, p <= q,
           NEW c \in Nat, NEW d \in Nat, Passed(n, head, p, c), Passed(n, head, q, d)
    PROVE  c <= d
<1>1. /\ c \in 0..n /\ \A m \in 1..n : m <= c <=> head[m] <= p
      /\ \A m \in 1..n : m <= d <=> head[m] <= q
  BY Zenon DEF Passed
<1>2. CASE c = 0
  BY <1>2
<1>3. CASE c # 0
  <2>1. c \in 1..n /\ c <= c
    BY <1>1, <1>3
  <2>2. PICK h \in Nat : h = head[c]
    BY <2>1
  <2>3. h <= p
    BY <1>1, <2>1, <2>2
  <2>4. h <= q
    BY <2>3
  <2> QED
    BY <1>1, <2>1, <2>2, <2>4
<1> QED
  BY <1>2, <1>3

\* Every item fits into the limit.
AllFit(n, orig, limit) == \A i \in 1..n : Len(orig[i]) + 7 <= limit

\* When every item fits, so does what is waiting for the rest of one.
LEMMA WaitingFits ==
    ASSUME NEW n \in Nat, NEW len \in Nat, NEW orig, NEW head, NEW stop, NEW full,
           Framing(n, len, orig, head, stop, full), NEW p \in Nat, NEW q \in Nat, p <= q, q <= len,
           NEW c \in Nat, Passed(n, head, p, c), p = stop[c], ~Ready(n, full, c, q),
           NEW limit \in Nat, AllFit(n, orig, limit)
    PROVE  q - p <= limit
<1>1. c \in 0..n /\ stop[n] = len
  BY Zenon DEF Passed, Framing
<1>2. CASE c = n
  <2>1. p = len
    BY <1>1, <1>2, Zenon
  <2> QED
    BY <2>1
<1>3. CASE c # n
  <2>1. c + 1 \in 1..n
    BY <1>1, <1>3
  <2>2. PICK h, b, f, a, l \in Nat : Coming(n, orig, head, stop, full, c, p, h, b, f, a, l)
    BY <2>1, NextItem
  <2>3. a = p /\ f = full[c + 1] /\ l = Len(orig[c + 1]) /\ f <= a + l + 8
    BY <2>2, Zenon DEF Coming
  <2>4. ~(f <= q)
    <3>1. ~(full[c + 1] <= q)
      BY <2>1, Zenon DEF Ready
    <3> QED
      BY <2>3, <3>1
  <2>5. l + 7 <= limit
    BY <2>1, <2>3, Zenon DEF AllFit
  <2>6. f <= p + l + 8
    BY <2>3, Zenon
  <2> QED
    BY <2>4, <2>5, <2>6
<1> QED
  BY <1>2, <1>3

\* What is over the limit is dropped, and the items whose markers are in it are lost.
LEMMA DropKeeps ==
    ASSUME NEW n \in Nat, NEW len \in Nat, NEW s \in Bytes, len = Len(s), NEW orig, NEW head, NEW stop, NEW full,
           Framing(n, len, orig, head, stop, full), NEW q \in Nat, q <= len,
           NEW held, NEW list, NEW done,
           Holding(s, n, orig, head, stop, full, q, held, list, FALSE, done)
    PROVE  Holding(s, n, orig, head, stop, full, q, <<>>, list, FALSE, TRUE)
<1>1. PICK p, c \in Nat : \E at :
        /\ p <= q /\ held = SubSeq(s, p + 1, q) /\ Passed(n, head, p, c)
        /\ Given(list, orig, c, at, FALSE)
  BY Zenon DEF Holding
<1>2. PICK at : Given(list, orig, c, at, FALSE)
  BY <1>1
<1>3. PICK d \in Nat : Passed(n, head, q, d)
  BY SomePassed
<1>4. head \in [1..n -> Nat]
  BY Zenon DEF Framing
<1>5. c <= d
  BY <1>1, <1>3, <1>4, MorePassed
<1>6. Given(list, orig, d, at, FALSE)
  BY <1>2, <1>5, GivenFewer
<1>7. ~Ready(n, full, d, q)
  <2>1. ASSUME Ready(n, full, d, q) PROVE FALSE
    <3>1. d + 1 \in 1..n /\ full[d + 1] <= q
      BY <2>1, Zenon DEF Ready
    <3>2. PICK h, b, f, a, l \in Nat : Coming(n, orig, head, stop, full, d, q, h, b, f, a, l)
      BY <1>3, <3>1, NextItem
    <3>3. f = full[d + 1] /\ q < h /\ h <= b /\ b <= f
      BY <3>2, Zenon DEF Coming
    <3>4. f <= q
      BY <3>1, <3>3, Zenon
    <3> QED
      BY <3>3, <3>4
  <2> QED
    BY <2>1
<1>8. <<>> = SubSeq(s, q + 1, q) /\ q <= q
  BY SubSeqEmpty
<1> QED
  BY <1>3, <1>6, <1>7, <1>8, Zenon DEF Holding

\* What is kept of the bytes held.
Kept(held, limit) == IF Len(held) > limit THEN <<>> ELSE held

LEMMA RestKeeps ==
    ASSUME NEW kind, NEW s \in Bytes, NEW n \in Nat, NEW len \in Nat, len = Len(s),
           NEW orig, NEW head, NEW stop, NEW full,
           Framing(n, len, orig, head, stop, full), Finds(kind, s, n, len, orig, head, stop, full),
           NEW q \in Nat, q <= len, NEW held, NEW list, NEW limit \in Nat, NEW done,
           Holding(s, n, orig, head, stop, full, q, held, list, AllFit(n, orig, limit), done),
           CompleteOf(kind, held) = {}
    PROVE  Holding(s, n, orig, head, stop, full, q, Kept(held, limit), list, AllFit(n, orig, limit), TRUE)
<1> DEFINE fits == AllFit(n, orig, limit)
<1>0. Holding(s, n, orig, head, stop, full, q, held, list, fits, done) /\ fits \in BOOLEAN
      /\ (fits => AllFit(n, orig, limit))
  BY Zenon DEF AllFit
<1> HIDE DEF fits
<1>1. PICK p, c \in Nat : \E at :
        /\ p <= q /\ held = SubSeq(s, p + 1, q) /\ Passed(n, head, p, c)
        /\ Given(list, orig, c, at, fits) /\ (fits => p = stop[c])
  BY <1>0, Zenon DEF Holding
<1>2. ~Ready(n, full, c, q)
  <2>1. ASSUME Ready(n, full, c, q) PROVE FALSE
    <3>1. FindsItem(kind, SubSeq(s, p + 1, q), c, orig, stop[c + 1] - p)
      BY <1>1, <2>1, Zenon DEF Finds
    <3>2. FindsItem(kind, held, c, orig, stop[c + 1] - p)
      BY <1>1, <3>1, Zenon
    <3>3. CompleteOf(kind, held) # {}
      BY <3>2, Zenon DEF FindsItem
    <3> QED
      BY <3>3
  <2> QED
    BY <2>1
<1>3. CASE ~(Len(held) > limit)
  <2>1. Holding(s, n, orig, head, stop, full, q, held, list, fits, TRUE)
    BY <1>1, <1>2, Zenon DEF Holding
  <2> QED
    BY <1>3, <2>1, Zenon DEF Kept, fits
<1>4. CASE Len(held) > limit
  <2>1. ~fits
    <3>1. ASSUME fits PROVE FALSE
      <4>1. p <= q /\ Passed(n, head, p, c) /\ p = stop[c]
        BY <1>1, <3>1, Zenon
      <4>2. AllFit(n, orig, limit)
        BY <1>0, <3>1
      <4>3. q - p <= limit
        BY <1>2, <4>1, <4>2, WaitingFits
      <4>4. Len(held) = q - p
        BY <1>1, SliceOf
      <4> QED
        BY <1>4, <4>1, <4>3, <4>4
    <3> QED
      BY <3>1
  <2>2. Holding(s, n, orig, head, stop, full, q, held, list, FALSE, done)
    BY <1>0, <2>1, Zenon
  <2>3. Holding(s, n, orig, head, stop, full, q, <<>>, list, FALSE, TRUE)
    BY <2>2, DropKeeps
  <2>4. fits = FALSE
    BY <1>0, <2>1
  <2> QED
    BY <1>4, <2>3, <2>4, Zenon DEF Kept, fits
<1> QED
  BY <1>3, <1>4

\* What has been given of the items, when nothing more comes: the last NAL unit
\* may be a part.
Ended(kind, list, n, orig, fits, whole) ==
    /\ \E at \in [1..Len(list) -> 1..n] :
        /\ \A i, j \in 1..Len(list) : i < j => at[i] < at[j]
        /\ \A i \in 1..Len(list) :
            IF kind = "nalu" /\ i = Len(list) THEN IsPrefix(WithoutZeros(list[i]), orig[at[i]])
            ELSE WithoutZeros(list[i]) = orig[at[i]]
        /\ fits => \A i \in 1..Len(list) : at[i] = i
    /\ whole /\ fits => Len(list) = n /\ \A i \in 1..n : WithoutZeros(list[i]) = orig[i]

LEMMA PrefixOfSelf == \A x \in Bytes : IsPrefix(x, x)
<1> SUFFICES ASSUME NEW x \in Bytes PROVE IsPrefix(x, x)
  OBVIOUS
<1>1. Len(x) <= Len(x)
  BY BytesAre
<1> QED
  BY <1>1, Zenon DEF IsPrefix

\* When the last item that can be seen has been given.
LEMMA EndsWhole ==
    ASSUME NEW kind, NEW n \in Nat, NEW orig, NEW c \in 0..n, NEW list, NEW at, NEW fits,
           Given(list, orig, c, at, fits), NEW whole, whole => c = n, \A i \in 1..n : orig[i] \in Bytes
    PROVE  Ended(kind, list, n, orig, fits, whole)
<1>1. /\ list \in Pieces(Byte) /\ Placed(Len(list), c, at, fits)
      /\ \A i \in 1..Len(list) : WithoutZeros(list[i]) = orig[at[i]]
  BY Zenon DEF Given
<1>2. PICK l \in Nat : l = Len(list)
  BY <1>1, LenProperties DEF Pieces
<1>3. /\ at \in [1..l -> 1..c] /\ \A i, j \in 1..l : i < j => at[i] < at[j]
      /\ fits => l = c /\ \A i \in 1..l : at[i] = i
  BY <1>1, <1>2, Zenon DEF Placed
<1>4. at \in [1..l -> 1..n]
  <2>1. 1..c \subseteq 1..n
    OBVIOUS
  <2> QED
    BY <1>3, <2>1
<1>5. ASSUME NEW i \in 1..l
      PROVE  WithoutZeros(list[i]) = orig[at[i]] /\ IsPrefix(WithoutZeros(list[i]), orig[at[i]])
  <2>1. WithoutZeros(list[i]) = orig[at[i]]
    BY <1>1, <1>2
  <2>2. orig[at[i]] \in Bytes
    BY <1>4
  <2> QED
    BY <2>1, <2>2, PrefixOfSelf
<1>6. ASSUME whole, fits PROVE l = n /\ \A i \in 1..n : WithoutZeros(list[i]) = orig[i]
  <2>1. l = n /\ \A i \in 1..l : at[i] = i
    BY <1>3, <1>6
  <2> QED
    BY <1>5, <2>1
<1> QED
  BY <1>2, <1>3, <1>4, <1>5, <1>6, Zenon DEF Ended

\* When the last one that can be seen is there in part, or whole.
LEMMA EndsPart ==
    ASSUME NEW n \in Nat, NEW orig, NEW c \in Nat, c + 1 \in 1..n, NEW list, NEW at, NEW fits,
           Given(list, orig, c, at, fits), NEW y \in Bytes, IsPrefix(WithoutZeros(y), orig[c + 1]),
           NEW whole, whole /\ fits => c + 1 = n /\ WithoutZeros(y) = orig[c + 1]
    PROVE  Ended("nalu", Append(list, y), n, orig, fits, whole)
<1>1. /\ list \in Pieces(Byte) /\ Placed(Len(list), c, at, fits)
      /\ \A i \in 1..Len(list) : WithoutZeros(list[i]) = orig[at[i]]
  BY Zenon DEF Given
<1>2. PICK l \in Nat : l = Len(list)
  BY <1>1, LenProperties DEF Pieces
<1> DEFINE more == Append(list, y)
<1>3. Len(more) = l + 1 /\ more[l + 1] = y /\ \A i \in 1..l : more[i] = list[i]
  BY <1>1, <1>2, ListMore
<1>4. PICK to : Placed(l + 1, c + 1, to, fits) /\ to[l + 1] = c + 1 /\ \A i \in 1..l : to[i] = at[i]
  BY <1>1, <1>2, PlacedMore
<1> HIDE DEF more
<1>5. /\ to \in [1..(l + 1) -> 1..(c + 1)] /\ \A i, j \in 1..(l + 1) : i < j => to[i] < to[j]
      /\ fits => l + 1 = c + 1 /\ \A i \in 1..(l + 1) : to[i] = i
  BY <1>4, Zenon DEF Placed
<1>6. to \in [1..(l + 1) -> 1..n]
  <2>1. 1..(c + 1) \subseteq 1..n
    OBVIOUS
  <2> QED
    BY <1>5, <2>1
<1>7. \A i \in 1..(l + 1) : i = l + 1 \/ i \in 1..l
  OBVIOUS
<1>8. ASSUME NEW i \in 1..l PROVE WithoutZeros(more[i]) = orig[to[i]]
  BY <1>1, <1>2, <1>3, <1>4
<1>9. ASSUME NEW i \in 1..(l + 1)
      PROVE  IF "nalu" = "nalu" /\ i = l + 1 THEN IsPrefix(WithoutZeros(more[i]), orig[to[i]])
             ELSE WithoutZeros(more[i]) = orig[to[i]]
  <2>1. CASE i = l + 1
    BY <1>3, <1>4, <2>1, Zenon
  <2>2. CASE i # l + 1
    BY <1>7, <1>8, <2>2, Zenon
  <2> QED
    BY <2>1, <2>2
<1>10. ASSUME whole, fits PROVE l + 1 = n /\ \A i \in 1..n : WithoutZeros(more[i]) = orig[i]
  <2>1. c + 1 = n /\ WithoutZeros(y) = orig[c + 1] /\ l + 1 = c + 1 /\ \A i \in 1..(l + 1) : to[i] = i
    BY <1>5, <1>10
  <2>2. ASSUME NEW i \in 1..(l + 1) PROVE WithoutZeros(more[i]) = orig[i]
    <3>1. CASE i = l + 1
      BY <1>3, <2>1, <3>1
    <3>2. CASE i # l + 1
      BY <1>7, <1>8, <2>1, <3>2
    <3> QED
      BY <3>1, <3>2
  <2> QED
    BY <2>1, <2>2
<1>11. Ended("nalu", more, n, orig, fits, whole)
  BY <1>3, <1>5, <1>6, <1>9, <1>10, Zenon DEF Ended
<1> QED
  BY <1>11 DEF more

LEMMA EndsIntact ==
    ASSUME NEW kind, NEW s \in Bytes, NEW n \in Nat, NEW len \in Nat, len = Len(s),
           NEW orig, NEW head, NEW stop, NEW full,
           Framing(n, len, orig, head, stop, full), Finds(kind, s, n, len, orig, head, stop, full),
           NEW q \in Nat, q <= len, NEW held, NEW list, NEW fits,
           Holding(s, n, orig, head, stop, full, q, held, list, fits, TRUE)
    PROVE  Ended(kind, list \o LastOf(kind, held), n, orig, fits, q = len)
<1>1. PICK p, c \in Nat : \E at :
        /\ p <= q /\ held = SubSeq(s, p + 1, q) /\ Passed(n, head, p, c)
        /\ Given(list, orig, c, at, fits) /\ (fits => p = stop[c]) /\ ~Ready(n, full, c, q)
  BY Zenon DEF Holding
<1>2. PICK at : Given(list, orig, c, at, fits)
  BY <1>1
<1>3. FindsNone(kind, held, n, c, orig, q = len /\ p = stop[c])
  <2>1. FindsNone(kind, SubSeq(s, p + 1, q), n, c, orig, q = len /\ p = stop[c])
    BY <1>1, Zenon DEF Finds
  <2> QED
    BY <1>1, <2>1, Zenon
<1>4. c \in 0..n /\ list \in Pieces(Byte) /\ \A i \in 1..n : orig[i] \in Bytes
  BY <1>1, <1>2, Zenon DEF Passed, Given, Framing
<1>5. fits => p = stop[c]
  BY <1>1, Zenon
<1>6. PICK l \in Nat : l = Len(list)
  BY <1>4, LenProperties DEF Pieces
<1>7. CASE LastOf(kind, held) = <<>> /\ (q = len /\ p = stop[c] => c = n)
  <2>1. list \o LastOf(kind, held) = list
    <3>1. list \o <<>> = list
      BY <1>4, ConcatEmptySeq DEF Pieces
    <3> QED
      BY <1>7, <3>1, Zenon
  <2>2. Ended(kind, list, n, orig, fits, q = len)
    <3>1. CASE fits
      <4>1. (q = len) => c = n
        BY <1>5, <1>7, <3>1, Zenon
      <4> QED
        BY <1>2, <1>4, <4>1, EndsWhole, Zenon
    <3>2. CASE ~fits
      <4>1. Ended(kind, list, n, orig, fits, FALSE)
        BY <1>2, <1>4, EndsWhole, Zenon
      <4> QED
        BY <3>2, <4>1, Zenon DEF Ended
    <3> QED
      BY <3>1, <3>2
  <2> QED
    BY <2>1, <2>2, Zenon
<1>8. CASE FindsPart(kind, held, n, c, orig, q = len /\ p = stop[c])
  <2>1. kind = "nalu" /\ c + 1 \in 1..n
    BY <1>8, Zenon DEF FindsPart
  <2>2. PICK y \in Bytes :
          /\ LastOf(kind, held) = <<y>> /\ IsPrefix(WithoutZeros(y), orig[c + 1])
          /\ q = len /\ p = stop[c] => c + 1 = n /\ WithoutZeros(y) = orig[c + 1]
    BY <1>8, Zenon DEF FindsPart
  <2>3. list \o LastOf(kind, held) = Append(list, y)
    <3>1. list \o <<y>> = Append(list, y)
      BY <1>4, <1>6, ListMore
    <3> QED
      BY <2>2, <3>1, Zenon
  <2>4. (q = len) /\ fits => c + 1 = n /\ WithoutZeros(y) = orig[c + 1]
    BY <1>5, <2>2, Zenon
  <2>5. Ended("nalu", Append(list, y), n, orig, fits, q = len)
    BY <1>2, <2>1, <2>2, <2>4, EndsPart, Zenon
  <2> QED
    BY <2>1, <2>3, <2>5, Zenon
<1> QED
  BY <1>3, <1>7, <1>8, Zenon DEF FindsNone

-----------------------------------------------------------------------------
(* AnnexB: the next marker *)

\* A slice of a slice.
Inside(s, p, q, a, b)    == p <= q /\ q <= Len(s) /\ a <= b /\ b <= q - p
SameSlice(x, s, p, a, b) == SubSeq(x, a + 1, b) = SubSeq(s, (p + a) + 1, p + b)

LEMMA SliceOfSlice ==
    ASSUME NEW s \in Bytes, NEW p \in Nat, NEW q \in Nat, NEW x, IsSlice(x, s, p, q),
           NEW a \in Nat, NEW b \in Nat, Inside(s, p, q, a, b)
    PROVE  SameSlice(x, s, p, a, b)
<1> USE DEF Inside
<1>1. x = SubSeq(s, p + 1, q) /\ Len(x) = q - p /\ \A k \in 1..(q - p) : x[k] = s[p + k]
  BY Zenon DEF IsSlice
<1>2. x \in Bytes
  BY <1>1, SliceOf
<1>0. Len(s) \in Nat
  BY BytesAre
<1>3. PICK y \in Seq(Byte) : IsSlice(y, x, a, b)
  <2>1. b <= Len(x)
    BY <1>1
  <2> QED
    BY <1>2, <2>1, SliceIs DEF Bytes
<1>4. y = SubSeq(x, a + 1, b) /\ Len(y) = b - a /\ \A k \in 1..(b - a) : y[k] = x[a + k]
  BY <1>3, Zenon DEF IsSlice
<1>5. PICK c \in Nat : c = p + a
  OBVIOUS
<1>6. ASSUME NEW k \in 1..(b - a) PROVE s[c + k] = y[k]
  <2>1. a + k \in 1..(q - p) /\ p + (a + k) = c + k
    BY <1>5
  <2>2. y[k] = x[a + k] /\ x[a + k] = s[p + (a + k)]
    BY <1>1, <1>4, <2>1
  <2> QED
    BY <2>1, <2>2
<1>7. c + Len(y) <= Len(s) /\ c + Len(y) = p + b
  BY <1>0, <1>4, <1>5
<1>8. SubSeq(s, c + 1, c + Len(y)) = y
  <2>1. y \in Bytes /\ \A k \in 1..Len(y) : s[c + k] = y[k]
    BY <1>4, <1>6 DEF Bytes
  <2> QED
    BY <1>7, <2>1, BytesSliced
<1> QED
  BY <1>4, <1>5, <1>7, <1>8, Zenon DEF SameSlice

LEMMA MarkInSlice ==
    ASSUME NEW s \in Bytes, NEW p \in Nat, NEW q \in Nat, p <= q, q <= Len(s), NEW x, IsSlice(x, s, p, q),
           NEW marker, NEW ml \in Nat, ml = Len(marker), ml >= 1, NEW k \in Nat, k >= 1
    PROVE  MarkAt(x, marker, k) <=> p + k + ml - 1 <= q /\ MarkAt(s, marker, p + k)
<1>0. Len(s) \in Nat /\ Len(x) = q - p
  BY BytesAre, Zenon DEF IsSlice
<1>1. PICK a \in Nat, b \in Nat : k = a + 1 /\ b = k + ml - 1 /\ a <= b /\ p + k = (p + a) + 1 /\ p + b = p + k + ml - 1
  <2>1. k - 1 \in Nat /\ k = (k - 1) + 1 /\ k + ml - 1 \in Nat /\ k - 1 <= k + ml - 1
    OBVIOUS
  <2>2. p + k = (p + (k - 1)) + 1 /\ p + (k + ml - 1) = p + k + ml - 1
    OBVIOUS
  <2> QED
    BY <2>1, <2>2
<1>2. MarkAt(x, marker, k) <=> b <= q - p /\ SubSeq(x, a + 1, b) = marker
  BY <1>0, <1>1, Zenon DEF MarkAt
<1>3. MarkAt(s, marker, p + k) <=> p + b <= Len(s) /\ SubSeq(s, (p + a) + 1, p + b) = marker
  BY <1>1, Zenon DEF MarkAt
<1>4. b <= q - p <=> p + b <= q
  BY <1>1
<1>5. p + b <= q => p + b <= Len(s)
  BY <1>0, <1>1
<1>6. ASSUME b <= q - p PROVE SubSeq(x, a + 1, b) = SubSeq(s, (p + a) + 1, p + b)
  <2>1. Inside(s, p, q, a, b)
    BY <1>1, <1>6, Zenon DEF Inside
  <2>2. SameSlice(x, s, p, a, b)
    BY <2>1, SliceOfSlice
  <2> QED
    BY <2>2, Zenon DEF SameSlice
<1> QED
  BY <1>1, <1>2, <1>3, <1>4, <1>5, <1>6, Zenon

\* A marker of ml bytes stands at the places pos, and nowhere else.
Marks(s, marker, ml, n, pos) ==
    /\ ml \in Nat /\ ml = Len(marker) /\ ml >= 1 /\ pos \in [1..n -> Nat]
    /\ \A m, k \in 1..n : m < k => pos[m] < pos[k]
    /\ \A j \in Nat : j >= 1 => (MarkAt(s, marker, j) <=> \E m \in 1..n : j = pos[m])

\* From place j on, d of them being before it, the next one is number d + 1.
NextAt(x, marker, ml, n, pos, p, q, i, d) ==
    IndexFrom(x, marker, i) = IF d + 1 \in 1..n /\ pos[d + 1] + ml - 1 <= q THEN pos[d + 1] - p ELSE 0

LEMMA NextMark ==
    ASSUME NEW s \in Bytes, NEW p \in Nat, NEW q \in Nat, p <= q, q <= Len(s), NEW x, IsSlice(x, s, p, q),
           NEW marker, NEW ml, NEW n \in Nat, NEW pos, Marks(s, marker, ml, n, pos),
           NEW j \in Nat, p <= j, NEW d \in Nat, Passed(n, pos, j, d), NEW i \in Nat, i = (j - p) + 1
    PROVE  NextAt(x, marker, ml, n, pos, p, q, i, d)
<1>1. /\ ml \in Nat /\ ml = Len(marker) /\ ml >= 1 /\ pos \in [1..n -> Nat]
      /\ \A m, k \in 1..n : m < k => pos[m] < pos[k]
      /\ \A k \in Nat : k >= 1 => (MarkAt(s, marker, k) <=> \E m \in 1..n : k = pos[m])
  BY Zenon DEF Marks
<1>2. d \in 0..n /\ \A m \in 1..n : m <= d <=> pos[m] <= j
  BY Zenon DEF Passed
<1>3. i >= 1 /\ p + i = j + 1
  OBVIOUS
\* A marker from i on is one of those past j.
<1>4. ASSUME NEW k \in Nat, k >= i, MarkAt(x, marker, k)
      PROVE  \E m \in 1..n : m > d /\ p + k = pos[m] /\ p + k + ml - 1 <= q
  <2>1. k >= 1 /\ p + k >= 1 /\ p + k \in Nat /\ p + k > j
    BY <1>3, <1>4
  <2>2. p + k + ml - 1 <= q /\ MarkAt(s, marker, p + k)
    BY <1>1, <1>4, <2>1, MarkInSlice
  <2>3. PICK m \in 1..n : p + k = pos[m]
    BY <1>1, <2>1, <2>2
  <2>4. ~(m <= d)
    <3>1. ~(p + k <= j)
      BY <2>1
    <3> QED
      BY <1>2, <2>3, <3>1
  <2> QED
    BY <1>2, <2>2, <2>3, <2>4
<1>5. IndexFrom(x, marker, i) \in Nat /\ IsFirst(x, marker, i, IndexFrom(x, marker, i))
  <2>1. PICK lx \in Nat : lx = Len(x)
    <3>1. Len(x) = q - p
      BY Zenon DEF IsSlice
    <3> QED
      BY <3>1
  <2> QED
    BY <1>1, <1>3, <2>1, IndexIs
<1>6. CASE d + 1 \in 1..n /\ pos[d + 1] + ml - 1 <= q
  <2>1. PICK a \in Nat : a = pos[d + 1] /\ a + ml - 1 <= q
    BY <1>1, <1>6
  <2>2. a > j
    <3>1. ~(d + 1 <= d)
      OBVIOUS
    <3>2. ~(a <= j)
      BY <1>2, <1>6, <2>1, <3>1
    <3> QED
      BY <3>2
  <2>3. PICK r \in Nat : r = a - p /\ p + r = a /\ r >= i
    <3>1. a - p \in Nat /\ p + (a - p) = a /\ a - p >= i
      BY <2>2
    <3> QED
      BY <3>1
  <2>4. MarkAt(x, marker, r)
    <3>1. a >= 1 /\ r >= 1
      BY <1>3, <2>2, <2>3
    <3>2. MarkAt(s, marker, p + r)
      BY <1>1, <1>6, <2>1, <2>3, <3>1
    <3>3. p + r + ml - 1 <= q
      BY <2>1, <2>3
    <3> QED
      BY <1>1, <3>1, <3>2, <3>3, MarkInSlice
  <2>5. ASSUME NEW k \in Nat, k >= i, k < r, MarkAt(x, marker, k) PROVE FALSE
    <3>1. PICK m \in 1..n : m > d /\ p + k = pos[m]
      BY <1>4, <2>5
    <3>2. p + k < a
      BY <2>3, <2>5
    <3>3. CASE m = d + 1
      BY <2>1, <3>1, <3>2, <3>3
    <3>4. CASE m # d + 1
      <4>1. d + 1 < m
        BY <3>1, <3>4
      <4>2. pos[d + 1] < pos[m]
        BY <1>1, <1>6, <4>1
      <4>3. a < p + k
        BY <2>1, <3>1, <4>2, Zenon
      <4> QED
        BY <3>2, <4>3
    <3> QED
      BY <3>3, <3>4
  <2>6. IsFirst(x, marker, i, r)
    BY <2>3, <2>4, <2>5, Zenon DEF IsFirst
  <2>7. IndexFrom(x, marker, i) = r
    BY <1>3, <1>5, <2>6, FirstIs
  <2> QED
    BY <1>6, <2>1, <2>3, <2>7, Zenon DEF NextAt
<1>7. CASE ~(d + 1 \in 1..n /\ pos[d + 1] + ml - 1 <= q)
  <2>1. ASSUME NEW k \in Nat, k >= i, MarkAt(x, marker, k) PROVE FALSE
    <3>1. PICK m \in 1..n : m > d /\ p + k = pos[m] /\ p + k + ml - 1 <= q
      BY <1>4, <2>1
    <3>2. d + 1 \in 1..n /\ (d + 1 = m \/ d + 1 < m)
      BY <3>1
    <3>3. PICK a \in Nat : a = pos[d + 1]
      BY <1>1, <3>2
    <3>4. a <= p + k
      <4>1. CASE d + 1 = m
        BY <3>1, <3>3, <4>1
      <4>2. CASE d + 1 < m
        <5>1. pos[d + 1] < pos[m]
          BY <1>1, <3>2, <4>2
        <5>2. a < p + k
          BY <3>1, <3>3, <5>1, Zenon
        <5> QED
          BY <5>2
      <4> QED
        BY <3>2, <4>1, <4>2
    <3>5. a + ml - 1 <= q
      BY <1>1, <3>1, <3>4
    <3> QED
      BY <1>7, <3>2, <3>3, <3>5
  <2>2. IsFirst(x, marker, i, 0)
    BY <2>1, Zenon DEF IsFirst
  <2>3. IndexFrom(x, marker, i) = 0
    BY <1>3, <1>5, <2>2, FirstIs
  <2> QED
    BY <1>7, <2>3, Zenon DEF NextAt
<1> QED
  BY <1>6, <1>7

\* From place a + 1 up to b there is u, in whole or in part, and then zeros.
Stands(s, u, a, b) ==
    /\ a <= b /\ b <= Len(s) /\ u \in Bytes /\ u # <<>> /\ u[Len(u)] # 0
    /\ \A k \in 1..Len(u) : s[a + k] = u[k]
    /\ \A k \in Nat : a + Len(u) < k /\ k <= b => s[k] = 0

LEMMA PrefixTrimmed ==
    ASSUME NEW t \in Bytes, NEW u \in Bytes, NEW lt \in Nat, lt = Len(t), NEW lu \in Nat, lu = Len(u),
           \A k \in 1..lt : IF k <= lu THEN t[k] = u[k] ELSE t[k] = 0
    PROVE  IsPrefix(Trimmed(t), u)
<1>1. PICK m \in 0..lt : /\ Trimmed(t) \in Bytes /\ Len(Trimmed(t)) = m
                         /\ \A k \in 1..m : Trimmed(t)[k] = t[k]
                         /\ m = 0 \/ t[m] # 0
  BY TrimmedFits
<1>2. PICK y \in Seq(Byte) : y = Trimmed(t)
  BY <1>1 DEF Bytes
<1>8. m \in Nat /\ 0 <= m /\ m <= lt /\ m <= lu
  <2>1. CASE m = 0
    BY <2>1
  <2>2. CASE m # 0
    <3>1. m \in 1..lt
      BY <2>2
    <3> QED
      BY <1>1, <2>2, <3>1
  <2> QED
    BY <2>1, <2>2
<1>10. Len(y) = m /\ \A k \in 1..m : y[k] = t[k]
  BY <1>1, <1>2
<1>11. Trimmed(t) = y
  BY <1>2
<1>12. SubSeq(u, 1, m) = y
  <2>1. \A k \in 1..m : u[0 + k] = y[k]
    BY <1>8, <1>10
  <2>2. SubSeq(u, 0 + 1, 0 + Len(y)) = y
    <3>1. 0 + Len(y) <= Len(u) /\ \A k \in 1..Len(y) : u[0 + k] = y[k]
      BY <1>8, <1>10, <2>1
    <3> QED
      BY <3>1, BytesSliced DEF Bytes
  <2> QED
    BY <1>8, <1>10, <2>2
<1>13. SubSeq(y, 1, Len(y)) = y
  BY SubSeqFull
<1> QED
  BY <1>8, <1>10, <1>11, <1>12, <1>13, Zenon DEF IsPrefix

\* What is left of y without its last zeros is the front of u, or all of it.
Trims(y, u, a, b) == IsPrefix(WithoutZeros(y), u) /\ (a + Len(u) <= b => WithoutZeros(y) = u)

LEMMA StandsTrimmed ==
    ASSUME NEW s \in Bytes, NEW u, NEW a \in Nat, NEW b \in Nat, Stands(s, u, a, b)
    PROVE  Trims(SubSeq(s, a + 1, b), u, a, b)
<1>1. /\ a <= b /\ b <= Len(s) /\ u \in Bytes /\ u # <<>> /\ u[Len(u)] # 0
      /\ \A k \in 1..Len(u) : s[a + k] = u[k]
      /\ \A k \in Nat : a + Len(u) < k /\ k <= b => s[k] = 0
  BY Zenon DEF Stands
<1>2. PICK lu \in Nat : lu = Len(u)
  BY <1>1, BytesAre
<1>3. PICK t \in Seq(Byte) : IsSlice(t, s, a, b)
  BY <1>1, SliceIs DEF Bytes
<1>4. t = SubSeq(s, a + 1, b) /\ Len(t) = b - a /\ \A k \in 1..(b - a) : t[k] = s[a + k]
  BY <1>3, Zenon DEF IsSlice
<1>5. PICK lt \in Nat : lt = b - a /\ a + lt = b
  BY <1>1
<1>6. ASSUME NEW k \in 1..lt PROVE IF k <= lu THEN t[k] = u[k] ELSE t[k] = 0
  <2>1. t[k] = s[a + k]
    BY <1>4, <1>5
  <2>2. CASE k <= lu
    BY <1>1, <1>2, <2>1, <2>2
  <2>3. CASE ~(k <= lu)
    <3>1. a + k \in Nat /\ a + lu < a + k /\ a + k <= b
      BY <1>5, <2>3
    <3>2. s[a + k] = 0
      BY <1>1, <1>2, <3>1
    <3> QED
      BY <2>1, <2>3, <3>2
  <2> QED
    BY <2>2, <2>3
<1>7. t \in Bytes /\ WithoutZeros(t) = Trimmed(t)
  BY Zenon DEF Bytes, WithoutZeros, Trimmed
<1>8. IsPrefix(Trimmed(t), u)
  BY <1>1, <1>2, <1>4, <1>5, <1>6, <1>7, PrefixTrimmed
<1>9. ASSUME a + lu <= b PROVE Trimmed(t) = u
  <2>1. lu <= lt /\ Len(t) = lt
    BY <1>4, <1>5, <1>9
  <2>2. \A k \in 1..Len(u) : t[k] = u[k]
    BY <1>2, <1>6, <2>1
  <2>3. \A k \in (Len(u) + 1)..Len(t) : t[k] = 0
    BY <1>2, <1>6, <2>1
  <2> QED
    BY <1>1, <1>2, <1>7, <2>1, <2>2, <2>3, TrimmedIs
<1> QED
  BY <1>2, <1>4, <1>7, <1>8, <1>9, Zenon DEF Trims

-----------------------------------------------------------------------------
(* AnnexB: NAL units *)

\* Unit m, of l bytes, and the start code before it stand behind place a.
NaluAt(s, len, orig, n, e, m, a, l) ==
    /\ e[m - 1] = a /\ e[m] = a + 4 + l /\ l > 0 /\ a + 4 + l <= len
    /\ orig[m] \in Bytes /\ Len(orig[m]) = l /\ orig[m][l] # 0
    /\ s[a + 1] = 0 /\ s[a + 2] = 0 /\ s[a + 3] = 0 /\ s[a + 4] = 1
    /\ \A k \in 1..l : s[a + 4 + k] = orig[m][k]

LEMMA NaluIs ==
    ASSUME NEW s \in Bytes, NEW orig, NEW len \in Nat, NEW n \in Nat,
           NEW w \in [1..n -> Nat], NEW e \in [0..n -> Nat], PayloadOf(s, len, orig, n, w, e),
           NEW m \in 1..n
    PROVE  \E a, l \in Nat : NaluAt(s, len, orig, n, e, m, a, l)
<1>1. m - 1 \in 0..n /\ m \in 0..n /\ n \in 0..n /\ m <= n
  OBVIOUS
<1>2. PICK a \in Nat, l \in Nat : a = e[m - 1] /\ l = w[m]
  BY <1>1
<1>3. /\ orig[m] \in Bytes /\ Len(orig[m]) = w[m] /\ w[m] > 0 /\ orig[m][w[m]] # 0
      /\ e[m] = e[m - 1] + 4 + w[m]
      /\ s[e[m - 1] + 1] = 0 /\ s[e[m - 1] + 2] = 0 /\ s[e[m - 1] + 3] = 0 /\ s[e[m - 1] + 4] = 1
      /\ \A k \in 1..w[m] : s[e[m - 1] + 4 + k] = orig[m][k]
  BY Zenon DEF PayloadOf
<1>4. e[m] <= len
  <2>1. e[n] = len /\ \A i, j \in 0..n : i <= j => e[i] <= e[j]
    BY Zenon DEF PayloadOf
  <2> QED
    BY <1>1, <2>1
<1>5. e[m] = a + 4 + l
  BY <1>2, <1>3, Zenon
<1>6. a + 4 + l <= len
  BY <1>4, <1>5, Zenon
<1> QED
  BY <1>2, <1>3, <1>5, <1>6, Zenon DEF NaluAt

\* Where units begin, are done with and are complete.
NaluHead(n, e) == [m \in 1..n |-> e[m - 1] + 2]
NaluStop(n, e) == [m \in 0..n |-> IF m = 0 \/ m = n THEN e[m] ELSE e[m] + 1]
NaluFull(n, e) == [m \in 1..n |-> IF m = n THEN e[m] + 1 ELSE e[m] + 4]

\* Units up to m end before unit k begins, or unit k ends before they do.
NaluOrder(e, m, k, b, a, l) ==
    /\ b = e[m] /\ a = e[k - 1] /\ l > 0
    /\ k <= m => a + 4 + l <= b
    /\ ~(k <= m) => b <= a

LEMMA NaluBehind ==
    ASSUME NEW s \in Bytes, NEW orig, NEW len \in Nat, NEW n \in Nat,
           NEW w \in [1..n -> Nat], NEW e \in [0..n -> Nat], PayloadOf(s, len, orig, n, w, e),
           NEW m \in 0..n, NEW k \in 1..n
    PROVE  \E b, a, l \in Nat : NaluOrder(e, m, k, b, a, l)
<1>1. PICK a, l \in Nat : NaluAt(s, len, orig, n, e, k, a, l)
  BY NaluIs
<1>2. e[k - 1] = a /\ e[k] = a + 4 + l /\ l > 0
  BY <1>1, Zenon DEF NaluAt
<1>3. PICK b \in Nat : b = e[m]
  OBVIOUS
<1>4. \A i, j \in 0..n : i <= j => e[i] <= e[j]
  BY Zenon DEF PayloadOf
<1>5. ASSUME k <= m PROVE a + 4 + l <= b
  <2>1. k \in 0..n
    OBVIOUS
  <2>2. e[k] <= e[m]
    BY <1>4, <1>5, <2>1
  <2> QED
    BY <1>2, <1>3, <2>2, Zenon
<1>6. ASSUME ~(k <= m) PROVE b <= a
  <2>1. k - 1 \in 0..n /\ m <= k - 1
    BY <1>6
  <2>2. e[m] <= e[k - 1]
    BY <1>4, <2>1
  <2> QED
    BY <1>2, <1>3, <2>2, Zenon
<1>7. NaluOrder(e, m, k, b, a, l)
  BY <1>2, <1>3, <1>5, <1>6, Zenon DEF NaluOrder
<1> QED
  BY <1>7

LEMMA NaluMarks ==
    ASSUME NEW s \in Bytes, NEW orig, NEW len \in Nat, NEW n \in Nat,
           NEW w \in [1..n -> Nat], NEW e \in [0..n -> Nat], PayloadOf(s, len, orig, n, w, e)
    PROVE  Marks(s, StartMarker, 3, n, NaluHead(n, e))
<1> DEFINE pos == NaluHead(n, e)
<1>1. \A m \in 1..n : pos[m] = e[m - 1] + 2 /\ e[m - 1] \in Nat
  <2>1. \A m \in 1..n : m - 1 \in 0..n
    OBVIOUS
  <2> QED
    BY <2>1 DEF NaluHead
<1>2. pos \in [1..n -> Nat]
  <2>1. \A m \in 1..n : e[m - 1] + 2 \in Nat
    BY <1>1
  <2> QED
    BY <2>1 DEF NaluHead
<1> HIDE DEF pos
<1>3. ASSUME NEW m \in 1..n, NEW k \in 1..n, m < k PROVE pos[m] < pos[k]
  <2>1. k - 1 \in 0..n /\ m <= k - 1
    BY <1>3
  <2>2. PICK b, a, l \in Nat : NaluOrder(e, k - 1, m, b, a, l)
    BY <2>1, NaluBehind
  <2>3. b = e[k - 1] /\ a = e[m - 1] /\ a + 4 + l <= b
    BY <2>1, <2>2, Zenon DEF NaluOrder
  <2>4. PICK x \in Nat, y \in Nat : x = pos[m] /\ y = pos[k]
    BY <1>2
  <2>5. x = a + 2 /\ y = b + 2
    BY <1>1, <2>3, <2>4, Zenon
  <2>6. x < y
    <3>1. a + 4 + l <= b
      BY <2>3, Zenon
    <3> QED
      BY <2>5, <3>1
  <2> QED
    BY <2>4, <2>6, Zenon
<1>4. Len(StartMarker) = 3
  BY DEF StartMarker
<1>5. ASSUME NEW j \in Nat, j >= 1 PROVE MarkAt(s, StartMarker, j) <=> \E m \in 1..n : j = pos[m]
  <2>1. MarkAt(s, StartMarker, j) <=> CodeAt(s, j)
    BY <1>5, ThreeBytes
  <2>2. CASE j <= len
    <3>1. j \in 1..len
      BY <1>5, <2>2
    <3>2. CodeAt(s, j) <=> \E m \in 1..n : j = e[m - 1] + 2
      BY <3>1, CodesAre, Zenon
    <3> QED
      BY <1>1, <2>1, <3>2, Zenon
  <2>3. CASE ~(j <= len)
    <3>1. ~CodeAt(s, j)
      <4>1. len = Len(s)
        BY Zenon DEF PayloadOf
      <4>2. ~(j + 2 <= len)
        BY <2>3
      <4> QED
        BY <4>1, <4>2, Zenon DEF CodeAt
    <3>2. ASSUME NEW m \in 1..n, j = pos[m] PROVE FALSE
      <4>1. PICK a, l \in Nat : NaluAt(s, len, orig, n, e, m, a, l)
        BY NaluIs
      <4>2. e[m - 1] = a /\ a + 4 + l <= len
        BY <4>1, Zenon DEF NaluAt
      <4>3. j = a + 2
        BY <1>1, <3>2, <4>2
      <4> QED
        BY <2>3, <4>2, <4>3
    <3> QED
      BY <2>1, <3>1, <3>2, Zenon
  <2> QED
    BY <2>2, <2>3
<1>6. 3 \in Nat /\ 3 >= 1
  OBVIOUS
<1>7. Marks(s, StartMarker, 3, n, pos)
  BY <1>2, <1>3, <1>4, <1>5, <1>6, Zenon DEF Marks
<1> QED
  BY <1>7 DEF pos

LEMMA NaluFraming ==
    ASSUME NEW s \in Bytes, NEW orig, NEW len \in Nat, NEW n \in Nat,
           NEW w \in [1..n -> Nat], NEW e \in [0..n -> Nat], PayloadOf(s, len, orig, n, w, e)
    PROVE  Framing(n, len, orig, NaluHead(n, e), NaluStop(n, e), NaluFull(n, e))
<1> DEFINE head == NaluHead(n, e)
           stop == NaluStop(n, e)
           full == NaluFull(n, e)
<1>1. ASSUME NEW m \in 1..n PROVE head[m] = e[m - 1] + 2 /\ full[m] = IF m = n THEN e[m] + 1 ELSE e[m] + 4
  BY Zenon DEF NaluHead, NaluFull
<1>2. ASSUME NEW m \in 0..n PROVE stop[m] = IF m = 0 \/ m = n THEN e[m] ELSE e[m] + 1
  BY Zenon DEF NaluStop
<1>3. head \in [1..n -> Nat]
  <2>1. \A m \in 1..n : m - 1 \in 0..n
    OBVIOUS
  <2>2. \A m \in 1..n : e[m - 1] + 2 \in Nat
    BY <2>1
  <2> QED
    BY <2>2 DEF NaluHead
<1>4. stop \in [0..n -> Nat]
  <2>1. \A m \in 0..n : (IF m = 0 \/ m = n THEN e[m] ELSE e[m] + 1) \in Nat
    OBVIOUS
  <2> QED
    BY <2>1 DEF NaluStop
<1>5. full \in [1..n -> Nat]
  <2>1. \A m \in 1..n : m \in 0..n
    OBVIOUS
  <2>2. \A m \in 1..n : (IF m = n THEN e[m] + 1 ELSE e[m] + 4) \in Nat
    BY <2>1
  <2> QED
    BY <2>2 DEF NaluFull
<1> HIDE DEF head, stop, full
<1>6. e[0] = 0 /\ e[n] = len
  BY Zenon DEF PayloadOf
<1>7. stop[0] = 0 /\ stop[n] = len
  <2>1. 0 \in 0..n /\ n \in 0..n
    OBVIOUS
  <2> QED
    BY <1>2, <1>6, <2>1, Zenon
<1>8. ASSUME NEW m \in 1..n
      PROVE  orig[m] \in Bytes /\ stop[m] <= full[m] /\ full[m] <= stop[m - 1] + Len(orig[m]) + 8
  <2>1. PICK a, l \in Nat : NaluAt(s, len, orig, n, e, m, a, l)
    BY NaluIs
  <2>2. e[m - 1] = a /\ e[m] = a + 4 + l /\ orig[m] \in Bytes /\ Len(orig[m]) = l
    BY <2>1, Zenon DEF NaluAt
  <2>3. m \in 0..n /\ m - 1 \in 0..n /\ m # 0
    OBVIOUS
  <2>4. stop[m - 1] = a \/ stop[m - 1] = a + 1
    BY <1>2, <2>2, <2>3, Zenon
  <2>5. \/ stop[m] = a + 4 + l /\ full[m] = (a + 4 + l) + 1
        \/ stop[m] = (a + 4 + l) + 1 /\ full[m] = (a + 4 + l) + 4
    BY <1>1, <1>2, <2>2, <2>3, Zenon
  <2>6. PICK b \in Nat, x \in Nat, y \in Nat : b = stop[m - 1] /\ x = stop[m] /\ y = full[m]
    BY <1>4, <1>5, <2>3
  <2>7. b = a \/ b = a + 1
    BY <2>4, <2>6, Zenon
  <2>8. \/ x = a + 4 + l /\ y = (a + 4 + l) + 1
        \/ x = (a + 4 + l) + 1 /\ y = (a + 4 + l) + 4
    BY <2>5, <2>6, Zenon
  <2>9. x <= y /\ y <= b + l + 8
    BY <2>7, <2>8
  <2> QED
    BY <2>2, <2>6, <2>9, Zenon
<1>9. ASSUME NEW m \in 0..n, NEW k \in 1..n PROVE k <= m <=> head[k] <= stop[m]
  <2>1. PICK b, a, l \in Nat : NaluOrder(e, m, k, b, a, l)
    BY NaluBehind
  <2>2. b = e[m] /\ a = e[k - 1] /\ (k <= m => a + 4 + l <= b) /\ (~(k <= m) => b <= a)
    BY <2>1, Zenon DEF NaluOrder
  <2>3. PICK x \in Nat, y \in Nat : x = head[k] /\ y = stop[m]
    BY <1>3, <1>4
  <2>4. x = a + 2
    BY <1>1, <2>2, <2>3, Zenon
  <2>5. y = b \/ y = b + 1
    BY <1>2, <2>2, <2>3, Zenon
  <2>6. CASE k <= m
    <3>1. x <= y
      BY <2>2, <2>4, <2>5, <2>6
    <3> QED
      BY <2>3, <2>6, <3>1, Zenon
  <2>7. CASE ~(k <= m)
    <3>1. ~(x <= y)
      BY <2>2, <2>4, <2>5, <2>7
    <3> QED
      BY <2>3, <2>7, <3>1, Zenon
  <2> QED
    BY <2>6, <2>7
<1>10. Framing(n, len, orig, head, stop, full)
  BY <1>3, <1>4, <1>5, <1>7, <1>8, <1>9, Zenon DEF Framing
<1> QED
  BY <1>10 DEF head, stop, full

\* x is what was read between p and q, and the units up to c have their start
\* codes before it.
Reading(s, n, len, head, p, q, c, x) ==
    p <= q /\ q <= len /\ len = Len(s) /\ IsSlice(x, s, p, q) /\ Passed(n, head, p, c)

\* Unit c + 1 as x shows it: it stands behind place a + 4 and ends at z.
Viewing(s, len, orig, n, e, p, q, c, x, a, l, z) ==
    /\ Reading(s, n, len, NaluHead(n, e), p, q, c, x)
    /\ c + 1 \in 1..n /\ NaluAt(s, len, orig, n, e, c + 1, a, l) /\ z = a + 4 + l

\* Its start code is in x when all of it is; so is the next one.
Started(x, p, q, a) ==
    p < a + 2 /\ IndexFrom(x, StartMarker, 1) = IF a + 4 <= q THEN (a + 2) - p ELSE 0
Beyond(p, a, i) == p < a + 2 /\ i = ((a + 2) - p) + 4
MarksNext(x, n, p, q, c, z, i) ==
    IndexFrom(x, StartMarker, i) = IF c + 1 # n /\ z + 4 <= q THEN (z + 2) - p ELSE 0

LEMMA NaluStart ==
    ASSUME NEW s \in Bytes, NEW orig, NEW len \in Nat, NEW n \in Nat,
           NEW w \in [1..n -> Nat], NEW e \in [0..n -> Nat], PayloadOf(s, len, orig, n, w, e),
           NEW p \in Nat, NEW q \in Nat, NEW c \in Nat, NEW x, NEW a \in Nat, NEW l \in Nat, NEW z \in Nat,
           Viewing(s, len, orig, n, e, p, q, c, x, a, l, z)
    PROVE  Started(x, p, q, a)
<1>0. /\ Reading(s, n, len, NaluHead(n, e), p, q, c, x)
      /\ c + 1 \in 1..n /\ NaluAt(s, len, orig, n, e, c + 1, a, l) /\ z = a + 4 + l
  BY Zenon DEF Viewing
<1> DEFINE head == NaluHead(n, e)
<1>1. p <= q /\ q <= Len(s) /\ len = Len(s) /\ IsSlice(x, s, p, q) /\ Passed(n, head, p, c)
  BY <1>0, Zenon DEF Reading
<1>2. Marks(s, StartMarker, 3, n, head)
  BY NaluMarks
<1>3. head[c + 1] = a + 2
  <2>1. (c + 1) - 1 = c
    OBVIOUS
  <2>2. e[c] = a
    BY <1>0, <2>1, Zenon DEF NaluAt
  <2>3. head[c + 1] = e[(c + 1) - 1] + 2
    BY <1>0, Zenon DEF NaluHead
  <2> QED
    BY <2>1, <2>2, <2>3, Zenon
<1> HIDE DEF head
<1>4. NextAt(x, StartMarker, 3, n, head, p, q, 1, c)
  <2>1. p <= p /\ 1 = (p - p) + 1 /\ 1 \in Nat
    OBVIOUS
  <2> QED
    BY <1>1, <1>2, <2>1, NextMark
<1>5. ~((a + 2) <= p)
  <2>1. ~(c + 1 <= c)
    OBVIOUS
  <2> QED
    BY <1>0, <1>1, <1>3, <2>1, Zenon DEF Passed
<1>6. (a + 2) + 3 - 1 <= q <=> a + 4 <= q
  OBVIOUS
<1>7. IndexFrom(x, StartMarker, 1) = IF c + 1 \in 1..n /\ head[c + 1] + 3 - 1 <= q THEN head[c + 1] - p ELSE 0
  BY <1>4, Zenon DEF NextAt
<1>8. p < a + 2
  BY <1>5
<1> QED
  BY <1>0, <1>3, <1>6, <1>7, <1>8, Zenon DEF Started

LEMMA NaluNoStart ==
    ASSUME NEW s \in Bytes, NEW orig, NEW len \in Nat, NEW n \in Nat,
           NEW w \in [1..n -> Nat], NEW e \in [0..n -> Nat], PayloadOf(s, len, orig, n, w, e),
           NEW p \in Nat, NEW q \in Nat, NEW c \in Nat, NEW x, Reading(s, n, len, NaluHead(n, e), p, q, c, x),
           ~(c + 1 \in 1..n)
    PROVE  IndexFrom(x, StartMarker, 1) = 0
<1> DEFINE head == NaluHead(n, e)
<1>1. p <= q /\ q <= Len(s) /\ len = Len(s) /\ IsSlice(x, s, p, q) /\ Passed(n, head, p, c)
  BY Zenon DEF Reading
<1>2. Marks(s, StartMarker, 3, n, head)
  BY NaluMarks
<1> HIDE DEF head
<1>3. NextAt(x, StartMarker, 3, n, head, p, q, 1, c)
  <2>1. p <= p /\ 1 = (p - p) + 1 /\ 1 \in Nat
    OBVIOUS
  <2> QED
    BY <1>1, <1>2, <2>1, NextMark
<1> QED
  BY <1>3, Zenon DEF NextAt

\* The start code behind unit c + 1, of which there are bytes behind place a + 4.
LEMMA NaluNext ==
    ASSUME NEW s \in Bytes, NEW orig, NEW len \in Nat, NEW n \in Nat,
           NEW w \in [1..n -> Nat], NEW e \in [0..n -> Nat], PayloadOf(s, len, orig, n, w, e),
           NEW p \in Nat, NEW q \in Nat, NEW c \in Nat, NEW x, NEW a \in Nat, NEW l \in Nat, NEW z \in Nat,
           Viewing(s, len, orig, n, e, p, q, c, x, a, l, z), NEW i \in Nat, Beyond(p, a, i)
    PROVE  MarksNext(x, n, p, q, c, z, i)
<1>0. /\ Reading(s, n, len, NaluHead(n, e), p, q, c, x)
      /\ c + 1 \in 1..n /\ NaluAt(s, len, orig, n, e, c + 1, a, l) /\ z = a + 4 + l
      /\ p < a + 2 /\ i = ((a + 2) - p) + 4
  BY Zenon DEF Viewing, Beyond
<1> DEFINE head == NaluHead(n, e)
<1>1. p <= q /\ q <= Len(s) /\ len = Len(s) /\ IsSlice(x, s, p, q) /\ Passed(n, head, p, c)
  BY <1>0, Zenon DEF Reading
<1>2. Marks(s, StartMarker, 3, n, head)
  BY NaluMarks
<1>3. e[c] = a /\ e[c + 1] = z /\ l > 0
  <2>1. (c + 1) - 1 = c
    OBVIOUS
  <2> QED
    BY <1>0, <2>1, Zenon DEF NaluAt
<1>4. ASSUME NEW m \in 1..n PROVE head[m] = e[m - 1] + 2
  BY Zenon DEF NaluHead
<1>5. head \in [1..n -> Nat]
  BY <1>2, Zenon DEF Marks
<1> HIDE DEF head
<1>6. ASSUME NEW m \in 1..n PROVE m <= c + 1 <=> head[m] <= a + 5
  <2>1. c \in 0..n /\ c + 1 \in 0..n
    BY <1>0
  <2>2. PICK b1, a1, l1 \in Nat : NaluOrder(e, c, m, b1, a1, l1)
    BY <2>1, NaluBehind
  <2>3. PICK b2, a2, l2 \in Nat : NaluOrder(e, c + 1, m, b2, a2, l2)
    BY <2>1, NaluBehind
  <2>4. /\ b1 = a /\ b2 = z /\ a1 = e[m - 1] /\ a2 = a1
        /\ m <= c => a1 + 4 + l1 <= b1
        /\ ~(m <= c + 1) => b2 <= a2
    BY <1>3, <2>2, <2>3, Zenon DEF NaluOrder
  <2>5. PICK y \in Nat : y = head[m]
    BY <1>5
  <2>6. y = a1 + 2
    BY <1>4, <2>4, <2>5, Zenon
  <2>7. ASSUME m <= c + 1 PROVE y <= a + 5
    <3>1. CASE m <= c
      <4>1. a1 + 4 + l1 <= a
        BY <2>4, <3>1, Zenon
      <4> QED
        BY <2>6, <4>1
    <3>2. CASE ~(m <= c)
      <4>1. m - 1 = c
        BY <1>0, <2>7, <3>2
      <4>2. a1 = a
        BY <1>3, <2>4, <4>1, Zenon
      <4> QED
        BY <2>6, <4>2
    <3> QED
      BY <3>1, <3>2
  <2>8. ASSUME ~(m <= c + 1) PROVE ~(y <= a + 5)
    <3>1. z <= a1
      BY <2>4, <2>8, Zenon
    <3> QED
      BY <1>0, <1>3, <2>6, <3>1
  <2> QED
    BY <2>5, <2>7, <2>8, Zenon
<1>7. Passed(n, head, a + 5, c + 1)
  <2>1. c + 1 \in 0..n
    BY <1>0
  <2> QED
    BY <1>6, <2>1, Zenon DEF Passed
<1>8. NextAt(x, StartMarker, 3, n, head, p, q, i, c + 1)
  <2>1. p <= a + 5 /\ i = ((a + 5) - p) + 1 /\ a + 5 \in Nat /\ c + 1 \in Nat
    BY <1>0
  <2> QED
    BY <1>1, <1>2, <1>7, <2>1, NextMark
<1>9. IndexFrom(x, StartMarker, i)
        = IF (c + 1) + 1 \in 1..n /\ head[(c + 1) + 1] + 3 - 1 <= q THEN head[(c + 1) + 1] - p ELSE 0
  BY <1>8, Zenon DEF NextAt
<1>10. (c + 1) + 1 \in 1..n <=> c + 1 # n
  BY <1>0
<1>11. ASSUME c + 1 # n PROVE head[(c + 1) + 1] = z + 2
  <2>1. (c + 1) + 1 \in 1..n /\ ((c + 1) + 1) - 1 = c + 1
    BY <1>0, <1>10, <1>11
  <2> QED
    BY <1>3, <1>4, <2>1, Zenon
<1>12. (z + 2) + 3 - 1 <= q <=> z + 4 <= q
  OBVIOUS
<1>13. CASE c + 1 = n
  BY <1>9, <1>10, <1>13, Zenon DEF MarksNext
<1>14. CASE c + 1 # n
  BY <1>9, <1>10, <1>11, <1>12, <1>14, Zenon DEF MarksNext
<1> QED
  BY <1>13, <1>14

\* Behind the unit there are zeros up to the mark of the next start code.
LEMMA NaluStands ==
    ASSUME NEW s \in Bytes, NEW orig, NEW len \in Nat, NEW n \in Nat,
           NEW w \in [1..n -> Nat], NEW e \in [0..n -> Nat], PayloadOf(s, len, orig, n, w, e),
           NEW p \in Nat, NEW q \in Nat, NEW c \in Nat, NEW x, NEW a \in Nat, NEW l \in Nat, NEW z \in Nat,
           Viewing(s, len, orig, n, e, p, q, c, x, a, l, z),
           NEW b \in Nat, a + 4 <= b, b <= q, c + 1 = n \/ b <= z + 3
    PROVE  Stands(s, orig[c + 1], a + 4, b)
<1>1. /\ p <= q /\ q <= len /\ len = Len(s) /\ c + 1 \in 1..n /\ z = a + 4 + l /\ e[c + 1] = z
      /\ l > 0 /\ orig[c + 1] \in Bytes /\ Len(orig[c + 1]) = l /\ orig[c + 1][l] # 0
  <2>1. a + 4 + l = z
    BY DEF Viewing
  <2> QED
    BY <2>1, Zenon DEF Viewing, Reading, NaluAt
<1>2. \A k \in 1..l : s[a + 4 + k] = orig[c + 1][k]
  BY Zenon DEF Viewing, NaluAt
<1>3. orig[c + 1] # <<>>
  <2>1. Len(orig[c + 1]) # 0
    BY <1>1
  <2> QED
    BY <1>1, <2>1, BytesAre
<1>4. ASSUME NEW k \in Nat, a + 4 + l < k, k <= b PROVE s[k] = 0
  <2>1. CASE c + 1 = n
    <3>1. e[n] = len
      BY Zenon DEF PayloadOf
    <3>2. z = len
      BY <1>1, <2>1, <3>1, Zenon
    <3> QED
      BY <1>1, <1>4, <3>2
  <2>2. CASE c + 1 # n
    <3>1. (c + 1) + 1 \in 1..n /\ ((c + 1) + 1) - 1 = c + 1
      BY <1>1, <2>2
    <3>2. PICK a2, l2 \in Nat : NaluAt(s, len, orig, n, e, (c + 1) + 1, a2, l2)
      BY <3>1, NaluIs
    <3>3. s[z + 1] = 0 /\ s[z + 2] = 0 /\ s[z + 3] = 0
      <4>1. e[c + 1] = a2 /\ s[a2 + 1] = 0 /\ s[a2 + 2] = 0 /\ s[a2 + 3] = 0
        BY <3>1, <3>2, Zenon DEF NaluAt
      <4> QED
        BY <1>1, <4>1, Zenon
    <3>4. k = z + 1 \/ k = z + 2 \/ k = z + 3
      BY <1>1, <1>4, <2>2
    <3> QED
      BY <3>3, <3>4, Zenon
  <2> QED
    BY <2>1, <2>2
<1>5. b <= Len(s)
  BY <1>1
<1> QED
  BY <1>1, <1>2, <1>3, <1>4, <1>5, Zenon DEF Stands

LEMMA NaluReady ==
    ASSUME NEW s \in Bytes, NEW orig, NEW len \in Nat, NEW n \in Nat,
           NEW w \in [1..n -> Nat], NEW e \in [0..n -> Nat], PayloadOf(s, len, orig, n, w, e),
           NEW p \in Nat, NEW q \in Nat, NEW c \in Nat, NEW x, NEW a \in Nat, NEW l \in Nat, NEW z \in Nat,
           Viewing(s, len, orig, n, e, p, q, c, x, a, l, z), c + 1 # n, z + 4 <= q
    PROVE  FindsItem("nalu", x, c, orig, NaluStop(n, e)[c + 1] - p)
<1>1. /\ Reading(s, n, len, NaluHead(n, e), p, q, c, x) /\ NaluAt(s, len, orig, n, e, c + 1, a, l)
      /\ c + 1 \in 1..n /\ z = a + 4 + l
  BY Zenon DEF Viewing
<1>2. p <= q /\ q <= Len(s) /\ IsSlice(x, s, p, q) /\ orig[c + 1] \in Bytes /\ Len(orig[c + 1]) = l
      /\ e[c + 1] = z
  BY <1>1, Zenon DEF Reading, NaluAt
<1>3. p < a + 2 /\ IndexFrom(x, StartMarker, 1) = IF a + 4 <= q THEN (a + 2) - p ELSE 0
  <2>1. Started(x, p, q, a)
    BY NaluStart
  <2> QED
    BY <2>1, Zenon DEF Started
<1>4. PICK r \in Nat, t \in Nat, i \in Nat, f \in Nat, u \in Nat :
        /\ r = (a + 2) - p /\ t = (z + 2) - p /\ i = r + 4 /\ r # 0 /\ t # 0 /\ a + 4 <= q
        /\ r + 3 = f + 1 /\ u = t - 1 /\ p + f = a + 4 /\ p + u = z + 1 /\ f <= u /\ u <= q - p
        /\ u = (z + 1) - p /\ i = ((a + 2) - p) + 4
  <2>1. (a + 2) - p \in Nat /\ (z + 2) - p \in Nat /\ (a + 4) - p \in Nat /\ (z + 1) - p \in Nat
    BY <1>1, <1>3
  <2>2. PICK r \in Nat, t \in Nat, f \in Nat, u \in Nat :
          r = (a + 2) - p /\ t = (z + 2) - p /\ f = (a + 4) - p /\ u = (z + 1) - p
    BY <2>1
  <2>3. r # 0 /\ t # 0 /\ a + 4 <= q /\ r + 3 = f + 1 /\ u = t - 1 /\ p + f = a + 4 /\ p + u = z + 1
        /\ f <= u /\ u <= q - p /\ r + 4 \in Nat /\ r + 4 = ((a + 2) - p) + 4
    BY <1>1, <1>3, <2>2
  <2> QED
    BY <2>2, <2>3
<1>5. IndexFrom(x, StartMarker, 1) = r
  BY <1>3, <1>4, Zenon
<1>6. IndexFrom(x, StartMarker, r + 4) = t
  <2>1. IndexFrom(x, StartMarker, i) = IF c + 1 # n /\ z + 4 <= q THEN (z + 2) - p ELSE 0
    <3>1. Beyond(p, a, i)
      BY <1>3, <1>4, Zenon DEF Beyond
    <3>2. MarksNext(x, n, p, q, c, z, i)
      BY <3>1, NaluNext
    <3> QED
      BY <3>2, Zenon DEF MarksNext
  <2> QED
    BY <1>4, <2>1, Zenon
<1>7. CompleteNALU(x) = {[item |-> SubSeq(x, r + 3, t - 1), used |-> t - 1]}
  BY <1>4, <1>5, <1>6, Zenon DEF CompleteNALU
<1>8. SubSeq(x, f + 1, u) = SubSeq(s, (a + 4) + 1, z + 1)
  <2>1. Inside(s, p, q, f, u)
    BY <1>2, <1>4, Zenon DEF Inside
  <2>2. SameSlice(x, s, p, f, u)
    BY <1>2, <2>1, SliceOfSlice
  <2> QED
    BY <1>4, <2>2, Zenon DEF SameSlice
<1>9. Stands(s, orig[c + 1], a + 4, z + 1)
  <2>1. a + 4 <= z + 1 /\ z + 1 <= q /\ z + 1 <= z + 3 /\ z + 1 \in Nat
    BY <1>1
  <2> QED
    BY <2>1, NaluStands
<1>10. WithoutZeros(SubSeq(s, (a + 4) + 1, z + 1)) = orig[c + 1]
  <2>1. (a + 4) + l <= z + 1 /\ a + 4 \in Nat /\ z + 1 \in Nat
    BY <1>1
  <2>2. (a + 4) + Len(orig[c + 1]) <= z + 1
    BY <1>2, <2>1, Zenon
  <2>3. Trims(SubSeq(s, (a + 4) + 1, z + 1), orig[c + 1], a + 4, z + 1)
    BY <1>9, <2>1, StandsTrimmed
  <2> QED
    BY <2>2, <2>3, Zenon DEF Trims
<1>11. SubSeq(s, (a + 4) + 1, z + 1) \in Bytes
  <2>1. a + 4 \in Nat /\ z + 1 \in Nat /\ a + 4 <= z + 1 /\ z + 1 <= q
    BY <1>1
  <2>2. Len(s) \in Nat
    BY BytesAre
  <2>3. z + 1 <= Len(s)
    BY <1>2, <2>1, <2>2
  <2> QED
    BY <2>1, <2>3, SliceOf
<1>12. NaluStop(n, e)[c + 1] - p = t - 1
  <2>1. c + 1 \in 0..n /\ c + 1 # 0
    BY <1>1
  <2>2. NaluStop(n, e)[c + 1] = z + 1
    BY <1>2, <2>1, Zenon DEF NaluStop
  <2> QED
    BY <1>4, <2>2, Zenon
<1>13. CompleteOf("nalu", x) = {[item |-> SubSeq(s, (a + 4) + 1, z + 1), used |-> NaluStop(n, e)[c + 1] - p]}
  BY <1>4, <1>7, <1>8, <1>12, Zenon DEF CompleteOf
<1> QED
  BY <1>10, <1>11, <1>13, Zenon DEF FindsItem

LEMMA NaluWaits ==
    ASSUME NEW s \in Bytes, NEW orig, NEW len \in Nat, NEW n \in Nat,
           NEW w \in [1..n -> Nat], NEW e \in [0..n -> Nat], PayloadOf(s, len, orig, n, w, e),
           NEW p \in Nat, NEW q \in Nat, NEW c \in Nat, NEW x, NEW a \in Nat, NEW l \in Nat, NEW z \in Nat,
           Viewing(s, len, orig, n, e, p, q, c, x, a, l, z), ~(c + 1 # n /\ z + 4 <= q), a + 4 <= q
    PROVE  FindsNone("nalu", x, n, c, orig, q = len /\ p = NaluStop(n, e)[c])
<1> DEFINE whole == q = len /\ p = NaluStop(n, e)[c]
<1>1. /\ Reading(s, n, len, NaluHead(n, e), p, q, c, x) /\ NaluAt(s, len, orig, n, e, c + 1, a, l)
      /\ c + 1 \in 1..n /\ z = a + 4 + l
  BY Zenon DEF Viewing
<1>2. p <= q /\ q <= Len(s) /\ IsSlice(x, s, p, q) /\ orig[c + 1] \in Bytes /\ Len(orig[c + 1]) = l
      /\ e[c + 1] = z /\ q <= len /\ l > 0 /\ x = SubSeq(s, p + 1, q)
  BY <1>1, Zenon DEF Reading, NaluAt, IsSlice
<1>3. p < a + 2 /\ IndexFrom(x, StartMarker, 1) = IF a + 4 <= q THEN (a + 2) - p ELSE 0
  <2>1. Started(x, p, q, a)
    BY NaluStart
  <2> QED
    BY <2>1, Zenon DEF Started
<1>4. PICK r \in Nat, i \in Nat : /\ r = (a + 2) - p /\ i = r + 4 /\ r # 0
                                  /\ r + 2 = (a + 4) - p /\ p <= a + 4 /\ i = ((a + 2) - p) + 4
  <2>1. (a + 2) - p \in Nat
    BY <1>3
  <2>2. PICK r \in Nat : r = (a + 2) - p
    BY <2>1
  <2>3. r # 0 /\ r + 2 = (a + 4) - p /\ p <= a + 4 /\ r + 4 \in Nat /\ r + 4 = ((a + 2) - p) + 4
    BY <1>3, <2>2
  <2> QED
    BY <2>2, <2>3
<1>5. IndexFrom(x, StartMarker, 1) = r
  BY <1>3, <1>4, Zenon
<1>6. IndexFrom(x, StartMarker, r + 4) = 0
  <2>1. IndexFrom(x, StartMarker, i) = IF c + 1 # n /\ z + 4 <= q THEN (z + 2) - p ELSE 0
    <3>1. Beyond(p, a, i)
      BY <1>3, <1>4, Zenon DEF Beyond
    <3>2. MarksNext(x, n, p, q, c, z, i)
      BY <3>1, NaluNext
    <3> QED
      BY <3>2, Zenon DEF MarksNext
  <2> QED
    BY <1>4, <2>1, Zenon
<1>7. CompleteOf("nalu", x) = {}
  BY <1>5, <1>6, Zenon DEF CompleteOf, CompleteNALU
<1>8. Behind(x, r + 2) = SubSeq(s, (a + 4) + 1, q)
  <2>1. Cut(s, p, a + 4, q) /\ a + 4 \in Nat
    BY <1>2, <1>4 DEF Cut
  <2>2. CutOff(s, p, a + 4, q)
    BY <2>1, SliceBehind
  <2> QED
    BY <1>2, <1>4, <2>2, Zenon DEF CutOff
<1>9. /\ SubSeq(s, (a + 4) + 1, q) \in Bytes /\ Len(SubSeq(s, (a + 4) + 1, q)) = q - (a + 4)
      /\ Stands(s, orig[c + 1], a + 4, q)
  <2>1. a + 4 \in Nat /\ (c + 1 = n \/ q <= z + 3) /\ q <= q
    <3>1. ~(z + 4 <= q) => q <= z + 3
      BY SMT
    <3> QED
      BY <3>1
  <2> QED
    BY <1>2, <2>1, SliceOf, NaluStands
\* All of it was read: then it is the last one.
<1>10. ASSUME whole PROVE c + 1 = n /\ q = z
  <2>1. q = len
    BY <1>10
  <2>2. e[n] = len
    BY Zenon DEF PayloadOf
  <2>3. CASE c + 1 = n
    BY <1>2, <2>1, <2>2, <2>3, Zenon
  <2>4. CASE c + 1 # n
    <3>1. (c + 1) + 1 \in 1..n /\ ((c + 1) + 1) - 1 = c + 1
      BY <1>1, <2>4
    <3>2. PICK a2, l2 \in Nat : NaluAt(s, len, orig, n, e, (c + 1) + 1, a2, l2)
      BY <3>1, NaluIs
    <3>3. e[c + 1] = a2 /\ a2 + 4 + l2 <= len
      BY <3>1, <3>2, Zenon DEF NaluAt
    <3>4. z + 4 <= q
      <4>1. z = a2
        BY <1>2, <3>3, Zenon
      <4> QED
        BY <2>1, <3>3, <4>1
    <3> QED
      BY <2>4, <3>4
  <2> QED
    BY <2>3, <2>4
<1> HIDE DEF whole
<1>11. CASE q = a + 4
  <2>1. Len(SubSeq(s, (a + 4) + 1, q)) = 0
    BY <1>9, <1>11
  <2>2. Behind(x, r + 2) = <<>>
    BY <1>8, <1>9, <2>1, BytesAre
  <2>3. LastOf("nalu", x) = <<>>
    BY <1>5, <2>2, Zenon DEF LastOf
  <2>4. ~whole
    BY <1>1, <1>2, <1>10, <1>11
  <2> QED
    BY <1>7, <2>3, <2>4, Zenon DEF FindsNone, whole
<1>12. CASE q # a + 4
  <2>1. Len(SubSeq(s, (a + 4) + 1, q)) # 0
    BY <1>9, <1>12
  <2>2. Behind(x, r + 2) # <<>>
    BY <1>8, <1>9, <2>1, BytesAre
  <2>3. LastOf("nalu", x) = <<SubSeq(s, (a + 4) + 1, q)>>
    BY <1>4, <1>5, <1>8, <2>2, Zenon DEF LastOf
  <2>4. /\ IsPrefix(WithoutZeros(SubSeq(s, (a + 4) + 1, q)), orig[c + 1])
        /\ (a + 4) + Len(orig[c + 1]) <= q => WithoutZeros(SubSeq(s, (a + 4) + 1, q)) = orig[c + 1]
    <3>1. a + 4 \in Nat
      OBVIOUS
    <3>2. Trims(SubSeq(s, (a + 4) + 1, q), orig[c + 1], a + 4, q)
      BY <1>9, <3>1, StandsTrimmed
    <3> QED
      BY <3>2, Zenon DEF Trims
  <2>5. whole => c + 1 = n /\ WithoutZeros(SubSeq(s, (a + 4) + 1, q)) = orig[c + 1]
    <3>1. q = z => (a + 4) + l <= q
      BY <1>1
    <3> QED
      BY <1>2, <1>10, <2>4, <3>1, Zenon
  <2>6. FindsPart("nalu", x, n, c, orig, whole)
    BY <1>1, <1>9, <2>3, <2>4, <2>5, Zenon DEF FindsPart
  <2> QED
    BY <1>7, <2>6, Zenon DEF FindsNone, whole
<1> QED
  BY <1>11, <1>12

LEMMA NaluFindsNone ==
    ASSUME NEW x, NEW n, NEW c, NEW orig, NEW whole, IndexFrom(x, StartMarker, 1) = 0, whole => c = n
    PROVE  FindsNone("nalu", x, n, c, orig, whole)
<1>1. CompleteOf("nalu", x) = {} /\ LastOf("nalu", x) = <<>>
  BY Zenon DEF CompleteOf, CompleteNALU, LastOf
<1> QED
  BY <1>1, Zenon DEF FindsNone

LEMMA NaluFinds ==
    ASSUME NEW s \in Bytes, NEW orig, NEW len \in Nat, NEW n \in Nat,
           NEW w \in [1..n -> Nat], NEW e \in [0..n -> Nat], PayloadOf(s, len, orig, n, w, e)
    PROVE  Finds("nalu", s, n, len, orig, NaluHead(n, e), NaluStop(n, e), NaluFull(n, e))
<1> DEFINE head == NaluHead(n, e)
           stop == NaluStop(n, e)
           full == NaluFull(n, e)
<1>1. ASSUME NEW p \in Nat, NEW q \in Nat, NEW c \in Nat, p <= q, q <= len, Passed(n, head, p, c)
      PROVE  /\ Ready(n, full, c, q) =>
                  FindsItem("nalu", SubSeq(s, p + 1, q), c, orig, stop[c + 1] - p)
             /\ ~Ready(n, full, c, q) =>
                  FindsNone("nalu", SubSeq(s, p + 1, q), n, c, orig, q = len /\ p = stop[c])
  <2>1. len = Len(s)
    BY Zenon DEF PayloadOf
  <2>2. PICK x \in Seq(Byte) : IsSlice(x, s, p, q)
    BY <1>1, <2>1, SliceIs DEF Bytes
  <2>3. x = SubSeq(s, p + 1, q)
    BY <2>2, Zenon DEF IsSlice
  <2>4. Reading(s, n, len, head, p, q, c, x)
    BY <1>1, <2>1, <2>2, Zenon DEF Reading
  <2>5. CASE ~(c + 1 \in 1..n)
    <3>1. c = n
      <4>1. c \in 0..n
        BY <1>1, Zenon DEF Passed
      <4> QED
        BY <2>5, <4>1
    <3>2. IndexFrom(x, StartMarker, 1) = 0
      BY <2>4, <2>5, NaluNoStart
    <3>3. FindsNone("nalu", x, n, c, orig, q = len /\ p = stop[c])
      BY <3>1, <3>2, NaluFindsNone
    <3>4. ~Ready(n, full, c, q)
      BY <2>5, Zenon DEF Ready
    <3> QED
      BY <2>3, <3>3, <3>4, Zenon
  <2>6. CASE c + 1 \in 1..n
    <3>1. PICK a \in Nat, l \in Nat, z \in Nat :
            NaluAt(s, len, orig, n, e, c + 1, a, l) /\ z = a + 4 + l
      <4>1. PICK a, l \in Nat : NaluAt(s, len, orig, n, e, c + 1, a, l)
        BY <2>6, NaluIs
      <4>2. a + 4 + l \in Nat
        OBVIOUS
      <4> QED
        BY <4>1, <4>2
    <3>2. Viewing(s, len, orig, n, e, p, q, c, x, a, l, z)
      BY <2>4, <2>6, <3>1, Zenon DEF Viewing
    <3>3. e[c + 1] = z /\ z <= len /\ e[n] = len /\ a + 4 <= z
      <4>1. a + 4 <= z
        BY <3>1
      <4> QED
        BY <3>1, <4>1, Zenon DEF NaluAt, PayloadOf
    <3>4. full[c + 1] = IF c + 1 = n THEN z + 1 ELSE z + 4
      BY <2>6, <3>3, Zenon DEF NaluFull
    <3>5. Ready(n, full, c, q) <=> (c + 1 # n /\ z + 4 <= q)
      <4>1. CASE c + 1 = n
        <5>1. ~(z + 1 <= q)
          <6>1. z = len
            BY <3>3, <4>1, Zenon
          <6> QED
            BY <1>1, <6>1
        <5> QED
          BY <3>4, <4>1, <5>1, Zenon DEF Ready
      <4>2. CASE c + 1 # n
        BY <2>6, <3>4, <4>2, Zenon DEF Ready
      <4> QED
        BY <4>1, <4>2
    <3>6. CASE Ready(n, full, c, q)
      <4>1. c + 1 # n /\ z + 4 <= q
        BY <3>5, <3>6, Zenon
      <4>2. FindsItem("nalu", x, c, orig, stop[c + 1] - p)
        BY <3>2, <4>1, NaluReady
      <4> QED
        BY <2>3, <3>6, <4>2, Zenon
    <3>7. CASE ~Ready(n, full, c, q) /\ a + 4 <= q
      <4>1. ~(c + 1 # n /\ z + 4 <= q)
        BY <3>5, <3>7, Zenon
      <4>2. FindsNone("nalu", x, n, c, orig, q = len /\ p = stop[c])
        BY <3>2, <3>7, <4>1, NaluWaits
      <4> QED
        BY <2>3, <3>7, <4>2, Zenon
    <3>8. CASE ~Ready(n, full, c, q) /\ ~(a + 4 <= q)
      <4>1. Started(x, p, q, a)
        BY <3>2, NaluStart
      <4>2. IndexFrom(x, StartMarker, 1) = 0
        BY <3>8, <4>1, Zenon DEF Started
      <4>3. q # len
        BY <3>3, <3>8
      <4>4. FindsNone("nalu", x, n, c, orig, q = len /\ p = stop[c])
        BY <4>2, <4>3, NaluFindsNone
      <4> QED
        BY <2>3, <3>8, <4>4, Zenon
    <3> QED
      BY <3>6, <3>7, <3>8
  <2> QED
    BY <2>5, <2>6
<1> QED
  BY <1>1, Zenon DEF Finds

\* What is written for the items, and that they are found in it wherever it is cut.
WrittenFor(kind, orig) == FlattenSeq([i \in DOMAIN orig |-> Framed(kind, orig[i])])
Extractable(kind, s, orig) ==
    /\ s \in Bytes
    /\ \E n \in Nat : \E head, stop, full :
        /\ n = Len(orig) /\ Framing(n, Len(s), orig, head, stop, full)
        /\ Finds(kind, s, n, Len(s), orig, head, stop, full)

LEMMA NalusPlain ==
    ASSUME NEW orig \in Pieces(Byte), \A i \in 1..Len(orig) : Whole("nalu", orig[i])
    PROVE  orig \in Plains /\ WrittenFor("nalu", orig) = Payload(orig)
<1>1. Len(orig) \in Nat /\ DOMAIN orig = 1..Len(orig) /\ \A i \in 1..Len(orig) : orig[i] \in Bytes
  <2>1. orig \in Seq(Bytes)
    BY DEF Pieces, Bytes
  <2> QED
    BY <2>1, LenProperties, ElementOfSeq
<1>2. ASSUME NEW i \in 1..Len(orig) PROVE Plain(orig[i])
  <2>1. PICK u \in Bytes : u = orig[i]
    BY <1>1
  <2>2. u # <<>> /\ u[Len(u)] # 0 /\ IndexFrom(u, StartMarker, 1) = 0
    BY <2>1, Zenon DEF Whole
  <2>3. Len(u) \in Nat /\ DOMAIN u = 1..Len(u)
    BY <2>1, BytesAre
  <2>4. PICK lu \in Nat : lu = Len(u)
    BY <2>3
  <2>5. IsFirst(u, StartMarker, 1, 0)
    <3>1. 3 = Len(StartMarker)
      BY DEF StartMarker
    <3>2. 3 \in Nat /\ 1 \in Nat /\ 1 >= 1
      OBVIOUS
    <3>3. IsFirst(u, StartMarker, 1, IndexFrom(u, StartMarker, 1))
      BY <2>4, <3>1, <3>2, IndexIs
    <3> QED
      BY <2>2, <3>3, Zenon
  <2>6. ASSUME NEW k \in DOMAIN u PROVE ~CodeAt(u, k)
    <3>1. k \in Nat /\ k >= 1
      BY <2>3
    <3>2. ~MarkAt(u, StartMarker, k)
      <4>1. ~(0 >= 1)
        OBVIOUS
      <4>2. \A j \in Nat : j >= 1 => ~MarkAt(u, StartMarker, j)
        BY <2>5, <4>1, Zenon DEF IsFirst
      <4> QED
        BY <3>1, <4>2, Zenon
    <3> QED
      BY <2>1, <3>1, <3>2, ThreeBytes
  <2> QED
    BY <2>1, <2>2, <2>6, Zenon DEF Plain, Free
<1>3. orig \in Plains
  BY <1>2, Zenon DEF Plains
<1>4. <<0, 0, 0, 1>> = <<0>> \o StartCode
  BY DEF StartCode
<1>5. \A i \in DOMAIN orig : Framed("nalu", orig[i]) = <<0>> \o StartCode \o orig[i]
  BY <1>4, Zenon DEF Framed
<1>6. [i \in DOMAIN orig |-> Framed("nalu", orig[i])] = [i \in DOMAIN orig |-> <<0>> \o StartCode \o orig[i]]
  BY <1>5, Zenon
<1> QED
  BY <1>3, <1>6, Zenon DEF WrittenFor, Payload

LEMMA NalusExtractable ==
    ASSUME NEW orig \in Pieces(Byte), \A i \in 1..Len(orig) : Whole("nalu", orig[i])
    PROVE  Extractable("nalu", WrittenFor("nalu", orig), orig)
<1> DEFINE s == WrittenFor("nalu", orig)
<1>1. orig \in Plains /\ s = Payload(orig)
  BY NalusPlain
<1> HIDE DEF s
<1>2. s \in Bytes
  BY <1>1, PayloadIs
<1>3. PICK len \in Nat, n \in Nat : \E w \in [1..n -> Nat], e \in [0..n -> Nat] :
         PayloadOf(s, len, orig, n, w, e)
  BY <1>1, PayloadIs
<1>4. PICK w \in [1..n -> Nat], e \in [0..n -> Nat] : PayloadOf(s, len, orig, n, w, e)
  BY <1>3
<1>5. Framing(n, len, orig, NaluHead(n, e), NaluStop(n, e), NaluFull(n, e))
  BY <1>2, <1>4, NaluFraming
<1>6. Finds("nalu", s, n, len, orig, NaluHead(n, e), NaluStop(n, e), NaluFull(n, e))
  BY <1>2, <1>4, NaluFinds
<1>7. len = Len(s) /\ n = Len(orig)
  BY <1>4, Zenon DEF PayloadOf
<1> QED
  BY <1>2, <1>5, <1>6, <1>7, Zenon DEF Extractable, s

-----------------------------------------------------------------------------
(* AnnexB: frames *)

\* The two markers, byte by byte.
SoiAt(s, k) == s[k] = 255 /\ s[k + 1] = 216
EoiAt(s, k) == s[k] = 255 /\ s[k + 1] = 217

LEMMA MarkersApart ==
    \A s : \A k \in Nat : /\ EoiAt(s, k) => ~SoiAt(s, k + 1) /\ ~EoiAt(s, k + 1) /\ ~SoiAt(s, k)
                          /\ SoiAt(s, k) => s[k] # 0
                          /\ EoiAt(s, k) => s[k + 1] # 0
BY DEF SoiAt, EoiAt

LEMMA MarkersAre ==
    ASSUME NEW s \in Bytes, NEW k \in Nat, k >= 1
    PROVE  /\ MarkAt(s, SOI, k) <=> k + 1 <= Len(s) /\ SoiAt(s, k)
           /\ MarkAt(s, EOI, k) <=> k + 1 <= Len(s) /\ EoiAt(s, k)
<1>1. 255 \in Byte /\ 216 \in Byte /\ 217 \in Byte
  BY DEF Byte
<1>2. MarkAt(s, <<255, 216>>, k) <=> Mark2(s, 255, 216, k)
  BY <1>1, TwoBytes
<1>3. MarkAt(s, <<255, 217>>, k) <=> Mark2(s, 255, 217, k)
  BY <1>1, TwoBytes
<1> QED
  BY <1>2, <1>3, SMT DEF Mark2, SoiAt, EoiAt, SOI, EOI

\* The markers in u are those in s, where u stands behind place a.
LEMMA MarkersMoved ==
    ASSUME NEW s, NEW u, NEW a \in Nat, NEW k \in Nat, s[a + k] = u[k], s[a + (k + 1)] = u[k + 1]
    PROVE  (SoiAt(s, a + k) <=> SoiAt(u, k)) /\ (EoiAt(s, a + k) <=> EoiAt(u, k))
<1>1. (a + k) + 1 = a + (k + 1)
  OBVIOUS
<1> QED
  BY <1>1, SMT DEF SoiAt, EoiAt

\* A frame of l bytes: it begins with one marker, ends with the other, and holds
\* none in between.
FrameOf(u, l) ==
    /\ u \in Bytes /\ Len(u) = l /\ l > 3 /\ SoiAt(u, 1) /\ EoiAt(u, l - 1)
    /\ \A k \in 2..(l - 2) : ~SoiAt(u, k) /\ ~EoiAt(u, k)

LEMMA FrameIs ==
    ASSUME NEW u \in Bytes, NEW l \in Nat, l = Len(u), Whole("jpeg", u)
    PROVE  FrameOf(u, l)
<1>1. /\ l > 3 /\ SubSeq(u, 1, 2) = SOI /\ SubSeq(u, l - 1, l) = EOI
      /\ \A k \in 2..(l - 2) : SubSeq(u, k, k + 1) # SOI /\ SubSeq(u, k, k + 1) # EOI
  <2>1. "jpeg" # "nalu"
    OBVIOUS
  <2>2. /\ Len(u) > 3 /\ SubSeq(u, 1, 2) = SOI /\ SubSeq(u, Len(u) - 1, Len(u)) = EOI
        /\ \A k \in 2..(Len(u) - 2) : SubSeq(u, k, k + 1) \notin {SOI, EOI}
    BY <2>1, Zenon DEF Whole
  <2> QED
    BY <2>2, Zenon
<1>2. ASSUME NEW k \in Nat, k >= 1, k + 1 <= l
      PROVE  (SubSeq(u, k, k + 1) = SOI <=> SoiAt(u, k)) /\ (SubSeq(u, k, k + 1) = EOI <=> EoiAt(u, k))
  <2>1. Len(SOI) = 2 /\ Len(EOI) = 2
    BY DEF SOI, EOI
  <2>2. k + 2 - 1 = k + 1
    OBVIOUS
  <2>3. MarkAt(u, SOI, k) <=> SubSeq(u, k, k + 1) = SOI
    BY <1>2, <2>1, <2>2, Zenon DEF MarkAt
  <2>4. MarkAt(u, EOI, k) <=> SubSeq(u, k, k + 1) = EOI
    BY <1>2, <2>1, <2>2, Zenon DEF MarkAt
  <2>5. /\ MarkAt(u, SOI, k) <=> k + 1 <= Len(u) /\ SoiAt(u, k)
        /\ MarkAt(u, EOI, k) <=> k + 1 <= Len(u) /\ EoiAt(u, k)
    BY <1>2, MarkersAre
  <2> QED
    BY <1>2, <2>3, <2>4, <2>5, Zenon
<1>3. SoiAt(u, 1)
  <2>1. 1 \in Nat /\ 1 >= 1 /\ 1 + 1 <= l /\ 1 + 1 = 2
    BY <1>1
  <2>2. SubSeq(u, 1, 1 + 1) = SOI
    BY <1>1, <2>1, Zenon
  <2> QED
    BY <1>2, <2>1, <2>2, Zenon
<1>4. EoiAt(u, l - 1)
  <2>1. PICK i \in Nat : i = l - 1 /\ i >= 1 /\ i + 1 <= l /\ i + 1 = l
    BY <1>1
  <2>2. SubSeq(u, i, i + 1) = EOI
    BY <1>1, <2>1, Zenon
  <2> QED
    BY <1>2, <2>1, <2>2, Zenon
<1>5. ASSUME NEW k \in 2..(l - 2) PROVE ~SoiAt(u, k) /\ ~EoiAt(u, k)
  <2>1. k \in Nat /\ k >= 1 /\ k + 1 <= l
    OBVIOUS
  <2> QED
    BY <1>1, <1>2, <2>1, Zenon
<1> QED
  BY <1>1, <1>3, <1>4, <1>5, Zenon DEF FrameOf

\* The frames, one behind the other: e[i] is where frame i ends.
FramesOf(s, len, orig, n, w, e) ==
    /\ len = Len(s) /\ n = Len(orig) /\ e[0] = 0 /\ e[n] = len
    /\ \A i \in 1..n :
        /\ FrameOf(orig[i], w[i]) /\ e[i] = e[i - 1] + w[i]
        /\ \A k \in 1..w[i] : s[e[i - 1] + k] = orig[i][k]
    /\ \A i, j \in 0..n : i <= j => e[i] <= e[j]
    /\ \A k \in 1..len : \E i \in 1..n : k > e[i - 1] /\ k <= e[i]

LEMMA FramesAre ==
    ASSUME NEW orig \in Pieces(Byte), \A i \in 1..Len(orig) : Whole("jpeg", orig[i])
    PROVE  /\ WrittenFor("jpeg", orig) \in Bytes
           /\ \E len, n \in Nat : \E w \in [1..n -> Nat], e \in [0..n -> Nat] :
                 FramesOf(WrittenFor("jpeg", orig), len, orig, n, w, e)
<1> DEFINE n == Len(orig)
           s == WrittenFor("jpeg", orig)
<1>1. n \in Nat /\ DOMAIN orig = 1..n /\ \A i \in 1..n : orig[i] \in Bytes
  <2>1. orig \in Seq(Bytes)
    BY DEF Pieces, Bytes
  <2> QED
    BY <2>1, LenProperties, ElementOfSeq
<1>2. s = FlattenSeq(orig)
  <2>1. \A i \in DOMAIN orig : Framed("jpeg", orig[i]) = orig[i]
    <3>1. "jpeg" # "nalu"
      OBVIOUS
    <3> QED
      BY <3>1, Zenon DEF Framed
  <2>2. orig = [i \in DOMAIN orig |-> orig[i]]
    BY DEF Pieces
  <2>3. [i \in DOMAIN orig |-> Framed("jpeg", orig[i])] = orig
    BY <2>1, <2>2, Zenon
  <2> QED
    BY <2>3, Zenon DEF WrittenFor
<1> HIDE DEF s, n
<1>3. PICK w, e : Laid(s, n, orig, w, e)
  BY <1>2, FlattenLaid DEF n
<1>4. s \in Bytes /\ Len(s) \in Nat
  <2>1. s \in Seq(Byte)
    BY <1>2, FlattenLaid
  <2> QED
    BY <2>1, BytesAre DEF Bytes
<1>5. /\ e \in [0..n -> 0..Len(s)] /\ w \in [1..n -> Nat] /\ e[0] = 0 /\ e[n] = Len(s)
      /\ \A i \in 1..n :
          /\ w[i] = Len(orig[i]) /\ e[i] = e[i - 1] + w[i]
          /\ \A k \in 1..w[i] : s[e[i - 1] + k] = orig[i][k]
  BY <1>3, Zenon DEF Laid
<1>6. ASSUME NEW i \in 1..n PROVE FrameOf(orig[i], w[i])
  <2>1. w[i] \in Nat /\ w[i] = Len(orig[i]) /\ orig[i] \in Bytes /\ Whole("jpeg", orig[i])
    BY <1>1, <1>5 DEF n
  <2> QED
    BY <2>1, FrameIs
<1>7. \A i, j \in 0..n : i <= j => e[i] <= e[j]
  BY <1>1, <1>3, <1>4, LaidGrows
<1>8. ASSUME NEW k \in 1..Len(s) PROVE \E i \in 1..n : k > e[i - 1] /\ k <= e[i]
  <2>1. PICK i \in 1..n : \E j \in 1..w[i] : k = e[i - 1] + j
    BY <1>1, <1>3, <1>4, LaidWhere
  <2>2. PICK j \in 1..w[i] : k = e[i - 1] + j
    BY <2>1
  <2>3. e[i] = e[i - 1] + w[i] /\ e[i - 1] \in Nat /\ w[i] \in Nat
    <3>1. i - 1 \in 0..n
      BY <1>1
    <3>2. e[i] = e[i - 1] + w[i]
      BY <1>5, Zenon
    <3>3. e \in [0..n -> 0..Len(s)] /\ w \in [1..n -> Nat]
      BY <1>5, Zenon
    <3>4. e[i - 1] \in 0..Len(s)
      BY <3>1, <3>3
    <3> QED
      BY <1>4, <3>2, <3>3, <3>4
  <2> QED
    BY <2>2, <2>3
<1>9. e \in [0..n -> Nat]
  BY <1>4, <1>5
<1>10. FramesOf(s, Len(s), orig, n, w, e)
  BY <1>5, <1>6, <1>7, <1>8, Zenon DEF FramesOf, n
<1> QED
  BY <1>1, <1>4, <1>5, <1>9, <1>10, Zenon DEF s

\* Frame m, of l bytes, stands behind place a and ends at z.
FrameAt(s, len, orig, n, e, m, a, l, z) ==
    e[m - 1] = a /\ e[m] = z /\ z = a + l /\ z <= len /\ FrameOf(orig[m], l) /\ \A k \in 1..l : s[a + k] = orig[m][k]

LEMMA FrameStands ==
    ASSUME NEW s \in Bytes, NEW orig, NEW len \in Nat, NEW n \in Nat,
           NEW w \in [1..n -> Nat], NEW e \in [0..n -> Nat], FramesOf(s, len, orig, n, w, e),
           NEW m \in 1..n
    PROVE  \E a, l, z \in Nat : FrameAt(s, len, orig, n, e, m, a, l, z)
<1>1. m - 1 \in 0..n /\ m \in 0..n /\ n \in 0..n /\ m <= n
  OBVIOUS
<1>2. PICK a \in Nat, l \in Nat, z \in Nat : a = e[m - 1] /\ l = w[m] /\ z = e[m]
  BY <1>1
<1>3. /\ FrameOf(orig[m], w[m]) /\ e[m] = e[m - 1] + w[m]
      /\ \A k \in 1..w[m] : s[e[m - 1] + k] = orig[m][k]
  BY Zenon DEF FramesOf
<1>4. e[m] <= len
  <2>1. e[n] = len /\ \A i, j \in 0..n : i <= j => e[i] <= e[j]
    BY Zenon DEF FramesOf
  <2> QED
    BY <1>1, <2>1
<1> QED
  BY <1>2, <1>3, <1>4, Zenon DEF FrameAt

\* Where frames begin, where their last marker is, and where they are complete.
FrameHead(n, e) == [m \in 1..n |-> e[m - 1] + 1]
FrameTail(n, e) == [m \in 1..n |-> e[m] - 1]
FrameFull(n, e) == [m \in 1..n |-> e[m]]

\* Frames up to m end before frame k begins, or frame k ends before they do.
FrameOrder(e, m, k, b, a, z) ==
    /\ b = e[m] /\ a = e[k - 1] /\ z = e[k] /\ a + 3 < z
    /\ k <= m => z <= b
    /\ ~(k <= m) => b <= a

LEMMA FrameBehind ==
    ASSUME NEW s \in Bytes, NEW orig, NEW len \in Nat, NEW n \in Nat,
           NEW w \in [1..n -> Nat], NEW e \in [0..n -> Nat], FramesOf(s, len, orig, n, w, e),
           NEW m \in 0..n, NEW k \in 1..n
    PROVE  \E b, a, z \in Nat : FrameOrder(e, m, k, b, a, z)
<1>1. PICK a \in Nat, l \in Nat, z \in Nat : FrameAt(s, len, orig, n, e, k, a, l, z)
  BY FrameStands
<1>2. PICK b \in Nat : b = e[m]
  OBVIOUS
<1>3. \A i, j \in 0..n : i <= j => e[i] <= e[j]
  BY Zenon DEF FramesOf
<1>4. k - 1 \in 0..n /\ k \in 0..n /\ (k <= m \/ m <= k - 1)
  OBVIOUS
<1>5. a = e[k - 1] /\ z = e[k] /\ z = a + l /\ l > 3
  BY <1>1, Zenon DEF FrameAt, FrameOf
<1>6. a + 3 < z
  BY <1>5
<1>7. k <= m => z <= b
  BY <1>2, <1>3, <1>4, <1>5
<1>8. ~(k <= m) => b <= a
  BY <1>2, <1>3, <1>4, <1>5
<1> QED
  BY <1>2, <1>5, <1>6, <1>7, <1>8, Zenon DEF FrameOrder

\* The markers of a frame as they stand in all that was written.
FrameMarked(s, len, a, l, z) ==
    /\ l > 3 /\ z = a + l /\ z <= len /\ SoiAt(s, a + 1) /\ EoiAt(s, z - 1)
    /\ \A j \in Nat : a + 1 < j /\ j < z - 1 => ~SoiAt(s, j) /\ ~EoiAt(s, j)

LEMMA FrameBytes ==
    ASSUME NEW s, NEW orig, NEW len \in Nat, NEW n \in Nat, NEW e, NEW m,
           NEW a \in Nat, NEW l \in Nat, NEW z \in Nat, FrameAt(s, len, orig, n, e, m, a, l, z)
    PROVE  FrameMarked(s, len, a, l, z)
<1> DEFINE u == orig[m]
<1>1. /\ z = a + l /\ z <= len /\ l > 3 /\ SoiAt(u, 1) /\ EoiAt(u, l - 1)
      /\ \A k \in 2..(l - 2) : ~SoiAt(u, k) /\ ~EoiAt(u, k)
      /\ \A k \in 1..l : s[a + k] = u[k]
  BY Zenon DEF FrameAt, FrameOf
<1> HIDE DEF u
<1>2. ASSUME NEW k \in Nat, k >= 1, k < l
      PROVE  (SoiAt(s, a + k) <=> SoiAt(u, k)) /\ (EoiAt(s, a + k) <=> EoiAt(u, k))
  <2>1. k \in 1..l /\ k + 1 \in 1..l
    BY <1>2
  <2>2. s[a + k] = u[k] /\ s[a + (k + 1)] = u[k + 1]
    BY <1>1, <2>1, Zenon
  <2> QED
    BY <2>2, MarkersMoved
<1>3. SoiAt(s, a + 1)
  <2>1. 1 \in Nat /\ 1 >= 1 /\ 1 < l
    BY <1>1
  <2> QED
    BY <1>1, <1>2, <2>1, Zenon
<1>4. EoiAt(s, z - 1)
  <2>1. PICK i \in Nat : i = l - 1 /\ i >= 1 /\ i < l /\ a + i = z - 1
    BY <1>1
  <2>2. EoiAt(s, a + i)
    BY <1>1, <1>2, <2>1, Zenon
  <2> QED
    BY <2>1, <2>2, Zenon
<1>5. ASSUME NEW j \in Nat, a + 1 < j, j < z - 1 PROVE ~SoiAt(s, j) /\ ~EoiAt(s, j)
  <2>1. PICK k \in 2..(l - 2) : j = a + k /\ k \in Nat /\ k >= 1 /\ k < l
    <3>1. j - a \in 2..(l - 2) /\ j = a + (j - a)
      BY <1>1, <1>5
    <3> QED
      BY <3>1
  <2>2. ~SoiAt(s, a + k) /\ ~EoiAt(s, a + k)
    BY <1>1, <1>2, <2>1, Zenon
  <2> QED
    BY <2>1, <2>2, Zenon
<1> QED
  BY <1>1, <1>3, <1>4, <1>5, Zenon DEF FrameMarked

LEMMA FrameMarks ==
    ASSUME NEW s \in Bytes, NEW orig, NEW len \in Nat, NEW n \in Nat,
           NEW w \in [1..n -> Nat], NEW e \in [0..n -> Nat], FramesOf(s, len, orig, n, w, e)
    PROVE  Marks(s, SOI, 2, n, FrameHead(n, e)) /\ Marks(s, EOI, 2, n, FrameTail(n, e))
<1> DEFINE head == FrameHead(n, e)
           tail == FrameTail(n, e)
<1>1. ASSUME NEW m \in 1..n PROVE head[m] = e[m - 1] + 1 /\ tail[m] = e[m] - 1
  BY Zenon DEF FrameHead, FrameTail
<1>2. head \in [1..n -> Nat] /\ tail \in [1..n -> Nat]
  <2>1. ASSUME NEW m \in 1..n PROVE e[m - 1] + 1 \in Nat /\ e[m] - 1 \in Nat
    <3>1. PICK b, a, z \in Nat : FrameOrder(e, m, m, b, a, z)
      <4>1. m \in 0..n
        OBVIOUS
      <4> QED
        BY <4>1, FrameBehind
    <3>2. e[m - 1] = a /\ e[m] = z /\ a + 3 < z
      BY <3>1, Zenon DEF FrameOrder
    <3> QED
      BY <3>2
  <2> QED
    BY <2>1 DEF FrameHead, FrameTail
<1> HIDE DEF head, tail
<1>3. ASSUME NEW m \in 1..n, NEW k \in 1..n, m < k PROVE head[m] < head[k] /\ tail[m] < tail[k]
  <2>1. m \in 0..n /\ ~(k <= m)
    BY <1>3
  <2>2. PICK b, a, z \in Nat : FrameOrder(e, m, k, b, a, z)
    BY <2>1, FrameBehind
  <2>3. PICK b1, a1, z1 \in Nat : FrameOrder(e, m, m, b1, a1, z1)
    BY <2>1, FrameBehind
  <2>4. b = e[m] /\ a = e[k - 1] /\ z = e[k] /\ a + 3 < z /\ b <= a
    BY <2>1, <2>2, Zenon DEF FrameOrder
  <2>5. b1 = e[m] /\ a1 = e[m - 1] /\ z1 = e[m] /\ a1 + 3 < z1
    BY <2>3, Zenon DEF FrameOrder
  <2>6. PICK x1 \in Nat, y1 \in Nat, x2 \in Nat, y2 \in Nat :
          x1 = head[m] /\ y1 = head[k] /\ x2 = tail[m] /\ y2 = tail[k]
    BY <1>2
  <2>7. x1 = a1 + 1 /\ y1 = a + 1 /\ x2 = z1 - 1 /\ y2 = z - 1 /\ b = z1
    BY <1>1, <2>4, <2>5, <2>6, Zenon
  <2>8. x1 < y1 /\ x2 < y2
    <3>1. a + 3 < z /\ b <= a /\ a1 + 3 < z1
      BY <2>4, <2>5, Zenon
    <3> QED
      BY <2>7, <3>1
  <2> QED
    BY <2>6, <2>8, Zenon
<1>4. Len(SOI) = 2 /\ Len(EOI) = 2
  BY DEF SOI, EOI
<1>5. ASSUME NEW j \in Nat, j >= 1
      PROVE  /\ MarkAt(s, SOI, j) <=> j + 1 <= len /\ SoiAt(s, j)
             /\ MarkAt(s, EOI, j) <=> j + 1 <= len /\ EoiAt(s, j)
  <2>1. len = Len(s)
    BY Zenon DEF FramesOf
  <2>2. /\ MarkAt(s, SOI, j) <=> j + 1 <= Len(s) /\ SoiAt(s, j)
        /\ MarkAt(s, EOI, j) <=> j + 1 <= Len(s) /\ EoiAt(s, j)
    BY <1>5, MarkersAre
  <2> QED
    BY <2>1, <2>2, Zenon
\* A marker in a frame is its first or its last.
<1>6. ASSUME NEW j \in Nat, j >= 1, j + 1 <= len, SoiAt(s, j) \/ EoiAt(s, j)
      PROVE  \E m \in 1..n : \/ j = head[m] /\ ~EoiAt(s, j)
                             \/ j = tail[m] /\ ~SoiAt(s, j)
  <2>1. PICK m \in 1..n : j > e[m - 1] /\ j <= e[m]
    <3>1. j \in 1..len
      BY <1>6
    <3> QED
      BY <3>1, Zenon DEF FramesOf
  <2>2. PICK a, l, z \in Nat : FrameAt(s, len, orig, n, e, m, a, l, z)
    BY FrameStands
  <2>3. e[m - 1] = a /\ e[m] = z
    BY <2>2, Zenon DEF FrameAt
  <2>4. /\ l > 3 /\ z = a + l /\ SoiAt(s, a + 1) /\ EoiAt(s, z - 1)
        /\ \A i \in Nat : a + 1 < i /\ i < z - 1 => ~SoiAt(s, i) /\ ~EoiAt(s, i)
    <3>1. FrameMarked(s, len, a, l, z)
      BY <2>2, FrameBytes
    <3> QED
      BY <3>1, Zenon DEF FrameMarked
  <2>5. j = a + 1 \/ j = z - 1 \/ j = z
    <3>1. ~(a + 1 < j /\ j < z - 1)
      BY <1>6, <2>4, Zenon
    <3>2. a < j /\ j <= z
      BY <2>1, <2>3
    <3> QED
      BY <3>1, <3>2
  <2>6. PICK y \in Nat : y = z - 1 /\ y + 1 = z
    BY <2>4
  <2>7. EoiAt(s, y)
    BY <2>4, <2>6, Zenon
  <2>8. CASE j = a + 1
    <3>1. j = head[m]
      BY <1>1, <2>3, <2>8, Zenon
    <3>2. ~EoiAt(s, j)
      BY <2>4, <2>8, MarkersApart
    <3> QED
      BY <3>1, <3>2, Zenon
  <2>9. CASE j = z - 1
    <3>1. j = tail[m]
      BY <1>1, <2>3, <2>9, Zenon
    <3>2. ~SoiAt(s, j)
      BY <2>6, <2>7, <2>9, MarkersApart
    <3> QED
      BY <3>1, <3>2, Zenon
  <2>10. CASE j = z
    <3>1. ~SoiAt(s, y + 1) /\ ~EoiAt(s, y + 1)
      BY <2>7, MarkersApart
    <3> QED
      BY <1>6, <2>6, <2>10, <3>1, Zenon
  <2> QED
    BY <2>5, <2>8, <2>9, <2>10
<1>7. ASSUME NEW m \in 1..n
      PROVE  MarkAt(s, SOI, head[m]) /\ MarkAt(s, EOI, tail[m])
  <2>1. PICK a, l, z \in Nat : FrameAt(s, len, orig, n, e, m, a, l, z)
    BY FrameStands
  <2>2. e[m - 1] = a /\ e[m] = z
    BY <2>1, Zenon DEF FrameAt
  <2>3. l > 3 /\ z = a + l /\ z <= len /\ SoiAt(s, a + 1) /\ EoiAt(s, z - 1)
    <3>1. FrameMarked(s, len, a, l, z)
      BY <2>1, FrameBytes
    <3> QED
      BY <3>1, Zenon DEF FrameMarked
  <2>4. PICK x \in Nat, y \in Nat : x = head[m] /\ y = tail[m]
    BY <1>2
  <2>5. x = a + 1 /\ y = z - 1
    BY <1>1, <2>2, <2>4, Zenon
  <2>6. x >= 1 /\ y >= 1 /\ x + 1 <= len /\ y + 1 <= len
    BY <2>3, <2>5
  <2>7. SoiAt(s, x) /\ EoiAt(s, y)
    BY <2>3, <2>5, Zenon
  <2> QED
    BY <1>5, <2>4, <2>6, <2>7, Zenon
<1>8. ASSUME NEW j \in Nat, j >= 1
      PROVE  /\ MarkAt(s, SOI, j) <=> \E m \in 1..n : j = head[m]
             /\ MarkAt(s, EOI, j) <=> \E m \in 1..n : j = tail[m]
  <2>1. ASSUME MarkAt(s, SOI, j) PROVE \E m \in 1..n : j = head[m]
    <3>1. j + 1 <= len /\ SoiAt(s, j)
      BY <1>5, <1>8, <2>1, Zenon
    <3> QED
      BY <1>6, <1>8, <3>1, Zenon
  <2>2. ASSUME MarkAt(s, EOI, j) PROVE \E m \in 1..n : j = tail[m]
    <3>1. j + 1 <= len /\ EoiAt(s, j)
      BY <1>5, <1>8, <2>2, Zenon
    <3> QED
      BY <1>6, <1>8, <3>1, Zenon
  <2> QED
    BY <1>7, <2>1, <2>2, Zenon
<1>9. 2 \in Nat /\ 2 >= 1
  OBVIOUS
<1>10. Marks(s, SOI, 2, n, head)
  BY <1>2, <1>3, <1>4, <1>8, <1>9, Zenon DEF Marks
<1>11. Marks(s, EOI, 2, n, tail)
  BY <1>2, <1>3, <1>4, <1>8, <1>9, Zenon DEF Marks
<1> QED
  BY <1>10, <1>11 DEF head, tail

LEMMA FrameFraming ==
    ASSUME NEW s \in Bytes, NEW orig, NEW len \in Nat, NEW n \in Nat,
           NEW w \in [1..n -> Nat], NEW e \in [0..n -> Nat], FramesOf(s, len, orig, n, w, e)
    PROVE  Framing(n, len, orig, FrameHead(n, e), e, FrameFull(n, e))
<1> DEFINE head == FrameHead(n, e)
           full == FrameFull(n, e)
<1>1. ASSUME NEW m \in 1..n PROVE head[m] = e[m - 1] + 1 /\ full[m] = e[m]
  BY Zenon DEF FrameHead, FrameFull
<1>2. head \in [1..n -> Nat]
  <2>1. Marks(s, SOI, 2, n, head)
    BY FrameMarks
  <2> QED
    BY <2>1, Zenon DEF Marks
<1>3. full \in [1..n -> Nat]
  <2>1. \A m \in 1..n : m \in 0..n
    OBVIOUS
  <2>2. \A m \in 1..n : e[m] \in Nat
    BY <2>1
  <2> QED
    BY <2>2 DEF FrameFull
<1> HIDE DEF head, full
<1>4. e[0] = 0 /\ e[n] = len
  BY Zenon DEF FramesOf
<1>5. ASSUME NEW m \in 1..n
      PROVE  orig[m] \in Bytes /\ e[m] <= full[m] /\ full[m] <= e[m - 1] + Len(orig[m]) + 8
  <2>1. PICK a, l, z \in Nat : FrameAt(s, len, orig, n, e, m, a, l, z)
    BY FrameStands
  <2>2. e[m - 1] = a /\ e[m] = z /\ z = a + l /\ orig[m] \in Bytes /\ Len(orig[m]) = l
    BY <2>1, Zenon DEF FrameAt, FrameOf
  <2>3. z <= z /\ z <= a + l + 8
    BY <2>2
  <2> QED
    BY <1>1, <2>2, <2>3, Zenon
<1>6. ASSUME NEW m \in 0..n, NEW k \in 1..n PROVE k <= m <=> head[k] <= e[m]
  <2>1. PICK b, a, z \in Nat : FrameOrder(e, m, k, b, a, z)
    BY FrameBehind
  <2>2. b = e[m] /\ a = e[k - 1] /\ a + 3 < z /\ (k <= m => z <= b) /\ (~(k <= m) => b <= a)
    BY <2>1, Zenon DEF FrameOrder
  <2>3. head[k] = a + 1
    BY <1>1, <2>2, Zenon
  <2>4. k <= m <=> a + 1 <= b
    BY <2>2
  <2> QED
    BY <2>2, <2>3, <2>4, Zenon
<1>7. Framing(n, len, orig, head, e, full)
  BY <1>2, <1>3, <1>4, <1>5, <1>6, Zenon DEF Framing
<1> QED
  BY <1>7 DEF head, full

\* Frame c + 1 as x, what was read between p and q, shows it.
Showing(s, len, orig, n, e, p, q, c, x, a, l, z) ==
    /\ Reading(s, n, len, FrameHead(n, e), p, q, c, x)
    /\ c + 1 \in 1..n /\ FrameAt(s, len, orig, n, e, c + 1, a, l, z)

\* Its first marker is in x when it was read; so is its last one.
Opened(x, p, q, a) == p <= a /\ IndexFrom(x, SOI, 1) = IF a + 2 <= q THEN (a + 1) - p ELSE 0
Closed(x, p, q, z, i) == IndexFrom(x, EOI, i) = IF z <= q THEN (z - 1) - p ELSE 0

LEMMA FrameNoStart ==
    ASSUME NEW s \in Bytes, NEW orig, NEW len \in Nat, NEW n \in Nat,
           NEW w \in [1..n -> Nat], NEW e \in [0..n -> Nat], FramesOf(s, len, orig, n, w, e),
           NEW p \in Nat, NEW q \in Nat, NEW c \in Nat, NEW x, Reading(s, n, len, FrameHead(n, e), p, q, c, x),
           ~(c + 1 \in 1..n)
    PROVE  IndexFrom(x, SOI, 1) = 0
<1> DEFINE head == FrameHead(n, e)
<1>1. p <= q /\ q <= Len(s) /\ len = Len(s) /\ IsSlice(x, s, p, q) /\ Passed(n, head, p, c)
  BY Zenon DEF Reading
<1>2. Marks(s, SOI, 2, n, head)
  BY FrameMarks
<1> HIDE DEF head
<1>3. NextAt(x, SOI, 2, n, head, p, q, 1, c)
  <2>1. p <= p /\ 1 = (p - p) + 1 /\ 1 \in Nat
    OBVIOUS
  <2> QED
    BY <1>1, <1>2, <2>1, NextMark
<1> QED
  BY <1>3, Zenon DEF NextAt

LEMMA FrameOpens ==
    ASSUME NEW s \in Bytes, NEW orig, NEW len \in Nat, NEW n \in Nat,
           NEW w \in [1..n -> Nat], NEW e \in [0..n -> Nat], FramesOf(s, len, orig, n, w, e),
           NEW p \in Nat, NEW q \in Nat, NEW c \in Nat, NEW x, NEW a \in Nat, NEW l \in Nat, NEW z \in Nat,
           Showing(s, len, orig, n, e, p, q, c, x, a, l, z)
    PROVE  Opened(x, p, q, a)
<1> DEFINE head == FrameHead(n, e)
<1>1. p <= q /\ q <= Len(s) /\ len = Len(s) /\ IsSlice(x, s, p, q) /\ Passed(n, head, p, c) /\ c + 1 \in 1..n
  BY Zenon DEF Showing, Reading
<1>2. Marks(s, SOI, 2, n, head)
  BY FrameMarks
<1>3. head[c + 1] = a + 1
  <2>1. (c + 1) - 1 = c
    OBVIOUS
  <2>2. e[c] = a
    BY <2>1, Zenon DEF Showing, FrameAt
  <2>3. head[c + 1] = e[(c + 1) - 1] + 1
    BY <1>1, Zenon DEF FrameHead
  <2> QED
    BY <2>1, <2>2, <2>3, Zenon
<1> HIDE DEF head
<1>4. NextAt(x, SOI, 2, n, head, p, q, 1, c)
  <2>1. p <= p /\ 1 = (p - p) + 1 /\ 1 \in Nat
    OBVIOUS
  <2> QED
    BY <1>1, <1>2, <2>1, NextMark
<1>5. ~((a + 1) <= p)
  <2>1. ~(c + 1 <= c)
    OBVIOUS
  <2> QED
    BY <1>1, <1>3, <2>1, Zenon DEF Passed
<1>6. p <= a
  BY <1>5
<1>7. (a + 1) + 2 - 1 <= q <=> a + 2 <= q
  OBVIOUS
<1>8. IndexFrom(x, SOI, 1) = IF c + 1 \in 1..n /\ head[c + 1] + 2 - 1 <= q THEN head[c + 1] - p ELSE 0
  BY <1>4, Zenon DEF NextAt
<1> QED
  BY <1>1, <1>3, <1>6, <1>7, <1>8, Zenon DEF Opened

LEMMA FrameCloses ==
    ASSUME NEW s \in Bytes, NEW orig, NEW len \in Nat, NEW n \in Nat,
           NEW w \in [1..n -> Nat], NEW e \in [0..n -> Nat], FramesOf(s, len, orig, n, w, e),
           NEW p \in Nat, NEW q \in Nat, NEW c \in Nat, NEW x, NEW a \in Nat, NEW l \in Nat, NEW z \in Nat,
           Showing(s, len, orig, n, e, p, q, c, x, a, l, z),
           p <= a, NEW i \in Nat, i = ((a + 1) - p) + 2
    PROVE  Closed(x, p, q, z, i)
<1> DEFINE tail == FrameTail(n, e)
<1>1. p <= q /\ q <= Len(s) /\ len = Len(s) /\ IsSlice(x, s, p, q) /\ c + 1 \in 1..n
  BY Zenon DEF Showing, Reading
<1>2. Marks(s, EOI, 2, n, tail)
  BY FrameMarks
<1>3. ASSUME NEW m \in 1..n PROVE tail[m] = e[m] - 1
  BY Zenon DEF FrameTail
<1>4. tail \in [1..n -> Nat]
  BY <1>2, Zenon DEF Marks
<1> HIDE DEF tail
<1>5. e[c] = a /\ e[c + 1] = z
  <2>1. (c + 1) - 1 = c
    OBVIOUS
  <2> QED
    BY <2>1, Zenon DEF Showing, FrameAt
<1>6. a + 3 < z
  <2>1. z = a + l /\ l > 3
    BY Zenon DEF Showing, FrameAt, FrameOf
  <2> QED
    BY <2>1
<1>7. ASSUME NEW m \in 1..n PROVE m <= c <=> tail[m] <= a + 2
  <2>1. c \in 0..n /\ c + 1 \in 0..n
    BY <1>1
  <2>2. PICK b1, a1, z1 \in Nat : FrameOrder(e, c, m, b1, a1, z1)
    BY <2>1, FrameBehind
  <2>3. b1 = a /\ a1 = e[m - 1] /\ z1 = e[m] /\ a1 + 3 < z1 /\ (m <= c => z1 <= b1) /\ (~(m <= c) => b1 <= a1)
    BY <1>5, <2>2, Zenon DEF FrameOrder
  <2>4. PICK y \in Nat : y = tail[m]
    BY <1>4
  <2>5. y = z1 - 1
    BY <1>3, <2>3, <2>4, Zenon
  <2>6. m <= c <=> y <= a + 2
    <3>1. b1 = a /\ a1 + 3 < z1 /\ (m <= c => z1 <= b1) /\ (~(m <= c) => b1 <= a1)
      BY <2>3, Zenon
    <3> QED
      BY <2>5, <3>1
  <2> QED
    BY <2>4, <2>6, Zenon
<1>8. Passed(n, tail, a + 2, c)
  <2>1. c \in 0..n
    BY <1>1
  <2> QED
    BY <1>7, <2>1, Zenon DEF Passed
<1>9. NextAt(x, EOI, 2, n, tail, p, q, i, c)
  <2>1. p <= a + 2 /\ i = ((a + 2) - p) + 1 /\ a + 2 \in Nat
    OBVIOUS
  <2> QED
    BY <1>1, <1>2, <1>8, <2>1, NextMark
<1>10. IndexFrom(x, EOI, i) = IF c + 1 \in 1..n /\ tail[c + 1] + 2 - 1 <= q THEN tail[c + 1] - p ELSE 0
  BY <1>9, Zenon DEF NextAt
<1>11. tail[c + 1] = z - 1
  BY <1>1, <1>3, <1>5, Zenon
<1>12. (z - 1) + 2 - 1 <= q <=> z <= q
  OBVIOUS
<1> QED
  BY <1>1, <1>10, <1>11, <1>12, Zenon DEF Closed

LEMMA FrameFindsNone ==
    ASSUME NEW x, NEW n, NEW c, NEW orig, NEW whole, CompleteFrame(x) = {}, whole => c = n
    PROVE  FindsNone("jpeg", x, n, c, orig, whole)
<1>1. "jpeg" # "nalu"
  OBVIOUS
<1>2. CompleteOf("jpeg", x) = {} /\ LastOf("jpeg", x) = <<>>
  BY <1>1, Zenon DEF CompleteOf, LastOf
<1> QED
  BY <1>2, Zenon DEF FindsNone

LEMMA FrameReady ==
    ASSUME NEW s \in Bytes, NEW orig, NEW len \in Nat, NEW n \in Nat,
           NEW w \in [1..n -> Nat], NEW e \in [0..n -> Nat], FramesOf(s, len, orig, n, w, e),
           NEW p \in Nat, NEW q \in Nat, NEW c \in Nat, NEW x, NEW a \in Nat, NEW l \in Nat, NEW z \in Nat,
           Showing(s, len, orig, n, e, p, q, c, x, a, l, z), z <= q
    PROVE  FindsItem("jpeg", x, c, orig, e[c + 1] - p)
<1>1. /\ p <= q /\ q <= Len(s) /\ len = Len(s) /\ IsSlice(x, s, p, q) /\ e[c + 1] = z /\ z = a + l /\ l > 3
      /\ orig[c + 1] \in Bytes /\ Len(orig[c + 1]) = l /\ EoiAt(orig[c + 1], l - 1)
      /\ \A k \in 1..l : s[a + k] = orig[c + 1][k]
  BY Zenon DEF Showing, Reading, FrameAt, FrameOf
<1>2. p <= a /\ IndexFrom(x, SOI, 1) = IF a + 2 <= q THEN (a + 1) - p ELSE 0
  <2>1. Opened(x, p, q, a)
    BY FrameOpens
  <2> QED
    BY <2>1, Zenon DEF Opened
<1>3. PICK r \in Nat, t \in Nat, i \in Nat, f \in Nat, u \in Nat :
        /\ r = (a + 1) - p /\ t = (z - 1) - p /\ i = r + 2 /\ r # 0 /\ t # 0 /\ a + 2 <= q
        /\ r = f + 1 /\ u = t + 1 /\ p + f = a /\ p + u = z /\ f <= u /\ u <= q - p
        /\ u = z - p /\ i = ((a + 1) - p) + 2
  <2>0. z = a + l /\ l > 3
    BY <1>1, Zenon
  <2>1. (a + 1) - p \in Nat /\ (z - 1) - p \in Nat /\ a - p \in Nat /\ z - p \in Nat
    BY <2>0, <1>2
  <2>2. PICK r \in Nat, t \in Nat, f \in Nat, u \in Nat :
          r = (a + 1) - p /\ t = (z - 1) - p /\ f = a - p /\ u = z - p
    BY <2>1
  <2>3. r # 0 /\ t # 0 /\ a + 2 <= q /\ r = f + 1 /\ u = t + 1 /\ p + f = a /\ p + u = z
        /\ f <= u /\ u <= q - p /\ r + 2 \in Nat /\ r + 2 = ((a + 1) - p) + 2
    BY <2>0, <1>2, <2>2
  <2> QED
    BY <2>2, <2>3
<1>4. IndexFrom(x, SOI, 1) = r
  BY <1>2, <1>3, Zenon
<1>5. IndexFrom(x, EOI, r + 2) = t
  <2>1. Closed(x, p, q, z, i)
    BY <1>2, <1>3, FrameCloses
  <2> QED
    BY <1>3, <2>1, Zenon DEF Closed
<1>6. CompleteFrame(x) = {[item |-> SubSeq(x, r, t + 1), used |-> t + 1]}
  BY <1>3, <1>4, <1>5, Zenon DEF CompleteFrame
<1>7. SubSeq(x, f + 1, u) = SubSeq(s, a + 1, z)
  <2>1. Inside(s, p, q, f, u)
    BY <1>1, <1>3, Zenon DEF Inside
  <2>2. SameSlice(x, s, p, f, u)
    BY <1>1, <2>1, SliceOfSlice
  <2> QED
    BY <1>3, <2>2, Zenon DEF SameSlice
<1>8. Len(s) \in Nat /\ z <= Len(s) /\ a <= z
  <2>1. Len(s) \in Nat
    BY BytesAre
  <2>2. q <= Len(s) /\ z = a + l
    BY <1>1, Zenon
  <2> QED
    BY <2>1, <2>2
<1>9. Stands(s, orig[c + 1], a, z)
  <2>1. orig[c + 1][l] # 0
    <3>1. PICK i2 \in Nat : i2 = l - 1 /\ i2 + 1 = l
      BY <1>1
    <3>2. EoiAt(orig[c + 1], i2)
      BY <1>1, <3>1, Zenon
    <3>3. orig[c + 1][i2 + 1] # 0
      BY <3>2, MarkersApart
    <3> QED
      BY <3>1, <3>3, Zenon
  <2>2. orig[c + 1] # <<>>
    <3>1. l # 0
      BY <1>1
    <3>2. Len(orig[c + 1]) # 0
      BY <1>1, <3>1, Zenon
    <3> QED
      BY <1>1, <3>2, BytesAre
  <2>3. \A k \in Nat : ~(a + l < k /\ k <= z)
    <3>1. z = a + l
      BY <1>1, Zenon
    <3> QED
      BY <3>1
  <2>4. Len(orig[c + 1]) = l
    BY <1>1, Zenon
  <2> QED
    BY <1>1, <1>8, <2>1, <2>2, <2>3, <2>4, Zenon DEF Stands
<1>10. WithoutZeros(SubSeq(s, a + 1, z)) = orig[c + 1]
  <2>1. a + l <= z
    BY <1>1
  <2>2. a + Len(orig[c + 1]) <= z
    BY <1>1, <2>1, Zenon
  <2>3. Trims(SubSeq(s, a + 1, z), orig[c + 1], a, z)
    BY <1>9, StandsTrimmed
  <2> QED
    BY <2>2, <2>3, Zenon DEF Trims
<1>11. SubSeq(s, a + 1, z) \in Bytes
  BY <1>8, SliceOf
<1>12. "jpeg" # "nalu"
  OBVIOUS
<1>13. CompleteOf("jpeg", x) = {[item |-> SubSeq(s, a + 1, z), used |-> e[c + 1] - p]}
  BY <1>1, <1>3, <1>6, <1>7, <1>12, Zenon DEF CompleteOf
<1> QED
  BY <1>10, <1>11, <1>13, Zenon DEF FindsItem

LEMMA FrameWaits ==
    ASSUME NEW s \in Bytes, NEW orig, NEW len \in Nat, NEW n \in Nat,
           NEW w \in [1..n -> Nat], NEW e \in [0..n -> Nat], FramesOf(s, len, orig, n, w, e),
           NEW p \in Nat, NEW q \in Nat, NEW c \in Nat, NEW x, NEW a \in Nat, NEW l \in Nat, NEW z \in Nat,
           Showing(s, len, orig, n, e, p, q, c, x, a, l, z), ~(z <= q)
    PROVE  CompleteFrame(x) = {} /\ q # len
<1>1. z <= len
  BY Zenon DEF Showing, FrameAt
<1>2. q # len
  BY <1>1
<1>3. p <= a /\ IndexFrom(x, SOI, 1) = IF a + 2 <= q THEN (a + 1) - p ELSE 0
  <2>1. Opened(x, p, q, a)
    BY FrameOpens
  <2> QED
    BY <2>1, Zenon DEF Opened
<1>4. CASE a + 2 <= q
  <2>1. PICK r \in Nat, i \in Nat : r = (a + 1) - p /\ i = r + 2 /\ i = ((a + 1) - p) + 2
    <3>1. (a + 1) - p \in Nat /\ ((a + 1) - p) + 2 \in Nat
      BY <1>3
    <3> QED
      BY <3>1
  <2>2. IndexFrom(x, EOI, r + 2) = 0
    <3>1. Closed(x, p, q, z, i)
      BY <1>3, <2>1, FrameCloses
    <3> QED
      BY <2>1, <3>1, Zenon DEF Closed
  <2>3. IndexFrom(x, SOI, 1) = r
    BY <1>3, <1>4, <2>1, Zenon
  <2> QED
    BY <1>2, <2>2, <2>3, Zenon DEF CompleteFrame
<1>5. CASE ~(a + 2 <= q)
  BY <1>2, <1>3, <1>5, Zenon DEF CompleteFrame
<1> QED
  BY <1>4, <1>5

LEMMA FrameFinds ==
    ASSUME NEW s \in Bytes, NEW orig, NEW len \in Nat, NEW n \in Nat,
           NEW w \in [1..n -> Nat], NEW e \in [0..n -> Nat], FramesOf(s, len, orig, n, w, e)
    PROVE  Finds("jpeg", s, n, len, orig, FrameHead(n, e), e, FrameFull(n, e))
<1> DEFINE head == FrameHead(n, e)
           full == FrameFull(n, e)
<1>1. ASSUME NEW p \in Nat, NEW q \in Nat, NEW c \in Nat, p <= q, q <= len, Passed(n, head, p, c)
      PROVE  /\ Ready(n, full, c, q) =>
                  FindsItem("jpeg", SubSeq(s, p + 1, q), c, orig, e[c + 1] - p)
             /\ ~Ready(n, full, c, q) =>
                  FindsNone("jpeg", SubSeq(s, p + 1, q), n, c, orig, q = len /\ p = e[c])
  <2>1. len = Len(s)
    BY Zenon DEF FramesOf
  <2>2. PICK x \in Seq(Byte) : IsSlice(x, s, p, q)
    BY <1>1, <2>1, SliceIs DEF Bytes
  <2>3. x = SubSeq(s, p + 1, q)
    BY <2>2, Zenon DEF IsSlice
  <2>4. Reading(s, n, len, head, p, q, c, x)
    BY <1>1, <2>1, <2>2, Zenon DEF Reading
  <2>5. CASE ~(c + 1 \in 1..n)
    <3>1. c = n
      <4>1. c \in 0..n
        BY <1>1, Zenon DEF Passed
      <4> QED
        BY <2>5, <4>1
    <3>2. IndexFrom(x, SOI, 1) = 0
      BY <2>4, <2>5, FrameNoStart
    <3>3. CompleteFrame(x) = {}
      BY <3>2, Zenon DEF CompleteFrame
    <3>4. FindsNone("jpeg", x, n, c, orig, q = len /\ p = e[c])
      BY <3>1, <3>3, FrameFindsNone
    <3>5. ~Ready(n, full, c, q)
      BY <2>5, Zenon DEF Ready
    <3> QED
      BY <2>3, <3>4, <3>5, Zenon
  <2>6. CASE c + 1 \in 1..n
    <3>1. PICK a, l, z \in Nat : FrameAt(s, len, orig, n, e, c + 1, a, l, z)
      BY <2>6, FrameStands
    <3>2. Showing(s, len, orig, n, e, p, q, c, x, a, l, z)
      BY <2>4, <2>6, <3>1, Zenon DEF Showing
    <3>3. full[c + 1] = z
      <4>1. e[c + 1] = z
        BY <3>1, Zenon DEF FrameAt
      <4> QED
        BY <2>6, <4>1, Zenon DEF FrameFull
    <3>4. Ready(n, full, c, q) <=> z <= q
      BY <2>6, <3>3, Zenon DEF Ready
    <3>5. CASE z <= q
      <4>1. FindsItem("jpeg", x, c, orig, e[c + 1] - p)
        BY <3>2, <3>5, FrameReady
      <4> QED
        BY <2>3, <3>4, <3>5, <4>1, Zenon
    <3>6. CASE ~(z <= q)
      <4>1. CompleteFrame(x) = {} /\ q # len
        BY <3>2, <3>6, FrameWaits
      <4>2. FindsNone("jpeg", x, n, c, orig, q = len /\ p = e[c])
        BY <4>1, FrameFindsNone
      <4> QED
        BY <2>3, <3>4, <3>6, <4>2, Zenon
    <3> QED
      BY <3>5, <3>6
  <2> QED
    BY <2>5, <2>6
<1> QED
  BY <1>1, Zenon DEF Finds

LEMMA FramesExtractable ==
    ASSUME NEW orig \in Pieces(Byte), \A i \in 1..Len(orig) : Whole("jpeg", orig[i])
    PROVE  Extractable("jpeg", WrittenFor("jpeg", orig), orig)
<1> DEFINE s == WrittenFor("jpeg", orig)
<1>1. s \in Bytes
  BY FramesAre
<1>2. PICK len \in Nat, n \in Nat : \E w \in [1..n -> Nat], e \in [0..n -> Nat] :
         FramesOf(s, len, orig, n, w, e)
  BY FramesAre
<1> HIDE DEF s
<1>3. PICK w \in [1..n -> Nat], e \in [0..n -> Nat] : FramesOf(s, len, orig, n, w, e)
  BY <1>2
<1>4. Framing(n, len, orig, FrameHead(n, e), e, FrameFull(n, e))
  BY <1>1, <1>3, FrameFraming
<1>5. Finds("jpeg", s, n, len, orig, FrameHead(n, e), e, FrameFull(n, e))
  BY <1>1, <1>3, FrameFinds
<1>6. len = Len(s) /\ n = Len(orig)
  BY <1>3, Zenon DEF FramesOf
<1> QED
  BY <1>1, <1>4, <1>5, <1>6, Zenon DEF Extractable, s

-----------------------------------------------------------------------------
(* AnnexB: the extraction *)

\* What is held and what was given away when q bytes of s have been read.
Stored(kind, s, orig, q, held, list, limit, done) ==
    \E n \in Nat : \E head, stop, full :
        /\ n = Len(orig) /\ Framing(n, Len(s), orig, head, stop, full)
        /\ Finds(kind, s, n, Len(s), orig, head, stop, full)
        /\ Holding(s, n, orig, head, stop, full, q, held, list, AllFit(n, orig, limit), done)

LEMMA StoredFirst ==
    ASSUME NEW kind, NEW s, NEW orig, Extractable(kind, s, orig), NEW limit
    PROVE  Stored(kind, s, orig, 0, <<>>, <<>>, limit, FALSE)
<1>1. s \in Bytes
  BY Zenon DEF Extractable
<1>2. PICK n, head, stop, full :
        /\ n \in Nat /\ n = Len(orig) /\ Framing(n, Len(s), orig, head, stop, full)
        /\ Finds(kind, s, n, Len(s), orig, head, stop, full)
  BY Zenon DEF Extractable
<1>3. stop[0] = 0 /\ \A m \in 0..n : \A k \in 1..n : k <= m <=> head[k] <= stop[m]
  BY <1>2, Zenon DEF Framing
<1>4. Passed(n, head, 0, 0)
  <2>1. 0 \in 0..n
    BY <1>2
  <2>2. \A m \in 1..n : m <= 0 <=> head[m] <= stop[0]
    BY <1>3, <2>1
  <2> QED
    BY <1>3, <2>1, <2>2, Zenon DEF Passed
<1>5. SubSeq(s, 0 + 1, 0) = <<>>
  <2>1. Len(s) \in Nat
    BY <1>1, BytesAre
  <2>2. 0 \in Nat /\ 0 <= 0 /\ 0 <= Len(s) /\ 0 - 0 = 0
    BY <2>1
  <2>3. SubSeq(s, 0 + 1, 0) \in Bytes /\ Len(SubSeq(s, 0 + 1, 0)) = 0 - 0
    BY <1>1, <2>2, SliceOf
  <2> QED
    BY <2>2, <2>3, BytesAre
<1> DEFINE at == [i \in 1..0 |-> i]
           fits == AllFit(n, orig, limit)
<1>6. Given(<<>>, orig, 0, at, fits)
  <2>1. <<>> \in Pieces(Byte) /\ Len(<<>>) = 0
    BY EmptySeq DEF Pieces
  <2>2. at \in [1..0 -> 1..0] /\ \A i \in 1..0 : FALSE
    OBVIOUS
  <2>3. Placed(0, 0, at, fits)
    BY <2>2, Zenon DEF Placed
  <2> QED
    BY <2>1, <2>2, <2>3, Zenon DEF Given
<1>7. Holding(s, n, orig, head, stop, full, 0, <<>>, <<>>, fits, FALSE)
  <2>1. 0 \in Nat /\ 0 <= 0
    OBVIOUS
  <2> QED
    BY <1>3, <1>4, <1>5, <1>6, <2>1, Zenon DEF Holding
<1> QED
  BY <1>2, <1>7, Zenon DEF Stored

LEMMA StoredBytes ==
    ASSUME NEW kind, NEW s \in Bytes, NEW orig, NEW q \in Nat, q <= Len(s), NEW held, NEW list,
           NEW limit, NEW done, Stored(kind, s, orig, q, held, list, limit, done)
    PROVE  held \in Bytes /\ Len(held) \in Nat /\ list \in Pieces(Byte)
<1>1. PICK n, head, stop, full :
        n \in Nat /\ Holding(s, n, orig, head, stop, full, q, held, list, AllFit(n, orig, limit), done)
  BY Zenon DEF Stored
<1> QED
  BY <1>1, HoldsBytes

\* What was read further, up to the place next.
Further(s, q, next) == q <= next /\ next <= Len(s)
Extended(kind, s, orig, q, next, held, list, limit) ==
    LET more == held \o SubSeq(s, q + 1, next)
    IN  Stored(kind, s, orig, next, more, list, limit, FALSE) /\ Len(more) = Len(held) + (next - q)

LEMMA StoredRead ==
    ASSUME NEW kind, NEW s \in Bytes, NEW orig, NEW q \in Nat, NEW next \in Nat, Further(s, q, next),
           NEW held, NEW list, NEW limit, NEW done, Stored(kind, s, orig, q, held, list, limit, done)
    PROVE  Extended(kind, s, orig, q, next, held, list, limit)
<1>0. q <= next /\ next <= Len(s)
  BY Zenon DEF Further
<1>1. PICK n, head, stop, full :
        /\ n \in Nat /\ n = Len(orig) /\ Framing(n, Len(s), orig, head, stop, full)
        /\ Finds(kind, s, n, Len(s), orig, head, stop, full)
        /\ Holding(s, n, orig, head, stop, full, q, held, list, AllFit(n, orig, limit), done)
  BY Zenon DEF Stored
<1>2. Holding(s, n, orig, head, stop, full, next, held \o SubSeq(s, q + 1, next), list, AllFit(n, orig, limit), FALSE)
  BY <1>0, <1>1, ReadKeeps
<1>3. q <= Len(s)
  <2>1. Len(s) \in Nat
    BY BytesAre
  <2> QED
    BY <1>0, <2>1
<1>4. held \in Bytes /\ SubSeq(s, q + 1, next) \in Bytes /\ Len(SubSeq(s, q + 1, next)) = next - q
  BY <1>0, <1>3, StoredBytes, SliceOf
<1>5. Len(held \o SubSeq(s, q + 1, next)) = Len(held) + Len(SubSeq(s, q + 1, next))
  BY <1>4, BytesJoined
<1> QED
  BY <1>1, <1>2, <1>4, <1>5, Zenon DEF Stored, Extended

LEMMA StoredFound ==
    ASSUME NEW kind, NEW s \in Bytes, NEW orig, NEW q \in Nat, q <= Len(s), NEW held, NEW list,
           NEW limit, NEW done, Stored(kind, s, orig, q, held, list, limit, done),
           NEW found \in CompleteOf(kind, held)
    PROVE  /\ Stored(kind, s, orig, q, Behind(held, found.used), Append(list, found.item), limit, FALSE)
           /\ Len(Behind(held, found.used)) <= Len(held)
<1>1. PICK n, head, stop, full :
        /\ n \in Nat /\ n = Len(orig) /\ Framing(n, Len(s), orig, head, stop, full)
        /\ Finds(kind, s, n, Len(s), orig, head, stop, full)
        /\ Holding(s, n, orig, head, stop, full, q, held, list, AllFit(n, orig, limit), done)
  BY Zenon DEF Stored
<1>2. PICK len \in Nat : len = Len(s)
  BY BytesAre
<1>3. /\ Holding(s, n, orig, head, stop, full, q, Behind(held, found.used),
                 Append(list, found.item), AllFit(n, orig, limit), FALSE)
      /\ Len(Behind(held, found.used)) <= Len(held)
  <2>1. Framing(n, len, orig, head, stop, full) /\ Finds(kind, s, n, len, orig, head, stop, full) /\ q <= len
    BY <1>1, <1>2, Zenon
  <2> QED
    BY <1>1, <1>2, <2>1, ExtractKeeps
<1> QED
  BY <1>1, <1>3, Zenon DEF Stored

LEMMA StoredRest ==
    ASSUME NEW kind, NEW s \in Bytes, NEW orig, NEW q \in Nat, q <= Len(s), NEW held, NEW list,
           NEW limit \in Nat, NEW done, Stored(kind, s, orig, q, held, list, limit, done),
           CompleteOf(kind, held) = {}
    PROVE  Stored(kind, s, orig, q, Kept(held, limit), list, limit, TRUE)
<1>1. PICK n, head, stop, full :
        /\ n \in Nat /\ n = Len(orig) /\ Framing(n, Len(s), orig, head, stop, full)
        /\ Finds(kind, s, n, Len(s), orig, head, stop, full)
        /\ Holding(s, n, orig, head, stop, full, q, held, list, AllFit(n, orig, limit), done)
  BY Zenon DEF Stored
<1>2. PICK len \in Nat : len = Len(s)
  BY BytesAre
<1>3. Holding(s, n, orig, head, stop, full, q, Kept(held, limit), list, AllFit(n, orig, limit), TRUE)
  <2>1. Framing(n, len, orig, head, stop, full) /\ Finds(kind, s, n, len, orig, head, stop, full) /\ q <= len
    BY <1>1, <1>2, Zenon
  <2> QED
    BY <1>1, <1>2, <2>1, RestKeeps
<1> QED
  BY <1>1, <1>3, Zenon DEF Stored

LEMMA StoredEnds ==
    ASSUME NEW kind, NEW s \in Bytes, NEW orig, NEW q \in Nat, q <= Len(s), NEW held, NEW list,
           NEW limit, Stored(kind, s, orig, q, held, list, limit, TRUE)
    PROVE  /\ Len(orig) \in Nat
           /\ Ended(kind, list \o LastOf(kind, held), Len(orig), orig, AllFit(Len(orig), orig, limit), q = Len(s))
<1>1. PICK n, head, stop, full :
        /\ n \in Nat /\ n = Len(orig) /\ Framing(n, Len(s), orig, head, stop, full)
        /\ Finds(kind, s, n, Len(s), orig, head, stop, full)
        /\ Holding(s, n, orig, head, stop, full, q, held, list, AllFit(n, orig, limit), TRUE)
  BY Zenon DEF Stored
<1>2. PICK len \in Nat : len = Len(s)
  BY BytesAre
<1>3. Ended(kind, list \o LastOf(kind, held), n, orig, AllFit(n, orig, limit), q = len)
  <2>1. Framing(n, len, orig, head, stop, full) /\ Finds(kind, s, n, len, orig, head, stop, full) /\ q <= len
    BY <1>1, <1>2, Zenon
  <2> QED
    BY <1>1, <1>2, <2>1, EndsIntact
<1> QED
  BY <1>1, <1>2, <1>3, Zenon

\* What was given are written items, each whole, in order.
Chosen(list, orig, limit) ==
    /\ list \in Pieces(Byte) /\ Len(orig) \in Nat
    /\ \E at \in [1..Len(list) -> 1..Len(orig)] :
        /\ \A i, j \in 1..Len(list) : i < j => at[i] < at[j]
        /\ \A i \in 1..Len(list) : WithoutZeros(list[i]) = orig[at[i]]
        /\ AllFit(Len(orig), orig, limit) => \A i \in 1..Len(list) : at[i] = i

LEMMA StoredIntact ==
    ASSUME NEW kind, NEW s \in Bytes, NEW orig, NEW q \in Nat, NEW held, NEW list,
           NEW limit, NEW done, Stored(kind, s, orig, q, held, list, limit, done)
    PROVE  Chosen(list, orig, limit)
<1>1. PICK n, head, stop, full :
        /\ n \in Nat /\ n = Len(orig)
        /\ Holding(s, n, orig, head, stop, full, q, held, list, AllFit(n, orig, limit), done)
  BY Zenon DEF Stored
<1>2. PICK p, c \in Nat : \E at :
        Passed(n, head, p, c) /\ Given(list, orig, c, at, AllFit(n, orig, limit))
  BY <1>1, Zenon DEF Holding
<1>3. PICK at : Given(list, orig, c, at, AllFit(n, orig, limit))
  BY <1>2
<1>4. /\ list \in Pieces(Byte) /\ at \in [1..Len(list) -> 1..c]
      /\ \A i, j \in 1..Len(list) : i < j => at[i] < at[j]
      /\ \A i \in 1..Len(list) : WithoutZeros(list[i]) = orig[at[i]]
      /\ AllFit(n, orig, limit) => \A i \in 1..Len(list) : at[i] = i
  BY <1>3, Zenon DEF Given, Placed
<1>5. at \in [1..Len(list) -> 1..n]
  <2>1. c \in 0..n
    BY <1>2, Zenon DEF Passed
  <2>2. \A i \in 1..c : i \in 1..n
    BY <1>1, <2>1
  <2> QED
    BY <1>4, <2>2
<1> QED
  BY <1>1, <1>4, <1>5, Zenon DEF Chosen

\* Whatever FFmpeg may write can be taken apart again.
LEMMA OutputExtractable ==
    ASSUME NEW o \in Outputs
    PROVE  Extractable(o.kind, WrittenFor(o.kind, o.items), o.items)
<1>1. /\ o.kind = "nalu" \/ o.kind = "jpeg"
      /\ o.items \in Pieces(Byte) /\ \A i \in DOMAIN o.items : Whole(o.kind, o.items[i])
  BY FFmpegWritesItems, Zenon DEF Pieces, Byte
<1>2. DOMAIN o.items = 1..Len(o.items)
  BY <1>1, LenProperties DEF Pieces
<1>3. CASE o.kind = "nalu"
  <2>1. \A i \in 1..Len(o.items) : Whole("nalu", o.items[i])
    BY <1>1, <1>2, <1>3, Zenon
  <2>2. Extractable("nalu", WrittenFor("nalu", o.items), o.items)
    BY <1>1, <2>1, NalusExtractable
  <2> QED
    BY <1>3, <2>2, Zenon
<1>4. CASE o.kind = "jpeg"
  <2>1. \A i \in 1..Len(o.items) : Whole("jpeg", o.items[i])
    BY <1>1, <1>2, <1>4, Zenon
  <2>2. Extractable("jpeg", WrittenFor("jpeg", o.items), o.items)
    BY <1>1, <2>1, FramesExtractable
  <2> QED
    BY <1>4, <2>2, Zenon
<1> QED
  BY <1>1, <1>3, <1>4

LEMMA WrittenIs ==
    ASSUME output \in Outputs
    PROVE  /\ Extractable(output.kind, Written, output.items) /\ Written \in Bytes /\ Len(Written) \in Nat
           /\ \A x : Complete(x) = CompleteOf(output.kind, x) /\ LastItem(x) = LastOf(output.kind, x)
<1>1. Written = WrittenFor(output.kind, output.items)
  BY Zenon DEF Written, WrittenFor
<1>2. Extractable(output.kind, Written, output.items)
  BY <1>1, OutputExtractable
<1>3. Written \in Bytes
  BY <1>2, Zenon DEF Extractable
<1>4. \A x : Complete(x) = CompleteOf(output.kind, x)
  BY Zenon DEF Complete, CompleteOf
<1>5. \A x : LastItem(x) = LastOf(output.kind, x)
  BY Zenon DEF LastItem, LastOf
<1> QED
  BY <1>2, <1>3, <1>4, <1>5, BytesAre

Storing(done) == Stored(output.kind, Written, output.items, taken, pending, items, Limit, done)
Over(o, list, whole) ==
    Ended(o.kind, list, Len(o.items), o.items, AllFit(Len(o.items), o.items, Limit), whole)

AnnInv ==
    /\ output \in Outputs /\ taken \in Nat /\ taken <= Len(Written) /\ eof \in BOOLEAN
    /\ phase \in {"read", "extract", "ended"} /\ items \in Pieces(Byte)
    /\ Len(pending) \in Nat /\ Len(pending) <= Limit + MaxRead
    /\ phase = "read" => Len(pending) <= Limit
    /\ phase # "ended" => Storing(FALSE)
    /\ phase = "ended" => Over(output, items, taken = Len(Written))

\* What is left at the end is at most one item more.
LEMMA LastBytes ==
    ASSUME NEW kind, NEW x \in Bytes
    PROVE  LastOf(kind, x) \in Pieces(Byte)
<1> DEFINE start == IndexFrom(x, StartMarker, 1)
<1>1. LastOf(kind, x) = <<>> \/ LastOf(kind, x) = <<Behind(x, start + 2)>>
  BY Zenon DEF LastOf
<1>2. start \in Nat
  <2>1. 3 = Len(StartMarker)
    BY DEF StartMarker
  <2>2. 3 \in Nat /\ 1 \in Nat /\ 1 >= 1
    OBVIOUS
  <2>3. PICK len \in Nat : len = Len(x)
    BY BytesAre
  <2> QED
    BY <2>1, <2>2, <2>3, IndexIs
<1> HIDE DEF start
<1>3. Behind(x, start + 2) \in Seq(Byte)
  <2>1. Len(x) \in Nat /\ \A i \in 1..Len(x) : x[i] \in Byte
    BY BytesAre
  <2>2. \A i \in ((start + 2) + 1)..Len(x) : x[i] \in Byte
    BY <1>2, <2>1
  <2>3. SubSeq(x, (start + 2) + 1, Len(x)) \in Seq(Byte)
    BY <1>2, <2>1, <2>2, SubSeqProperties
  <2> QED
    BY <2>3, Zenon DEF Behind
<1>4. PICK y \in Seq(Byte) : y = Behind(x, start + 2)
  BY <1>3
<1>5. <<>> \in Pieces(Byte)
  BY EmptySeq DEF Pieces
<1>6. <<y>> \in Pieces(Byte)
  <2>1. <<y>> \in Seq(Seq(Byte))
    BY SMT
  <2> QED
    BY <2>1, Zenon DEF Pieces
<1> QED
  BY <1>1, <1>4, <1>5, <1>6, Zenon

LEMMA AnnInitInv == AnnInit => AnnInv
<1> SUFFICES ASSUME AnnInit PROVE AnnInv
  OBVIOUS
<1>1. /\ output \in Outputs /\ taken = 0 /\ pending = <<>> /\ phase = "read" /\ eof = FALSE /\ items = <<>>
  BY Zenon DEF AnnInit
<1>2. Extractable(output.kind, Written, output.items) /\ Len(Written) \in Nat
  BY <1>1, WrittenIs
<1>3. Stored(output.kind, Written, output.items, 0, <<>>, <<>>, Limit, FALSE)
  BY <1>2, StoredFirst
<1>4. Limit \in Nat /\ MaxRead \in Nat
  BY FFmpegWritesItems
<1>5. taken \in Nat /\ taken <= Len(Written) /\ Len(pending) = 0
  BY <1>1, <1>2
<1>6. Len(pending) \in Nat /\ Len(pending) <= Limit + MaxRead /\ Len(pending) <= Limit
  BY <1>4, <1>5
<1>7. items \in Pieces(Byte)
  BY <1>1, EmptySeq DEF Pieces
<1>8. Storing(FALSE)
  BY <1>1, <1>3, Zenon DEF Storing
<1>9. phase # "ended" /\ phase \in {"read", "extract", "ended"} /\ eof \in BOOLEAN
  BY <1>1
<1> QED
  BY <1>1, <1>5, <1>6, <1>7, <1>8, <1>9, Zenon DEF AnnInv

LEMMA AnnReadInv == AnnInv /\ Read => AnnInv'
<1> SUFFICES ASSUME AnnInv, Read PROVE AnnInv'
  OBVIOUS
<1>1. /\ output \in Outputs /\ taken \in Nat /\ taken <= Len(Written) /\ Len(pending) \in Nat
      /\ phase = "read" => Len(pending) <= Limit
      /\ phase # "ended" => Storing(FALSE)
  BY Zenon DEF AnnInv
<1>2. PICK n \in 0..MaxRead :
        /\ taken + n <= Len(Written)
        /\ pending' = pending \o SubSeq(Written, taken + 1, taken + n)
        /\ taken' = taken + n
        /\ eof' = (n = 0)
  BY DEF Read
<1>3. phase = "read" /\ phase' = "extract" /\ output' = output /\ items' = items
  BY Zenon DEF Read
<1>4. Written' = Written
  BY <1>3, Zenon DEF Written
<1>5. PICK s \in Bytes : s = Written
  BY <1>1, WrittenIs
<1>6. MaxRead \in Nat /\ Limit \in Nat
  BY FFmpegWritesItems
<1>7. PICK next \in Nat : next = taken + n /\ taken <= next /\ next <= Len(s) /\ next - taken = n
  <2>1. n \in Nat
    BY <1>6
  <2> QED
    BY <1>1, <1>2, <1>5, <2>1
<1>8. Stored(output.kind, s, output.items, taken, pending, items, Limit, FALSE) /\ Len(pending) <= Limit
  <2>1. phase # "ended"
    BY <1>3
  <2> QED
    BY <1>1, <1>3, <1>5, <2>1, Zenon DEF Storing
<1>9. /\ Stored(output.kind, s, output.items, next, pending \o SubSeq(s, taken + 1, next), items, Limit, FALSE)
      /\ Len(pending \o SubSeq(s, taken + 1, next)) = Len(pending) + (next - taken)
  <2>1. Further(s, taken, next)
    BY <1>7, Zenon DEF Further
  <2>2. Extended(output.kind, s, output.items, taken, next, pending, items, Limit)
    BY <1>1, <1>8, <2>1, StoredRead
  <2> QED
    BY <2>2, Zenon DEF Extended
<1>10. pending' = pending \o SubSeq(s, taken + 1, next) /\ taken' = next
  BY <1>2, <1>5, <1>7, Zenon
<1>11. Len(pending') = Len(pending) + n
  BY <1>7, <1>9, <1>10, Zenon
<1>12. Len(pending') \in Nat /\ Len(pending') <= Limit + MaxRead
  <2>1. n \in Nat /\ n <= MaxRead
    BY <1>6
  <2> QED
    BY <1>1, <1>6, <1>8, <1>11, <2>1
<1>13. Storing(FALSE)'
  BY <1>3, <1>4, <1>5, <1>9, <1>10, Zenon DEF Storing
<1>14. items' \in Pieces(Byte)
  BY <1>3, Zenon DEF AnnInv
<1>15. taken' \in Nat /\ taken' <= Len(Written')
  BY <1>4, <1>5, <1>7, <1>10, Zenon
<1>16. eof' \in BOOLEAN
  BY <1>2
<1>17. phase' \in {"read", "extract", "ended"} /\ phase' # "read" /\ phase' # "ended"
  BY <1>3
<1> QED
  BY <1>1, <1>3, <1>12, <1>13, <1>14, <1>15, <1>16, <1>17, Zenon DEF AnnInv

LEMMA AnnExtractInv == AnnInv /\ Extract => AnnInv'
<1> SUFFICES ASSUME AnnInv, Extract PROVE AnnInv'
  OBVIOUS
<1>1. /\ output \in Outputs /\ taken \in Nat /\ taken <= Len(Written) /\ eof \in BOOLEAN
      /\ Len(pending) \in Nat /\ Len(pending) <= Limit + MaxRead
      /\ phase # "ended" => Storing(FALSE)
  BY Zenon DEF AnnInv
<1>2. PICK found \in Complete(pending) :
        items' = Append(items, found.item) /\ pending' = Behind(pending, found.used)
  BY Zenon DEF Extract
<1>3. phase = "extract" /\ phase' = phase /\ output' = output /\ taken' = taken /\ eof' = eof
  BY Zenon DEF Extract
<1>4. Written' = Written
  BY <1>3, Zenon DEF Written
<1>5. PICK s \in Bytes : s = Written
  BY <1>1, WrittenIs
<1>6. phase # "ended" /\ phase # "read" /\ phase \in {"read", "extract", "ended"}
  BY <1>3
<1>7. Stored(output.kind, s, output.items, taken, pending, items, Limit, FALSE) /\ taken <= Len(s)
  BY <1>1, <1>5, <1>6, Zenon DEF Storing
<1>8. found \in CompleteOf(output.kind, pending)
  <2>1. Complete(pending) = CompleteOf(output.kind, pending)
    BY <1>1, WrittenIs
  <2> QED
    BY <1>2, <2>1, Zenon
<1>9. /\ Stored(output.kind, s, output.items, taken, Behind(pending, found.used), Append(items, found.item),
                Limit, FALSE)
      /\ Len(Behind(pending, found.used)) <= Len(pending)
  BY <1>1, <1>7, <1>8, StoredFound
<1>10. Stored(output.kind, s, output.items, taken, pending', items', Limit, FALSE) /\ Len(pending') <= Len(pending)
  BY <1>2, <1>9, Zenon
<1>11. Len(pending') \in Nat /\ items' \in Pieces(Byte)
  BY <1>1, <1>7, <1>10, StoredBytes
<1>12. Len(pending') <= Limit + MaxRead
  <2>1. Limit \in Nat /\ MaxRead \in Nat
    BY FFmpegWritesItems
  <2> QED
    BY <1>1, <1>10, <1>11, <2>1
<1>13. Storing(FALSE)'
  BY <1>3, <1>4, <1>5, <1>10, Zenon DEF Storing
<1> QED
  BY <1>1, <1>3, <1>4, <1>6, <1>11, <1>12, <1>13, Zenon DEF AnnInv

LEMMA AnnRestInv == AnnInv /\ Rest => AnnInv'
<1> SUFFICES ASSUME AnnInv, Rest PROVE AnnInv'
  OBVIOUS
<1> DEFINE kept == Kept(pending, Limit)
<1>1. /\ output \in Outputs /\ taken \in Nat /\ taken <= Len(Written) /\ eof \in BOOLEAN
      /\ Len(pending) \in Nat /\ items \in Pieces(Byte)
      /\ phase # "ended" => Storing(FALSE)
  BY Zenon DEF AnnInv
<1>2. /\ phase = "extract" /\ Complete(pending) = {}
      /\ items' = IF eof THEN items \o LastItem(kept) ELSE items
      /\ pending' = IF eof THEN <<>> ELSE kept
      /\ phase' = IF eof THEN "ended" ELSE "read"
      /\ output' = output /\ taken' = taken /\ eof' = eof
  BY Zenon DEF Rest, Kept
<1> HIDE DEF kept
<1>3. Written' = Written
  BY <1>2, Zenon DEF Written
<1>4. PICK s \in Bytes : s = Written
  BY <1>1, WrittenIs
<1>5. phase # "ended"
  BY <1>2
<1>6. Stored(output.kind, s, output.items, taken, pending, items, Limit, FALSE) /\ taken <= Len(s)
  BY <1>1, <1>4, <1>5, Zenon DEF Storing
<1>7. CompleteOf(output.kind, pending) = {} /\ LastItem(kept) = LastOf(output.kind, kept)
  <2>1. \A x : Complete(x) = CompleteOf(output.kind, x) /\ LastItem(x) = LastOf(output.kind, x)
    BY <1>1, WrittenIs
  <2> QED
    BY <1>2, <2>1, Zenon
<1>8. Limit \in Nat /\ MaxRead \in Nat
  BY FFmpegWritesItems
<1>9. Stored(output.kind, s, output.items, taken, kept, items, Limit, TRUE)
  BY <1>1, <1>6, <1>7, <1>8, StoredRest DEF kept
<1>10. Len(kept) \in Nat /\ Len(kept) <= Limit
  <2>1. CASE Len(pending) > Limit
    <3>1. kept = <<>>
      BY <2>1, Zenon DEF kept, Kept
    <3> QED
      BY <1>8, <3>1
  <2>2. CASE ~(Len(pending) > Limit)
    <3>1. kept = pending
      BY <2>2, Zenon DEF kept, Kept
    <3> QED
      BY <1>1, <1>8, <2>2, <3>1
  <2> QED
    BY <2>1, <2>2
<1>11. CASE eof
  <2>1. items' = items \o LastOf(output.kind, kept) /\ pending' = <<>> /\ phase' = "ended"
    BY <1>2, <1>7, <1>11, Zenon
  <2>2. Ended(output.kind, items', Len(output.items), output.items,
              AllFit(Len(output.items), output.items, Limit), taken = Len(s))
    <3>1. Ended(output.kind, items \o LastOf(output.kind, kept), Len(output.items), output.items,
                AllFit(Len(output.items), output.items, Limit), taken = Len(s))
      BY <1>1, <1>6, <1>9, StoredEnds
    <3> QED
      BY <2>1, <3>1, Zenon
  <2>3. Over(output, items, taken = Len(Written))'
    BY <1>2, <1>3, <1>4, <2>2, Zenon DEF Over
  <2>4. items' \in Pieces(Byte)
    <3>1. LastOf(output.kind, kept) \in Pieces(Byte)
      <4>1. kept \in Bytes
        BY <1>1, <1>6, <1>9, StoredBytes
      <4> QED
        BY <4>1, LastBytes
    <3> QED
      BY <1>1, <2>1, <3>1, ConcatProperties DEF Pieces
  <2>5. Len(pending') = 0
    BY <2>1
  <2>6. Len(pending') \in Nat /\ Len(pending') <= Limit + MaxRead
    BY <1>8, <2>5
  <2>7. phase' \in {"read", "extract", "ended"} /\ phase' # "read" /\ phase' = "ended"
    BY <2>1
  <2> QED
    BY <1>1, <1>2, <1>3, <2>3, <2>4, <2>6, <2>7, Zenon DEF AnnInv
<1>12. CASE ~eof
  <2>1. items' = items /\ pending' = kept /\ phase' = "read"
    BY <1>2, <1>12, Zenon
  <2>2. Stored(output.kind, s, output.items, taken, kept, items, Limit, FALSE)
    BY <1>9, Zenon DEF Stored, Holding
  <2>3. Storing(FALSE)'
    BY <1>2, <1>3, <1>4, <2>1, <2>2, Zenon DEF Storing
  <2>4. Len(pending') \in Nat /\ Len(pending') <= Limit + MaxRead /\ Len(pending') <= Limit
    BY <1>8, <1>10, <2>1
  <2>5. phase' \in {"read", "extract", "ended"} /\ phase' # "ended"
    BY <2>1
  <2> QED
    BY <1>1, <1>2, <1>3, <2>1, <2>3, <2>4, <2>5, Zenon DEF AnnInv
<1> QED
  BY <1>1, <1>11, <1>12

LEMMA AnnNextInv == AnnInv /\ [AnnNext]_annVars => AnnInv'
<1> SUFFICES ASSUME AnnInv, [AnnNext]_annVars PROVE AnnInv'
  OBVIOUS
<1>1. CASE Read
  BY <1>1, AnnReadInv
<1>2. CASE Extract
  BY <1>2, AnnExtractInv
<1>3. CASE Rest
  BY <1>3, AnnRestInv
<1>4. CASE UNCHANGED annVars
  <2>1. /\ output' = output /\ taken' = taken /\ pending' = pending
        /\ phase' = phase /\ eof' = eof /\ items' = items
    BY <1>4 DEF annVars
  <2>2. Written' = Written
    BY <2>1, Zenon DEF Written
  <2>3. Storing(FALSE)' <=> Storing(FALSE)
    BY <2>1, <2>2, Zenon DEF Storing
  <2> QED
    BY <2>1, <2>2, <2>3, Zenon DEF AnnInv
<1> QED
  BY <1>1, <1>2, <1>3, <1>4, Zenon DEF AnnNext

LEMMA AnnInvTyped == AnnInv => AnnTypeOK
<1> SUFFICES ASSUME AnnInv PROVE AnnTypeOK
  OBVIOUS
<1>1. /\ output \in Outputs /\ taken \in Nat /\ taken <= Len(Written) /\ eof \in BOOLEAN
      /\ phase \in {"read", "extract", "ended"} /\ Len(pending) <= Limit + MaxRead
  BY Zenon DEF AnnInv
<1>2. taken \in 0..Len(Written)
  <2>1. Len(Written) \in Nat
    BY <1>1, WrittenIs
  <2> QED
    BY <1>1, <2>1
<1> QED
  BY <1>1, <1>2, Zenon DEF AnnTypeOK

\* The items of the output, one by one.
Cuts(i)       == phase = "ended" /\ output.kind = "nalu" /\ i = Len(items)
Matched(at)   ==
    /\ at \in [1..Len(items) -> 1..Len(output.items)]
    /\ \A i, j \in 1..Len(items) : i < j => at[i] < at[j]
    /\ \A i \in 1..Len(items) :
        IF Cuts(i) THEN IsPrefix(WithoutZeros(items[i]), output.items[at[i]])
        ELSE WithoutZeros(items[i]) = output.items[at[i]]
    /\ AllFit(Len(output.items), output.items, Limit) => \A i \in 1..Len(items) : at[i] = i

LEMMA AnnInvMatched == AnnInv => \E at : Matched(at)
<1> SUFFICES ASSUME AnnInv PROVE \E at : Matched(at)
  OBVIOUS
<1>1. output \in Outputs /\ taken \in Nat
  BY Zenon DEF AnnInv
<1>2. PICK s \in Bytes : s = Written
  BY <1>1, WrittenIs
<1>3. CASE phase # "ended"
  <2>1. Stored(output.kind, s, output.items, taken, pending, items, Limit, FALSE)
    BY <1>2, <1>3, Zenon DEF AnnInv, Storing
  <2>2. \E at \in [1..Len(items) -> 1..Len(output.items)] :
          /\ \A i, j \in 1..Len(items) : i < j => at[i] < at[j]
          /\ \A i \in 1..Len(items) : WithoutZeros(items[i]) = output.items[at[i]]
          /\ AllFit(Len(output.items), output.items, Limit) => \A i \in 1..Len(items) : at[i] = i
    <3>1. Chosen(items, output.items, Limit)
      BY <1>1, <2>1, StoredIntact
    <3> QED
      BY <3>1, Zenon DEF Chosen
  <2> QED
    BY <1>3, <2>2, Zenon DEF Matched, Cuts
<1>4. CASE phase = "ended"
  <2>1. Over(output, items, taken = Len(Written))
    BY <1>4, Zenon DEF AnnInv
  <2> QED
    BY <1>4, <2>1, Zenon DEF Over, Ended, Matched, Cuts
<1> QED
  BY <1>3, <1>4

LEMMA AnnInvIntact == AnnInv => ItemsIntact
<1> SUFFICES ASSUME AnnInv PROVE ItemsIntact
  OBVIOUS
<1> DEFINE fits == \A i \in DOMAIN output.items : Len(output.items[i]) + 7 <= Limit
<1>1. output \in Outputs /\ items \in Pieces(Byte)
  BY Zenon DEF AnnInv
<1>2. output.items \in Pieces(Byte)
  BY <1>1, FFmpegWritesItems, Zenon DEF Pieces, Byte
<1>3. /\ DOMAIN items = 1..Len(items) /\ DOMAIN output.items = 1..Len(output.items)
      /\ Len(items) \in Nat /\ Len(output.items) \in Nat
  BY <1>1, <1>2, LenProperties DEF Pieces
<1>4. fits <=> AllFit(Len(output.items), output.items, Limit)
  BY <1>3, Zenon DEF AllFit
<1> HIDE DEF fits
<1>5. Extracted = [i \in 1..Len(items) |-> WithoutZeros(items[i])]
  BY <1>3, Zenon DEF Extracted
<1>6. \A i \in 1..Len(items) : Extracted[i] = WithoutZeros(items[i])
  BY <1>5, Zenon
<1>7. PICK at : Matched(at)
  BY AnnInvMatched
<1>8. /\ at \in [DOMAIN items -> DOMAIN output.items]
      /\ \A i, j \in DOMAIN items : i < j => at[i] < at[j]
      /\ \A i \in DOMAIN items :
          IF phase = "ended" /\ output.kind = "nalu" /\ i = Len(items)
          THEN IsPrefix(Extracted[i], output.items[at[i]])
          ELSE Extracted[i] = output.items[at[i]]
      /\ fits => \A i \in DOMAIN items : at[i] = i
  BY <1>3, <1>4, <1>6, <1>7, Zenon DEF Matched, Cuts
<1>9. ASSUME phase = "ended", taken = Len(Written), fits PROVE Extracted = output.items
  <2>1. Over(output, items, taken = Len(Written))
    BY <1>9, Zenon DEF AnnInv
  <2>2. AllFit(Len(output.items), output.items, Limit)
    BY <1>4, <1>9
  <2>3. Len(items) = Len(output.items) /\ \A i \in 1..Len(output.items) : WithoutZeros(items[i]) = output.items[i]
    BY <1>9, <2>1, <2>2, Zenon DEF Over, Ended
  <2>4. output.items = [i \in 1..Len(output.items) |-> output.items[i]]
    BY <1>2, <1>3 DEF Pieces
  <2> QED
    BY <1>5, <2>3, <2>4
<1> QED
  BY <1>8, <1>9, Zenon DEF ItemsIntact, fits

\* Wherever the reads of FFmpeg's stdout are cut and wherever it ends, the NAL
\* units and frames taken out of it are items that were written, each once, whole
\* and in order, the last NAL unit at the end excepted; none is passed over when
\* all of them fit (parseH264Stream, parseMJPEGFrames).
THEOREM ItemsExtracted == AnnSpec => [](AnnTypeOK /\ ItemsIntact)
<1>1. AnnInit => AnnInv
  BY AnnInitInv
<1>2. AnnInv /\ [AnnNext]_annVars => AnnInv'
  BY AnnNextInv
<1>3. AnnInv => AnnTypeOK /\ ItemsIntact
  BY AnnInvTyped, AnnInvIntact
<1> QED
  BY <1>1, <1>2, <1>3, PTL DEF AnnSpec
=============================================================================
