-------------------------------- MODULE Lemmas --------------------------------
(***************************************************************************)
(* What the proofs share: sequences by their content, and induction over   *)
(* the natural numbers with the functions it defines.  Sets stand for      *)
(* predicates, and functions for operators, so that the provers can        *)
(* instantiate the lemmas.                                                 *)
(***************************************************************************)
EXTENDS Naturals, FiniteSets, SequencesExt, SequenceTheorems, FiniteSetTheorems,
        WellFoundedInduction, TLAPS

-----------------------------------------------------------------------------
(* Sequences by their content *)

\* The content of a sequence, by its positions.
LEMMA SeqContent ==
    ASSUME NEW S, NEW t \in Seq(S)
    PROVE  /\ ToSet(t) = {t[i] : i \in 1 .. Len(t)} /\ ToSet(t) \subseteq S
           /\ DOMAIN t = 1 .. Len(t) /\ Len(t) \in Nat
BY LenProperties, ElementOfSeq DEF ToSet

LEMMA EmptyContent == ToSet(<<>>) = {} /\ IsInjective(<<>>) /\ Len(<<>>) = 0
BY DEF ToSet, IsInjective

LEMMA FirstAndRest ==
    ASSUME NEW S, NEW t \in Seq(S), t # <<>>
    PROVE  /\ Tail(t) \in Seq(S) /\ Len(Tail(t)) = Len(t) - 1 /\ Len(t) \in Nat \ {0}
           /\ Head(t) = t[1] /\ Head(t) \in S
           /\ \A i \in 1 .. Len(t) - 1 : Tail(t)[i] = t[i + 1]
           /\ ToSet(t) = {Head(t)} \cup ToSet(Tail(t))
<1> DEFINE u == Tail(t)
<1>1. /\ u \in Seq(S) /\ Len(u) = Len(t) - 1 /\ Len(t) \in Nat \ {0}
      /\ Head(t) = t[1] /\ Head(t) \in S /\ \A i \in 1 .. Len(t) - 1 : u[i] = t[i + 1]
  BY HeadTailProperties, EmptySeq
<1>2. ToSet(u) = {u[i] : i \in 1 .. Len(u)} /\ ToSet(t) = {t[i] : i \in 1 .. Len(t)}
  BY <1>1, SeqContent
<1> HIDE DEF u
<1>3. \A i \in 1 .. Len(t) : i = 1 \/ (i - 1 \in 1 .. Len(u) /\ u[i - 1] = t[i]) BY <1>1
<1>4. \A i \in 1 .. Len(u) : i + 1 \in 1 .. Len(t) /\ u[i] = t[i + 1] BY <1>1
<1>5. 1 \in 1 .. Len(t) BY <1>1
<1>6. ToSet(t) = {Head(t)} \cup ToSet(u) BY <1>1, <1>2, <1>3, <1>4, <1>5
<1> QED BY <1>1, <1>6 DEF u

LEMMA OneMore ==
    ASSUME NEW S, NEW t \in Seq(S), IsInjective(t), NEW e \in S, e \notin ToSet(t)
    PROVE  /\ Append(t, e) \in Seq(S) /\ IsInjective(Append(t, e))
           /\ ToSet(Append(t, e)) = ToSet(t) \cup {e}
<1> DEFINE u == Append(t, e)
<1>1. /\ u \in Seq(S) /\ Len(u) = Len(t) + 1 /\ u[Len(t) + 1] = e
      /\ \A i \in 1 .. Len(t) : u[i] = t[i]
  BY AppendProperties
<1>2. /\ DOMAIN u = 1 .. Len(u) /\ ToSet(u) = {u[i] : i \in 1 .. Len(u)}
      /\ DOMAIN t = 1 .. Len(t) /\ ToSet(t) = {t[i] : i \in 1 .. Len(t)} /\ Len(t) \in Nat
  BY <1>1, SeqContent
<1> HIDE DEF u
<1>3. 1 .. Len(u) = 1 .. Len(t) \cup {Len(t) + 1} BY <1>1, <1>2
<1>4. ToSet(u) = ToSet(t) \cup {e} BY <1>1, <1>2, <1>3
<1>5. IsInjective(u)
  <2> SUFFICES ASSUME NEW i \in 1 .. Len(u), NEW j \in 1 .. Len(u), u[i] = u[j] PROVE i = j
    BY <1>2 DEF IsInjective
  <2>1. CASE i \in 1 .. Len(t) /\ j \in 1 .. Len(t) BY <1>1, <1>2, <2>1 DEF IsInjective
  <2>2. CASE i = Len(t) + 1 \/ j = Len(t) + 1 BY <1>1, <1>2, <1>3, <2>2
  <2> QED BY <1>3, <2>1, <2>2
<1> QED BY <1>1, <1>4, <1>5 DEF u

LEMMA Prefix ==
    ASSUME NEW S, NEW t \in Seq(S), NEW n \in 0 .. Len(t)
    PROVE  /\ SubSeq(t, 1, n) \in Seq(S) /\ Len(SubSeq(t, 1, n)) = n
           /\ \A i \in 1 .. n : SubSeq(t, 1, n)[i] = t[i]
<1>1. Len(t) \in Nat BY SeqContent
<1>2. \A i \in 1 .. n : t[i] \in S BY <1>1, ElementOfSeq
<1>3. 1 \in Int /\ n \in Int BY <1>1
<1>4. /\ SubSeq(t, 1, n) \in Seq(S)
      /\ Len(SubSeq(t, 1, n)) = IF 1 <= n THEN n - 1 + 1 ELSE 0
      /\ \A i \in 1 .. n - 1 + 1 : SubSeq(t, 1, n)[i] = t[1 + i - 1]
  BY <1>2, <1>3, SubSeqProperties
<1>5. (IF 1 <= n THEN n - 1 + 1 ELSE 0) = n BY <1>1
<1>6. \A i \in 1 .. n : i \in 1 .. n - 1 + 1 /\ 1 + i - 1 = i BY <1>1
<1> QED BY <1>4, <1>5, <1>6

LEMMA Suffix ==
    ASSUME NEW S, NEW t \in Seq(S), IsInjective(t), NEW m \in 1 .. Len(t) + 1
    PROVE  /\ SubSeq(t, m, Len(t)) \in Seq(S) /\ IsInjective(SubSeq(t, m, Len(t)))
           /\ Len(SubSeq(t, m, Len(t))) = Len(t) + 1 - m
           /\ ToSet(SubSeq(t, m, Len(t))) \subseteq ToSet(t)
<1> DEFINE u == SubSeq(t, m, Len(t))
<1>1. Len(t) \in Nat /\ \A i \in 1 .. Len(t) : t[i] \in S BY SeqContent, ElementOfSeq
<1>2. /\ u \in Seq(S) /\ Len(u) = Len(t) + 1 - m
      /\ \A i \in 1 .. Len(u) : u[i] = t[m + i - 1]
  BY <1>1, SubSeqProperties
<1>3. /\ DOMAIN u = 1 .. Len(u) /\ ToSet(u) = {u[i] : i \in 1 .. Len(u)}
      /\ DOMAIN t = 1 .. Len(t) /\ ToSet(t) = {t[i] : i \in 1 .. Len(t)}
  BY <1>1, <1>2, SeqContent
<1> HIDE DEF u
<1>4. \A i \in 1 .. Len(u) : m + i - 1 \in 1 .. Len(t) BY <1>1, <1>2
<1>5. IsInjective(u)
  <2> SUFFICES ASSUME NEW i \in 1 .. Len(u), NEW j \in 1 .. Len(u), u[i] = u[j] PROVE i = j
    BY <1>3 DEF IsInjective
  <2>1. m + i - 1 = m + j - 1 BY <1>2, <1>3, <1>4 DEF IsInjective
  <2> QED BY <1>1, <1>2, <2>1
<1> QED BY <1>2, <1>3, <1>4, <1>5 DEF u

LEMMA OneLess ==
    ASSUME NEW S, NEW t \in Seq(S), IsInjective(t), NEW n \in 1 .. Len(t)
    PROVE  /\ RemoveAt(t, n) \in Seq(S) /\ IsInjective(RemoveAt(t, n))
           /\ Len(RemoveAt(t, n)) = Len(t) - 1
           /\ ToSet(RemoveAt(t, n)) = ToSet(t) \ {t[n]}
<1> DEFINE a == SubSeq(t, 1, n - 1)
           b == SubSeq(t, n + 1, Len(t))
           u == a \o b
<1>1. /\ Len(t) \in Nat /\ DOMAIN t = 1 .. Len(t)
      /\ ToSet(t) = {t[i] : i \in 1 .. Len(t)} /\ \A i \in 1 .. Len(t) : t[i] \in S
  BY SeqContent, ElementOfSeq
<1>2. /\ a \in Seq(S) /\ Len(a) = n - 1 /\ \A i \in 1 .. n - 1 : a[i] = t[i]
  BY <1>1, SubSeqProperties
<1>3. /\ b \in Seq(S) /\ Len(b) = Len(t) - n /\ \A i \in 1 .. Len(t) - n : b[i] = t[n + i]
  <2>1. n + 1 \in Int /\ Len(t) \in Int /\ \A i \in n + 1 .. Len(t) : t[i] \in S BY <1>1
  <2>2. /\ b \in Seq(S)
        /\ Len(b) = IF n + 1 <= Len(t) THEN Len(t) - (n + 1) + 1 ELSE 0
        /\ \A i \in 1 .. Len(t) - (n + 1) + 1 : b[i] = t[(n + 1) + i - 1]
    BY <2>1, SubSeqProperties
  <2>3. (IF n + 1 <= Len(t) THEN Len(t) - (n + 1) + 1 ELSE 0) = Len(t) - n
    <3>1. n \in Nat /\ 1 <= n /\ n <= Len(t) /\ Len(t) \in Nat BY <1>1
    <3> QED BY <3>1
  <2>4. \A i \in 1 .. Len(t) - n : (n + 1) + i - 1 = n + i /\ i \in 1 .. Len(t) - (n + 1) + 1
    BY <1>1
  <2> QED BY <2>2, <2>3, <2>4
<1>4. RemoveAt(t, n) = u BY DEF RemoveAt
<1> HIDE DEF a, b
<1>5. /\ u \in Seq(S) /\ Len(u) = Len(t) - 1
      /\ \A i \in 1 .. Len(u) : u[i] = IF i < n THEN t[i] ELSE t[i + 1]
  <2>1. /\ u \in Seq(S) /\ Len(u) = Len(a) + Len(b)
        /\ \A i \in 1 .. Len(a) + Len(b) : u[i] = IF i <= Len(a) THEN a[i] ELSE b[i - Len(a)]
    BY <1>2, <1>3, ConcatProperties
  <2> QED BY <1>1, <1>2, <1>3, <2>1
<1> HIDE DEF u
<1>6. DOMAIN u = 1 .. Len(u) /\ ToSet(u) = {u[i] : i \in 1 .. Len(u)} BY <1>5, SeqContent
<1>7. IsInjective(u)
  <2> SUFFICES ASSUME NEW i \in 1 .. Len(u), NEW j \in 1 .. Len(u), u[i] = u[j] PROVE i = j
    BY <1>6 DEF IsInjective
  <2>1. \A k \in 1 .. Len(u) :
           \/ k < n /\ u[k] = t[k] /\ k \in 1 .. Len(t)
           \/ k >= n /\ u[k] = t[k + 1] /\ k + 1 \in 1 .. Len(t)
    BY <1>1, <1>5
  <2>2. \A p, q \in 1 .. Len(t) : t[p] = t[q] => p = q BY <1>1 DEF IsInjective
  <2>3. i \in Nat /\ j \in Nat /\ n \in Nat BY <1>1, <1>5
  <2>4. CASE i < n /\ j < n BY <2>1, <2>2, <2>3, <2>4
  <2>5. CASE i < n /\ j >= n
    <3>1. i = j + 1 BY <2>1, <2>2, <2>3, <2>5
    <3> QED BY <2>3, <2>5, <3>1
  <2>6. CASE i >= n /\ j < n
    <3>1. i + 1 = j BY <2>1, <2>2, <2>3, <2>6
    <3> QED BY <2>3, <2>6, <3>1
  <2>7. CASE i >= n /\ j >= n
    <3>1. i + 1 = j + 1 BY <2>1, <2>2, <2>3, <2>7
    <3> QED BY <2>3, <3>1
  <2> QED BY <2>3, <2>4, <2>5, <2>6, <2>7
<1>8. \A i \in 1 .. Len(t) : i # n => \E j \in 1 .. Len(u) : u[j] = t[i]
  <2> TAKE i \in 1 .. Len(t)
  <2>1. CASE i < n BY <1>1, <1>5, <2>1
  <2>2. CASE i > n
    <3>1. i - 1 \in 1 .. Len(u) /\ u[i - 1] = t[i] BY <1>1, <1>5, <2>2
    <3> QED BY <3>1
  <2> QED BY <2>1, <2>2, <1>1
<1>9. \A j \in 1 .. Len(u) : \E i \in 1 .. Len(t) : i # n /\ u[j] = t[i]
  <2> TAKE j \in 1 .. Len(u)
  <2>1. CASE j < n BY <1>1, <1>5, <2>1
  <2>2. CASE j >= n
    <3>1. j + 1 \in 1 .. Len(t) /\ j + 1 # n /\ u[j] = t[j + 1] BY <1>1, <1>5, <2>2
    <3> QED BY <3>1
  <2> QED BY <2>1, <2>2, <1>1, <1>5
<1>10. \A i \in 1 .. Len(t) : i # n => t[i] # t[n] BY <1>1 DEF IsInjective
<1>11. ToSet(u) = ToSet(t) \ {t[n]}
  <2>1. ToSet(u) \subseteq ToSet(t) \ {t[n]} BY <1>1, <1>6, <1>9, <1>10
  <2>2. ToSet(t) \ {t[n]} \subseteq ToSet(u) BY <1>1, <1>6, <1>8
  <2> QED BY <2>1, <2>2
<1> QED BY <1>4, <1>5, <1>7, <1>11

LEMMA Concatenated ==
    ASSUME NEW S, NEW t \in Seq(S), NEW u \in Seq(S)
    PROVE  t \o u \in Seq(S) /\ ToSet(t \o u) = ToSet(t) \cup ToSet(u)
<1> DEFINE v == t \o u
<1>1. /\ v \in Seq(S) /\ Len(v) = Len(t) + Len(u)
      /\ \A i \in 1 .. Len(t) + Len(u) : v[i] = IF i <= Len(t) THEN t[i] ELSE u[i - Len(t)]
  BY ConcatProperties
<1> HIDE DEF v
<1>2. /\ ToSet(v) = {v[i] : i \in 1 .. Len(v)} /\ ToSet(t) = {t[i] : i \in 1 .. Len(t)}
      /\ ToSet(u) = {u[i] : i \in 1 .. Len(u)} /\ Len(t) \in Nat /\ Len(u) \in Nat
  BY <1>1, SeqContent
<1>3. \A i \in 1 .. Len(t) : i \in 1 .. Len(v) /\ v[i] = t[i] BY <1>1, <1>2
<1>4. \A i \in 1 .. Len(u) : Len(t) + i \in 1 .. Len(v) /\ v[Len(t) + i] = u[i]
  <2> TAKE i \in 1 .. Len(u)
  <2>1. /\ Len(t) + i \in 1 .. Len(t) + Len(u) /\ ~(Len(t) + i <= Len(t))
        /\ (Len(t) + i) - Len(t) = i
    BY <1>2
  <2> QED BY <1>1, <2>1
<1>5. \A i \in 1 .. Len(v) : \/ i \in 1 .. Len(t)
                             \/ i - Len(t) \in 1 .. Len(u) /\ v[i] = u[i - Len(t)]
  BY <1>1, <1>2
<1> QED BY <1>1, <1>2, <1>3, <1>4, <1>5 DEF v

\* A finite set as a sequence, as long as it has elements.
LEMMA Listed ==
    ASSUME NEW S, IsFiniteSet(S)
    PROVE  /\ SetToSeq(S) \in Seq(S) /\ ToSet(SetToSeq(S)) = S
           /\ SetToSeq(S) \in [1 .. Cardinality(S) -> S]
<1> DEFINE n == Cardinality(S)
           t == SetToSeq(S)
<1>1. n \in Nat /\ ExistsBijection(1 .. n, S) BY FS_CardinalityType
<1>2. \E f \in [1 .. n -> S] : IsInjective(f)
  BY <1>1 DEF ExistsBijection, Bijection, Injection
<1>3. t \in [1 .. n -> S] /\ IsInjective(t) BY <1>2 DEF SetToSeq
<1> HIDE DEF t
<1>4. t \in Injection(1 .. n, S) BY <1>3 DEF Injection
<1>5. Cardinality(1 .. n) = n
  <2>1. Cardinality(1 .. n) = IF 1 > n THEN 0 ELSE n - 1 + 1 BY <1>1, FS_Interval
  <2>2. (IF 1 > n THEN 0 ELSE n - 1 + 1) = n BY <1>1
  <2> QED BY <2>1, <2>2
<1>6. t \in Surjection(1 .. n, S) BY <1>4, <1>5, FS_Injection
<1>7. t \in Seq(S) BY <1>1, <1>3
<1>8. ToSet(t) = S BY <1>3, <1>6 DEF Surjection, ToSet
<1> QED BY <1>3, <1>7, <1>8 DEF t

-----------------------------------------------------------------------------
(* The natural numbers *)

\* A set of natural numbers has a least element.
LEMMA LeastNumber ==
    ASSUME NEW P \in SUBSET Nat, P # {}
    PROVE  \E m \in P : \A k \in P : m <= k
<1> DEFINE Less == OpToRel(<, Nat)
<1>1. PICK m \in P : \A k \in P : ~(<<k, m>> \in Less)
  <2> HIDE DEF Less
  <2>1. IsWellFoundedOn(Less, Nat) BY NatLessThanWellFounded DEF Less
  <2> QED BY <2>1, WFMin
<1>2. \A k \in P : ~(k < m) BY <1>1 DEF OpToRel
<1> QED BY <1>2

\* Of a set of things some has the least measure.
LEMMA LeastMeasure ==
    ASSUME NEW S, S # {}, NEW n, \A x \in S : n[x] \in Nat
    PROVE  \E x \in S : \A y \in S : n[x] <= n[y]
<1> DEFINE P == {m \in Nat : \E x \in S : m = n[x]}
<1>1. P \in SUBSET Nat /\ P # {} OBVIOUS
<1>2. PICK m \in P : \A k \in P : m <= k
  <2> HIDE DEF P
  <2> QED BY <1>1, LeastNumber
<1>3. PICK x \in S : m = n[x] BY <1>2
<1>4. \A y \in S : n[y] \in P OBVIOUS
<1> QED BY <1>2, <1>3, <1>4

\* A non-empty set of positions has a last one.
LEMMA LastPosition ==
    ASSUME NEW n \in Nat, NEW at \in SUBSET (1 .. n), at # {}
    PROVE  \E i \in at : \A j \in at : j <= i
<1> DEFINE below == [i \in at |-> n - i]
<1>1. \A i \in at : i \in Nat /\ below[i] \in Nat /\ below[i] = n - i OBVIOUS
<1>2. PICK i \in at : \A j \in at : below[i] <= below[j]
  <2> HIDE DEF below
  <2> QED BY <1>1, LeastMeasure
<1> QED BY <1>1, <1>2

\* A set that has 0, and with a number the next, has all of them.
LEMMA Induct ==
    ASSUME NEW P, 0 \in P, \A n \in Nat : n \in P => n + 1 \in P
    PROVE  \A n \in Nat : n \in P
<1> SUFFICES ASSUME NEW a \in Nat, a \notin P PROVE FALSE OBVIOUS
<1> DEFINE N == {n \in Nat : n \notin P}
<1>1. N \in SUBSET Nat /\ N # {} OBVIOUS
<1>2. PICK m \in N : \A k \in N : m <= k
  <2> HIDE DEF N
  <2> QED BY <1>1, LeastNumber
<1>3. m \in Nat /\ m # 0 /\ m \notin P OBVIOUS
<1>4. m - 1 \in Nat /\ m - 1 \in P BY <1>2, <1>3
<1>5. (m - 1) + 1 = m BY <1>3
<1> QED BY <1>3, <1>4, <1>5

\* f holds what one step of G after the other makes of s0, up to the n-th; S is a set
\* the steps stay in.
StepsOn(n, S) == [1..n -> [S -> S]]

IsIteration(f, n, S, s0, G) ==
    /\ f \in [0..n -> S]
    /\ f[0] = s0
    /\ \A k \in 1..n : f[k] = G[k][f[k - 1]]

LEMMA IterationExists ==
    ASSUME NEW n \in Nat, NEW S, NEW s0 \in S, NEW G \in StepsOn(n, S)
    PROVE  \E f : IsIteration(f, n, S, s0, G)
<1> DEFINE P == {j \in Nat : j <= n => \E f : IsIteration(f, j, S, s0, G)}
<1>1. 0 \in P
  <2>1. IsIteration([k \in 0..0 |-> s0], 0, S, s0, G) BY DEF IsIteration
  <2> QED BY <2>1
<1>2. ASSUME NEW j \in Nat, j \in P PROVE j + 1 \in P
  <2> SUFFICES ASSUME j + 1 <= n PROVE \E f : IsIteration(f, j + 1, S, s0, G) OBVIOUS
  <2>1. PICK f : IsIteration(f, j, S, s0, G) BY <1>2
  <2> DEFINE h == [k \in 0..j + 1 |-> IF k = j + 1 THEN G[j + 1][f[j]] ELSE f[k]]
  <2>2. f \in [0..j -> S] /\ f[0] = s0 /\ \A k \in 1..j : f[k] = G[k][f[k - 1]]
    BY <2>1 DEF IsIteration
  <2>3. h \in [0..j + 1 -> S]
    <3>1. j + 1 \in 1..n BY <1>2
    <3>2. G[j + 1] \in [S -> S] BY <3>1 DEF StepsOn
    <3> QED BY <2>2, <3>2
  <2>4. h[0] = s0 BY <2>2
  <2>5. ASSUME NEW k \in 1..j + 1 PROVE h[k] = G[k][h[k - 1]]
    <3>1. CASE k = j + 1 BY <3>1
    <3>2. CASE k # j + 1
      <4>1. k \in 1..j /\ k - 1 \in 0..j BY <3>2
      <4> QED BY <2>2, <3>2, <4>1
    <3> QED BY <3>1, <3>2
  <2> HIDE DEF h
  <2> QED BY <2>3, <2>4, <2>5 DEF IsIteration
<1> HIDE DEF P
<1>3. \A j \in Nat : j \in P BY <1>1, <1>2, Induct
<1> QED BY <1>3 DEF P
===============================================================================
