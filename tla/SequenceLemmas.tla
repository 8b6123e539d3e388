-------------------------- MODULE SequenceLemmas --------------------------
(***************************************************************************)
(* What the proofs of several modules need to know of sequences, of the    *)
(* natural numbers and of induction over them.                             *)
(***************************************************************************)
EXTENDS Integers, SequencesExt, WellFoundedInduction, TLAPS

\* Induction, as it is used here: what fails for a natural number fails for a least one.
LEMMA LeastNat ==
    ASSUME NEW T \in SUBSET Nat, T # {}
    PROVE  \E n \in T : \A m \in T : n <= m
<1> DEFINE R == {ss \in Nat \X Nat : ss[1] < ss[2]}
<1>1. IsWellFoundedOn(R, Nat)
  BY NatLessThanWellFounded DEF OpToRel
<1> HIDE DEF R
<1>2. PICK n \in T : \A m \in T : ~(<<m, n>> \in R)
  BY <1>1, WFMin
<1>3. \A m \in T : ~(m < n)
  BY <1>2 DEF R
<1>4. \A m \in T : m \in Nat /\ n \in Nat
  OBVIOUS
<1> QED
  BY <1>3, <1>4

\* The same, of what holds for 0 and goes on.
LEMMA Induction ==
    ASSUME NEW n \in Nat, NEW T, 0 \in T, \A k \in 1 .. n : k - 1 \in T => k \in T
    PROVE  \A k \in 0 .. n : k \in T
<1> DEFINE U == (0 .. n) \ T
<1>1. U \in SUBSET Nat
  OBVIOUS
<1> SUFFICES ASSUME U # {} PROVE FALSE
  OBVIOUS
<1> HIDE DEF U
<1>2. PICK m \in U : \A k \in U : m <= k
  BY <1>1, LeastNat
<1> USE DEF U
<1>3. m \in 1 .. n /\ m - 1 \in 0 .. n
  BY <1>2
<1>4. m - 1 \notin U
  BY <1>2, <1>3
<1> QED
  BY <1>3, <1>4

\* A step that is made n times, from b on; F has what the i-th makes of x.
Iterates(g, F, b, n) ==
    /\ g[0] = b
    /\ \A i \in 1 .. n : g[i] = F[<<g[i - 1], i>>]

\* There is such a function.
LEMMA Iterated ==
    ASSUME NEW X, NEW b \in X, NEW n \in Nat, NEW F \in [X \X (1 .. n) -> X]
    PROVE  \E g \in [0 .. n -> X] : Iterates(g, F, b, n)
<1> DEFINE Is(g, k) == g = [i \in 0 .. k |-> IF i = 0 THEN b ELSE F[<<g[i - 1], i>>]]
           T == {k \in 0 .. n : \E g \in [0 .. k -> X] : Is(g, k)}
<1>1. 0 \in T
  <2> DEFINE g == [i \in 0 .. 0 |-> b]
  <2>1. Is(g, 0) /\ g \in [0 .. 0 -> X]
    OBVIOUS
  <2> HIDE DEF g
  <2> QED BY <2>1
<1>2. ASSUME NEW k \in 1 .. n, k - 1 \in T PROVE k \in T
  <2>1. PICK h \in [0 .. k - 1 -> X] : Is(h, k - 1)
    BY <1>2
  <2> DEFINE x == F[<<h[k - 1], k>>]
             g == [i \in 0 .. k |-> IF i = k THEN x ELSE h[i]]
  <2>2. x \in X
    OBVIOUS
  <2>3. g \in [0 .. k -> X]
    BY <2>2
  <2>4. ASSUME NEW i \in 0 .. k PROVE g[i] = IF i = 0 THEN b ELSE F[<<g[i - 1], i>>]
    <3>1. CASE i = k
      <4>1. g[k] = x /\ g[k - 1] = h[k - 1] /\ k # 0
        OBVIOUS
      <4> HIDE DEF g
      <4> QED BY <3>1, <4>1
    <3>2. CASE i # k
      <4>1. i \in 0 .. k - 1 /\ g[i] = h[i] /\ (i # 0 => g[i - 1] = h[i - 1])
        BY <3>2
      <4> HIDE DEF g
      <4> QED BY <2>1, <4>1
    <3> QED BY <3>1, <3>2
  <2>5. Is(g, k)
    <3>1. g = [i \in 0 .. k |-> g[i]]
      OBVIOUS
    <3> HIDE DEF g
    <3> QED BY <2>4, <3>1
  <2> HIDE DEF g
  <2>6. \E f \in [0 .. k -> X] : Is(f, k)
    BY <2>3, <2>5, Zenon
  <2>7. k \in 0 .. n
    OBVIOUS
  <2> QED BY <2>6, <2>7, Zenon
<1> HIDE DEF T
<1>3. n \in T
  BY <1>1, <1>2, Induction
<1>4. PICK g \in [0 .. n -> X] : Is(g, n)
  BY <1>3 DEF T
<1>5. Iterates(g, F, b, n)
  BY <1>4 DEF Iterates
<1> QED
  BY <1>5

\* A bounded set of numbers has a greatest.
LEMMA GreatestNat ==
    ASSUME NEW n \in Nat, NEW T \in SUBSET (1 .. n), T # {}
    PROVE  \E k \in T : \A m \in T : m <= k
<1> DEFINE U == {n - m : m \in T}
<1>1. U \in SUBSET Nat /\ U # {}
  <2>1. \A m \in T : n - m \in Nat
    OBVIOUS
  <2> QED
    BY <2>1
<1> HIDE DEF U
<1>2. PICK u \in U : \A v \in U : u <= v
  BY <1>1, LeastNat
<1>3. PICK k \in T : u = n - k
  BY <1>2 DEF U
<1>4. ASSUME NEW m \in T PROVE m <= k
  <2>1. n - k <= n - m
    BY <1>2, <1>3 DEF U
  <2>2. m \in Nat /\ k \in Nat
    OBVIOUS
  <2> QED
    BY <2>1, <2>2
<1> QED
  BY <1>4

\* An element is taken out: those behind it move up.
LEMMA RemoveAtProperties ==
    ASSUME NEW S, NEW s \in Seq(S), NEW k \in 1 .. Len(s)
    PROVE  /\ RemoveAt(s, k) \in Seq(S)
           /\ Len(RemoveAt(s, k)) = Len(s) - 1
           /\ \A i \in 1 .. Len(s) - 1 :
                 RemoveAt(s, k)[i] = IF i < k THEN s[i] ELSE s[i + 1]
<1> DEFINE a == SubSeq(s, 1, k - 1)
           b == SubSeq(s, k + 1, Len(s))
<1>1. a \in Seq(S) /\ Len(a) = k - 1 /\ \A i \in 1 .. k - 1 : a[i] = s[i]
  OBVIOUS
<1>2. b \in Seq(S) /\ Len(b) = Len(s) - k /\ \A i \in 1 .. Len(s) - k : b[i] = s[k + i]
  OBVIOUS
<1> HIDE DEF a, b
<1>3. a \o b \in Seq(S) /\ Len(a \o b) = Len(s) - 1
  <2>0. a \in Seq(S) /\ b \in Seq(S)
    BY <1>1, <1>2
  <2>1. a \o b \in Seq(S) /\ Len(a \o b) = Len(a) + Len(b)
    BY <2>0
  <2>2. Len(s) \in Nat /\ k \in Nat /\ (k - 1) + (Len(s) - k) = Len(s) - 1
    OBVIOUS
  <2>3. Len(a) = k - 1 /\ Len(b) = Len(s) - k
    BY <1>1, <1>2
  <2> QED
    BY <2>1, <2>2, <2>3
<1>4. \A i \in 1 .. Len(s) - 1 : (a \o b)[i] = IF i < k THEN s[i] ELSE s[i + 1]
  <2> TAKE i \in 1 .. Len(s) - 1
  <2>1. (a \o b)[i] = IF i <= Len(a) THEN a[i] ELSE b[i - Len(a)]
    BY <1>1, <1>2, <1>3
  <2>2. CASE i < k
    BY <1>1, <2>1, <2>2
  <2>3. CASE ~(i < k)
    <3>1. (a \o b)[i] = b[i - k + 1]
      BY <1>1, <2>1, <2>3
    <3>2. i - k + 1 \in 1 .. Len(s) - k /\ k + (i - k + 1) = i + 1
      BY <2>3
    <3>3. b[i - k + 1] = s[k + (i - k + 1)]
      BY <1>2, <3>2
    <3> QED BY <3>1, <3>2, <3>3, <2>3
  <2> QED BY <2>2, <2>3
<1> QED
  BY <1>3, <1>4 DEF a, b, RemoveAt

\* g_slist_remove() on a list without duplicates.
LEMMA RemoveFirstProperties ==
    ASSUME NEW S, NEW s \in Seq(S), IsInjective(s), NEW e
    PROVE  /\ RemoveFirst(s, e) \in Seq(S)
           /\ IsInjective(RemoveFirst(s, e))
           /\ ToSet(RemoveFirst(s, e)) = ToSet(s) \ {e}
           /\ Len(RemoveFirst(s, e)) = IF e \in ToSet(s) THEN Len(s) - 1 ELSE Len(s)
<1>1. CASE ~ \E i \in 1 .. Len(s) : s[i] = e
  BY <1>1 DEF RemoveFirst, ToSet
<1>2. CASE \E i \in 1 .. Len(s) : s[i] = e
  <2>1. PICK k \in 1 .. Len(s) : s[k] = e
    BY <1>2
  <2>2. \A i \in 1 .. Len(s) : s[i] = e => i = k
    BY <2>1 DEF IsInjective
  <2> DEFINE I == {i \in 1 .. Len(s) : s[i] = e}
  <2>3. I = {k}
    BY <2>1, <2>2
  <2>4. SelectInSeq(s, LAMBDA v : v = e) = Min(I)
    BY <2>3 DEF SelectInSeq
  <2>5. Min(I) = k
    <3>1. \E x \in I : \A y \in I : x =< y
      BY <2>3
    <3>2. Min(I) \in I
      BY <3>1 DEF Min
    <3> QED
      BY <2>3, <3>2
  <2> DEFINE r == SubSeq(s, 1, k - 1) \o SubSeq(s, k + 1, Len(s))
  <2>6. RemoveFirst(s, e) = r
    BY <1>2, <2>4, <2>5 DEF RemoveFirst, RemoveAt
  <2>7. /\ r \in Seq(S) /\ Len(r) = Len(s) - 1
        /\ \A i \in 1 .. Len(s) - 1 : r[i] = IF i < k THEN s[i] ELSE s[i + 1]
    BY RemoveAtProperties DEF RemoveAt
  <2> HIDE DEF r
  <2>8. IsInjective(r)
    <3>1. ASSUME NEW i \in 1 .. Len(s) - 1, NEW j \in 1 .. Len(s) - 1, r[i] = r[j] PROVE i = j
      <4> DEFINE p == IF i < k THEN i ELSE i + 1
                 q == IF j < k THEN j ELSE j + 1
      <4>1. p \in 1 .. Len(s) /\ q \in 1 .. Len(s) /\ (p = q => i = j)
        BY <2>1
      <4>2. r[i] = s[p] /\ r[j] = s[q]
        BY <2>7
      <4> HIDE DEF p, q
      <4>3. \A a, b \in 1 .. Len(s) : s[a] = s[b] => a = b
        BY DEF IsInjective
      <4>4. p = q
        BY <3>1, <4>1, <4>2, <4>3
      <4> QED BY <4>1, <4>4
    <3> QED
      BY <3>1, <2>7 DEF IsInjective
  <2>9. ToSet(r) = ToSet(s) \ {e}
    <3>1. ASSUME NEW i \in 1 .. Len(s) - 1 PROVE r[i] \in ToSet(s) \ {e}
      BY <3>1, <2>7, <2>1, <2>2, SMTT(30) DEF ToSet
    <3>2. ASSUME NEW i \in 1 .. Len(s), i # k PROVE s[i] \in ToSet(r)
      <4>1. CASE i < k
        BY <3>2, <4>1, <2>7, <2>1 DEF ToSet
      <4>2. CASE i > k
        <5>1. i - 1 \in 1 .. Len(r) /\ r[i - 1] = s[i]
          <6>1. i - 1 \in 1 .. Len(s) - 1 /\ ~(i - 1 < k) /\ (i - 1) + 1 = i
            BY <3>2, <4>2, <2>1
          <6> QED BY <6>1, <2>7
        <5> QED BY <5>1, <2>7 DEF ToSet
      <4> QED BY <3>2, <4>1, <4>2
    <3> QED
      BY <3>1, <3>2, <2>1, <2>7 DEF ToSet
  <2>10. e \in ToSet(s)
    BY <2>1 DEF ToSet
  <2> QED
    BY <2>6, <2>7, <2>8, <2>9, <2>10
<1> QED
  BY <1>1, <1>2

\* Where either of two elements may be taken out, they are the same.
LEMMA RemoveAtEither ==
    ASSUME NEW S, NEW s \in Seq(S), NEW i \in 1 .. Len(s), NEW j \in 1 .. Len(s),
           i < j, RemoveAt(s, i) = RemoveAt(s, j)
    PROVE  s[i] = s[j]
<1>1. ASSUME NEW k \in i .. j - 1 PROVE s[k] = s[k + 1]
  <2>1. k \in 1 .. Len(s) - 1 /\ k < j /\ ~(k < i)
    BY <1>1
  <2>2. RemoveAt(s, i)[k] = s[k + 1] /\ RemoveAt(s, j)[k] = s[k]
    BY <2>1, RemoveAtProperties
  <2> QED BY <2>2
<1> DEFINE T == {k \in i .. j : s[k] # s[i]}
<1>2. CASE T # {}
  <2>1. T \in SUBSET Nat
    OBVIOUS
  <2> HIDE DEF T
  <2>2. PICK k \in T : \A m \in T : k <= m
    BY <1>2, <2>1, LeastNat
  <2> USE DEF T
  <2>3. k \in i + 1 .. j
    BY <2>2
  <2>4. k - 1 \in i .. j - 1 /\ k - 1 \notin T
    BY <2>2, <2>3
  <2>5. s[k - 1] = s[i] /\ s[k - 1] = s[k]
    BY <1>1, <2>3, <2>4
  <2> QED BY <2>2, <2>5
<1>3. CASE T = {}
  BY <1>3
<1> QED
  BY <1>2, <1>3
=============================================================================
