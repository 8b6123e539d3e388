-------------------------- MODULE AlgorithmsProofs --------------------------
(***************************************************************************)
(* What TLAPS proves of the algorithms: of sorting, filtering and cutting  *)
(* off the list of completions; of the texts and carets that any edits     *)
(* make; of what becomes of any snippet; and of the tree of symbols.       *)
(***************************************************************************)
EXTENDS Algorithms, SequenceLemmas, SequenceTheorems, FiniteSetTheorems

\* The pairs of a finite set that are in order, for InOrder.
Order(S, R) ==
    /\ IsFiniteSet(S)
    /\ \A i \in S : <<i, i>> \notin R
    /\ \A i, j, k \in S : <<i, j>> \in R /\ <<j, k>> \in R => <<i, k>> \in R
    /\ \A i, j \in S : i = j \/ <<i, j>> \in R \/ <<j, i>> \in R

\* InOrder lists each element once, and in order.
LEMMA InOrderSorts ==
    ASSUME NEW S, NEW R, Order(S, R)
    PROVE  LET o == InOrder(S, R)
               n == Cardinality(S)
           IN  /\ n \in Nat /\ o \in [1 .. n -> S]
               /\ \A k, m \in 1 .. n : k < m => <<o[k], o[m]>> \in R
               /\ \A i \in S : \E k \in 1 .. n : o[k] = i
               /\ \A k, m \in 1 .. n : o[k] = o[m] => k = m
<1> DEFINE o == InOrder(S, R)
           n == Cardinality(S)
           pre(i) == {j \in S : <<j, i>> \in R}
           rank == [i \in S |-> Cardinality(pre(i))]
           I == 0 .. n - 1
<1>1. n \in Nat /\ IsFiniteSet(S)
  BY FS_CardinalityType DEF Order
<1>2. ASSUME NEW i \in S PROVE rank[i] \in I /\ IsFiniteSet(pre(i))
  <2>1. IsFiniteSet(S \ {i}) /\ Cardinality(S \ {i}) = n - 1
    BY <1>1, FS_RemoveElement
  <2>2. pre(i) \in SUBSET (S \ {i})
    BY DEF Order
  <2>3. IsFiniteSet(pre(i)) /\ Cardinality(pre(i)) <= n - 1
    <3> HIDE DEF pre
    <3>1. IsFiniteSet(pre(i)) /\ Cardinality(pre(i)) <= Cardinality(S \ {i})
      BY <2>1, <2>2, FS_Subset, Zenon
    <3> QED BY <2>1, <3>1
  <2>4. Cardinality(pre(i)) \in Nat
    BY <2>3, FS_CardinalityType
  <2>5. Cardinality(pre(i)) \in I
    BY <1>1, <2>3, <2>4
  <2>6. rank[i] = Cardinality(pre(i))
    OBVIOUS
  <2> QED BY <2>3, <2>5, <2>6, Zenon
<1>3. ASSUME NEW i \in S, NEW j \in S, <<i, j>> \in R PROVE rank[i] < rank[j]
  <2>1. pre(i) \in SUBSET pre(j)
    BY <1>3 DEF Order
  <2>2. i \in pre(j) /\ i \notin pre(i)
    BY <1>3 DEF Order
  <2>3. Cardinality(pre(i)) <= Cardinality(pre(j)) /\ Cardinality(pre(i)) # Cardinality(pre(j))
    BY <1>2, <2>1, <2>2, FS_Subset
  <2>4. rank[i] \in Int /\ rank[j] \in Int
    BY <1>1, <1>2
  <2> QED BY <2>3, <2>4
<1>4. rank \in [S -> I]
  BY <1>2
<1>5. \A i \in S : rank[i] \in Int
  BY <1>1, <1>2
<1>6. \A i, j \in S : rank[i] = rank[j] => i = j
  <2> HIDE DEF rank
  <2>1. ASSUME NEW i \in S, NEW j \in S, rank[i] = rank[j] PROVE i = j
    <3>1. ~(<<i, j>> \in R) /\ ~(<<j, i>> \in R)
      BY <1>3, <1>5, <2>1
    <3> QED BY <3>1 DEF Order
  <2> QED BY <2>1
<1>7. IsFiniteSet(I) /\ Cardinality(I) = n
  BY <1>1, FS_Interval, SMTT(30)
<1>8. rank \in Surjection(S, I)
  <2>1. rank \in Injection(S, I)
    BY <1>4, <1>6 DEF Injection, IsInjective
  <2> QED BY <1>7, <2>1, FS_Injection
<1>9. \A r \in I : \E i \in S : rank[i] = r
  BY <1>8 DEF Surjection
<1>10. ASSUME NEW k \in 1 .. n PROVE o[k] \in S /\ rank[o[k]] = k - 1
  <2>1. k - 1 \in I
    BY <1>1
  <2>2. \E i \in S : Cardinality({j \in S : <<j, i>> \in R}) = k - 1
    BY <1>9, <2>1
  <2>3. o[k] = CHOOSE i \in S : Cardinality({j \in S : <<j, i>> \in R}) = k - 1
    BY DEF InOrder
  <2>4. o[k] \in S /\ Cardinality({j \in S : <<j, o[k]>> \in R}) = k - 1
    BY <2>2, <2>3
  <2> QED BY <2>4
<1>11. o \in [1 .. n -> S]
  BY <1>10 DEF InOrder
<1> HIDE DEF o, rank, pre, I
<1>12. ASSUME NEW k \in 1 .. n, NEW m \in 1 .. n, k < m PROVE <<o[k], o[m]>> \in R
  <2>1. rank[o[k]] < rank[o[m]] /\ rank[o[k]] \in Int /\ rank[o[m]] \in Int
    BY <1>10, <1>12
  <2>2. o[k] # o[m] /\ ~(<<o[m], o[k]>> \in R)
    BY <1>3, <1>10, <2>1
  <2> QED BY <1>10, <2>2 DEF Order
<1>13. ASSUME NEW i \in S PROVE \E k \in 1 .. n : o[k] = i
  <2>1. rank[i] \in 0 .. n - 1
    BY <1>2 DEF I
  <2>2. rank[i] + 1 \in 1 .. n /\ (rank[i] + 1) - 1 = rank[i]
    BY <1>1, <2>1
  <2>3. rank[o[rank[i] + 1]] = rank[i] /\ o[rank[i] + 1] \in S
    BY <1>10, <2>2
  <2> QED BY <1>6, <2>2, <2>3
<1>14. ASSUME NEW k \in 1 .. n, NEW m \in 1 .. n, o[k] = o[m] PROVE k = m
  BY <1>10, <1>14
<1> QED
  BY <1>1, <1>11, <1>12, <1>13, <1>14 DEF o

\* Better or not, and equally good ones by their places: B has the pairs of which the
\* first is better.
Stable(n, B) == {p \in (1 .. n) \X (1 .. n) : p \in B \/ (<<p[2], p[1]>> \notin B /\ p[1] < p[2])}

Weak(n, B) ==
    /\ \A i \in 1 .. n : <<i, i>> \notin B
    /\ \A i, j, k \in 1 .. n : <<i, j>> \in B /\ <<j, k>> \in B => <<i, k>> \in B
    /\ \A i, j, k \in 1 .. n : <<i, j>> \in B => <<i, k>> \in B \/ <<k, j>> \in B

\* That is an order, when what is worse than something is worse than all that is as good.
LEMMA StableOrder ==
    ASSUME NEW n \in Nat, NEW B, Weak(n, B)
    PROVE  Order(1 .. n, Stable(n, B))
<1> USE DEF Weak
<1>1. IsFiniteSet(1 .. n)
  BY FS_Interval
<1>2. \A i, j \in 1 .. n :
          <<i, j>> \in Stable(n, B) <=> <<i, j>> \in B \/ (<<j, i>> \notin B /\ i < j)
  BY DEF Stable
<1>3. ASSUME NEW i \in 1 .. n PROVE <<i, i>> \notin Stable(n, B)
  <2>1. ~(i < i)
    OBVIOUS
  <2> QED BY <1>2, <2>1
<1>4. ASSUME NEW i \in 1 .. n, NEW j \in 1 .. n
      PROVE  i = j \/ <<i, j>> \in Stable(n, B) \/ <<j, i>> \in Stable(n, B)
  <2>1. i = j \/ i < j \/ j < i
    OBVIOUS
  <2> QED BY <1>2, <2>1
<1>5. ASSUME NEW i \in 1 .. n, NEW j \in 1 .. n, NEW k \in 1 .. n,
             <<i, j>> \in Stable(n, B), <<j, k>> \in Stable(n, B)
      PROVE  <<i, k>> \in Stable(n, B)
  <2>1. <<i, j>> \in B \/ (<<j, i>> \notin B /\ i < j)
    BY <1>2, <1>5
  <2>2. <<j, k>> \in B \/ (<<k, j>> \notin B /\ j < k)
    BY <1>2, <1>5
  <2>3. i < j /\ j < k => i < k
    OBVIOUS
  <2>4. <<k, i>> \in B => <<k, j>> \in B \/ <<j, i>> \in B
    OBVIOUS
  <2>5. <<i, k>> \in B \/ (<<k, i>> \notin B /\ i < k)
    BY <2>1, <2>2, <2>3, <2>4
  <2> QED BY <1>2, <2>5
<1> QED
  BY <1>1, <1>3, <1>4, <1>5 DEF Order

CompletionRecord == [label : Label, sort : Nat, snippet : BOOLEAN]

\* r has the elements of s, each once.
Rearranged(r, s) ==
    /\ Len(r) = Len(s)
    /\ \E o \in [1 .. Len(s) -> 1 .. Len(s)] :
          /\ \A k \in 1 .. Len(s) : r[k] = s[o[k]]
          /\ \A i \in 1 .. Len(s) : \E k \in 1 .. Len(s) : o[k] = i
          /\ \A k, m \in 1 .. Len(s) : o[k] = o[m] => k = m

\* r has the elements of s, and none after one that it is better than.
Sorts(r, s, B) ==
    /\ r \in Seq(CompletionRecord)
    /\ Rearranged(r, s)
    /\ \A k, m \in 1 .. Len(s) : k < m =>
          \E i, j \in 1 .. Len(s) : r[k] = s[i] /\ r[m] = s[j] /\ <<j, i>> \notin B

\* Sorted with a relation of items.
LEMMA Sorted ==
    ASSUME NEW s \in Seq(CompletionRecord), NEW B, Weak(Len(s), B)
    PROVE  Sorts(Arranged(s, DOMAIN s, Stable(Len(s), B)), s, B)
<1> DEFINE n == Len(s)
           o == InOrder(1 .. n, Stable(n, B))
           r == Arranged(s, DOMAIN s, Stable(n, B))
<1>1. n \in Nat
  OBVIOUS
<1>2. Order(1 .. n, Stable(n, B))
  BY <1>1, StableOrder
<1>3. Cardinality(1 .. n) = n
  <2>1. 1 \in Int /\ n \in Int
    OBVIOUS
  <2>2. Cardinality(1 .. n) = IF 1 > n THEN 0 ELSE n - 1 + 1
    BY <2>1, FS_Interval
  <2> QED BY <1>1, <2>2
<1>4. /\ o \in [1 .. n -> 1 .. n]
      /\ \A k, m \in 1 .. n : k < m => <<o[k], o[m]>> \in Stable(n, B)
      /\ \A i \in 1 .. n : \E k \in 1 .. n : o[k] = i
      /\ \A k, m \in 1 .. n : o[k] = o[m] => k = m
  BY <1>2, <1>3, InOrderSorts, SMTT(30)
<1> HIDE DEF o
<1>5. r = [k \in 1 .. n |-> s[o[k]]]
  <2>1. DOMAIN s = 1 .. n
    OBVIOUS
  <2> QED BY <1>3, <2>1, Zenon DEF o, r, Arranged
<1> HIDE DEF r
<1>6. r \in Seq(CompletionRecord) /\ Len(r) = n
  <2>1. \A i \in 1 .. n : s[i] \in CompletionRecord
    OBVIOUS
  <2>2. \A k \in 1 .. n : s[o[k]] \in CompletionRecord
    BY <1>4, <2>1
  <2> HIDE DEF n
  <2> QED BY <1>1, <1>5, <2>2
<1>7. Rearranged(r, s)
  BY <1>4, <1>5, <1>6 DEF Rearranged
<1>8. ASSUME NEW k \in 1 .. n, NEW m \in 1 .. n, k < m
      PROVE  \E i, j \in 1 .. n : r[k] = s[i] /\ r[m] = s[j] /\ <<j, i>> \notin B
  <2>1. <<o[k], o[m]>> \in Stable(n, B) /\ o[k] \in 1 .. n /\ o[m] \in 1 .. n
    BY <1>4, <1>8
  <2>2. <<o[m], o[k]>> \notin B
    BY <2>1 DEF Stable, Weak
  <2> QED BY <1>5, <2>1, <2>2
<1> QED
  BY <1>6, <1>7, <1>8 DEF r, Sorts

\* By the server's order.
LEMMA FirstPassSorts ==
    ASSUME NEW s \in Seq(CompletionRecord), NEW r, r = Ordered(s, FirstPass)
    PROVE  /\ r \in Seq(CompletionRecord)
           /\ Rearranged(r, s)
           /\ \A k, m \in 1 .. Len(s) : k < m => r[k].sort <= r[m].sort
<1> DEFINE n == Len(s)
           B == {p \in (1 .. n) \X (1 .. n) : s[p[1]].sort < s[p[2]].sort}
           before == {p \in (1 .. n) \X (1 .. n) :
                         \/ s[p[1]].sort < s[p[2]].sort
                         \/ ~(s[p[2]].sort < s[p[1]].sort) /\ p[1] < p[2]}
<1>1. n \in Nat /\ DOMAIN s = 1 .. n /\ \A i \in 1 .. n : s[i] \in CompletionRecord
  OBVIOUS
<1>2. \A i \in 1 .. n : s[i].sort \in Nat
  BY <1>1 DEF CompletionRecord
<1>3. before = Stable(n, B)
  BY DEF Stable
<1>4. r = Arranged(s, DOMAIN s, before)
  BY <1>1 DEF Ordered, FirstPass
<1>5. \A i, j \in 1 .. n : <<i, j>> \in B <=> s[i].sort < s[j].sort
  OBVIOUS
<1> HIDE DEF before, B
<1>6. Weak(n, B)
  <2>1. ASSUME NEW i \in 1 .. n, NEW j \in 1 .. n, NEW k \in 1 .. n
        PROVE  /\ <<i, i>> \notin B
               /\ <<i, j>> \in B /\ <<j, k>> \in B => <<i, k>> \in B
               /\ <<i, j>> \in B => <<i, k>> \in B \/ <<k, j>> \in B
    <3>1. s[i].sort \in Nat /\ s[j].sort \in Nat /\ s[k].sort \in Nat
      BY <1>2
    <3>2. /\ <<i, i>> \in B <=> s[i].sort < s[i].sort
          /\ <<i, j>> \in B <=> s[i].sort < s[j].sort
          /\ <<j, k>> \in B <=> s[j].sort < s[k].sort
          /\ <<i, k>> \in B <=> s[i].sort < s[k].sort
          /\ <<k, j>> \in B <=> s[k].sort < s[j].sort
      BY <1>5
    <3> QED BY <3>1, <3>2
  <2> QED BY <2>1 DEF Weak
<1>7. Sorts(r, s, B)
  BY <1>3, <1>4, <1>6, Sorted
<1>8. ASSUME NEW k \in 1 .. n, NEW m \in 1 .. n, k < m PROVE r[k].sort <= r[m].sort
  <2>1. PICK i \in 1 .. n, j \in 1 .. n : r[k] = s[i] /\ r[m] = s[j] /\ <<j, i>> \notin B
    BY <1>7, <1>8 DEF Sorts
  <2> QED BY <1>2, <1>5, <2>1
<1> QED
  BY <1>7, <1>8 DEF Sorts

\* The comparison with the word is an order of labels, some of which are equal in it.
LEMMA BetterMatchWeak ==
    ASSUME NEW a \in Label, NEW b \in Label, NEW c \in Label
    PROVE  /\ ~BetterMatch(a, a)
           /\ BetterMatch(a, b) /\ BetterMatch(b, c) => BetterMatch(a, c)
           /\ BetterMatch(a, b) => BetterMatch(a, c) \/ BetterMatch(c, b)
<1>1. Match[a] \in Int /\ Match[b] \in Int /\ Match[c] \in Int
  <2>1. \A l \in Label : Match[l] \in 0 .. Nowhere
    BY LabelAssumption
  <2> QED BY <2>1, LabelAssumption
<1> DEFINE x == Match[a]
           y == Match[b]
           z == Match[c]
<1> HIDE DEF x, y, z
<1>2. x \in Int /\ y \in Int /\ z \in Int
  BY <1>1 DEF x, y, z
<1>3. /\ BetterMatch(a, a) <=> x < x \/ (x = x /\ a \in Identifier /\ a \notin Identifier)
      /\ BetterMatch(a, b) <=> x < y \/ (x = y /\ a \in Identifier /\ b \notin Identifier)
      /\ BetterMatch(b, c) <=> y < z \/ (y = z /\ b \in Identifier /\ c \notin Identifier)
      /\ BetterMatch(a, c) <=> x < z \/ (x = z /\ a \in Identifier /\ c \notin Identifier)
      /\ BetterMatch(c, b) <=> z < y \/ (z = y /\ c \in Identifier /\ b \notin Identifier)
  BY DEF BetterMatch, x, y, z
<1> QED
  BY <1>2, <1>3

\* And so is the comparison of the second pass.
LEMMA SecondPassWeak ==
    ASSUME NEW a \in CompletionRecord, NEW b \in CompletionRecord, NEW c \in CompletionRecord
    PROVE  /\ ~SecondPass(a, a)
           /\ SecondPass(a, b) /\ SecondPass(b, c) => SecondPass(a, c)
           /\ SecondPass(a, b) => SecondPass(a, c) \/ SecondPass(c, b)
<1> DEFINE x == a.sort
           y == b.sort
           z == c.sort
           Better(p, q) == BetterMatch(p.label, q.label)
<1>1. x \in Int /\ y \in Int /\ z \in Int /\ a.label \in Label /\ b.label \in Label /\ c.label \in Label
  BY DEF CompletionRecord
<1>2. \A p, q, r \in {a, b, c} : /\ ~Better(p, p)
                                 /\ Better(p, q) /\ Better(q, r) => Better(p, r)
                                 /\ Better(p, q) => Better(p, r) \/ Better(r, q)
  BY <1>1, BetterMatchWeak
<1>3. /\ SecondPass(a, a) <=> Better(a, a) \/ (~Better(a, a) /\ x < x)
      /\ SecondPass(a, b) <=> Better(a, b) \/ (~Better(b, a) /\ x < y)
      /\ SecondPass(b, c) <=> Better(b, c) \/ (~Better(c, b) /\ y < z)
      /\ SecondPass(a, c) <=> Better(a, c) \/ (~Better(c, a) /\ x < z)
      /\ SecondPass(c, b) <=> Better(c, b) \/ (~Better(b, c) /\ z < y)
  BY DEF SecondPass
<1> HIDE DEF x, y, z, Better
<1>4. /\ ~Better(a, a)
      /\ Better(a, b) /\ Better(b, c) => Better(a, c)
      /\ Better(a, b) => Better(a, c) \/ Better(c, b)
      /\ Better(b, c) => Better(b, a) \/ Better(a, c)
      /\ Better(c, a) => Better(c, b) \/ Better(b, a)
      /\ Better(b, a) /\ Better(a, c) => Better(b, c)
      /\ Better(c, b) /\ Better(b, a) => Better(c, a)
      /\ Better(c, a) /\ Better(a, b) => Better(c, b)
      /\ Better(a, c) /\ Better(c, b) => Better(a, b)
      /\ Better(b, c) /\ Better(c, a) => Better(b, a)
      /\ Better(b, a) => Better(b, c) \/ Better(c, a)
      /\ Better(c, b) => Better(c, a) \/ Better(a, b)
      /\ Better(a, c) => Better(a, b) \/ Better(b, c)
  BY <1>2
<1>5. /\ ~(x < x)
      /\ x < y /\ y < z => x < z
      /\ x < y => x < z \/ z < y
  BY <1>1
<1> QED
  BY <1>3, <1>4, <1>5

\* By what is typed.
LEMMA SecondPassSorts ==
    ASSUME NEW s \in Seq(CompletionRecord), NEW r, r = Ordered(s, SecondPass)
    PROVE  /\ r \in Seq(CompletionRecord)
           /\ Rearranged(r, s)
           /\ \A k, m \in 1 .. Len(s) : k < m => ~SecondPass(r[m], r[k])
<1> DEFINE n == Len(s)
           B == {p \in (1 .. n) \X (1 .. n) : SecondPass(s[p[1]], s[p[2]])}
           before == {p \in (1 .. n) \X (1 .. n) :
                         \/ SecondPass(s[p[1]], s[p[2]])
                         \/ ~SecondPass(s[p[2]], s[p[1]]) /\ p[1] < p[2]}
<1>1. n \in Nat /\ DOMAIN s = 1 .. n /\ \A i \in 1 .. n : s[i] \in CompletionRecord
  OBVIOUS
<1>2. before = Stable(n, B)
  BY DEF Stable
<1>3. r = Arranged(s, DOMAIN s, before)
  BY <1>1 DEF Ordered
<1>4. \A i, j \in 1 .. n : <<i, j>> \in B <=> SecondPass(s[i], s[j])
  OBVIOUS
<1> HIDE DEF before, B
<1>5. Weak(n, B)
  <2>1. ASSUME NEW i \in 1 .. n, NEW j \in 1 .. n, NEW k \in 1 .. n
        PROVE  /\ <<i, i>> \notin B
               /\ <<i, j>> \in B /\ <<j, k>> \in B => <<i, k>> \in B
               /\ <<i, j>> \in B => <<i, k>> \in B \/ <<k, j>> \in B
    <3>1. s[i] \in CompletionRecord /\ s[j] \in CompletionRecord /\ s[k] \in CompletionRecord
      BY <1>1
    <3> QED BY <3>1, <1>4, SecondPassWeak
  <2> QED BY <2>1 DEF Weak
<1>6. Sorts(r, s, B)
  BY <1>2, <1>3, <1>5, Sorted
<1>7. ASSUME NEW k \in 1 .. n, NEW m \in 1 .. n, k < m PROVE ~SecondPass(r[m], r[k])
  <2>1. PICK i \in 1 .. n, j \in 1 .. n : r[k] = s[i] /\ r[m] = s[j] /\ <<j, i>> \notin B
    BY <1>6, <1>7 DEF Sorts
  <2> QED BY <1>4, <2>1
<1> QED
  BY <1>6, <1>7 DEF Sorts

Similar(item, word) == ~(word /\ item.label \in Dissimilar)

\* f has the first item of each label in s that is similar to the word.
Firsts(f, s, word) ==
    /\ f \in Seq(CompletionRecord)
    /\ \A k \in 1 .. Len(f) : \E i \in 1 .. Len(s) :
          /\ f[k] = s[i] /\ Similar(s[i], word)
          /\ \A j \in 1 .. i - 1 : s[j].label # s[i].label
    /\ \A k, m \in 1 .. Len(f) : f[k].label = f[m].label => k = m
    /\ \A i \in 1 .. Len(s) : Similar(s[i], word) =>
          \E k \in 1 .. Len(f) : f[k].label = s[i].label

\* That is what the filter keeps.
LEMMA Filtered ==
    ASSUME NEW s \in Seq(CompletionRecord), NEW word
    PROVE  Firsts(FilterItems(s, word), s, word)
<1> DEFINE f == FilterItems(s, word)
           n == Len(s)
           S == {i \in 1 .. n : /\ ~(word /\ s[i].label \in Dissimilar)
                                /\ \A j \in 1 .. i - 1 : s[j].label # s[i].label}
           R == {p \in S \X S : p[1] < p[2]}
           o == InOrder(S, R)
           c == Cardinality(S)
<1>1. n \in Nat /\ DOMAIN s = 1 .. n /\ \A i \in 1 .. n : s[i] \in CompletionRecord
  OBVIOUS
<1>2. /\ \A i \in S : i \in 1 .. n /\ i \in Int
      /\ \A i \in 1 .. n : i \in S <=> /\ Similar(s[i], word)
                                       /\ \A j \in 1 .. i - 1 : s[j].label # s[i].label
  BY DEF Similar
<1>3. IsFiniteSet(S)
  <2>1. IsFiniteSet(1 .. n) /\ S \in SUBSET (1 .. n)
    BY <1>1, FS_Interval
  <2> QED BY <2>1, FS_Subset
<1>4. f = [k \in 1 .. c |-> s[o[k]]]
  BY <1>1 DEF FilterItems, Arranged
<1> HIDE DEF S, f
<1>5. Order(S, R)
  <2>1. \A i, j \in S : <<i, j>> \in R <=> i < j
    OBVIOUS
  <2> HIDE DEF R
  <2>2. ASSUME NEW i \in S, NEW j \in S, NEW k \in S
        PROVE  /\ <<i, i>> \notin R
               /\ <<i, j>> \in R /\ <<j, k>> \in R => <<i, k>> \in R
               /\ i = j \/ <<i, j>> \in R \/ <<j, i>> \in R
    BY <1>2, <2>1
  <2> QED BY <1>3, <2>2 DEF Order
<1> HIDE DEF R
<1>6. /\ c \in Nat /\ o \in [1 .. c -> S]
      /\ \A i \in S : \E k \in 1 .. c : o[k] = i
      /\ \A k, m \in 1 .. c : o[k] = o[m] => k = m
  BY <1>5, InOrderSorts
<1> HIDE DEF o, c
<1>7. f \in Seq(CompletionRecord) /\ Len(f) = c
  <2>1. \A k \in 1 .. c : s[o[k]] \in CompletionRecord
    BY <1>1, <1>2, <1>6
  <2> QED BY <1>4, <1>6, <2>1
<1>8. ASSUME NEW k \in 1 .. c
      PROVE  /\ o[k] \in 1 .. n /\ f[k] = s[o[k]] /\ Similar(s[o[k]], word)
             /\ \A j \in 1 .. o[k] - 1 : s[j].label # s[o[k]].label
  BY <1>2, <1>4, <1>6
<1>9. ASSUME NEW k \in 1 .. c, NEW m \in 1 .. c, f[k].label = f[m].label PROVE k = m
  <2>1. s[o[k]].label = s[o[m]].label /\ o[k] \in 1 .. n /\ o[m] \in 1 .. n
    BY <1>8, <1>9
  <2>2. o[k] < o[m] => o[k] \in 1 .. o[m] - 1
    BY <2>1
  <2>3. o[m] < o[k] => o[m] \in 1 .. o[k] - 1
    BY <2>1
  <2>4. ~(o[k] < o[m]) /\ ~(o[m] < o[k])
    BY <1>8, <2>1, <2>2, <2>3
  <2>5. o[k] = o[m]
    BY <2>1, <2>4
  <2> QED BY <1>6, <2>5
<1>10. ASSUME NEW i \in 1 .. n, Similar(s[i], word)
       PROVE  \E k \in 1 .. c : f[k].label = s[i].label
  <2> DEFINE T == {j \in 1 .. n : s[j].label = s[i].label}
  <2>1. T \in SUBSET Nat /\ T # {}
    OBVIOUS
  <2>2. PICK j \in T : \A m \in T : j <= m
    BY <2>1, LeastNat
  <2>3. j \in 1 .. n /\ s[j].label = s[i].label
    OBVIOUS
  <2>4. ASSUME NEW m \in 1 .. j - 1 PROVE s[m].label # s[j].label
    <3>1. m \in 1 .. n /\ ~(j <= m)
      BY <2>3
    <3> QED BY <2>2, <2>3, <3>1
  <2>5. j \in S
    BY <1>2, <1>10, <2>3, <2>4 DEF Similar
  <2>6. PICK k \in 1 .. c : o[k] = j
    BY <1>6, <2>5
  <2> QED BY <1>8, <2>3, <2>6
<1>11. Firsts(f, s, word)
  BY <1>7, <1>8, <1>9, <1>10 DEF Firsts
<1> QED
  BY <1>11 DEF f

\* r lists each label of items that is similar to the word, with its first item.
Ranked(r, items, word) ==
    /\ r \in Seq(CompletionRecord)
    /\ \A k, m \in 1 .. Len(r) : k < m =>
          /\ r[k].label # r[m].label
          /\ ~(word /\ BetterMatch(r[m].label, r[k].label))
          /\ (word => ~BetterMatch(r[k].label, r[m].label)) => r[k].sort <= r[m].sort
    /\ \A k \in 1 .. Len(r) :
          /\ \E i \in 1 .. Len(items) : r[k] = items[i] /\ Similar(items[i], word)
          /\ \A i \in 1 .. Len(items) :
                items[i].label = r[k].label => r[k].sort <= items[i].sort
    /\ \A i \in 1 .. Len(items) : Similar(items[i], word) =>
          \E k \in 1 .. Len(r) : r[k].label = items[i].label

\* That is what there is of an answer, before it is cut off.
LEMMA SymbolsRanked ==
    ASSUME NEW items \in Seq(CompletionRecord), NEW word \in BOOLEAN
    PROVE  LET f == FilterItems(Ordered(items, FirstPass), word)
           IN  Ranked(IF word THEN Ordered(f, SecondPass) ELSE Ordered(f, FirstPass), items, word)
<1> DEFINE s == Ordered(items, FirstPass)
           f == FilterItems(s, word)
           r == IF word THEN Ordered(f, SecondPass) ELSE Ordered(f, FirstPass)
           n == Len(items)
           c == Len(f)
<1>1. /\ s \in Seq(CompletionRecord) /\ Rearranged(s, items)
      /\ \A k, m \in 1 .. n : k < m => s[k].sort <= s[m].sort
  BY FirstPassSorts
<1> HIDE DEF s
<1>2. Firsts(f, s, word)
  BY <1>1, Filtered
<1> HIDE DEF f
<1>4. Len(s) = n /\ n \in Nat /\ f \in Seq(CompletionRecord) /\ c \in Nat
  BY <1>1, <1>2 DEF Rearranged, Firsts
<1>5. /\ \A i \in 1 .. n : \E k \in 1 .. n : s[k] = items[i]
      /\ \A k \in 1 .. n : \E i \in 1 .. n : s[k] = items[i]
  <2>1. PICK o \in [1 .. n -> 1 .. n] :
            /\ \A k \in 1 .. n : s[k] = items[o[k]]
            /\ \A i \in 1 .. n : \E k \in 1 .. n : o[k] = i
    BY <1>1 DEF Rearranged
  <2>2. \A k \in 1 .. n : o[k] \in 1 .. n
    OBVIOUS
  <2>3. ASSUME NEW k \in 1 .. n PROVE \E i \in 1 .. n : s[k] = items[i]
    BY <2>1, <2>2
  <2>4. ASSUME NEW i \in 1 .. n PROVE \E k \in 1 .. n : s[k] = items[i]
    BY <2>1
  <2> QED BY <2>3, <2>4
<1>6. /\ r \in Seq(CompletionRecord) /\ Rearranged(r, f)
      /\ word => \A k, m \in 1 .. c : k < m => ~SecondPass(r[m], r[k])
      /\ ~word => \A k, m \in 1 .. c : k < m => r[k].sort <= r[m].sort
  <2>1. CASE word
    <3>1. r = Ordered(f, SecondPass)
      BY <2>1
    <3> QED BY <1>4, <2>1, <3>1, SecondPassSorts
  <2>2. CASE ~word
    <3>1. r = Ordered(f, FirstPass)
      BY <2>2
    <3> QED BY <1>4, <2>2, <3>1, FirstPassSorts
  <2> QED BY <2>1, <2>2
<1> HIDE DEF r
<1>7. PICK o \in [1 .. c -> 1 .. c] :
          /\ Len(r) = c
          /\ \A k \in 1 .. c : r[k] = f[o[k]]
          /\ \A i \in 1 .. c : \E k \in 1 .. c : o[k] = i
          /\ \A k, m \in 1 .. c : o[k] = o[m] => k = m
  BY <1>6 DEF Rearranged
<1>8. \A k \in 1 .. c : r[k].sort \in Int
  <2>1. \A k \in 1 .. c : r[k] \in CompletionRecord
    BY <1>6, <1>7
  <2> QED BY <2>1 DEF CompletionRecord
<1>9. ASSUME NEW k \in 1 .. c, NEW m \in 1 .. c, k < m
      PROVE  /\ r[k].label # r[m].label
             /\ ~(word /\ BetterMatch(r[m].label, r[k].label))
             /\ (word => ~BetterMatch(r[k].label, r[m].label)) => r[k].sort <= r[m].sort
  <2>1. r[k].label # r[m].label
    <3>1. /\ o[k] \in 1 .. c /\ o[m] \in 1 .. c
          /\ r[k] = f[o[k]] /\ r[m] = f[o[m]]
          /\ o[k] # o[m]
      <4>1. k # m
        BY <1>9
      <4> QED BY <1>7, <4>1
    <3>2. \A i, j \in 1 .. c : f[i].label = f[j].label => i = j
      BY <1>2 DEF Firsts
    <3> QED BY <3>1, <3>2
  <2>2. CASE word
    <3>1. ~SecondPass(r[m], r[k])
      BY <1>6, <1>9, <2>2
    <3>2. /\ ~BetterMatch(r[m].label, r[k].label)
          /\ BetterMatch(r[k].label, r[m].label) \/ ~(r[m].sort < r[k].sort)
      BY <3>1 DEF SecondPass
    <3>3. ~(r[m].sort < r[k].sort) => r[k].sort <= r[m].sort
      <4>1. r[m].sort \in Int /\ r[k].sort \in Int
        BY <1>8
      <4> QED BY <4>1
    <3> QED BY <2>1, <2>2, <3>2, <3>3
  <2>3. CASE ~word
    BY <1>6, <1>9, <2>1, <2>3
  <2> QED BY <2>2, <2>3
<1>10. ASSUME NEW k \in 1 .. c
       PROVE  /\ \E i \in 1 .. n : r[k] = items[i] /\ Similar(items[i], word)
              /\ \A i \in 1 .. n : items[i].label = r[k].label => r[k].sort <= items[i].sort
  <2>1. PICK j \in 1 .. n : /\ r[k] = s[j] /\ Similar(s[j], word)
                            /\ \A m \in 1 .. j - 1 : s[m].label # s[j].label
    <3>1. o[k] \in 1 .. c /\ r[k] = f[o[k]]
      BY <1>7
    <3>2. \A p \in 1 .. Len(f) : \E j \in 1 .. Len(s) :
             /\ f[p] = s[j] /\ Similar(s[j], word)
             /\ \A m \in 1 .. j - 1 : s[m].label # s[j].label
      BY <1>2, Zenon DEF Firsts
    <3>3. \E j \in 1 .. Len(s) :
             /\ f[o[k]] = s[j] /\ Similar(s[j], word)
             /\ \A m \in 1 .. j - 1 : s[m].label # s[j].label
      BY <3>1, <3>2, Zenon
    <3> QED BY <1>4, <3>1, <3>3, Zenon
  <2>2. PICK i \in 1 .. n : s[j] = items[i]
    BY <1>5
  <2>3. ASSUME NEW q \in 1 .. n, items[q].label = r[k].label PROVE r[k].sort <= items[q].sort
    <3>1. PICK m \in 1 .. n : s[m] = items[q]
      BY <1>5
    <3>2. ~(m < j)
      <4>1. m < j => m \in 1 .. j - 1
        OBVIOUS
      <4> QED BY <2>1, <2>3, <3>1, <4>1
    <3>3. r[k].sort \in Int
      BY <1>8
    <3>4. CASE m = j
      BY <2>1, <3>1, <3>3, <3>4
    <3>5. CASE j < m
      BY <1>1, <2>1, <3>1, <3>5
    <3> QED BY <3>2, <3>4, <3>5
  <2> QED BY <2>1, <2>2, <2>3
<1>11. ASSUME NEW i \in 1 .. n, Similar(items[i], word)
       PROVE  \E k \in 1 .. c : r[k].label = items[i].label
  <2>1. PICK m \in 1 .. n : s[m] = items[i]
    BY <1>5
  <2>2. PICK j \in 1 .. c : f[j].label = items[i].label
    <3>1. m \in 1 .. Len(s) /\ Similar(s[m], word)
      BY <1>4, <1>11, <2>1
    <3>2. \E j \in 1 .. Len(f) : f[j].label = s[m].label
      BY <1>2, <3>1 DEF Firsts
    <3> QED BY <2>1, <3>2
  <2>3. PICK k \in 1 .. c : o[k] = j
    BY <1>7
  <2> QED BY <1>7, <2>2, <2>3
<1>12. Ranked(r, items, word)
  BY <1>6, <1>7, <1>9, <1>10, <1>11 DEF Ranked
<1> QED
  BY <1>12 DEF r, f, s

\* q is r without what is behind one more than the maximum.
CutTo(q, r) ==
    /\ Len(q) \in Nat /\ DOMAIN q = 1 .. Len(q)
    /\ Len(q) <= Len(r) /\ Len(r) \in Nat
    /\ Len(q) = Len(r) \/ Len(q) = MaxEntries + 1
    /\ \A k \in 1 .. Len(q) : q[k] = r[k]

\* show_tags_list() stops there.
LEMMA CutOff ==
    ASSUME NEW r \in Seq(CompletionRecord)
    PROVE  CutTo(SubSeq(r, 1, Min({MaxEntries + 1, Len(r)})), r)
<1> DEFINE c == Len(r)
           e == MaxEntries + 1
           m == Min({e, c})
           q == SubSeq(r, 1, m)
<1>1. e \in Nat /\ c \in Nat
  BY LabelAssumption
<1>2. m = IF e <= c THEN e ELSE c
  <2> HIDE DEF e, c
  <2>1. \E x \in {e, c} : \A y \in {e, c} : x =< y
    BY <1>1
  <2>2. m \in {e, c} /\ m =< e /\ m =< c
    BY <2>1 DEF Min
  <2> QED BY <1>1, <2>2
<1> HIDE DEF m
<1>3. m \in Nat /\ m <= c /\ (m = c \/ m = e)
  BY <1>1, <1>2
<1>4. Len(q) = m /\ DOMAIN q = 1 .. m /\ \A k \in 1 .. m : q[k] = r[k]
  BY <1>3
<1>5. CutTo(q, r)
  BY <1>1, <1>3, <1>4 DEF CutTo
<1> QED
  BY <1>5 DEF m

\* ListRanked of one answer.
LEMMA ResponseRanked ==
    ASSUME NEW s \in Seq(CompletionRecord), NEW word \in BOOLEAN,
           job' = [kind |-> "list", items |-> s, word |-> word, result |-> ProcessResponse(s, word)]
    PROVE  ListRanked'
<1> DEFINE f == FilterItems(Ordered(s, FirstPass), word)
           r == IF word THEN Ordered(f, SecondPass) ELSE Ordered(f, FirstPass)
           q == SubSeq(r, 1, Min({MaxEntries + 1, Len(r)}))
           items == Range(s)
           shown == ProcessResponse(s, word)
           wanted == {l \in {it.label : it \in items} : ~word \/ l \notin Dissimilar}
           worse(a, b) == word /\ BetterMatch(b, a)
<1>1. shown = q \/ shown = <<>>
  BY DEF ProcessResponse
<1>2. Ranked(r, s, word)
  BY SymbolsRanked
<1> HIDE DEF r
<1>3. CutTo(q, r)
  BY <1>2, CutOff DEF Ranked
<1> HIDE DEF q, shown
<1>4. \A it \in items : \E i \in 1 .. Len(s) : it = s[i]
  BY DEF Range
<1>5. \A i \in 1 .. Len(s) : s[i] \in items
  BY DEF Range
<1> HIDE DEF items
<1> DEFINE good(t) ==
        /\ \A k, m \in DOMAIN t : k < m =>
              /\ t[k].label # t[m].label
              /\ ~worse(t[k].label, t[m].label)
              /\ (word => ~BetterMatch(t[k].label, t[m].label)) => t[k].sort <= t[m].sort
        /\ \A k \in DOMAIN t :
              /\ t[k].label \in wanted
              /\ \A it \in items : it.label = t[k].label => t[k].sort <= it.sort
        /\ t # <<>> =>
              \A l \in wanted \ {t[k].label : k \in DOMAIN t} :
                  /\ Len(t) = MaxEntries + 1
                  /\ \A k \in DOMAIN t : ~worse(t[k].label, l)
<1>6. good(q)
  <2> USE <1>2, <1>3 DEF Ranked, CutTo
  <2>1. \A k \in 1 .. Len(q) : k \in 1 .. Len(r) /\ q[k] = r[k]
    OBVIOUS
  <2>2. ASSUME NEW k \in 1 .. Len(q), NEW m \in 1 .. Len(q), k < m
        PROVE  /\ q[k].label # q[m].label
               /\ ~worse(q[k].label, q[m].label)
               /\ (word => ~BetterMatch(q[k].label, q[m].label)) => q[k].sort <= q[m].sort
    <3>1. k \in 1 .. Len(r) /\ m \in 1 .. Len(r) /\ q[k] = r[k] /\ q[m] = r[m]
      BY <2>1
    <3>2. /\ r[k].label # r[m].label
          /\ ~(word /\ BetterMatch(r[m].label, r[k].label))
          /\ (word => ~BetterMatch(r[k].label, r[m].label)) => r[k].sort <= r[m].sort
      BY <1>2, <2>2, <3>1, Zenon DEF Ranked
    <3> QED BY <3>1, <3>2, Zenon
  <2>3. ASSUME NEW k \in 1 .. Len(q)
        PROVE  /\ q[k].label \in wanted
               /\ \A it \in items : it.label = q[k].label => q[k].sort <= it.sort
    <3>1. k \in 1 .. Len(r) /\ q[k] = r[k]
      BY <1>3, <2>1
    <3>2. PICK i \in 1 .. Len(s) : r[k] = s[i] /\ Similar(s[i], word)
      BY <1>2, <3>1
    <3>3. q[k].label \in wanted
      BY <1>5, <3>1, <3>2 DEF Similar
    <3>4. ASSUME NEW it \in items, it.label = q[k].label PROVE q[k].sort <= it.sort
      <4>1. PICK j \in 1 .. Len(s) : it = s[j]
        BY <1>4
      <4> QED BY <1>2, <3>1, <3>4, <4>1
    <3> QED BY <3>3, <3>4
  <2>4. ASSUME NEW l \in wanted \ {q[k].label : k \in 1 .. Len(q)}
        PROVE  /\ Len(q) = MaxEntries + 1
               /\ \A k \in 1 .. Len(q) : ~worse(q[k].label, l)
    <3>1. PICK it \in items : it.label = l /\ (~word \/ l \notin Dissimilar)
      OBVIOUS
    <3>2. PICK i \in 1 .. Len(s) : it = s[i]
      BY <1>4
    <3>3. Similar(s[i], word)
      BY <3>1, <3>2 DEF Similar
    <3>4. PICK m \in 1 .. Len(r) : r[m].label = l
      BY <1>2, <3>1, <3>2, <3>3
    <3>5. m \notin 1 .. Len(q)
      BY <1>3, <3>4
    <3>6. Len(q) < m
      BY <1>3, <3>5
    <3>7. Len(q) = MaxEntries + 1
      BY <1>3, <3>6
    <3>8. ASSUME NEW k \in 1 .. Len(q) PROVE ~worse(q[k].label, l)
      <4>1. k < m /\ k \in 1 .. Len(r) /\ q[k] = r[k]
        BY <1>3, <2>1, <3>6
      <4> QED BY <1>2, <3>4, <4>1
    <3> QED BY <3>7, <3>8
  <2> HIDE DEF worse, wanted
  <2>5. DOMAIN q = 1 .. Len(q)
    OBVIOUS
  <2> HIDE <1>2, <1>3
  <2> QED BY <2>2, <2>3, <2>4, <2>5
<1>7. ListRanked' <=> good(shown)
  BY DEF ListRanked, items, shown
<1> HIDE DEF worse, wanted
<1>8. good(<<>>)
  OBVIOUS
<1> HIDE DEF good
<1> QED
  BY <1>1, <1>6, <1>7, <1>8

-----------------------------------------------------------------------------
\* The popup lists each label once, as the server and what is typed rank it, and leaves
\* out only what is worse: for any items, words and size of the popup.
THEOREM CompletionsRanked == Spec => []ListRanked
<1>1. Init => ListRanked
  BY DEF Init, Idle, ListRanked
<1>2. ListRanked /\ [Next]_job => ListRanked'
  <2> SUFFICES ASSUME ListRanked, [Next]_job PROVE ListRanked'
    OBVIOUS
  <2>1. CASE RunCompletionList
    <3>1. PICK items \in BoundedSeq(CompletionItem, MaxCompletions), word \in BOOLEAN :
              job' = [kind |-> "list", items |-> items, word |-> word,
                      result |-> ProcessResponse(items, word)]
      BY <2>1 DEF RunCompletionList
    <3>2. items \in Seq(CompletionRecord)
      <4>1. PICK m \in 0 .. MaxCompletions : items \in [1 .. m -> CompletionItem]
        BY DEF BoundedSeq, SeqOf
      <4>2. m \in Nat /\ items \in [1 .. m -> CompletionRecord]
        BY <4>1, ItemAssumption, SMTT(30) DEF CompletionRecord
      <4> QED BY <4>2, SMTT(30)
    <3> QED BY <3>1, <3>2, ResponseRanked
  <2>2. CASE RunSnippet
    <3>1. job'.kind = "snippet"
      BY <2>2 DEF RunSnippet
    <3> QED BY <3>1 DEF ListRanked
  <2>3. CASE RunCompletion
    <3>1. job'.kind = "completion"
      BY <2>3 DEF RunCompletion
    <3> QED BY <3>1 DEF ListRanked
  <2>4. CASE RunWorkspaceEdit
    <3>1. job'.kind = "workspace"
      BY <2>4 DEF RunWorkspaceEdit
    <3> QED BY <3>1 DEF ListRanked
  <2>5. CASE RunSymbols \/ RunSearch
    <3>1. job'.kind = "tree"
      BY <2>5 DEF RunSymbols, RunSearch, Refreshed
    <3> QED BY <3>1 DEF ListRanked
  <2>6. CASE UNCHANGED job
    BY <2>6 DEF ListRanked
  <2> QED BY <2>1, <2>2, <2>3, <2>4, <2>5, <2>6 DEF Next
<1> QED
  BY <1>1, <1>2, PTL DEF Spec

-----------------------------------------------------------------------------
\* An edit of a text of n characters.
TextEdit(n) == {e \in [from : 0 .. n, to : 0 .. n, new : Seq(STRING)] : e.from <= e.to}

\* A text in three parts.
LEMMA Associative ==
    \A a, b, c \in Seq(STRING) : (a \o b) \o c = a \o (b \o c)
  BY ConcatAssociative

\* What is inserted and what is kept are texts.
LEMMA InsertedType ==
    ASSUME NEW n \in Nat, NEW es \in Seq(TextEdit(n)), NEW p
    PROVE  InsertedAt(es, p) \in Seq(STRING)
<1> DEFINE at == {i \in DOMAIN es : es[i].from = p}
<1>1. CASE at = {}
  BY <1>1 DEF InsertedAt
<1>2. CASE at # {}
  <2> DEFINE i == CHOOSE i \in at : TRUE
  <2>1. i \in DOMAIN es
    BY <1>2
  <2>2. InsertedAt(es, p) = es[i].new
    BY <1>2 DEF InsertedAt
  <2> HIDE DEF i
  <2>3. es[i] \in TextEdit(n)
    BY <2>1
  <2> QED BY <2>2, <2>3 DEF TextEdit
<1> QED BY <1>1, <1>2

\* The same, of a character that is kept.
LEMMA KeptType ==
    ASSUME NEW text \in Seq(STRING), NEW es, NEW p \in Nat
    PROVE  KeptAt(text, es, p) \in Seq(STRING)
<1>1. CASE p < Len(text)
  <2>1. text[p + 1] \in STRING
    BY <1>1
  <2> HIDE DEF KeptAt
  <2>2. <<text[p + 1]>> \in Seq(STRING)
    BY <2>1
  <2>3. KeptAt(text, es, p) \in {<<text[p + 1]>>, <<>>}
    BY DEF KeptAt
  <2> QED BY <2>2, <2>3, EmptySeq
<1>2. CASE ~(p < Len(text))
  BY <1>2 DEF KeptAt
<1> QED BY <1>1, <1>2

\* Replaced, from each place to the next.
LEMMA ReplacedSteps ==
    ASSUME NEW text \in Seq(STRING), NEW es \in Seq(TextEdit(Len(text)))
    PROVE  LET g == Replaced(text, es)
               L == Len(text)
           IN  /\ g[L + 1] = <<>>
               /\ \A p \in 0 .. L + 1 : g[p] \in Seq(STRING)
               /\ \A p \in 0 .. L : g[p] = InsertedAt(es, p) \o KeptAt(text, es, p) \o g[p + 1]
<1> DEFINE L == Len(text)
           piece(p) == InsertedAt(es, p) \o KeptAt(text, es, p)
           X == Seq(STRING)
           F == [z \in X \X (1 .. L + 1) |-> piece(L + 1 - z[2]) \o z[1]]
           Is(g) == g = [p \in 0 .. L + 1 |-> IF p > L THEN <<>> ELSE piece(p) \o g[p + 1]]
           g0 == CHOOSE g : Is(g)
<1>1. L \in Nat
  OBVIOUS
<1>2. \A p \in Nat : piece(p) \in X
  BY InsertedType, KeptType
<1> HIDE DEF piece
<1>3. F \in [X \X (1 .. L + 1) -> X]
  <2>1. ASSUME NEW x \in X, NEW i \in 1 .. L + 1 PROVE piece(L + 1 - i) \o x \in X
    <3>1. L + 1 - i \in Nat
      BY <1>1
    <3>2. piece(L + 1 - i) \in X
      BY <1>2, <3>1
    <3> QED BY <3>2, ConcatProperties
  <2> QED BY <2>1
<1> HIDE DEF X, F
<1>4. PICK h \in [0 .. L + 1 -> X] : Iterates(h, F, <<>>, L + 1)
  <2>1. <<>> \in X /\ L + 1 \in Nat
    BY <1>1, EmptySeq DEF X
  <2> QED BY <1>3, <2>1, Iterated
<1> DEFINE g == [p \in 0 .. L + 1 |-> h[L + 1 - p]]
<1>5. Is(g)
  <2>1. ASSUME NEW p \in 0 .. L + 1 PROVE g[p] = IF p > L THEN <<>> ELSE piece(p) \o g[p + 1]
    <3>1. CASE p > L
      <4>1. L + 1 - p = 0
        BY <1>1, <3>1
      <4> QED BY <1>4, <3>1, <4>1 DEF Iterates
    <3>2. CASE ~(p > L)
      <4> DEFINE i == L + 1 - p
      <4>1. i \in 1 .. L + 1 /\ L + 1 - i = p /\ p + 1 \in 0 .. L + 1 /\ L + 1 - (p + 1) = i - 1
        BY <1>1, <3>2
      <4>2. g[p] = h[i] /\ g[p + 1] = h[i - 1]
        BY <4>1
      <4> HIDE DEF i, g
      <4> HIDE DEF L
      <4>3. h[i - 1] \in X /\ h[i] = F[<<h[i - 1], i>>]
        <5>1. i - 1 \in 0 .. L + 1
          BY <1>1, <4>1
        <5> QED BY <1>4, <4>1, <5>1 DEF Iterates
      <4>4. F[<<h[i - 1], i>>] = piece(L + 1 - i) \o h[i - 1]
        BY <4>1, <4>3 DEF F
      <4> QED BY <3>2, <4>1, <4>2, <4>3, <4>4
    <3> QED BY <3>1, <3>2
  <2>2. g = [p \in 0 .. L + 1 |-> g[p]]
    OBVIOUS
  <2> HIDE DEF g
  <2> QED BY <2>1, <2>2
<1>6. Is(g0)
  <2> HIDE DEF g, Is
  <2> QED BY <1>5
<1>7. Replaced(text, es) = g0
  BY DEF Replaced, piece
<1> HIDE DEF g0
<1>8. /\ g0[L + 1] = <<>>
      /\ \A p \in 0 .. L : g0[p] = piece(p) \o g0[p + 1]
  <2> HIDE DEF L
  <2>1. \A p \in 0 .. L + 1 : g0[p] = IF p > L THEN <<>> ELSE piece(p) \o g0[p + 1]
    BY <1>6, Zenon
  <2>2. L + 1 \in 0 .. L + 1 /\ L + 1 > L /\ \A p \in 0 .. L : p \in 0 .. L + 1 /\ ~(p > L)
    BY <1>1
  <2> QED BY <2>1, <2>2
<1> HIDE DEF L
<1>9. ASSUME NEW p \in 0 .. L + 1 PROVE g0[p] \in X
  <2> DEFINE T == {k \in 0 .. L + 1 : g0[L + 1 - k] \in X}
  <2>1. 0 \in T
    <3>1. 0 \in 0 .. L + 1 /\ L + 1 - 0 = L + 1
      BY <1>1
    <3>2. <<>> \in X
      BY EmptySeq DEF X
    <3> QED BY <1>8, <3>1, <3>2
  <2>2. ASSUME NEW k \in 1 .. L + 1, k - 1 \in T PROVE k \in T
    <3> DEFINE q == L + 1 - k
    <3>1. q \in 0 .. L /\ q + 1 = L + 1 - (k - 1)
      BY <1>1
    <3>2. g0[q + 1] \in X /\ piece(q) \in X
      BY <1>2, <2>2, <3>1
    <3>3. g0[q] \in X
      BY <1>8, <3>1, <3>2, ConcatProperties, ZenonT(30) DEF X
    <3> QED BY <3>1, <3>3
  <2>3. L + 1 - p \in 0 .. L + 1 /\ L + 1 \in Nat /\ L + 1 - (L + 1 - p) = p
    BY <1>1
  <2> HIDE DEF T
  <2>4. L + 1 - p \in T
    BY <2>1, <2>2, <2>3, Induction
  <2> QED BY <2>3, <2>4 DEF T
<1> QED
  BY <1>7, <1>8, <1>9 DEF piece, X, L

\* Where no edit is, the text stays.
LEMMA ReplacedGap ==
    ASSUME NEW text \in Seq(STRING), NEW es \in Seq(TextEdit(Len(text))),
           NEW q \in 0 .. Len(text), NEW p \in 0 .. q,
           \A x \in p .. q - 1 : InsertedAt(es, x) = <<>> /\ KeptAt(text, es, x) = <<text[x + 1]>>
    PROVE  Replaced(text, es)[p] = SubSeq(text, p + 1, q) \o Replaced(text, es)[q]
<1> DEFINE L == Len(text)
           g == Replaced(text, es)
           T == {k \in 0 .. q - p : g[q - k] = SubSeq(text, q - k + 1, q) \o g[q]}
<1>1. L \in Nat /\ q \in Nat /\ p \in Nat /\ q <= L /\ p <= q /\ q - p \in Nat
  OBVIOUS
<1>2. /\ \A x \in 0 .. L + 1 : g[x] \in Seq(STRING)
      /\ \A x \in 0 .. L : g[x] = InsertedAt(es, x) \o KeptAt(text, es, x) \o g[x + 1]
  BY ReplacedSteps
<1> HIDE DEF g, L
<1>3. g[q] \in Seq(STRING)
  BY <1>1, <1>2
<1>4. 0 \in T
  <2>1. SubSeq(text, q + 1, q) = <<>>
    BY <1>1, SubSeqEmpty
  <2>2. q - 0 = q /\ 0 \in 0 .. q - p
    BY <1>1
  <2>3. <<>> \o g[q] = g[q]
    BY <1>3, ConcatEmptySeq
  <2> QED BY <2>1, <2>2, <2>3
<1>5. ASSUME NEW k \in 1 .. q - p, k - 1 \in T PROVE k \in T
  <2> DEFINE x == q - k
             rest == SubSeq(text, x + 2, q)
             c == <<text[x + 1]>>
  <2>1. /\ x \in p .. q - 1 /\ x \in 0 .. L /\ q - (k - 1) = x + 1 /\ x + 1 \in 1 .. L
        /\ q \in x + 1 .. L /\ (x + 1) + 1 = x + 2 /\ k \in 0 .. q - p
    BY <1>1
  <2> HIDE DEF x
  <2>2. g[x + 1] = rest \o g[q]
    BY <1>5, <2>1
  <2>3. g[x] = <<>> \o c \o g[x + 1]
    BY <1>2, <2>1
  <2>4. c \in Seq(STRING)
    <3>1. text[x + 1] \in STRING
      BY <2>1 DEF L
    <3> QED BY <3>1
  <2>5. rest \in Seq(STRING)
    <3>1. \A i \in x + 2 .. q : text[i] \in STRING
      BY <1>1, <2>1 DEF L
    <3> QED BY <1>1, <2>1, <3>1, SubSeqProperties
  <2>6. SubSeq(text, x + 1, q) = c \o rest
    BY <2>1, SubSeqRecursiveFirst DEF L
  <2> HIDE DEF c, rest
  <2>7. <<>> \o c = c
    BY <2>4, ConcatEmptySeq
  <2>8. g[x] = SubSeq(text, x + 1, q) \o g[q]
    <3>1. c \o (rest \o g[q]) = (c \o rest) \o g[q]
      BY <1>3, <2>4, <2>5, Associative, Zenon
    <3> QED BY <2>2, <2>3, <2>6, <2>7, <3>1, Zenon
  <2> QED BY <2>1, <2>8 DEF x
<1> HIDE DEF T
<1>6. q - p \in T
  <2>1. q - p \in 0 .. q - p
    BY <1>1
  <2> QED BY <1>1, <1>4, <1>5, <2>1, Induction
<1>7. q - (q - p) = p
  BY <1>1
<1> QED
  BY <1>6, <1>7 DEF T, g

\* Inside of what an edit replaces nothing is left.
LEMMA ReplacedInside ==
    ASSUME NEW text \in Seq(STRING), NEW es \in Seq(TextEdit(Len(text))),
           NEW q \in 0 .. Len(text), NEW p \in 0 .. q,
           \A x \in p .. q - 1 : InsertedAt(es, x) = <<>> /\ KeptAt(text, es, x) = <<>>
    PROVE  Replaced(text, es)[p] = Replaced(text, es)[q]
<1> DEFINE L == Len(text)
           g == Replaced(text, es)
           T == {k \in 0 .. q - p : g[q - k] = g[q]}
<1>1. L \in Nat /\ q \in Nat /\ p \in Nat /\ q <= L /\ p <= q /\ q - p \in Nat
  OBVIOUS
<1>2. /\ \A x \in 0 .. L + 1 : g[x] \in Seq(STRING)
      /\ \A x \in 0 .. L : g[x] = InsertedAt(es, x) \o KeptAt(text, es, x) \o g[x + 1]
  BY ReplacedSteps
<1> HIDE DEF g, L
<1>3. 0 \in T
  BY <1>1
<1>4. ASSUME NEW k \in 1 .. q - p, k - 1 \in T PROVE k \in T
  <2> DEFINE x == q - k
  <2>1. x \in p .. q - 1 /\ x \in 0 .. L /\ x + 1 \in 0 .. L + 1 /\ q - (k - 1) = x + 1 /\ k \in 0 .. q - p
    BY <1>1
  <2>2. g[x] = <<>> \o <<>> \o g[x + 1]
    BY <1>2, <2>1
  <2>3. g[x + 1] \in Seq(STRING) /\ <<>> \in Seq(STRING)
    BY <1>2, <2>1, EmptySeq
  <2>4. g[x] = g[x + 1]
    BY <2>2, <2>3, ConcatEmptySeq
  <2>5. g[x + 1] = g[q]
    BY <1>4, <2>1
  <2> QED BY <2>1, <2>4, <2>5
<1> HIDE DEF T
<1>5. q - p \in T
  <2>1. q - p \in 0 .. q - p
    BY <1>1
  <2> QED BY <1>1, <1>3, <1>4, <2>1, Induction
<1>6. q - (q - p) = p
  BY <1>1
<1> QED
  BY <1>5, <1>6 DEF T, g

Upto(text, m) == IF m > Len(text) THEN Len(text) ELSE m

\* Edit i is the last one before m.
LastBefore(text, es, i, m) ==
    /\ m \in 0 .. Len(text) + 1
    /\ es[i].from < m /\ es[i].to <= m
    /\ \A j \in DOMAIN es : es[j].from <= es[i].from \/ m <= es[j].from

\* What is inserted and kept from its place on.
LEMMA EditPieces ==
    ASSUME NEW text \in Seq(STRING), NEW es \in Seq(TextEdit(Len(text))), Disjoint(es),
           NEW i \in DOMAIN es, NEW m, LastBefore(text, es, i, m)
    PROVE  /\ InsertedAt(es, es[i].from) = es[i].new
           /\ \A x \in es[i].from + 1 .. m - 1 : InsertedAt(es, x) = <<>>
           /\ \A x \in es[i].from .. es[i].to - 1 : KeptAt(text, es, x) = <<>>
           /\ \A x \in es[i].to .. Upto(text, m) - 1 : KeptAt(text, es, x) = <<text[x + 1]>>
<1> DEFINE L == Len(text)
           e == es[i]
<1>1. L \in Nat /\ m \in 0 .. L + 1 /\ e.from < m /\ e.to <= m
  BY DEF LastBefore
<1>2. \A j \in DOMAIN es : /\ es[j].from \in 0 .. L /\ es[j].to \in 0 .. L
                           /\ es[j].from <= es[j].to
  <2>1. \A j \in DOMAIN es : es[j] \in TextEdit(L)
    OBVIOUS
  <2> QED BY <2>1 DEF TextEdit
<1>3. \A j \in DOMAIN es : es[j].from <= e.from \/ m <= es[j].from
  BY DEF LastBefore
<1>4. \A j \in DOMAIN es : j # i => es[j].from # e.from /\ (es[j].from < e.from => es[j].to <= e.from)
  BY DEF Disjoint
<1>5. InsertedAt(es, e.from) = e.new
  <2> DEFINE at == {j \in DOMAIN es : es[j].from = e.from}
  <2>1. at = {i}
    BY <1>4
  <2>2. InsertedAt(es, e.from) = IF at = {} THEN <<>> ELSE es[CHOOSE j \in at : TRUE].new
    BY DEF InsertedAt
  <2> HIDE DEF at
  <2>3. (CHOOSE j \in at : TRUE) = i
    BY <2>1
  <2> QED BY <2>1, <2>2, <2>3
<1>6. ASSUME NEW x \in e.from + 1 .. m - 1 PROVE InsertedAt(es, x) = <<>>
  <2> DEFINE at == {j \in DOMAIN es : es[j].from = x}
  <2>1. x \in Int /\ e.from < x /\ x < m
    BY <1>1, <1>2
  <2>2. ASSUME NEW j \in DOMAIN es PROVE es[j].from # x
    BY <1>1, <1>2, <1>3, <2>1
  <2>3. at = {}
    BY <2>2
  <2> QED BY <2>3 DEF InsertedAt
<1>7. ASSUME NEW x \in e.from .. e.to - 1 PROVE KeptAt(text, es, x) = <<>>
  <2>1. x \in es[i].from .. es[i].to - 1
    OBVIOUS
  <2> QED BY <2>1 DEF KeptAt
<1>8. ASSUME NEW x \in e.to .. Upto(text, m) - 1 PROVE KeptAt(text, es, x) = <<text[x + 1]>>
  <2>1. x \in Int /\ e.to <= x /\ x < m /\ x < L
    BY <1>1, <1>2 DEF Upto
  <2>2. ASSUME NEW j \in DOMAIN es PROVE x \notin es[j].from .. es[j].to - 1
    <3>1. CASE j = i
      BY <1>2, <2>1, <3>1
    <3>2. CASE j # i /\ es[j].from < e.from
      <4>1. es[j].to <= e.from /\ e.from <= e.to
        BY <1>2, <1>4, <3>2
      <4> QED BY <1>2, <2>1, <4>1
    <3>3. CASE j # i /\ ~(es[j].from < e.from)
      <4>1. m <= es[j].from
        BY <1>2, <1>3, <1>4, <3>3
      <4> QED BY <1>1, <1>2, <2>1, <4>1
    <3> QED BY <3>1, <3>2, <3>3
  <2> QED BY <2>1, <2>2 DEF KeptAt
<1> QED
  BY <1>5, <1>6, <1>7, <1>8

\* What the text from there on becomes.
LEMMA ReplacedEdit ==
    ASSUME NEW text \in Seq(STRING), NEW es \in Seq(TextEdit(Len(text))), Disjoint(es),
           NEW i \in DOMAIN es, NEW m, LastBefore(text, es, i, m)
    PROVE  LET g == Replaced(text, es) IN
           g[es[i].from] = es[i].new \o (SubSeq(text, es[i].to + 1, Upto(text, m)) \o g[m])
<1> DEFINE L == Len(text)
           g == Replaced(text, es)
           from == es[i].from
           to == es[i].to
           new == es[i].new
           q == Upto(text, m)
<1>1. L \in Nat /\ m \in 0 .. L + 1 /\ from < m /\ to <= m
  BY DEF LastBefore
<1>2. from \in 0 .. L /\ to \in 0 .. L /\ from <= to /\ new \in Seq(STRING)
  <2>1. es[i] \in TextEdit(L)
    OBVIOUS
  <2> QED BY <2>1 DEF TextEdit
<1>3. q \in 0 .. L /\ to <= q
  BY <1>1, <1>2 DEF Upto
<1>4. /\ \A p \in 0 .. L + 1 : g[p] \in Seq(STRING)
      /\ \A p \in 0 .. L : g[p] = InsertedAt(es, p) \o KeptAt(text, es, p) \o g[p + 1]
      /\ g[L + 1] = <<>>
  BY ReplacedSteps
<1>5. /\ InsertedAt(es, from) = new
      /\ \A x \in from + 1 .. m - 1 : InsertedAt(es, x) = <<>>
      /\ \A x \in from .. to - 1 : KeptAt(text, es, x) = <<>>
      /\ \A x \in to .. q - 1 : KeptAt(text, es, x) = <<text[x + 1]>>
  BY EditPieces
<1>6. ASSUME NEW p \in from + 1 .. q, to <= p PROVE g[p] = SubSeq(text, p + 1, q) \o g[q]
  <2>1. p \in 0 .. q
    BY <1>1, <1>2
  <2>2. ASSUME NEW x \in p .. q - 1
        PROVE  InsertedAt(es, x) = <<>> /\ KeptAt(text, es, x) = <<text[x + 1]>>
    <3>1. x \in from + 1 .. m - 1 /\ x \in to .. q - 1
      BY <1>1, <1>2, <1>3, <1>6 DEF Upto
    <3> QED BY <1>5, <3>1
  <2> QED BY <1>3, <2>1, <2>2, ReplacedGap
<1>7. SubSeq(text, to + 1, q) \in Seq(STRING)
  <2>1. \A k \in to + 1 .. q : text[k] \in STRING
    BY <1>1, <1>2, <1>3
  <2> QED BY <1>2, <1>3, <2>1, SubSeqProperties
<1>8. g[from] = InsertedAt(es, from) \o KeptAt(text, es, from) \o g[from + 1] /\ from + 1 \in 0 .. L + 1
  <2>1. from \in 0 .. L /\ from + 1 \in 0 .. L + 1
    BY <1>1, <1>2
  <2> HIDE DEF g, from
  <2> QED BY <1>4, <2>1
<1>9. new \o <<>> = new
  BY <1>2, ConcatEmptySeq
<1>10. CASE from = L
  <2>1. m = L + 1 /\ to = L /\ q = L
    BY <1>1, <1>2, <1>10 DEF Upto
  <2>2. SubSeq(text, to + 1, q) = <<>>
    BY <1>1, <2>1, SubSeqEmpty
  <2>3. KeptAt(text, es, from) = <<>>
    BY <1>1, <1>10 DEF KeptAt
  <2>4. <<>> \o <<>> = <<>>
    BY ConcatEmptySeq
  <2>5. g[from] = new \o <<>> \o <<>>
    BY <1>4, <1>5, <1>8, <1>10, <2>3
  <2> HIDE DEF g, new, from, to, q
  <2> QED BY <1>4, <1>9, <2>1, <2>2, <2>4, <2>5 DEF g, new, from, to, q
<1>11. CASE from # L
  <2>1. from < L /\ from + 1 \in 0 .. L /\ from + 1 <= q
    BY <1>1, <1>2, <1>11 DEF Upto
  <2>2. g[q] = g[m]
    <3>1. CASE m = q
      BY <3>1
    <3>2. CASE m # q
      <4>1. m = L + 1 /\ q = L /\ L \in from + 1 .. m - 1
        BY <1>1, <2>1, <3>2 DEF Upto
      <4>2. InsertedAt(es, L) = <<>>
        BY <1>5, <4>1
      <4>3. KeptAt(text, es, L) = <<>>
        BY <1>1 DEF KeptAt
      <4>4. L \in 0 .. L
        BY <1>1
      <4> HIDE DEF g
      <4>5. g[L] = <<>> \o <<>> \o g[L + 1]
        BY <1>4, <4>2, <4>3, <4>4
      <4>6. \A s \in Seq(STRING) : <<>> \o s = s
        BY ConcatEmptySeq
      <4>7. <<>> \in Seq(STRING)
        OBVIOUS
      <4>8. g[L] = <<>>
        BY <1>4, <4>5, <4>6, <4>7
      <4> QED BY <1>4, <4>1, <4>8
    <3> QED BY <3>1, <3>2
  <2>3. CASE from < to
    <3>1. KeptAt(text, es, from) = <<>>
      BY <1>2, <1>5, <2>3
    <3>2. g[from + 1] = g[to]
      <4>1. from + 1 \in 0 .. to
        BY <1>2, <2>3
      <4>2. ASSUME NEW x \in from + 1 .. to - 1
            PROVE  InsertedAt(es, x) = <<>> /\ KeptAt(text, es, x) = <<>>
        <5>1. x \in from + 1 .. m - 1 /\ x \in from .. to - 1
          BY <1>1, <1>2
        <5> QED BY <1>5, <5>1
      <4> QED BY <1>2, <4>1, <4>2, ReplacedInside
    <3>3. g[to] = SubSeq(text, to + 1, q) \o g[q]
      <4>1. to \in from + 1 .. q /\ to <= to
        BY <1>2, <1>3, <2>3
      <4> QED BY <1>6, <4>1
    <3>4. g[from] = new \o <<>> \o g[from + 1]
      BY <1>5, <1>8, <3>1
    <3> HIDE DEF g, new, from, to, q
    <3> QED BY <1>9, <2>2, <3>2, <3>3, <3>4 DEF g, new, from, to, q
  <2>4. CASE from = to
    <3> DEFINE c == <<text[from + 1]>>
               rest == SubSeq(text, from + 2, q)
    <3>1. KeptAt(text, es, from) = c
      <4>1. from \in to .. q - 1
        BY <1>2, <1>3, <2>1, <2>4
      <4> QED BY <1>5, <4>1
    <3>2. g[from + 1] = rest \o g[q]
      <4>1. from + 1 \in from + 1 .. q /\ to <= from + 1 /\ (from + 1) + 1 = from + 2
        BY <1>2, <1>3, <2>1, <2>4
      <4> QED BY <1>6, <4>1
    <3>3. SubSeq(text, to + 1, q) = c \o rest
      <4>1. from + 1 \in 1 .. L /\ q \in from + 1 .. L /\ (from + 1) + 1 = from + 2
        BY <1>2, <1>3, <2>1
      <4> QED BY <2>4, <4>1, SubSeqRecursiveFirst
    <3>4. c \in Seq(STRING) /\ rest \in Seq(STRING) /\ g[q] \in Seq(STRING)
      <4>1. text[from + 1] \in STRING /\ \A k \in from + 2 .. q : text[k] \in STRING
        BY <1>1, <1>2, <1>3, <2>1, SMTT(30)
      <4>2. rest \in Seq(STRING)
        BY <1>2, <1>3, <4>1, SubSeqProperties
      <4>3. c \in Seq(STRING)
        BY <4>1
      <4>4. q \in 0 .. L + 1
        BY <1>1, <1>3
      <4> QED BY <1>4, <4>2, <4>3, <4>4
    <3>5. g[from] = new \o c \o g[from + 1]
      BY <1>5, <1>8, <3>1
    <3> HIDE DEF c, rest, g, new, from, to, q
    <3>6. g[from + 1] \in Seq(STRING)
      BY <3>2, <3>4, ConcatProperties
    <3>7. g[from] = new \o (c \o (rest \o g[q]))
      <4>1. (new \o c) \o g[from + 1] = new \o (c \o g[from + 1])
        BY <1>2, <3>4, <3>6, Associative, ZenonT(30)
      <4> QED BY <3>2, <3>5, <4>1, Zenon
    <3>8. c \o (rest \o g[q]) = (c \o rest) \o g[q]
      BY <3>4, Associative, Zenon
    <3> QED BY <2>2, <3>3, <3>7, <3>8, Zenon DEF g, new, from, to, q
  <2>5. from < to \/ from = to
    BY <1>2
  <2> QED BY <2>3, <2>4, <2>5, Zenon
<1> QED
  BY <1>10, <1>11

\* Before the first edit, and behind the text, nothing changes.
LEMMA ReplacedFirst ==
    ASSUME NEW text \in Seq(STRING), NEW es \in Seq(TextEdit(Len(text))),
           NEW m \in 0 .. Len(text) + 1, \A j \in DOMAIN es : m <= es[j].from
    PROVE  Replaced(text, es)[0] = SubSeq(text, 1, Upto(text, m)) \o Replaced(text, es)[m]
<1> DEFINE L == Len(text)
           g == Replaced(text, es)
           q == Upto(text, m)
<1>1. L \in Nat /\ m \in 0 .. L + 1 /\ q \in 0 .. L /\ q <= m /\ L \in 0 .. L
  BY DEF Upto
<1>2. \A j \in DOMAIN es : es[j].from \in 0 .. L /\ es[j].to \in 0 .. L /\ m <= es[j].from
  <2>1. \A j \in DOMAIN es : es[j] \in TextEdit(L)
    OBVIOUS
  <2> QED BY <2>1 DEF TextEdit
<1>3. ASSUME NEW x \in 0 .. m - 1 PROVE InsertedAt(es, x) = <<>>
  <2>1. \A j \in DOMAIN es : es[j].from # x
    BY <1>1, <1>2
  <2>2. {j \in DOMAIN es : es[j].from = x} = {}
    BY <2>1
  <2> QED BY <2>2 DEF InsertedAt
<1>4. ASSUME NEW x \in 0 .. q - 1
      PROVE  InsertedAt(es, x) = <<>> /\ KeptAt(text, es, x) = <<text[x + 1]>>
  <2>1. x < L /\ x \in 0 .. m - 1
    BY <1>1
  <2>2. \A j \in DOMAIN es : x \notin es[j].from .. es[j].to - 1
    BY <1>1, <1>2, <2>1
  <2> QED BY <1>3, <2>1, <2>2 DEF KeptAt
<1>5. /\ \A p \in 0 .. L + 1 : g[p] \in Seq(STRING)
      /\ \A p \in 0 .. L : g[p] = InsertedAt(es, p) \o KeptAt(text, es, p) \o g[p + 1]
      /\ g[L + 1] = <<>>
  BY ReplacedSteps
<1>6. g[0] = SubSeq(text, 1, q) \o g[q]
  <2>1. 0 \in 0 .. q /\ 0 + 1 = 1
    BY <1>1
  <2>2. g[0] = SubSeq(text, 0 + 1, q) \o g[q]
    BY <1>1, <1>4, <2>1, ReplacedGap
  <2> QED BY <2>1, <2>2
<1>7. g[q] = g[m]
  <2>1. CASE m = q
    BY <2>1
  <2>2. CASE m # q
    <3>1. m = L + 1 /\ q = L /\ L \in 0 .. m - 1
      BY <1>1, <2>2 DEF Upto
    <3>2. InsertedAt(es, L) = <<>>
      BY <1>3, <3>1
    <3>3. KeptAt(text, es, L) = <<>>
      BY <1>1 DEF KeptAt
    <3> HIDE DEF g
    <3>4. g[L] = <<>> \o <<>> \o g[L + 1]
      BY <1>1, <1>5, <3>2, <3>3
    <3>5. (\A s \in Seq(STRING) : <<>> \o s = s) /\ <<>> \in Seq(STRING)
      BY ConcatEmptySeq
    <3>6. g[L] = <<>>
      BY <1>5, <3>4, <3>5
    <3> QED BY <1>5, <3>1, <3>6
  <2> QED BY <2>1, <2>2
<1> QED
  BY <1>6, <1>7

\* Parts of two texts, one behind the other.
LEMMA PartsOfConcat ==
    ASSUME NEW a \in Seq(STRING), NEW b \in Seq(STRING), NEW i \in 0 .. Len(a)
    PROVE  /\ SubSeq(a \o b, 1, i) = SubSeq(a, 1, i)
           /\ SubSeq(a \o b, i + 1, Len(a \o b)) = SubSeq(a, i + 1, Len(a)) \o b
<1> DEFINE n == Len(a)
           c == a \o b
           N == Len(c)
<1>1. n \in Nat /\ i \in 0 .. n /\ Len(b) \in Nat
  OBVIOUS
<1>2. c \in Seq(STRING) /\ N = n + Len(b) /\ N \in Nat
  BY ConcatProperties
<1>3. \A k \in 1 .. N : c[k] = IF k <= n THEN a[k] ELSE b[k - n]
  BY ConcatProperties
<1>4. SubSeq(c, 1, i) = SubSeq(a, 1, i)
  <2>1. CASE i = 0
    <3>1. SubSeq(c, 1, i) = <<>> /\ SubSeq(a, 1, i) = <<>>
      BY <2>1, SubSeqEmpty
    <3> QED BY <3>1
  <2>2. CASE i # 0
    <3>1. 1 \in 1 .. Len(a) /\ i \in 1 .. Len(a)
      BY <1>1, <2>2
    <3> QED BY <3>1, SubSeqOfConcat1
  <2> QED BY <2>1, <2>2
<1>5. SubSeq(c, i + 1, N) = SubSeq(a, i + 1, n) \o b
  <2>1. SubSeq(c, i + 1, n) = SubSeq(a, i + 1, n)
    <3>1. CASE i = n
      <4>1. n < i + 1 /\ i + 1 \in Int /\ n \in Int
        BY <1>1, <3>1
      <4>2. SubSeq(c, i + 1, n) = <<>> /\ SubSeq(a, i + 1, n) = <<>>
        BY <4>1, SubSeqEmpty
      <4> QED BY <4>2
    <3>2. CASE i # n
      <4>1. i + 1 \in 1 .. Len(a) /\ n \in 1 .. Len(a)
        BY <1>1, <3>2
      <4> QED BY <4>1, SubSeqOfConcat1
    <3> QED BY <3>1, <3>2
  <2>2. SubSeq(c, n + 1, N) = b
    <3>1. CASE Len(b) = 0
      <4>1. b = <<>> /\ N < n + 1 /\ n + 1 \in Int /\ N \in Int
        BY <1>1, <1>2, <3>1
      <4> QED BY <4>1, SubSeqEmpty
    <3>2. CASE Len(b) # 0
      <4>1. /\ n + 1 \in Len(a) + 1 .. Len(a) + Len(b) /\ N \in Len(a) + 1 .. Len(a) + Len(b)
            /\ n + 1 - Len(a) = 1 /\ N - Len(a) = Len(b)
        BY <1>1, <1>2, <3>2
      <4>2. SubSeq(c, n + 1, N) = SubSeq(b, n + 1 - Len(a), N - Len(a))
        BY <4>1, SubSeqOfConcat2
      <4>3. SubSeq(b, 1, Len(b)) = b
        BY SubSeqFull
      <4> QED BY <4>1, <4>2, <4>3
    <3> QED BY <3>1, <3>2
  <2>3. SubSeq(c, i + 1, n) \o SubSeq(c, n + 1, N) = SubSeq(c, i + 1, N)
    <3>1. i + 1 \in 1 .. Len(c) + 1 /\ n \in (i + 1) - 1 .. Len(c) /\ N \in n .. Len(c)
      BY <1>1, <1>2
    <3> HIDE DEF c, n, N
    <3> QED BY <1>2, <3>1, ConcatAdjacentSubSeq
  <2> QED BY <2>1, <2>2, <2>3
<1> QED
  BY <1>4, <1>5

\* The text before the m-th place, as it was, and what the rest becomes.
Half(text, es, m) == SubSeq(text, 1, Upto(text, m)) \o Replaced(text, es)[m]

\* Its parts, and what the last edit before m makes of it.
LEMMA HalfType ==
    ASSUME NEW text \in Seq(STRING), NEW es \in Seq(TextEdit(Len(text))), NEW m \in 0 .. Len(text) + 1
    PROVE  /\ SubSeq(text, 1, Upto(text, m)) \in Seq(STRING)
           /\ Len(SubSeq(text, 1, Upto(text, m))) = Upto(text, m)
           /\ Replaced(text, es)[m] \in Seq(STRING)
           /\ Half(text, es, m) \in Seq(STRING)
           /\ Len(Half(text, es, m)) = Upto(text, m) + Len(Replaced(text, es)[m])
<1> DEFINE q == Upto(text, m)
           a == SubSeq(text, 1, q)
           b == Replaced(text, es)[m]
<1>1. q \in Nat /\ q <= Len(text)
  BY DEF Upto
<1>2. b \in Seq(STRING)
  BY ReplacedSteps
<1>3. a \in Seq(STRING) /\ Len(a) = q
  <2>1. \A k \in 1 .. q : text[k] \in STRING
    BY <1>1
  <2>2. a \in Seq(STRING) /\ Len(a) = IF 1 <= q THEN q - 1 + 1 ELSE 0
    BY <1>1, <2>1, SubSeqProperties
  <2> QED BY <1>1, <2>2
<1>4. Half(text, es, m) = a \o b
  BY DEF Half
<1> HIDE DEF a, b, q
<1>5. a \o b \in Seq(STRING) /\ Len(a \o b) = Len(a) + Len(b)
  BY <1>2, <1>3, ConcatProperties
<1> QED
  BY <1>2, <1>3, <1>4, <1>5 DEF a, b, q

\* An edit is in the part of the text that is not changed yet.
LEMMA HalfEdited ==
    ASSUME NEW text \in Seq(STRING), NEW es \in Seq(TextEdit(Len(text))), Disjoint(es),
           NEW i \in DOMAIN es, NEW m, LastBefore(text, es, i, m)
    PROVE  LET h == Half(text, es, m)
           IN  /\ es[i].from \in 0 .. Len(text)
               /\ es[i].to \in es[i].from .. Len(h)
               /\ SubSeq(h, 1, es[i].from) \o es[i].new \o SubSeq(h, es[i].to + 1, Len(h))
                      = Half(text, es, es[i].from)
<1> DEFINE L == Len(text)
           g == Replaced(text, es)
           from == es[i].from
           to == es[i].to
           new == es[i].new
           q == Upto(text, m)
           a == SubSeq(text, 1, q)
           h == Half(text, es, m)
           before == SubSeq(text, 1, from)
           rest == SubSeq(text, to + 1, q)
<1>1. L \in Nat /\ m \in 0 .. L + 1 /\ from < m /\ to <= m
  BY DEF LastBefore
<1>2. from \in 0 .. L /\ to \in 0 .. L /\ from <= to /\ new \in Seq(STRING)
  <2>1. es[i] \in TextEdit(L)
    OBVIOUS
  <2> QED BY <2>1 DEF TextEdit
<1>3. q \in 0 .. L /\ to <= q /\ Upto(text, from) = from
  BY <1>1, <1>2 DEF Upto
<1>4. /\ a \in Seq(STRING) /\ Len(a) = q /\ g[m] \in Seq(STRING)
      /\ h \in Seq(STRING) /\ Len(h) = q + Len(g[m]) /\ h = a \o g[m]
  BY <1>1, HalfType DEF Half
<1>5. /\ before \in Seq(STRING) /\ Half(text, es, from) = before \o g[from]
  <2>1. from \in 0 .. L + 1
    BY <1>2
  <2> QED BY <1>3, <2>1, HalfType DEF Half
<1>6. to \in from .. Len(h)
  <2>1. Len(g[m]) \in Nat
    BY <1>4
  <2> HIDE DEF g, h, q
  <2> QED BY <1>2, <1>3, <1>4, <2>1
<1>7. SubSeq(h, 1, from) = before
  <2>1. from \in 0 .. Len(a)
    BY <1>2, <1>3, <1>4
  <2>2. SubSeq(h, 1, from) = SubSeq(a, 1, from)
    <3> HIDE DEF a, g, h, from
    <3> QED BY <1>4, <2>1, PartsOfConcat
  <2>3. SubSeq(a, 1, from) = before
    <3>1. CASE from = 0
      <4>1. SubSeq(a, 1, from) = <<>> /\ before = <<>>
        BY <3>1, SubSeqEmpty
      <4> QED BY <4>1
    <3>2. CASE from # 0
      <4>1. 1 \in 1 .. L /\ q \in 1 .. L /\ 1 \in 1 .. q - 1 + 1 /\ from \in 1 .. q - 1 + 1
            /\ 1 + 1 - 1 = 1 /\ 1 + from - 1 = from
        BY <1>1, <1>2, <1>3, <3>2
      <4> HIDE DEF from, q
      <4>2. SubSeq(a, 1, from) = SubSeq(text, 1 + 1 - 1, 1 + from - 1)
        BY <4>1, SubSeqOfSubSeq
      <4> QED BY <4>1, <4>2
    <3> QED BY <3>1, <3>2
  <2> QED BY <2>2, <2>3
<1>8. SubSeq(h, to + 1, Len(h)) = rest \o g[m]
  <2>1. to \in 0 .. Len(a)
    BY <1>2, <1>3, <1>4
  <2>2. SubSeq(h, to + 1, Len(h)) = SubSeq(a, to + 1, q) \o g[m]
    <3> HIDE DEF a, g, h, to, q
    <3> QED BY <1>4, <2>1, PartsOfConcat
  <2>3. SubSeq(a, to + 1, q) = rest
    <3>1. CASE to = q
      <4>1. q < to + 1 /\ to + 1 \in Int /\ q \in Int
        BY <1>2, <1>3, <3>1
      <4>2. SubSeq(a, to + 1, q) = <<>> /\ rest = <<>>
        BY <4>1, SubSeqEmpty
      <4> QED BY <4>2
    <3>2. CASE to # q
      <4>1. 1 \in 1 .. L /\ q \in 1 .. L /\ to + 1 \in 1 .. q - 1 + 1 /\ q \in 1 .. q - 1 + 1
            /\ 1 + (to + 1) - 1 = to + 1 /\ 1 + q - 1 = q
        BY <1>1, <1>2, <1>3, <3>2
      <4> HIDE DEF to, q
      <4>2. SubSeq(a, to + 1, q) = SubSeq(text, 1 + (to + 1) - 1, 1 + q - 1)
        BY <4>1, SubSeqOfSubSeq, SMTT(30)
      <4> QED BY <4>1, <4>2
    <3> QED BY <3>1, <3>2
  <2> QED BY <2>2, <2>3
<1>9. rest \in Seq(STRING)
  <2>1. \A k \in to + 1 .. q : text[k] \in STRING
    BY <1>1, <1>2, <1>3
  <2> QED BY <1>2, <1>3, <2>1, SubSeqProperties
<1>10. g[from] = new \o (rest \o g[m])
  BY ReplacedEdit
<1>11. rest \o g[m] \in Seq(STRING)
  BY <1>4, <1>9, ConcatProperties
<1> HIDE DEF g, from, to, new, h, before, rest
<1>12. (before \o new) \o (rest \o g[m]) = before \o (new \o (rest \o g[m]))
  BY <1>2, <1>5, <1>11, Associative, Zenon
<1>13. SubSeq(h, 1, from) \o new \o SubSeq(h, to + 1, Len(h)) = Half(text, es, from)
  BY <1>5, <1>7, <1>8, <1>10, <1>12, Zenon
<1> QED
  BY <1>2, <1>6, <1>13, Zenon DEF from, to, new, h, L

\* A text and its carets.
Buffer == [text : Seq(STRING), carets : SUBSET Int]

\* Edits as they are made: each once, from the end of the text.
LEMMA EditOrder ==
    ASSUME NEW n \in Nat, NEW es \in Seq(TextEdit(n)), Disjoint(es)
    PROVE  LET o == SortEdits(es)
           IN  /\ o \in [1 .. Len(es) -> 1 .. Len(es)]
               /\ \A k, m \in 1 .. Len(es) : k < m => es[o[m]].from < es[o[k]].from
               /\ \A i \in 1 .. Len(es) : \E k \in 1 .. Len(es) : o[k] = i
<1> DEFINE S == 1 .. Len(es)
           R == {p \in S \X S : Before(es, p[1], p[2])}
<1>1. SortEdits(es) = InOrder(S, R)
  <2>1. DOMAIN es = S
    OBVIOUS
  <2> QED BY <2>1, Zenon DEF SortEdits
<1>2. \A i \in S : es[i].from \in Int
  <2>1. \A i \in S : es[i] \in TextEdit(n)
    OBVIOUS
  <2> QED BY <2>1 DEF TextEdit
<1>3. \A i, j \in S : i = j \/ es[i].from # es[j].from
  BY DEF Disjoint
<1>4. \A i, j \in S : <<i, j>> \in R <=> es[j].from < es[i].from
  <2> SUFFICES ASSUME NEW i \in S, NEW j \in S
               PROVE  Before(es, i, j) <=> es[j].from < es[i].from
    OBVIOUS
  <2>1. CASE i = j
    BY <1>2, <2>1 DEF Before
  <2>2. CASE i # j
    BY <1>2, <1>3, <2>2 DEF Before
  <2> QED BY <2>1, <2>2
<1> HIDE DEF R
<1>5. IsFiniteSet(S) /\ Cardinality(S) = Len(es)
  <2>1. 1 \in Int /\ Len(es) \in Int
    OBVIOUS
  <2>2. IsFiniteSet(S) /\ Cardinality(S) = IF 1 > Len(es) THEN 0 ELSE Len(es) - 1 + 1
    BY <2>1, FS_Interval
  <2> QED BY <2>1, <2>2
<1> HIDE DEF S
<1>6. Order(S, R)
  <2>1. \A i, j \in S : i = j \/ es[i].from < es[j].from \/ es[j].from < es[i].from
    BY <1>2, <1>3
  <2>2. \A i, j, k \in S : es[j].from < es[i].from /\ es[k].from < es[j].from => es[k].from < es[i].from
    BY <1>2
  <2>3. \A i \in S : ~(es[i].from < es[i].from)
    BY <1>2
  <2> QED BY <1>4, <1>5, <2>1, <2>2, <2>3 DEF Order
<1>7. LET o == InOrder(S, R)
      IN  /\ o \in [1 .. Len(es) -> S]
          /\ \A k, m \in 1 .. Len(es) : k < m => <<o[k], o[m]>> \in R
          /\ \A i \in S : \E k \in 1 .. Len(es) : o[k] = i
  BY <1>5, <1>6, InOrderSorts
<1> DEFINE o == InOrder(S, R)
<1> HIDE DEF o
<1>8. \A k, m \in 1 .. Len(es) : k < m => es[o[m]].from < es[o[k]].from
  <2>1. \A k \in 1 .. Len(es) : o[k] \in S
    BY <1>7 DEF o
  <2> QED BY <1>4, <1>7, <2>1 DEF o
<1> QED
  BY <1>1, <1>7, <1>8 DEF S, o

\* What edits[i] means when its text is taken for a snippet or not, as an edit of plain.
Means(es, plain, i, snippet) ==
    /\ plain[i].from = es[i].from /\ plain[i].to = es[i].to
    /\ plain[i].new = NewText(es[i], snippet).text
    /\ NewText(es[i], snippet).carets \in SUBSET Int

\* r is what one edit, which is i of plain, makes of buf.
MadeOnce(text, plain, i, new, setCursor, buf, r) ==
    /\ r \in Buffer
    /\ r.text = Half(text, plain, plain[i].from)
    /\ setCursor => r.carets = {plain[i].from + k : k \in new.carets}
    /\ \A c \in Int : ~setCursor /\ buf.carets = {c} /\ plain[i].to < c =>
           r.carets = {c + (Len(r.text) - Len(buf.text))}
    /\ plain[i].from - plain[i].to <= Len(r.text) - Len(buf.text)

\* One edit.
LEMMA EditOnce ==
    ASSUME NEW text \in Seq(STRING), NEW plain \in Seq(TextEdit(Len(text))), Disjoint(plain),
           NEW i \in DOMAIN plain, NEW m, LastBefore(text, plain, i, m),
           NEW es, NEW snippet \in BOOLEAN, Means(es, plain, i, snippet),
           NEW buf \in Buffer, buf.text = Half(text, plain, m), NEW setCursor \in BOOLEAN
    PROVE  MadeOnce(text, plain, i, NewText(es[i], snippet), setCursor, buf,
                    ApplyTextEdit(buf, es[i], snippet, setCursor))
<1> DEFINE L == Len(text)
           r == ApplyTextEdit(buf, es[i], snippet, setCursor)
           from == plain[i].from
           to == plain[i].to
           new == plain[i].new
           h == buf.text
           N == Len(h)
           moved(c) == CaretMoved(c, es[i], Len(new))
<1>1. /\ L \in Nat /\ from \in 0 .. L /\ to \in from .. N /\ N \in Nat
      /\ h \in Seq(STRING) /\ new \in Seq(STRING) /\ Len(new) \in Nat
  <2>1. h \in Seq(STRING)
    BY DEF Buffer
  <2>2. plain[i] \in TextEdit(L)
    OBVIOUS
  <2>3. new \in Seq(STRING)
    BY <2>2 DEF TextEdit
  <2>4. from \in 0 .. L /\ to \in from .. N
    BY HalfEdited
  <2> QED BY <2>1, <2>3, <2>4
<1>2. /\ r.text = SubSeq(h, 1, from) \o new \o SubSeq(h, to + 1, N)
      /\ r.carets = IF setCursor THEN {from + k : k \in NewText(es[i], snippet).carets}
                    ELSE {moved(k) : k \in buf.carets}
      /\ r = [text |-> r.text, carets |-> r.carets]
  BY DEF ApplyTextEdit, Means
<1>3. r.text = Half(text, plain, from)
  <2>1. LET t == Half(text, plain, m)
        IN  SubSeq(t, 1, from) \o new \o SubSeq(t, to + 1, Len(t)) = Half(text, plain, from)
    BY HalfEdited
  <2> HIDE DEF r, from, to, new
  <2> QED BY <1>2, <2>1, Zenon
<1> HIDE DEF r
<1>4. /\ SubSeq(h, 1, from) \in Seq(STRING) /\ Len(SubSeq(h, 1, from)) = from
      /\ SubSeq(h, to + 1, N) \in Seq(STRING) /\ Len(SubSeq(h, to + 1, N)) = N - to
  <2> HIDE DEF h, N, from, to
  <2>1. N = Len(h)
    BY DEF N
  <2>2. (\A k \in 1 .. from : h[k] \in STRING) /\ (\A k \in to + 1 .. N : h[k] \in STRING)
    BY <1>1, <2>1
  <2>3. from \in Int /\ to + 1 \in Int /\ N \in Int
    BY <1>1
  <2>4. SubSeq(h, 1, from) \in Seq(STRING) /\ Len(SubSeq(h, 1, from)) = IF 1 <= from THEN from - 1 + 1 ELSE 0
    BY <2>2, <2>3, SubSeqProperties
  <2>5. /\ SubSeq(h, to + 1, N) \in Seq(STRING)
        /\ Len(SubSeq(h, to + 1, N)) = IF to + 1 <= N THEN N - (to + 1) + 1 ELSE 0
    BY <2>2, <2>3, SubSeqProperties
  <2> QED BY <1>1, <2>4, <2>5
<1>5. r.text \in Seq(STRING) /\ Len(r.text) = from + Len(new) + (N - to)
  <2> DEFINE a == SubSeq(h, 1, from)
             b == SubSeq(h, to + 1, N)
  <2> HIDE DEF a, b, new
  <2>1. a \in Seq(STRING) /\ b \in Seq(STRING) /\ Len(a) = from /\ Len(b) = N - to
    BY <1>4 DEF a, b
  <2>2. a \o new \in Seq(STRING) /\ Len(a \o new) = Len(a) + Len(new)
    BY <1>1, <2>1, ConcatProperties
  <2>3. (a \o new) \o b \in Seq(STRING) /\ Len((a \o new) \o b) = Len(a \o new) + Len(b)
    BY <2>1, <2>2, ConcatProperties
  <2>4. r.text = (a \o new) \o b
    BY <1>2 DEF a, b
  <2> HIDE DEF from, to, N
  <2> QED BY <2>1, <2>2, <2>3, <2>4
<1>6. \A c \in Int : moved(c) \in Int /\ (to < c => moved(c) = c + (Len(new) - (to - from)))
  <2> HIDE DEF N
  <2> QED BY <1>1, SMTT(30) DEF CaretMoved, Means
<1> HIDE DEF moved
<1>7. r.carets \in SUBSET Int
  <2>1. buf.carets \in SUBSET Int /\ NewText(es[i], snippet).carets \in SUBSET Int
    BY DEF Buffer, Means
  <2>2. from \in Int
    BY <1>1
  <2> HIDE DEF from
  <2>3. \A k \in NewText(es[i], snippet).carets : from + k \in Int
    BY <2>1, <2>2
  <2>4. \A k \in buf.carets : moved(k) \in Int
    BY <1>6, <2>1
  <2>5. CASE setCursor
    BY <1>2, <2>3, <2>5
  <2>6. CASE ~setCursor
    BY <1>2, <2>4, <2>6
  <2> QED BY <2>5, <2>6
<1>8. ASSUME NEW c \in Int, ~setCursor, buf.carets = {c}, to < c
      PROVE  r.carets = {c + (Len(r.text) - N)}
  <2>1. r.carets = {moved(c)}
    BY <1>2, <1>8
  <2>2. moved(c) = c + (Len(new) - (to - from))
    BY <1>6, <1>8
  <2>3. Len(new) - (to - from) = Len(r.text) - N
    <3> HIDE DEF new, from, to, N
    <3> QED BY <1>1, <1>5
  <2> QED BY <2>1, <2>2, <2>3
<1>9. r \in Buffer
  BY <1>2, <1>5, <1>7 DEF Buffer
<1>10. from - to <= Len(r.text) - N
  <2> HIDE DEF new, from, to, N
  <2> QED BY <1>1, <1>5
<1> QED
  BY <1>2, <1>3, <1>8, <1>9, <1>10 DEF r, MadeOnce

\* h has what the first edits in their order make of buf.
Makes(h, buf, es, main, snippet) ==
    /\ h[0] = buf
    /\ \A k \in 1 .. Len(es) :
           h[k] = ApplyTextEdit(h[k - 1], es[SortEdits(es)[k]], snippet, SortEdits(es)[k] = main)

\* ApplyTextEdits is what its steps make.
LEMMA EditsIterated ==
    ASSUME NEW buf, NEW es, Len(es) \in Nat, NEW main, NEW snippet, NEW h,
           Makes(h, buf, es, main, snippet)
    PROVE  ApplyTextEdits(buf, es, main, snippet) = h[Len(es)]
<1> DEFINE n == Len(es)
           o == SortEdits(es)
           one(b, k) == ApplyTextEdit(b, es[o[k]], snippet, o[k] = main)
           Is(f) == f = [k \in 0 .. n |-> IF k = 0 THEN buf ELSE one(f[k - 1], k)]
           f0 == CHOOSE f : Is(f)
           hh == [k \in 0 .. n |-> h[k]]
           T == {k \in 0 .. n : f0[k] = h[k]}
<1>1. n \in Nat
  OBVIOUS
<1>2. ApplyTextEdits(buf, es, main, snippet) = f0[n]
  BY DEF ApplyTextEdits
<1>3. h[0] = buf /\ \A k \in 1 .. n : h[k] = one(h[k - 1], k)
  BY DEF Makes
<1> HIDE DEF one, n, o
<1>4. Is(hh)
  <2>1. ASSUME NEW k \in 0 .. n PROVE hh[k] = IF k = 0 THEN buf ELSE one(hh[k - 1], k)
    <3>1. CASE k = 0
      BY <1>3, <3>1
    <3>2. CASE k # 0
      <4>1. k \in 1 .. n /\ k - 1 \in 0 .. n
        BY <1>1, <3>2
      <4>2. hh[k - 1] = h[k - 1] /\ hh[k] = h[k]
        BY <4>1
      <4> HIDE DEF hh
      <4> QED BY <1>3, <3>2, <4>1, <4>2
    <3> QED BY <3>1, <3>2
  <2>2. hh = [k \in 0 .. n |-> hh[k]]
    OBVIOUS
  <2> HIDE DEF hh
  <2> QED BY <2>1, <2>2
<1>5. Is(f0)
  <2> HIDE DEF hh, Is
  <2> QED BY <1>4
<1> HIDE DEF f0
<1>6. \A k \in 0 .. n : f0[k] = IF k = 0 THEN buf ELSE one(f0[k - 1], k)
  BY <1>5, Zenon
<1>7. 0 \in T
  <2>1. 0 \in 0 .. n
    BY <1>1
  <2> QED BY <1>3, <1>6, <2>1
<1>8. ASSUME NEW k \in 1 .. n, k - 1 \in T PROVE k \in T
  <2>1. k \in 0 .. n /\ k # 0
    BY <1>1
  <2>2. f0[k - 1] = h[k - 1]
    BY <1>8
  <2>3. f0[k] = one(f0[k - 1], k) /\ h[k] = one(h[k - 1], k)
    BY <1>3, <1>6, <2>1
  <2> QED BY <2>1, <2>2, <2>3
<1> HIDE DEF T
<1>9. n \in T
  <2>1. n \in 0 .. n
    BY <1>1
  <2> QED BY <1>1, <1>7, <1>8, <2>1, Induction
<1> QED
  BY <1>2, <1>9 DEF T, n

\* r is what a list of edits makes, of which main is where the caret goes.
EditsAre(text, es, plain, main, offset, r) ==
    LET becomes == Replaced(text, plain)
    IN  /\ r.text = becomes[0]
        /\ /\ main \in 1 .. Len(es)
           /\ offset > 0 \/ \A i \in 1 .. Len(es) \ {main} : plain[i].to # plain[main].from
           => r.carets = {Len(becomes[0]) - Len(becomes[plain[main].from]) + offset}

\* Any number of edits: each replaces what it meant in the text as it was.
LEMMA EditsMade ==
    ASSUME NEW text \in Seq(STRING), NEW es \in Seq(TextEdit(Len(text))), Disjoint(es),
           NEW snippet \in BOOLEAN,
           NEW plain \in Seq(TextEdit(Len(text))), Len(plain) = Len(es),
           \A i \in 1 .. Len(es) : Means(es, plain, i, snippet),
           NEW carets \in SUBSET Int, NEW main \in Nat, NEW offset \in Nat,
           main \in 1 .. Len(es) => NewText(es[main], snippet).carets = {offset}
    PROVE  EditsAre(text, es, plain, main, offset,
                    ApplyTextEdits([text |-> text, carets |-> carets], es, main, snippet))
<1> DEFINE L == Len(text)
           n == Len(es)
           o == SortEdits(es)
           buf == [text |-> text, carets |-> carets]
           place == [k \in 0 .. n |-> IF k = 0 THEN L + 1 ELSE plain[o[k]].from]
           one(b, k) == ApplyTextEdit(b, es[o[k]], snippet, o[k] = main)
           F == [z \in Buffer \X (1 .. n) |-> IF one(z[1], z[2]) \in Buffer THEN one(z[1], z[2]) ELSE buf]
<1>1. n \in Nat /\ L \in Nat /\ DOMAIN plain = 1 .. n /\ DOMAIN es = 1 .. n
  OBVIOUS
<1>2. /\ o \in [1 .. n -> 1 .. n]
      /\ \A k, m \in 1 .. n : k < m => es[o[m]].from < es[o[k]].from
      /\ \A i \in 1 .. n : \E k \in 1 .. n : o[k] = i
  BY <1>1, EditOrder, Zenon
<1>3. \A i \in 1 .. n : plain[i].from = es[i].from /\ plain[i].to = es[i].to
  BY DEF Means
<1>4. \A i \in 1 .. n : plain[i].from \in 0 .. L /\ plain[i].to \in 0 .. L /\ plain[i].from <= plain[i].to
  <2>1. \A i \in 1 .. n : plain[i] \in TextEdit(L)
    BY <1>1
  <2> QED BY <2>1 DEF TextEdit
<1>5. Disjoint(plain)
  BY <1>1, <1>3 DEF Disjoint
<1> HIDE DEF o
<1>6. place[0] = L + 1 /\ \A k \in 1 .. n : place[k] = plain[o[k]].from
  BY <1>1
<1> HIDE DEF place
<1>7. ASSUME NEW k \in 1 .. n PROVE o[k] \in DOMAIN plain /\ LastBefore(text, plain, o[k], place[k - 1])
  <2> DEFINE i == o[k]
             m == place[k - 1]
  <2>1. i \in 1 .. n
    BY <1>2
  <2>2. m \in 0 .. L + 1 /\ plain[i].from < m /\ plain[i].to <= m
    <3>1. CASE k = 1
      <4>1. m = L + 1
        BY <1>6, <3>1
      <4> QED BY <1>1, <1>4, <2>1, <4>1
    <3>2. CASE k # 1
      <4>1. k - 1 \in 1 .. n /\ k - 1 < k
        BY <1>1, <3>2
      <4>2. m = plain[o[k - 1]].from /\ o[k - 1] \in 1 .. n
        BY <1>2, <1>6, <4>1
      <4>3. plain[i].from < m
        BY <1>2, <1>3, <2>1, <4>1, <4>2
      <4>4. i # o[k - 1]
        BY <1>4, <2>1, <4>2, <4>3
      <4>5. plain[i].to <= m
        BY <1>1, <1>5, <2>1, <4>2, <4>3, <4>4 DEF Disjoint
      <4> QED BY <1>1, <1>4, <2>1, <4>2, <4>3, <4>5
    <3> QED BY <3>1, <3>2
  <2>3. ASSUME NEW j \in 1 .. n PROVE plain[j].from <= plain[i].from \/ m <= plain[j].from
    <3>1. PICK x \in 1 .. n : o[x] = j
      BY <1>2
    <3>2. CASE x < k
      <4>1. k - 1 \in 1 .. n /\ k # 1 /\ x <= k - 1
        BY <1>1, <3>2
      <4>2. m = plain[o[k - 1]].from /\ o[k - 1] \in 1 .. n
        BY <1>2, <1>6, <4>1
      <4>3. CASE x = k - 1
        BY <1>4, <3>1, <4>2, <4>3
      <4>4. CASE x < k - 1
        <5>1. m < plain[j].from
          BY <1>2, <1>3, <3>1, <4>1, <4>2, <4>4, ZenonT(30)
        <5> QED BY <1>4, <4>2, <5>1
      <4> QED BY <1>1, <4>1, <4>3, <4>4
    <3>3. CASE x = k
      BY <1>4, <3>1, <3>3
    <3>4. CASE k < x
      <4>1. plain[j].from < plain[i].from
        BY <1>2, <1>3, <2>1, <3>1, <3>4
      <4> QED BY <1>4, <2>1, <4>1
    <3> QED BY <1>1, <3>2, <3>3, <3>4
  <2> QED BY <1>1, <2>1, <2>2, <2>3 DEF LastBefore
<1>8. buf \in Buffer /\ buf.text = text /\ buf.carets = carets
  BY DEF Buffer
<1> HIDE DEF buf, one
<1>9. PICK h \in [0 .. n -> Buffer] : Iterates(h, F, buf, n)
  <2>1. F \in [Buffer \X (1 .. n) -> Buffer]
    BY <1>8
  <2> HIDE DEF F
  <2> QED BY <1>1, <1>8, <2>1, Iterated
<1> DEFINE T == {k \in 0 .. n : h[k].text = Half(text, plain, place[k])}
           Edited(k) ==
               /\ h[k] = one(h[k - 1], k)
               /\ o[k] = main => h[k].carets = {place[k] + offset}
               /\ \A c \in Int : o[k] # main /\ h[k - 1].carets = {c} /\ plain[o[k]].to < c =>
                      h[k].carets = {c + (Len(h[k].text) - Len(h[k - 1].text))}
               /\ place[k] - plain[o[k]].to <= Len(h[k].text) - Len(h[k - 1].text)
<1>10. 0 \in T
  <2>1. Half(text, plain, L + 1) = text
    <3>1. Upto(text, L + 1) = L
      BY <1>1 DEF Upto
    <3>2. SubSeq(text, 1, L) = text /\ Replaced(text, plain)[L + 1] = <<>>
      BY SubSeqFull, ReplacedSteps
    <3>3. \A s \in Seq(STRING) : s \o <<>> = s
      BY ConcatEmptySeq
    <3> QED BY <3>1, <3>2, <3>3 DEF Half
  <2>2. h[0] = buf
    BY <1>9 DEF Iterates
  <2>3. 0 \in 0 .. n
    BY <1>1
  <2> QED BY <1>6, <1>8, <2>1, <2>2, <2>3
<1>11. ASSUME NEW k \in 1 .. n, k - 1 \in T PROVE k \in T /\ Edited(k)
  <2> DEFINE b == h[k - 1]
             r == one(b, k)
             i == o[k]
             m == place[k - 1]
             set == i = main
  <2>1. k \in 0 .. n /\ k - 1 \in 0 .. n
    BY <1>1
  <2>2. b \in Buffer /\ b.text = Half(text, plain, m)
    BY <1>9, <1>11, <2>1
  <2>3. i \in DOMAIN plain /\ i \in 1 .. n /\ LastBefore(text, plain, i, m) /\ Means(es, plain, i, snippet)
    BY <1>1, <1>7
  <2>4. r = ApplyTextEdit(b, es[i], snippet, set)
    BY DEF one
  <2> HIDE DEF b, i, m, r, T
  <2>5. /\ r \in Buffer
        /\ r.text = Half(text, plain, plain[i].from)
        /\ set => r.carets = {plain[i].from + x : x \in NewText(es[i], snippet).carets}
        /\ \A c \in Int : ~set /\ b.carets = {c} /\ plain[i].to < c =>
               r.carets = {c + (Len(r.text) - Len(b.text))}
        /\ plain[i].from - plain[i].to <= Len(r.text) - Len(b.text)
    <3>1. set \in BOOLEAN
      OBVIOUS
    <3> HIDE DEF set
    <3>2. MadeOnce(text, plain, i, NewText(es[i], snippet), set, b, ApplyTextEdit(b, es[i], snippet, set))
      BY <1>5, <2>2, <2>3, <3>1, EditOnce
    <3> QED BY <2>4, <3>2 DEF MadeOnce
  <2>6. h[k] = r
    <3>1. h[k] = F[<<b, k>>]
      BY <1>9 DEF Iterates, b
    <3>2. F[<<b, k>>] = IF one(b, k) \in Buffer THEN one(b, k) ELSE buf
      BY <2>2
    <3> QED BY <2>5, <3>1, <3>2 DEF r
  <2>7. place[k] = plain[i].from
    BY <1>6 DEF i
  <2>8. set => h[k].carets = {place[k] + offset}
    <3> SUFFICES ASSUME set PROVE h[k].carets = {place[k] + offset}
      OBVIOUS
    <3>1. NewText(es[i], snippet).carets = {offset}
      BY <2>3
    <3> QED BY <2>5, <2>6, <2>7, <3>1
  <2>9. k \in T
    BY <2>1, <2>5, <2>6, <2>7 DEF T
  <2> QED BY <2>5, <2>6, <2>7, <2>8, <2>9 DEF r, i, b
<1> HIDE DEF Edited
<1>12. \A k \in 0 .. n : k \in T
  <2> HIDE DEF T
  <2>1. \A k \in 1 .. n : k - 1 \in T => k \in T
    BY <1>11
  <2> QED BY <1>1, <1>10, <2>1, Induction
<1>13. ASSUME NEW k \in 1 .. n PROVE Edited(k)
  <2>1. k - 1 \in 0 .. n
    BY <1>1
  <2>2. k - 1 \in T
    BY <1>12, <2>1
  <2> HIDE DEF T
  <2> QED BY <1>11, <2>2
<1>14. ApplyTextEdits(buf, es, main, snippet) = h[n]
  <2>1. h[0] = buf
    BY <1>9 DEF Iterates
  <2>2. \A k \in 1 .. n : h[k] = ApplyTextEdit(h[k - 1], es[o[k]], snippet, o[k] = main)
    BY <1>13 DEF Edited, one
  <2>3. Len(es) \in Nat
    BY <1>1
  <2>4. Makes(h, buf, es, main, snippet)
    BY <2>1, <2>2 DEF Makes, o
  <2> QED BY <2>3, <2>4, EditsIterated
<1>15. h[n].text = Replaced(text, plain)[0]
  <2>1. n \in 0 .. n
    BY <1>1
  <2>2. h[n].text = Half(text, plain, place[n])
    BY <1>12, <2>1
  <2>3. place[n] \in 0 .. L + 1 /\ \A j \in DOMAIN plain : place[n] <= plain[j].from
    <3>1. CASE n = 0
      BY <1>1, <1>6, <3>1
    <3>2. CASE n # 0
      <4>1. n \in 1 .. n
        BY <1>1, <3>2
      <4>2. o[n] \in 1 .. n /\ place[n] = plain[o[n]].from
        BY <1>2, <1>6, <4>1
      <4>3. ASSUME NEW j \in 1 .. n PROVE place[n] <= plain[j].from
        <5>1. PICK x \in 1 .. n : o[x] = j
          BY <1>2
        <5>2. CASE x = n
          BY <1>4, <4>2, <5>1, <5>2
        <5>3. CASE x < n
          <6>1. plain[o[n]].from < plain[j].from
            BY <1>2, <1>3, <4>1, <4>2, <5>1, <5>3
          <6> QED BY <1>4, <4>2, <6>1
        <5>4. x = n \/ x < n
          <6> HIDE DEF n
          <6> QED BY <1>1
        <5> QED BY <5>2, <5>3, <5>4
      <4> QED BY <1>1, <1>4, <4>2, <4>3
    <3> QED BY <3>1, <3>2
  <2> QED BY <2>2, <2>3, ReplacedFirst DEF Half
<1>16. ASSUME main \in 1 .. n,
              offset > 0 \/ \A i \in 1 .. n \ {main} : plain[i].to # plain[main].from
       PROVE  h[n].carets = {Len(Replaced(text, plain)[0]) - Len(Replaced(text, plain)[plain[main].from]) + offset}
  <2> DEFINE first == plain[main].from
             behind == Len(Replaced(text, plain)[first])
             len(k) == Len(h[k].text)
             caret(k) == len(k) - behind + offset
  <2>1. PICK x \in 1 .. n : o[x] = main
    BY <1>2, <1>16
  <2> DEFINE Behind(k) == /\ h[k].carets = {caret(k)}
                          /\ place[k] <= caret(k)
                          /\ place[k] < caret(k) \/ (k = x /\ offset = 0)
             U == {k \in 0 .. n : k < x \/ Behind(k)}
  <2>2. first \in 0 .. L /\ behind \in Nat
    <3>1. first \in 0 .. L
      BY <1>4, <1>16
    <3>2. Replaced(text, plain)[first] \in Seq(STRING)
      <4>1. first \in 0 .. Len(text) + 1
        BY <3>1
      <4> HIDE DEF first
      <4> QED BY <4>1, ReplacedSteps
    <3> QED BY <3>1, <3>2
  <2>3. \A k \in 0 .. n : len(k) \in Nat
    <3>1. \A k \in 0 .. n : h[k].text \in Seq(STRING)
      BY <1>9 DEF Buffer
    <3> QED BY <3>1
  <2>4. \A k \in 1 .. n : place[k] \in 0 .. L
    BY <1>1, <1>4, <1>6, <1>7
  <2>5. place[x] = first /\ len(x) = first + behind
    <3>1. place[x] = first
      BY <1>6, <2>1
    <3>2. x \in 0 .. n
      BY <1>1
    <3>3. h[x].text = Half(text, plain, first)
      BY <1>12, <3>1, <3>2
    <3>4. Upto(text, first) = first /\ first \in 0 .. Len(text) + 1
      BY <2>2 DEF Upto
    <3> QED BY <3>1, <3>3, <3>4, HalfType, SMTT(30)
  <2> HIDE DEF first, behind, len
  <2>6. \A k \in 0 .. n : caret(k) \in Int
    BY <2>2, <2>3
  <2>7. 0 \in U
    BY <1>1
  <2>8. ASSUME NEW k \in 1 .. n, k - 1 \in U PROVE k \in U
    <3>1. k \in 0 .. n /\ k - 1 \in 0 .. n
      BY <1>1
    <3>2. CASE k < x
      BY <3>1, <3>2
    <3>3. CASE k = x
      <4>1. h[k].carets = {place[k] + offset}
        BY <1>13, <2>1, <3>3 DEF Edited
      <4>2. caret(k) = place[k] + offset
        BY <2>2, <2>5, <3>3
      <4>3. place[k] <= caret(k) /\ (place[k] < caret(k) \/ offset = 0)
        <5>1. place[k] \in Int
          BY <2>4
        <5> HIDE DEF caret
        <5> QED BY <4>2, <5>1
      <4>4. Behind(k)
        <5> HIDE DEF caret
        <5> QED BY <3>3, <4>1, <4>2, <4>3
      <4> HIDE DEF Behind
      <4> QED BY <3>1, <4>4
    <3>4. CASE x < k
      <4> DEFINE to == plain[o[k]].to
      <4>1. k - 1 \in 1 .. n /\ x <= k - 1 /\ ~(k - 1 < x) /\ ~(k < x)
        BY <1>1, <3>4
      <4>11. o[k] \in 1 .. n
        BY <1>2
      <4>2. o[k] # main
        <5>1. es[o[k]].from < es[o[x]].from
          BY <1>2, <3>4
        <5>2. es[main].from = plain[main].from /\ plain[main].from \in 0 .. L
          BY <1>3, <1>4, <1>16
        <5>3. es[main].from \in Int
          BY <5>2
        <5> QED BY <2>1, <5>1, <5>3
      <4>3. to <= place[k - 1] /\ to \in Int /\ place[k - 1] \in Int
        <5>1. to <= place[k - 1]
          BY <1>7 DEF LastBefore
        <5> QED BY <1>4, <2>4, <4>1, <4>11, <5>1
      <4> DEFINE c == caret(k - 1)
      <4>4. h[k - 1].carets = {c} /\ place[k - 1] <= c /\ (place[k - 1] < c \/ (k - 1 = x /\ offset = 0))
        <5>1. Behind(k - 1)
          <6> HIDE DEF Behind
          <6> QED BY <2>8, <4>1
        <5> HIDE DEF caret
        <5> QED BY <5>1, SMTT(30) DEF c
      <4>5. c \in Int
        BY <2>6, <3>1
      <4> HIDE DEF c
      <4>6. to < c
        <5>1. CASE place[k - 1] < c
          <6> HIDE DEF to
          <6> QED BY <4>3, <4>5, <5>1
        <5>2. CASE k - 1 = x /\ offset = 0
          <6>1. to # place[k - 1]
            BY <1>16, <2>5, <4>2, <4>11, <5>2 DEF first
          <6> HIDE DEF to
          <6> QED BY <4>3, <4>4, <4>5, <6>1
        <5> QED BY <4>4, <5>1, <5>2
      <4>7. /\ h[k].carets = {c + (len(k) - len(k - 1))}
            /\ place[k] - to <= len(k) - len(k - 1)
        BY <1>13, <4>2, <4>4, <4>5, <4>6 DEF Edited, len
      <4> HIDE DEF to
      <4>8. caret(k) = c + (len(k) - len(k - 1))
        <5>1. k \in 0 .. n /\ k - 1 \in 0 .. n
          BY <3>1
        <5>2. len(k) \in Int /\ len(k - 1) \in Int /\ behind \in Int /\ offset \in Int
          BY <2>2, <2>3, <5>1
        <5>3. caret(k) = len(k) - behind + offset /\ c = len(k - 1) - behind + offset
          BY DEF c
        <5> HIDE DEF caret, len, behind
        <5> QED BY <5>2, <5>3
      <4>9. place[k] < caret(k)
        <5>1. place[k] \in Int /\ len(k) \in Int /\ len(k - 1) \in Int
          BY <2>3, <2>4, <3>1
        <5> HIDE DEF caret
        <5> QED BY <4>3, <4>5, <4>6, <4>7, <4>8, <5>1
      <4>10. place[k] <= caret(k)
        <5>1. place[k] \in Int /\ caret(k) \in Int
          BY <2>4, <2>6, <3>1
        <5> HIDE DEF caret
        <5> QED BY <4>9, <5>1
      <4>12. h[k].carets = {caret(k)}
        BY <4>7, <4>8
      <4>13. Behind(k)
        <5> HIDE DEF caret
        <5> QED BY <4>9, <4>10, <4>12
      <4> HIDE DEF Behind
      <4> QED BY <3>1, <4>13
    <3>5. k < x \/ k = x \/ x < k
      OBVIOUS
    <3> QED BY <3>2, <3>3, <3>4, <3>5
  <2> HIDE DEF U
  <2>9. n \in U
    <3>1. n \in 0 .. n
      BY <1>1
    <3> QED BY <1>1, <2>7, <2>8, <3>1, Induction
  <2>10. ~(n < x)
    BY <1>1
  <2>11. h[n].carets = {caret(n)}
    BY <2>9, <2>10 DEF U
  <2> QED BY <1>15, <2>11 DEF len, behind, first
<1> QED
  BY <1>14, <1>15, <1>16, Zenon DEF EditsAre, buf, n

-----------------------------------------------------------------------------
Mode == {"outer", "dollar", "digits", "name", "brace", "skip"}

\* What process_snippet() knows between two characters.
State == [mode : Mode, depth : Int, out : Seq(STRING), zero : SUBSET Nat, one : SUBSET Nat]

\* A tab stop changes its set of places only.
LEMMA TabStopType ==
    ASSUME NEW st \in State, NEW s, NEW i
    PROVE  /\ TabStop(st, s, i) \in State
           /\ TabStop(st, s, i).out = st.out /\ TabStop(st, s, i).mode = st.mode
           /\ TabStop(st, s, i).depth = st.depth
<1>1. Len(st.out) \in Nat
  <2>1. st.out \in Seq(STRING)
    BY DEF State
  <2> QED BY <2>1
<1> DEFINE z == [st EXCEPT !.zero = @ \cup {Len(st.out)}]
           o == [st EXCEPT !.one = @ \cup {Len(st.out)}]
<1>2. /\ z \in State /\ z.out = st.out /\ z.mode = st.mode /\ z.depth = st.depth
      /\ o \in State /\ o.out = st.out /\ o.mode = st.mode /\ o.depth = st.depth
  BY <1>1 DEF State
<1>3. TabStop(st, s, i) \in {st, z, o}
  <2> HIDE DEF z, o
  <2> QED BY DEF TabStop, z, o
<1> QED
  BY <1>2, <1>3

\* Text that is copied.
LEMMA CopiedType ==
    ASSUME NEW st \in State, NEW text \in Seq(STRING)
    PROVE  /\ Copied(st, text) \in State
           /\ Copied(st, text).mode = "outer" /\ Copied(st, text).out = st.out \o text
           /\ Copied(st, text).zero = st.zero /\ Copied(st, text).one = st.one
<1>1. st.out \in Seq(STRING)
  BY DEF State
<1> DEFINE t == st.out \o text
<1>2. t \in Seq(STRING)
  BY <1>1, ConcatProperties
<1> HIDE DEF t
<1>3. Copied(st, text) = [st EXCEPT !.mode = "outer", !.out = t]
  BY DEF Copied, t
<1>4. /\ Copied(st, text) \in State
      /\ Copied(st, text).mode = "outer" /\ Copied(st, text).out = t
      /\ Copied(st, text).zero = st.zero /\ Copied(st, text).one = st.one
  BY <1>2, <1>3 DEF State, Mode
<1> QED
  BY <1>4 DEF t

\* What a brace, or another character, changes in the depth.
Deeper(c) == (IF c = "{" THEN 1 ELSE 0) - (IF c = "}" THEN 1 ELSE 0)

\* A character in braces.
LEMMA InBraceType ==
    ASSUME NEW st \in State, NEW c
    PROVE  /\ InBrace(st, c) \in State
           /\ InBrace(st, c).out = st.out
           /\ InBrace(st, c).zero = st.zero /\ InBrace(st, c).one = st.one
           /\ InBrace(st, c).depth = st.depth + Deeper(c)
           /\ InBrace(st, c).mode = IF st.depth + Deeper(c) = 0 THEN "outer" ELSE "skip"
<1> DEFINE depth == st.depth + (IF c = "{" THEN 1 ELSE 0) - (IF c = "}" THEN 1 ELSE 0)
<1>1. st.depth \in Int
  BY DEF State
<1>2. depth = st.depth + Deeper(c) /\ depth \in Int
  <2> DEFINE up == IF c = "{" THEN 1 ELSE 0
             down == IF c = "}" THEN 1 ELSE 0
  <2>1. up \in Int /\ down \in Int /\ Deeper(c) = up - down /\ depth = st.depth + up - down
    BY DEF Deeper
  <2> HIDE DEF up, down, depth
  <2> QED BY <1>1, <2>1
<1>3. InBrace(st, c) = [st EXCEPT !.depth = depth, !.mode = IF depth = 0 THEN "outer" ELSE "skip"]
  BY DEF InBrace
<1> HIDE DEF depth
<1>4. /\ InBrace(st, c) \in State
      /\ InBrace(st, c).out = st.out
      /\ InBrace(st, c).zero = st.zero /\ InBrace(st, c).one = st.one
      /\ InBrace(st, c).depth = depth
      /\ InBrace(st, c).mode = IF depth = 0 THEN "outer" ELSE "skip"
  BY <1>2, <1>3 DEF State, Mode
<1> QED
  BY <1>2, <1>4

\* Short sequences.
LEMMA OneType ==
    ASSUME NEW S, NEW a \in S PROVE <<a>> \in Seq(S)
  OBVIOUS

\* The same, of two.
LEMMA PairType ==
    ASSUME NEW S, NEW a \in S, NEW b \in S PROVE <<a, b>> \in Seq(S)
  OBVIOUS

\* A character and, behind a $, what is before it.
LEMMA OneOrTwo ==
    ASSUME NEW s \in Seq(STRING), NEW i \in 1 .. Len(s)
    PROVE  <<s[i]>> \in Seq(STRING) /\ <<"$", s[i]>> \in Seq(STRING)
<1>1. s[i] \in STRING
  OBVIOUS
<1> DEFINE c == s[i]
<1> HIDE DEF c
<1>2. <<c>> \in Seq(STRING) /\ <<"$", c>> \in Seq(STRING)
  <2>1. c \in STRING
    BY <1>1 DEF c
  <2>2. \A a, b \in STRING : <<a>> \in Seq(STRING) /\ <<a, b>> \in Seq(STRING)
    BY OneType, PairType
  <2>3. "$" \in STRING
    BY EditAssumption
  <2> QED BY <2>1, <2>2, <2>3
<1> QED
  BY <1>2 DEF c

\* r is the step from st, in each mode.
StepIs(st, s, i, r) ==
    LET c == s[i]
    IN  /\ st.mode = "outer" /\ c = "$" => r = [st EXCEPT !.mode = "dollar"]
        /\ st.mode = "outer" /\ c # "$" => r = Copied(st, <<c>>)
        /\ st.mode = "dollar" /\ c \in Digit => r = [TabStop(st, s, i) EXCEPT !.mode = "digits"]
        /\ st.mode = "dollar" /\ c \in Alpha => r = [st EXCEPT !.mode = "name"]
        /\ st.mode = "dollar" /\ c = "{" => r = [st EXCEPT !.mode = "brace", !.depth = 1]
        /\ st.mode = "dollar" /\ c \notin Digit \cup Alpha \cup {"{"} => r = Copied(st, <<"$", c>>)
        /\ st.mode = "digits" /\ c \in Digit => r = st
        /\ st.mode = "digits" /\ c \notin Digit => r = Copied(st, <<c>>)
        /\ st.mode = "name" /\ c \in Digit \cup Alpha => r = st
        /\ st.mode = "name" /\ c \notin Digit \cup Alpha => r = Copied(st, <<c>>)
        /\ st.mode = "brace" => r = InBrace(IF c \in Digit THEN TabStop(st, s, i) ELSE st, c)
        /\ st.mode = "skip" => r = InBrace(st, c)

\* The step.
LEMMA StepModes ==
    ASSUME NEW st \in State, NEW s, NEW i
    PROVE  StepIs(st, s, i, Step(st, s, i))
<1> DEFINE c == s[i]
<1>1. /\ \A d \in Digit : d \notin Alpha /\ d # "{"
      /\ \A d \in Alpha : d # "{"
  BY DEF Digit, Alpha
<1>2. CASE st.mode = "outer"
  BY <1>2 DEF Step, StepIs
<1>3. CASE st.mode = "dollar"
  <2>1. Step(st, s, i) = CASE c \in Digit -> [TabStop(st, s, i) EXCEPT !.mode = "digits"]
                           [] c \in Alpha -> [st EXCEPT !.mode = "name"]
                           [] c = "{" -> [st EXCEPT !.mode = "brace", !.depth = 1]
                           [] OTHER -> Copied(st, <<"$", c>>)
    BY <1>3 DEF Step
  <2> HIDE DEF c, StepIs
  <2>2. CASE c \in Digit
    BY <1>1, <1>3, <2>1, <2>2 DEF c, StepIs
  <2>3. CASE c \in Alpha
    BY <1>1, <1>3, <2>1, <2>3 DEF c, StepIs
  <2>4. CASE c = "{"
    BY <1>1, <1>3, <2>1, <2>4 DEF c, StepIs
  <2>5. CASE c \notin Digit \cup Alpha \cup {"{"}
    BY <1>1, <1>3, <2>1, <2>5 DEF c, StepIs
  <2> QED BY <2>2, <2>3, <2>4, <2>5
<1>4. CASE st.mode = "digits"
  BY <1>4 DEF Step, StepIs
<1>5. CASE st.mode = "name"
  BY <1>5 DEF Step, StepIs
<1>6. CASE st.mode = "brace"
  BY <1>6 DEF Step, StepIs
<1>7. CASE st.mode = "skip"
  BY <1>7 DEF Step, StepIs
<1>8. st.mode \in Mode
  BY DEF State
<1> QED
  BY <1>2, <1>3, <1>4, <1>5, <1>6, <1>7, <1>8 DEF Mode

\* A step stays among the states.
LEMMA StepType ==
    ASSUME NEW st \in State, NEW s \in Seq(STRING), NEW i \in 1 .. Len(s)
    PROVE  Step(st, s, i) \in State
<1> DEFINE c == s[i]
           r == Step(st, s, i)
           stop == TabStop(st, s, i)
           p == <<c>>
           q == <<"$", c>>
           a == [st EXCEPT !.mode = "dollar"]
           b == [stop EXCEPT !.mode = "digits"]
           d == [st EXCEPT !.mode = "name"]
           e == [st EXCEPT !.mode = "brace", !.depth = 1]
<1>1. p \in Seq(STRING) /\ q \in Seq(STRING)
  BY OneOrTwo
<1> HIDE DEF p, q
<1>2. stop \in State
  BY TabStopType
<1> HIDE DEF stop
<1>3. Copied(st, p) \in State /\ Copied(st, q) \in State
  BY <1>1, CopiedType
<1>4. a \in State /\ b \in State /\ d \in State /\ e \in State
  <2>1. "dollar" \in Mode /\ "digits" \in Mode /\ "name" \in Mode /\ "brace" \in Mode /\ 1 \in Int
    BY DEF Mode
  <2>2. \A x \in State, m \in Mode : [x EXCEPT !.mode = m] \in State
    BY DEF State
  <2>3. \A x \in State, m \in Mode, k \in Int : [x EXCEPT !.mode = m, !.depth = k] \in State
    BY DEF State
  <2> QED BY <1>2, <2>1, <2>2, <2>3
<1>5. InBrace(st, c) \in State /\ InBrace(stop, c) \in State
  BY <1>2, InBraceType
<1>6. st.mode \in Mode
  BY DEF State
<1>8. StepIs(st, s, i, r)
  BY StepModes
<1>7. r \in {st, Copied(st, p), Copied(st, q), a, b, d, e, InBrace(st, c), InBrace(stop, c)}
  <2> HIDE DEF a, b, d, e, r
  <2>1. CASE st.mode = "outer"
    <3>1. r = a \/ r = Copied(st, p)
      BY <2>1, <1>8 DEF StepIs, r, a, p
    <3> QED BY <3>1
  <2>2. CASE st.mode = "dollar"
    <3>1. r = b \/ r = d \/ r = e \/ r = Copied(st, q)
      BY <2>2, <1>8 DEF StepIs, r, b, d, e, q, stop
    <3> QED BY <3>1
  <2>3. CASE st.mode = "digits"
    <3>1. r = st \/ r = Copied(st, p)
      BY <2>3, <1>8 DEF StepIs, r, p
    <3> QED BY <3>1
  <2>4. CASE st.mode = "name"
    <3>1. r = st \/ r = Copied(st, p)
      BY <2>4, <1>8 DEF StepIs, r, p
    <3> QED BY <3>1
  <2>5. CASE st.mode = "brace"
    <3>1. r = InBrace(st, c) \/ r = InBrace(stop, c)
      BY <2>5, <1>8 DEF StepIs, r, stop
    <3> QED BY <3>1
  <2>6. CASE st.mode = "skip"
    <3>1. r = InBrace(st, c)
      BY <2>6, <1>8 DEF StepIs, r
    <3> QED BY <3>1
  <2> QED BY <1>6, <2>1, <2>2, <2>3, <2>4, <2>5, <2>6 DEF Mode
<1> QED
  BY <1>3, <1>4, <1>5, <1>7

\* The states h between the characters of s.
Reads(h, s) ==
    /\ h \in [0 .. Len(s) -> State]
    /\ h[0] = Start
    /\ \A i \in 1 .. Len(s) : h[i] = Step(h[i - 1], s, i)

\* What is made of the last one.
Marked(end) ==
    [text |-> end.out,
     carets |-> IF end.one # {} THEN end.one
                ELSE IF end.zero # {} THEN end.zero
                ELSE {Len(end.out)}]

\* ProcessSnippet goes through such states.
LEMMA SnippetRead ==
    ASSUME NEW s \in Seq(STRING)
    PROVE  \E h : Reads(h, s) /\ ProcessSnippet(s) = Marked(h[Len(s)])
<1> DEFINE n == Len(s)
           F == [z \in State \X (1 .. n) |-> Step(z[1], s, z[2])]
           Is(f) == f = [i \in 0 .. n |-> IF i = 0 THEN Start ELSE Step(f[i - 1], s, i)]
           f0 == CHOOSE f : Is(f)
<1>1. n \in Nat
  OBVIOUS
<1>2. Start \in State
  <2>1. <<>> \in Seq(STRING)
    OBVIOUS
  <2> QED BY <2>1 DEF Start, State, Mode
<1>3. F \in [State \X (1 .. n) -> State]
  <2>1. \A st \in State, i \in 1 .. n : Step(st, s, i) \in State
    BY StepType
  <2> QED BY <2>1
<1> HIDE DEF F
<1>4. PICK h \in [0 .. n -> State] : Iterates(h, F, Start, n)
  BY <1>1, <1>2, <1>3, Iterated
<1>5. Reads(h, s)
  <2>1. h[0] = Start
    BY <1>4 DEF Iterates
  <2>2. ASSUME NEW i \in 1 .. n PROVE h[i] = Step(h[i - 1], s, i)
    <3>1. h[i] = F[<<h[i - 1], i>>] /\ h[i - 1] \in State
      <4>1. i - 1 \in 0 .. n
        BY <1>1
      <4> QED BY <1>4, <4>1 DEF Iterates
    <3> QED BY <3>1 DEF F
  <2> QED BY <2>1, <2>2 DEF Reads
<1>6. Is(h)
  <2>1. ASSUME NEW i \in 0 .. n PROVE h[i] = IF i = 0 THEN Start ELSE Step(h[i - 1], s, i)
    <3>1. i = 0 \/ i \in 1 .. n
      BY <1>1
    <3> QED BY <1>5, <3>1 DEF Reads
  <2>2. h = [i \in 0 .. n |-> h[i]]
    OBVIOUS
  <2> QED BY <2>1, <2>2
<1>7. Is(f0)
  <2> HIDE DEF Is
  <2> QED BY <1>6
<1> HIDE DEF f0
<1>8. f0[n] = h[n]
  <2> DEFINE T == {i \in 0 .. n : f0[i] = h[i]}
  <2>1. \A i \in 0 .. n : f0[i] = IF i = 0 THEN Start ELSE Step(f0[i - 1], s, i)
    BY <1>7, Zenon
  <2>2. 0 \in T
    <3>1. 0 \in 0 .. n
      BY <1>1
    <3> QED BY <1>5, <2>1, <3>1 DEF Reads
  <2>3. ASSUME NEW i \in 1 .. n, i - 1 \in T PROVE i \in T
    <3>1. i \in 0 .. n /\ i # 0
      BY <1>1
    <3>2. f0[i - 1] = h[i - 1]
      BY <2>3
    <3>3. f0[i] = Step(f0[i - 1], s, i) /\ h[i] = Step(h[i - 1], s, i)
      BY <1>5, <2>1, <3>1 DEF Reads
    <3> QED BY <3>1, <3>2, <3>3
  <2> HIDE DEF T
  <2>4. n \in T
    <3>1. n \in 0 .. n
      BY <1>1
    <3> QED BY <1>1, <2>2, <2>3, <3>1, Induction
  <2> QED BY <2>4 DEF T
<1>9. ProcessSnippet(s) = Marked(f0[n])
  BY DEF ProcessSnippet, Marked, f0
<1> QED
  BY <1>5, <1>8, <1>9

\* One more character.
LEMMA ManyStep ==
    ASSUME NEW c, NEW s, NEW k \in Nat, k > 1
    PROVE  /\ Many(c, s, 1) = 0
           /\ Many(c, s, k - 1) \in Nat
           /\ Many(c, s, k) = Many(c, s, k - 1) + (IF s[k] = c THEN 1 ELSE 0)
<1> DEFINE was == {i \in 2 .. k - 1 : s[i] = c}
           is == {i \in 2 .. k : s[i] = c}
<1>1. k - 1 \in Nat /\ k \notin 2 .. k - 1
  OBVIOUS
<1>2. IsFiniteSet(was) /\ Cardinality(was) \in Nat
  <2>1. IsFiniteSet(2 .. k - 1)
    BY <1>1, FS_Interval
  <2>2. was \subseteq 2 .. k - 1
    OBVIOUS
  <2> HIDE DEF was
  <2>3. IsFiniteSet(was)
    BY <2>1, <2>2, FS_Subset
  <2> QED BY <2>3, FS_CardinalityType
<1>3. {i \in 2 .. 1 : s[i] = c} = {}
  OBVIOUS
<1>4. Many(c, s, 1) = 0
  BY <1>3, FS_EmptySet DEF Many
<1>5. CASE s[k] = c
  <2>1. is = was \cup {k} /\ k \notin was
    BY <1>1, <1>5
  <2>2. Cardinality(was \cup {k}) = Cardinality(was) + 1
    <3> HIDE DEF was
    <3> QED BY <1>2, <2>1, FS_AddElement
  <2> QED BY <1>2, <1>4, <1>5, <2>1, <2>2 DEF Many
<1>6. CASE s[k] # c
  <2>1. is = was
    BY <1>1, <1>6
  <2>2. Many(c, s, k) = Cardinality(was) /\ Many(c, s, k - 1) = Cardinality(was)
    BY <2>1 DEF Many
  <2> HIDE DEF was
  <2> QED BY <1>2, <1>4, <1>6, <2>2
<1> QED
  BY <1>5, <1>6

\* The same, of the depth.
LEMMA DepthStep ==
    ASSUME NEW s, NEW k \in Nat, k > 1
    PROVE  /\ Depth(s, k) \in Int
           /\ Depth(s, 1) = 0
           /\ Depth(s, k) = Depth(s, k - 1) + Deeper(s[k])
<1> DEFINE open == "{"
           close == "}"
           up == IF s[k] = open THEN 1 ELSE 0
           down == IF s[k] = close THEN 1 ELSE 0
<1>1. Deeper(s[k]) = up - down /\ up \in Int /\ down \in Int
  BY DEF Deeper
<1>2. \A x : Depth(s, x) = Many(open, s, x) - Many(close, s, x)
  BY DEF Depth
<1> HIDE DEF open, close
<1>3. Many(open, s, 1) = 0 /\ Many(open, s, k - 1) \in Nat /\ Many(open, s, k) = Many(open, s, k - 1) + up
  BY ManyStep
<1>4. Many(close, s, 1) = 0 /\ Many(close, s, k - 1) \in Nat /\ Many(close, s, k) = Many(close, s, k - 1) + down
  BY ManyStep
<1> HIDE DEF up, down
<1> QED
  BY <1>1, <1>2, <1>3, <1>4

\* What a part leaves of its place.
Stop(it, which, n) == IF it.stop = which THEN {n} ELSE {}

ModeAfter(ends) == CASE ends = "digit" -> "digits" [] ends = "name" -> "name" [] OTHER -> "outer"

\* What begins a part after another.
Begins(mode, c) ==
    \/ mode = "outer"
    \/ mode = "digits" /\ c \notin Digit \cup {"$"}
    \/ mode = "name" /\ c \notin Digit \cup Alpha \cup {"$"}

\* The part it at p of s.
PartAt(s, p, it) ==
    /\ p \in Nat /\ p + Len(it.source) <= Len(s)
    /\ \A i \in 1 .. Len(it.source) : s[p + i] = it.source[i]
    /\ it.ends = "digit" /\ p + Len(it.source) < Len(s) => s[p + Len(it.source) + 1] \notin Digit

PartDone(a, b, it) ==
    /\ b.out = a.out \o it.text
    /\ b.zero = a.zero \cup Stop(it, "0", Len(a.out))
    /\ b.one = a.one \cup Stop(it, "1", Len(a.out))
    /\ b.mode = ModeAfter(it.ends)

\* The states and characters of a part.
LEMMA PartStates ==
    ASSUME NEW s \in Seq(STRING), NEW h, Reads(h, s), NEW it, SnippetPart(it), NEW p, PartAt(s, p, it)
    PROVE  LET n == Len(it.source)
           IN  /\ n \in Nat /\ p \in Nat
               /\ \A k \in 0 .. n : h[p + k] \in State
               /\ \A k \in 1 .. n : /\ p + k \in 1 .. Len(s)
                                    /\ s[p + k] = it.source[k]
                                    /\ h[p + k] = Step(h[p + k - 1], s, p + k)
<1> DEFINE n == Len(it.source)
<1>1. n \in Nat /\ p \in Nat /\ p + n <= Len(s) /\ Len(s) \in Nat
  BY DEF SnippetPart, PartAt
<1>2. \A k \in 0 .. n : p + k \in 0 .. Len(s)
  BY <1>1
<1>3. \A k \in 1 .. n : p + k \in 1 .. Len(s)
  BY <1>1
<1> QED
  <2>1. ASSUME NEW k \in 0 .. n PROVE h[p + k] \in State
    BY <1>2 DEF Reads
  <2>2. ASSUME NEW k \in 1 .. n
        PROVE  s[p + k] = it.source[k] /\ h[p + k] = Step(h[p + k - 1], s, p + k)
    BY <1>3, SMTT(30) DEF Reads, PartAt
  <2> QED BY <1>1, <1>3, <2>1, <2>2

\* A part that is a character.
LEMMA CharacterRead ==
    ASSUME NEW s \in Seq(STRING), NEW h, Reads(h, s), NEW it, SnippetPart(it), NEW p, PartAt(s, p, it),
           Begins(h[p].mode, it.source[1]), Character(it.source, it)
    PROVE  PartDone(h[p], h[p + 1], it)
<1> DEFINE c == it.source[1]
           a == h[p]
<1>1. /\ p \in Nat /\ h[p + 0] \in State /\ p + 1 \in 1 .. Len(s)
      /\ s[p + 1] = c /\ h[p + 1] = Step(h[p + 1 - 1], s, p + 1)
  <2>1. 0 \in 0 .. Len(it.source) /\ 1 \in 1 .. Len(it.source)
    <3>1. Len(it.source) = 1
      BY DEF Character
    <3> QED BY <3>1
  <2> QED BY <2>1, PartStates
<1>2. a \in State /\ h[p + 1] = Step(a, s, p + 1)
  <2>1. p + 0 = p /\ p + 1 - 1 = p
    BY <1>1
  <2> QED BY <1>1, <2>1
<1>3. it.source = <<c>> /\ c # "$" /\ it.text = <<c>>
  <2>1. Len(it.source) = 1 /\ c # "$" /\ it.text = it.source
    BY DEF Character
  <2>2. it.source \in Seq(STRING)
    BY DEF SnippetPart
  <2> DEFINE t == it.source
  <2>3. t = <<t[1]>>
    <3> HIDE DEF t
    <3>1. t \in Seq(STRING) /\ Len(t) = 1
      BY <2>1, <2>2 DEF t
    <3> QED BY <3>1
  <2> QED BY <2>1, <2>3
<1>4. <<c>> \in Seq(STRING)
  BY <1>3 DEF SnippetPart
<1> HIDE DEF a, c
<1>5. h[p + 1] = Copied(a, <<c>>)
  <2>1. StepIs(a, s, p + 1, h[p + 1])
    BY <1>2, StepModes
  <2>2. Begins(a.mode, c)
    BY DEF a, c
  <2> QED BY <1>1, <1>3, <2>1, <2>2 DEF StepIs, Begins
<1>6. /\ h[p + 1].mode = "outer" /\ h[p + 1].out = a.out \o <<c>>
      /\ h[p + 1].zero = a.zero /\ h[p + 1].one = a.one
  BY <1>2, <1>4, <1>5, CopiedType, ZenonT(30)
<1>7. it.stop = "" /\ it.ends = ""
  BY DEF Character
<1>8. Stop(it, "0", Len(a.out)) = {} /\ Stop(it, "1", Len(a.out)) = {} /\ ModeAfter(it.ends) = "outer"
  BY <1>7 DEF Stop, ModeAfter
<1> QED
  BY <1>3, <1>6, <1>8 DEF PartDone, a

\* The $ that the other parts begin with.
LEMMA DollarSeen ==
    ASSUME NEW s \in Seq(STRING), NEW h, Reads(h, s), NEW it, SnippetPart(it), NEW p, PartAt(s, p, it),
           Begins(h[p].mode, it.source[1]), it.source[1] = "$", Len(it.source) > 1
    PROVE  /\ h[p] \in State /\ h[p + 1] \in State
           /\ h[p + 1].mode = "dollar" /\ h[p + 1].out = h[p].out
           /\ h[p + 1].zero = h[p].zero /\ h[p + 1].one = h[p].one
<1> DEFINE n == Len(it.source)
<1>1. n \in Nat /\ p \in Nat
  BY PartStates
<1>2. 0 \in 0 .. n /\ 1 \in 0 .. n /\ 1 \in 1 .. n /\ p + 0 = p /\ p + 1 - 1 = p
  BY <1>1
<1>3. h[p] \in State /\ h[p + 1] \in State
  <2>1. h[p + 0] \in State /\ h[p + 1] \in State
    BY <1>2, PartStates
  <2> QED BY <1>2, <2>1
<1>4. s[p + 1] = "$" /\ h[p + 1] = Step(h[p], s, p + 1)
  <2>1. s[p + 1] = it.source[1] /\ h[p + 1] = Step(h[p + 1 - 1], s, p + 1)
    BY <1>2, PartStates
  <2> QED BY <1>2, <2>1
<1>5. h[p].mode = "outer"
  BY DEF Begins
<1>6. StepIs(h[p], s, p + 1, h[p + 1])
  BY <1>3, <1>4, StepModes
<1>7. h[p + 1] = [h[p] EXCEPT !.mode = "dollar"]
  BY <1>4, <1>5, <1>6 DEF StepIs
<1> DEFINE a == h[p]
           b == h[p + 1]
<1> HIDE DEF a, b
<1>8. b = [a EXCEPT !.mode = "dollar"] /\ a \in State
  BY <1>3, <1>7 DEF a, b
<1>9. b.mode = "dollar" /\ b.out = a.out /\ b.zero = a.zero /\ b.one = a.one
  BY <1>8 DEF State
<1> QED
  BY <1>3, <1>9 DEF a, b

\* A $ that begins nothing.
LEMMA DollarRead ==
    ASSUME NEW s \in Seq(STRING), NEW h, Reads(h, s), NEW it, SnippetPart(it), NEW p, PartAt(s, p, it),
           Begins(h[p].mode, it.source[1]), Dollar(it.source, it)
    PROVE  PartDone(h[p], h[p + 2], it)
<1> DEFINE c == it.source[2]
           a == h[p + 1]
           r == h[p + 2]
<1>1. Len(it.source) = 2 /\ it.source[1] = "$" /\ it.text = it.source /\ c \notin Digit \cup Alpha \cup {"{"}
  BY DEF Dollar
<1>10. Len(it.source) = 2
  BY DEF Dollar
<1>2. /\ a \in State /\ a.mode = "dollar" /\ a.out = h[p].out
      /\ a.zero = h[p].zero /\ a.one = h[p].one
  <2>1. Len(it.source) > 1
    BY <1>10
  <2>2. it.source[1] = "$"
    BY DEF Dollar
  <2> QED BY <2>1, <2>2, DollarSeen
<1>3. s[p + 2] = c /\ r = Step(a, s, p + 2)
  <2>1. 2 \in 1 .. Len(it.source)
    BY <1>10
  <2>2. s[p + 2] = c /\ r = Step(h[p + 2 - 1], s, p + 2) /\ p \in Nat
    BY <2>1, PartStates
  <2>3. p + 2 - 1 = p + 1
    BY <2>2
  <2> QED BY <2>2, <2>3
<1>4. it.text = <<"$", c>>
  <2> DEFINE t == it.source
  <2>1. t \in Seq(STRING)
    BY DEF SnippetPart
  <2> HIDE DEF t
  <2>2. Len(t) = 2 => t = <<t[1], t[2]>>
    BY <2>1
  <2> QED BY <1>1, <2>2 DEF t
<1>5. <<"$", c>> \in Seq(STRING)
  BY <1>4 DEF SnippetPart
<1> HIDE DEF a, c, r
<1>6. StepIs(a, s, p + 2, r)
  BY <1>2, <1>3, StepModes
<1>7. r = Copied(a, <<"$", c>>)
  BY <1>1, <1>2, <1>3, <1>6 DEF StepIs
<1>8. r.mode = "outer" /\ r.out = a.out \o <<"$", c>> /\ r.zero = a.zero /\ r.one = a.one
  <2> DEFINE t == <<"$", c>>
  <2> HIDE DEF t
  <2>1. t \in Seq(STRING) /\ r = Copied(a, t)
    BY <1>5, <1>7 DEF t
  <2>2. r.mode = "outer" /\ r.out = a.out \o t /\ r.zero = a.zero /\ r.one = a.one
    BY <1>2, <2>1, CopiedType
  <2> QED BY <2>2 DEF t
<1>9. Stop(it, "0", Len(h[p].out)) = {} /\ Stop(it, "1", Len(h[p].out)) = {} /\ ModeAfter(it.ends) = "outer"
  <2>1. it.stop = "" /\ it.ends = ""
    BY DEF Dollar
  <2> QED BY <2>1 DEF Stop, ModeAfter
<1> QED
  BY <1>2, <1>4, <1>8, <1>9 DEF PartDone, r

\* A tab stop at i of s, when it is 0 or 1 and nothing more.
IsStop(it, s, i) ==
    it.stop = IF s[i] \in {"0", "1"} /\ ~(i < Len(s) /\ s[i + 1] \in Digit) THEN s[i] ELSE ""

\* What a tab stop adds.
LEMMA TabStopRead ==
    ASSUME NEW st \in State, NEW s, NEW i, NEW it, IsStop(it, s, i)
    PROVE  /\ TabStop(st, s, i).zero = st.zero \cup Stop(it, "0", Len(st.out))
           /\ TabStop(st, s, i).one = st.one \cup Stop(it, "1", Len(st.out))
<1> DEFINE r == TabStop(st, s, i)
           len == Len(st.out)
           next == i < Len(s) /\ s[i + 1] \in Digit
<1>1. r = IF next THEN st
          ELSE CASE s[i] = "0" -> [st EXCEPT !.zero = @ \cup {len}]
                 [] s[i] = "1" -> [st EXCEPT !.one = @ \cup {len}]
                 [] OTHER -> st
  BY DEF TabStop
<1> HIDE DEF r, len, next
<1>2. CASE next
  <2>1. it.stop = "" /\ r = st
    BY <1>1, <1>2 DEF next, IsStop
  <2> QED BY <2>1 DEF Stop, r
<1>3. CASE ~next /\ s[i] = "0"
  <2>1. it.stop = "0" /\ r = [st EXCEPT !.zero = @ \cup {len}]
    BY <1>1, <1>3 DEF next, IsStop
  <2>2. r.zero = st.zero \cup {len} /\ r.one = st.one
    BY <2>1 DEF State
  <2> QED BY <2>1, <2>2 DEF Stop, r, len
<1>4. CASE ~next /\ s[i] = "1"
  <2>1. it.stop = "1" /\ r = [st EXCEPT !.one = @ \cup {len}]
    BY <1>1, <1>4 DEF next, IsStop
  <2>2. r.one = st.one \cup {len} /\ r.zero = st.zero
    BY <2>1 DEF State
  <2> QED BY <2>1, <2>2 DEF Stop, r, len
<1>5. CASE ~next /\ s[i] \notin {"0", "1"}
  <2>1. it.stop = "" /\ r = st
    BY <1>1, <1>5 DEF next, IsStop
  <2> QED BY <2>1 DEF Stop, r
<1> QED
  BY <1>2, <1>3, <1>4, <1>5

\* What goes on to the end of a part.
LEMMA Onward ==
    ASSUME NEW n \in Nat, NEW m \in 1 .. n, NEW T, m \in T, \A k \in m + 1 .. n : k - 1 \in T => k \in T
    PROVE  n \in T
<1> DEFINE U == {j \in 0 .. n - m : m + j \in T}
<1>1. n - m \in Nat /\ n - m \in 0 .. n - m /\ m + (n - m) = n
  OBVIOUS
<1>2. 0 \in U
  OBVIOUS
<1>3. ASSUME NEW j \in 1 .. n - m, j - 1 \in U PROVE j \in U
  <2>1. m + j \in m + 1 .. n /\ (m + j) - 1 = m + (j - 1) /\ j \in 0 .. n - m
    OBVIOUS
  <2>2. m + (j - 1) \in T
    BY <1>3
  <2> QED BY <2>1, <2>2
<1> HIDE DEF U
<1>4. n - m \in U
  BY <1>1, <1>2, <1>3, Induction
<1> QED
  BY <1>1, <1>4 DEF U

\* The first two characters of a part that is no text.
LEMMA TwoRead ==
    ASSUME NEW s \in Seq(STRING), NEW h, Reads(h, s), NEW it, SnippetPart(it), NEW p, PartAt(s, p, it),
           Begins(h[p].mode, it.source[1]), it.source[1] = "$", Len(it.source) > 1
    PROVE  /\ h[p + 1] \in State /\ h[p + 1].out = h[p].out
           /\ h[p + 1].zero = h[p].zero /\ h[p + 1].one = h[p].one
           /\ s[p + 2] = it.source[2] /\ h[p + 2] \in State
           /\ h[p + 1].mode = "dollar" /\ StepIs(h[p + 1], s, p + 2, h[p + 2])
<1>1. /\ h[p + 1] \in State /\ h[p + 1].out = h[p].out
      /\ h[p + 1].zero = h[p].zero /\ h[p + 1].one = h[p].one
      /\ h[p + 1].mode = "dollar"
  BY DollarSeen
<1>2. Len(it.source) \in Nat /\ p \in Nat
  BY PartStates
<1>3. 2 \in 1 .. Len(it.source) /\ 2 \in 0 .. Len(it.source) /\ p + 2 - 1 = p + 1
  BY <1>2
<1>4. s[p + 2] = it.source[2] /\ h[p + 2] \in State /\ h[p + 2] = Step(h[p + 2 - 1], s, p + 2)
  BY <1>3, PartStates
<1>5. StepIs(h[p + 1], s, p + 2, h[p + 2])
  BY <1>1, <1>3, <1>4, StepModes
<1> QED
  BY <1>1, <1>4, <1>5

\* Each of the others.
LEMMA NextRead ==
    ASSUME NEW s \in Seq(STRING), NEW h, Reads(h, s), NEW it, SnippetPart(it), NEW p, PartAt(s, p, it),
           NEW k \in 1 .. Len(it.source)
    PROVE  /\ s[p + k] = it.source[k] /\ h[p + (k - 1)] \in State /\ h[p + k] \in State
           /\ StepIs(h[p + (k - 1)], s, p + k, h[p + k])
<1>1. Len(it.source) \in Nat /\ p \in Nat
  BY PartStates
<1>2. k - 1 \in 0 .. Len(it.source) /\ k \in 0 .. Len(it.source) /\ p + k - 1 = p + (k - 1)
  BY <1>1
<1>3. h[p + (k - 1)] \in State /\ h[p + k] \in State
  BY <1>2, PartStates
<1>4. s[p + k] = it.source[k] /\ h[p + k] = Step(h[p + k - 1], s, p + k)
  BY PartStates
<1>5. h[p + k] = Step(h[p + (k - 1)], s, p + k)
  BY <1>2, <1>4
<1> QED
  BY <1>3, <1>4, <1>5, StepModes

\* A tab stop.
LEMMA NumberRead ==
    ASSUME NEW s \in Seq(STRING), NEW h, Reads(h, s), NEW it, SnippetPart(it), NEW p, PartAt(s, p, it),
           Begins(h[p].mode, it.source[1]), Number(it.source, it)
    PROVE  PartDone(h[p], h[p + Len(it.source)], it)
<1> DEFINE n == Len(it.source)
           a == h[p + 1]
           b == h[p + 2]
           stop == TabStop(a, s, p + 2)
           T == {k \in 2 .. n : h[p + k] = b}
<1>1. Len(it.source) > 1 /\ n > 1
  BY DEF Number
<1>2. it.source[1] = "$" /\ \A k \in 2 .. n : it.source[k] \in Digit
  BY DEF Number
<1>3. n \in Nat /\ p \in Nat /\ 2 \in 2 .. n /\ 2 \in 1 .. n
  BY <1>1, PartStates
<1>4. /\ a \in State /\ a.out = h[p].out /\ a.zero = h[p].zero /\ a.one = h[p].one
      /\ s[p + 2] = it.source[2] /\ b \in State /\ a.mode = "dollar" /\ StepIs(a, s, p + 2, b)
  BY <1>1, <1>2, TwoRead
<1> HIDE DEF a, b, stop, n
<1>5. s[p + 2] \in Digit
  BY <1>2, <1>3, <1>4
<1>6. b = [stop EXCEPT !.mode = "digits"]
  BY <1>4, <1>5 DEF StepIs, stop
<1>7. stop \in State /\ stop.out = a.out
  BY <1>4, TabStopType DEF stop
<1>8. IsStop(it, s, p + 2)
  <2>1. it.stop = IF n = 2 /\ s[p + 2] \in {"0", "1"} THEN s[p + 2] ELSE ""
    BY <1>4 DEF Number, n
  <2>2. CASE n = 2
    <3>1. ~(p + 2 < Len(s) /\ s[p + 2 + 1] \in Digit)
      <4>1. it.ends = "digit"
        BY DEF Number
      <4> QED BY <2>2, <4>1 DEF PartAt, n
    <3> QED BY <2>1, <2>2, <3>1, Zenon DEF IsStop
  <2>3. CASE n # 2
    <3>1. 3 \in 1 .. n /\ 3 \in 2 .. n /\ p + 2 + 1 = p + 3
      BY <1>3, <2>3
    <3>2. p + 3 <= Len(s) /\ s[p + 3] = it.source[3]
      <4>1. p + n <= Len(s) /\ s[p + 3] = it.source[3] /\ Len(s) \in Nat
        BY <3>1 DEF PartAt, n
      <4> QED BY <1>3, <3>1, <4>1
    <3>3. p + 2 < Len(s)
      BY <1>3, <3>2
    <3>4. s[p + 2 + 1] \in Digit
      BY <1>2, <3>1, <3>2
    <3> QED BY <2>1, <2>3, <3>3, <3>4, Zenon DEF IsStop
  <2> QED BY <2>2, <2>3
<1>9. stop.zero = a.zero \cup Stop(it, "0", Len(a.out)) /\ stop.one = a.one \cup Stop(it, "1", Len(a.out))
  BY <1>4, <1>8, TabStopRead DEF stop
<1>10. /\ b.out = a.out /\ b.mode = "digits"
       /\ b.zero = a.zero \cup Stop(it, "0", Len(a.out)) /\ b.one = a.one \cup Stop(it, "1", Len(a.out))
  BY <1>6, <1>7, <1>9 DEF State
<1>11. h[p + n] = b
  <2>1. 2 \in T
    BY <1>3 DEF b
  <2>2. ASSUME NEW k \in 2 + 1 .. n, k - 1 \in T PROVE k \in T
    <3>1. k \in 2 .. n /\ k \in 1 .. n
      BY <1>3
    <3>2. s[p + k] = it.source[k] /\ StepIs(h[p + (k - 1)], s, p + k, h[p + k])
      BY <3>1, NextRead DEF n
    <3>3. h[p + (k - 1)] = b
      BY <2>2
    <3>4. s[p + k] \in Digit
      BY <1>2, <3>1, <3>2
    <3>5. h[p + k] = b
      BY <1>10, <3>2, <3>3, <3>4 DEF StepIs
    <3> QED BY <3>1, <3>5
  <2> HIDE DEF T
  <2>3. n \in T
    BY <1>3, <2>1, <2>2, Onward
  <2> QED BY <2>3 DEF T
<1>12. it.text = <<>> /\ ModeAfter(it.ends) = "digits"
  BY DEF Number, ModeAfter
<1>13. a.out \o <<>> = a.out
  <2>1. a.out \in Seq(STRING)
    BY <1>4 DEF State
  <2> QED BY <2>1, ConcatEmptySeq
<1> QED
  BY <1>4, <1>10, <1>11, <1>12, <1>13 DEF PartDone, n

\* A variable.
LEMMA NameRead ==
    ASSUME NEW s \in Seq(STRING), NEW h, Reads(h, s), NEW it, SnippetPart(it), NEW p, PartAt(s, p, it),
           Begins(h[p].mode, it.source[1]), Name(it.source, it)
    PROVE  PartDone(h[p], h[p + Len(it.source)], it)
<1> DEFINE n == Len(it.source)
           a == h[p + 1]
           b == h[p + 2]
           T == {k \in 2 .. n : h[p + k] = b}
<1>1. Len(it.source) > 1 /\ n > 1
  BY DEF Name
<1>2. it.source[1] = "$" /\ it.source[2] \in Alpha /\ \A k \in 2 .. n : it.source[k] \in Digit \cup Alpha
  BY DEF Name
<1>3. n \in Nat /\ p \in Nat /\ 2 \in 2 .. n /\ 2 \in 1 .. n
  BY <1>1, PartStates
<1>4. /\ a \in State /\ a.out = h[p].out /\ a.zero = h[p].zero /\ a.one = h[p].one
      /\ s[p + 2] = it.source[2] /\ b \in State /\ a.mode = "dollar" /\ StepIs(a, s, p + 2, b)
  BY <1>1, <1>2, TwoRead
<1> HIDE DEF a, b, n
<1>5. b = [a EXCEPT !.mode = "name"]
  BY <1>2, <1>4 DEF StepIs
<1>6. b.out = a.out /\ b.mode = "name" /\ b.zero = a.zero /\ b.one = a.one
  BY <1>4, <1>5 DEF State
<1>7. h[p + n] = b
  <2>1. 2 \in T
    BY <1>3 DEF b
  <2>2. ASSUME NEW k \in 2 + 1 .. n, k - 1 \in T PROVE k \in T
    <3>1. k \in 2 .. n /\ k \in 1 .. n
      BY <1>3
    <3>2. s[p + k] = it.source[k] /\ StepIs(h[p + (k - 1)], s, p + k, h[p + k])
      BY <3>1, NextRead DEF n
    <3>3. h[p + (k - 1)] = b
      BY <2>2
    <3>4. s[p + k] \in Digit \cup Alpha
      BY <1>2, <3>1, <3>2
    <3>5. h[p + k] = b
      BY <1>6, <3>2, <3>3, <3>4 DEF StepIs
    <3> QED BY <3>1, <3>5
  <2> HIDE DEF T
  <2>3. n \in T
    BY <1>3, <2>1, <2>2, Onward
  <2> QED BY <2>3 DEF T
<1>8. it.text = <<>> /\ it.stop = "" /\ ModeAfter(it.ends) = "name"
  BY DEF Name, ModeAfter
<1>9. a.out \o <<>> = a.out
  <2>1. a.out \in Seq(STRING)
    BY <1>4 DEF State
  <2> QED BY <2>1, ConcatEmptySeq
<1>10. Stop(it, "0", Len(h[p].out)) = {} /\ Stop(it, "1", Len(h[p].out)) = {}
  BY <1>8 DEF Stop
<1> QED
  BY <1>4, <1>6, <1>7, <1>8, <1>9, <1>10 DEF PartDone, n

\* What is in braces: everything to the brace that closes them.
LEMMA BracesRead ==
    ASSUME NEW s \in Seq(STRING), NEW h, Reads(h, s), NEW it, SnippetPart(it), NEW p, PartAt(s, p, it),
           Begins(h[p].mode, it.source[1]), Braces(it.source, it)
    PROVE  PartDone(h[p], h[p + Len(it.source)], it)
<1> DEFINE n == Len(it.source)
           src == it.source
           a == h[p + 1]
           b == h[p + 2]
           c == src[3]
           stop == TabStop(b, s, p + 3)
           u == IF c \in Digit THEN stop ELSE b
           depth(k) == Depth(src, k)
           Inside(r, k) == /\ r.out = u.out /\ r.zero = u.zero /\ r.one = u.one
                           /\ r.depth = depth(k)
                           /\ r.mode = IF depth(k) = 0 THEN "outer" ELSE "skip"
           T == {k \in 3 .. n : Inside(h[p + k], k)}
<1>1. Len(it.source) > 2 /\ Len(it.source) > 1
  <2>1. Len(it.source) > 2
    BY DEF Braces
  <2>2. Len(it.source) \in Nat
    BY PartStates
  <2> QED BY <2>1, <2>2
<1>2. it.source[1] = "$" /\ it.source[2] = "{"
  BY DEF Braces
<1>3. \A k \in 2 .. n : depth(k) = 0 <=> k = n
  BY DEF Braces
<1>4. n \in Nat /\ p \in Nat /\ n > 2 /\ 3 \in 3 .. n /\ 3 \in 1 .. n /\ 3 \in 2 .. n
  BY <1>1, PartStates
<1>5. /\ a \in State /\ a.out = h[p].out /\ a.zero = h[p].zero /\ a.one = h[p].one
      /\ s[p + 2] = it.source[2] /\ b \in State /\ a.mode = "dollar" /\ StepIs(a, s, p + 2, b)
  <2>1. it.source[1] = "$" /\ Len(it.source) > 1
    BY <1>1, <1>2
  <2> QED BY <2>1, TwoRead
<1>6. depth(2) = 1 /\ depth(3) = 1 + Deeper(c)
  <2>1. Deeper("{") = 1
    BY DEF Deeper
  <2>2. depth(2) = depth(1) + Deeper(src[2]) /\ depth(1) = 0
    <3>1. 2 \in Nat /\ 2 > 1 /\ 2 - 1 = 1
      OBVIOUS
    <3>2. Depth(src, 2) = Depth(src, 2 - 1) + Deeper(src[2]) /\ Depth(src, 1) = 0
      BY <3>1, DepthStep
    <3> QED BY <3>1, <3>2
  <2>3. depth(3) = depth(2) + Deeper(src[3])
    <3>1. 3 \in Nat /\ 3 > 1 /\ 3 - 1 = 2
      OBVIOUS
    <3>2. Depth(src, 3) = Depth(src, 3 - 1) + Deeper(src[3])
      BY <3>1, DepthStep
    <3> QED BY <3>1, <3>2
  <2>4. Deeper(src[2]) = 1
    BY <1>2, <2>1
  <2> HIDE DEF depth, src
  <2> QED BY <2>2, <2>3, <2>4
<1> HIDE DEF a, b, n, depth, stop
<1>7. b = [a EXCEPT !.mode = "brace", !.depth = 1]
  <2>1. s[p + 2] = "{"
    BY <1>2, <1>5
  <2> QED BY <1>5, <2>1 DEF StepIs
<1>8. b.out = a.out /\ b.mode = "brace" /\ b.depth = 1 /\ b.zero = a.zero /\ b.one = a.one
  BY <1>5, <1>7 DEF State
<1>9. s[p + 3] = c /\ StepIs(b, s, p + 3, h[p + 3])
  <2>1. s[p + 3] = it.source[3] /\ StepIs(h[p + (3 - 1)], s, p + 3, h[p + 3])
    BY <1>4, NextRead DEF n
  <2>2. p + (3 - 1) = p + 2
    BY <1>4
  <2> QED BY <2>1, <2>2 DEF b
<1> HIDE DEF c
<1>10. IsStop(it, s, p + 3)
  <2>1. it.stop = IF c \in {"0", "1"} /\ src[4] \notin Digit THEN c ELSE ""
    BY DEF Braces, c
  <2>2. CASE c \in {"0", "1"}
    <3>1. Deeper(c) = 0
      <4>1. c # "{" /\ c # "}"
        BY <2>2
      <4> DEFINE up == IF c = "{" THEN 1 ELSE 0
                 down == IF c = "}" THEN 1 ELSE 0
      <4>2. Deeper(c) = up - down /\ up = 0 /\ down = 0
        BY <4>1, Zenon DEF Deeper
      <4> HIDE DEF up, down
      <4> QED BY <4>2
    <3>2. depth(3) = 1
      BY <1>6, <3>1
    <3>3. n # 3
      BY <1>3, <1>4, <3>2
    <3>4. 4 \in 1 .. n /\ p + 3 + 1 = p + 4
      BY <1>4, <3>3
    <3>5. p + n <= Len(s) /\ s[p + 4] = src[4] /\ Len(s) \in Nat
      BY <3>4 DEF PartAt, n
    <3>6. p + 3 < Len(s) /\ s[p + 3 + 1] = src[4]
      BY <1>4, <3>4, <3>5
    <3> QED BY <1>9, <2>1, <2>2, <3>6, Zenon DEF IsStop
  <2>3. CASE c \notin {"0", "1"}
    BY <1>9, <2>1, <2>3, Zenon DEF IsStop
  <2> QED BY <2>2, <2>3
<1>11. /\ stop \in State /\ stop.out = b.out /\ stop.depth = b.depth
       /\ stop.zero = b.zero \cup Stop(it, "0", Len(b.out)) /\ stop.one = b.one \cup Stop(it, "1", Len(b.out))
  BY <1>5, <1>10, TabStopType, TabStopRead DEF stop
<1>12. /\ u \in State /\ u.out = a.out /\ u.depth = 1
       /\ u.zero = a.zero \cup Stop(it, "0", Len(a.out)) /\ u.one = a.one \cup Stop(it, "1", Len(a.out))
  <2>1. CASE c \in Digit
    BY <1>8, <1>11, <2>1
  <2>2. CASE c \notin Digit
    <3>1. it.stop = ""
      <4>1. c \notin {"0", "1"}
        BY <2>2 DEF Digit
      <4> QED BY <4>1 DEF Braces, c
    <3>2. Stop(it, "0", Len(a.out)) = {} /\ Stop(it, "1", Len(a.out)) = {}
      BY <3>1 DEF Stop
    <3> QED BY <1>5, <1>8, <2>2, <3>2
  <2> QED BY <2>1, <2>2
<1>13. 3 \in T
  <2>1. h[p + 3] = InBrace(u, c)
    BY <1>8, <1>9 DEF StepIs, stop
  <2> DEFINE r == h[p + 3]
  <2> HIDE DEF u, r
  <2>2. /\ r.out = u.out /\ r.zero = u.zero /\ r.one = u.one
        /\ r.depth = u.depth + Deeper(c)
        /\ r.mode = IF u.depth + Deeper(c) = 0 THEN "outer" ELSE "skip"
    BY <1>12, <2>1, InBraceType DEF r
  <2>3. Inside(r, 3)
    BY <1>6, <1>12, <2>2
  <2> HIDE DEF Inside
  <2> QED BY <1>4, <2>3 DEF r
<1> HIDE DEF u
<1>14. ASSUME NEW k \in 3 + 1 .. n, k - 1 \in T PROVE k \in T
  <2> DEFINE q == h[p + (k - 1)]
             r == h[p + k]
             d == src[k]
  <2>1. k \in 3 .. n /\ k \in 1 .. n /\ k - 1 \in 2 .. n /\ k - 1 # n /\ k \in Nat /\ k > 1
    BY <1>4
  <2>2. s[p + k] = d /\ q \in State /\ StepIs(q, s, p + k, r)
    BY <2>1, NextRead DEF n
  <2>3. Inside(q, k - 1)
    BY <1>14
  <2>4. depth(k - 1) # 0
    BY <1>3, <2>1
  <2>5. depth(k) = depth(k - 1) + Deeper(d)
    BY <2>1, DepthStep DEF depth
  <2> HIDE DEF q, r, d
  <2>6. q.mode = "skip"
    BY <2>3, <2>4
  <2>7. r = InBrace(q, d)
    BY <2>2, <2>6 DEF StepIs
  <2>8. /\ r.out = q.out /\ r.zero = q.zero /\ r.one = q.one
        /\ r.depth = q.depth + Deeper(d)
        /\ r.mode = IF q.depth + Deeper(d) = 0 THEN "outer" ELSE "skip"
    BY <2>2, <2>7, InBraceType
  <2>9. Inside(r, k)
    BY <2>3, <2>5, <2>8
  <2> HIDE DEF Inside
  <2> QED BY <2>1, <2>9 DEF r
<1> HIDE DEF T
<1>15. n \in T
  BY <1>4, <1>13, <1>14, Onward
<1>16. Inside(h[p + n], n) /\ depth(n) = 0
  <2>1. n \in 2 .. n
    BY <1>4
  <2> QED BY <1>3, <1>15, <2>1 DEF T
<1> DEFINE r == h[p + n]
<1> HIDE DEF r
<1>17. r.out = u.out /\ r.zero = u.zero /\ r.one = u.one /\ r.mode = "outer"
  BY <1>16 DEF r
<1>18. it.text = <<>> /\ ModeAfter(it.ends) = "outer"
  BY DEF Braces, ModeAfter
<1>19. a.out \o <<>> = a.out
  <2>1. a.out \in Seq(STRING)
    BY <1>5 DEF State
  <2> QED BY <2>1, ConcatEmptySeq
<1> QED
  BY <1>5, <1>12, <1>17, <1>18, <1>19 DEF PartDone, n, r

\* Each part.
LEMMA PartRead ==
    ASSUME NEW s \in Seq(STRING), NEW h, Reads(h, s), NEW it, SnippetPart(it), NEW p, PartAt(s, p, it),
           Begins(h[p].mode, it.source[1])
    PROVE  PartDone(h[p], h[p + Len(it.source)], it)
<1>1. CASE Character(it.source, it)
  <2>1. Len(it.source) = 1
    BY <1>1 DEF Character
  <2>2. PartDone(h[p], h[p + 1], it)
    BY <1>1, CharacterRead
  <2> QED BY <2>1, <2>2
<1>2. CASE Dollar(it.source, it)
  <2>1. Len(it.source) = 2
    BY <1>2 DEF Dollar
  <2>2. PartDone(h[p], h[p + 2], it)
    BY <1>2, DollarRead
  <2> QED BY <2>1, <2>2
<1>3. CASE Number(it.source, it)
  BY <1>3, NumberRead
<1>4. CASE Name(it.source, it)
  BY <1>4, NameRead
<1>5. CASE Braces(it.source, it)
  BY <1>5, BracesRead
<1> QED
  BY <1>1, <1>2, <1>3, <1>4, <1>5 DEF SnippetPart

\* F has what the first seqs are together.
Flattens(F, seqs, n) ==
    /\ \A i \in 1 .. n : seqs[i] \in Seq(STRING)
    /\ F \in [0 .. n -> Seq(STRING)] /\ F[0] = <<>>
    /\ \A i \in 1 .. n : F[i] = F[i - 1] \o seqs[i]

\* There are such texts.
LEMMA Flattened ==
    ASSUME NEW n \in Nat, NEW seqs, \A i \in 1 .. n : seqs[i] \in Seq(STRING)
    PROVE  \E F : Flattens(F, seqs, n)
<1> DEFINE X == Seq(STRING)
           G == [z \in X \X (1 .. n) |-> z[1] \o seqs[z[2]]]
<1>1. <<>> \in X
  OBVIOUS
<1>2. G \in [X \X (1 .. n) -> X]
  <2>1. \A x \in X, i \in 1 .. n : x \o seqs[i] \in X
    BY ConcatProperties
  <2> HIDE DEF X
  <2> QED BY <2>1
<1> HIDE DEF G, X
<1>3. PICK F \in [0 .. n -> X] : Iterates(F, G, <<>>, n)
  BY <1>1, <1>2, Iterated
<1>4. ASSUME NEW i \in 1 .. n PROVE F[i] = F[i - 1] \o seqs[i]
  <2>1. i - 1 \in 0 .. n
    OBVIOUS
  <2>2. F[i] = G[<<F[i - 1], i>>] /\ F[i - 1] \in X
    BY <1>3, <2>1 DEF Iterates
  <2> QED BY <2>2 DEF G
<1> QED
  BY <1>3, <1>4 DEF Flattens, Iterates, X

\* The first k of a sequence.
First(f, k) == [i \in 1 .. k |-> f[i]]

\* FlattenSeq of the first k sources is the k-th of them.
LEMMA FlattenIs ==
    ASSUME NEW n \in Nat, NEW f, NEW F, Flattens(F, f, n), NEW k \in 0 .. n
    PROVE  FlattenSeq(First(f, k)) = F[k]
<1> DEFINE seqs == First(f, k)
<1>0. \A i \in 1 .. n : f[i] \in Seq(STRING)
  BY DEF Flattens
<1> USE DEF First
<1> DEFINE Is(g) == g = [i \in 1 .. k |-> IF i = 1 THEN seqs[i] ELSE g[i - 1] \o seqs[i]]
           g0 == CHOOSE g : Is(g)
           g1 == [i \in 1 .. k |-> F[i]]
<1>1. seqs \in Seq(Seq(STRING)) /\ Len(seqs) = k /\ k \in Nat
  <2>1. \A i \in 1 .. k : f[i] \in Seq(STRING)
    BY <1>0
  <2> DEFINE X == Seq(STRING)
  <2>2. \A i \in 1 .. k : f[i] \in X
    BY <2>1
  <2> HIDE DEF X
  <2>3. seqs \in Seq(X) /\ Len(seqs) = k
    BY <2>2
  <2> QED BY <2>3 DEF X
<1>2. CASE k = 0
  <2>1. FlattenSeq(seqs) = seqs /\ seqs = <<>>
    BY <1>1, <1>2 DEF FlattenSeq
  <2> QED BY <1>2, <2>1 DEF Flattens
<1>3. CASE k # 0
  <2>1. ASSUME NEW i \in 1 .. k PROVE g1[i] = IF i = 1 THEN seqs[i] ELSE g1[i - 1] \o seqs[i]
    <3>1. F[i] = F[i - 1] \o f[i] /\ f[i] \in Seq(STRING) /\ seqs[i] = f[i]
      <4>1. i \in 1 .. n
        OBVIOUS
      <4> QED BY <4>1 DEF Flattens
    <3>2. CASE i = 1
      <4>1. F[i - 1] = <<>>
        BY <3>2 DEF Flattens
      <4> QED BY <3>1, <3>2, <4>1, ConcatEmptySeq
    <3>3. CASE i # 1
      <4>1. i - 1 \in 1 .. k
        BY <3>3
      <4> QED BY <3>1, <3>3, <4>1
    <3> QED BY <3>2, <3>3
  <2>2. g1 = [i \in 1 .. k |-> g1[i]]
    OBVIOUS
  <2> HIDE DEF g1
  <2>3. Is(g1)
    BY <2>1, <2>2
  <2>4. Is(g0)
    <3> HIDE DEF Is
    <3> QED BY <2>3
  <2>5. FlattenSeq(seqs) = g0[k]
    <3>1. FlattenSeq(seqs) = LET flatten[i \in 1 .. Len(seqs)] ==
                                     IF i = 1 THEN seqs[i] ELSE flatten[i - 1] \o seqs[i]
                             IN flatten[Len(seqs)]
      BY <1>1, <1>3 DEF FlattenSeq
    <3> QED BY <1>1, <3>1
  <2> HIDE DEF g0
  <2> DEFINE T == {i \in 1 .. k : g0[i] = F[i]}
  <2>6. \A i \in 1 .. k : g0[i] = IF i = 1 THEN seqs[i] ELSE g0[i - 1] \o seqs[i]
    BY <2>4, Zenon
  <2>7. \A i \in 1 .. k : F[i] = IF i = 1 THEN seqs[i] ELSE F[i - 1] \o seqs[i]
    <3>1. ASSUME NEW i \in 1 .. k PROVE F[i] = IF i = 1 THEN seqs[i] ELSE F[i - 1] \o seqs[i]
      <4>1. g1[i] = F[i]
        BY DEF g1
      <4>2. CASE i = 1
        BY <2>1, <4>1, <4>2
      <4>3. CASE i # 1
        <5>1. i - 1 \in 1 .. k
          BY <4>3
        <5>2. g1[i - 1] = F[i - 1]
          BY <5>1 DEF g1
        <5> QED BY <2>1, <4>1, <4>3, <5>2
      <4> QED BY <4>2, <4>3
    <3> QED BY <3>1
  <2>8. 1 \in T /\ 1 \in 1 .. k
    <3>1. 1 \in 1 .. k
      BY <1>1, <1>3
    <3> QED BY <2>6, <2>7, <3>1
  <2>9. ASSUME NEW i \in 1 + 1 .. k, i - 1 \in T PROVE i \in T
    <3>1. i \in 1 .. k /\ i # 1
      BY <1>1
    <3>2. g0[i - 1] = F[i - 1]
      BY <2>9
    <3>3. g0[i] = g0[i - 1] \o seqs[i] /\ F[i] = F[i - 1] \o seqs[i]
      BY <2>6, <2>7, <3>1
    <3> QED BY <3>1, <3>2, <3>3
  <2> HIDE DEF T
  <2>10. k \in T
    BY <1>1, <2>8, <2>9, Onward
  <2> QED BY <2>5, <2>10 DEF T
<1> QED
  BY <1>2, <1>3

\* F has f[k] behind what is before it, in the whole.
InWhole(F, f, n, k) ==
    /\ F[k - 1] \in Seq(STRING) /\ F[k] \in Seq(STRING) /\ F[n] \in Seq(STRING)
    /\ Len(F[k]) = Len(F[k - 1]) + Len(f[k])
    /\ Len(F[k]) <= Len(F[n])
    /\ \A i \in 1 .. Len(f[k]) : F[n][Len(F[k - 1]) + i] = f[k][i]

\* One of them in the whole.
LEMMA FlattenPart ==
    ASSUME NEW n \in Nat, NEW f, NEW F, Flattens(F, f, n), NEW k \in 1 .. n
    PROVE  InWhole(F, f, n, k)
<1>1. \A j \in 0 .. n : F[j] \in Seq(STRING) /\ Len(F[j]) \in Nat
  <2>1. \A j \in 0 .. n : F[j] \in Seq(STRING)
    BY DEF Flattens
  <2> QED BY <2>1
<1>2. ASSUME NEW j \in 1 .. n
      PROVE  /\ Len(F[j]) = Len(F[j - 1]) + Len(f[j]) /\ Len(f[j]) \in Nat
             /\ \A i \in 1 .. Len(F[j - 1]) : F[j][i] = F[j - 1][i]
             /\ \A i \in 1 .. Len(f[j]) : F[j][Len(F[j - 1]) + i] = f[j][i]
  <2> DEFINE a == F[j - 1]
             b == f[j]
             c == F[j]
  <2>1. a \in Seq(STRING) /\ b \in Seq(STRING) /\ c = a \o b
    <3>1. j - 1 \in 0 .. n
      OBVIOUS
    <3> QED BY <1>1, <3>1 DEF Flattens
  <2> HIDE DEF a, b, c
  <2>2. /\ Len(c) = Len(a) + Len(b) /\ Len(b) \in Nat /\ Len(a) \in Nat
        /\ \A i \in 1 .. Len(a) + Len(b) : c[i] = IF i <= Len(a) THEN a[i] ELSE b[i - Len(a)]
    BY <2>1, ConcatProperties
  <2>3. \A i \in 1 .. Len(a) : c[i] = a[i]
    BY <2>2
  <2>4. ASSUME NEW i \in 1 .. Len(b) PROVE c[Len(a) + i] = b[i]
    <3>1. Len(a) + i \in 1 .. Len(a) + Len(b) /\ ~(Len(a) + i <= Len(a)) /\ (Len(a) + i) - Len(a) = i
      BY <2>2
    <3> QED BY <2>2, <3>1
  <2> QED BY <2>2, <2>3, <2>4 DEF a, b, c
<1> DEFINE Prefix(j) == Len(F[k]) <= Len(F[j]) /\ \A i \in 1 .. Len(F[k]) : F[j][i] = F[k][i]
           T == {j \in 1 .. n : j >= k /\ Prefix(j)}
<1>3. k \in T
  BY <1>1
<1>4. ASSUME NEW j \in k + 1 .. n, j - 1 \in T PROVE j \in T
  <2>1. j \in 1 .. n /\ j >= k /\ j - 1 \in 0 .. n /\ j \in 0 .. n /\ k \in 0 .. n
    OBVIOUS
  <2>2. Prefix(j - 1)
    BY <1>4
  <2>3. Len(F[k]) \in Nat /\ Len(F[j - 1]) \in Nat /\ Len(F[j]) \in Nat
    BY <1>1, <2>1
  <2>4. Len(F[j - 1]) <= Len(F[j])
    <3> DEFINE a == Len(F[j - 1])
               b == Len(f[j])
               c == Len(F[j])
    <3>1. c = a + b /\ b \in Nat /\ a \in Nat
      BY <1>2, <2>1, <2>3
    <3> HIDE DEF a, b, c
    <3>2. a <= c
      BY <3>1
    <3> QED BY <3>2 DEF a, c
  <2>5. Len(F[k]) <= Len(F[j])
    BY <2>2, <2>3, <2>4
  <2>6. ASSUME NEW i \in 1 .. Len(F[k]) PROVE F[j][i] = F[k][i]
    <3>1. i \in 1 .. Len(F[j - 1])
      BY <2>2, <2>3
    <3> QED BY <1>2, <2>1, <2>2, <3>1
  <2> QED BY <2>1, <2>5, <2>6
<1> HIDE DEF T
<1>5. n \in T
  BY <1>3, <1>4, Onward
<1>6. Prefix(n)
  BY <1>5 DEF T
<1>7. k - 1 \in 0 .. n /\ k \in 0 .. n /\ n \in 0 .. n
  OBVIOUS
<1>8. ASSUME NEW i \in 1 .. Len(f[k]) PROVE F[n][Len(F[k - 1]) + i] = f[k][i]
  <2>1. Len(F[k - 1]) + i \in 1 .. Len(F[k])
    <3>1. Len(F[k]) = Len(F[k - 1]) + Len(f[k]) /\ Len(f[k]) \in Nat /\ Len(F[k - 1]) \in Nat
      BY <1>1, <1>2, <1>7
    <3> DEFINE a == Len(F[k - 1])
               b == Len(f[k])
               c == Len(F[k])
    <3>2. i \in 1 .. b /\ c = a + b /\ b \in Nat /\ a \in Nat
      BY <3>1
    <3> HIDE DEF a, b, c
    <3>3. a + i \in 1 .. c
      BY <3>2
    <3> QED BY <3>3 DEF a, c
  <2> QED BY <1>2, <1>6, <2>1
<1> QED
  BY <1>1, <1>2, <1>6, <1>7, <1>8 DEF InWhole

\* The places of the tab stop which in the first k parts; T has the texts before them.
StopsIn(items, T, which, k) == {Len(T[j - 1]) : j \in {i \in 1 .. k : items[i].stop = which}}

\* The stops of one more part.
LEMMA StopsStep ==
    ASSUME NEW items, NEW T, NEW which, NEW k \in Nat, k > 0
    PROVE  StopsIn(items, T, which, k) = StopsIn(items, T, which, k - 1) \cup Stop(items[k], which, Len(T[k - 1]))
<1> DEFINE at(m) == {i \in 1 .. m : items[i].stop = which}
<1>1. CASE items[k].stop = which
  <2>1. at(k) = at(k - 1) \cup {k}
    BY <1>1
  <2>2. Stop(items[k], which, Len(T[k - 1])) = {Len(T[k - 1])}
    BY <1>1 DEF Stop
  <2> HIDE DEF at
  <2>3. {Len(T[j - 1]) : j \in at(k)} = {Len(T[j - 1]) : j \in at(k - 1)} \cup {Len(T[k - 1])}
    BY <2>1
  <2> QED BY <2>2, <2>3 DEF StopsIn, at
<1>2. CASE items[k].stop # which
  <2>1. at(k) = at(k - 1)
    BY <1>2
  <2>2. Stop(items[k], which, Len(T[k - 1])) = {}
    BY <1>2 DEF Stop
  <2> QED BY <2>1, <2>2 DEF StopsIn
<1> QED
  BY <1>1, <1>2

\* A part has a source, and ends in one of three ways.
LEMMA PartEnds ==
    ASSUME NEW it, SnippetPart(it)
    PROVE  /\ Len(it.source) \in Nat /\ Len(it.source) > 0
           /\ it.ends \in {"", "digit", "name"}
<1>1. Len(it.source) \in Nat
  BY DEF SnippetPart
<1>2. Len(it.source) > 0
  <2>1. CASE Character(it.source, it)
    <3>1. Len(it.source) = 1
      BY <2>1 DEF Character
    <3> QED BY <3>1
  <2>2. CASE Dollar(it.source, it)
    <3>1. Len(it.source) = 2
      BY <2>2 DEF Dollar
    <3> QED BY <3>1
  <2>3. CASE Number(it.source, it) \/ Name(it.source, it)
    <3>1. Len(it.source) > 1
      BY <2>3 DEF Number, Name
    <3> QED BY <1>1, <3>1
  <2>4. CASE Braces(it.source, it)
    <3>1. Len(it.source) > 2
      BY <2>4 DEF Braces
    <3> QED BY <1>1, <3>1
  <2> QED BY <2>1, <2>2, <2>3, <2>4 DEF SnippetPart
<1>3. it.ends \in {"", "digit", "name"}
  BY DEF SnippetPart, Character, Dollar, Number, Name, Braces
<1> QED
  BY <1>1, <1>2, <1>3

\* All parts.
Sources(items, n) == [i \in 1 .. n |-> items[i].source]
Texts(items, n) == [i \in 1 .. n |-> items[i].text]

\* end is the state behind n parts.
AllRead(end, items, T, n) ==
    /\ end.out = T[n]
    /\ end.zero = StopsIn(items, T, "0", n)
    /\ end.one = StopsIn(items, T, "1", n)

\* What is read of the first k parts is what they leave.
LEMMA PartsRead ==
    ASSUME NEW n \in Nat, NEW items, \A i \in 1 .. n : SnippetPart(items[i]),
           \A k \in 1 .. n : k < n => Follows(items[k].ends, items[k + 1].source[1]),
           NEW S, Flattens(S, Sources(items, n), n),
           NEW T, Flattens(T, Texts(items, n), n),
           NEW h, Reads(h, S[n])
    PROVE  AllRead(h[Len(S[n])], items, T, n)
<1> DEFINE s == S[n]
           at(k) == Len(S[k])
           Mode1(k) == IF k = 0 THEN "outer" ELSE ModeAfter(items[k].ends)
           Read(k) == /\ h[at(k)].out = T[k]
                      /\ h[at(k)].zero = StopsIn(items, T, "0", k)
                      /\ h[at(k)].one = StopsIn(items, T, "1", k)
                      /\ h[at(k)].mode = Mode1(k)
           V == {k \in 0 .. n : Read(k)}
           src == Sources(items, n)
<1>1. \A i \in 1 .. n : src[i] \in Seq(STRING)
  BY DEF SnippetPart, Sources
<1>2. s \in Seq(STRING) /\ Len(s) \in Nat
  <2>1. S[n] \in Seq(STRING)
    BY DEF Flattens
  <2> QED BY <2>1
<1>3. ASSUME NEW k \in 1 .. n
      PROVE  /\ at(k - 1) \in Nat /\ at(k) = at(k - 1) + Len(items[k].source) /\ at(k) <= Len(s)
             /\ \A i \in 1 .. Len(items[k].source) : s[at(k - 1) + i] = items[k].source[i]
  <2>1. /\ S[k - 1] \in Seq(STRING)
        /\ Len(S[k]) = Len(S[k - 1]) + Len(src[k])
        /\ Len(S[k]) <= Len(S[n])
        /\ \A i \in 1 .. Len(src[k]) : S[n][Len(S[k - 1]) + i] = src[k][i]
    <3>1. Flattens(S, src, n)
      OBVIOUS
    <3> HIDE DEF src
    <3>2. InWhole(S, src, n, k)
      BY <3>1, FlattenPart
    <3> QED BY <3>2 DEF InWhole
  <2>2. src[k] = items[k].source
    BY DEF Sources
  <2>3. Len(S[k - 1]) \in Nat
    BY <2>1
  <2> HIDE DEF src
  <2> QED BY <2>1, <2>2, <2>3
<1>4. ASSUME NEW k \in 1 .. n PROVE PartAt(s, at(k - 1), items[k])
  <2>1. items[k].ends = "digit" /\ at(k) < Len(s) => s[at(k) + 1] \notin Digit
    <3> SUFFICES ASSUME items[k].ends = "digit", at(k) < Len(s) PROVE s[at(k) + 1] \notin Digit
      OBVIOUS
    <3>1. k # n
      BY <1>2
    <3>2. k + 1 \in 1 .. n /\ (k + 1) - 1 = k /\ k < n
      BY <3>1
    <3>3. SnippetPart(items[k + 1])
      BY <3>2
    <3>4. 1 \in 1 .. Len(items[k + 1].source)
      <4>1. Len(items[k + 1].source) \in Nat /\ Len(items[k + 1].source) > 0
        BY <3>3, PartEnds
      <4> QED BY <4>1
    <3>5. s[at((k + 1) - 1) + 1] = items[k + 1].source[1]
      BY <1>3, <3>2, <3>4
    <3>6. Follows(items[k].ends, items[k + 1].source[1])
      BY <3>2
    <3> HIDE DEF at, s
    <3>7. s[at(k) + 1] = items[k + 1].source[1]
      BY <3>2, <3>5
    <3> QED BY <3>6, <3>7 DEF Follows
  <2>2. at(k - 1) + Len(items[k].source) = at(k) /\ at(k - 1) \in Nat /\ at(k) <= Len(s)
    BY <1>3
  <2>3. \A i \in 1 .. Len(items[k].source) : s[at(k - 1) + i] = items[k].source[i]
    BY <1>3
  <2> HIDE DEF at, s
  <2> QED BY <2>1, <2>2, <2>3 DEF PartAt
<1>5. 0 \in V
  <2>1. at(0) = 0
    <3>1. S[0] = <<>>
      BY DEF Flattens
    <3> QED BY <3>1
  <2>2. h[at(0)] = Start /\ T[0] = <<>>
    BY <2>1 DEF Reads, Flattens
  <2>3. \A which : StopsIn(items, T, which, 0) = {}
    BY DEF StopsIn
  <2>4. Start.out = <<>> /\ Start.zero = {} /\ Start.one = {} /\ Start.mode = "outer"
    BY DEF Start
  <2> HIDE DEF at
  <2>5. Read(0)
    BY <2>2, <2>3, <2>4
  <2> QED BY <2>5
<1>6. ASSUME NEW k \in 1 .. n, k - 1 \in V PROVE k \in V
  <2> DEFINE it == items[k]
             a == h[at(k - 1)]
             b == h[at(k)]
  <2>1. Read(k - 1) /\ k \in 0 .. n /\ k \in Nat /\ k > 0
    BY <1>6
  <2>2. SnippetPart(it)
    OBVIOUS
  <2>3. Begins(a.mode, it.source[1])
    <3>1. CASE k = 1
      <4>1. a.mode = Mode1(k - 1)
        BY <2>1
      <4>2. Mode1(k - 1) = "outer"
        BY <3>1
      <4> QED BY <4>1, <4>2 DEF Begins
    <3>2. CASE k # 1
      <4> DEFINE j == k - 1
      <4>1. j \in 1 .. n /\ j < n /\ j + 1 = k /\ j # 0
        BY <3>2
      <4> HIDE DEF j
      <4>2. a.mode = ModeAfter(items[j].ends)
        BY <2>1, <4>1 DEF j
      <4>3. Follows(items[j].ends, items[j + 1].source[1])
        BY <4>1
      <4>4. Follows(items[j].ends, it.source[1])
        BY <4>1, <4>3
      <4>5. items[j].ends \in {"", "digit", "name"}
        <5>1. SnippetPart(items[j])
          BY <4>1
        <5> QED BY <5>1, PartEnds
      <4> HIDE DEF a, it
      <4> QED BY <4>2, <4>4, <4>5 DEF Follows, Begins, ModeAfter
    <3> QED BY <3>1, <3>2
  <2>4. PartAt(s, at(k - 1), it)
    BY <1>4
  <2>5. h[at(k - 1) + Len(it.source)] = b
    <3>1. at(k - 1) + Len(it.source) = at(k)
      BY <1>3
    <3> HIDE DEF at
    <3> QED BY <3>1
  <2>6. Reads(h, s)
    OBVIOUS
  <2> DEFINE p == at(k - 1)
  <2>10. a = h[p]
    OBVIOUS
  <2> HIDE DEF it, s, b, p
  <2>7. PartDone(h[p], h[p + Len(it.source)], it)
    <3>1. PartAt(s, p, it) /\ Begins(h[p].mode, it.source[1])
      BY <2>3, <2>4, <2>10 DEF p
    <3> QED BY <1>2, <2>2, <2>6, <3>1, PartRead
  <2>11. PartDone(a, b, it)
    BY <2>5, <2>7, <2>10 DEF p
  <2>8. T[k] = T[k - 1] \o it.text
    BY DEF Flattens, Texts, it
  <2>9. Read(k)
    <3>1. /\ StopsIn(items, T, "0", k) = StopsIn(items, T, "0", k - 1) \cup Stop(it, "0", Len(T[k - 1]))
          /\ StopsIn(items, T, "1", k) = StopsIn(items, T, "1", k - 1) \cup Stop(it, "1", Len(T[k - 1]))
      BY <2>1, StopsStep DEF it
    <3>2. /\ a.out = T[k - 1] /\ a.zero = StopsIn(items, T, "0", k - 1)
          /\ a.one = StopsIn(items, T, "1", k - 1)
      BY <2>1
    <3> HIDE DEF a
    <3>3. /\ b.out = T[k] /\ b.zero = StopsIn(items, T, "0", k)
          /\ b.one = StopsIn(items, T, "1", k) /\ b.mode = ModeAfter(it.ends)
      BY <2>8, <2>11, <3>1, <3>2 DEF PartDone
    <3>4. Mode1(k) = ModeAfter(it.ends)
      BY <2>1 DEF it
    <3> HIDE DEF Mode1, at
    <3> QED BY <3>3, <3>4 DEF b
  <2> HIDE DEF Read
  <2> QED BY <2>1, <2>9
<1> HIDE DEF V
<1>7. n \in V
  <2>1. n \in 0 .. n
    OBVIOUS
  <2> QED BY <1>5, <1>6, <2>1, Induction
<1> QED
  BY <1>7 DEF V, AllRead

\* A snippet of the server.
LEMMA SnippetRight ==
    ASSUME NEW items \in BoundedSeq(Item, MaxItems), WellFormed(items)
    PROVE  IsPlain(items, ProcessSnippet(Source(items)))
<1> DEFINE n == Len(items)
           src == Sources(items, n)
           txt == Texts(items, n)
           text(k) == FlattenSeq([i \in 1 .. k |-> items[i].text])
           stops(which) == {Len(text(k - 1)) : k \in {i \in 1 .. n : items[i].stop = which}}
<1>1. n \in Nat /\ items \in [1 .. n -> Item] /\ DOMAIN items = 1 .. n
  <2>1. PICK m \in 0 .. MaxItems : items \in [1 .. m -> Item]
    BY DEF BoundedSeq, SeqOf
  <2>2. m \in Nat
    BY SnippetAssumption
  <2>3. Len(items) = m
    BY <2>1, <2>2
  <2> QED BY <2>1, <2>2, <2>3
<1>2. \A i \in 1 .. n : SnippetPart(items[i])
  BY <1>1, SnippetAssumption
<1>3. \A k \in 1 .. n : k < n => Follows(items[k].ends, items[k + 1].source[1])
  <2> SUFFICES ASSUME NEW k \in 1 .. n, k < n PROVE Follows(items[k].ends, items[k + 1].source[1])
    OBVIOUS
  <2>1. k \in 1 .. n - 1 /\ k + 1 \in 1 .. n
    BY <1>1
  <2> DEFINE next == Head(items[k + 1].source)
  <2>2. Follows(items[k].ends, next)
    BY <2>1 DEF WellFormed
  <2>3. next = items[k + 1].source[1]
    <3>1. SnippetPart(items[k + 1])
      BY <1>2, <2>1
    <3>2. Len(items[k + 1].source) > 0 /\ items[k + 1].source \in Seq(STRING)
      BY <3>1, PartEnds DEF SnippetPart
    <3> QED BY <3>2
  <2> HIDE DEF next
  <2> QED BY <2>2, <2>3
<1>4. (\A i \in 1 .. n : src[i] \in Seq(STRING)) /\ (\A i \in 1 .. n : txt[i] \in Seq(STRING))
  BY <1>2 DEF SnippetPart, Sources, Texts
<1> HIDE DEF src, txt
<1>5. PICK S : Flattens(S, src, n)
  BY <1>1, <1>4, Flattened
<1>6. PICK T : Flattens(T, txt, n)
  BY <1>1, <1>4, Flattened
<1>7. Source(items) = S[n]
  <2>1. n \in 0 .. n
    BY <1>1
  <2>2. FlattenSeq(First(src, n)) = S[n]
    BY <1>1, <1>5, <2>1, FlattenIs
  <2>3. First(src, n) = [k \in DOMAIN items |-> items[k].source]
    BY <1>1 DEF First, src, Sources
  <2> QED BY <2>2, <2>3 DEF Source
<1>8. ASSUME NEW k \in 0 .. n PROVE text(k) = T[k]
  <2>1. FlattenSeq(First(txt, k)) = T[k]
    BY <1>1, <1>6, FlattenIs
  <2>2. First(txt, k) = [i \in 1 .. k |-> items[i].text]
    BY <1>1 DEF First, txt, Texts
  <2> QED BY <2>1, <2>2
<1>9. PICK h : Reads(h, S[n]) /\ ProcessSnippet(S[n]) = Marked(h[Len(S[n])])
  <2>1. n \in 0 .. n
    BY <1>1
  <2>2. S[n] \in Seq(STRING)
    BY <1>5, <2>1 DEF Flattens
  <2> QED BY <2>2, SnippetRead
<1>10. AllRead(h[Len(S[n])], items, T, n)
  <2> HIDE DEF n
  <2> QED BY <1>1, <1>2, <1>3, <1>5, <1>6, <1>9, PartsRead DEF src, txt
<1>11. ASSUME NEW which PROVE stops(which) = StopsIn(items, T, which, n)
  <2> DEFINE K == {i \in 1 .. n : items[i].stop = which}
  <2>1. \A k \in K : Len(text(k - 1)) = Len(T[k - 1])
    <3>1. \A k \in K : k - 1 \in 0 .. n
      BY <1>1
    <3> HIDE DEF K, text
    <3> QED BY <1>8, <3>1
  <2> HIDE DEF K, text
  <2>2. {Len(text(k - 1)) : k \in K} = {Len(T[k - 1]) : k \in K}
    BY <2>1
  <2> QED BY <2>2 DEF StopsIn, K
<1>12. text(n) = T[n]
  <2>1. n \in 0 .. n
    BY <1>1
  <2> HIDE DEF text
  <2> QED BY <1>8, <2>1
<1> DEFINE r == ProcessSnippet(Source(items))
<1>13. /\ r.text = T[n]
       /\ r.carets = IF StopsIn(items, T, "1", n) # {} THEN StopsIn(items, T, "1", n)
                     ELSE IF StopsIn(items, T, "0", n) # {} THEN StopsIn(items, T, "0", n)
                     ELSE {Len(T[n])}
  BY <1>7, <1>9, <1>10 DEF Marked, AllRead
<1>14. /\ r.text = text(n)
       /\ r.carets = IF stops("1") # {} THEN stops("1")
                     ELSE IF stops("0") # {} THEN stops("0")
                     ELSE {Len(text(n))}
  <2>1. stops("1") = StopsIn(items, T, "1", n) /\ stops("0") = StopsIn(items, T, "0", n)
    BY <1>11
  <2> HIDE DEF stops, text, r
  <2> QED BY <1>12, <1>13, <2>1
<1> QED
  BY <1>14, Zenon DEF IsPlain

\* A text without tab stops.
LEMMA PlainRead ==
    ASSUME NEW s \in Seq(STRING), NEW h, Reads(h, s), NEW m \in 0 .. Len(s), \A i \in 1 .. m : s[i] # "$"
    PROVE  /\ h[m].out = SubSeq(s, 1, m) /\ h[m].mode = "outer"
           /\ h[m].zero = {} /\ h[m].one = {} /\ h[m] \in State
<1> DEFINE Read(k) == /\ h[k].out = SubSeq(s, 1, k) /\ h[k].mode = "outer"
                      /\ h[k].zero = {} /\ h[k].one = {}
           T == {k \in 0 .. m : Read(k)}
<1>1. m \in Nat /\ m <= Len(s) /\ \A k \in 0 .. m : h[k] \in State
  BY DEF Reads
<1>2. 0 \in T
  <2>1. SubSeq(s, 1, 0) = <<>>
    BY SubSeqEmpty
  <2>2. h[0] = Start
    BY DEF Reads
  <2>3. Read(0)
    BY <2>1, <2>2 DEF Start
  <2> QED BY <2>3
<1>3. ASSUME NEW k \in 1 .. m, k - 1 \in T PROVE k \in T
  <2> DEFINE a == h[k - 1]
             r == h[k]
             c == s[k]
  <2>1. k \in 1 .. Len(s) /\ k - 1 \in 0 .. m /\ k \in 0 .. m /\ 1 \in 1 .. Len(s) /\ k \in 1 .. Len(s)
    BY <1>1
  <2>2. a \in State /\ r = Step(a, s, k) /\ <<c>> \in Seq(STRING) /\ c # "$"
    <3>1. a \in State
      BY <1>1, <2>1
    <3>2. <<c>> \in Seq(STRING)
      BY <2>1, OneOrTwo
    <3>3. r = Step(a, s, k)
      BY <2>1 DEF Reads
    <3> QED BY <3>1, <3>2, <3>3
  <2>3. Read(k - 1)
    BY <1>3
  <2>4. SubSeq(s, 1, k) = SubSeq(s, 1, k - 1) \o <<c>>
    <3>1. k \in 1 .. Len(s)
      BY <2>1
    <3> QED BY <2>1, <3>1, SubSeqRecursiveSecond
  <2> HIDE DEF a, r
  <2>5. StepIs(a, s, k, r)
    BY <2>2, StepModes
  <2>6. r = Copied(a, <<c>>)
    BY <2>2, <2>3, <2>5 DEF StepIs, a
  <2> HIDE DEF c
  <2> DEFINE t == <<c>>
  <2>9. a \in State /\ t \in Seq(STRING) /\ r = Copied(a, t)
    BY <2>2, <2>6
  <2> HIDE DEF t
  <2>7. r.mode = "outer" /\ r.out = a.out \o t /\ r.zero = a.zero /\ r.one = a.one
    BY <2>9, CopiedType
  <2>8. Read(k)
    BY <2>3, <2>4, <2>7 DEF a, r, t
  <2> HIDE DEF Read
  <2> QED BY <2>1, <2>8
<1> HIDE DEF T
<1>4. m \in T
  <2>1. m \in 0 .. m
    BY <1>1
  <2> QED BY <1>1, <1>2, <1>3, <2>1, Induction
<1>5. h[m] \in State
  <2>1. m \in 0 .. m
    BY <1>1
  <2> QED BY <1>1, <2>1
<1> QED
  BY <1>4, <1>5 DEF T

\* The same, to its end.
LEMMA PlainSnippet ==
    ASSUME NEW s \in Seq(STRING), \A i \in 1 .. Len(s) : s[i] # "$"
    PROVE  ProcessSnippet(s) = [text |-> s, carets |-> {Len(s)}]
<1>1. PICK h : Reads(h, s) /\ ProcessSnippet(s) = Marked(h[Len(s)])
  BY SnippetRead
<1>2. Len(s) \in 0 .. Len(s)
  OBVIOUS
<1>3. h[Len(s)].out = SubSeq(s, 1, Len(s)) /\ h[Len(s)].zero = {} /\ h[Len(s)].one = {}
  BY <1>1, <1>2, PlainRead
<1>4. SubSeq(s, 1, Len(s)) = s
  BY SubSeqFull
<1> QED
  BY <1>1, <1>3, <1>4 DEF Marked

\* A sequence of three.
LEMMA TripleType ==
    ASSUME NEW S, NEW a \in S, NEW b \in S, NEW c \in S PROVE <<a, b, c>> \in Seq(S)
  OBVIOUS

\* Three more characters.
LEMMA ThreeMore ==
    ASSUME NEW x \in Seq(STRING), NEW a \in STRING, NEW b \in STRING, NEW c \in STRING
    PROVE  LET y == x \o <<a, b, c>>
               L == Len(x)
           IN  /\ y \in Seq(STRING) /\ Len(y) = L + 3
               /\ \A i \in 1 .. L : y[i] = x[i]
               /\ y[L + 1] = a /\ y[L + 2] = b /\ y[L + 3] = c
               /\ SubSeq(y, 1, L) = x
<1> DEFINE t == <<a, b, c>>
           y == x \o t
           L == Len(x)
<1>1. t \in Seq(STRING) /\ Len(t) = 3 /\ t[1] = a /\ t[2] = b /\ t[3] = c
  <2>1. t \in Seq(STRING)
    BY TripleType
  <2>2. Len(t) = 3 /\ t[1] = a /\ t[2] = b /\ t[3] = c
    OBVIOUS
  <2> QED BY <2>1, <2>2
<1> HIDE DEF t
<1>2. L \in Nat
  OBVIOUS
<1>3. y \in Seq(STRING) /\ Len(y) = L + 3
  <2>1. y \in Seq(STRING) /\ Len(y) = Len(x) + Len(t)
    BY <1>1, ConcatProperties
  <2> HIDE DEF y
  <2> QED BY <1>1, <2>1
<1>4. /\ \A i \in 1 .. L : y[i] = x[i]
      /\ y[L + 1] = t[1] /\ y[L + 2] = t[2] /\ y[L + 3] = t[3]
  <2>1. \A i \in 1 .. Len(x) + Len(t) : y[i] = IF i <= Len(x) THEN x[i] ELSE t[i - Len(x)]
    BY <1>1, ConcatProperties
  <2> HIDE DEF y
  <2>2. L + 1 \in 1 .. L + 3 /\ L + 2 \in 1 .. L + 3 /\ L + 3 \in 1 .. L + 3
    BY <1>2
  <2>3. y[L + 1] = t[L + 1 - L] /\ y[L + 2] = t[L + 2 - L] /\ y[L + 3] = t[L + 3 - L]
    BY <1>1, <1>2, <2>1, <2>2
  <2>4. \A i \in 1 .. L : i \in 1 .. Len(x) + Len(t)
    BY <1>1, <1>2
  <2>5. L + 1 - L = 1 /\ L + 2 - L = 2 /\ L + 3 - L = 3
    BY <1>2
  <2>6. \A i \in 1 .. L : y[i] = x[i]
    BY <2>1, <2>4
  <2> HIDE DEF L
  <2> QED BY <2>3, <2>5, <2>6
<1>5. SubSeq(y, 1, L) = x
  BY <1>1, PartsOfConcat
<1> QED
  BY <1>1, <1>3, <1>4, <1>5 DEF t

\* A snippet that ends with $0 and a character.
LEMMA FinalStop ==
    ASSUME NEW x \in Seq(STRING), \A i \in 1 .. Len(x) : x[i] # "$"
    PROVE  ProcessSnippet(x \o <<"$", "0", "b">>) = [text |-> x \o <<"b">>, carets |-> {Len(x)}]
<1> DEFINE a == "$"
           b == "0"
           c == "b"
           y == x \o <<a, b, c>>
           L == Len(x)
           stop == [source |-> <<a, b>>, text |-> <<>>, stop |-> b, ends |-> "digit"]
           char == [source |-> <<c>>, text |-> <<c>>, stop |-> "", ends |-> ""]
<1>1. a \in STRING /\ b \in STRING /\ c \in STRING
  BY EditAssumption
<1>2. <<a, b>> \in Seq(STRING) /\ <<c>> \in Seq(STRING) /\ <<>> \in Seq(STRING)
  BY <1>1, OneType, PairType
<1>3. SnippetPart(stop)
  <2>1. Number(stop.source, stop)
    <3>1. Len(stop.source) = 2 /\ Len(stop.source) > 1 /\ stop.source[1] = "$" /\ stop.source[2] = "0"
      OBVIOUS
    <3>2. \A k \in 2 .. 2 : stop.source[k] \in Digit
      BY <3>1 DEF Digit
    <3> HIDE DEF a, b
    <3> QED BY <3>1, <3>2 DEF Number
  <2> QED BY <1>2, <2>1 DEF SnippetPart
<1>4. SnippetPart(char)
  <2>1. Character(char.source, char)
    BY DEF Character
  <2> QED BY <1>2, <2>1 DEF SnippetPart
<1>5. c \notin Digit \cup {"$"} /\ x \in Seq(STRING)
  BY DEF Digit
<1>6. a = "$" /\ Len(stop.source) = 2 /\ stop.source[1] = a /\ stop.source[2] = b /\ stop.text = <<>>
  OBVIOUS
<1>7. Len(char.source) = 1 /\ char.source[1] = c /\ char.text = <<c>> /\ char.ends = "" /\ stop.ends = "digit"
  OBVIOUS
<1>8. stop.stop = "0" /\ char.stop = ""
  OBVIOUS
<1> HIDE DEF stop, char
<1>9. L \in Nat /\ L \in 0 .. L /\ y \in Seq(STRING) /\ Len(y) = L + 3
      /\ (\A i \in 1 .. L : y[i] = x[i]) /\ SubSeq(y, 1, L) = x
      /\ y[L + 1] = a /\ y[L + 2] = b /\ y[L + 3] = c
  <2> HIDE DEF a, b, c
  <2>1. L \in Nat /\ L \in 0 .. L
    OBVIOUS
  <2> QED BY <1>1, <2>1, ThreeMore
<1> HIDE DEF y
<1>10. PICK h : Reads(h, y) /\ ProcessSnippet(y) = Marked(h[Len(y)])
  BY <1>9, SnippetRead
<1>11. h[L].out = x /\ h[L].mode = "outer" /\ h[L].zero = {} /\ h[L].one = {}
  <2>1. L \in 0 .. Len(y)
    BY <1>9
  <2>2. \A i \in 1 .. L : y[i] # "$"
    BY <1>9
  <2> HIDE DEF L
  <2> QED BY <1>9, <1>10, <2>1, <2>2, PlainRead
<1> HIDE DEF a, b, c, L
<1>12. PartDone(h[L], h[L + 2], stop)
  <2>1. PartAt(y, L, stop)
    <3>1. \A i \in 1 .. 2 : y[L + i] = stop.source[i]
      <4>1. \A i \in 1 .. 2 : i = 1 \/ i = 2
        OBVIOUS
      <4> QED BY <1>6, <1>9, <4>1
    <3>2. L + 2 + 1 = L + 3 /\ L + 2 <= Len(y)
      BY <1>9
    <3>3. y[L + 2 + 1] \notin Digit
      BY <1>5, <1>9, <3>2
    <3> QED BY <1>6, <1>9, <3>1, <3>2, <3>3 DEF PartAt
  <2>2. Begins(h[L].mode, stop.source[1])
    BY <1>11 DEF Begins
  <2>3. PartDone(h[L], h[L + Len(stop.source)], stop)
    BY <1>3, <1>9, <1>10, <2>1, <2>2, PartRead
  <2> QED BY <1>6, <2>3
<1>13. h[L + 2].out = x /\ h[L + 2].mode = "digits" /\ h[L + 2].zero = {L} /\ h[L + 2].one = {}
  <2>1. Stop(stop, "0", L) = {L} /\ Stop(stop, "1", L) = {}
    BY <1>8 DEF Stop
  <2>2. ModeAfter(stop.ends) = "digits"
    BY <1>7 DEF ModeAfter
  <2>3. x \o <<>> = x
    BY <1>5, ConcatEmptySeq
  <2> QED BY <1>6, <1>11, <1>12, <2>1, <2>2, <2>3 DEF PartDone, L
<1>14. PartDone(h[L + 2], h[L + 3], char)
  <2>1. PartAt(y, L + 2, char)
    <3>1. \A i \in 1 .. 1 : y[L + 2 + i] = char.source[i]
      <4>1. \A i \in 1 .. 1 : i = 1
        OBVIOUS
      <4>2. L + 2 + 1 = L + 3
        BY <1>9
      <4> QED BY <1>7, <1>9, <4>1, <4>2
    <3>2. L + 2 \in Nat /\ L + 2 + 1 <= Len(y)
      BY <1>9
    <3>3. char.ends # "digit"
      BY <1>7
    <3> QED BY <1>7, <3>1, <3>2, <3>3 DEF PartAt
  <2>2. Begins(h[L + 2].mode, char.source[1])
    BY <1>5, <1>7, <1>13 DEF Begins
  <2>3. PartDone(h[L + 2], h[L + 2 + Len(char.source)], char)
    <3>1. L + 2 \in Nat
      BY <1>9
    <3> DEFINE p == L + 2
    <3> HIDE DEF p
    <3>2. PartAt(y, p, char) /\ Begins(h[p].mode, char.source[1])
      BY <2>1, <2>2 DEF p
    <3>3. PartDone(h[p], h[p + Len(char.source)], char)
      BY <1>4, <1>9, <1>10, <3>2, PartRead
    <3> QED BY <3>3 DEF p
  <2>4. L + 2 + 1 = L + 3
    BY <1>9
  <2> QED BY <1>7, <2>3, <2>4
<1>15. h[L + 3].out = x \o <<c>> /\ h[L + 3].zero = {L} /\ h[L + 3].one = {}
  <2>1. Stop(char, "0", L) = {} /\ Stop(char, "1", L) = {}
    BY <1>8 DEF Stop
  <2> QED BY <1>7, <1>13, <1>14, <2>1 DEF PartDone, L
<1>16. ProcessSnippet(y) = [text |-> x \o <<c>>, carets |-> {L}]
  <2>1. ProcessSnippet(y) = Marked(h[L + 3])
    BY <1>9, <1>10
  <2>2. {L} # {}
    OBVIOUS
  <2> QED BY <1>15, <2>1, <2>2 DEF Marked
<1> QED
  BY <1>16 DEF a, b, c, y, L

-----------------------------------------------------------------------------
\* A text without tab stops is a text.
LEMMA PlainType ==
    ASSUME NEW x \in Seq(STRING \ {"$"})
    PROVE  /\ x \in Seq(STRING) /\ Len(x) \in Nat
           /\ \A i \in 1 .. Len(x) : x[i] # "$"
<1>1. PICK n \in Nat : x \in [1 .. n -> STRING \ {"$"}]
  OBVIOUS
<1> QED
  BY <1>1

\* The main edit of a snippet: two more characters than the caret is behind.
LEMMA MainText ==
    ASSUME NEW x \in Seq(STRING)
    PROVE  LET y == x \o <<"$", "0", "b">>
               z == x \o <<"b">>
           IN  /\ y \in Seq(STRING) /\ z \in Seq(STRING) /\ Len(z) = Len(x) + 1
               /\ SubSeq(y, 1, Len(y) - 3) = x
<1> DEFINE a == "$"
           b == "0"
           c == "b"
           y == x \o <<a, b, c>>
           z == x \o <<c>>
<1>1. a \in STRING /\ b \in STRING /\ c \in STRING
  BY EditAssumption
<1> HIDE DEF a, b, c
<1>2. y \in Seq(STRING) /\ Len(y) = Len(x) + 3 /\ SubSeq(y, 1, Len(x)) = x
  <2>1. y \in Seq(STRING)
    BY <1>1, ThreeMore
  <2>2. Len(y) = Len(x) + 3
    BY <1>1, ThreeMore
  <2>3. SubSeq(y, 1, Len(x)) = x
    BY <1>1, ThreeMore
  <2> QED BY <2>1, <2>2, <2>3
<1>3. <<c>> \in Seq(STRING) /\ Len(<<c>>) = 1
  BY <1>1, OneType
<1> DEFINE t == <<c>>
<1> HIDE DEF t
<1>4. z \in Seq(STRING) /\ Len(z) = Len(x) + 1
  <2>1. t \in Seq(STRING) /\ Len(t) = 1
    BY <1>3 DEF t
  <2>2. x \o t \in Seq(STRING) /\ Len(x \o t) = Len(x) + Len(t)
    BY <2>1, ConcatProperties
  <2> QED BY <2>1, <2>2 DEF t
<1> HIDE DEF y, z
<1>5. Len(y) - 3 = Len(x)
  BY <1>2
<1>6. SubSeq(y, 1, Len(y) - 3) = x
  BY <1>2, <1>5
<1> QED
  BY <1>2, <1>4, <1>6 DEF y, z, a, b, c

\* The lists of edits that are made.
LEMMA EditListType ==
    ASSUME NEW es \in EditLists
    PROVE  /\ es \in Seq(TextEdit(Len(Document))) /\ Disjoint(es)
           /\ \A i \in 1 .. Len(es) : es[i].new \in Seq(STRING \ {"$"})
<1> DEFINE N == Len(Document)
<1>1. PICK m \in 0 .. MaxEdits : es \in [1 .. m -> Edits]
  BY DEF EditLists, BoundedSeq, SeqOf
<1>2. m \in Nat
  BY EditAssumption
<1>3. ASSUME NEW e \in Edits PROVE e \in TextEdit(N) /\ e.new \in Seq(STRING \ {"$"})
  <2>1. e \in [from : 0 .. N, to : 0 .. N, new : Inserted] /\ e.from <= e.to
    BY DEF Edits
  <2>2. e.new \in Seq(STRING \ {"$"})
    BY <2>1, EditAssumption
  <2>3. e.new \in Seq(STRING)
    BY <2>2, PlainType
  <2>4. e \in [from : 0 .. N, to : 0 .. N, new : Seq(STRING)]
    BY <2>1, <2>3
  <2> QED BY <2>1, <2>2, <2>4 DEF TextEdit
<1>4. Len(es) = m /\ es \in Seq(Edits)
  BY <1>1, <1>2
<1> HIDE DEF N
<1>5. \A i \in 1 .. m : es[i] \in TextEdit(N) /\ es[i].new \in Seq(STRING \ {"$"})
  BY <1>1, <1>3
<1>6. es \in Seq(TextEdit(N))
  <2>1. es \in [1 .. m -> TextEdit(N)]
    BY <1>1, <1>5
  <2> QED BY <1>2, <2>1
<1> QED
  BY <1>4, <1>5, <1>6 DEF EditLists, N

\* When an edit means one of plain.
LEMMA MeansIf ==
    ASSUME NEW es, NEW plain, NEW i, NEW snippet, NEW c \in SUBSET Int,
           plain[i].from = es[i].from, plain[i].to = es[i].to,
           NewText(es[i], snippet) = [text |-> plain[i].new, carets |-> c]
    PROVE  Means(es, plain, i, snippet) /\ NewText(es[i], snippet).carets = c
<1> DEFINE w == NewText(es[i], snippet)
           t == plain[i].new
<1> HIDE DEF w, t
<1>1. w = [text |-> t, carets |-> c]
  BY DEF w, t
<1>2. w.text = t /\ w.carets = c
  BY <1>1
<1> QED
  BY <1>2 DEF Means, w, t

\* Edits that are inserted as they are.
LEMMA MeansItself ==
    ASSUME NEW n \in Nat, NEW es \in Seq(TextEdit(n)), NEW i \in 1 .. Len(es),
           NEW snippet \in BOOLEAN, ~snippet
    PROVE  Means(es, es, i, snippet) /\ NewText(es[i], snippet).carets = {Len(es[i].new)}
<1>1. es[i].new \in Seq(STRING)
  <2>1. es[i] \in TextEdit(n)
    OBVIOUS
  <2> QED BY <2>1 DEF TextEdit
<1> DEFINE new == es[i].new
<1>2. NewText(es[i], snippet) = [text |-> new, carets |-> {Len(new)}]
  BY DEF NewText
<1>3. Len(new) \in Int
  BY <1>1
<1> HIDE DEF new
<1>4. {Len(new)} \in SUBSET Int
  BY <1>3
<1> DEFINE c == {Len(new)}
<1> HIDE DEF c
<1>5. c \in SUBSET Int /\ NewText(es[i], snippet) = [text |-> es[i].new, carets |-> c]
  BY <1>2, <1>4 DEF c, new
<1>6. Means(es, es, i, snippet) /\ NewText(es[i], snippet).carets = c
  BY <1>5, MeansIf
<1> QED
  BY <1>6 DEF c, new

\* d has another text for the first edit.
FirstIs(es, d, y) ==
    /\ Len(d) = Len(es) /\ Disjoint(d)
    /\ d[1].new = y
    /\ \A i \in 1 .. Len(es) : d[i].from = es[i].from /\ d[i].to = es[i].to
    /\ \A i \in 1 .. Len(es) : i # 1 => d[i] = es[i]

\* Then it is a list of edits.
LEMMA FirstEdit ==
    ASSUME NEW N \in Nat, NEW es \in Seq(TextEdit(N)), Disjoint(es), 1 \in 1 .. Len(es), NEW y \in Seq(STRING)
    PROVE  [es EXCEPT ![1].new = y] \in Seq(TextEdit(N)) /\ FirstIs(es, [es EXCEPT ![1].new = y], y)
<1> DEFINE n == Len(es)
           e == [es[1] EXCEPT !.new = y]
           d == [es EXCEPT ![1] = e]
<1>1. n \in Nat /\ DOMAIN es = 1 .. n /\ es \in [1 .. n -> TextEdit(N)]
  OBVIOUS
<1>2. es[1] \in TextEdit(N)
  OBVIOUS
<1>3. e \in TextEdit(N) /\ e.new = y /\ e.from = es[1].from /\ e.to = es[1].to
  BY <1>2 DEF TextEdit
<1> HIDE DEF e
<1>4. d \in [1 .. n -> TextEdit(N)] /\ d[1] = e /\ \A i \in 1 .. n : i # 1 => d[i] = es[i]
  BY <1>1, <1>3
<1> HIDE DEF d
<1>5. d \in Seq(TextEdit(N)) /\ Len(d) = n /\ DOMAIN d = 1 .. n
  BY <1>1, <1>4
<1>6. \A i \in 1 .. n : d[i].from = es[i].from /\ d[i].to = es[i].to
  BY <1>3, <1>4
<1>7. Disjoint(d)
  BY <1>1, <1>5, <1>6 DEF Disjoint
<1>8. d = [es EXCEPT ![1].new = y]
  BY DEF d, e
<1> QED
  BY <1>3, <1>4, <1>5, <1>6, <1>7, <1>8 DEF FirstIs

\* A completion is made.
LEMMA CompletionMade ==
    ASSUME NEW es \in EditLists, es # <<>>, NEW snippet \in BOOLEAN
    PROVE  LET edits == IF snippet THEN [es EXCEPT ![1].new = @ \o <<"$", "0", "b">>] ELSE es
           IN  CompletionApplied(edits, snippet,
                   ApplyTextEdits([text |-> Document, carets |-> {0}], edits, 1, snippet))
<1> DEFINE N == Len(Document)
           n == Len(es)
           x == es[1].new
           y == x \o <<"$", "0", "b">>
           z == x \o <<"b">>
           edits == IF snippet THEN [es EXCEPT ![1].new = @ \o <<"$", "0", "b">>] ELSE es
<1> SUFFICES CompletionApplied(edits, snippet,
                 ApplyTextEdits([text |-> Document, carets |-> {0}], edits, 1, snippet))
  OBVIOUS
<1>1. Document \in Seq(STRING) /\ N \in Nat
  BY EditAssumption
<1>2. /\ es \in Seq(TextEdit(N)) /\ Disjoint(es)
      /\ \A i \in 1 .. n : es[i].new \in Seq(STRING \ {"$"})
  BY EditListType
<1> HIDE DEF N
<1>3. n \in Nat /\ 1 \in 1 .. n /\ DOMAIN es = 1 .. n
  BY <1>2
<1>4. /\ x \in Seq(STRING) /\ Len(x) \in Nat /\ \A i \in 1 .. Len(x) : x[i] # "$"
      /\ x \in Seq(STRING \ {"$"})
  <2>1. x \in Seq(STRING \ {"$"})
    BY <1>2, <1>3
  <2> HIDE DEF x
  <2> QED BY <2>1, PlainType
<1>5. y \in Seq(STRING) /\ z \in Seq(STRING) /\ Len(z) = Len(x) + 1 /\ SubSeq(y, 1, Len(y) - 3) = x
  <2> HIDE DEF x
  <2> QED BY <1>4, MainText
<1>6. ProcessSnippet(y) = [text |-> z, carets |-> {Len(x)}]
  <2> HIDE DEF x
  <2>1. \A w \in Seq(STRING) : (\A i \in 1 .. Len(w) : w[i] # "$") =>
            ProcessSnippet(w \o <<"$", "0", "b">>) = [text |-> w \o <<"b">>, carets |-> {Len(w)}]
    BY FinalStop
  <2> QED BY <1>4, <2>1, Zenon
<1> HIDE DEF x, y, z, N, edits
<1>7. CASE snippet
  <2> DEFINE d == [es EXCEPT ![1].new = y]
             p == [d EXCEPT ![1].new = z]
  <2>1. /\ d \in Seq(TextEdit(N)) /\ Len(d) = n /\ Disjoint(d)
        /\ d[1].new = y
        /\ \A i \in 1 .. n : d[i].from = es[i].from /\ d[i].to = es[i].to
        /\ \A i \in 1 .. n : i # 1 => d[i] = es[i]
    <3>1. d \in Seq(TextEdit(N)) /\ FirstIs(es, d, y)
      BY <1>1, <1>2, <1>3, <1>5, FirstEdit
    <3> HIDE DEF d
    <3> QED BY <3>1 DEF FirstIs
  <2>2. edits = d
    BY <1>7 DEF x, y, edits
  <2> HIDE DEF d
  <2>3. /\ p \in Seq(TextEdit(N)) /\ Len(p) = n /\ Disjoint(p)
        /\ p[1].new = z
        /\ \A i \in 1 .. n : p[i].from = d[i].from /\ p[i].to = d[i].to
        /\ \A i \in 1 .. n : i # 1 => p[i] = d[i]
    <3>1. 1 \in 1 .. Len(d)
      BY <1>3, <2>1
    <3>2. d \in Seq(TextEdit(N)) /\ Disjoint(d)
      BY <2>1
    <3>3. p \in Seq(TextEdit(N)) /\ FirstIs(d, p, z)
      BY <1>1, <1>5, <3>1, <3>2, FirstEdit
    <3> HIDE DEF n, p
    <3> QED BY <2>1, <3>3 DEF FirstIs
  <2>4. Meant(d, snippet) = p
    <3>1. Meant(d, snippet) = [d EXCEPT ![1].new = SubSeq(d[1].new, 1, Len(d[1].new) - 3) \o <<"b">>]
      BY <1>7 DEF Meant
    <3>2. SubSeq(d[1].new, 1, Len(d[1].new) - 3) \o <<"b">> = z
      BY <1>5, <2>1 DEF z
    <3> QED BY <3>1, <3>2
  <2> HIDE DEF p
  <2>5. ASSUME NEW i \in 1 .. n PROVE Means(d, p, i, snippet)
    <3>1. CASE i = 1
      <4>1. NewText(d[1], snippet) = [text |-> z, carets |-> {Len(x)}]
        BY <1>6, <1>7, <2>1 DEF NewText
      <4>2. {Len(x)} \in SUBSET Int
        BY <1>4
      <4>3. p[1].from = d[1].from /\ p[1].to = d[1].to /\ p[1].new = z
        BY <1>3, <2>3
      <4>4. Means(d, p, 1, snippet)
        BY <4>1, <4>2, <4>3, MeansIf
      <4> QED BY <3>1, <4>4
    <3>2. CASE i # 1
      <4> DEFINE w == es[i].new
      <4>1. w \in Seq(STRING \ {"$"})
        BY <1>2
      <4> HIDE DEF w
      <4>2. w \in Seq(STRING) /\ Len(w) \in Nat /\ \A j \in 1 .. Len(w) : w[j] # "$"
        BY <4>1, PlainType
      <4>3. ProcessSnippet(w) = [text |-> w, carets |-> {Len(w)}]
        BY <4>2, PlainSnippet
      <4>4. d[i].new = w /\ p[i].new = w
        BY <2>1, <2>3, <3>2 DEF w
      <4>5. NewText(d[i], snippet) = [text |-> w, carets |-> {Len(w)}]
        BY <1>7, <4>3, <4>4 DEF NewText
      <4>6. {Len(w)} \in SUBSET Int
        BY <4>2
      <4>7. p[i].from = d[i].from /\ p[i].to = d[i].to
        BY <2>3
      <4> QED BY <4>4, <4>5, <4>6, <4>7, MeansIf
    <3> QED BY <3>1, <3>2
  <2>6. NewText(d[1], snippet).carets = {Len(x)}
    BY <1>6, <1>7, <2>1 DEF NewText
  <2>7. Len(p[1].new) - 1 = Len(x)
    BY <1>4, <1>5, <2>3
  <2> DEFINE r == ApplyTextEdits([text |-> Document, carets |-> {0}], d, 1, snippet)
  <2>8. /\ r.text = Replaced(Document, p)[0]
        /\ 1 \in 1 .. n /\ (Len(x) > 0 \/ \A i \in 1 .. n \ {1} : p[i].to # p[1].from) =>
              r.carets = {Len(Replaced(Document, p)[0]) - Len(Replaced(Document, p)[p[1].from]) + Len(x)}
    <3>1. {0} \in SUBSET Int /\ 1 \in Nat
      OBVIOUS
    <3> HIDE DEF n
    <3>2. d \in Seq(TextEdit(Len(Document))) /\ p \in Seq(TextEdit(Len(Document)))
      BY <2>1, <2>3 DEF N
    <3>3. Len(d) = n /\ Len(p) = n
      BY <2>1, <2>3
    <3>4. Len(x) \in Nat
      BY <1>4
    <3>5. \A i \in 1 .. Len(d) : Means(d, p, i, snippet)
      BY <2>5, <3>3
    <3>6. 1 .. Len(d) = 1 .. n /\ Len(p) = Len(d)
      BY <3>3
    <3>7. /\ r.text = Replaced(Document, p)[0]
          /\ 1 \in 1 .. Len(d) /\ (Len(x) > 0 \/ \A i \in 1 .. Len(d) \ {1} : p[i].to # p[1].from) =>
                r.carets = {Len(Replaced(Document, p)[0]) - Len(Replaced(Document, p)[p[1].from]) + Len(x)}
      <4> DEFINE k == Len(x)
      <4> HIDE DEF k
      <4>1. k \in Nat /\ NewText(d[1], snippet).carets = {k}
        BY <2>6, <3>4 DEF k
      <4>2. EditsAre(Document, d, p, 1, k, r)
        BY <1>1, <2>1, <3>1, <3>2, <3>5, <3>6, <4>1, EditsMade
      <4> HIDE DEF r
      <4> QED BY <4>2 DEF EditsAre, k
    <3> QED BY <3>6, <3>7
  <2> HIDE DEF r
  <2>9. DOMAIN p = 1 .. n
    BY <2>3
  <2> HIDE DEF n
  <2>10. CompletionApplied(d, snippet, r)
    BY <1>3, <1>7, <2>4, <2>7, <2>8, <2>9 DEF CompletionApplied
  <2> QED BY <2>2, <2>10 DEF r
<1>8. CASE ~snippet
  <2>1. edits = es
    BY <1>8 DEF edits
  <2>2. Meant(es, snippet) = es
    BY <1>8 DEF Meant
  <2> DEFINE offset == Len(es[1].new)
             r == ApplyTextEdits([text |-> Document, carets |-> {0}], es, 1, snippet)
  <2>3. \A i \in 1 .. n : Means(es, es, i, snippet)
    BY <1>1, <1>2, <1>8, MeansItself
  <2>4. NewText(es[1], snippet).carets = {offset}
    BY <1>1, <1>2, <1>3, <1>8, MeansItself
  <2>5. offset \in Nat /\ offset - 0 = offset
    BY <1>4 DEF x
  <2> HIDE DEF offset
  <2>6. /\ r.text = Replaced(Document, es)[0]
        /\ 1 \in 1 .. n /\ (offset > 0 \/ \A i \in 1 .. n \ {1} : es[i].to # es[1].from) =>
              r.carets = {Len(Replaced(Document, es)[0]) - Len(Replaced(Document, es)[es[1].from]) + offset}
    <3>1. {0} \in SUBSET Int /\ 1 \in Nat
      OBVIOUS
    <3>2. es \in Seq(TextEdit(Len(Document))) /\ Len(es) = n
      BY <1>2 DEF N
    <3> HIDE DEF n
    <3>3. \A i \in 1 .. Len(es) : Means(es, es, i, snippet)
      BY <2>3, <3>2
    <3>4. EditsAre(Document, es, es, 1, offset, r)
      BY <1>1, <1>2, <2>3, <2>4, <2>5, <3>1, <3>2, <3>3, EditsMade
    <3>5. 1 .. Len(es) = 1 .. n
      BY <3>2
    <3> HIDE DEF r
    <3> QED BY <3>4, <3>5 DEF EditsAre
  <2> HIDE DEF r
  <2>7. CompletionApplied(es, snippet, r)
    <3> HIDE DEF n
    <3> QED BY <1>3, <1>8, <2>2, <2>5, <2>6 DEF CompletionApplied, offset
  <2> QED BY <2>1, <2>7 DEF r
<1> QED
  BY <1>7, <1>8

\* The edits of a file.
LEMMA FileText ==
    ASSUME NEW es \in EditLists
    PROVE  ApplyTextEdits([text |-> Document, carets |-> {}], es, 0, FALSE).text = Replaced(Document, es)[0]
<1>1. ASSUME NEW snippet \in BOOLEAN, ~snippet
      PROVE  ApplyTextEdits([text |-> Document, carets |-> {}], es, 0, snippet).text = Replaced(Document, es)[0]
  <2> DEFINE N == Len(Document)
             r == ApplyTextEdits([text |-> Document, carets |-> {}], es, 0, snippet)
  <2>1. Document \in Seq(STRING) /\ N \in Nat
    BY EditAssumption
  <2>2. es \in Seq(TextEdit(N)) /\ Disjoint(es)
    BY EditListType
  <2> HIDE DEF N
  <2>3. \A i \in 1 .. Len(es) : Means(es, es, i, snippet)
    BY <1>1, <2>1, <2>2, MeansItself
  <2>4. {} \in SUBSET Int /\ 0 \in Nat /\ 0 \notin 1 .. Len(es)
    OBVIOUS
  <2>5. es \in Seq(TextEdit(Len(Document)))
    BY <2>2 DEF N
  <2>6. EditsAre(Document, es, es, 0, 0, r)
    BY <2>1, <2>2, <2>3, <2>4, <2>5, EditsMade
  <2> HIDE DEF r
  <2>7. r.text = Replaced(Document, es)[0]
    BY <2>6 DEF EditsAre
  <2> QED BY <2>7 DEF r
<1>2. FALSE \in BOOLEAN /\ ~FALSE
  OBVIOUS
<1> QED
  BY <1>1, <1>2, Zenon

\* A file that edits are applied to; the others stay.
LEMMA FileMade ==
    ASSUME NEW files, NEW f \in DOMAIN files, NEW es \in EditLists, NEW kind,
           files[f] = [kind |-> kind, text |-> Document, changed |-> FALSE]
    PROVE  /\ FileApplied(files[f], es, ApplyEditsInFile(files, f, es)[f])
           /\ \A g \in DOMAIN files : g # f => ApplyEditsInFile(files, f, es)[g] = files[g]
           /\ DOMAIN ApplyEditsInFile(files, f, es) = DOMAIN files
<1> DEFINE was == files[f]
           text == ApplyTextEdits([text |-> was.text, carets |-> {}], es, 0, FALSE).text
           is == IF was.kind = "unreadable" THEN was
                 ELSE [kind |-> was.kind, text |-> text,
                       changed |-> was.changed \/ (was.kind = "open" /\ es # <<>>)]
<1>1. text = Replaced(Document, es)[0]
  <2>1. was.text = Document
    OBVIOUS
  <2> QED BY <2>1, FileText
<1>2. ApplyEditsInFile(files, f, es) = [files EXCEPT ![f] = is]
  BY DEF ApplyEditsInFile
<1> HIDE DEF text
<1>3. FileApplied(was, es, is)
  <2>1. was.kind = kind /\ was.text = Document /\ was.changed = FALSE
    OBVIOUS
  <2> HIDE DEF was
  <2>2. CASE was.kind = "unreadable"
    <3>1. is = was /\ was.kind # "open"
      BY <2>2
    <3> QED BY <2>1, <2>2, <3>1 DEF FileApplied
  <2>3. CASE was.kind # "unreadable"
    <3>1. is.text = text /\ is.changed = (was.changed \/ (was.kind = "open" /\ es # <<>>))
      BY <2>3
    <3> HIDE DEF is
    <3> QED BY <1>1, <2>1, <2>3, <3>1 DEF FileApplied
  <2> QED BY <2>2, <2>3
<1> HIDE DEF is
<1> QED
  BY <1>2, <1>3

\* A workspace edit of two files.
LEMMA WorkspaceMade ==
    ASSUME NEW files, DOMAIN files = 1 .. 2, NEW es \in EditLists, NEW fs \in EditLists, NEW hasChanges \in BOOLEAN
    PROVE  LET entries == <<[file |-> 1, edits |-> es], [file |-> 2, edits |-> fs]>>
           IN  ApplyWorkspaceEdit(files, [hasChanges |-> hasChanges, changes |-> entries,
                                          documentChanges |-> entries]).files =
                   ApplyEditsInFile(ApplyEditsInFile(files, 1, es), 2, fs)
<1> DEFINE e1 == [file |-> 1, edits |-> es]
           e2 == [file |-> 2, edits |-> fs]
           entries == <<e1, e2>>
           w == [hasChanges |-> hasChanges, changes |-> entries, documentChanges |-> entries]
           one == ApplyEditsInFile(files, 1, es)
           two == ApplyEditsInFile(one, 2, fs)
           Is(f) == f = [k \in 0 .. Len(entries) |->
                            IF k = 0 THEN files
                            ELSE ApplyEditsInFile(f[k - 1], entries[k].file, entries[k].edits)]
           f0 == CHOOSE f : Is(f)
           g == [k \in 0 .. 2 |-> IF k = 0 THEN files ELSE IF k = 1 THEN one ELSE two]
<1>1. /\ Len(entries) = 2 /\ entries[1].file = 1 /\ entries[1].edits = es
      /\ entries[2].file = 2 /\ entries[2].edits = fs
  OBVIOUS
<1>2. ApplyWorkspaceEdit(files, w).files = f0[Len(entries)]
  <2>1. (IF w.hasChanges THEN w.changes ELSE w.documentChanges) = entries
    OBVIOUS
  <2> HIDE DEF w, entries
  <2> QED BY <2>1, Zenon DEF ApplyWorkspaceEdit
<1> HIDE DEF entries, one, two
<1>3. Is(g)
  <2>1. ASSUME NEW k \in 0 .. 2
        PROVE  g[k] = IF k = 0 THEN files ELSE ApplyEditsInFile(g[k - 1], entries[k].file, entries[k].edits)
    <3>1. k = 0 \/ k = 1 \/ k = 2
      OBVIOUS
    <3>2. g[0] = files /\ g[1] = one /\ g[2] = two /\ 1 - 1 = 0 /\ 2 - 1 = 1
      OBVIOUS
    <3> HIDE DEF g
    <3> QED BY <1>1, <3>1, <3>2 DEF one, two
  <2>2. g = [k \in 0 .. 2 |-> g[k]]
    OBVIOUS
  <2> HIDE DEF g
  <2> QED BY <1>1, <2>1, <2>2
<1>4. Is(f0)
  <2> HIDE DEF Is, g
  <2> QED BY <1>3
<1> HIDE DEF f0
<1>5. \A k \in 0 .. 2 : f0[k] = IF k = 0 THEN files
                                ELSE ApplyEditsInFile(f0[k - 1], entries[k].file, entries[k].edits)
  BY <1>1, <1>4, Zenon
<1>6. f0[0] = files /\ f0[1] = one /\ f0[2] = two
  <2>1. 0 \in 0 .. 2 /\ 1 \in 0 .. 2 /\ 2 \in 0 .. 2 /\ 1 - 1 = 0 /\ 2 - 1 = 1
    OBVIOUS
  <2>2. f0[0] = files
    BY <1>5, <2>1
  <2>3. f0[1] = one
    BY <1>1, <1>5, <2>1, <2>2 DEF one
  <2>4. f0[2] = two
    BY <1>1, <1>5, <2>1, <2>3 DEF two
  <2> QED BY <2>2, <2>3, <2>4
<1> QED
  BY <1>1, <1>2, <1>6 DEF entries, one, two

\* A rename or a code action: each file becomes what its edits mean.
LEMMA FilesMade ==
    ASSUME NEW es \in EditLists, NEW fs \in EditLists, NEW k1, NEW k2, NEW hasChanges \in BOOLEAN
    PROVE  LET files == <<[kind |-> k1, text |-> Document, changed |-> FALSE],
                          [kind |-> k2, text |-> Document, changed |-> FALSE]>>
               entries == <<[file |-> 1, edits |-> es], [file |-> 2, edits |-> fs]>>
               w == [hasChanges |-> hasChanges, changes |-> entries, documentChanges |-> entries]
           IN  \A f \in 1 .. 2 :
                   FileApplied(files[f], <<es, fs>>[f], ApplyWorkspaceEdit(files, w).files[f])
<1> DEFINE a == [kind |-> k1, text |-> Document, changed |-> FALSE]
           b == [kind |-> k2, text |-> Document, changed |-> FALSE]
           files == <<a, b>>
           entries == <<[file |-> 1, edits |-> es], [file |-> 2, edits |-> fs]>>
           w == [hasChanges |-> hasChanges, changes |-> entries, documentChanges |-> entries]
           one == ApplyEditsInFile(files, 1, es)
           two == ApplyEditsInFile(one, 2, fs)
           pair == <<es, fs>>
<1>1. DOMAIN files = 1 .. 2 /\ files[1] = a /\ files[2] = b /\ 1 \in 1 .. 2 /\ 2 \in 1 .. 2 /\ 1 # 2
  OBVIOUS
<1>2. pair[1] = es /\ pair[2] = fs
  OBVIOUS
<1> HIDE DEF pair
<1>3. ApplyWorkspaceEdit(files, w).files = two
  <2> HIDE DEF files
  <2> QED BY <1>1, WorkspaceMade
<1> HIDE DEF files, w
<1>4. FileApplied(a, es, one[1]) /\ one[2] = b /\ DOMAIN one = 1 .. 2
  <2>1. 1 \in DOMAIN files /\ files[1] = [kind |-> k1, text |-> Document, changed |-> FALSE]
    BY <1>1
  <2>2. /\ FileApplied(files[1], es, one[1])
        /\ \A g \in DOMAIN files : g # 1 => one[g] = files[g]
        /\ DOMAIN one = DOMAIN files
    BY <2>1, FileMade
  <2> HIDE DEF one, a, b
  <2> QED BY <1>1, <2>2
<1> HIDE DEF one
<1>5. FileApplied(b, fs, two[2]) /\ two[1] = one[1]
  <2>1. 2 \in DOMAIN one /\ one[2] = [kind |-> k2, text |-> Document, changed |-> FALSE]
    BY <1>1, <1>4
  <2>2. /\ FileApplied(one[2], fs, two[2])
        /\ \A g \in DOMAIN one : g # 2 => two[g] = one[g]
    <3>1. FileApplied(one[2], fs, two[2])
      BY <2>1, FileMade
    <3>2. \A g \in DOMAIN one : g # 2 => two[g] = one[g]
      BY <2>1, FileMade
    <3> QED BY <3>1, <3>2
  <2> HIDE DEF two, a, b
  <2> QED BY <1>1, <1>4, <2>2
<1> HIDE DEF two, a, b
<1>6. \A f \in 1 .. 2 : f = 1 \/ f = 2
  OBVIOUS
<1>7. \A f \in 1 .. 2 : FileApplied(files[f], pair[f], ApplyWorkspaceEdit(files, w).files[f])
  BY <1>1, <1>2, <1>3, <1>4, <1>5, <1>6
<1> QED
  BY <1>7 DEF files, w, pair, a, b

-----------------------------------------------------------------------------
\* A snippet becomes plain text with carets at its first tab stops, for any snippets of any
\* length.
THEOREM SnippetsPlain == Spec => []SnippetPlain
<1>1. Init => SnippetPlain
  BY DEF Init, Idle, SnippetPlain
<1>2. SnippetPlain /\ [Next]_job => SnippetPlain'
  <2> SUFFICES ASSUME SnippetPlain, [Next]_job PROVE SnippetPlain'
    OBVIOUS
  <2>1. CASE RunSnippet
    <3>1. PICK items \in BoundedSeq(Item, MaxItems) :
              /\ WellFormed(items)
              /\ job' = [kind |-> "snippet", items |-> items, result |-> ProcessSnippet(Source(items))]
      BY <2>1 DEF RunSnippet
    <3>2. IsPlain(items, ProcessSnippet(Source(items)))
      BY <3>1, SnippetRight
    <3>3. job'.items = items /\ job'.result = ProcessSnippet(Source(items))
      BY <3>1
    <3> QED BY <3>2, <3>3 DEF SnippetPlain
  <2>2. CASE RunCompletion
    <3>1. job'.kind = "completion"
      BY <2>2 DEF RunCompletion
    <3> QED BY <3>1 DEF SnippetPlain
  <2>3. CASE RunWorkspaceEdit
    <3>1. job'.kind = "workspace"
      BY <2>3 DEF RunWorkspaceEdit
    <3> QED BY <3>1 DEF SnippetPlain
  <2>4. CASE RunSymbols \/ RunSearch
    <3>1. job'.kind = "tree"
      BY <2>4 DEF RunSymbols, RunSearch, Refreshed
    <3> QED BY <3>1 DEF SnippetPlain
  <2>5. CASE RunCompletionList
    <3>1. job'.kind = "list"
      BY <2>5 DEF RunCompletionList
    <3> QED BY <3>1 DEF SnippetPlain
  <2>6. CASE UNCHANGED job
    BY <2>6 DEF SnippetPlain
  <2> QED BY <2>1, <2>2, <2>3, <2>4, <2>5, <2>6 DEF Next
<1> QED
  BY <1>1, <1>2, PTL DEF Spec

\* Each edit of a completion, a rename or a code action replaces what it meant, and the
\* caret ends in the main one: for any document, edits and order of them.
THEOREM EditsCorrect == Spec => []EditsApplied
<1>1. Init => EditsApplied
  BY DEF Init, Idle, EditsApplied
<1>2. EditsApplied /\ [Next]_job => EditsApplied'
  <2> SUFFICES ASSUME EditsApplied, [Next]_job PROVE EditsApplied'
    OBVIOUS
  <2>1. CASE RunCompletion
    <3>1. PICK es \in EditLists, snippet \in BOOLEAN :
              /\ es # <<>>
              /\ LET main == IF snippet THEN [es EXCEPT ![1].new = @ \o <<"$", "0", "b">>] ELSE es
                 IN job' = [kind |-> "completion", edits |-> main, snippet |-> snippet,
                            result |-> ApplyTextEdits([text |-> Document, carets |-> {0}], main, 1, snippet)]
      BY <2>1 DEF RunCompletion
    <3> DEFINE main == IF snippet THEN [es EXCEPT ![1].new = @ \o <<"$", "0", "b">>] ELSE es
               r == ApplyTextEdits([text |-> Document, carets |-> {0}], main, 1, snippet)
    <3>2. CompletionApplied(main, snippet, r)
      BY <3>1, CompletionMade
    <3>3. job' = [kind |-> "completion", edits |-> main, snippet |-> snippet, result |-> r]
      BY <3>1
    <3> HIDE DEF main, r
    <3>4. /\ job'.kind = "completion" /\ job'.edits = main
          /\ job'.snippet = snippet /\ job'.result = r
      BY <3>3
    <3> QED BY <3>2, <3>4 DEF EditsApplied
  <2>2. CASE RunWorkspaceEdit
    <3>1. PICK es \in EditLists, fs \in EditLists, k1 \in {"open", "closed", "unreadable"},
               k2 \in {"open", "closed", "unreadable"}, hasChanges \in BOOLEAN :
              LET files == <<[kind |-> k1, text |-> Document, changed |-> FALSE],
                             [kind |-> k2, text |-> Document, changed |-> FALSE]>>
                  entries == <<[file |-> 1, edits |-> es], [file |-> 2, edits |-> fs]>>
                  w == [hasChanges |-> hasChanges, changes |-> entries, documentChanges |-> entries]
              IN job' = [kind |-> "workspace", files |-> files, edits |-> <<es, fs>>,
                         result |-> ApplyWorkspaceEdit(files, w)]
      BY <2>2, Zenon DEF RunWorkspaceEdit
    <3> DEFINE files == <<[kind |-> k1, text |-> Document, changed |-> FALSE],
                          [kind |-> k2, text |-> Document, changed |-> FALSE]>>
               entries == <<[file |-> 1, edits |-> es], [file |-> 2, edits |-> fs]>>
               w == [hasChanges |-> hasChanges, changes |-> entries, documentChanges |-> entries]
               pair == <<es, fs>>
               r == ApplyWorkspaceEdit(files, w)
    <3>2. \A f \in 1 .. 2 : FileApplied(files[f], pair[f], r.files[f])
      BY FilesMade
    <3>3. job' = [kind |-> "workspace", files |-> files, edits |-> pair, result |-> r]
      BY <3>1
    <3> HIDE DEF files, pair, r
    <3>4. job'.kind = "workspace" /\ job'.files = files /\ job'.edits = pair /\ job'.result = r
      BY <3>3
    <3> QED BY <3>2, <3>4 DEF EditsApplied
  <2>3. CASE RunSnippet
    <3>1. job'.kind = "snippet"
      BY <2>3 DEF RunSnippet
    <3> QED BY <3>1 DEF EditsApplied
  <2>4. CASE RunSymbols \/ RunSearch
    <3>1. job'.kind = "tree"
      BY <2>4 DEF RunSymbols, RunSearch, Refreshed
    <3> QED BY <3>1 DEF EditsApplied
  <2>5. CASE RunCompletionList
    <3>1. job'.kind = "list"
      BY <2>5 DEF RunCompletionList
    <3> QED BY <3>1 DEF EditsApplied
  <2>6. CASE UNCHANGED job
    BY <2>6 DEF EditsApplied
  <2> QED BY <2>1, <2>2, <2>3, <2>4, <2>5, <2>6 DEF Next
<1> QED
  BY <1>1, <1>2, PTL DEF Spec

-----------------------------------------------------------------------------

\* Symbols and rows.
Symbol == [name : STRING, scope : Seq(STRING), line : Nat]
Row == [sym : Symbol, depth : Nat]

\* Their fields.
LEMMA RowType ==
    ASSUME NEW rows \in Seq(Row)
    PROVE  /\ Len(rows) \in Nat /\ DOMAIN rows = 1 .. Len(rows)
           /\ \A i \in 1 .. Len(rows) : /\ rows[i] \in Row /\ rows[i].sym \in Symbol /\ rows[i].depth \in Nat
                                        /\ rows[i].sym.line \in Nat /\ rows[i].sym.scope \in Seq(STRING)
                                        /\ Len(rows[i].sym.scope) \in Nat
<1>1. Len(rows) \in Nat /\ DOMAIN rows = 1 .. Len(rows)
  OBVIOUS
<1>2. ASSUME NEW r \in Row
      PROVE  /\ r.sym \in Symbol /\ r.depth \in Nat /\ r.sym.line \in Nat /\ r.sym.scope \in Seq(STRING)
             /\ Len(r.sym.scope) \in Nat
  <2>1. r.sym \in Symbol /\ r.depth \in Nat
    BY DEF Row
  <2>2. r.sym.line \in Nat /\ r.sym.scope \in Seq(STRING)
    BY <2>1 DEF Symbol
  <2> DEFINE t == r.sym.scope
  <2>3. t \in Seq(STRING)
    BY <2>2
  <2> HIDE DEF t
  <2>4. Len(t) \in Nat
    BY <2>3
  <2> QED BY <2>1, <2>2, <2>4 DEF t
<1>3. \A i \in 1 .. Len(rows) : rows[i] \in Row
  OBVIOUS
<1> QED
  BY <1>1, <1>2, <1>3

\* What is above a row.
LEMMA AboveIs ==
    ASSUME NEW rows \in Seq(Row), NEW i \in 1 .. Len(rows)
    PROVE  /\ i \in Above(rows, i) /\ Above(rows, i) \subseteq 1 .. i /\ Above(rows, i) \subseteq 1 .. Len(rows)
           /\ \A j \in Above(rows, i) : j # i => j < i /\ rows[j].depth < rows[i].depth
           /\ \A j \in Above(rows, i) : Above(rows, j) = Above(rows, i) \cap (1 .. j)
<1> DEFINE d(k) == rows[k].depth
           n == Len(rows)
<1>1. n \in Nat /\ \A k \in 1 .. n : d(k) \in Nat
  BY RowType
<1>2. \A k \in 1 .. n : Above(rows, k) = {j \in 1 .. k : \A m \in j + 1 .. k : d(m) > d(j)}
  BY DEF Above
<1> HIDE DEF d, n
<1>3. i \in 1 .. n
  BY DEF n
<1>4. i \in Above(rows, i) /\ Above(rows, i) \subseteq 1 .. i /\ Above(rows, i) \subseteq 1 .. n
  BY <1>1, <1>2, <1>3
<1>5. ASSUME NEW j \in Above(rows, i), j # i PROVE j < i /\ d(j) < d(i)
  <2>1. j \in 1 .. i /\ i \in j + 1 .. i
    BY <1>1, <1>2, <1>3, <1>5
  <2>2. d(i) > d(j)
    BY <1>2, <1>3, <2>1
  <2> QED BY <1>1, <1>3, <2>1, <2>2
<1>6. ASSUME NEW j \in Above(rows, i) PROVE Above(rows, j) = Above(rows, i) \cap (1 .. j)
  <2>1. j \in 1 .. i /\ j \in 1 .. n /\ \A m \in j + 1 .. i : d(m) > d(j)
    BY <1>1, <1>2, <1>3
  <2>2. ASSUME NEW x \in Above(rows, j) PROVE x \in Above(rows, i) /\ x \in 1 .. j
    <3>1. x \in 1 .. j /\ \A m \in x + 1 .. j : d(m) > d(x)
      BY <1>2, <2>1
    <3>2. d(x) <= d(j)
      <4>1. x = j \/ j \in x + 1 .. j
        BY <3>1
      <4>2. x \in 1 .. n
        BY <1>1, <2>1, <3>1
      <4> QED BY <1>1, <2>1, <3>1, <4>1, <4>2
    <3>3. ASSUME NEW m \in x + 1 .. i PROVE d(m) > d(x)
      <4>1. m \in x + 1 .. j \/ m \in j + 1 .. i
        BY <2>1, <3>1
      <4>2. m \in 1 .. n /\ x \in 1 .. n
        BY <1>1, <1>3, <2>1, <3>1
      <4> QED BY <1>1, <2>1, <3>1, <3>2, <4>1, <4>2
    <3>4. x \in 1 .. i
      BY <2>1, <3>1
    <3> QED BY <1>2, <1>3, <3>1, <3>3, <3>4
  <2>3. ASSUME NEW x \in Above(rows, i), x \in 1 .. j PROVE x \in Above(rows, j)
    <3>1. \A m \in x + 1 .. i : d(m) > d(x)
      BY <1>2, <1>3
    <3>2. \A m \in x + 1 .. j : m \in x + 1 .. i
      BY <2>1, <2>3
    <3> QED BY <1>2, <2>1, <2>3, <3>1, <3>2
  <2> QED BY <2>2, <2>3
<1> QED
  BY <1>4, <1>5, <1>6 DEF n, d

\* Of two rows above a third one, one is above the other.
LEMMA AboveBoth ==
    ASSUME NEW rows \in Seq(Row), NEW i \in 1 .. Len(rows), NEW a \in Above(rows, i), NEW b \in Above(rows, i)
    PROVE  /\ Above(rows, a) \subseteq Above(rows, i)
           /\ a = b \/ a \in Above(rows, b) \ {b} \/ b \in Above(rows, a) \ {a}
<1>1. a \in 1 .. i /\ b \in 1 .. i /\ i \in Nat
  BY AboveIs
<1>2. Above(rows, a) = Above(rows, i) \cap (1 .. a) /\ Above(rows, b) = Above(rows, i) \cap (1 .. b)
  BY AboveIs
<1>3. a = b \/ a \in (1 .. b) \ {b} \/ b \in (1 .. a) \ {a}
  BY <1>1
<1> QED
  BY <1>2, <1>3

\* Siblings are in an order.
LEMMA LinesOrder ==
    ASSUME NEW rows \in Seq(Row), NEW i \in 1 .. Len(rows), NEW j \in 1 .. Len(rows), NEW k \in 1 .. Len(rows)
    PROVE  /\ ~LinesInOrder(rows, i, i)
           /\ LinesInOrder(rows, i, j) /\ LinesInOrder(rows, j, k) => LinesInOrder(rows, i, k)
           /\ i # j => LinesInOrder(rows, i, j) \/ LinesInOrder(rows, j, i)
<1> DEFINE l(x) == rows[x].sym.line
           s(x) == Len(rows[x].sym.scope)
           before(x, y) == l(x) < l(y) \/ (l(x) = l(y) /\ s(x) < s(y))
<1>1. \A x \in 1 .. Len(rows) : l(x) \in Nat /\ s(x) \in Nat
  BY RowType
<1>2. i \in Int /\ j \in Int /\ k \in Int
  OBVIOUS
<1>3. \A x, y \in {i, j, k} : LineBefore(rows[x].sym, rows[y].sym) <=> before(x, y)
  BY DEF LineBefore
<1>4. \A x, y \in {i, j, k} : LinesInOrder(rows, x, y) <=> before(x, y) \/ (~before(y, x) /\ x < y)
  <2> HIDE DEF before
  <2> QED BY <1>3 DEF LinesInOrder
<1>5. \A x \in {i, j, k} : l(x) \in Nat /\ s(x) \in Nat
  BY <1>1
<1> HIDE DEF l, s
<1>6. /\ ~(before(i, i) \/ (~before(i, i) /\ i < i))
      /\ (before(i, j) \/ (~before(j, i) /\ i < j)) /\ (before(j, k) \/ (~before(k, j) /\ j < k))
            => (before(i, k) \/ (~before(k, i) /\ i < k))
      /\ i # j => (before(i, j) \/ (~before(j, i) /\ i < j)) \/ (before(j, i) \/ (~before(i, j) /\ j < i))
  BY <1>2, <1>5
<1> HIDE DEF before
<1> QED
  BY <1>4, <1>6

\* Siblings above one row are the same.
LEMMA OneSibling ==
    ASSUME NEW rows \in Seq(Row), NEW i \in 1 .. Len(rows), NEW a \in Above(rows, i), NEW b \in Above(rows, i),
           Siblings(rows, a, b)
    PROVE  a = b
<1>1. a = b \/ a \in Above(rows, b) \ {b} \/ b \in Above(rows, a) \ {a}
  BY AboveBoth
<1> QED
  BY <1>1 DEF Siblings

\* Rows that are not above each other are below different siblings.
LEMMA SiblingsExist ==
    ASSUME NEW rows \in Seq(Row), NEW i \in 1 .. Len(rows), NEW j \in 1 .. Len(rows),
           i \notin Above(rows, j), j \notin Above(rows, i)
    PROVE  \E a \in Above(rows, i), b \in Above(rows, j) : a # b /\ Siblings(rows, a, b)
<1>1. ASSUME NEW x \in 1 .. Len(rows), NEW y \in 1 .. Len(rows), x \notin Above(rows, y)
      PROVE  \E a \in Above(rows, x) \ Above(rows, y) :
                 Above(rows, a) \ {a} = Above(rows, x) \cap Above(rows, y)
  <2> DEFINE D == Above(rows, x) \ Above(rows, y)
  <2>1. Above(rows, x) \subseteq 1 .. x /\ x \in Nat /\ x \in D
    BY <1>1, AboveIs
  <2>2. D \in SUBSET Nat /\ D # {}
    BY <2>1
  <2>3. PICK a \in D : \A m \in D : a <= m
    <3> HIDE DEF D
    <3> QED BY <2>2, LeastNat
  <2>4. Above(rows, a) = Above(rows, x) \cap (1 .. a)
    BY AboveIs
  <2>5. ASSUME NEW z \in Above(rows, a), z # a PROVE z \in Above(rows, x) \cap Above(rows, y)
    <3>1. z \in Above(rows, x) /\ z \in 1 .. a
      BY <2>4
    <3>2. a \in Nat /\ ~(a <= z)
      BY <2>2, <2>5, <3>1
    <3>3. z \notin D
      BY <2>3, <3>2
    <3> QED BY <3>1, <3>3
  <2>6. ASSUME NEW z \in Above(rows, x) \cap Above(rows, y) PROVE z \in Above(rows, a) \ {a}
    <3>1. a = z \/ a \in Above(rows, z) \ {z} \/ z \in Above(rows, a) \ {a}
      BY AboveBoth
    <3>2. Above(rows, z) \subseteq Above(rows, y)
      BY AboveBoth
    <3> QED BY <3>1, <3>2
  <2>7. Above(rows, a) \ {a} = Above(rows, x) \cap Above(rows, y)
    BY <2>5, <2>6
  <2> QED BY <2>7
<1>2. PICK a \in Above(rows, i) \ Above(rows, j) : Above(rows, a) \ {a} = Above(rows, i) \cap Above(rows, j)
  BY <1>1
<1>3. PICK b \in Above(rows, j) \ Above(rows, i) : Above(rows, b) \ {b} = Above(rows, j) \cap Above(rows, i)
  BY <1>1
<1> QED
  BY <1>2, <1>3 DEF Siblings

\* The rows of a tree are in an order.
LEMMA RowsTransitive ==
    ASSUME NEW rows \in Seq(Row), NEW i \in 1 .. Len(rows), NEW j \in 1 .. Len(rows), NEW k \in 1 .. Len(rows),
           RowBefore(rows, i, j), RowBefore(rows, j, k)
    PROVE  RowBefore(rows, i, k)
<1> DEFINE A(x) == Above(rows, x)
           Sib(x, y) == Siblings(rows, x, y)
           Lin(x, y) == LinesInOrder(rows, x, y)
           Bef(x, y) == \/ x # y /\ x \in A(y)
                        \/ \E a \in A(x), b \in A(y) : Sib(a, b) /\ Lin(a, b)
<1>1. \A x, y : RowBefore(rows, x, y) <=> Bef(x, y)
  BY DEF RowBefore
<1>2. \A x, y : Sib(x, y) <=> A(x) \ {x} = A(y) \ {y}
  BY DEF Siblings
<1>3. \A x, y, z \in 1 .. Len(rows) : Lin(x, y) /\ Lin(y, z) => Lin(x, z)
  BY LinesOrder
<1>4. \A x \in 1 .. Len(rows) : A(x) \subseteq 1 .. Len(rows) /\ x \in A(x)
  BY AboveIs
<1>5. ASSUME NEW x \in 1 .. Len(rows), NEW a \in Above(rows, x), NEW b \in Above(rows, x)
      PROVE  A(a) \subseteq A(x) /\ (a = b \/ a \in A(b) \ {b} \/ b \in A(a) \ {a})
  <2>1. /\ Above(rows, a) \subseteq Above(rows, x)
        /\ a = b \/ a \in Above(rows, b) \ {b} \/ b \in Above(rows, a) \ {a}
    BY AboveBoth
  <2> QED BY <2>1
<1>6. \A x \in 1 .. Len(rows) : \A a \in Above(rows, x) : a # x => a < x
  BY AboveIs
<1> HIDE DEF A, Sib, Lin
<1>7. CASE i # j /\ i \in A(j)
  <2>1. CASE j # k /\ j \in A(k)
    <3>1. i \in A(k)
      BY <1>5, <1>7, <2>1 DEF A
    <3>2. i < j /\ j < k
      BY <1>6, <1>7, <2>1 DEF A
    <3> QED BY <1>1, <3>1, <3>2
  <2>2. ASSUME NEW b \in A(j), NEW c \in A(k), Sib(b, c), Lin(b, c) PROVE RowBefore(rows, i, k)
    <3>1. i = b \/ i \in A(b) \ {b} \/ b \in A(i) \ {i}
      BY <1>5, <1>7 DEF A
    <3>2. CASE i = b \/ b \in A(i) \ {i}
      <4>1. b \in A(i)
        BY <1>4, <3>2
      <4> QED BY <1>1, <2>2, <4>1
    <3>3. CASE i \in A(b) \ {b}
      <4>1. i \in A(c) \ {c}
        BY <1>2, <2>2, <3>3
      <4>2. c \in 1 .. Len(rows) /\ A(c) \subseteq A(k)
        BY <1>4, <1>5 DEF A
      <4>3. i < c /\ (c = k \/ c < k)
        BY <1>6, <4>1, <4>2 DEF A
      <4>4. i \in A(k) /\ i # k
        BY <4>1, <4>2, <4>3
      <4> QED BY <1>1, <4>4
    <3> QED BY <3>1, <3>2, <3>3
  <2> QED BY <1>1, <2>1, <2>2
<1>8. ASSUME NEW a \in A(i), NEW b \in A(j), Sib(a, b), Lin(a, b) PROVE RowBefore(rows, i, k)
  <2>1. CASE j # k /\ j \in A(k)
    <3>1. b \in A(k)
      BY <1>5, <2>1 DEF A
    <3> QED BY <1>1, <1>8, <3>1
  <2>2. ASSUME NEW d \in A(j), NEW c \in A(k), Sib(d, c), Lin(d, c) PROVE RowBefore(rows, i, k)
    <3>1. b = d \/ b \in A(d) \ {d} \/ d \in A(b) \ {b}
      BY <1>5 DEF A
    <3>2. CASE b = d
      <4>1. Sib(a, c)
        BY <1>2, <1>8, <2>2, <3>2
      <4>2. Lin(a, c)
        BY <1>3, <1>4, <1>8, <2>2, <3>2
      <4> QED BY <1>1, <4>1, <4>2
    <3>3. CASE b \in A(d) \ {d}
      <4>1. b \in A(c)
        BY <1>2, <2>2, <3>3
      <4>2. b \in A(k)
        BY <1>5, <4>1 DEF A
      <4> QED BY <1>1, <1>8, <4>2
    <3>4. CASE d \in A(b) \ {b}
      <4>1. d \in A(a)
        BY <1>2, <1>8, <3>4
      <4>2. d \in A(i)
        BY <1>5, <4>1 DEF A
      <4> QED BY <1>1, <2>2, <4>2
    <3> QED BY <3>1, <3>2, <3>3, <3>4
  <2> QED BY <1>1, <2>1, <2>2
<1> QED
  BY <1>1, <1>7, <1>8

\* In InOrder's terms.
LEMMA RowsOrder ==
    ASSUME NEW rows \in Seq(Row)
    PROVE  LET S == 1 .. Len(rows)
               R == {p \in S \X S : RowBefore(rows, p[1], p[2])}
           IN  /\ Order(S, R) /\ IsFiniteSet(S) /\ Cardinality(S) = Len(rows)
               /\ \A i, j \in S : <<i, j>> \in R <=> RowBefore(rows, i, j)
<1> DEFINE S == 1 .. Len(rows)
           R == {p \in S \X S : RowBefore(rows, p[1], p[2])}
<1>1. \A i, j \in S : <<i, j>> \in R <=> RowBefore(rows, i, j)
  OBVIOUS
<1>2. IsFiniteSet(S) /\ Cardinality(S) = Len(rows)
  <2>1. Len(rows) \in Nat
    OBVIOUS
  <2>2. IsFiniteSet(S) /\ Cardinality(S) = IF 1 > Len(rows) THEN 0 ELSE Len(rows) - 1 + 1
    BY <2>1, FS_Interval
  <2> QED BY <2>1, <2>2
<1> HIDE DEF R
<1>3. ASSUME NEW i \in S PROVE ~RowBefore(rows, i, i)
  <2>1. SUFFICES ASSUME RowBefore(rows, i, i) PROVE FALSE
    OBVIOUS
  <2>2. PICK a \in Above(rows, i), b \in Above(rows, i) : Siblings(rows, a, b) /\ LinesInOrder(rows, a, b)
    BY <2>1 DEF RowBefore
  <2>3. a = b
    BY <2>2, OneSibling
  <2>4. a \in 1 .. Len(rows)
    BY AboveIs
  <2> QED BY <2>2, <2>3, <2>4, LinesOrder
<1>4. ASSUME NEW i \in S, NEW j \in S, i # j PROVE RowBefore(rows, i, j) \/ RowBefore(rows, j, i)
  <2>1. CASE i \in Above(rows, j) \/ j \in Above(rows, i)
    BY <1>4, <2>1 DEF RowBefore
  <2>2. CASE i \notin Above(rows, j) /\ j \notin Above(rows, i)
    <3>1. PICK a \in Above(rows, i), b \in Above(rows, j) : a # b /\ Siblings(rows, a, b)
      BY <2>2, SiblingsExist
    <3>2. a \in 1 .. Len(rows) /\ b \in 1 .. Len(rows) /\ Siblings(rows, b, a)
      BY <3>1, AboveIs DEF Siblings
    <3>3. LinesInOrder(rows, a, b) \/ LinesInOrder(rows, b, a)
      BY <3>1, <3>2, LinesOrder
    <3> QED BY <3>1, <3>2, <3>3 DEF RowBefore
  <2> QED BY <2>1, <2>2
<1>5. \A i, j, k \in S : <<i, j>> \in R /\ <<j, k>> \in R => <<i, k>> \in R
  <2>1. \A i, j, k \in S : RowBefore(rows, i, j) /\ RowBefore(rows, j, k) => RowBefore(rows, i, k)
    BY RowsTransitive
  <2> HIDE DEF S
  <2> QED BY <1>1, <2>1
<1>6. Order(S, R)
  <2> HIDE DEF S
  <2> QED BY <1>1, <1>2, <1>3, <1>4, <1>5 DEF Order
<1> QED
  BY <1>1, <1>2, <1>6 DEF R

\* A step, made n times, that leads from the k-1st to the k-th of these sets, and the
\* recursive function that makes it.
Leads(F, L, n) == \A k \in 1 .. n : \A x \in L[k - 1] : F[<<x, k>>] \in L[k]

Recurs(h, F, b, L, n) ==
    /\ h = [k \in 0 .. n |-> IF k = 0 THEN b ELSE F[<<h[k - 1], k>>]]
    /\ \A k \in 0 .. n : h[k] \in L[k]

\* There is such a function.
LEMMA Levels ==
    ASSUME NEW n \in Nat, NEW L, NEW b \in L[0], NEW F, Leads(F, L, n)
    PROVE  \E h : Recurs(h, F, b, L, n)
<1> DEFINE X == UNION {L[k] : k \in 0 .. n}
           G == [z \in X \X (1 .. n) |-> IF z[1] \in L[z[2] - 1] THEN F[z] ELSE b]
<1>1. \A k \in 0 .. n : L[k] \subseteq X
  OBVIOUS
<1>2. b \in X
  <2>1. 0 \in 0 .. n
    OBVIOUS
  <2> QED BY <1>1, <2>1
<1>3. G \in [X \X (1 .. n) -> X]
  <2>1. ASSUME NEW x \in X, NEW k \in 1 .. n, x \in L[k - 1] PROVE F[<<x, k>>] \in X
    <3>1. k \in 0 .. n
      OBVIOUS
    <3>2. F[<<x, k>>] \in L[k]
      BY <2>1 DEF Leads
    <3> QED BY <1>1, <3>1, <3>2
  <2> HIDE DEF X
  <2>2. \A z \in X \X (1 .. n) : z = <<z[1], z[2]>> /\ z[1] \in X /\ z[2] \in 1 .. n
    OBVIOUS
  <2>3. \A z \in X \X (1 .. n) : z[1] \in L[z[2] - 1] => F[z] \in X
    BY <2>1, <2>2
  <2> QED BY <1>2, <2>3
<1> HIDE DEF X, G
<1>4. PICK h \in [0 .. n -> X] : Iterates(h, G, b, n)
  BY <1>2, <1>3, Iterated
<1> DEFINE T == {k \in 0 .. n : h[k] \in L[k]}
<1>5. 0 \in T
  BY <1>4 DEF Iterates
<1>6. ASSUME NEW k \in 1 .. n, k - 1 \in T PROVE k \in T /\ h[k] = F[<<h[k - 1], k>>]
  <2>1. h[k - 1] \in L[k - 1] /\ k - 1 \in 0 .. n
    BY <1>6
  <2>2. h[k] = G[<<h[k - 1], k>>] /\ h[k - 1] \in X
    BY <1>4, <2>1 DEF Iterates
  <2>3. h[k] = F[<<h[k - 1], k>>]
    BY <2>1, <2>2 DEF G
  <2> QED BY <2>1, <2>3 DEF Leads
<1>7. \A k \in 0 .. n : k \in T
  <2> HIDE DEF T
  <2> QED BY <1>5, <1>6, Induction
<1>8. ASSUME NEW k \in 0 .. n PROVE h[k] = IF k = 0 THEN b ELSE F[<<h[k - 1], k>>]
  <2>1. CASE k = 0
    BY <1>4, <2>1 DEF Iterates
  <2>2. CASE k # 0
    <3>1. k \in 1 .. n /\ k - 1 \in 0 .. n
      BY <2>2
    <3>2. k - 1 \in T
      BY <1>7, <3>1
    <3> QED BY <1>6, <2>2, <3>1, <3>2
  <2> QED BY <2>1, <2>2
<1>9. h = [k \in 0 .. n |-> IF k = 0 THEN b ELSE F[<<h[k - 1], k>>]]
  <2>1. h = [k \in 0 .. n |-> h[k]]
    OBVIOUS
  <2> QED BY <1>8, <2>1
<1> QED
  BY <1>7, <1>9 DEF Recurs

\* One more element at the end.
LEMMA AppendIs ==
    ASSUME NEW S, NEW s \in Seq(S), NEW e \in S
    PROVE  /\ Append(s, e) \in Seq(S) /\ Len(Append(s, e)) = Len(s) + 1 /\ Len(s) \in Nat
           /\ Append(s, e)[Len(s) + 1] = e /\ \A i \in 1 .. Len(s) : Append(s, e)[i] = s[i]
           /\ Range(Append(s, e)) = Range(s) \cup {e}
<1> DEFINE t == Append(s, e)
<1>1. /\ t \in Seq(S) /\ Len(t) = Len(s) + 1 /\ Len(s) \in Nat
      /\ t[Len(s) + 1] = e /\ \A i \in 1 .. Len(s) : t[i] = s[i]
  OBVIOUS
<1> HIDE DEF t
<1>2. DOMAIN t = 1 .. Len(s) + 1 /\ DOMAIN s = 1 .. Len(s)
  BY <1>1
<1>3. Len(s) + 1 \in DOMAIN t /\ \A i \in DOMAIN t : i = Len(s) + 1 \/ i \in DOMAIN s
  BY <1>1, <1>2
<1>4. \A i \in DOMAIN s : i \in DOMAIN t
  BY <1>1, <1>2
<1>5. Range(t) = Range(s) \cup {e}
  BY <1>1, <1>2, <1>3, <1>4 DEF Range
<1> QED
  BY <1>1, <1>5 DEF t

\* What a merge has taken after k steps.
Merging(a, b, k) ==
    {m \in [i : 1 .. Len(a) + 1, j : 1 .. Len(b) + 1, out : Seq(Symbol)] :
        /\ m.i + m.j = k + 2
        /\ Len(m.out) = k
        /\ Range(m.out) = {a[x] : x \in 1 .. m.i - 1} \cup {b[y] : y \in 1 .. m.j - 1}}

\* It takes one more.
LEMMA TakeStep ==
    ASSUME NEW a \in Seq(Symbol), NEW b \in Seq(Symbol), NEW k \in 1 .. Len(a) + Len(b),
           NEW m \in Merging(a, b, k - 1)
    PROVE  Take(a, b, m) \in Merging(a, b, k)
<1> DEFINE i == m.i
           j == m.j
           out == m.out
<1>1. /\ Len(a) \in Nat /\ Len(b) \in Nat /\ k \in Nat
      /\ i \in 1 .. Len(a) + 1 /\ j \in 1 .. Len(b) + 1 /\ out \in Seq(Symbol)
      /\ i + j = k + 1 /\ Len(out) = k - 1
      /\ Range(out) = {a[x] : x \in 1 .. i - 1} \cup {b[y] : y \in 1 .. j - 1}
      /\ m = [i |-> i, j |-> j, out |-> out]
  <2>1. m \in [i : 1 .. Len(a) + 1, j : 1 .. Len(b) + 1, out : Seq(Symbol)]
    BY DEF Merging
  <2>2. m.i + m.j = (k - 1) + 2 /\ Len(m.out) = k - 1 /\ Range(m.out) = {a[x] : x \in 1 .. m.i - 1} \cup {b[y] : y \in 1 .. m.j - 1}
    BY DEF Merging
  <2>3. Len(a) \in Nat /\ Len(b) \in Nat /\ k \in Nat
    OBVIOUS
  <2>4. i \in 1 .. Len(a) + 1 /\ j \in 1 .. Len(b) + 1 /\ out \in Seq(Symbol) /\ m = [i |-> i, j |-> j, out |-> out]
    BY <2>1
  <2>5. i + j = k + 1
    BY <2>2, <2>3, <2>4
  <2> QED BY <2>2, <2>3, <2>4, <2>5
<1>2. Take(a, b, m) \in {[i |-> i + 1, j |-> j, out |-> Append(out, a[i])],
                         [i |-> i, j |-> j + 1, out |-> Append(out, b[j])]}
  <2> HIDE DEF i, j, out
  <2> QED BY <1>1 DEF Take
<1>3. /\ (j > Len(b) \/ i <= Len(a)) => i <= Len(a)
      /\ ~(j > Len(b)) => j <= Len(b)
  <2> HIDE DEF i, j, out
  <2> QED BY <1>1
<1>4. \/ i <= Len(a) /\ Take(a, b, m) = [i |-> i + 1, j |-> j, out |-> Append(out, a[i])]
      \/ j <= Len(b) /\ Take(a, b, m) = [i |-> i, j |-> j + 1, out |-> Append(out, b[j])]
  <2>1. CASE j > Len(b) \/ (i <= Len(a) /\ NotAfter(a[i], b[j]))
    <3>1. Take(a, b, m) = [i |-> i + 1, j |-> j, out |-> Append(out, a[i])]
      <4>1. Take(a, b, m) = [m EXCEPT !.i = @ + 1, !.out = Append(@, a[m.i])]
        BY <2>1 DEF Take
      <4> HIDE DEF i, j, out
      <4>2. m.i = i /\ m.j = j /\ m.out = out
        BY DEF i, j, out
      <4> QED BY <1>1, <4>1, <4>2
    <3> QED BY <1>3, <2>1, <3>1
  <2>2. CASE ~(j > Len(b) \/ (i <= Len(a) /\ NotAfter(a[i], b[j])))
    <3>1. Take(a, b, m) = [i |-> i, j |-> j + 1, out |-> Append(out, b[j])]
      <4>1. Take(a, b, m) = [m EXCEPT !.j = @ + 1, !.out = Append(@, b[m.j])]
        BY <2>2 DEF Take
      <4> HIDE DEF i, j, out
      <4>2. m.i = i /\ m.j = j /\ m.out = out
        BY DEF i, j, out
      <4> QED BY <1>1, <4>1, <4>2
    <3> QED BY <1>3, <2>2, <3>1
  <2> QED BY <2>1, <2>2
<1> HIDE DEF i, j, out
<1>5. CASE i <= Len(a) /\ Take(a, b, m) = [i |-> i + 1, j |-> j, out |-> Append(out, a[i])]
  <2> DEFINE t == [i |-> i + 1, j |-> j, out |-> Append(out, a[i])]
  <2>1. i + 1 \in 1 .. Len(a) + 1 /\ (i + 1) + j = k + 2 /\ (i + 1) - 1 = i /\ i \in 1 .. Len(a)
    <3>1. i <= Len(a) /\ i \in 1 .. Len(a) + 1 /\ j \in 1 .. Len(b) + 1 /\ Len(a) \in Nat /\ Len(b) \in Nat
          /\ k \in Nat /\ i + j = k + 1
      BY <1>1, <1>5
    <3> QED BY <3>1
  <2>2. a[i] \in Symbol
    BY <2>1
  <2>3. /\ Append(out, a[i]) \in Seq(Symbol) /\ Len(Append(out, a[i])) = k
        /\ Range(Append(out, a[i])) = Range(out) \cup {a[i]}
    <3>1. out \in Seq(Symbol) /\ Len(out) = k - 1 /\ (k - 1) + 1 = k
      BY <1>1
    <3>2. /\ Append(out, a[i]) \in Seq(Symbol) /\ Len(Append(out, a[i])) = Len(out) + 1
          /\ Range(Append(out, a[i])) = Range(out) \cup {a[i]}
      BY <2>2, <3>1, AppendIs
    <3> QED BY <3>1, <3>2
  <2>4. {a[x] : x \in 1 .. i} = {a[x] : x \in 1 .. i - 1} \cup {a[i]}
    <3>1. 1 .. i = (1 .. i - 1) \cup {i}
      BY <1>1
    <3> QED BY <3>1
  <2>5. Range(Append(out, a[i])) = {a[x] : x \in 1 .. i} \cup {b[y] : y \in 1 .. j - 1}
    BY <1>1, <2>3, <2>4
  <2>6. t.i = i + 1 /\ t.j = j /\ t.out = Append(out, a[i])
    OBVIOUS
  <2>7. t \in [i : 1 .. Len(a) + 1, j : 1 .. Len(b) + 1, out : Seq(Symbol)]
    BY <1>1, <2>1, <2>3
  <2> HIDE DEF t
  <2>8. t \in Merging(a, b, k)
    BY <2>1, <2>3, <2>5, <2>6, <2>7 DEF Merging
  <2> QED BY <1>5, <2>8 DEF t
<1>6. CASE j <= Len(b) /\ Take(a, b, m) = [i |-> i, j |-> j + 1, out |-> Append(out, b[j])]
  <2> DEFINE t == [i |-> i, j |-> j + 1, out |-> Append(out, b[j])]
  <2>1. j + 1 \in 1 .. Len(b) + 1 /\ i + (j + 1) = k + 2 /\ (j + 1) - 1 = j /\ j \in 1 .. Len(b)
    <3>1. j <= Len(b) /\ i \in 1 .. Len(a) + 1 /\ j \in 1 .. Len(b) + 1 /\ Len(a) \in Nat /\ Len(b) \in Nat
          /\ k \in Nat /\ i + j = k + 1
      BY <1>1, <1>6
    <3> QED BY <3>1
  <2>2. b[j] \in Symbol
    BY <2>1
  <2>3. /\ Append(out, b[j]) \in Seq(Symbol) /\ Len(Append(out, b[j])) = k
        /\ Range(Append(out, b[j])) = Range(out) \cup {b[j]}
    <3>1. out \in Seq(Symbol) /\ Len(out) = k - 1 /\ (k - 1) + 1 = k
      BY <1>1
    <3>2. /\ Append(out, b[j]) \in Seq(Symbol) /\ Len(Append(out, b[j])) = Len(out) + 1
          /\ Range(Append(out, b[j])) = Range(out) \cup {b[j]}
      BY <2>2, <3>1, AppendIs
    <3> QED BY <3>1, <3>2
  <2>4. {b[x] : x \in 1 .. j} = {b[x] : x \in 1 .. j - 1} \cup {b[j]}
    <3>1. 1 .. j = (1 .. j - 1) \cup {j}
      BY <1>1
    <3> QED BY <3>1
  <2>5. Range(Append(out, b[j])) = {a[x] : x \in 1 .. i - 1} \cup {b[y] : y \in 1 .. j}
    BY <1>1, <2>3, <2>4
  <2>6. t.i = i /\ t.j = j + 1 /\ t.out = Append(out, b[j])
    OBVIOUS
  <2>7. t \in [i : 1 .. Len(a) + 1, j : 1 .. Len(b) + 1, out : Seq(Symbol)]
    BY <1>1, <2>1, <2>3
  <2> HIDE DEF t
  <2>8. t \in Merging(a, b, k)
    BY <2>1, <2>3, <2>5, <2>6, <2>7 DEF Merging
  <2> QED BY <1>6, <2>8 DEF t
<1> QED
  BY <1>4, <1>5, <1>6

\* A merge has the elements of both.
LEMMA Merged ==
    ASSUME NEW a \in Seq(Symbol), NEW b \in Seq(Symbol)
    PROVE  /\ Merge(a, b) \in Seq(Symbol)
           /\ Len(Merge(a, b)) = Len(a) + Len(b)
           /\ Range(Merge(a, b)) = Range(a) \cup Range(b)
<1> DEFINE n == Len(a) + Len(b)
           L == [k \in 0 .. n |-> Merging(a, b, k)]
           start == [i |-> 1, j |-> 1, out |-> <<>>]
           X == UNION {L[k] : k \in 0 .. n}
           F == [z \in X \X (1 .. n) |-> Take(a, b, z[1])]
           Is(f) == f = [k \in 0 .. n |-> IF k = 0 THEN start ELSE Take(a, b, f[k - 1])]
           f0 == CHOOSE f : Is(f)
<1>1. n \in Nat /\ Len(a) \in Nat /\ Len(b) \in Nat
  OBVIOUS
<1>2. Merge(a, b) = f0[n].out
  BY DEF Merge
<1>3. \A k \in 0 .. n : L[k] = Merging(a, b, k)
  OBVIOUS
<1>4. \A k \in 1 .. n : k \in 0 .. n /\ k - 1 \in 0 .. n
  BY <1>1
<1>5. start \in L[0]
  <2>1. /\ start \in [i : 1 .. Len(a) + 1, j : 1 .. Len(b) + 1, out : Seq(Symbol)]
        /\ start.i = 1 /\ start.j = 1 /\ start.out = <<>>
    BY <1>1
  <2>2. Range(<<>>) = {} /\ 1 .. 1 - 1 = {} /\ Len(<<>>) = 0
    BY DEF Range
  <2> HIDE DEF start
  <2>3. start \in Merging(a, b, 0)
    BY <2>1, <2>2 DEF Merging
  <2> QED BY <1>1, <1>3, <2>3
<1> HIDE DEF start
<1>6. \A k \in 1 .. n : \A x \in L[k - 1] : Take(a, b, x) \in L[k]
  <2>1. ASSUME NEW k \in 1 .. n, NEW x \in L[k - 1] PROVE Take(a, b, x) \in L[k]
    <3>1. x \in Merging(a, b, k - 1)
      BY <1>3, <1>4
    <3>2. Take(a, b, x) \in Merging(a, b, k)
      BY <3>1, TakeStep
    <3> QED BY <1>3, <1>4, <3>2
  <2> QED BY <2>1
<1> HIDE DEF L, n
<1>7. \A k \in 1 .. n : \A x \in L[k - 1] : F[<<x, k>>] = Take(a, b, x)
  <2>1. ASSUME NEW k \in 1 .. n, NEW x \in L[k - 1] PROVE F[<<x, k>>] = Take(a, b, x)
    <3>1. x \in X
      BY <1>4
    <3> HIDE DEF X
    <3> QED BY <3>1
  <2> QED BY <2>1
<1> HIDE DEF F, X
<1>8. PICK h : Recurs(h, F, start, L, n)
  <2>1. Leads(F, L, n)
    BY <1>6, <1>7 DEF Leads
  <2> QED BY <1>1, <1>5, <2>1, Levels
<1>9. Is(h)
  <2>1. \A k \in 0 .. n : k # 0 => k \in 1 .. n
    BY <1>1
  <2>2. ASSUME NEW k \in 0 .. n, k # 0 PROVE F[<<h[k - 1], k>>] = Take(a, b, h[k - 1])
    BY <1>4, <1>7, <1>8, <2>1, <2>2 DEF Recurs
  <2>3. [k \in 0 .. n |-> IF k = 0 THEN start ELSE F[<<h[k - 1], k>>]]
            = [k \in 0 .. n |-> IF k = 0 THEN start ELSE Take(a, b, h[k - 1])]
    BY <2>2
  <2> QED BY <1>8, <2>3 DEF Recurs
<1>10. Is(f0)
  <2> HIDE DEF Is
  <2> QED BY <1>9
<1> HIDE DEF f0
<1>11. \A k \in 0 .. n : f0[k] = IF k = 0 THEN start ELSE Take(a, b, f0[k - 1])
  BY <1>10, Zenon
<1>12. f0[n] \in L[n]
  <2> DEFINE T == {k \in 0 .. n : f0[k] \in L[k]}
  <2>1. 0 \in T
    <3>1. 0 \in 0 .. n
      BY <1>1
    <3> QED BY <1>5, <1>11, <3>1
  <2>2. ASSUME NEW k \in 1 .. n, k - 1 \in T PROVE k \in T
    <3>1. k \in 0 .. n /\ k # 0
      BY <1>1
    <3>2. f0[k] = Take(a, b, f0[k - 1])
      BY <1>11, <3>1
    <3> QED BY <1>6, <2>2, <3>1, <3>2
  <2> HIDE DEF T
  <2>3. n \in T
    <3>1. n \in 0 .. n
      BY <1>1
    <3> QED BY <1>1, <2>1, <2>2, <3>1, Induction
  <2> QED BY <2>3 DEF T
<1>13. f0[n] \in Merging(a, b, Len(a) + Len(b))
  <2>1. n \in 0 .. n
    BY <1>1
  <2> QED BY <1>3, <1>12, <2>1 DEF n
<1> DEFINE m == f0[n]
<1>14. /\ m.out \in Seq(Symbol) /\ Len(m.out) = Len(a) + Len(b)
       /\ m.i \in 1 .. Len(a) + 1 /\ m.j \in 1 .. Len(b) + 1 /\ m.i + m.j = Len(a) + Len(b) + 2
       /\ Range(m.out) = {a[x] : x \in 1 .. m.i - 1} \cup {b[y] : y \in 1 .. m.j - 1}
  BY <1>13 DEF Merging
<1>15. m.i - 1 = Len(a) /\ m.j - 1 = Len(b)
  <2> DEFINE i == m.i
             j == m.j
  <2>1. i \in 1 .. Len(a) + 1 /\ j \in 1 .. Len(b) + 1 /\ i + j = Len(a) + Len(b) + 2
    BY <1>14
  <2> HIDE DEF i, j
  <2>2. i - 1 = Len(a) /\ j - 1 = Len(b)
    BY <1>1, <2>1
  <2> QED BY <2>2 DEF i, j
<1>16. Range(a) = {a[x] : x \in 1 .. Len(a)} /\ Range(b) = {b[y] : y \in 1 .. Len(b)}
  BY DEF Range
<1> QED
  BY <1>2, <1>14, <1>15, <1>16

\* The parts of a list that are sorted, by where they begin and their length, and the
\* halves of a part.
Parts(s) == {p \in (1 .. Len(s) + 1) \X (0 .. Len(s)) : p[1] + p[2] <= Len(s) + 1}
Lower(p) == <<p[1], FirstHalf(p[2])>>
Upper(p) == <<p[1] + FirstHalf(p[2]), p[2] - FirstHalf(p[2])>>

SortedPart(s, f, p) ==
    IF p[2] < 2 THEN SubSeq(s, p[1], p[1] + p[2] - 1) ELSE Merge(f[Lower(p)], f[Upper(p)])

\* x has the elements of a part.
IsPart(s, p, x) ==
    x \in Seq(Symbol) /\ Len(x) = p[2] /\ Range(x) = {s[i] : i \in p[1] .. p[1] + p[2] - 1}

\* The halves of a part are smaller.
LEMMA Halves ==
    ASSUME NEW s \in Seq(Symbol), NEW p \in Parts(s), ~(p[2] < 2)
    PROVE  /\ Lower(p) \in Parts(s) /\ Upper(p) \in Parts(s)
           /\ Lower(p)[1] = p[1] /\ Upper(p)[1] = p[1] + Lower(p)[2] /\ Lower(p)[2] + Upper(p)[2] = p[2]
           /\ Lower(p)[2] < p[2] /\ Upper(p)[2] < p[2]
<1> DEFINE n == Len(s)
           i == p[1]
           k == p[2]
           h == FirstHalf(k)
<1>1. n \in Nat /\ i \in 1 .. n + 1 /\ k \in 0 .. n /\ i + k <= n + 1 /\ ~(k < 2)
  BY DEF Parts
<1>2. h \in 1 .. k - 1
  <2>1. \A x \in Nat : ~(x < 2) => x \div 2 \in 1 .. x - 1
    OBVIOUS
  <2>2. k \in Nat
    BY <1>1
  <2> HIDE DEF k
  <2> QED BY <1>1, <2>1, <2>2 DEF FirstHalf
<1>3. Lower(p) = <<i, h>> /\ Upper(p) = <<i + h, k - h>>
  BY DEF Lower, Upper
<1>4. Parts(s) = {q \in (1 .. n + 1) \X (0 .. n) : q[1] + q[2] <= n + 1}
  BY DEF Parts
<1> HIDE DEF n, i, k, h
<1>5. i \in 1 .. n + 1 /\ h \in 0 .. n /\ i + h <= n + 1
  BY <1>1, <1>2
<1>6. i + h \in 1 .. n + 1 /\ k - h \in 0 .. n /\ (i + h) + (k - h) <= n + 1
  BY <1>1, <1>2
<1>7. Lower(p) \in Parts(s) /\ Upper(p) \in Parts(s)
  BY <1>3, <1>4, <1>5, <1>6
<1>8. /\ Lower(p)[1] = i /\ Upper(p)[1] = i + Lower(p)[2] /\ Lower(p)[2] + Upper(p)[2] = k
      /\ Lower(p)[2] < k /\ Upper(p)[2] < k
  BY <1>1, <1>2, <1>3
<1> QED
  BY <1>7, <1>8 DEF i, k

\* A part of at most one element.
LEMMA SmallPart ==
    ASSUME NEW s \in Seq(Symbol), NEW p \in Parts(s)
    PROVE  IsPart(s, p, SubSeq(s, p[1], p[1] + p[2] - 1))
<1> DEFINE n == Len(s)
           i == p[1]
           k == p[2]
           t == SubSeq(s, i, i + k - 1)
<1>1. n \in Nat /\ i \in 1 .. n + 1 /\ k \in 0 .. n /\ i + k <= n + 1
  BY DEF Parts
<1> HIDE DEF i, k
<1>2. i + k - 1 \in 0 .. n /\ (i + k - 1) + 1 - i = k
  BY <1>1
<1>3. t \in Seq(Symbol) /\ Len(t) = k /\ \A x \in 1 .. k : t[x] = s[i + x - 1]
  <2>1. i \in 1 .. n + 1 /\ i + k - 1 \in i - 1 .. n
    BY <1>1
  <2> DEFINE e == i + k - 1
  <2>2. e \in i - 1 .. n /\ e - i + 1 = k
    BY <1>1, <1>2
  <2> HIDE DEF e
  <2>3. /\ SubSeq(s, i, e) \in Seq(Symbol) /\ Len(SubSeq(s, i, e)) = e - i + 1
        /\ \A x \in 1 .. e - i + 1 : SubSeq(s, i, e)[x] = s[i + x - 1]
    BY <1>1, <2>1, <2>2, SubSeqProperties, SMTT(30)
  <2> QED BY <2>2, <2>3 DEF e
<1> HIDE DEF t
<1>4. Range(t) = {s[x] : x \in i .. i + k - 1}
  <2>1. DOMAIN t = 1 .. k
    BY <1>1, <1>3
  <2>2. ASSUME NEW x \in 1 .. k PROVE t[x] \in {s[y] : y \in i .. i + k - 1}
    <3>1. i + x - 1 \in i .. i + k - 1
      BY <1>1
    <3> QED BY <1>3, <3>1
  <2>3. ASSUME NEW y \in i .. i + k - 1 PROVE s[y] \in Range(t)
    <3>1. y - i + 1 \in 1 .. k /\ i + (y - i + 1) - 1 = y
      BY <1>1
    <3>2. t[y - i + 1] = s[y]
      BY <1>3, <3>1
    <3> QED BY <2>1, <3>1, <3>2 DEF Range
  <2> QED BY <2>1, <2>2, <2>3 DEF Range
<1> QED
  BY <1>3, <1>4 DEF IsPart, t, i, k

\* A part that is merged from its halves.
LEMMA MergedPart ==
    ASSUME NEW s \in Seq(Symbol), NEW p \in Parts(s), ~(p[2] < 2), NEW x, NEW y,
           IsPart(s, Lower(p), x), IsPart(s, Upper(p), y)
    PROVE  IsPart(s, p, Merge(x, y))
<1> DEFINE i == p[1]
           k == p[2]
           l == Lower(p)[2]
           u == Upper(p)[2]
<1>1. i \in Nat /\ k \in Nat
  BY DEF Parts
<1>2. Lower(p)[1] = i /\ Upper(p)[1] = i + l /\ l + u = k /\ l \in Nat /\ u \in Nat
  <2>1. Lower(p) \in Parts(s) /\ Upper(p) \in Parts(s)
    BY Halves
  <2>2. l \in Nat /\ u \in Nat
    BY <2>1 DEF Parts
  <2> QED BY <2>2, Halves
<1>3. /\ x \in Seq(Symbol) /\ Len(x) = l /\ Range(x) = {s[z] : z \in i .. i + l - 1}
      /\ y \in Seq(Symbol) /\ Len(y) = u /\ Range(y) = {s[z] : z \in i + l .. (i + l) + u - 1}
  BY <1>2 DEF IsPart
<1> HIDE DEF i, k, l, u
<1>4. i .. i + k - 1 = (i .. i + l - 1) \cup (i + l .. (i + l) + u - 1)
  BY <1>1, <1>2
<1>5. {s[z] : z \in i .. i + k - 1} = Range(x) \cup Range(y)
  BY <1>3, <1>4
<1>6. Merge(x, y) \in Seq(Symbol) /\ Len(Merge(x, y)) = Len(x) + Len(y) /\ Range(Merge(x, y)) = Range(x) \cup Range(y)
  BY <1>3, Merged
<1> QED
  BY <1>2, <1>3, <1>5, <1>6 DEF IsPart, i, k

\* There is a function that sorts the parts of a list.
LEMMA SortExists ==
    ASSUME NEW s \in Seq(Symbol)
    PROVE  \E f : f = [p \in Parts(s) |-> SortedPart(s, f, p)]
<1> DEFINE n == Len(s)
           P == Parts(s)
           Functs == [P -> Seq(Symbol)]
           L == [k \in 0 .. n |-> {f \in Functs : \A p \in P : p[2] <= k => f[p] = SortedPart(s, f, p)}]
           next(f) == [p \in P |-> SortedPart(s, f, p)]
           start == [p \in P |-> SubSeq(s, p[1], p[1] + p[2] - 1)]
           F == [z \in Functs \X (1 .. n) |-> next(z[1])]
<1>1. n \in Nat
  OBVIOUS
<1>2. \A p \in P : p[2] \in 0 .. n
  BY DEF Parts
<1>3. start \in L[0]
  <2>1. start \in Functs
    <3>1. \A p \in P : SubSeq(s, p[1], p[1] + p[2] - 1) \in Seq(Symbol)
      BY SmallPart DEF IsPart
    <3> QED BY <3>1
  <2>2. ASSUME NEW p \in P, p[2] <= 0 PROVE start[p] = SortedPart(s, start, p)
    <3>1. p[2] < 2
      BY <1>1, <1>2, <2>2
    <3>2. start[p] = SubSeq(s, p[1], p[1] + p[2] - 1)
      OBVIOUS
    <3> HIDE DEF start
    <3> QED BY <3>1, <3>2 DEF SortedPart
  <2>3. 0 \in 0 .. n
    BY <1>1
  <2> HIDE DEF start, P, Functs
  <2> QED BY <2>1, <2>2, <2>3
<1>4. ASSUME NEW f \in Functs PROVE next(f) \in Functs
  <2>1. ASSUME NEW p \in P PROVE SortedPart(s, f, p) \in Seq(Symbol)
    <3>1. CASE p[2] < 2
      BY <3>1, SmallPart DEF SortedPart, IsPart
    <3>2. CASE ~(p[2] < 2)
      <4>1. f[Lower(p)] \in Seq(Symbol) /\ f[Upper(p)] \in Seq(Symbol)
        BY <3>2, Halves
      <4> QED BY <3>2, <4>1, Merged DEF SortedPart
    <3> QED BY <3>1, <3>2
  <2> QED BY <2>1
<1>5. ASSUME NEW k \in 1 .. n, NEW f \in L[k - 1] PROVE next(f) \in L[k] /\ f \in Functs
  <2>1. k \in 0 .. n /\ k - 1 \in 0 .. n
    BY <1>1
  <2>2. f \in Functs /\ \A p \in P : p[2] <= k - 1 => f[p] = SortedPart(s, f, p)
    BY <1>5, <2>1
  <2>3. next(f) \in Functs
    BY <1>4, <2>2
  <2>4. \A q \in P : next(f)[q] = SortedPart(s, f, q)
    OBVIOUS
  <2> DEFINE g == next(f)
  <2> HIDE DEF g
  <2>5. ASSUME NEW p \in P, p[2] <= k PROVE g[p] = SortedPart(s, g, p)
    <3>1. g[p] = SortedPart(s, f, p)
      BY <2>4 DEF g
    <3>2. CASE p[2] < 2
      BY <3>1, <3>2 DEF SortedPart
    <3>3. CASE ~(p[2] < 2)
      <4>1. Lower(p) \in P /\ Upper(p) \in P /\ Lower(p)[2] < p[2] /\ Upper(p)[2] < p[2]
        BY <3>3, Halves
      <4>2. Lower(p)[2] <= k - 1 /\ Upper(p)[2] <= k - 1
        BY <1>1, <1>2, <2>5, <4>1
      <4>3. f[Lower(p)] = g[Lower(p)] /\ f[Upper(p)] = g[Upper(p)]
        BY <2>2, <2>4, <4>1, <4>2 DEF g
      <4> QED BY <3>1, <3>3, <4>3 DEF SortedPart
    <3> QED BY <3>2, <3>3
  <2>6. g \in Functs
    BY <2>3 DEF g
  <2>7. g \in L[k]
    <3> HIDE DEF P, Functs
    <3> QED BY <2>1, <2>5, <2>6
  <2> QED BY <2>2, <2>7 DEF g
<1> HIDE DEF L, start, Functs
<1>6. Leads(F, L, n)
  <2>1. ASSUME NEW k \in 1 .. n, NEW f \in L[k - 1] PROVE F[<<f, k>>] \in L[k]
    <3>1. next(f) \in L[k] /\ f \in Functs
      BY <1>5
    <3> HIDE DEF next, n
    <3>2. F[<<f, k>>] = next(f)
      BY <3>1
    <3> QED BY <3>1, <3>2
  <2> QED BY <2>1 DEF Leads
<1> HIDE DEF F
<1>7. PICK h : Recurs(h, F, start, L, n)
  BY <1>1, <1>3, <1>6, Levels
<1> DEFINE f == h[n]
<1>8. f \in L[n]
  <2>1. n \in 0 .. n
    BY <1>1
  <2> QED BY <1>7, <2>1 DEF Recurs
<1>9. f \in Functs /\ \A p \in P : p[2] <= n => f[p] = SortedPart(s, f, p)
  <2>1. n \in 0 .. n
    BY <1>1
  <2> HIDE DEF f, P
  <2> QED BY <1>8, <2>1 DEF L
<1> HIDE DEF f
<1>10. \A p \in P : f[p] = SortedPart(s, f, p)
  <2>1. \A p \in P : p[2] <= n
    BY <1>1, <1>2
  <2> QED BY <1>9, <2>1
<1>11. f = [p \in P |-> f[p]]
  BY <1>9 DEF Functs
<1> QED
  BY <1>10, <1>11

\* A list that is sorted has its elements.
LEMMA ListSorted ==
    ASSUME NEW s \in Seq(Symbol)
    PROVE  ListSort(s) \in Seq(Symbol) /\ Len(ListSort(s)) = Len(s) /\ Range(ListSort(s)) = Range(s)
<1> DEFINE n == Len(s)
           P == Parts(s)
           Is(f) == f = [p \in P |-> SortedPart(s, f, p)]
           f0 == CHOOSE f : Is(f)
           T == {k \in 0 .. n : \A p \in P : p[2] <= k => IsPart(s, p, f0[p])}
<1>1. n \in Nat
  OBVIOUS
<1>2. ListSort(s) = f0[<<1, n>>]
  BY DEF ListSort, SortedPart, Parts, Lower, Upper
<1>3. Is(f0)
  <2>1. \E f : Is(f)
    BY SortExists
  <2> HIDE DEF Is
  <2> QED BY <2>1
<1> HIDE DEF f0
<1>4. \A p \in P : f0[p] = SortedPart(s, f0, p)
  BY <1>3, Zenon
<1>5. \A p \in P : p[2] \in 0 .. n
  BY DEF Parts
<1>6. ASSUME NEW k \in 0 .. n, k = 0 \/ k - 1 \in T PROVE k \in T
  <2>1. ASSUME NEW p \in P, p[2] <= k PROVE IsPart(s, p, f0[p])
    <3>1. CASE p[2] < 2
      BY <1>4, <3>1, SmallPart DEF SortedPart
    <3>2. CASE ~(p[2] < 2)
      <4>1. Lower(p) \in P /\ Upper(p) \in P /\ Lower(p)[2] < p[2] /\ Upper(p)[2] < p[2]
        BY <3>2, Halves
      <4>2. k # 0 /\ Lower(p)[2] <= k - 1 /\ Upper(p)[2] <= k - 1
        BY <1>1, <1>5, <2>1, <3>2, <4>1
      <4>3. IsPart(s, Lower(p), f0[Lower(p)]) /\ IsPart(s, Upper(p), f0[Upper(p)])
        BY <1>6, <4>1, <4>2
      <4>4. f0[p] = Merge(f0[Lower(p)], f0[Upper(p)])
        BY <1>4, <3>2 DEF SortedPart
      <4> QED BY <3>2, <4>3, <4>4, MergedPart
    <3> QED BY <3>1, <3>2
  <2> QED BY <2>1
<1>7. n \in T
  <2>1. 0 \in T
    <3>1. 0 \in 0 .. n
      BY <1>1
    <3> HIDE DEF T
    <3> QED BY <1>6, <3>1
  <2>2. ASSUME NEW k \in 1 .. n, k - 1 \in T PROVE k \in T
    <3>1. k \in 0 .. n
      BY <1>1
    <3> HIDE DEF T
    <3> QED BY <1>6, <2>2, <3>1
  <2> HIDE DEF T
  <2>3. n \in 0 .. n
    BY <1>1
  <2> QED BY <1>1, <2>1, <2>2, <2>3, Induction
<1>8. <<1, n>> \in P
  <2>1. 1 \in 1 .. n + 1 /\ n \in 0 .. n /\ 1 + n <= n + 1
    BY <1>1
  <2> HIDE DEF n
  <2>2. P = {p \in (1 .. n + 1) \X (0 .. n) : p[1] + p[2] <= n + 1}
    BY DEF Parts, n
  <2> HIDE DEF P
  <2> QED BY <2>1, <2>2
<1>9. IsPart(s, <<1, n>>, f0[<<1, n>>])
  <2>1. <<1, n>>[2] <= n
    BY <1>1
  <2> QED BY <1>7, <1>8, <2>1
<1>10. Range(s) = {s[i] : i \in 1 .. 1 + n - 1}
  <2>1. 1 + n - 1 = n /\ DOMAIN s = 1 .. n
    BY <1>1
  <2> QED BY <2>1 DEF Range
<1> QED
  BY <1>2, <1>9, <1>10 DEF IsPart

\* The list has the symbols that are searched for.
LEMMA SymbolsListed ==
    ASSUME NEW syms \in Seq(Symbol), NEW searched
    PROVE  /\ SymbolList(syms, searched) \in Seq(Symbol)
           /\ Range(SymbolList(syms, searched)) = {sym \in Range(syms) : IsSearched(sym, searched)}
<1> DEFINE S == {i \in DOMAIN syms : IsSearched(syms[i], searched)}
           R == {p \in S \X S : p[1] > p[2]}
           order == InOrder(S, R)
           c == [k \in DOMAIN order |-> syms[order[k]]]
<1>1. DOMAIN syms = 1 .. Len(syms) /\ Len(syms) \in Nat
  OBVIOUS
<1>2. IsFiniteSet(S)
  <2>1. IsFiniteSet(1 .. Len(syms))
    BY <1>1, FS_Interval
  <2>2. S \subseteq 1 .. Len(syms)
    BY <1>1
  <2> HIDE DEF S
  <2> QED BY <2>1, <2>2, FS_Subset
<1>3. S \subseteq Nat
  BY <1>1
<1>4. Order(S, R)
  <2>1. \A i, j \in S : <<i, j>> \in R <=> i > j
    OBVIOUS
  <2> HIDE DEF R, S
  <2>2. \A i, j \in S : i \in Nat /\ j \in Nat
    BY <1>3
  <2>3. \A i \in S : <<i, i>> \notin R
    BY <2>1, <2>2
  <2>4. \A i, j, k \in S : <<i, j>> \in R /\ <<j, k>> \in R => <<i, k>> \in R
    <3>1. \A i, j, k \in S : i > j /\ j > k => i > k
      BY <2>2
    <3> QED BY <2>1, <3>1
  <2>5. ASSUME NEW i \in S, NEW j \in S PROVE i = j \/ <<i, j>> \in R \/ <<j, i>> \in R
    <3>1. i = j \/ i > j \/ j > i
      BY <2>2
    <3> QED BY <2>1, <3>1
  <2> QED BY <1>2, <2>3, <2>4, <2>5 DEF Order
<1> HIDE DEF R
<1>5. /\ Cardinality(S) \in Nat /\ order \in [1 .. Cardinality(S) -> S]
      /\ \A i \in S : \E k \in 1 .. Cardinality(S) : order[k] = i
  <2> HIDE DEF S
  <2> QED BY <1>4, InOrderSorts
<1>6. Collected(syms, searched) = c
  BY DEF Collected, R
<1> HIDE DEF order
<1>7. c \in Seq(Symbol) /\ DOMAIN c = 1 .. Cardinality(S)
  <2>1. \A i \in S : syms[i] \in Symbol
    BY <1>1
  <2> HIDE DEF S
  <2>2. \A k \in 1 .. Cardinality(S) : syms[order[k]] \in Symbol
    BY <1>5, <2>1
  <2>3. c \in [1 .. Cardinality(S) -> Symbol]
    BY <1>5, <2>2
  <2> HIDE DEF c
  <2> QED BY <1>5, <2>3
<1>8. Range(c) = {sym \in Range(syms) : IsSearched(sym, searched)}
  <2>1. \A k \in 1 .. Cardinality(S) : order[k] \in S /\ c[k] = syms[order[k]]
    <3> HIDE DEF S
    <3> QED BY <1>5
  <2>2. ASSUME NEW k \in 1 .. Cardinality(S) PROVE c[k] \in Range(syms) /\ IsSearched(c[k], searched)
    BY <2>1 DEF Range
  <2>3. ASSUME NEW i \in DOMAIN syms, IsSearched(syms[i], searched) PROVE syms[i] \in Range(c)
    <3>1. i \in S
      BY <2>3
    <3>2. PICK k \in 1 .. Cardinality(S) : order[k] = i
      BY <1>5, <3>1
    <3> HIDE DEF c, S
    <3> QED BY <1>7, <2>1, <3>2 DEF Range
  <2> HIDE DEF c, S
  <2> QED BY <1>7, <2>2, <2>3 DEF Range
<1> HIDE DEF c
<1>9. ListSort(c) \in Seq(Symbol) /\ Range(ListSort(c)) = Range(c)
  BY <1>7, ListSorted
<1> QED
  BY <1>6, <1>8, <1>9 DEF SymbolList

\* Every row that is not at the top has one above it, of the scope of its symbol.
HasParent(rows, i) ==
    \E p \in Above(rows, i) : rows[p].depth = rows[i].depth - 1 /\ ScopedName(rows[p].sym) = rows[i].sym.scope

Tree(rows) == \A i \in 1 .. Len(rows) : rows[i].depth = 1 \/ (rows[i].depth > 1 /\ HasParent(rows, i))

Syms(rows) == {rows[i].sym : i \in DOMAIN rows}

\* It is the one of the row below it that is nearest.
LEMMA TreeBelow ==
    ASSUME NEW rows \in Seq(Row), Tree(rows)
    PROVE  RowsBelow(rows)
<1> SUFFICES ASSUME NEW i \in DOMAIN rows, rows[i].depth # 1
             PROVE  ScopedName(rows[ParentRow(rows, i)].sym) = rows[i].sym.scope
  BY DEF RowsBelow
<1>0. i \in 1 .. Len(rows) /\ Len(rows) \in Nat
  OBVIOUS
<1>1. PICK p \in Above(rows, i) : rows[p].depth = rows[i].depth - 1 /\ ScopedName(rows[p].sym) = rows[i].sym.scope
  BY <1>0 DEF Tree, HasParent
<1> DEFINE d(k) == rows[k].depth
           U == Above(rows, i) \ {i}
<1>2. \A k \in 1 .. Len(rows) : d(k) \in Nat
  BY RowType
<1>3. Above(rows, i) \subseteq 1 .. Len(rows)
  BY <1>0, AboveIs
<1>4. p \in U
  <2>1. d(p) = d(i) - 1 /\ d(p) \in Nat /\ d(i) \in Nat
    BY <1>0, <1>1, <1>2, <1>3
  <2>2. p # i
    BY <2>1
  <2> QED BY <2>2
<1>5. ASSUME NEW q \in U PROVE q <= p
  <2>1. q \in 1 .. Len(rows) /\ p \in 1 .. Len(rows) /\ q \in Above(rows, i) /\ q # i
    BY <1>3
  <2>2. d(q) < d(i)
    BY <1>0, <2>1, AboveIs
  <2>3. SUFFICES ASSUME p < q PROVE FALSE
    BY <1>0, <2>1
  <2>4. p \in Above(rows, q)
    <3>1. Above(rows, q) = Above(rows, i) \cap (1 .. q)
      BY <1>0, <2>1, AboveIs
    <3>2. p \in 1 .. q
      BY <1>0, <2>1, <2>3
    <3> QED BY <3>1, <3>2
  <2>5. d(p) < d(q)
    <3>1. p # q
      BY <2>1, <2>3
    <3> QED BY <2>1, <2>4, <3>1, AboveIs
  <2>6. d(p) = d(i) - 1 /\ d(p) \in Nat /\ d(q) \in Nat /\ d(i) \in Nat
    BY <1>0, <1>1, <1>2, <2>1
  <2> HIDE DEF d
  <2> QED BY <2>2, <2>5, <2>6
<1>6. ParentRow(rows, i) = Max(U)
  BY DEF ParentRow
<1>7. \A q \in U : q \in Nat
  BY <1>0, <1>3
<1> HIDE DEF U
<1>8. Max(U) = p
  <2>1. Max(U) \in U /\ \A y \in U : Max(U) >= y
    <3>1. \A y \in U : p >= y
      BY <1>4, <1>5, <1>7
    <3> QED BY <1>4, <3>1 DEF Max
  <2>2. Max(U) >= p /\ Max(U) <= p /\ p \in Nat /\ Max(U) \in Nat
    BY <1>4, <1>5, <1>7, <2>1
  <2> QED BY <2>2
<1> QED
  BY <1>1, <1>6, <1>8

\* Symbols of the same name with its scope are in the same scope.
LEMMA ScopedSame ==
    ASSUME NEW a \in Symbol, NEW b \in Symbol, ScopedName(a) = ScopedName(b)
    PROVE  a.scope = b.scope
<1> DEFINE s == a.scope
           t == b.scope
           e == a.name
           f == b.name
<1>1. s \in Seq(STRING) /\ t \in Seq(STRING) /\ e \in STRING /\ f \in STRING /\ Append(s, e) = Append(t, f)
  BY DEF Symbol, ScopedName
<1> HIDE DEF s, t, e, f
<1>2. s = t
  <2>1. Len(Append(s, e)) = Len(s) + 1 /\ Len(Append(t, f)) = Len(t) + 1 /\ Len(s) \in Nat /\ Len(t) \in Nat
    BY <1>1
  <2>2. Len(s) = Len(t)
    BY <1>1, <2>1
  <2>3. ASSUME NEW i \in 1 .. Len(s) PROVE s[i] = t[i]
    <3>1. Append(s, e)[i] = s[i]
      <4>1. s \in Seq(STRING) /\ e \in STRING
        BY <1>1
      <4> QED BY <4>1, AppendProperties
    <3>2. Append(t, f)[i] = t[i]
      <4>1. i \in 1 .. Len(t) /\ t \in Seq(STRING) /\ f \in STRING
        BY <1>1, <2>2
      <4> QED BY <4>1, AppendProperties
    <3> QED BY <1>1, <3>1, <3>2
  <2> QED BY <1>1, <2>2, <2>3
<1> QED
  BY <1>2 DEF s, t

\* new keeps the rows m[i] of old, with all above them.
Embeds(m, old, new) ==
    \A i \in 1 .. Len(new) :
        /\ new[i].depth = old[m[i]].depth
        /\ ScopedName(new[i].sym) = ScopedName(old[m[i]].sym)
        /\ \A j \in 1 .. i - 1 : m[j] < m[i]
        /\ \A p \in Above(old, m[i]) : \E j \in 1 .. i : m[j] = p

\* What is above a row that is kept stays above it.
LEMMA EmbedTree ==
    ASSUME NEW old \in Seq(Row), NEW new \in Seq(Row), Tree(old),
           NEW m \in [1 .. Len(new) -> 1 .. Len(old)], Embeds(m, old, new)
    PROVE  Tree(new)
<1> SUFFICES ASSUME NEW i \in 1 .. Len(new), new[i].depth # 1
             PROVE  new[i].depth > 1 /\ HasParent(new, i)
  BY DEF Tree
<1>1. m[i] \in 1 .. Len(old) /\ new[i].depth = old[m[i]].depth /\ Len(new) \in Nat /\ Len(old) \in Nat
  BY DEF Embeds
<1>2. old[m[i]].depth > 1 /\ HasParent(old, m[i])
  BY <1>1 DEF Tree
<1>3. PICK p \in Above(old, m[i]) :
          old[p].depth = old[m[i]].depth - 1 /\ ScopedName(old[p].sym) = old[m[i]].sym.scope
  BY <1>2 DEF HasParent
<1>4. PICK j \in 1 .. i : m[j] = p
  BY DEF Embeds
<1>5. j \in 1 .. Len(new)
  OBVIOUS
<1>6. \A k \in j + 1 .. i : new[k].depth > new[j].depth
  <2>1. \A k \in p + 1 .. m[i] : old[k].depth > old[p].depth
    BY DEF Above
  <2>2. ASSUME NEW k \in j + 1 .. i PROVE m[k] \in p + 1 .. m[i]
    <3>1. k \in 1 .. Len(new) /\ j \in 1 .. k - 1 /\ (k = i \/ k \in 1 .. i - 1)
      BY <1>5
    <3>2. m[j] < m[k] /\ (k = i \/ m[k] < m[i])
      BY <3>1 DEF Embeds
    <3>3. m[k] \in Nat /\ m[i] \in Nat /\ m[j] \in Nat
      BY <1>1, <1>5, <3>1
    <3> QED BY <1>4, <3>2, <3>3
  <2>3. ASSUME NEW k \in j + 1 .. i PROVE new[k].depth = old[m[k]].depth
    <3>1. k \in 1 .. Len(new)
      BY <1>5
    <3> QED BY <3>1 DEF Embeds
  <2>4. new[j].depth = old[p].depth
    BY <1>4, <1>5 DEF Embeds
  <2> QED BY <2>1, <2>2, <2>3, <2>4
<1>7. j \in Above(new, i)
  BY <1>6 DEF Above
<1>8. new[j].depth = new[i].depth - 1
  BY <1>1, <1>3, <1>4, <1>5 DEF Embeds
<1>9. ScopedName(new[j].sym) = new[i].sym.scope
  <2>1. ScopedName(new[j].sym) = ScopedName(old[p].sym)
    BY <1>4, <1>5 DEF Embeds
  <2>2. ScopedName(new[i].sym) = ScopedName(old[m[i]].sym)
    BY DEF Embeds
  <2>3. new[i].sym \in Symbol /\ old[m[i]].sym \in Symbol
    BY <1>1, RowType
  <2>4. new[i].sym.scope = old[m[i]].sym.scope
    BY <2>2, <2>3, ScopedSame
  <2> QED BY <1>3, <2>1, <2>4
<1> QED
  BY <1>1, <1>2, <1>7, <1>8, <1>9 DEF HasParent

\* The lookup finds a symbol of the name when there is one.
LEMMA LookupFinds ==
    ASSUME NEW left \in Seq(Symbol), NEW sym \in Symbol, Matches(sym, left) # {}
    PROVE  SymbolsTableLookup(sym, left) \in Matches(sym, left)
<1> DEFINE M == Matches(sym, left)
           near == [k \in M |-> Distance(left[k].line, sym.line)]
           N == {near[k] : k \in M}
<1>1. M \subseteq 1 .. Len(left) /\ Len(left) \in Nat
  BY DEF Matches
<1>2. \A k \in M : near[k] \in Nat
  <2>1. ASSUME NEW k \in M PROVE Distance(left[k].line, sym.line) \in Nat
    <3>1. left[k] \in Symbol
      BY <1>1
    <3>2. left[k].line \in Nat /\ sym.line \in Nat
      BY <3>1 DEF Symbol
    <3> QED BY <3>2 DEF Distance
  <2> QED BY <2>1
<1> HIDE DEF M
<1>3. N \in SUBSET Nat /\ N # {}
  BY <1>2 DEF M
<1>4. PICK a \in N : \A b \in N : a <= b
  <2> HIDE DEF N
  <2> QED BY <1>3, LeastNat
<1> DEFINE I == {k \in M : near[k] = a}
<1>5. I \in SUBSET Nat /\ I # {}
  BY <1>1
<1>6. PICK i \in I : \A j \in I : i <= j
  <2> HIDE DEF I
  <2> QED BY <1>5, LeastNat
<1>7. i \in M /\ \A j \in M : near[i] < near[j] \/ (near[i] = near[j] /\ i <= j)
  <2>1. i \in M /\ near[i] = a
    OBVIOUS
  <2>2. ASSUME NEW j \in M PROVE near[i] < near[j] \/ (near[i] = near[j] /\ i <= j)
    <3>1. a <= near[j] /\ a \in Nat /\ near[j] \in Nat
      BY <1>2, <1>3, <1>4
    <3>2. near[j] = a => i <= j
      BY <1>6
    <3> QED BY <2>1, <3>1, <3>2
  <2> QED BY <2>1, <2>2
<1>8. \A k \in M : near[k] = Distance(left[k].line, sym.line)
  OBVIOUS
<1> HIDE DEF near
<1> DEFINE d(k) == Distance(left[k].line, sym.line)
<1>9. i \in M /\ \A j \in M : d(i) < d(j) \/ (d(i) = d(j) /\ i <= j)
  BY <1>7, <1>8
<1> QED
  BY <1>9 DEF SymbolsTableLookup, M

\* Whatever row is not kept has nothing below it any more: one at its level has followed,
\* or what follows is removed with it.
Gone(m, old, st, k) ==
    \A p \in 1 .. k : \/ \E i \in 1 .. Len(st.rows) : m[i] = p
                      \/ \E r \in p + 1 .. k : old[r].depth <= old[p].depth
                      \/ \E d \in st.removed : d <= old[p].depth

\* What the first pass has made of k rows.
Updating(old, list, k) ==
    {st \in [rows : Seq(Row), left : Seq(Symbol), removed : SUBSET Nat] :
        /\ Len(st.rows) + Len(st.left) = Len(list)
        /\ Syms(st.rows) \cup Range(st.left) = Range(list)
        /\ \E m \in [1 .. Len(st.rows) -> 1 .. k] : Embeds(m, old, st.rows) /\ Gone(m, old, st, k)}

\* Its parts.
LEMMA UpdatingIs ==
    ASSUME NEW old, NEW list, NEW k, NEW st \in Updating(old, list, k)
    PROVE  /\ st \in [rows : Seq(Row), left : Seq(Symbol), removed : SUBSET Nat]
           /\ st.rows \in Seq(Row) /\ st.left \in Seq(Symbol) /\ st.removed \in SUBSET Nat
           /\ Len(st.rows) + Len(st.left) = Len(list)
           /\ Syms(st.rows) \cup Range(st.left) = Range(list)
           /\ \E m \in [1 .. Len(st.rows) -> 1 .. k] : Embeds(m, old, st.rows) /\ Gone(m, old, st, k)
<1>1. st \in [rows : Seq(Row), left : Seq(Symbol), removed : SUBSET Nat]
  BY DEF Updating
<1>2. st.rows \in Seq(Row) /\ st.left \in Seq(Symbol) /\ st.removed \in SUBSET Nat
  BY <1>1
<1> QED
  BY <1>1, <1>2 DEF Updating

\* The rows that are removed, or not shown because something above them is.
LEMMA RowRemoved ==
    ASSUME NEW old \in Seq(Row), NEW list \in Seq(Symbol), NEW k \in 1 .. Len(old),
           NEW st \in Updating(old, list, k - 1), NEW removed \in SUBSET Nat,
           \E d \in removed : d <= old[k].depth,
           \/ removed = st.removed
           \/ removed = {old[k].depth} /\ ~(\E d \in st.removed : old[k].depth > d)
    PROVE  [st EXCEPT !.removed = removed] \in Updating(old, list, k)
<1> DEFINE t == [st EXCEPT !.removed = removed]
<1>1. /\ st \in [rows : Seq(Row), left : Seq(Symbol), removed : SUBSET Nat]
      /\ Len(st.rows) + Len(st.left) = Len(list)
      /\ Syms(st.rows) \cup Range(st.left) = Range(list)
  BY DEF Updating
<1>2. PICK m \in [1 .. Len(st.rows) -> 1 .. k - 1] : Embeds(m, old, st.rows) /\ Gone(m, old, st, k - 1)
  BY UpdatingIs
<1>3. /\ t \in [rows : Seq(Row), left : Seq(Symbol), removed : SUBSET Nat]
      /\ t.rows = st.rows /\ t.left = st.left /\ t.removed = removed
  BY <1>1
<1> HIDE DEF t
<1>4. m \in [1 .. Len(t.rows) -> 1 .. k] /\ Embeds(m, old, t.rows)
  <2>1. m \in [1 .. Len(t.rows) -> 1 .. k - 1] /\ Embeds(m, old, t.rows)
    BY <1>2, <1>3
  <2>2. \A x \in 1 .. k - 1 : x \in 1 .. k
    OBVIOUS
  <2> QED BY <2>1, <2>2
<1>5. Gone(m, old, t, k)
  <2> SUFFICES ASSUME NEW p \in 1 .. k
               PROVE  \/ \E i \in 1 .. Len(st.rows) : m[i] = p
                      \/ \E r \in p + 1 .. k : old[r].depth <= old[p].depth
                      \/ \E d \in removed : d <= old[p].depth
    BY <1>3 DEF Gone
  <2>1. CASE p = k
    BY <2>1
  <2>2. CASE p # k
    <3>1. p \in 1 .. k - 1 /\ k \in p + 1 .. k /\ \A r \in p + 1 .. k - 1 : r \in p + 1 .. k
      BY <2>2
    <3>2. \/ \E i \in 1 .. Len(st.rows) : m[i] = p
          \/ \E r \in p + 1 .. k - 1 : old[r].depth <= old[p].depth
          \/ \E d \in st.removed : d <= old[p].depth
      BY <1>2, <3>1 DEF Gone
    <3>3. CASE \E d \in st.removed : d <= old[p].depth
      <4>1. CASE removed = st.removed
        BY <3>3, <4>1
      <4>2. CASE ~(\E d \in st.removed : old[k].depth > d)
        <5>1. PICK d \in st.removed : d <= old[p].depth
          BY <3>3
        <5>2. ~(old[k].depth > d) /\ d \in Nat
          BY <4>2, UpdatingIs
        <5>3. old[k].depth \in Nat /\ old[p].depth \in Nat
          <6>1. p \in 1 .. Len(old)
            BY <3>1
          <6> QED BY <6>1, RowType
        <5>4. old[k].depth <= old[p].depth
          BY <5>1, <5>2, <5>3
        <5> QED BY <3>1, <5>4
      <4> QED BY <4>1, <4>2
    <3> QED BY <3>1, <3>2, <3>3
  <2> QED BY <2>1, <2>2
<1> QED
  BY <1>1, <1>3, <1>4, <1>5 DEF Updating, t

\* An element is moved from one list to another.
LEMMA Moved ==
    ASSUME NEW rows \in Seq(Row), NEW left \in Seq(Symbol), NEW i \in 1 .. Len(left), NEW depth \in Nat
    PROVE  LET more == Append(rows, [sym |-> left[i], depth |-> depth])
               less == RemoveAt(left, i)
           IN  /\ more \in Seq(Row) /\ less \in Seq(Symbol)
               /\ Len(more) + Len(less) = Len(rows) + Len(left)
               /\ Syms(more) \cup Range(less) = Syms(rows) \cup Range(left)
<1> DEFINE row == [sym |-> left[i], depth |-> depth]
           more == Append(rows, row)
           less == RemoveAt(left, i)
           n == Len(left)
<1>1. n \in Nat /\ i \in 1 .. n /\ left[i] \in Symbol /\ DOMAIN left = 1 .. n
  OBVIOUS
<1>2. row \in Row /\ row.sym = left[i]
  BY <1>1 DEF Row
<1> HIDE DEF row
<1>3. /\ more \in Seq(Row) /\ Len(more) = Len(rows) + 1 /\ Len(rows) \in Nat
      /\ more[Len(rows) + 1] = row /\ \A x \in 1 .. Len(rows) : more[x] = rows[x]
  BY <1>2, AppendIs
<1>4. /\ less \in Seq(Symbol) /\ Len(less) = n - 1
      /\ \A x \in 1 .. n - 1 : less[x] = IF x < i THEN left[x] ELSE left[x + 1]
  BY <1>1, RemoveAtProperties
<1> HIDE DEF more, less
<1>5. Syms(more) = Syms(rows) \cup {left[i]}
  <2>1. DOMAIN more = 1 .. Len(rows) + 1 /\ DOMAIN rows = 1 .. Len(rows)
    BY <1>3
  <2>2. Syms(more) = {more[x].sym : x \in 1 .. Len(rows) + 1} /\ Syms(rows) = {rows[x].sym : x \in 1 .. Len(rows)}
    BY <2>1 DEF Syms
  <2>3. 1 .. Len(rows) + 1 = (1 .. Len(rows)) \cup {Len(rows) + 1}
    BY <1>3
  <2>4. more[Len(rows) + 1].sym = left[i]
    BY <1>2, <1>3
  <2> QED BY <1>3, <2>2, <2>3, <2>4
<1>6. Range(less) \cup {left[i]} = Range(left)
  <2>1. DOMAIN less = 1 .. n - 1
    BY <1>1, <1>4
  <2>2. ASSUME NEW x \in 1 .. n - 1 PROVE less[x] \in Range(left)
    <3>1. x \in 1 .. n /\ x + 1 \in 1 .. n
      BY <1>1
    <3>2. less[x] = left[x] \/ less[x] = left[x + 1]
      BY <1>4
    <3> QED BY <1>1, <3>1, <3>2 DEF Range
  <2>3. ASSUME NEW x \in 1 .. n, x # i PROVE left[x] \in Range(less)
    <3>1. CASE x < i
      <4>1. x \in 1 .. n - 1
        BY <1>1, <3>1
      <4> QED BY <1>4, <2>1, <3>1, <4>1 DEF Range
    <3>2. CASE ~(x < i)
      <4>1. x - 1 \in 1 .. n - 1 /\ ~(x - 1 < i) /\ (x - 1) + 1 = x
        BY <1>1, <2>3, <3>2
      <4>2. less[x - 1] = left[x]
        BY <1>4, <4>1
      <4> QED BY <2>1, <4>1, <4>2 DEF Range
    <3> QED BY <3>1, <3>2
  <2>4. left[i] \in Range(left)
    BY <1>1 DEF Range
  <2> QED BY <1>1, <2>1, <2>2, <2>3, <2>4 DEF Range
<1>7. Len(more) + Len(less) = Len(rows) + n
  BY <1>1, <1>3, <1>4
<1> QED
  BY <1>3, <1>4, <1>5, <1>6, <1>7 DEF more, less, row, n

\* A row that is updated in place keeps all above it.
LEMMA RowKept ==
    ASSUME NEW old \in Seq(Row), NEW list \in Seq(Symbol), NEW k \in 1 .. Len(old),
           NEW st \in Updating(old, list, k - 1), ~(\E d \in st.removed : old[k].depth > d),
           NEW i \in Matches(old[k].sym, st.left)
    PROVE  [rows |-> Append(st.rows, [old[k] EXCEPT !.sym = st.left[i]]),
            left |-> RemoveAt(st.left, i),
            removed |-> {}] \in Updating(old, list, k)
<1> DEFINE row == [sym |-> st.left[i], depth |-> old[k].depth]
           more == Append(st.rows, row)
           less == RemoveAt(st.left, i)
           t == [rows |-> more, left |-> less, removed |-> {}]
           n == Len(st.rows)
<1>1. /\ st.rows \in Seq(Row) /\ st.left \in Seq(Symbol) /\ st.removed \in SUBSET Nat
      /\ Len(st.rows) + Len(st.left) = Len(list)
      /\ Syms(st.rows) \cup Range(st.left) = Range(list)
  <2>1. st \in [rows : Seq(Row), left : Seq(Symbol), removed : SUBSET Nat]
    BY DEF Updating
  <2>2. st.rows \in Seq(Row) /\ st.left \in Seq(Symbol) /\ st.removed \in SUBSET Nat
    BY <2>1
  <2> QED BY <2>2 DEF Updating
<1>2. PICK m \in [1 .. n -> 1 .. k - 1] : Embeds(m, old, st.rows) /\ Gone(m, old, st, k - 1)
  BY UpdatingIs
<1>3. i \in 1 .. Len(st.left) /\ ScopedName(st.left[i]) = ScopedName(old[k].sym) /\ st.left[i] \in Symbol
  <2>1. i \in DOMAIN st.left /\ ScopedName(st.left[i]) = ScopedName(old[k].sym)
    BY DEF Matches
  <2>2. DOMAIN st.left = 1 .. Len(st.left)
    BY <1>1
  <2> QED BY <1>1, <2>1, <2>2
<1>4. old[k] \in Row /\ old[k].depth \in Nat
  BY RowType
<1>5. [old[k] EXCEPT !.sym = st.left[i]] = row
  BY <1>4 DEF Row
<1>6. row \in Row /\ row.sym = st.left[i] /\ row.depth = old[k].depth
  BY <1>3, <1>4 DEF Row
<1>7. /\ more \in Seq(Row) /\ less \in Seq(Symbol)
      /\ Len(more) + Len(less) = Len(list) /\ Syms(more) \cup Range(less) = Range(list)
  BY <1>1, <1>3, <1>4, Moved
<1> HIDE DEF row
<1>8. Len(more) = n + 1 /\ n \in Nat /\ more[n + 1] = row /\ \A x \in 1 .. n : more[x] = st.rows[x]
  BY <1>1, <1>6, AppendIs
<1> HIDE DEF more, less
<1>9. /\ t \in [rows : Seq(Row), left : Seq(Symbol), removed : SUBSET Nat]
      /\ t.rows = more /\ t.left = less /\ t.removed = {}
  BY <1>7
<1> HIDE DEF n, t
<1> DEFINE w == [x \in 1 .. n + 1 |-> IF x = n + 1 THEN k ELSE m[x]]
<1>10. w \in [1 .. n + 1 -> 1 .. k] /\ w[n + 1] = k /\ \A x \in 1 .. n : w[x] = m[x]
  <2>1. \A x \in 1 .. n + 1 : x = n + 1 \/ x \in 1 .. n
    BY <1>8
  <2>2. \A x \in 1 .. n : m[x] \in 1 .. k
    BY <1>2
  <2>3. w \in [1 .. n + 1 -> 1 .. k]
    BY <2>1, <2>2
  <2>4. n + 1 \in 1 .. n + 1 /\ \A x \in 1 .. n : x # n + 1 /\ x \in 1 .. n + 1
    BY <1>8
  <2> QED BY <2>3, <2>4
<1> HIDE DEF w
<1>11. \A p \in Above(old, k) : \E j \in 1 .. n + 1 : w[j] = p
  <2> TAKE p \in Above(old, k)
  <2>1. p \in 1 .. k /\ \A r \in p + 1 .. k : old[r].depth > old[p].depth
    BY DEF Above
  <2>2. CASE p = k
    <3>1. n + 1 \in 1 .. n + 1
      BY <1>8
    <3> QED BY <1>10, <2>2, <3>1
  <2>3. CASE p # k
    <3>1. p \in 1 .. k - 1 /\ k \in p + 1 .. k /\ p \in 1 .. Len(old) /\ \A r \in p + 1 .. k - 1 : r \in p + 1 .. k
      BY <2>1, <2>3
    <3>2. old[p].depth \in Nat /\ \A r \in 1 .. Len(old) : old[r].depth \in Nat
      BY <3>1, RowType
    <3>3. ~(\E r \in p + 1 .. k - 1 : old[r].depth <= old[p].depth)
      <4>1. \A r \in p + 1 .. k - 1 : r \in 1 .. Len(old)
        BY <3>1
      <4> QED BY <2>1, <3>1, <3>2, <4>1
    <3>4. ~(\E d \in st.removed : d <= old[p].depth)
      <4>1. old[k].depth > old[p].depth
        BY <2>1, <3>1
      <4>2. \A d \in st.removed : d \in Nat /\ ~(old[k].depth > d)
        BY <1>1
      <4> QED BY <1>4, <3>2, <4>1, <4>2
    <3>5. PICK j \in 1 .. n : m[j] = p
      BY <1>2, <3>1, <3>3, <3>4 DEF Gone, n
    <3>6. j \in 1 .. n + 1
      BY <1>8
    <3> QED BY <1>10, <3>5, <3>6
  <2> QED BY <2>2, <2>3
<1>12. Embeds(w, old, more)
  <2> SUFFICES ASSUME NEW x \in 1 .. n + 1
               PROVE  /\ more[x].depth = old[w[x]].depth
                      /\ ScopedName(more[x].sym) = ScopedName(old[w[x]].sym)
                      /\ \A j \in 1 .. x - 1 : w[j] < w[x]
                      /\ \A p \in Above(old, w[x]) : \E j \in 1 .. x : w[j] = p
    BY <1>8 DEF Embeds
  <2>1. CASE x = n + 1
    <3>1. more[x] = row /\ w[x] = k
      BY <1>8, <1>10, <2>1
    <3>2. \A j \in 1 .. x - 1 : w[j] < w[x]
      <4>1. \A j \in 1 .. x - 1 : j \in 1 .. n
        BY <1>8, <2>1
      <4>2. \A j \in 1 .. n : m[j] \in 1 .. k - 1
        BY <1>2
      <4> QED BY <1>10, <3>1, <4>1, <4>2
    <3> QED BY <1>3, <1>6, <1>11, <2>1, <3>1, <3>2
  <2>2. CASE x # n + 1
    <3>1. x \in 1 .. n
      BY <1>8, <2>2
    <3>2. more[x] = st.rows[x] /\ w[x] = m[x]
      BY <1>8, <1>10, <3>1
    <3>3. /\ st.rows[x].depth = old[m[x]].depth
          /\ ScopedName(st.rows[x].sym) = ScopedName(old[m[x]].sym)
          /\ \A j \in 1 .. x - 1 : m[j] < m[x]
          /\ \A p \in Above(old, m[x]) : \E j \in 1 .. x : m[j] = p
      BY <1>2, <3>1 DEF Embeds, n
    <3>4. \A j \in 1 .. x : w[j] = m[j]
      <4>1. \A j \in 1 .. x : j \in 1 .. n
        BY <1>8, <3>1
      <4> QED BY <1>10, <4>1
    <3>5. \A j \in 1 .. x - 1 : w[j] = m[j]
      <4>1. \A j \in 1 .. x - 1 : j \in 1 .. x
        BY <1>8, <3>1
      <4> QED BY <3>4, <4>1
    <3> QED BY <3>2, <3>3, <3>4, <3>5
  <2> QED BY <2>1, <2>2
<1>13. Gone(w, old, t, k)
  <2> SUFFICES ASSUME NEW p \in 1 .. k
               PROVE  \/ \E x \in 1 .. n + 1 : w[x] = p
                      \/ \E r \in p + 1 .. k : old[r].depth <= old[p].depth
    BY <1>8, <1>9 DEF Gone
  <2>1. CASE p = k
    <3>1. n + 1 \in 1 .. n + 1
      BY <1>8
    <3> QED BY <1>10, <2>1, <3>1
  <2>2. CASE p # k
    <3>1. p \in 1 .. k - 1 /\ k \in p + 1 .. k /\ p \in 1 .. Len(old) /\ \A r \in p + 1 .. k - 1 : r \in p + 1 .. k
      BY <2>2
    <3>2. \/ \E x \in 1 .. n : m[x] = p
          \/ \E r \in p + 1 .. k - 1 : old[r].depth <= old[p].depth
          \/ \E d \in st.removed : d <= old[p].depth
      BY <1>2, <3>1 DEF Gone, n
    <3>3. CASE \E x \in 1 .. n : m[x] = p
      <4>1. \A x \in 1 .. n : x \in 1 .. n + 1
        BY <1>8
      <4> QED BY <1>10, <3>3, <4>1
    <3>4. CASE \E r \in p + 1 .. k - 1 : old[r].depth <= old[p].depth
      BY <3>1, <3>4
    <3>5. CASE \E d \in st.removed : d <= old[p].depth
      <4>1. PICK d \in st.removed : d <= old[p].depth
        BY <3>5
      <4>2. d \in Nat /\ ~(old[k].depth > d)
        BY <1>1
      <4>3. old[p].depth \in Nat
        BY <3>1, RowType
      <4>4. old[k].depth <= old[p].depth
        BY <1>4, <4>1, <4>2, <4>3
      <4> QED BY <3>1, <4>4
    <3> QED BY <3>2, <3>3, <3>4, <3>5
  <2> QED BY <2>1, <2>2
<1>14. t \in Updating(old, list, k)
  <2>1. w \in [1 .. Len(t.rows) -> 1 .. k] /\ Embeds(w, old, t.rows)
    BY <1>8, <1>9, <1>10, <1>12
  <2> QED BY <1>7, <1>9, <1>13, <2>1 DEF Updating
<1> QED
  BY <1>5, <1>14 DEF t, more, less

\* The first pass, at one row.
LEMMA RowUpdated ==
    ASSUME NEW old \in Seq(Row), NEW list \in Seq(Symbol), NEW k \in 1 .. Len(old),
           NEW st \in Updating(old, list, k - 1)
    PROVE  UpdateRow(st, old[k]) \in Updating(old, list, k)
<1>1. st.removed \in SUBSET Nat /\ old[k].depth \in Nat /\ old[k].sym \in Symbol /\ st.left \in Seq(Symbol)
  <2>1. st \in [rows : Seq(Row), left : Seq(Symbol), removed : SUBSET Nat]
    BY DEF Updating
  <2>2. old[k].depth \in Nat /\ old[k].sym \in Symbol
    BY RowType
  <2> QED BY <2>1, <2>2
<1>2. CASE \E d \in st.removed : old[k].depth > d
  <2>1. UpdateRow(st, old[k]) = st
    BY <1>2 DEF UpdateRow
  <2>2. \E d \in st.removed : d <= old[k].depth
    BY <1>1, <1>2
  <2>3. [st EXCEPT !.removed = st.removed] \in Updating(old, list, k)
    BY <1>1, <2>2, RowRemoved
  <2>4. [st EXCEPT !.removed = st.removed] = st
    <3>1. st \in [rows : Seq(Row), left : Seq(Symbol), removed : SUBSET Nat]
      BY DEF Updating
    <3> QED BY <3>1
  <2> QED BY <2>1, <2>3, <2>4
<1>3. CASE ~(\E d \in st.removed : old[k].depth > d) /\ Matches(old[k].sym, st.left) = {}
  <2>1. UpdateRow(st, old[k]) = [st EXCEPT !.removed = {old[k].depth}]
    BY <1>3 DEF UpdateRow
  <2> DEFINE removed == {old[k].depth}
  <2>2. removed \in SUBSET Nat /\ \E d \in removed : d <= old[k].depth
    BY <1>1
  <2>3. removed = {old[k].depth}
    OBVIOUS
  <2> HIDE DEF removed
  <2>4. [st EXCEPT !.removed = removed] \in Updating(old, list, k)
    BY <1>3, <2>2, <2>3, RowRemoved
  <2> QED BY <2>1, <2>3, <2>4
<1>4. CASE ~(\E d \in st.removed : old[k].depth > d) /\ Matches(old[k].sym, st.left) # {}
  <2> DEFINE i == SymbolsTableLookup(old[k].sym, st.left)
  <2>1. UpdateRow(st, old[k]) = [rows |-> Append(st.rows, [old[k] EXCEPT !.sym = st.left[i]]),
                                 left |-> RemoveAt(st.left, i),
                                 removed |-> {}]
    BY <1>4 DEF UpdateRow
  <2>2. i \in Matches(old[k].sym, st.left)
    BY <1>1, <1>4, LookupFinds
  <2> HIDE DEF i
  <2> QED BY <1>4, <2>1, <2>2, RowKept
<1> QED
  BY <1>2, <1>3, <1>4

\* The first pass leaves a tree, and of the list the symbols that have no row.
LEMMA RowsUpdated ==
    ASSUME NEW old \in Seq(Row), NEW list \in Seq(Symbol), Tree(old)
    PROVE  LET st == UpdateRows(old, list)
           IN  /\ st.rows \in Seq(Row) /\ st.left \in Seq(Symbol) /\ Tree(st.rows)
               /\ Len(st.rows) + Len(st.left) = Len(list)
               /\ Syms(st.rows) \cup Range(st.left) = Range(list)
<1> DEFINE n == Len(old)
           L == [k \in 0 .. n |-> Updating(old, list, k)]
           start == [rows |-> <<>>, left |-> list, removed |-> {}]
           X == UNION {L[k] : k \in 0 .. n}
           F == [z \in X \X (1 .. n) |-> UpdateRow(z[1], old[z[2]])]
           Is(f) == f = [k \in 0 .. n |-> IF k = 0 THEN start ELSE UpdateRow(f[k - 1], old[k])]
           f0 == CHOOSE f : Is(f)
<1>1. n \in Nat
  OBVIOUS
<1>2. UpdateRows(old, list) = f0[n]
  BY DEF UpdateRows
<1>3. \A k \in 0 .. n : L[k] = Updating(old, list, k)
  OBVIOUS
<1>4. \A k \in 1 .. n : k \in 0 .. n /\ k - 1 \in 0 .. n
  BY <1>1
<1>5. start \in L[0]
  <2> DEFINE none == <<>>
  <2>1. none \in Seq(Row) /\ Len(none) = 0 /\ DOMAIN none = {} /\ Len(list) \in Nat
    OBVIOUS
  <2>2. Syms(none) = {}
    BY <2>1 DEF Syms
  <2>3. /\ start \in [rows : Seq(Row), left : Seq(Symbol), removed : SUBSET Nat]
        /\ start.rows = none /\ start.left = list /\ start.removed = {}
    OBVIOUS
  <2> HIDE DEF start, none
  <2>4. Len(none) + Len(list) = Len(list)
    BY <2>1
  <2> DEFINE m == [x \in {} |-> 0]
  <2>5. 1 .. Len(none) = {} /\ 1 .. 0 = {}
    BY <2>1
  <2>6. m \in [1 .. Len(none) -> 1 .. 0]
    BY <2>5
  <2>7. Embeds(m, old, none) /\ Gone(m, old, start, 0)
    BY <2>5 DEF Embeds, Gone
  <2> HIDE DEF m
  <2>8. start \in Updating(old, list, 0)
    BY <2>2, <2>3, <2>4, <2>6, <2>7 DEF Updating
  <2> QED BY <1>1, <1>3, <2>8
<1> HIDE DEF start
<1>6. \A k \in 1 .. n : \A x \in L[k - 1] : UpdateRow(x, old[k]) \in L[k]
  <2>1. ASSUME NEW k \in 1 .. n, NEW x \in L[k - 1] PROVE UpdateRow(x, old[k]) \in L[k]
    <3>1. x \in Updating(old, list, k - 1)
      BY <1>3, <1>4
    <3>2. UpdateRow(x, old[k]) \in Updating(old, list, k)
      BY <3>1, RowUpdated
    <3> QED BY <1>3, <1>4, <3>2
  <2> QED BY <2>1
<1> HIDE DEF L, n
<1>7. \A k \in 1 .. n : \A x \in L[k - 1] : F[<<x, k>>] = UpdateRow(x, old[k])
  <2>1. ASSUME NEW k \in 1 .. n, NEW x \in L[k - 1] PROVE F[<<x, k>>] = UpdateRow(x, old[k])
    <3>1. x \in X
      BY <1>4
    <3> HIDE DEF X
    <3> QED BY <3>1
  <2> QED BY <2>1
<1> HIDE DEF F, X
<1>8. PICK h : Recurs(h, F, start, L, n)
  <2>1. Leads(F, L, n)
    BY <1>6, <1>7 DEF Leads
  <2> QED BY <1>1, <1>5, <2>1, Levels
<1>9. Is(h)
  <2>1. \A k \in 0 .. n : k # 0 => k \in 1 .. n
    BY <1>1
  <2>2. ASSUME NEW k \in 0 .. n, k # 0 PROVE F[<<h[k - 1], k>>] = UpdateRow(h[k - 1], old[k])
    BY <1>4, <1>7, <1>8, <2>1, <2>2 DEF Recurs
  <2>3. [k \in 0 .. n |-> IF k = 0 THEN start ELSE F[<<h[k - 1], k>>]]
            = [k \in 0 .. n |-> IF k = 0 THEN start ELSE UpdateRow(h[k - 1], old[k])]
    BY <2>2
  <2> QED BY <1>8, <2>3 DEF Recurs
<1>10. Is(f0)
  <2> HIDE DEF Is
  <2> QED BY <1>9
<1> HIDE DEF f0
<1>11. \A k \in 0 .. n : f0[k] = IF k = 0 THEN start ELSE UpdateRow(f0[k - 1], old[k])
  BY <1>10, Zenon
<1>12. f0[n] \in L[n]
  <2> DEFINE T == {k \in 0 .. n : f0[k] \in L[k]}
  <2>1. 0 \in T
    <3>1. 0 \in 0 .. n
      BY <1>1
    <3> QED BY <1>5, <1>11, <3>1
  <2>2. ASSUME NEW k \in 1 .. n, k - 1 \in T PROVE k \in T
    <3>1. k \in 0 .. n /\ k # 0
      BY <1>1
    <3>2. f0[k] = UpdateRow(f0[k - 1], old[k])
      BY <1>11, <3>1
    <3> QED BY <1>6, <2>2, <3>1, <3>2
  <2> HIDE DEF T
  <2>3. n \in T
    <3>1. n \in 0 .. n
      BY <1>1
    <3> QED BY <1>1, <2>1, <2>2, <3>1, Induction
  <2> QED BY <2>3 DEF T
<1> DEFINE st == f0[n]
<1>13. st \in Updating(old, list, Len(old))
  <2>1. n \in 0 .. n
    BY <1>1
  <2> QED BY <1>3, <1>12, <2>1 DEF n
<1> HIDE DEF st
<1>14. /\ st.rows \in Seq(Row) /\ st.left \in Seq(Symbol)
       /\ Len(st.rows) + Len(st.left) = Len(list)
       /\ Syms(st.rows) \cup Range(st.left) = Range(list)
  BY <1>13, UpdatingIs
<1>15. Tree(st.rows)
  <2>1. PICK m \in [1 .. Len(st.rows) -> 1 .. Len(old)] : Embeds(m, old, st.rows)
    BY <1>13 DEF Updating
  <2> QED BY <1>14, <2>1, EmbedTree
<1> QED
  BY <1>2, <1>14, <1>15 DEF st

\* An element is put in: those from its place on move down.
LEMMA InsertAtProperties ==
    ASSUME NEW S, NEW s \in Seq(S), NEW k \in 1 .. Len(s) + 1, NEW e \in S
    PROVE  /\ InsertAt(s, k, e) \in Seq(S) /\ Len(InsertAt(s, k, e)) = Len(s) + 1
           /\ InsertAt(s, k, e)[k] = e
           /\ \A i \in 1 .. k - 1 : InsertAt(s, k, e)[i] = s[i]
           /\ \A i \in k .. Len(s) : InsertAt(s, k, e)[i + 1] = s[i]
<1> DEFINE n == Len(s)
           a == SubSeq(s, 1, k - 1)
           b == SubSeq(s, k, n)
           t == a \o <<e>>
           u == t \o b
<1>1. n \in Nat /\ k \in 1 .. n + 1
  OBVIOUS
<1>2. a \in Seq(S) /\ Len(a) = k - 1 /\ \A i \in 1 .. k - 1 : a[i] = s[i]
  OBVIOUS
<1>3. b \in Seq(S) /\ Len(b) = n - k + 1 /\ \A i \in 1 .. n - k + 1 : b[i] = s[k + i - 1]
  OBVIOUS
<1> HIDE DEF a, b, n
<1>4. t \in Seq(S) /\ Len(t) = k /\ t[k] = e /\ \A i \in 1 .. k - 1 : t[i] = a[i]
  <2>1. t = Append(a, e)
    BY <1>2
  <2>2. /\ Append(a, e) \in Seq(S) /\ Len(Append(a, e)) = Len(a) + 1
        /\ Append(a, e)[Len(a) + 1] = e /\ \A i \in 1 .. Len(a) : Append(a, e)[i] = a[i]
    BY <1>2, AppendIs
  <2>3. (k - 1) + 1 = k
    BY <1>1
  <2> HIDE DEF t
  <2> QED BY <1>2, <2>1, <2>2, <2>3
<1> HIDE DEF t
<1>5. /\ u \in Seq(S) /\ Len(u) = Len(t) + Len(b)
      /\ \A i \in 1 .. Len(t) + Len(b) : u[i] = IF i <= Len(t) THEN t[i] ELSE b[i - Len(t)]
  BY <1>3, <1>4, ConcatProperties
<1> HIDE DEF u
<1>6. Len(t) + Len(b) = n + 1
  BY <1>1, <1>3, <1>4
<1>7. u[k] = e
  BY <1>1, <1>4, <1>5, <1>6
<1>8. ASSUME NEW i \in 1 .. k - 1 PROVE u[i] = s[i]
  BY <1>1, <1>2, <1>4, <1>5, <1>6
<1>9. ASSUME NEW i \in k .. n PROVE u[i + 1] = s[i]
  <2>1. i + 1 \in 1 .. n + 1 /\ ~(i + 1 <= k) /\ i + 1 - k \in 1 .. n - k + 1 /\ k + (i + 1 - k) - 1 = i
    BY <1>1
  <2>2. u[i + 1] = b[i + 1 - k]
    BY <1>4, <1>5, <1>6, <2>1
  <2> QED BY <1>3, <2>1, <2>2
<1>10. InsertAt(s, k, e) = u
  BY DEF InsertAt, u, t, a, b, n
<1> QED
  BY <1>5, <1>6, <1>7, <1>8, <1>9, <1>10 DEF n

\* A row that is put in first below another, or first of all.
LEMMA RowInserted ==
    ASSUME NEW rows \in Seq(Row), Tree(rows), NEW sym \in Symbol, NEW place \in 0 .. Len(rows),
           NEW depth, depth = IF place = 0 THEN 1 ELSE rows[place].depth + 1,
           place # 0 => ScopedName(rows[place].sym) = sym.scope
    PROVE  LET more == InsertAt(rows, place + 1, [sym |-> sym, depth |-> depth])
           IN  /\ more \in Seq(Row) /\ Tree(more) /\ Len(more) = Len(rows) + 1
               /\ Syms(more) = Syms(rows) \cup {sym}
<1> DEFINE n == Len(rows)
           row == [sym |-> sym, depth |-> depth]
           more == InsertAt(rows, place + 1, row)
<1>1. n \in Nat /\ place \in 0 .. n /\ place + 1 \in 1 .. n + 1
  OBVIOUS
<1>2. \A i \in 1 .. n : rows[i].depth \in Nat /\ rows[i].depth >= 1
  <2>1. \A i \in 1 .. n : rows[i].depth \in Nat
    BY RowType
  <2>2. \A i \in 1 .. n : rows[i].depth = 1 \/ rows[i].depth > 1
    BY DEF Tree
  <2> QED BY <2>1, <2>2
<1>3. depth \in Nat /\ depth >= 1 /\ (place = 0 <=> depth = 1)
  <2>1. CASE place = 0
    BY <2>1
  <2>2. CASE place # 0
    <3>1. place \in 1 .. n
      BY <1>1, <2>2
    <3> QED BY <1>2, <2>2, <3>1
  <2> QED BY <2>1, <2>2
<1>4. row \in Row /\ row.sym = sym /\ row.depth = depth
  BY <1>3 DEF Row
<1> HIDE DEF row
<1>5. /\ more \in Seq(Row) /\ Len(more) = n + 1 /\ more[place + 1] = row
      /\ \A i \in 1 .. place : more[i] = rows[i]
      /\ \A i \in place + 1 .. n : more[i + 1] = rows[i]
  <2>1. place + 1 \in 1 .. Len(rows) + 1 /\ (place + 1) - 1 = place
    BY <1>1
  <2> DEFINE k == place + 1
  <2>2. k \in 1 .. Len(rows) + 1 /\ k - 1 = place
    BY <2>1
  <2> HIDE DEF k
  <2>3. /\ InsertAt(rows, k, row) \in Seq(Row) /\ Len(InsertAt(rows, k, row)) = Len(rows) + 1
        /\ InsertAt(rows, k, row)[k] = row
        /\ \A i \in 1 .. k - 1 : InsertAt(rows, k, row)[i] = rows[i]
        /\ \A i \in k .. Len(rows) : InsertAt(rows, k, row)[i + 1] = rows[i]
    BY <1>4, <2>2, InsertAtProperties
  <2> QED BY <2>2, <2>3 DEF k
<1> HIDE DEF more
<1> DEFINE to(i) == IF i <= place THEN i ELSE i + 1
<1>6. \A i \in 1 .. n : to(i) \in 1 .. n + 1 /\ more[to(i)] = rows[i]
  <2> SUFFICES ASSUME NEW i \in 1 .. n PROVE to(i) \in 1 .. n + 1 /\ more[to(i)] = rows[i]
    OBVIOUS
  <2>1. CASE i <= place
    BY <1>1, <1>5, <2>1
  <2>2. CASE ~(i <= place)
    <3>1. i \in place + 1 .. n
      BY <1>1, <2>2
    <3> QED BY <1>5, <2>2, <3>1
  <2> QED BY <2>1, <2>2
<1>7. \A i \in 1 .. n + 1 : i = place + 1 \/ \E j \in 1 .. n : i = to(j)
  <2> SUFFICES ASSUME NEW i \in 1 .. n + 1, i # place + 1 PROVE \E j \in 1 .. n : i = to(j)
    OBVIOUS
  <2>1. CASE i <= place
    BY <1>1, <2>1
  <2>2. CASE ~(i <= place)
    <3>1. i - 1 \in 1 .. n /\ ~(i - 1 <= place) /\ (i - 1) + 1 = i
      BY <1>1, <2>2
    <3> QED BY <3>1
  <2> QED BY <2>1, <2>2
<1>8. ASSUME NEW i \in 1 .. n, NEW p \in Above(rows, i) PROVE to(p) \in Above(more, to(i))
  <2>1. p \in 1 .. i /\ \A r \in p + 1 .. i : rows[r].depth > rows[p].depth
    BY DEF Above
  <2>2. p \in 1 .. n /\ to(p) \in 1 .. to(i) /\ more[to(p)] = rows[p]
    <3>1. p \in 1 .. n
      BY <2>1
    <3>2. to(p) \in 1 .. to(i)
      BY <1>1, <2>1
    <3> QED BY <1>6, <3>1, <3>2
  <2>3. ASSUME NEW r \in to(p) + 1 .. to(i) PROVE more[r].depth > more[to(p)].depth
    <3>1. r \in 1 .. n + 1
      <4>1. to(i) \in 1 .. n + 1 /\ to(p) \in 1 .. n + 1
        BY <1>6, <2>2
      <4> HIDE DEF to
      <4> QED BY <1>1, <4>1
    <3>2. CASE r = place + 1
      <4>1. p <= place /\ place <= i /\ place \in 1 .. n
        BY <1>1, <2>1, <2>2, <3>2
      <4>2. more[r].depth = rows[place].depth + 1
        BY <1>4, <1>5, <3>2, <4>1
      <4>3. place = p \/ place \in p + 1 .. i
        BY <1>1, <2>1, <4>1
      <4>4. rows[place].depth >= rows[p].depth /\ rows[place].depth \in Nat /\ rows[p].depth \in Nat
        BY <1>2, <2>1, <2>2, <4>1, <4>3
      <4> HIDE DEF to
      <4> QED BY <2>2, <4>2, <4>4, SMTT(30)
    <3>3. CASE r # place + 1
      <4>1. PICK j \in 1 .. n : r = to(j)
        BY <1>7, <3>1, <3>3
      <4>2. j \in p + 1 .. i
        BY <1>1, <2>1, <2>2, <4>1
      <4>3. more[r] = rows[j]
        BY <1>6, <4>1
      <4> HIDE DEF to
      <4> QED BY <2>1, <2>2, <4>2, <4>3
    <3> QED BY <3>2, <3>3
  <2> HIDE DEF to
  <2> QED BY <2>2, <2>3 DEF Above
<1>9. Tree(more)
  <2> SUFFICES ASSUME NEW x \in 1 .. n + 1, more[x].depth # 1
               PROVE  more[x].depth > 1 /\ HasParent(more, x)
    BY <1>5 DEF Tree
  <2>1. CASE x = place + 1
    <3>1. place # 0 /\ place \in 1 .. n
      BY <1>1, <1>3, <1>4, <1>5, <2>1
    <3>2. more[x].depth = rows[place].depth + 1 /\ more[x].sym = sym /\ more[place] = rows[place]
      <4>1. place \in 1 .. place
        BY <3>1
      <4> QED BY <1>4, <1>5, <2>1, <3>1, <4>1
    <3>3. rows[place].depth \in Nat /\ rows[place].depth >= 1
      BY <1>2, <3>1
    <3>4. place \in Above(more, x)
      <4>1. \A r \in place + 1 .. x : r = x
        BY <1>1, <2>1
      <4>2. place \in 1 .. x /\ more[x].depth > more[place].depth
        BY <2>1, <3>1, <3>2, <3>3
      <4> QED BY <4>1, <4>2 DEF Above
    <3>5. more[place].depth = more[x].depth - 1 /\ ScopedName(more[place].sym) = more[x].sym.scope
      BY <3>1, <3>2, <3>3
    <3>6. HasParent(more, x)
      BY <3>4, <3>5 DEF HasParent
    <3> QED BY <3>2, <3>3, <3>6
  <2>2. CASE x # place + 1
    <3>1. PICK i \in 1 .. n : x = to(i)
      BY <1>7, <2>2
    <3>2. more[x] = rows[i]
      BY <1>6, <3>1
    <3>3. rows[i].depth > 1 /\ HasParent(rows, i)
      BY <3>2 DEF Tree
    <3>4. PICK p \in Above(rows, i) :
              rows[p].depth = rows[i].depth - 1 /\ ScopedName(rows[p].sym) = rows[i].sym.scope
      BY <3>3 DEF HasParent
    <3>5. to(p) \in Above(more, x)
      BY <1>8, <3>1
    <3>6. more[to(p)] = rows[p]
      <4>1. p \in 1 .. n
        BY AboveIs
      <4> QED BY <1>6, <4>1
    <3> HIDE DEF to
    <3> QED BY <3>2, <3>3, <3>4, <3>5, <3>6 DEF HasParent
  <2> QED BY <2>1, <2>2
<1>10. Syms(more) = Syms(rows) \cup {sym}
  <2>1. DOMAIN more = 1 .. n + 1 /\ DOMAIN rows = 1 .. n
    BY <1>5
  <2>2. \A i \in 1 .. n : rows[i].sym \in Syms(more)
    <3> HIDE DEF to
    <3> QED BY <1>6, <2>1 DEF Syms
  <2>3. sym \in Syms(more)
    <3>1. place + 1 \in 1 .. n + 1
      BY <1>1
    <3> QED BY <1>4, <1>5, <2>1, <3>1 DEF Syms
  <2>4. \A x \in 1 .. n + 1 : more[x].sym = sym \/ more[x].sym \in Syms(rows)
    <3> SUFFICES ASSUME NEW x \in 1 .. n + 1 PROVE more[x].sym = sym \/ more[x].sym \in Syms(rows)
      OBVIOUS
    <3>1. CASE x = place + 1
      BY <1>4, <1>5, <3>1
    <3>2. CASE x # place + 1
      <4>1. PICK i \in 1 .. n : x = to(i)
        BY <1>7, <3>2
      <4>2. more[x] = rows[i]
        BY <1>6, <4>1
      <4> HIDE DEF to
      <4> QED BY <2>1, <4>2 DEF Syms
    <3> QED BY <3>1, <3>2
  <2>5. Syms(more) \subseteq Syms(rows) \cup {sym}
    BY <2>1, <2>4 DEF Syms
  <2>6. Syms(rows) \subseteq Syms(more)
    BY <2>1, <2>2 DEF Syms
  <2> QED BY <2>3, <2>5, <2>6
<1> QED
  BY <1>5, <1>9, <1>10 DEF more, row, n

\* What a finite set of numbers up to n has as its greatest.
LEMMA MaxIs ==
    ASSUME NEW n \in Nat, NEW T \in SUBSET (0 .. n), T # {}
    PROVE  Max(T) \in T /\ \A y \in T : y <= Max(T)
<1> DEFINE U == {n - x : x \in T}
<1>1. U \in SUBSET Nat /\ U # {}
  <2>1. \A x \in T : n - x \in Nat
    OBVIOUS
  <2> QED BY <2>1
<1>2. PICK u \in U : \A v \in U : u <= v
  <2> HIDE DEF U
  <2> QED BY <1>1, LeastNat
<1>3. PICK x \in T : u = n - x
  BY <1>2
<1>4. \A y \in T : n - x <= n - y
  BY <1>2, <1>3
<1>5. \A y \in T : x >= y
  BY <1>4
<1>6. Max(T) \in T /\ \A y \in T : Max(T) >= y
  BY <1>5 DEF Max
<1> QED
  BY <1>6

\* The root of the tree of lines is one of them.
LEMMA RootFound ==
    ASSUME NEW parents \in Seq(Symbol), NEW named \in SUBSET (1 .. Len(parents)), named # {}
    PROVE  TreeRoot(parents, named) \in {parents[i].line : i \in named}
<1> DEFINE lines == {parents[i].line : i \in named}
<1>1. lines \in SUBSET Nat /\ lines # {}
  <2>1. \A i \in named : parents[i] \in Symbol
    OBVIOUS
  <2>2. \A i \in named : parents[i].line \in Nat
    BY <2>1 DEF Symbol
  <2> QED BY <2>2
<1>2. CASE Cardinality(lines) < 3
  <2>1. named \in SUBSET Nat
    OBVIOUS
  <2>2. PICK x \in named : \A y \in named : x <= y
    BY <2>1, LeastNat
  <2>3. Min(named) \in named
    BY <2>2 DEF Min
  <2>4. TreeRoot(parents, named) = parents[Min(named)].line
    BY <1>2 DEF TreeRoot
  <2> QED BY <2>3, <2>4
<1>3. CASE ~(Cardinality(lines) < 3)
  <2>1. IsFiniteSet(lines)
    <3>1. IsFiniteSet(1 .. Len(parents))
      BY FS_Interval
    <3>2. IsFiniteSet(named)
      BY <3>1, FS_Subset
    <3> DEFINE f == [i \in named |-> parents[i].line]
    <3>3. lines = {f[i] : i \in named} /\ f \in [named -> lines] /\ \A l \in lines : \E i \in named : f[i] = l
      OBVIOUS
    <3> HIDE DEF f
    <3>4. lines = Range(f)
      BY <3>3 DEF Range
    <3>5. f \in Surjection(named, lines)
      <4> HIDE DEF lines
      <4> QED BY <3>3 DEF Surjection
    <3> HIDE DEF lines
    <3> QED BY <3>2, <3>5, FS_Surjection
  <2> HIDE DEF lines
  <2>2. PICK a \in lines : \A y \in lines : a <= y
    BY <1>1, LeastNat
  <2>3. lines \ {a} # {}
    <3>1. SUFFICES ASSUME lines \ {a} = {} PROVE FALSE
      OBVIOUS
    <3>2. lines = {a}
      BY <3>1
    <3>3. Cardinality({a}) = 1
      BY FS_Singleton
    <3>4. Cardinality(lines) = 1
      BY <3>2, <3>3
    <3> QED BY <1>3, <3>4
  <2>4. lines \ {a} \in SUBSET Nat
    BY <1>1
  <2>5. PICK b \in lines \ {a} : \A y \in lines \ {a} : b <= y
    BY <2>3, <2>4, LeastNat
  <2>6. {k \in lines : k < b} = {a}
    <3>1. a < b
      <4>1. a \in Nat /\ b \in Nat /\ a <= b /\ a # b
        BY <1>1, <2>2, <2>5
      <4> QED BY <4>1
    <3>2. ASSUME NEW k \in lines, k < b PROVE k = a
      <4>1. k \in Nat /\ b \in Nat
        BY <1>1
      <4> QED BY <2>5, <3>2, <4>1
    <3> QED BY <3>1, <3>2
  <2>7. Cardinality({k \in lines : k < b}) = 1
    <3>1. Cardinality({a}) = 1
      BY FS_Singleton
    <3> QED BY <2>6, <3>1
  <2>8. TreeRoot(parents, named) = CHOOSE l \in lines : Cardinality({k \in lines : k < l}) = 1
    BY <1>3 DEF TreeRoot, lines
  <2> QED BY <2>7, <2>8 DEF lines
<1> QED
  BY <1>2, <1>3

\* A parent that is looked up has the name that is asked for.
LEMMA ParentFound ==
    ASSUME NEW parents \in Seq(Symbol), NEW sym \in Symbol, NEW p \in ParentsTableLookup(parents, sym)
    PROVE  ScopedName(p) = sym.scope
<1> DEFINE named == {i \in DOMAIN parents : ScopedName(parents[i]) = sym.scope}
           lines == {parents[i].line : i \in named}
           found == FoundLine(parents, named, sym.line)
           these == {i \in named : parents[i].line = found}
<1>1. named \in SUBSET (1 .. Len(parents)) /\ Len(parents) \in Nat
  OBVIOUS
<1>2. named # {} /\ p = parents[Max(these)]
  BY DEF ParentsTableLookup
<1>3. \A i \in named : ScopedName(parents[i]) = sym.scope
  OBVIOUS
<1>4. sym.line \in Nat /\ \A l \in lines : l \in Nat
  <2>1. \A i \in named : parents[i] \in Symbol
    BY <1>1
  <2> HIDE DEF named
  <2> QED BY <2>1 DEF Symbol
<1> HIDE DEF named
<1>5. found \in lines
  <2> DEFINE lower == {l \in lines : l <= sym.line}
  <2>1. found = IF lower # {} /\ sym.line - Max(lower) < Distance(TreeRoot(parents, named), sym.line)
                THEN Max(lower) ELSE TreeRoot(parents, named)
    BY DEF FoundLine
  <2>2. TreeRoot(parents, named) \in lines
    BY <1>1, <1>2, RootFound
  <2>3. lower # {} => Max(lower) \in lines
    <3>1. lower \in SUBSET (0 .. sym.line)
      BY <1>4
    <3>2. lower \subseteq lines
      OBVIOUS
    <3> HIDE DEF lower
    <3> QED BY <1>4, <3>1, <3>2, MaxIs
  <2> HIDE DEF lower, lines, found
  <2> QED BY <2>1, <2>2, <2>3
<1> HIDE DEF found
<1>6. Max(these) \in named
  <2>1. these # {} /\ these \in SUBSET (0 .. Len(parents)) /\ these \subseteq named
    <3>1. these # {} /\ these \subseteq named
      BY <1>5
    <3>2. \A i \in 1 .. Len(parents) : i \in 0 .. Len(parents)
      BY <1>1
    <3> HIDE DEF these
    <3> QED BY <1>1, <3>1, <3>2
  <2> HIDE DEF these
  <2> QED BY <1>1, <2>1, MaxIs
<1> QED
  BY <1>2, <1>3, <1>6

\* What the second pass has made of k symbols.
Inserting(rows, left, k) ==
    {st \in [rows : Seq(Row), parents : Seq(Symbol)] :
        /\ Tree(st.rows)
        /\ Len(st.rows) = Len(rows) + k
        /\ Syms(st.rows) = Syms(rows) \cup {left[i] : i \in 1 .. k}}

\* The second pass, for one symbol.
LEMMA SymbolInserted ==
    ASSUME NEW rows \in Seq(Row), NEW left \in Seq(Symbol), NEW k \in 1 .. Len(left),
           NEW st \in Inserting(rows, left, k - 1)
    PROVE  InsertRow(st, left[k]) \in Inserting(rows, left, k)
<1> DEFINE sym == left[k]
           at == {i \in DOMAIN st.rows : st.rows[i].sym \in ParentsTableLookup(st.parents, sym)}
           place == IF at = {} THEN 0 ELSE Min(at)
           depth == IF at = {} THEN 1 ELSE st.rows[place].depth + 1
           row == [sym |-> sym, depth |-> depth]
           more == InsertAt(st.rows, place + 1, row)
           parents == Append(st.parents, sym)
           t == [rows |-> more, parents |-> parents]
<1>1. /\ st.rows \in Seq(Row) /\ st.parents \in Seq(Symbol) /\ Tree(st.rows)
      /\ Len(st.rows) = Len(rows) + (k - 1)
      /\ Syms(st.rows) = Syms(rows) \cup {left[i] : i \in 1 .. k - 1}
  <2>1. st \in [rows : Seq(Row), parents : Seq(Symbol)]
    BY DEF Inserting
  <2>2. st.rows \in Seq(Row) /\ st.parents \in Seq(Symbol)
    BY <2>1
  <2> QED BY <2>2 DEF Inserting
<1>2. sym \in Symbol /\ k \in Nat /\ Len(rows) \in Nat
  OBVIOUS
<1>3. InsertRow(st, sym) = t
  BY DEF InsertRow
<1> HIDE DEF sym
<1>4. /\ place \in 0 .. Len(st.rows) /\ depth = (IF place = 0 THEN 1 ELSE st.rows[place].depth + 1)
      /\ place # 0 => ScopedName(st.rows[place].sym) = sym.scope
  <2>1. CASE at = {}
    <3>1. place = 0 /\ depth = 1 /\ Len(st.rows) \in Nat
      BY <1>1, <2>1
    <3> HIDE DEF at, place, depth
    <3> QED BY <3>1
  <2>2. CASE at # {}
    <3>1. at \in SUBSET Nat /\ at \subseteq 1 .. Len(st.rows)
      <4>1. DOMAIN st.rows = 1 .. Len(st.rows) /\ Len(st.rows) \in Nat
        BY <1>1
      <4> QED BY <4>1
    <3>2. PICK x \in at : \A y \in at : x <= y
      <4> HIDE DEF at
      <4> QED BY <2>2, <3>1, LeastNat
    <3>3. Min(at) \in at
      <4> HIDE DEF at
      <4> QED BY <3>2 DEF Min
    <3>4. place = Min(at) /\ depth = st.rows[place].depth + 1
      BY <2>2
    <3>5. st.rows[place].sym \in ParentsTableLookup(st.parents, sym)
      BY <3>3, <3>4
    <3>6. ScopedName(st.rows[place].sym) = sym.scope
      BY <1>1, <1>2, <3>5, ParentFound
    <3> HIDE DEF at, place, depth
    <3>7. place \in 1 .. Len(st.rows) /\ Len(st.rows) \in Nat
      <4>1. place \in 1 .. Len(st.rows)
        BY <3>1, <3>3, <3>4, Zenon
      <4>2. Len(st.rows) \in Nat
        BY <1>1
      <4> QED BY <4>1, <4>2
    <3>8. place \in 0 .. Len(st.rows) /\ place # 0
      BY <3>7
    <3> QED BY <3>4, <3>6, <3>8
  <2> QED BY <2>1, <2>2
<1> HIDE DEF place, depth
<1>5. /\ more \in Seq(Row) /\ Tree(more) /\ Len(more) = Len(st.rows) + 1
      /\ Syms(more) = Syms(st.rows) \cup {sym}
  <2> DEFINE old == st.rows
  <2>1. /\ old \in Seq(Row) /\ Tree(old) /\ place \in 0 .. Len(old)
        /\ depth = (IF place = 0 THEN 1 ELSE old[place].depth + 1)
        /\ place # 0 => ScopedName(old[place].sym) = sym.scope
    BY <1>1, <1>4
  <2> HIDE DEF old
  <2>2. LET m == InsertAt(old, place + 1, [sym |-> sym, depth |-> depth])
        IN m \in Seq(Row) /\ Tree(m) /\ Len(m) = Len(old) + 1 /\ Syms(m) = Syms(old) \cup {sym}
    BY <1>2, <2>1, RowInserted, SMTT(30)
  <2> QED BY <2>2 DEF old
<1>6. parents \in Seq(Symbol)
  BY <1>1, <1>2
<1> HIDE DEF more, parents
<1>7. Syms(more) = Syms(rows) \cup {left[i] : i \in 1 .. k}
  <2>1. 1 .. k = (1 .. k - 1) \cup {k}
    BY <1>2
  <2>2. {left[i] : i \in 1 .. k} = {left[i] : i \in 1 .. k - 1} \cup {sym}
    BY <2>1 DEF sym
  <2> QED BY <1>1, <1>5, <2>2
<1>8. Len(more) = Len(rows) + k
  BY <1>1, <1>2, <1>5
<1>9. t \in [rows : Seq(Row), parents : Seq(Symbol)] /\ t.rows = more
  BY <1>5, <1>6
<1> HIDE DEF t
<1> QED
  BY <1>3, <1>5, <1>7, <1>8, <1>9 DEF Inserting, sym

\* The second pass adds a row for each symbol, and leaves a tree.
LEMMA RowsInserted ==
    ASSUME NEW rows \in Seq(Row), NEW left \in Seq(Symbol), Tree(rows)
    PROVE  /\ InsertRows(rows, left) \in Seq(Row) /\ Tree(InsertRows(rows, left))
           /\ Len(InsertRows(rows, left)) = Len(rows) + Len(left)
           /\ Syms(InsertRows(rows, left)) = Syms(rows) \cup Range(left)
<1> DEFINE n == Len(left)
           L == [k \in 0 .. n |-> Inserting(rows, left, k)]
           start == [rows |-> rows, parents |-> [i \in DOMAIN rows |-> rows[i].sym]]
           X == UNION {L[k] : k \in 0 .. n}
           F == [z \in X \X (1 .. n) |-> InsertRow(z[1], left[z[2]])]
           Is(f) == f = [k \in 0 .. n |-> IF k = 0 THEN start ELSE InsertRow(f[k - 1], left[k])]
           f0 == CHOOSE f : Is(f)
<1>1. n \in Nat
  OBVIOUS
<1>2. InsertRows(rows, left) = f0[n].rows
  BY DEF InsertRows
<1>3. \A k \in 0 .. n : L[k] = Inserting(rows, left, k)
  OBVIOUS
<1>4. \A k \in 1 .. n : k \in 0 .. n /\ k - 1 \in 0 .. n
  BY <1>1
<1>5. start \in L[0]
  <2> DEFINE parents == [i \in DOMAIN rows |-> rows[i].sym]
  <2>1. parents \in Seq(Symbol)
    <3>1. DOMAIN rows = 1 .. Len(rows) /\ Len(rows) \in Nat /\ \A i \in 1 .. Len(rows) : rows[i].sym \in Symbol
      BY RowType
    <3>2. parents \in [1 .. Len(rows) -> Symbol]
      BY <3>1
    <3> HIDE DEF parents
    <3> QED BY <3>1, <3>2
  <2> HIDE DEF parents
  <2>2. /\ start \in [rows : Seq(Row), parents : Seq(Symbol)]
        /\ start.rows = rows
    <3>1. start = [rows |-> rows, parents |-> parents]
      BY DEF parents
    <3> HIDE DEF start
    <3> QED BY <2>1, <3>1
  <2> HIDE DEF start
  <2>3. Len(rows) = Len(rows) + 0 /\ {left[i] : i \in 1 .. 0} = {}
    OBVIOUS
  <2>4. start \in Inserting(rows, left, 0)
    BY <2>2, <2>3 DEF Inserting
  <2> QED BY <1>1, <1>3, <2>4
<1> HIDE DEF start
<1>6. \A k \in 1 .. n : \A x \in L[k - 1] : InsertRow(x, left[k]) \in L[k]
  <2>1. ASSUME NEW k \in 1 .. n, NEW x \in L[k - 1] PROVE InsertRow(x, left[k]) \in L[k]
    <3>1. x \in Inserting(rows, left, k - 1)
      BY <1>3, <1>4
    <3>2. InsertRow(x, left[k]) \in Inserting(rows, left, k)
      BY <3>1, SymbolInserted
    <3> QED BY <1>3, <1>4, <3>2
  <2> QED BY <2>1
<1> HIDE DEF L, n
<1>7. \A k \in 1 .. n : \A x \in L[k - 1] : F[<<x, k>>] = InsertRow(x, left[k])
  <2>1. ASSUME NEW k \in 1 .. n, NEW x \in L[k - 1] PROVE F[<<x, k>>] = InsertRow(x, left[k])
    <3>1. x \in X
      BY <1>4
    <3> HIDE DEF X
    <3> QED BY <3>1
  <2> QED BY <2>1
<1> HIDE DEF F, X
<1>8. PICK h : Recurs(h, F, start, L, n)
  <2>1. Leads(F, L, n)
    BY <1>6, <1>7 DEF Leads
  <2> QED BY <1>1, <1>5, <2>1, Levels
<1>9. Is(h)
  <2>1. \A k \in 0 .. n : k # 0 => k \in 1 .. n
    BY <1>1
  <2>2. ASSUME NEW k \in 0 .. n, k # 0 PROVE F[<<h[k - 1], k>>] = InsertRow(h[k - 1], left[k])
    BY <1>4, <1>7, <1>8, <2>1, <2>2 DEF Recurs
  <2>3. [k \in 0 .. n |-> IF k = 0 THEN start ELSE F[<<h[k - 1], k>>]]
            = [k \in 0 .. n |-> IF k = 0 THEN start ELSE InsertRow(h[k - 1], left[k])]
    BY <2>2
  <2> QED BY <1>8, <2>3 DEF Recurs
<1>10. Is(f0)
  <2> HIDE DEF Is
  <2> QED BY <1>9
<1> HIDE DEF f0
<1>11. \A k \in 0 .. n : f0[k] = IF k = 0 THEN start ELSE InsertRow(f0[k - 1], left[k])
  BY <1>10, Zenon
<1>12. f0[n] \in L[n]
  <2> DEFINE T == {k \in 0 .. n : f0[k] \in L[k]}
  <2>1. 0 \in T
    <3>1. 0 \in 0 .. n
      BY <1>1
    <3> QED BY <1>5, <1>11, <3>1
  <2>2. ASSUME NEW k \in 1 .. n, k - 1 \in T PROVE k \in T
    <3>1. k \in 0 .. n /\ k # 0
      BY <1>1
    <3>2. f0[k] = InsertRow(f0[k - 1], left[k])
      BY <1>11, <3>1
    <3> QED BY <1>6, <2>2, <3>1, <3>2
  <2> HIDE DEF T
  <2>3. n \in T
    <3>1. n \in 0 .. n
      BY <1>1
    <3> QED BY <1>1, <2>1, <2>2, <3>1, Induction
  <2> QED BY <2>3 DEF T
<1> DEFINE st == f0[n]
<1>13. st \in Inserting(rows, left, Len(left))
  <2>1. n \in 0 .. n
    BY <1>1
  <2> QED BY <1>3, <1>12, <2>1 DEF n
<1> HIDE DEF st
<1>14. /\ st.rows \in Seq(Row) /\ Tree(st.rows) /\ Len(st.rows) = Len(rows) + Len(left)
       /\ Syms(st.rows) = Syms(rows) \cup {left[i] : i \in 1 .. Len(left)}
  <2>1. st \in [rows : Seq(Row), parents : Seq(Symbol)]
    BY <1>13 DEF Inserting
  <2>2. st.rows \in Seq(Row)
    BY <2>1
  <2> QED BY <1>13, <2>2 DEF Inserting
<1>15. Range(left) = {left[i] : i \in 1 .. Len(left)}
  <2>1. DOMAIN left = 1 .. Len(left)
    OBVIOUS
  <2> QED BY <2>1 DEF Range
<1> QED
  BY <1>2, <1>14, <1>15 DEF st

\* Sorting moves a row with what is below it.
LEMMA TreeSorted ==
    ASSUME NEW rows \in Seq(Row), Tree(rows)
    PROVE  /\ SortTree(rows) \in Seq(Row) /\ Tree(SortTree(rows))
           /\ Len(SortTree(rows)) = Len(rows) /\ Syms(SortTree(rows)) = Syms(rows)
<1> DEFINE n == Len(rows)
           S == 1 .. n
           R == {p \in S \X S : RowBefore(rows, p[1], p[2])}
           o == InOrder(S, R)
           new == [k \in DOMAIN rows |-> rows[o[k]]]
<1>1. n \in Nat /\ DOMAIN rows = S
  OBVIOUS
<1>2. /\ Order(S, R) /\ Cardinality(S) = n
      /\ \A i, j \in S : <<i, j>> \in R <=> RowBefore(rows, i, j)
  BY RowsOrder
<1>3. SortTree(rows) = new
  BY <1>1 DEF SortTree
<1> HIDE DEF R
<1>4. /\ o \in [S -> S]
      /\ \A k, m \in S : k < m => <<o[k], o[m]>> \in R
      /\ \A i \in S : \E k \in S : o[k] = i
  <2> DEFINE c == Cardinality(S)
  <2>1. /\ c \in Nat /\ o \in [1 .. c -> S]
        /\ \A k, m \in 1 .. c : k < m => <<o[k], o[m]>> \in R
        /\ \A i \in S : \E k \in 1 .. c : o[k] = i
    <3> HIDE DEF S
    <3> QED BY <1>2, InOrderSorts
  <2> HIDE DEF o
  <2> QED BY <1>2, <2>1
<1> HIDE DEF o
<1>5. new \in Seq(Row) /\ Len(new) = n /\ DOMAIN new = S /\ \A k \in S : new[k] = rows[o[k]]
  <2>1. \A k \in S : rows[o[k]] \in Row
    <3>1. \A i \in S : rows[i] \in Row
      OBVIOUS
    <3> HIDE DEF S
    <3> QED BY <1>4, <3>1
  <2>2. new \in [1 .. n -> Row] /\ \A k \in S : new[k] = rows[o[k]]
    BY <1>1, <2>1
  <2> HIDE DEF new
  <2> QED BY <1>1, <2>2
<1> HIDE DEF new
<1>6. \A i, j \in S : <<i, j>> \in R => i # j /\ <<j, i>> \notin R
  <2> HIDE DEF S
  <2> QED BY <1>2 DEF Order
<1>7. ASSUME NEW k \in S, NEW m \in S, o[k] \in Above(rows, o[m])
      PROVE  k \in Above(new, m)
  <2>1. o[k] \in S /\ o[m] \in S
    <3> HIDE DEF S
    <3> QED BY <1>4
  <2>2. k <= m
    <3>1. SUFFICES ASSUME m < k PROVE FALSE
      BY <1>1
    <3>2. <<o[m], o[k]>> \in R
      BY <1>4, <3>1
    <3>3. o[m] # o[k] /\ <<o[k], o[m]>> \notin R
      BY <1>6, <2>1, <3>2
    <3>4. RowBefore(rows, o[k], o[m])
      BY <1>7, <3>3 DEF RowBefore
    <3> QED BY <1>2, <2>1, <3>3, <3>4
  <2>3. ASSUME NEW x \in k + 1 .. m PROVE new[x].depth > new[k].depth
    <3>1. x \in S /\ k < x /\ (x = m \/ x < m)
      BY <1>1, <2>2
    <3>2. o[x] \in S /\ <<o[k], o[x]>> \in R
      <4>1. o[x] \in S
        <5> HIDE DEF S
        <5> QED BY <1>4, <3>1
      <4> QED BY <1>4, <3>1, <4>1
    <3>3. RowBefore(rows, o[k], o[x]) /\ o[k] # o[x]
      BY <1>2, <1>6, <2>1, <3>2
    <3>4. o[k] \in Above(rows, o[x])
      <4>1. CASE x = m
        BY <1>7, <4>1
      <4>2. CASE x < m
        <5>1. SUFFICES ASSUME o[k] \notin Above(rows, o[x]) PROVE FALSE
          OBVIOUS
        <5>2. PICK a \in Above(rows, o[k]), b \in Above(rows, o[x]) :
                  Siblings(rows, a, b) /\ LinesInOrder(rows, a, b)
          BY <3>3, <5>1 DEF RowBefore
        <5>3. Above(rows, o[k]) \subseteq Above(rows, o[m])
          BY <1>7, <2>1, AboveBoth
        <5>4. RowBefore(rows, o[m], o[x])
          BY <5>2, <5>3 DEF RowBefore
        <5>5. <<o[m], o[x]>> \in R
          BY <1>2, <2>1, <3>2, <5>4
        <5>6. <<o[x], o[m]>> \in R
          BY <1>4, <3>1, <4>2
        <5> QED BY <1>6, <2>1, <3>2, <5>5, <5>6
      <4> QED BY <3>1, <4>1, <4>2
    <3>5. rows[o[k]].depth < rows[o[x]].depth
      BY <3>2, <3>3, <3>4, AboveIs
    <3>6. rows[o[k]].depth \in Nat /\ rows[o[x]].depth \in Nat
      BY <2>1, <3>2, RowType
    <3>7. new[x] = rows[o[x]] /\ new[k] = rows[o[k]]
      BY <1>5, <3>1
    <3> QED BY <3>5, <3>6, <3>7
  <2>4. k \in 1 .. m
    BY <2>2
  <2> QED BY <2>3, <2>4 DEF Above
<1>8. Tree(new)
  <2> SUFFICES ASSUME NEW m \in S, new[m].depth # 1 PROVE new[m].depth > 1 /\ HasParent(new, m)
    BY <1>5 DEF Tree
  <2>1. o[m] \in S /\ new[m] = rows[o[m]]
    <3> HIDE DEF S
    <3> QED BY <1>4, <1>5
  <2>2. rows[o[m]].depth > 1 /\ HasParent(rows, o[m])
    BY <2>1 DEF Tree
  <2>3. PICK p \in Above(rows, o[m]) :
            rows[p].depth = rows[o[m]].depth - 1 /\ ScopedName(rows[p].sym) = rows[o[m]].sym.scope
    BY <2>2 DEF HasParent
  <2>4. p \in S
    BY <2>1, AboveIs
  <2>5. PICK k \in S : o[k] = p
    BY <1>4, <2>4
  <2>6. k \in Above(new, m) /\ new[k] = rows[p]
    BY <1>5, <1>7, <2>5
  <2>7. HasParent(new, m)
    BY <2>1, <2>3, <2>6 DEF HasParent
  <2> QED BY <2>1, <2>2, <2>7
<1>9. Syms(new) = Syms(rows)
  <2>1. \A k \in S : new[k].sym \in Syms(rows)
    <3>1. \A k \in S : o[k] \in S
      <4> HIDE DEF S
      <4> QED BY <1>4
    <3> HIDE DEF S
    <3> QED BY <1>1, <1>5, <3>1 DEF Syms
  <2>2. ASSUME NEW i \in S PROVE rows[i].sym \in Syms(new)
    <3>1. PICK k \in S : o[k] = i
      BY <1>4
    <3> HIDE DEF S
    <3> QED BY <1>5, <3>1 DEF Syms
  <2>3. Syms(new) \subseteq Syms(rows)
    <3> HIDE DEF S
    <3> QED BY <1>5, <2>1 DEF Syms
  <2>4. Syms(rows) \subseteq Syms(new)
    <3> HIDE DEF S
    <3> QED BY <1>1, <2>2 DEF Syms
  <2> QED BY <2>3, <2>4
<1> QED
  BY <1>3, <1>5, <1>8, <1>9 DEF n

\* However the tree was before, it shows the symbols of a list and is a tree again.
LEMMA TreeRecreated ==
    ASSUME NEW rows \in Seq(Row), Tree(rows), NEW list \in Seq(Symbol)
    PROVE  LET r == RecreateSymbolList(rows, list)
           IN  /\ r \in Seq(Row) /\ Tree(r)
               /\ list # <<>> => Syms(r) = Range(list) /\ Len(r) = Len(list)
<1>1. CASE list = <<>>
  BY <1>1 DEF RecreateSymbolList
<1>2. CASE list # <<>>
  <2> DEFINE st == UpdateRows(rows, list)
             left == st.left
             kept == st.rows
             all == InsertRows(kept, left)
  <2>1. /\ kept \in Seq(Row) /\ left \in Seq(Symbol) /\ Tree(kept)
        /\ Len(kept) + Len(left) = Len(list)
        /\ Syms(kept) \cup Range(left) = Range(list)
    BY RowsUpdated
  <2>2. UpdateSymbols(rows, list) = all
    BY DEF UpdateSymbols
  <2> HIDE DEF kept, left
  <2>3. /\ all \in Seq(Row) /\ Tree(all) /\ Len(all) = Len(kept) + Len(left)
        /\ Syms(all) = Syms(kept) \cup Range(left)
    BY <2>1, RowsInserted
  <2> HIDE DEF all
  <2>4. /\ SortTree(all) \in Seq(Row) /\ Tree(SortTree(all))
        /\ Len(SortTree(all)) = Len(all) /\ Syms(SortTree(all)) = Syms(all)
    BY <2>3, TreeSorted
  <2>5. RecreateSymbolList(rows, list) = SortTree(all)
    BY <1>2, <2>2 DEF RecreateSymbolList
  <2> QED BY <2>1, <2>3, <2>4, <2>5
<1> QED
  BY <1>1, <1>2

\* The tree is one whose rows are below rows of their scopes, and shows its list.
TreeInv ==
    job.kind = "tree" =>
        /\ job.syms \in SymbolLists
        /\ job.rows \in Seq(Row) /\ Tree(job.rows)
        /\ TreeListed(job.syms, job.searched, job.list, job.shown, job.rows)

\* It stays so when an answer comes or the user searches.
LEMMA TreeRefreshed ==
    ASSUME NEW syms \in SymbolLists, NEW rows \in Seq(Row), Tree(rows), NEW searched,
           NEW old, Syms(rows) = Range(old), Len(rows) = Len(old),
           job' = Refreshed(syms, rows, old, searched)
    PROVE  TreeInv'
<1> DEFINE list == SymbolList(syms, searched)
           r == RecreateSymbolList(rows, list)
           n == Refreshes + 1
           shown == IF list = <<>> THEN old ELSE list
<1>1. syms \in Seq(Symbol)
  BY SymbolAssumption DEF Symbol
<1>2. /\ list \in Seq(Symbol)
      /\ Range(list) = {sym \in Range(syms) : IsSearched(sym, searched)}
  BY <1>1, SymbolsListed
<1>3. job' = [kind |-> "tree", refreshes |-> n, syms |-> syms, searched |-> searched,
              list |-> list, shown |-> shown, before |-> rows, rows |-> r]
  BY DEF Refreshed
<1>0. list = <<>> => r = rows
  BY DEF RecreateSymbolList
<1> HIDE DEF list, n
<1>4. r \in Seq(Row) /\ Tree(r) /\ (list # <<>> => Syms(r) = Range(list) /\ Len(r) = Len(list))
  BY <1>2, TreeRecreated
<1> HIDE DEF r
<1>5. TreeListed(syms, searched, list, shown, r)
  BY <1>0, <1>2, <1>4 DEF TreeListed, Syms
<1> HIDE DEF shown
<1>6. /\ job'.kind = "tree" /\ job'.syms = syms /\ job'.searched = searched
      /\ job'.list = list /\ job'.shown = shown /\ job'.rows = r
  BY <1>3
<1> QED
  BY <1>4, <1>5, <1>6 DEF TreeInv

\* However often a document changes and is searched, and whatever its symbols are, the rows
\* of the tree are the symbols of the last list in which something was found since the
\* search began, each once, and below rows of their scopes.
THEOREM TreeShown == Spec => []TreeShowsList
<1>1. Init => TreeInv
  BY DEF Init, Idle, TreeInv
<1>2. TreeInv /\ [Next]_job => TreeInv'
  <2> SUFFICES ASSUME TreeInv, [Next]_job PROVE TreeInv'
    OBVIOUS
  <2> DEFINE none == <<>>
  <2>1. none \in Seq(Row) /\ Tree(none) /\ Syms(none) = Range(none)
    <3>1. none \in Seq(Row) /\ 1 .. Len(none) = {}
      OBVIOUS
    <3>2. Syms(none) = Range(none)
      BY DEF Syms, Range
    <3> HIDE DEF none
    <3> QED BY <3>1, <3>2 DEF Tree
  <2>2. /\ Rows \in Seq(Row) /\ Tree(Rows)
        /\ Syms(Rows) = Range(Shown) /\ Len(Rows) = Len(Shown)
    <3>1. CASE job.kind = "tree"
      BY <3>1 DEF Rows, Shown, TreeInv, TreeListed, Syms
    <3>2. CASE job.kind # "tree"
      <4>1. Rows = none /\ Shown = none
        BY <3>2 DEF Rows, Shown
      <4> QED BY <2>1, <4>1
    <3> QED BY <3>1, <3>2
  <2>3. CASE RunSymbols
    <3>1. PICK syms \in SymbolLists, searched \in Searched : job' = Refreshed(syms, Rows, Shown, searched)
      BY <2>3 DEF RunSymbols
    <3> QED BY <2>2, <3>1, TreeRefreshed
  <2>4. CASE RunSearch
    <3>1. PICK searched \in Searches : job' = Refreshed(job.syms, none, none, searched)
      BY <2>4 DEF RunSearch
    <3>2. job.syms \in SymbolLists
      BY <2>4 DEF RunSearch, TreeInv
    <3> HIDE DEF none
    <3> QED BY <2>1, <3>1, <3>2, TreeRefreshed
  <2>5. CASE RunSnippet
    <3>1. job'.kind = "snippet"
      BY <2>5 DEF RunSnippet
    <3> QED BY <3>1 DEF TreeInv
  <2>6. CASE RunCompletion
    <3>1. job'.kind = "completion"
      BY <2>6 DEF RunCompletion
    <3> QED BY <3>1 DEF TreeInv
  <2>7. CASE RunWorkspaceEdit
    <3>1. job'.kind = "workspace"
      BY <2>7 DEF RunWorkspaceEdit
    <3> QED BY <3>1 DEF TreeInv
  <2>8. CASE RunCompletionList
    <3>1. job'.kind = "list"
      BY <2>8 DEF RunCompletionList
    <3> QED BY <3>1 DEF TreeInv
  <2>9. CASE UNCHANGED job
    BY <2>9 DEF TreeInv
  <2> QED BY <2>3, <2>4, <2>5, <2>6, <2>7, <2>8, <2>9 DEF Next
<1>3. TreeInv => TreeShowsList
  <2> SUFFICES ASSUME TreeInv, job.kind = "tree"
               PROVE  /\ TreeListed(job.syms, job.searched, job.list, job.shown, job.rows)
                      /\ RowsBelow(job.rows)
    BY DEF TreeShowsList
  <2>1. job.rows \in Seq(Row) /\ Tree(job.rows)
    BY DEF TreeInv
  <2>2. RowsBelow(job.rows)
    BY <2>1, TreeBelow
  <2> QED BY <2>2 DEF TreeInv
<1> QED
  BY <1>1, <1>2, <1>3, PTL DEF Spec
=============================================================================
