-------------------------- MODULE SelectionProofs --------------------------
(***************************************************************************)
(* What TLAPS proves of expanding and shrinking the selection: however the *)
(* ranges of the text are nested and however many answers are under way,   *)
(* shrinking goes back the way of expanding.                               *)
(***************************************************************************)
EXTENDS FeaturesProofs, SequenceTheorems

\* The ranges around the start of x that are larger than x.
Above(x) == {r \in Syntax : r[1] <= x[1] /\ x[1] < r[2] /\ WithinRange(r, x)}

\* The ranges of a list that are smaller than x.
Below(list, x) == {y \in ToSet(list) : WithinRange(x, y)}

Least(y, S) == y \in S /\ \A z \in S : z = y \/ WithinRange(z, y)
Greatest(y, S) == y \in S /\ \A z \in S : z = y \/ WithinRange(y, z)

\* What a list is like that was filled by the answers: its ranges are in one another,
\* none is missing that is larger than one of them, and though the larger ones may come
\* several times, the next one up and the next one down are found.
Grown(list) ==
    /\ \A x, y \in ToSet(list) : x = y \/ WithinRange(x, y) \/ WithinRange(y, x)
    /\ \A x \in ToSet(list) : {y \in ToSet(list) : WithinRange(y, x)} = Above(x)
    /\ \A x \in ToSet(list) :
          Above(x) # {} => Least(FindSelectionRange(list, x, TRUE), Above(x))
    /\ \A x \in ToSet(list) :
          Below(list, x) # {} => Greatest(FindSelectionRange(list, x, FALSE), Below(list, x))

\* The way back from x.
Way(back, x, j) == IF j = Len(back) + 1 THEN x ELSE back[j]

\* Shrinking goes through what was expanded, from the last on, up to the first or to one
\* that nothing in the list is smaller than.
Trail(list, back, x) ==
    \E k \in 1 .. Len(back) + 1 :
        /\ \A j \in k .. Len(back) : FindSelectionRange(list, Way(back, x, j + 1), FALSE) = back[j]
        /\ k = 1 \/ FindSelectionRange(list, Way(back, x, k), FALSE) = NoRange

\* A place in a range, or at the caret.
Covers(x, p) == (x[1] = p /\ x[2] = p) \/ (x[1] <= p /\ p < x[2])

\* P: the places in d that the server was asked about.
Retraceable(s, d, P) ==
    /\ Grown(s.list)
    /\ Trail(s.list, s.back, s.sel[d])
    /\ \A p \in P : \A x \in ToSet(s.list) : Covers(x, p)
    /\ P # {} /\ s.list # <<>> => s.sel[d] \in ToSet(s.list)

Retraces(s, d, P) ==
    /\ \A p \in P : Covers(s.sel[d], p)
    /\ s.list # NULL => Retraceable(s, d, P)

SelectionCall == {c \in ToSet(calls) : c.method = "selection"}
Places == {c.arg.pos : c \in SelectionCall}

SelectionRecord == [sel : [Doc -> TextRange], list : {NULL} \cup Seq(TextRange),
                    back : Seq(TextRange), mixed : BOOLEAN]

\* As long as the user did not go elsewhere.
SelectionInv ==
    /\ selection \in SelectionRecord
    /\ \A c \in SelectionCall : c.arg.pos \in Nat /\ c.arg.expand \in BOOLEAN
    /\ ~selection.mixed =>
          /\ \A c \in SelectionCall : c.doc = current
          /\ selection.list # NULL => Grown(selection.list)
          /\ current # NULL => Retraces(selection, current, Places)

-----------------------------------------------------------------------------
(* Ranges and lists of them *)

\* A range of the text has two numbers in order; the syntax has no empty range.
LEMMA RangeType ==
    /\ \A r \in TextRange : r[1] \in Nat /\ r[2] \in Nat /\ r[1] <= r[2]
    /\ \A r \in Syntax : r \in TextRange /\ r[1] < r[2]
    /\ NoRange \notin TextRange
<1>1. Position \subseteq Nat
  BY SyntaxAssumption DEF Position
<1>2. \A r \in TextRange : r[1] \in Nat /\ r[2] \in Nat /\ r[1] <= r[2]
  BY <1>1 DEF TextRange
<1>3. ASSUME NEW r \in Syntax PROVE r \in TextRange /\ r[1] < r[2]
  <2>1. r \in Nat \X Nat /\ r[1] < r[2]
    BY SyntaxAssumption
  <2>2. r[1] \in Position /\ r[2] \in Position
    BY DEF Position
  <2>3. r = <<r[1], r[2]>> /\ r[1] <= r[2]
    BY <2>1
  <2> QED BY <2>1, <2>2, <2>3 DEF TextRange
<1>4. NoRange \notin TextRange
  BY DEF NoRange, TextRange
<1> QED
  BY <1>2, <1>3, <1>4

\* Being larger is a strict order.
LEMMA WithinOrder ==
    ASSUME NEW x \in TextRange, NEW y \in TextRange, NEW z \in TextRange
    PROVE  /\ ~WithinRange(x, x)
           /\ WithinRange(x, y) => ~WithinRange(y, x) /\ x # y
           /\ WithinRange(x, y) /\ WithinRange(y, z) => WithinRange(x, z)
BY RangeType DEF WithinRange

\* The first and the last of the places in a list.
LEMMA MinMax ==
    ASSUME NEW n \in Nat, NEW T \in SUBSET (1 .. n), T # {}
    PROVE  /\ Min(T) \in T /\ \A m \in T : Min(T) <= m
           /\ Max(T) \in T /\ \A m \in T : m <= Max(T)
<1>1. \E x \in T : \A y \in T : x =< y
  <2>1. T \in SUBSET Nat
    OBVIOUS
  <2> QED BY <2>1, LeastNat
<1>2. \E x \in T : \A y \in T : x >= y
  <2>1. PICK k \in T : \A m \in T : m <= k
    BY GreatestNat
  <2>2. \A m \in T : k >= m
    BY <2>1
  <2> QED BY <2>2
<1>3. Min(T) \in T /\ \A m \in T : Min(T) =< m
  BY <1>1 DEF Min
<1>4. Max(T) \in T /\ \A m \in T : Max(T) >= m
  BY <1>2 DEF Max
<1>5. \A m \in T : m \in Nat
  OBVIOUS
<1> DEFINE a == Min(T)
           b == Max(T)
<1> HIDE DEF a, b
<1>6. a \in T /\ \A m \in T : a <= m
  BY <1>3 DEF a
<1>7. b \in T /\ \A m \in T : b >= m
  BY <1>4 DEF b
<1>8. \A m \in T : m <= b
  BY <1>5, <1>7
<1> QED
  BY <1>6, <1>7, <1>8 DEF a, b

\* The first range that is larger, and the last that is smaller.
LEMMA FoundExpanding ==
    ASSUME NEW L \in Seq(TextRange), NEW x
    PROVE  \/ /\ FindSelectionRange(L, x, TRUE) = NoRange
              /\ \A i \in 1 .. Len(L) : ~WithinRange(L[i], x)
           \/ \E i \in 1 .. Len(L) :
                 /\ FindSelectionRange(L, x, TRUE) = L[i]
                 /\ WithinRange(L[i], x)
                 /\ \A j \in 1 .. i - 1 : ~WithinRange(L[j], x)
<1> DEFINE T == Larger(L, x)
<1>1. Len(L) \in Nat /\ DOMAIN L = 1 .. Len(L) /\ T \in SUBSET (1 .. Len(L))
  BY DEF Larger
<1>2. CASE T = {}
  <2>1. FindSelectionRange(L, x, TRUE) = NoRange
    BY <1>2 DEF FindSelectionRange
  <2> QED BY <1>1, <1>2, <2>1 DEF Larger
<1>3. CASE T # {}
  <2>1. FindSelectionRange(L, x, TRUE) = L[Min(T)]
    BY <1>3 DEF FindSelectionRange
  <2>2. Min(T) \in T /\ \A m \in T : Min(T) <= m
    BY <1>1, <1>3, MinMax
  <2>3. Min(T) \in 1 .. Len(L) /\ WithinRange(L[Min(T)], x)
    BY <1>1, <2>2 DEF Larger
  <2>4. \A j \in 1 .. Min(T) - 1 : j \in 1 .. Len(L) /\ j \notin T
    BY <1>1, <2>2, <2>3
  <2>5. \A j \in 1 .. Min(T) - 1 : ~WithinRange(L[j], x)
    BY <1>1, <2>4 DEF Larger
  <2> HIDE DEF T
  <2> QED BY <2>1, <2>3, <2>5
<1> QED
  BY <1>2, <1>3

\* The same for shrinking: the last that is smaller, and none behind it.
LEMMA FoundShrinking ==
    ASSUME NEW L \in Seq(TextRange), NEW x
    PROVE  \/ /\ FindSelectionRange(L, x, FALSE) = NoRange
              /\ \A i \in 1 .. Len(L) : ~WithinRange(x, L[i])
           \/ \E i \in 1 .. Len(L) :
                 /\ FindSelectionRange(L, x, FALSE) = L[i]
                 /\ WithinRange(x, L[i])
                 /\ \A j \in i + 1 .. Len(L) : ~WithinRange(x, L[j])
<1> DEFINE T == Smaller(L, x)
<1>1. Len(L) \in Nat /\ DOMAIN L = 1 .. Len(L) /\ T \in SUBSET (1 .. Len(L))
  BY DEF Smaller
<1>2. CASE T = {}
  <2>1. FindSelectionRange(L, x, FALSE) = NoRange
    BY <1>2 DEF FindSelectionRange
  <2> QED BY <1>1, <1>2, <2>1 DEF Smaller
<1>3. CASE T # {}
  <2>1. FindSelectionRange(L, x, FALSE) = L[Max(T)]
    BY <1>3 DEF FindSelectionRange
  <2>2. Max(T) \in T /\ \A m \in T : m <= Max(T)
    BY <1>1, <1>3, MinMax
  <2>3. Max(T) \in 1 .. Len(L) /\ WithinRange(x, L[Max(T)])
    BY <1>1, <2>2 DEF Smaller
  <2>4. \A j \in Max(T) + 1 .. Len(L) : j \in 1 .. Len(L) /\ j \notin T
    BY <1>1, <2>2, <2>3
  <2>5. \A j \in Max(T) + 1 .. Len(L) : ~WithinRange(x, L[j])
    BY <1>1, <2>4 DEF Smaller
  <2> HIDE DEF T
  <2> QED BY <2>1, <2>3, <2>5
<1> QED
  BY <1>2, <1>3

\* What is found is in the list and fits.
LEMMA FoundFits ==
    ASSUME NEW L \in Seq(TextRange), NEW x
    PROVE  /\ FindSelectionRange(L, x, TRUE) # NoRange =>
                 /\ FindSelectionRange(L, x, TRUE) \in ToSet(L)
                 /\ WithinRange(FindSelectionRange(L, x, TRUE), x)
           /\ FindSelectionRange(L, x, FALSE) # NoRange =>
                 FindSelectionRange(L, x, FALSE) \in Below(L, x)
           /\ FindSelectionRange(L, x, FALSE) = NoRange => Below(L, x) = {}
           /\ ToSet(L) \subseteq TextRange
<1>1. /\ DOMAIN L = 1 .. Len(L)
      /\ ToSet(L) = {L[i] : i \in 1 .. Len(L)}
      /\ \A i \in 1 .. Len(L) : L[i] \in TextRange
  BY DEF ToSet
<1>2. ToSet(L) \subseteq TextRange
  BY <1>1
<1>3. FindSelectionRange(L, x, TRUE) # NoRange =>
         /\ FindSelectionRange(L, x, TRUE) \in ToSet(L)
         /\ WithinRange(FindSelectionRange(L, x, TRUE), x)
  BY <1>1, FoundExpanding
<1>4. /\ FindSelectionRange(L, x, FALSE) # NoRange =>
             FindSelectionRange(L, x, FALSE) \in Below(L, x)
      /\ FindSelectionRange(L, x, FALSE) = NoRange => Below(L, x) = {}
  BY <1>1, FoundShrinking, RangeType DEF Below
<1> QED
  BY <1>2, <1>3, <1>4

\* One up and one down again.
LEMMA UpAndDown ==
    ASSUME NEW L \in Seq(TextRange), Grown(L), NEW x \in ToSet(L),
           FindSelectionRange(L, x, TRUE) # NoRange
    PROVE  FindSelectionRange(L, FindSelectionRange(L, x, TRUE), FALSE) = x
<1> DEFINE y == FindSelectionRange(L, x, TRUE)
           z == FindSelectionRange(L, y, FALSE)
<1>1. y \in ToSet(L) /\ WithinRange(y, x) /\ ToSet(L) \subseteq TextRange
  BY FoundFits
<1>2. y \in Above(x) /\ Least(y, Above(x))
  BY <1>1 DEF Grown
<1>3. x \in Below(L, y)
  BY <1>1 DEF Below
<1>4. Greatest(z, Below(L, y))
  BY <1>1, <1>3 DEF Grown
<1> HIDE DEF y, z
<1>5. z \in ToSet(L) /\ WithinRange(y, z) /\ (x = z \/ WithinRange(z, x))
  BY <1>3, <1>4 DEF Greatest, Below
<1>6. CASE WithinRange(z, x)
  <2>1. z \in Above(x)
    BY <1>5, <1>6 DEF Grown
  <2>2. z = y \/ WithinRange(z, y)
    BY <1>2, <2>1 DEF Least
  <2> QED BY <1>1, <1>5, <2>2, WithinOrder
<1> QED
  BY <1>5, <1>6 DEF y, z

\* Two lists, one behind the other.
LEMMA FoundInConcat ==
    ASSUME NEW L \in Seq(TextRange), NEW q \in Seq(TextRange), NEW z
    PROVE  /\ FindSelectionRange(L, z, TRUE) # NoRange =>
                 FindSelectionRange(L \o q, z, TRUE) = FindSelectionRange(L, z, TRUE)
           /\ \/ \E i \in 1 .. Len(q) :
                    /\ FindSelectionRange(L \o q, z, FALSE) = q[i]
                    /\ WithinRange(z, q[i])
                    /\ \A j \in i + 1 .. Len(q) : ~WithinRange(z, q[j])
              \/ /\ \A j \in 1 .. Len(q) : ~WithinRange(z, q[j])
                 /\ FindSelectionRange(L \o q, z, FALSE) = FindSelectionRange(L, z, FALSE)
<1> DEFINE M == L \o q
           l == Len(L)
           n == Len(q)
<1>1. /\ M \in Seq(TextRange) /\ l \in Nat /\ n \in Nat /\ Len(M) = l + n
      /\ \A i \in 1 .. l : M[i] = L[i]
      /\ \A i \in 1 .. n : M[l + i] = q[i]
      /\ DOMAIN L = 1 .. l /\ DOMAIN M = 1 .. l + n
  OBVIOUS
<1> HIDE DEF M, l, n
<1>2. ASSUME FindSelectionRange(L, z, TRUE) # NoRange
      PROVE  FindSelectionRange(M, z, TRUE) = FindSelectionRange(L, z, TRUE)
  <2>1. PICK i \in 1 .. l : /\ FindSelectionRange(L, z, TRUE) = L[i]
                            /\ WithinRange(L[i], z)
                            /\ \A j \in 1 .. i - 1 : ~WithinRange(L[j], z)
    BY <1>2, FoundExpanding DEF l
  <2>2. i \in 1 .. Len(M) /\ M[i] = L[i]
    BY <1>1
  <2>3. PICK k \in 1 .. Len(M) : /\ FindSelectionRange(M, z, TRUE) = M[k]
                                 /\ WithinRange(M[k], z)
                                 /\ \A j \in 1 .. k - 1 : ~WithinRange(M[j], z)
    BY <1>1, <2>1, <2>2, FoundExpanding
  <2>4. ~(i < k)
    <3>1. i < k => i \in 1 .. k - 1
      BY <1>1
    <3> QED BY <2>1, <2>2, <2>3, <3>1
  <2>5. ~(k < i)
    <3>1. k < i => k \in 1 .. i - 1 /\ k \in 1 .. l
      BY <1>1
    <3> QED BY <1>1, <2>1, <2>3, <3>1
  <2>6. k = i
    BY <1>1, <2>4, <2>5
  <2> QED BY <2>1, <2>2, <2>3, <2>6
<1>3. ASSUME NEW j \in 1 .. n, WithinRange(z, q[j])
      PROVE  \E i \in 1 .. n :
                    /\ FindSelectionRange(M, z, FALSE) = q[i]
                    /\ WithinRange(z, q[i])
                    /\ \A h \in i + 1 .. n : ~WithinRange(z, q[h])
  <2>1. l + j \in 1 .. Len(M) /\ M[l + j] = q[j]
    BY <1>1
  <2>2. PICK k \in 1 .. Len(M) : /\ FindSelectionRange(M, z, FALSE) = M[k]
                                 /\ WithinRange(z, M[k])
                                 /\ \A h \in k + 1 .. Len(M) : ~WithinRange(z, M[h])
    BY <1>1, <1>3, <2>1, FoundShrinking
  <2>3. ~(l + j > k)
    <3>1. l + j > k => l + j \in k + 1 .. Len(M)
      BY <1>1, <2>1
    <3> QED BY <1>3, <2>1, <2>2, <3>1
  <2>4. k - l \in 1 .. n /\ l + (k - l) = k
    BY <1>1, <2>3
  <2>5. M[k] = q[k - l]
    BY <1>1, <2>4
  <2>6. ASSUME NEW h \in (k - l) + 1 .. n PROVE ~WithinRange(z, q[h])
    <3>1. l + h \in k + 1 .. Len(M) /\ M[l + h] = q[h]
      BY <1>1, <2>4
    <3> QED BY <2>2, <3>1
  <2> QED BY <2>2, <2>4, <2>5, <2>6
<1>4. ASSUME \A j \in 1 .. n : ~WithinRange(z, q[j])
      PROVE  FindSelectionRange(M, z, FALSE) = FindSelectionRange(L, z, FALSE)
  <2>1. \A k \in 1 .. Len(M) : WithinRange(z, M[k]) => k \in 1 .. l /\ WithinRange(z, L[k])
    <3> TAKE k \in 1 .. Len(M)
    <3>1. CASE k > l
      <4>1. k - l \in 1 .. n /\ l + (k - l) = k
        BY <1>1, <3>1
      <4>2. M[k] = q[k - l]
        BY <1>1, <4>1
      <4> QED BY <1>4, <4>1, <4>2
    <3>2. CASE ~(k > l)
      BY <1>1, <3>2
    <3> QED BY <3>1, <3>2
  <2>2. \A k \in 1 .. l : k \in 1 .. Len(M) /\ (WithinRange(z, L[k]) => WithinRange(z, M[k]))
    BY <1>1
  <2>3. Smaller(M, z) = Smaller(L, z)
    BY <1>1, <2>1, <2>2 DEF Smaller
  <2>4. Max(Smaller(L, z)) \in 1 .. l \/ Smaller(L, z) = {}
    <3>1. Smaller(L, z) \subseteq 1 .. l
      BY <1>1 DEF Smaller
    <3> QED BY <1>1, <3>1, MinMax
  <2> QED BY <1>1, <2>3, <2>4 DEF FindSelectionRange
<1> QED
  BY <1>2, <1>3, <1>4 DEF M, n

\* What an answer adds: x and all that is larger, in order.
Climbs(q, x) ==
    /\ q \in Seq(TextRange) /\ q # <<>>
    /\ q[1] = x
    /\ ToSet(q) = {x} \cup Above(x)
    /\ \A i, j \in 1 .. Len(q) : i < j => WithinRange(q[j], q[i])

\* What parse_selection() makes of an answer climbs from what is selected.
LEMMA ParsedClimbs ==
    ASSUME NEW x \in TextRange, NEW p \in Nat, Covers(x, p), NEW s \in Parsed(p, x)
    PROVE  Climbs(<<x>> \o s, x)
<1> DEFINE A == {r \in Syntax : r[1] <= p /\ p < r[2] /\ WithinRange(r, x)}
           n == Cardinality(A)
           q == <<x>> \o s
<1>1. /\ s \in [1 .. n -> A]
      /\ ToSet(s) = A
      /\ \A i, j \in DOMAIN s : i < j => WithinRange(s[j], s[i])
  BY DEF Parsed
<1>2. A = Above(x)
  <2>1. ASSUME NEW r \in Syntax, WithinRange(r, x)
        PROVE  (r[1] <= p /\ p < r[2]) <=> (r[1] <= x[1] /\ x[1] < r[2])
    BY <2>1, RangeType DEF Covers, WithinRange
  <2> QED BY <2>1 DEF Above
<1>3. n \in Nat
  <2>1. IsFiniteSet(A)
    <3>1. A \subseteq Syntax /\ IsFiniteSet(Syntax)
      BY SyntaxAssumption
    <3> HIDE DEF A
    <3> QED BY <3>1, FS_Subset
  <2> QED BY <2>1, FS_CardinalityType
<1>4. A \subseteq TextRange /\ \A r \in A : WithinRange(r, x)
  BY RangeType
<1> HIDE DEF A, n
<1>5. s \in Seq(TextRange) /\ Len(s) = n /\ DOMAIN s = 1 .. n
  BY <1>1, <1>3, <1>4
<1>6. /\ q \in Seq(TextRange) /\ Len(q) = n + 1 /\ DOMAIN q = 1 .. n + 1
      /\ q[1] = x
      /\ \A i \in 1 .. n : q[i + 1] = s[i]
  BY <1>3, <1>5
<1> HIDE DEF q
<1>7. \A k \in 1 .. n + 1 : k = 1 \/ (k - 1 \in 1 .. n /\ q[k] = s[k - 1])
  <2> TAKE k \in 1 .. n + 1
  <2>1. CASE k # 1
    <3>1. k - 1 \in 1 .. n /\ (k - 1) + 1 = k
      BY <1>3, <2>1
    <3> QED BY <1>6, <3>1
  <2> QED BY <2>1
<1>8. ToSet(q) = {x} \cup A
  <2>1. \A k \in 1 .. n + 1 : q[k] \in {x} \cup A
    BY <1>1, <1>6, <1>7
  <2>2. x \in ToSet(q)
    <3>1. 1 \in 1 .. n + 1
      BY <1>3
    <3> QED BY <1>6, <3>1 DEF ToSet
  <2>3. ASSUME NEW r \in A PROVE r \in ToSet(q)
    <3>1. PICK i \in 1 .. n : s[i] = r
      BY <1>1, <1>5 DEF ToSet
    <3>2. i + 1 \in 1 .. n + 1 /\ q[i + 1] = r
      BY <1>3, <1>6, <3>1
    <3> QED BY <1>6, <3>2 DEF ToSet
  <2> QED BY <1>6, <2>1, <2>2, <2>3 DEF ToSet
<1>9. ASSUME NEW i \in 1 .. n + 1, NEW j \in 1 .. n + 1, i < j PROVE WithinRange(q[j], q[i])
  <2>1. j - 1 \in 1 .. n /\ q[j] = s[j - 1]
    BY <1>3, <1>7, <1>9
  <2>2. CASE i = 1
    BY <1>1, <1>4, <1>6, <2>1, <2>2
  <2>3. CASE i # 1
    <3>1. i - 1 \in 1 .. n /\ q[i] = s[i - 1] /\ i - 1 < j - 1
      BY <1>3, <1>7, <1>9, <2>3
    <3> QED BY <1>1, <1>5, <2>1, <3>1
  <2> QED BY <2>2, <2>3
<1>10. q # <<>>
  BY <1>3, <1>6
<1> QED
  BY <1>2, <1>6, <1>8, <1>9, <1>10 DEF Climbs, q

\* What is above the ranges above x.
LEMMA AboveAbove ==
    ASSUME NEW x \in TextRange, NEW r \in Above(x)
    PROVE  /\ r \in TextRange /\ WithinRange(r, x)
           /\ {y \in {x} \cup Above(x) : WithinRange(y, r)} = Above(r)
<1>1. r \in Syntax /\ r \in TextRange /\ r[1] < r[2] /\ WithinRange(r, x)
  BY RangeType DEF Above
<1>2. ASSUME NEW y \in Above(x), WithinRange(y, r) PROVE y \in Above(r)
  <2>1. y \in Syntax /\ y \in TextRange
    BY RangeType DEF Above
  <2> QED BY <1>1, <1>2, <2>1, RangeType DEF Above, WithinRange
<1>3. ASSUME NEW y \in Above(r) PROVE y \in Above(x) /\ WithinRange(y, r)
  <2>1. y \in Syntax /\ y \in TextRange /\ WithinRange(y, r)
    BY RangeType DEF Above
  <2>2. WithinRange(y, x)
    BY <1>1, <2>1, WithinOrder
  <2>3. r[1] <= x[1] /\ x[1] < r[2]
    BY DEF Above
  <2>4. y[1] <= x[1] /\ x[1] < y[2]
    BY <1>1, <2>1, <2>3, RangeType DEF WithinRange
  <2> QED BY <2>1, <2>2, <2>4 DEF Above
<1>4. ~WithinRange(x, r)
  BY <1>1, WithinOrder
<1> QED
  BY <1>1, <1>2, <1>3, <1>4

\* The list grows, from nothing or from x in it.
LEMMA ListGrows ==
    ASSUME NEW L \in Seq(TextRange), NEW x \in TextRange, NEW q, Climbs(q, x),
           L = <<>> \/ (Grown(L) /\ x \in ToSet(L))
    PROVE  /\ L \o q \in Seq(TextRange)
           /\ ToSet(L \o q) = ToSet(L) \cup {x} \cup Above(x)
           /\ L # <<>> => ToSet(L \o q) = ToSet(L)
           /\ Grown(L \o q)
<1> DEFINE M == L \o q
           C == ToSet(L) \cup ({x} \cup Above(x))
           n == Len(q)
<1>0. /\ q \in Seq(TextRange) /\ n \in Nat
      /\ DOMAIN q = 1 .. n /\ 1 \in 1 .. n /\ q[1] = x
      /\ ToSet(q) = {x} \cup Above(x)
      /\ \A i, j \in 1 .. n : i < j => WithinRange(q[j], q[i])
      /\ \A i \in 1 .. n : q[i] \in ToSet(q)
      /\ \A y \in ToSet(q) : \E i \in 1 .. n : q[i] = y
      /\ ToSet(L) \subseteq TextRange /\ ToSet(q) \subseteq TextRange
  BY DEF Climbs, ToSet
<1>1. M \in Seq(TextRange) /\ ToSet(M) = C
  <2>1. /\ M \in Seq(TextRange) /\ Len(L) \in Nat /\ Len(M) = Len(L) + n
        /\ \A i \in 1 .. Len(L) : M[i] = L[i]
        /\ \A i \in 1 .. n : M[Len(L) + i] = q[i]
        /\ DOMAIN L = 1 .. Len(L) /\ DOMAIN M = 1 .. Len(L) + n
    BY <1>0
  <2> DEFINE l == Len(L)
  <2> HIDE DEF M, l, n
  <2>2. \A k \in 1 .. l + n : k \in 1 .. l \/ (k - l \in 1 .. n /\ l + (k - l) = k)
    BY <1>0, <2>1 DEF l
  <2>3. \A k \in 1 .. l + n : M[k] \in ToSet(L) \cup ToSet(q)
    <3> TAKE k \in 1 .. l + n
    <3>1. CASE k \in 1 .. l
      BY <2>1, <3>1 DEF l, ToSet
    <3>2. CASE k - l \in 1 .. n /\ l + (k - l) = k
      BY <1>0, <2>1, <3>2, ZenonT(30) DEF l
    <3> QED BY <2>2, <3>1, <3>2
  <2>4. \A k \in 1 .. l : L[k] \in ToSet(M)
    <3> TAKE k \in 1 .. l
    <3>1. k \in 1 .. l + n /\ M[k] = L[k]
      BY <1>0, <2>1 DEF l
    <3> QED BY <2>1, <3>1 DEF l, ToSet
  <2>5. \A k \in 1 .. n : q[k] \in ToSet(M)
    <3> TAKE k \in 1 .. n
    <3>1. l + k \in 1 .. l + n /\ M[l + k] = q[k]
      BY <1>0, <2>1 DEF l
    <3> QED BY <2>1, <3>1 DEF l, ToSet
  <2>6. ToSet(M) = ToSet(L) \cup ToSet(q)
    <3>1. \A y \in ToSet(M) : y \in ToSet(L) \cup ToSet(q)
      BY <2>1, <2>3 DEF l, ToSet
    <3>2. \A y \in ToSet(L) : y \in ToSet(M)
      BY <2>1, <2>4 DEF l, ToSet
    <3>3. \A y \in ToSet(q) : y \in ToSet(M)
      BY <1>0, <2>5
    <3> QED BY <3>1, <3>2, <3>3
  <2> QED BY <1>0, <2>1, <2>6
<1>2. L # <<>> => C = ToSet(L)
  BY DEF Grown
<1>3. L = <<>> => ToSet(L) = {}
  BY DEF ToSet
<1> HIDE DEF M, n
<1>4. \A y, z \in ToSet(q) : y = z \/ WithinRange(y, z) \/ WithinRange(z, y)
  <2> TAKE y, z \in ToSet(q)
  <2>1. PICK i \in 1 .. n, j \in 1 .. n : q[i] = y /\ q[j] = z
    BY <1>0
  <2>2. i < j \/ j < i \/ i = j
    BY <1>0
  <2> QED BY <1>0, <2>1, <2>2
<1>5. \A y, z \in C : y = z \/ WithinRange(y, z) \/ WithinRange(z, y)
  <2>1. CASE L = <<>>
    BY <1>0, <1>3, <1>4, <2>1
  <2>2. CASE L # <<>>
    BY <1>2, <2>2 DEF Grown
  <2> QED BY <2>1, <2>2
<1>6. \A z \in C : {y \in C : WithinRange(y, z)} = Above(z)
  <2>1. CASE L # <<>>
    BY <1>2, <2>1 DEF Grown
  <2>2. CASE L = <<>>
    <3>1. C = {x} \cup Above(x)
      BY <1>3, <2>2
    <3>2. \A z \in Above(x) : {y \in C : WithinRange(y, z)} = Above(z)
      BY <3>1, AboveAbove
    <3>3. {y \in C : WithinRange(y, x)} = Above(x)
      <4>1. \A y \in Above(x) : WithinRange(y, x)
        BY DEF Above
      <4>2. ~WithinRange(x, x)
        BY WithinOrder
      <4> HIDE DEF C
      <4> QED BY <3>1, <4>1, <4>2
    <3> QED BY <3>1, <3>2, <3>3
  <2> QED BY <2>1, <2>2
<1> HIDE DEF C
<1>7. ASSUME NEW z \in C, Above(z) # {}
      PROVE  Least(FindSelectionRange(M, z, TRUE), Above(z))
  <2>1. CASE L # <<>>
    <3>1. Least(FindSelectionRange(L, z, TRUE), Above(z))
      BY <1>2, <1>7, <2>1 DEF Grown
    <3>2. FindSelectionRange(L, z, TRUE) # NoRange
      <4>1. Above(z) \subseteq TextRange
        BY RangeType DEF Above
      <4> QED BY <3>1, <4>1, RangeType DEF Least
    <3>3. FindSelectionRange(M, z, TRUE) = FindSelectionRange(L, z, TRUE)
      BY <1>0, <3>2, FoundInConcat DEF M
    <3> QED BY <3>1, <3>3
  <2>2. CASE L = <<>>
    <3>1. M = q /\ C = ToSet(q)
      BY <1>0, <1>3, <2>2 DEF M, C
    <3>2. \A y \in Above(z) : \E i \in 1 .. n : q[i] = y /\ WithinRange(q[i], z)
      BY <1>0, <1>6, <1>7, <3>1
    <3>3. PICK i \in 1 .. n : /\ FindSelectionRange(q, z, TRUE) = q[i]
                              /\ WithinRange(q[i], z)
                              /\ \A j \in 1 .. i - 1 : ~WithinRange(q[j], z)
      BY <1>0, <1>7, <3>2, FoundExpanding DEF n
    <3>4. q[i] \in Above(z)
      BY <1>0, <1>6, <1>7, <3>1, <3>3
    <3>5. ASSUME NEW y \in Above(z) PROVE y = q[i] \/ WithinRange(y, q[i])
      <4>1. PICK j \in 1 .. n : q[j] = y /\ WithinRange(q[j], z)
        BY <3>2
      <4>2. j = i \/ i < j
        <5>1. ~(j \in 1 .. i - 1)
          BY <3>3, <4>1
        <5> QED BY <1>0, <5>1
      <4> QED BY <1>0, <4>1, <4>2
    <3> QED BY <3>1, <3>3, <3>4, <3>5 DEF Least
  <2> QED BY <2>1, <2>2
<1>8. ASSUME NEW z \in C, Below(M, z) # {}
      PROVE  Greatest(FindSelectionRange(M, z, FALSE), Below(M, z))
  <2>0. Below(M, z) = {y \in C : WithinRange(z, y)}
    BY <1>1 DEF Below
  <2>1. ASSUME NEW i \in 1 .. n, FindSelectionRange(M, z, FALSE) = q[i], WithinRange(z, q[i]),
               \A j \in i + 1 .. n : ~WithinRange(z, q[j])
        PROVE  Greatest(q[i], Below(M, z))
    <3>1. q[i] \in Below(M, z)
      BY <1>0, <2>0, <2>1 DEF C
    <3>2. ASSUME NEW y \in C, WithinRange(z, y) PROVE y = q[i] \/ WithinRange(q[i], y)
      <4>1. CASE y \in ToSet(q)
        <5>1. PICK j \in 1 .. n : q[j] = y
          BY <1>0, <4>1
        <5>2. j = i \/ j < i
          <6>1. ~(j \in i + 1 .. n)
            BY <2>1, <3>2, <5>1
          <6> QED BY <1>0, <6>1
        <5> QED BY <1>0, <5>1, <5>2
      <4>2. CASE y \notin ToSet(q)
        <5>1. x \in C /\ y # x /\ y \notin Above(x)
          BY <1>0, <4>2 DEF C
        <5>2. WithinRange(x, y)
          BY <1>5, <1>6, <5>1
        <5>3. q[i] = x \/ WithinRange(q[i], x)
          <6>1. i = 1 \/ 1 < i
            BY <1>0
          <6> QED BY <1>0, <6>1
        <5>4. q[i] \in TextRange /\ y \in TextRange
          BY <1>0, <3>2 DEF C
        <5> QED BY <5>2, <5>3, <5>4, WithinOrder
      <4> QED BY <4>1, <4>2
    <3> QED BY <2>0, <3>1, <3>2 DEF Greatest
  <2>2. ASSUME \A j \in 1 .. n : ~WithinRange(z, q[j]),
               FindSelectionRange(M, z, FALSE) = FindSelectionRange(L, z, FALSE)
        PROVE  Greatest(FindSelectionRange(M, z, FALSE), Below(M, z))
    <3>1. L # <<>>
      <4>1. \A y \in ToSet(q) : ~WithinRange(z, y)
        BY <1>0, <2>2
      <4> QED BY <1>0, <1>3, <1>8, <2>0, <4>1 DEF C
    <3>2. Below(M, z) = Below(L, z)
      BY <1>1, <1>2, <3>1 DEF Below
    <3> QED BY <1>2, <1>8, <2>2, <3>1, <3>2 DEF Grown
  <2>3. \/ \E i \in 1 .. n :
              /\ FindSelectionRange(M, z, FALSE) = q[i]
              /\ WithinRange(z, q[i])
              /\ \A j \in i + 1 .. n : ~WithinRange(z, q[j])
        \/ /\ \A j \in 1 .. n : ~WithinRange(z, q[j])
           /\ FindSelectionRange(M, z, FALSE) = FindSelectionRange(L, z, FALSE)
    BY <1>0, FoundInConcat DEF M, n
  <2> QED BY <2>1, <2>2, <2>3
<1>9. Grown(M)
  BY <1>1, <1>5, <1>6, <1>7, <1>8 DEF Grown
<1> QED
  BY <1>1, <1>2, <1>9 DEF M, C

\* The way down stays the same.
LEMMA DownStays ==
    ASSUME NEW L \in Seq(TextRange), NEW M \in Seq(TextRange), Grown(L), Grown(M),
           ToSet(M) = ToSet(L), NEW z \in ToSet(L)
    PROVE  FindSelectionRange(M, z, FALSE) = FindSelectionRange(L, z, FALSE)
<1> DEFINE a == FindSelectionRange(L, z, FALSE)
           b == FindSelectionRange(M, z, FALSE)
<1>1. Below(M, z) = Below(L, z) /\ Below(L, z) \subseteq TextRange
  BY FoundFits DEF Below
<1>2. CASE Below(L, z) = {}
  <2>1. a = NoRange /\ b = NoRange
    BY <1>1, <1>2, FoundFits
  <2> QED BY <2>1
<1>3. CASE Below(L, z) # {}
  <2>1. Greatest(a, Below(L, z)) /\ Greatest(b, Below(L, z))
    BY <1>1, <1>3 DEF Grown
  <2> HIDE DEF a, b
  <2>2. /\ a \in TextRange /\ b \in TextRange
        /\ a = b \/ (WithinRange(a, b) /\ WithinRange(b, a))
    BY <1>1, <2>1 DEF Greatest
  <2>3. a = b
    BY <2>2, WithinOrder
  <2> QED BY <2>3 DEF a, b
<1> QED
  BY <1>2, <1>3

-----------------------------------------------------------------------------
(* The way back *)

\* Nothing to go back to, or no way down.
LEMMA TrailEnds ==
    ASSUME NEW L, NEW b \in Seq(TextRange), NEW x,
           b = <<>> \/ FindSelectionRange(L, x, FALSE) = NoRange
    PROVE  Trail(L, b, x)
<1>1. Len(b) \in Nat /\ Len(b) + 1 \in 1 .. Len(b) + 1
  OBVIOUS
<1>2. Way(b, x, Len(b) + 1) = x
  BY DEF Way
<1>3. b = <<>> => Len(b) + 1 = 1
  OBVIOUS
<1>4. \A j \in Len(b) + 1 .. Len(b) : FALSE
  BY <1>1
<1> QED
  BY <1>1, <1>2, <1>3, <1>4 DEF Trail

\* One up: where one down leads back.
LEMMA TrailLonger ==
    ASSUME NEW L, NEW b \in Seq(TextRange), NEW x \in TextRange, NEW y,
           Trail(L, b, x), FindSelectionRange(L, y, FALSE) = x
    PROVE  Trail(L, Append(b, x), y)
<1> DEFINE a == Append(b, x)
           n == Len(b)
<1>1. /\ n \in Nat /\ Len(a) = n + 1
      /\ a[n + 1] = x /\ \A j \in 1 .. n : a[j] = b[j]
  OBVIOUS
<1>2. PICK k \in 1 .. n + 1 :
          /\ \A j \in k .. n : FindSelectionRange(L, Way(b, x, j + 1), FALSE) = b[j]
          /\ k = 1 \/ FindSelectionRange(L, Way(b, x, k), FALSE) = NoRange
  BY DEF Trail
<1> HIDE DEF a, n
<1>3. \A j \in 1 .. n + 1 : Way(a, y, j) = Way(b, x, j)
  BY <1>1 DEF Way, n
<1>4. Way(a, y, n + 2) = y
  BY <1>1 DEF Way
<1>5. ASSUME NEW j \in k .. n + 1
      PROVE  FindSelectionRange(L, Way(a, y, j + 1), FALSE) = a[j]
  <2>1. CASE j = n + 1
    <3>1. j + 1 = n + 2
      BY <1>1, <2>1
    <3> QED BY <1>1, <1>4, <2>1, <3>1
  <2>2. CASE j # n + 1
    <3>1. j \in k .. n /\ j \in 1 .. n /\ j + 1 \in 1 .. n + 1
      BY <1>1, <2>2
    <3> QED BY <1>1, <1>2, <1>3, <3>1
  <2> QED BY <2>1, <2>2
<1>6. k \in 1 .. Len(a) + 1
  BY <1>1
<1>7. k = 1 \/ FindSelectionRange(L, Way(a, y, k), FALSE) = NoRange
  BY <1>2, <1>3
<1> QED
  BY <1>1, <1>5, <1>6, <1>7 DEF Trail, a

\* One down: along the way that was expanded.
LEMMA TrailShorter ==
    ASSUME NEW L, NEW b \in Seq(TextRange), b # <<>>, NEW x, Trail(L, b, x),
           FindSelectionRange(L, x, FALSE) # NoRange
    PROVE  /\ FindSelectionRange(L, x, FALSE) = Last(b)
           /\ Front(b) \in Seq(TextRange)
           /\ Trail(L, Front(b), Last(b))
<1> DEFINE a == Front(b)
           n == Len(b)
           y == b[n]
<1>1. /\ n \in Nat \ {0} /\ a \in Seq(TextRange) /\ Len(a) = n - 1
      /\ \A j \in 1 .. n - 1 : a[j] = b[j]
      /\ Last(b) = y
  <2>1. Len(b) \in Nat /\ Len(b) # 0
    OBVIOUS
  <2>2. Last(b) = y
    BY DEF Last
  <2> DEFINE q == SubSeq(b, 1, Len(b) - 1)
  <2>3. /\ q \in Seq(TextRange) /\ Len(q) = Len(b) - 1
        /\ \A j \in 1 .. Len(b) - 1 : q[j] = b[j]
    <3>1. ASSUME NEW k \in 1 .. Len(b)
          PROVE  /\ SubSeq(b, 1, k - 1) \in Seq(TextRange) /\ Len(SubSeq(b, 1, k - 1)) = k - 1
                 /\ \A j \in 1 .. k - 1 : SubSeq(b, 1, k - 1)[j] = b[j]
      OBVIOUS
    <3>2. Len(b) \in 1 .. Len(b)
      BY <2>1
    <3> QED BY <3>1, <3>2
  <2>4. a = q
    BY DEF Front
  <2> HIDE DEF q, a, y
  <2> QED BY <2>1, <2>2, <2>3, <2>4
<1>2. PICK k \in 1 .. n + 1 :
          /\ \A j \in k .. n : FindSelectionRange(L, Way(b, x, j + 1), FALSE) = b[j]
          /\ k = 1 \/ FindSelectionRange(L, Way(b, x, k), FALSE) = NoRange
  BY DEF Trail
<1>3. Way(b, x, n + 1) = x
  BY DEF Way
<1> HIDE DEF a, n
<1>4. k \in 1 .. n
  <2>1. ASSUME k = n + 1 PROVE FALSE
    <3>0. k # 1
      BY <1>1, <2>1
    <3>1. FindSelectionRange(L, Way(b, x, n + 1), FALSE) = NoRange
      <4>1. FindSelectionRange(L, Way(b, x, k), FALSE) = NoRange
        BY <1>2, <3>0
      <4> QED BY <2>1, <4>1
    <3> QED BY <1>3, <3>1
  <2> QED BY <1>1, <2>1
<1>5. FindSelectionRange(L, x, FALSE) = y
  <2>1. n \in k .. n
    BY <1>1, <1>4
  <2> QED BY <1>2, <1>3, <2>1
<1>6. \A j \in 1 .. n : Way(a, y, j) = Way(b, x, j)
  BY <1>1 DEF Way, n
<1>7. ASSUME NEW j \in k .. n - 1
      PROVE  FindSelectionRange(L, Way(a, y, j + 1), FALSE) = a[j]
  <2>1. j \in k .. n /\ j \in 1 .. n - 1 /\ j + 1 \in 1 .. n
    BY <1>1, <1>4
  <2> QED BY <1>1, <1>2, <1>6, <2>1
<1>8. k \in 1 .. Len(a) + 1
  BY <1>1, <1>4
<1>9. k = 1 \/ FindSelectionRange(L, Way(a, y, k), FALSE) = NoRange
  BY <1>2, <1>4, <1>6
<1> HIDE DEF y
<1>10. Trail(L, a, y)
  BY <1>1, <1>7, <1>8, <1>9 DEF Trail
<1> QED
  BY <1>1, <1>5, <1>10 DEF a

\* The way back stays when the list grows.
LEMMA TrailStays ==
    ASSUME NEW L \in Seq(TextRange), NEW M, NEW b \in Seq(TextRange), NEW x \in ToSet(L),
           Trail(L, b, x),
           \A z \in ToSet(L) : FindSelectionRange(M, z, FALSE) = FindSelectionRange(L, z, FALSE)
    PROVE  Trail(M, b, x)
<1> DEFINE n == Len(b)
<1>1. n \in Nat /\ \A j \in 1 .. n : b[j] \in TextRange
  OBVIOUS
<1>2. PICK k \in 1 .. n + 1 :
          /\ \A j \in k .. n : FindSelectionRange(L, Way(b, x, j + 1), FALSE) = b[j]
          /\ k = 1 \/ FindSelectionRange(L, Way(b, x, k), FALSE) = NoRange
  BY DEF Trail
<1>3. ASSUME NEW j \in k .. n + 1 PROVE Way(b, x, j) \in ToSet(L)
  <2>1. CASE j = n + 1
    BY <2>1 DEF Way
  <2>2. CASE j # n + 1
    <3>1. j \in k .. n /\ j \in 1 .. n
      BY <1>1, <2>2
    <3>2. FindSelectionRange(L, Way(b, x, j + 1), FALSE) = b[j] /\ b[j] # NoRange
      BY <1>1, <1>2, <3>1, RangeType
    <3> DEFINE z == Way(b, x, j + 1)
    <3> HIDE DEF z
    <3>3. FindSelectionRange(L, z, FALSE) # NoRange => FindSelectionRange(L, z, FALSE) \in ToSet(L)
      BY FoundFits DEF Below
    <3>4. b[j] \in ToSet(L)
      BY <3>2, <3>3 DEF z
    <3> QED BY <2>2, <3>4 DEF Way
  <2> QED BY <2>1, <2>2
<1> HIDE DEF n
<1>4. ASSUME NEW j \in k .. n
      PROVE  FindSelectionRange(M, Way(b, x, j + 1), FALSE) = b[j]
  <2>1. j + 1 \in k .. n + 1
    BY <1>1
  <2> QED BY <1>2, <1>3, <2>1
<1>5. k = 1 \/ FindSelectionRange(M, Way(b, x, k), FALSE) = NoRange
  <2>1. k \in k .. n + 1
    BY <1>1
  <2> QED BY <1>2, <1>3, <2>1
<1> QED
  BY <1>4, <1>5 DEF Trail, n

-----------------------------------------------------------------------------
(* Selecting *)

\* What SCN_UPDATEUI leaves of the record.
LEMMA SelectedKept ==
    ASSUME NEW s \in SelectionRecord, NEW d \in Doc, NEW range \in TextRange
    PROVE  LET t == Selected(s, d, range)
           IN  /\ t \in SelectionRecord
               /\ t.sel[d] = range /\ \A e \in Doc \ {d} : t.sel[e] = s.sel[e]
               /\ t.back = s.back /\ t.mixed = s.mixed
               /\ t.list = s.list \/ t.list = NULL
<1> DEFINE u == [s EXCEPT !.sel[d] = range]
           v == SelectionsCleared(u)
<1>1. /\ u \in SelectionRecord
      /\ u.sel[d] = range /\ \A e \in Doc \ {d} : u.sel[e] = s.sel[e]
      /\ u.back = s.back /\ u.mixed = s.mixed /\ u.list = s.list
  BY DEF SelectionRecord
<1> HIDE DEF u
<1>2. /\ v \in SelectionRecord
      /\ v.sel = u.sel /\ v.back = u.back /\ v.mixed = u.mixed /\ v.list = NULL
  BY <1>1 DEF SelectionRecord, SelectionsCleared
<1> HIDE DEF v
<1>3. Selected(s, d, range) = u \/ Selected(s, d, range) = v
  BY DEF Selected, u, v
<1> QED
  BY <1>1, <1>2, <1>3

\* The history of what was expanded.
History(s, d, expand) ==
    IF expand THEN (IF Contains(s.list, s.sel[d]) THEN Append(s.back, s.sel[d]) ELSE <<>>)
    ELSE IF s.back = <<>> THEN <<>> ELSE Front(s.back)

\* find_and_select(): nothing is found, or what is found is selected and the history is kept.
LEMMA FindAndSelectCases ==
    ASSUME NEW s \in SelectionRecord, s.list \in Seq(TextRange), NEW d \in Doc,
           NEW expand \in BOOLEAN
    PROVE  LET t == FindAndSelect(s, d, expand)
               range == FindSelectionRange(s.list, s.sel[d], expand)
           IN  /\ t \in SelectionRecord /\ t.mixed = s.mixed
               /\ \/ range = NoRange /\ t = s
                  \/ /\ range # NoRange /\ range \in ToSet(s.list) /\ range \in TextRange
                     /\ t.sel[d] = range
                     /\ d = current => t.back = History(s, d, expand)
                     /\ t.list = s.list \/ t.list = NULL
               /\ \A e \in Doc \ {d} : t.sel[e] = s.sel[e]
<1> DEFINE t == FindAndSelect(s, d, expand)
           range == FindSelectionRange(s.list, s.sel[d], expand)
           b == History(s, d, expand)
           u == [s EXCEPT !.back = b]
           w == IF d = current THEN u ELSE s
<1>1. /\ s.sel[d] \in TextRange /\ s.back \in Seq(TextRange)
  BY DEF SelectionRecord
<1>2. b \in Seq(TextRange)
  <2>1. s.back # <<>> => Front(s.back) \in Seq(TextRange)
    <3> DEFINE f == s.back
    <3>1. f \in Seq(TextRange)
      BY <1>1
    <3> HIDE DEF f
    <3>2. f # <<>> => Front(f) \in Seq(TextRange)
      BY <3>1 DEF Front
    <3> QED BY <3>2 DEF f
  <2>2. Append(s.back, s.sel[d]) \in Seq(TextRange)
    BY <1>1
  <2>3. <<>> \in Seq(TextRange)
    OBVIOUS
  <2> QED BY <2>1, <2>2, <2>3 DEF History
<1>3. range = NoRange \/ (range \in ToSet(s.list) /\ range \in TextRange)
  <2> DEFINE L == s.list
             x == s.sel[d]
  <2>1. L \in Seq(TextRange)
    OBVIOUS
  <2> HIDE DEF L, x
  <2>2. /\ FindSelectionRange(L, x, TRUE) # NoRange => FindSelectionRange(L, x, TRUE) \in ToSet(L)
        /\ FindSelectionRange(L, x, FALSE) # NoRange => FindSelectionRange(L, x, FALSE) \in ToSet(L)
        /\ ToSet(L) \subseteq TextRange
    BY <2>1, FoundFits DEF Below
  <2>3. expand = TRUE \/ expand = FALSE
    OBVIOUS
  <2>4. FindSelectionRange(L, x, expand) # NoRange => FindSelectionRange(L, x, expand) \in ToSet(L)
    BY <2>2, <2>3
  <2> QED BY <2>2, <2>4 DEF L, x
<1>4. t = IF range = NoRange THEN s ELSE Selected(w, d, range)
  BY DEF FindAndSelect, History
<1> HIDE DEF t, range, b
<1>5. /\ u \in SelectionRecord /\ u.back = b /\ u.sel = s.sel /\ u.list = s.list
      /\ u.mixed = s.mixed
  BY <1>2 DEF SelectionRecord
<1> HIDE DEF u
<1>6. /\ w \in SelectionRecord /\ w.sel = s.sel /\ w.list = s.list /\ w.mixed = s.mixed
      /\ d = current => w.back = b
  BY <1>5
<1> HIDE DEF w
<1>7. CASE range = NoRange
  BY <1>4, <1>7 DEF t, range
<1>8. CASE range # NoRange
  <2>1. t = Selected(w, d, range) /\ range \in TextRange /\ range \in ToSet(s.list)
    BY <1>3, <1>4, <1>8
  <2>2. /\ t \in SelectionRecord
        /\ t.sel[d] = range /\ \A e \in Doc \ {d} : t.sel[e] = w.sel[e]
        /\ t.back = w.back /\ t.mixed = w.mixed
        /\ t.list = w.list \/ t.list = NULL
    BY <1>6, <2>1, SelectedKept
  <2> QED BY <1>6, <1>8, <2>1, <2>2 DEF t, range, b
<1> QED
  BY <1>7, <1>8

\* Expanding and shrinking keep to the way.
LEMMA FindAndSelectKept ==
    ASSUME NEW s \in SelectionRecord, s.list \in Seq(TextRange), current \in Doc,
           NEW expand \in BOOLEAN, NEW P, Retraceable(s, current, P),
           \A p \in P : Covers(s.sel[current], p)
    PROVE  LET t == FindAndSelect(s, current, expand)
           IN  /\ Retraces(t, current, P)
               /\ ~expand /\ s.back # <<>> /\ t.sel[current] # s.sel[current]
                     => t.sel[current] = Last(s.back)
<1> DEFINE t == FindAndSelect(s, current, expand)
           L == s.list
           b == s.back
           x == s.sel[current]
           y == FindSelectionRange(L, x, expand)
<1>1. /\ t \in SelectionRecord
      /\ \/ y = NoRange /\ t = s
         \/ /\ y # NoRange /\ y \in ToSet(L) /\ y \in TextRange
            /\ t.sel[current] = y
            /\ t.back = History(s, current, expand)
            /\ t.list = L \/ t.list = NULL
  BY FindAndSelectCases
<1>2. /\ L \in Seq(TextRange) /\ b \in Seq(TextRange) /\ x \in TextRange
      /\ Grown(L) /\ Trail(L, b, x)
      /\ \A p \in P : \A z \in ToSet(L) : Covers(z, p)
  BY DEF SelectionRecord, Retraceable
<1>3. CASE y = NoRange
  <2>1. t = s
    BY <1>1, <1>3
  <2>2. Retraces(s, current, P)
    BY DEF Retraces
  <2> QED BY <2>1, <2>2
<1>4. CASE y # NoRange
  <2>1. /\ y \in ToSet(L) /\ y \in TextRange
        /\ t.sel[current] = y
        /\ t.back = History(s, current, expand)
        /\ t.list = L \/ t.list = NULL
    BY <1>1, <1>4
  <2> HIDE DEF t
  <2>2. ASSUME expand, x \in ToSet(L) PROVE Trail(L, t.back, y)
    <3>1. expand = TRUE
      BY <2>2
    <3>2. FindSelectionRange(L, y, FALSE) = x
      BY <1>2, <1>4, <2>2, <3>1, UpAndDown
    <3>3. Contains(L, x)
      BY <1>2, <2>2 DEF Contains, ToSet
    <3>4. t.back = Append(b, x)
      BY <2>1, <2>2, <3>3 DEF History
    <3> HIDE DEF L, b, x, y
    <3> QED BY <1>2, <3>2, <3>4, TrailLonger
  <2>3. ASSUME expand, x \notin ToSet(L) PROVE Trail(L, t.back, y)
    <3>1. ~Contains(L, x)
      BY <1>2, <2>3 DEF Contains, ToSet
    <3>2. t.back = <<>> /\ <<>> \in Seq(TextRange)
      BY <2>1, <2>3, <3>1 DEF History
    <3> HIDE DEF L, b, x, y
    <3> QED BY <3>2, TrailEnds
  <2>4. ASSUME ~expand, b = <<>> PROVE Trail(L, t.back, y)
    <3>1. t.back = <<>> /\ <<>> \in Seq(TextRange)
      BY <2>1, <2>4 DEF History
    <3> HIDE DEF L, b, x, y
    <3> QED BY <3>1, TrailEnds
  <2>5. ASSUME ~expand, b # <<>> PROVE Trail(L, t.back, y) /\ y = Last(b)
    <3>1. t.back = Front(b)
      BY <2>1, <2>5 DEF History
    <3>2. y = FindSelectionRange(L, x, FALSE)
      <4>1. expand = FALSE
        BY <2>5
      <4> QED BY <4>1
    <3> HIDE DEF L, b, x, y
    <3>3. y = Last(b) /\ Trail(L, Front(b), Last(b))
      BY <1>2, <1>4, <2>5, <3>2, TrailShorter
    <3> QED BY <3>1, <3>3
  <2>6. Trail(L, t.back, y)
    BY <2>2, <2>3, <2>4, <2>5
  <2> HIDE DEF L, b, x, y
  <2>7. Retraces(t, current, P)
    <3>1. \A p \in P : Covers(t.sel[current], p)
      BY <1>2, <2>1
    <3>2. ASSUME t.list # NULL PROVE Retraceable(t, current, P)
      <4>1. t.list = L
        BY <2>1, <3>2
      <4> QED BY <1>2, <2>1, <2>6, <4>1 DEF Retraceable
    <3> QED BY <3>1, <3>2 DEF Retraces
  <2>8. ~expand /\ b # <<>> => t.sel[current] = Last(b)
    BY <2>1, <2>5
  <2> QED BY <2>7, <2>8 DEF t, b
<1> QED
  BY <1>3, <1>4

\* parse_selection() makes a list of ranges.
LEMMA ParsedType ==
    ASSUME NEW p, NEW x, NEW parsed \in Parsed(p, x)
    PROVE  parsed \in Seq(TextRange)
<1> DEFINE A == {r \in Syntax : r[1] <= p /\ p < r[2] /\ WithinRange(r, x)}
           n == Cardinality(A)
<1>1. A \subseteq Syntax /\ IsFiniteSet(Syntax) /\ A \subseteq TextRange
  BY SyntaxAssumption, RangeType
<1>2. parsed \in [1 .. n -> A]
  BY DEF Parsed
<1> HIDE DEF A
<1>3. n \in Nat
  BY <1>1, FS_Subset, FS_CardinalityType
<1> HIDE DEF n
<1> QED BY <1>1, <1>2, <1>3

\* An answer comes: the list goes on from what is selected.
LEMMA AnsweredKept ==
    ASSUME NEW s \in SelectionRecord, s.list # NULL, current \in Doc, NEW P \in SUBSET Nat,
           Retraces(s, current, P), NEW p \in P, NEW parsed \in Parsed(p, s.sel[current]),
           NEW M, M = s.list \o <<s.sel[current]>> \o parsed
    PROVE  /\ [s EXCEPT !.list = M] \in SelectionRecord
           /\ M \in Seq(TextRange)
           /\ Retraceable([s EXCEPT !.list = M], current, P)
<1> DEFINE L == s.list
           x == s.sel[current]
           q == <<x>> \o parsed
           t == [s EXCEPT !.list = M]
<1>1. /\ L \in Seq(TextRange) /\ x \in TextRange /\ s.back \in Seq(TextRange)
      /\ Retraceable(s, current, P) /\ \A r \in P : Covers(x, r)
  BY DEF SelectionRecord, Retraces
<1>2. Climbs(q, x)
  BY <1>1, ParsedClimbs
<1>3. parsed \in Seq(TextRange)
  BY ParsedType
<1>4. M = L \o q
  <2>1. <<x>> \in Seq(TextRange) /\ M = (L \o <<x>>) \o parsed
    BY <1>1
  <2>2. \A a, b, c \in Seq(TextRange) : (a \o b) \o c = a \o (b \o c)
    BY ConcatAssociative
  <2> DEFINE X == <<x>>
  <2>3. L \in Seq(TextRange) /\ X \in Seq(TextRange) /\ parsed \in Seq(TextRange)
    BY <1>1, <1>3, <2>1
  <2> HIDE DEF L, x, X
  <2>4. (L \o X) \o parsed = L \o (X \o parsed)
    BY <2>2, <2>3
  <2> QED BY <2>1, <2>4 DEF X
<1>5. L = <<>> \/ (Grown(L) /\ x \in ToSet(L))
  BY <1>1 DEF Retraceable
<1> HIDE DEF L, x, q
<1>6. /\ M \in Seq(TextRange)
      /\ ToSet(M) = ToSet(L) \cup {x} \cup Above(x)
      /\ L # <<>> => ToSet(M) = ToSet(L)
      /\ Grown(M)
  <2> DEFINE N == L \o q
  <2>1. /\ N \in Seq(TextRange)
        /\ ToSet(N) = ToSet(L) \cup {x} \cup Above(x)
        /\ L # <<>> => ToSet(N) = ToSet(L)
        /\ Grown(N)
    BY <1>1, <1>2, <1>5, ListGrows
  <2> HIDE DEF N
  <2>2. M = N
    BY <1>4 DEF N
  <2> QED BY <2>1, <2>2
<1>7. /\ t \in SelectionRecord
      /\ t.list = M /\ t.sel = s.sel /\ t.back = s.back
  BY <1>6 DEF SelectionRecord
<1>8. Trail(M, s.back, x)
  <2>1. CASE L = <<>>
    <3>1. ToSet(M) = {x} \cup Above(x)
      <4>1. ToSet(<<>>) = {}
        BY DEF ToSet
      <4> QED BY <1>6, <2>1, <4>1
    <3>2. Below(M, x) = {}
      <4>1. \A y \in Above(x) : y \in TextRange /\ WithinRange(y, x)
        BY RangeType DEF Above
      <4>2. \A y \in {x} \cup Above(x) : ~WithinRange(x, y)
        BY <1>1, <4>1, WithinOrder
      <4> QED BY <3>1, <4>2 DEF Below
    <3>3. FindSelectionRange(M, x, FALSE) = NoRange
      BY <1>6, <3>2, FoundFits
    <3> QED BY <1>1, <3>3, TrailEnds
  <2>2. CASE L # <<>>
    <3>1. Grown(L) /\ x \in ToSet(L) /\ ToSet(M) = ToSet(L)
      BY <1>5, <1>6, <2>2
    <3>2. \A z \in ToSet(L) : FindSelectionRange(M, z, FALSE) = FindSelectionRange(L, z, FALSE)
      BY <1>1, <1>6, <3>1, DownStays
    <3>3. Trail(L, s.back, x)
      BY <1>1 DEF Retraceable, L, x
    <3> QED BY <1>1, <3>1, <3>2, <3>3, TrailStays
  <2> QED BY <2>1, <2>2
<1>9. ASSUME NEW r \in P, NEW z \in ToSet(M) PROVE Covers(z, r)
  <2>1. CASE z \in ToSet(L)
    BY <1>1, <2>1 DEF Retraceable, L
  <2>2. CASE z = x
    BY <1>1, <2>2
  <2>3. CASE z \in Above(x)
    <3>1. Covers(x, r) /\ r \in Nat
      BY <1>1, <1>9
    <3>2. z[1] <= x[1] /\ x[1] < z[2] /\ WithinRange(z, x) /\ z \in TextRange
      BY <2>3, RangeType DEF Above
    <3> QED BY <1>1, <3>1, <3>2, RangeType DEF Covers, WithinRange
  <2> QED BY <1>6, <1>9, <2>1, <2>2, <2>3
<1>10. x \in ToSet(M)
  BY <1>6
<1> HIDE DEF t
<1>11. Retraceable(t, current, P)
  BY <1>6, <1>7, <1>8, <1>9, <1>10 DEF Retraceable, x
<1> QED
  BY <1>6, <1>7, <1>11 DEF t

\* Fewer places are waited for.
LEMMA RetracesFewer ==
    ASSUME NEW s, NEW d, NEW P, NEW Q \in SUBSET P, Retraces(s, d, P)
    PROVE  Retraces(s, d, Q)
BY DEF Retraces, Retraceable

\* A list that was just asked for.
LEMMA RetracesAsked ==
    ASSUME NEW s \in SelectionRecord, s.list = <<>> \/ s.list = NULL, NEW d \in Doc, NEW P,
           \A p \in P : Covers(s.sel[d], p)
    PROVE  Retraces(s, d, P)
<1>1. CASE s.list = NULL
  BY <1>1 DEF Retraces
<1>2. CASE s.list = <<>>
  <2>1. ToSet(<<>>) = {} /\ <<>> \in Seq(TextRange)
    BY DEF ToSet
  <2>2. Grown(<<>>)
    BY <2>1 DEF Grown
  <2>3. FindSelectionRange(<<>>, s.sel[d], FALSE) = NoRange
    BY <2>1, FoundFits DEF Below
  <2>4. Trail(<<>>, s.back, s.sel[d])
    BY <2>3, TrailEnds DEF SelectionRecord
  <2> QED BY <1>2, <2>1, <2>2, <2>4 DEF Retraces, Retraceable
<1> QED
  BY <1>1, <1>2

-----------------------------------------------------------------------------
(* The invariant, step by step *)

\* No step but that of the user asks for ranges.
NoneAsked == \A c \in ToSet(calls') : c \in ToSet(calls) \/ c.method # "selection"

\* A call that waits is one that was asked for a document.
LEMMA WaitingAsked ==
    ASSUME AskedInv, NEW c \in SelectionCall
    PROVE  Asked /\ c.doc \in Doc
<1>1. /\ calls \in Seq(ToSet(calls)) /\ DOMAIN calls = 1 .. Len(calls)
      /\ c.doc \in Doc /\ c.method = "selection" /\ c \in ToSet(calls)
  BY DEF AskedInv, CallsInv, GoodCall, SelectionCall
<1>2. PICK i \in 1 .. Len(calls) : calls[i] = c
  BY <1>1 DEF ToSet
<1>3. Matches(calls[i], "selection", c.doc)
  BY <1>1, <1>2 DEF Matches
<1>4. LastCalls(calls, "selection", c.doc) # {}
  BY <1>1, <1>3, SomeWaits
<1>5. Pending("selection", c.doc)
  BY <1>4, PendingIsLast DEF AskedInv
<1> QED
  BY <1>1, <1>5 DEF Asked

\* Without a new call there are no new places.
LEMMA CallsFewer ==
    ASSUME NoneAsked
    PROVE  /\ SelectionCall' \subseteq SelectionCall
           /\ Places' \subseteq Places
BY DEF NoneAsked, SelectionCall, Places

\* The selection stays, or the list is cleared.
LEMMA SelectionStays ==
    ASSUME SelectionInv, NoneAsked, UNCHANGED current,
           selection' = selection \/ selection' = SelectionsCleared(selection)
    PROVE  SelectionInv'
<1>1. SelectionCall' \subseteq SelectionCall /\ Places' \subseteq Places
  BY CallsFewer
<1>2. /\ selection' \in SelectionRecord
      /\ selection'.sel = selection.sel /\ selection'.back = selection.back
      /\ selection'.mixed = selection.mixed
      /\ selection'.list = selection.list \/ selection'.list = NULL
  BY DEF SelectionInv, SelectionRecord, SelectionsCleared
<1>3. ASSUME ~selection.mixed, current # NULL
      PROVE  Retraces(selection', current, Places')
  <2>1. Retraces(selection, current, Places')
    BY <1>1, <1>3, RetracesFewer DEF SelectionInv
  <2> QED BY <1>2, <2>1 DEF Retraces, Retraceable
<1> QED
  BY <1>1, <1>2, <1>3 DEF SelectionInv

\* The user goes elsewhere.
LEMMA WentKept ==
    ASSUME AskedInv, SelectionInv, NoneAsked, NEW s \in SelectionRecord,
           s.mixed = selection.mixed, s.list = selection.list \/ s.list = NULL,
           selection' = WentElsewhere(s)
    PROVE  SelectionInv'
<1>1. SelectionCall' \subseteq SelectionCall /\ Places' \subseteq Places
  BY CallsFewer
<1>2. /\ selection' \in SelectionRecord
      /\ selection'.sel = s.sel /\ selection'.back = <<>>
      /\ selection'.list = s.list
      /\ selection'.mixed <=> s.mixed \/ Asked
  <2>1. Asked \in BOOLEAN /\ <<>> \in Seq(TextRange)
    BY DEF Asked
  <2> QED BY <2>1 DEF SelectionRecord, WentElsewhere
<1>3. \A c \in SelectionCall' : c.arg.pos \in Nat /\ c.arg.expand \in BOOLEAN
  BY <1>1 DEF SelectionInv
<1>4. ASSUME ~selection'.mixed
      PROVE  /\ \A c \in SelectionCall' : c.doc = current'
             /\ selection'.list # NULL => Grown(selection'.list)
             /\ Retraces(selection', current', Places')
  <2>1. ~selection.mixed /\ ~Asked
    BY <1>2, <1>4
  <2>2. SelectionCall' = {} /\ Places' = {}
    <3>1. SelectionCall = {}
      BY <2>1, WaitingAsked
    <3> QED BY <1>1, <3>1 DEF Places
  <2>3. selection'.list # NULL => Grown(selection'.list)
    BY <1>2, <2>1 DEF SelectionInv
  <2>4. Trail(selection'.list, <<>>, selection'.sel[current'])
    <3>1. <<>> \in Seq(TextRange)
      OBVIOUS
    <3> QED BY <3>1, TrailEnds
  <2>5. Retraces(selection', current', Places')
    BY <1>2, <2>2, <2>3, <2>4 DEF Retraces, Retraceable
  <2> QED BY <2>2, <2>3, <2>5
<1> QED
  BY <1>2, <1>3, <1>4 DEF SelectionInv

\* Another document is shown, or the same one again.
LEMMA SelectionShownKept ==
    ASSUME AskedInv, SelectionInv, NoneAsked, NEW d, NEW running \in BOOLEAN,
           current' = d, selection' = SelectionShown(d, running)
    PROVE  SelectionInv'
<1> DEFINE s == IF running THEN SelectionsCleared(selection) ELSE selection
<1>1. s = selection \/ s = SelectionsCleared(selection)
  OBVIOUS
<1>2. CASE d = current
  <2>1. selection' = s
    BY <1>2 DEF SelectionShown
  <2> QED BY <1>1, <1>2, <2>1, SelectionStays
<1>3. CASE d # current
  <2>1. selection' = WentElsewhere(s)
    BY <1>3 DEF SelectionShown
  <2>2. s \in SelectionRecord /\ s.mixed = selection.mixed /\ (s.list = selection.list \/ s.list = NULL)
    BY <1>1 DEF SelectionInv, SelectionRecord, SelectionsCleared
  <2> HIDE DEF s
  <2> QED BY <2>1, <2>2, WentKept
<1> QED
  BY <1>2, <1>3

\* The user selects, in the current document.
LEMMA SelectsKept ==
    ASSUME AskedInv, SelectionInv, NoneAsked, current \in Doc, NEW range \in TextRange,
           selection' = WentElsewhere(Selected(selection, current, range))
    PROVE  SelectionInv'
<1> DEFINE s == Selected(selection, current, range)
<1>1. /\ s \in SelectionRecord /\ s.mixed = selection.mixed
      /\ s.list = selection.list \/ s.list = NULL
  BY SelectedKept DEF SelectionInv
<1> HIDE DEF s
<1> QED
  BY <1>1, WentKept DEF s

\* A character is typed in a document.
LEMMA SelectionTypedKept ==
    ASSUME AskedInv, SelectionInv, NoneAsked, NEW d \in Doc, UNCHANGED current,
           selection' = SelectionTyped(selection, d)
    PROVE  SelectionInv'
<1>1. CASE d # current
  <2>1. selection' = selection
    BY <1>1 DEF SelectionTyped
  <2> QED BY <2>1, SelectionStays
<1>2. CASE d = current
  <2> DEFINE range == <<selection.sel[d][1], selection.sel[d][1]>>
  <2>1. range \in TextRange
    <3>1. selection.sel[d] \in TextRange
      BY DEF SelectionInv, SelectionRecord
    <3>2. selection.sel[d][1] \in Position /\ selection.sel[d][1] <= selection.sel[d][1]
      BY <3>1, RangeType DEF TextRange
    <3> QED BY <3>2 DEF TextRange
  <2>2. selection' = WentElsewhere(Selected(selection, current, range))
    BY <1>2 DEF SelectionTyped
  <2> HIDE DEF range
  <2> QED BY <1>2, <2>1, <2>2, SelectsKept
<1> QED
  BY <1>1, <1>2

\* A document is closed.
LEMMA SelectionClosedKept ==
    ASSUME AskedInv, SelectionInv, UNCHANGED calls, NEW d \in Doc,
           d # current => UNCHANGED current,
           selection' = SelectionClosed(selection, d)
    PROVE  SelectionInv'
<1> DEFINE s == [selection EXCEPT !.sel[d] = Unselected]
<1>1. Unselected \in TextRange
  <2>1. PICK r \in Syntax : TRUE
    BY SyntaxAssumption
  <2>2. r[1] \in Position
    BY DEF Position
  <2>3. \A p \in Position : p \in Nat
    BY SyntaxAssumption DEF Position
  <2> DEFINE c == CHOOSE p \in Position : TRUE
  <2>4. c \in Position
    BY <2>2
  <2> HIDE DEF c
  <2>5. <<c, c>> \in TextRange
    BY <2>3, <2>4 DEF TextRange
  <2> QED BY <2>5 DEF Unselected, c
<1>2. /\ s \in SelectionRecord /\ s.mixed = selection.mixed /\ s.list = selection.list
      /\ s.back = selection.back /\ \A e \in Doc \ {d} : s.sel[e] = selection.sel[e]
  BY <1>1 DEF SelectionInv, SelectionRecord
<1>3. NoneAsked
  BY DEF NoneAsked
<1>4. CASE d = current
  <2>1. selection' = WentElsewhere(s)
    BY <1>4 DEF SelectionClosed
  <2> HIDE DEF s
  <2> QED BY <1>2, <1>3, <2>1, WentKept
<1>5. CASE d # current
  <2>1. selection' = s /\ current' = current
    BY <1>5 DEF SelectionClosed
  <2> HIDE DEF s
  <2>2. SelectionCall' = SelectionCall /\ Places' = Places
    BY DEF SelectionCall, Places
  <2>3. ASSUME ~selection.mixed, current # NULL
        PROVE  Retraces(selection', current, Places)
    <3>1. current \in Doc
      BY <2>3 DEF AskedInv, IInv, DocumentsInv
    <3>2. selection'.sel[current] = selection.sel[current]
      BY <1>2, <1>5, <2>1, <3>1
    <3>3. Retraces(selection, current, Places)
      BY <2>3 DEF SelectionInv
    <3> QED BY <1>2, <2>1, <3>2, <3>3 DEF Retraces, Retraceable
  <2> QED BY <1>2, <2>1, <2>2, <2>3 DEF SelectionInv
<1> QED
  BY <1>4, <1>5

\* What shrinking does: it goes back to what was expanded last.
GoesBack ==
    current # NULL /\ selection.back # <<>> /\ selection'.sel[current] # selection.sel[current]
       /\ ~selection.mixed => selection'.sel[current] = Last(selection.back)

\* Expanding and shrinking in the list.
LEMMA SelectedInList ==
    ASSUME SelectionInv, UNCHANGED current, NoneAsked, NEW d \in Doc, NEW expand \in BOOLEAN,
           NEW s \in SelectionRecord, s.list \in Seq(TextRange),
           s.sel = selection.sel, s.back = selection.back, s.mixed = selection.mixed,
           ~selection.mixed =>
               /\ d = current
               /\ \A p \in Places : Covers(s.sel[d], p)
               /\ Retraceable(s, d, Places),
           selection' = FindAndSelect(s, d, expand)
    PROVE  SelectionInv' /\ (~expand => GoesBack)
<1>1. SelectionCall' \subseteq SelectionCall /\ Places' \subseteq Places
  BY CallsFewer
<1>2. /\ selection' \in SelectionRecord /\ selection'.mixed = s.mixed
      /\ selection'.list = s.list \/ selection'.list = NULL
  BY FindAndSelectCases
<1>3. \A c \in SelectionCall' : c.arg.pos \in Nat /\ c.arg.expand \in BOOLEAN
  BY <1>1 DEF SelectionInv
<1>4. CASE selection.mixed
  BY <1>2, <1>3, <1>4 DEF SelectionInv, GoesBack
<1>5. CASE ~selection.mixed
  <2>1. /\ d = current /\ current \in Doc
        /\ \A p \in Places : Covers(s.sel[current], p)
        /\ Retraceable(s, current, Places)
    BY <1>5
  <2>2. selection' = FindAndSelect(s, current, expand)
    BY <2>1
  <2>3. /\ Retraces(selection', current, Places)
        /\ ~expand /\ s.back # <<>> /\ selection'.sel[current] # s.sel[current]
              => selection'.sel[current] = Last(s.back)
    BY <2>1, <2>2, FindAndSelectKept
  <2>4. Retraces(selection', current, Places')
    BY <1>1, <2>3, RetracesFewer
  <2>5. selection'.list # NULL => Grown(selection'.list)
    BY <1>2, <2>1 DEF Retraceable
  <2>6. \A c \in SelectionCall' : c.doc = current'
    BY <1>1, <1>5 DEF SelectionInv
  <2>7. SelectionInv'
    BY <1>2, <1>3, <2>4, <2>5, <2>6 DEF SelectionInv
  <2>8. ~expand => GoesBack
    BY <2>3 DEF GoesBack
  <2> QED BY <2>7, <2>8
<1> QED
  BY <1>4, <1>5

\* A key for expanding or shrinking: the list serves, or the server is asked.
LEMMA SelectionRequestKept ==
    ASSUME AskedInv, SelectionInv, UNCHANGED <<enabled, doc, current, server>>,
           NEW expand \in BOOLEAN, SelectionRangeRequest(expand)
    PROVE  SelectionInv' /\ (~expand => GoesBack)
<1> DEFINE range == selection.sel[current]
           L == selection.list
           found == FindSelectionRange(L, range, expand)
           c == Call("selection", current, [expand |-> expand, pos |-> range[1]])
           t == [selection EXCEPT !.list = <<>>, !.mixed = @ /\ Asked]
<1>1. current \in Doc /\ current # NULL
  BY DEF SelectionRangeRequest, AskedInv, IInv, DocumentsInv
<1>2. /\ selection \in SelectionRecord
      /\ range \in TextRange /\ L \in {NULL} \cup Seq(TextRange)
  BY <1>1 DEF SelectionInv, SelectionRecord
<1>3. CASE range \notin Caret /\ L # NULL /\ found # NoRange
  <2>1. selection' = FindAndSelect(selection, current, expand) /\ MakeCalls(<<>>)
    BY <1>3 DEF SelectionRangeRequest
  <2>2. calls' = calls
    BY <2>1, NoCallMade DEF AskedInv, MakeCalls
  <2>3. NoneAsked
    BY <2>2 DEF NoneAsked
  <2>4. ~selection.mixed =>
            /\ \A p \in Places : Covers(selection.sel[current], p)
            /\ Retraceable(selection, current, Places)
    BY <1>1, <1>3 DEF SelectionInv, Retraces
  <2>5. selection.list \in Seq(TextRange)
    BY <1>2, <1>3
  <2> QED BY <1>1, <1>2, <2>1, <2>3, <2>4, <2>5, SelectedInList
<1>4. CASE ~(range \notin Caret /\ L # NULL /\ found # NoRange)
  <2>1. selection' = t /\ MakeCalls(<<c>>)
    BY <1>4 DEF SelectionRangeRequest
  <2>2. ToSet(calls') = ToSet(calls) \cup {c}
    BY <2>1, ToSetOfConcat DEF AskedInv, CallsInv, MakeCalls
  <2>3. /\ c.method = "selection" /\ c.doc = current
        /\ c.arg.pos = range[1] /\ c.arg.expand = expand
    BY DEF Call
  <2>4. range[1] \in Nat /\ Covers(range, range[1])
    BY <1>2, RangeType DEF Covers
  <2> HIDE DEF c
  <2>5. /\ t \in SelectionRecord /\ t.sel = selection.sel /\ t.back = selection.back
        /\ t.list = <<>> /\ (t.mixed <=> selection.mixed /\ Asked)
    <3>1. Asked \in BOOLEAN /\ <<>> \in Seq(TextRange)
      BY DEF Asked
    <3> QED BY <1>2, <3>1 DEF SelectionRecord
  <2> HIDE DEF t
  <2>6. /\ SelectionCall' = SelectionCall \cup {c}
        /\ Places' = Places \cup {range[1]}
    BY <2>2, <2>3 DEF SelectionCall, Places
  <2>7. \A b \in SelectionCall' : b.arg.pos \in Nat /\ b.arg.expand \in BOOLEAN
    BY <2>3, <2>4, <2>6 DEF SelectionInv
  <2>8. ASSUME ~t.mixed
        PROVE  /\ \A b \in SelectionCall : b.doc = current
               /\ \A p \in Places : Covers(range, p)
    <3>1. CASE ~selection.mixed
      BY <1>1, <3>1 DEF SelectionInv, Retraces
    <3>2. CASE ~Asked
      <4>1. SelectionCall = {}
        BY <3>2, WaitingAsked
      <4> QED BY <4>1 DEF Places
    <3> QED BY <2>5, <2>8, <3>1, <3>2
  <2>9. ~t.mixed => Retraces(t, current, Places')
    <3>1. ~t.mixed => \A p \in Places' : Covers(t.sel[current], p)
      BY <2>4, <2>5, <2>6, <2>8
    <3> QED BY <1>1, <2>5, <3>1, RetracesAsked
  <2>10. t.list # NULL => Grown(t.list)
    <3>1. ToSet(<<>>) = {}
      BY DEF ToSet
    <3>2. Grown(<<>>)
      BY <3>1 DEF Grown
    <3> QED BY <2>5, <3>2
  <2>11. ~t.mixed => \A b \in SelectionCall' : b.doc = current'
    BY <2>3, <2>6, <2>8
  <2>12. SelectionInv'
    BY <2>1, <2>5, <2>7, <2>9, <2>10, <2>11 DEF SelectionInv
  <2>13. GoesBack
    BY <2>1, <2>5 DEF GoesBack
  <2> QED BY <2>12, <2>13
<1> QED
  BY <1>3, <1>4

\* goto_cb(): the answer to a key pressed before.
LEMMA SelectionAnswerKept ==
    ASSUME AskedInv, SelectionInv, UNCHANGED <<enabled, doc, current, server>>,
           NEW i, Answerable(i), calls' = WithoutCall(i), SelectionAnswer(i)
    PROVE  SelectionInv' /\ (~calls[i].arg.expand => GoesBack)
<1> DEFINE c == calls[i]
           range == selection.sel[c.doc]
<1>1. /\ c \in ToSet(calls) /\ ToSet(calls') \subseteq ToSet(calls)
  BY CallsAnswered DEF AskedInv
<1>2. /\ c \in SelectionCall /\ c.doc \in Doc
      /\ c.arg.pos \in Nat /\ c.arg.expand \in BOOLEAN /\ c.arg.pos \in Places
  BY <1>1, WaitingAsked DEF SelectionAnswer, SelectionCall, Places, SelectionInv
<1>3. NoneAsked
  BY <1>1 DEF NoneAsked
<1>4. PICK found \in BOOLEAN : SelectionAnswered(c, found)
  BY DEF SelectionAnswer
<1>5. selection \in SelectionRecord /\ range \in TextRange
  BY <1>2 DEF SelectionInv, SelectionRecord
<1>6. CASE ~doc[c.doc].open \/ ~found
  <2>1. selection' = selection
    BY <1>4, <1>6 DEF SelectionAnswered
  <2> QED BY <1>3, <2>1, SelectionStays DEF GoesBack
<1>7. CASE ~(~doc[c.doc].open \/ ~found)
  <2>1. PICK parsed \in Parsed(c.arg.pos, range) :
            selection' = FindAndSelect([selection EXCEPT !.list = @ \o <<range>> \o parsed],
                                       c.doc, c.arg.expand)
    BY <1>4, <1>7 DEF SelectionAnswered
  <2>2. selection.list # NULL /\ selection.list \in Seq(TextRange)
    BY <1>4, <1>5, <1>7 DEF SelectionAnswered, SelectionRecord
  <2>3. parsed \in Seq(TextRange)
    BY <2>1, ParsedType
  <2> DEFINE M == selection.list \o <<range>> \o parsed
             s == [selection EXCEPT !.list = M]
  <2>4. M \in Seq(TextRange)
    BY <1>5, <2>2, <2>3
  <2>5. ASSUME ~selection.mixed
        PROVE  /\ c.doc = current
               /\ \A p \in Places : Covers(selection.sel[current], p)
               /\ Retraceable(s, current, Places)
    <3>1. c.doc = current /\ current \in Doc /\ current # NULL
      BY <1>2, <2>5, DocAssumption DEF SelectionInv
    <3>2. Retraces(selection, current, Places) /\ Places \in SUBSET Nat
      BY <2>5, <3>1 DEF SelectionInv, Places
    <3> DEFINE pos == c.arg.pos
    <3>3. parsed \in Parsed(pos, selection.sel[current]) /\ pos \in Places
      BY <1>2, <2>1, <3>1
    <3>4. M = selection.list \o <<selection.sel[current]>> \o parsed
      BY <3>1
    <3> HIDE DEF M, pos
    <3>5. Retraceable(s, current, Places)
      BY <1>5, <2>2, <3>1, <3>2, <3>3, <3>4, AnsweredKept
    <3> QED BY <3>1, <3>2, <3>5 DEF Retraces
  <2>6. selection' = FindAndSelect(s, c.doc, c.arg.expand)
    BY <2>1
  <2> HIDE DEF M
  <2>7. /\ s \in SelectionRecord /\ s.list \in Seq(TextRange)
        /\ s.sel = selection.sel /\ s.back = selection.back /\ s.mixed = selection.mixed
    BY <1>5, <2>4 DEF SelectionRecord
  <2> HIDE DEF s, c
  <2>8. SelectionInv' /\ (~c.arg.expand => GoesBack)
    BY <1>2, <1>3, <2>5, <2>6, <2>7, SelectedInList
  <2> QED BY <2>8 DEF c
<1> QED
  BY <1>6, <1>7

\* Every step keeps the invariant.
LEMMA SelectionStep ==
    ASSUME AskedInv, SelectionInv, [Next]_vars
    PROVE  SelectionInv'
<1>1. CASE NoneAsked /\ UNCHANGED <<current, selection>>
  BY <1>1, SelectionStays
<1>2. UNCHANGED calls => NoneAsked
  BY DEF NoneAsked
<1>3. CASE UNCHANGED vars
  BY <1>1, <1>2, <1>3 DEF vars, documentVars, drawnVars
<1>4. ASSUME NEW d \in Doc,
             OpenDocument(d) \/ Activate(d) \/ Edit(d) \/ UpdateIdle(d) \/ CloseDocument(d)
      PROVE  SelectionInv'
  <2>1. CASE OpenDocument(d) \/ Activate(d)
    <3>1. NoneAsked
      BY <2>1, ShownCalls DEF QueriesFor, QueryMethod, NoneAsked, AskedInv
    <3>2. /\ current' = d /\ selection' = SelectionShown(d, server.running)
          /\ server.running \in BOOLEAN
      BY <2>1 DEF OpenDocument, Activate, Visible, AskedInv, IInv, DocumentsInv, ServerType
    <3> QED BY <3>1, <3>2, SelectionShownKept
  <2>2. CASE Edit(d)
    <3>1. NoneAsked
      BY <2>2, EditCalls DEF OnlyOf, NoneAsked, AskedInv
    <3> QED BY <2>2, <3>1, SelectionTypedKept DEF Edit
  <2>3. CASE UpdateIdle(d)
    <3>1. NoneAsked
      BY <2>3, UpdateIdleCalls DEF QueriesFor, QueryMethod, NoneAsked, AskedInv
    <3> QED BY <1>1, <2>3, <3>1 DEF UpdateIdle
  <2>4. CASE CloseDocument(d)
    BY <2>4, SelectionClosedKept DEF CloseDocument
  <2> QED BY <1>4, <2>1, <2>2, <2>3, <2>4
<1>5. CASE ServerInitialized
  <2>1. CASE current = NULL
    BY <1>1, <1>2, <1>5, <2>1 DEF ServerInitialized
  <2>2. CASE current # NULL
    <3>1. NoneAsked
      BY <1>5, <2>2, InitializedCalls DEF QueriesFor, QueryMethod, NoneAsked, AskedInv
    <3>2. current' = current /\ selection' = SelectionShown(current, TRUE)
      BY <1>5, <2>2 DEF ServerInitialized, Visible
    <3> QED BY <3>1, <3>2, SelectionShownKept
  <2> QED BY <2>1, <2>2
<1>6. CASE ServerCrashed
  <2>1. ToSet(calls') = {}
    BY <1>6 DEF ServerCrashed, ToSet
  <2>2. NoneAsked
    BY <2>1 DEF NoneAsked
  <2> QED BY <1>1, <1>6, <2>2 DEF ServerCrashed
<1>7. CASE FreeServer \/ ServerTells \/ UserSwitchesPage
  BY <1>1, <1>2, <1>7 DEF FreeServer, ServerTells, UserSwitchesPage, documentVars, drawnVars
<1>8. ASSUME NEW i \in 1 .. MaxCalls, Answer(i) PROVE SelectionInv'
  <2>1. /\ Answerable(i) /\ calls' = WithoutCall(i)
        /\ UNCHANGED <<enabled, doc, current, server>>
    BY <1>8 DEF Answer
  <2>2. NoneAsked
    BY <2>1, CallsAnswered DEF NoneAsked, AskedInv
  <2>3. CASE SelectionAnswer(i)
    BY <2>1, <2>3, SelectionAnswerKept
  <2>4. CASE UNCHANGED selection
    BY <1>1, <2>1, <2>2, <2>4
  <2> QED BY <1>8, <2>3, <2>4 DEF Answer, TokensAnswer, SymbolsAnswer, LensAnswer,
             HighlightAnswer, CompletionAnswer, PopupAnswer, drawnVars
<1>9. ASSUME NEW i \in 1 .. MaxCalls, Refuse(i) PROVE SelectionInv'
  <2>1. NoneAsked
    BY <1>9, CallsAnswered DEF Refuse, NoneAsked, AskedInv
  <2> QED BY <1>1, <1>9, <2>1 DEF Refuse
<1>10. CASE HighlightMoves
  <2>1. NoneAsked
    BY <1>10, HighlightMovesCalls DEF OnlyOf, NoneAsked, AskedInv
  <2> QED BY <1>1, <1>10, <2>1 DEF HighlightMoves
<1>11. CASE UserMovesPopup
  <2>1. NoneAsked
    BY <1>11, PopupCalls DEF OnlyOf, NoneAsked, AskedInv
  <2> QED BY <1>1, <1>11, <2>1 DEF UserMovesPopup, drawnVars
<1>12. CASE UserCompletes
  <2>1. NoneAsked
    BY <1>12, UserCompletesCalls DEF OnlyOf, NoneAsked, AskedInv
  <2> QED BY <1>1, <1>12, <2>1 DEF UserCompletes, drawnVars
<1>13. CASE UserSelects
  <2>1. current \in Doc
    BY <1>13 DEF UserSelects, AskedInv, IInv, DocumentsInv
  <2> QED BY <1>2, <1>13, <2>1, SelectionTypedKept DEF UserSelects
<1>14. CASE UserExpandsSelection
  <2>1. UNCHANGED <<enabled, doc, current, server>>
    BY <1>14 DEF UserExpandsSelection
  <2>2. ASSUME NEW expand \in BOOLEAN, SelectionRangeRequest(expand) PROVE SelectionInv'
    BY <2>1, <2>2, SelectionRequestKept
  <2>3. ASSUME NEW range \in TextRange, UserSelectsRange(range) PROVE SelectionInv'
    <3>1. current \in Doc
      BY <2>3 DEF UserSelectsRange, AskedInv, IInv, DocumentsInv
    <3> QED BY <1>2, <2>3, <3>1, SelectsKept DEF UserSelectsRange
  <2> QED BY <1>14, <2>2, <2>3 DEF UserExpandsSelection, SelectionMoves
<1> QED
  BY <1>3, <1>4, <1>5, <1>6, <1>7, <1>8, <1>9, <1>10, <1>11, <1>12, <1>13, <1>14 DEF Next

\* A key for shrinking, whatever else the step changes.
LEMMA ShrinkRequested ==
    ASSUME AskedInv, SelectionInv, SelectionRangeRequest(FALSE)
    PROVE  GoesBack
<1> DEFINE range == selection.sel[current]
           L == selection.list
           found == FindSelectionRange(L, range, FALSE)
<1>1. current \in Doc /\ current # NULL
  BY DEF SelectionRangeRequest, AskedInv, IInv, DocumentsInv
<1>2. selection \in SelectionRecord
  BY DEF SelectionInv
<1>3. CASE range \notin Caret /\ L # NULL /\ found # NoRange
  <2>1. selection' = FindAndSelect(selection, current, FALSE)
    BY <1>3 DEF SelectionRangeRequest
  <2>2. ~selection.mixed =>
            /\ \A p \in Places : Covers(selection.sel[current], p)
            /\ Retraceable(selection, current, Places)
    BY <1>1, <1>3 DEF SelectionInv, Retraces
  <2>3. selection.list \in Seq(TextRange)
    BY <1>2, <1>3 DEF SelectionRecord
  <2>4. ~selection.mixed /\ selection.back # <<>> /\ selection'.sel[current] # selection.sel[current]
            => selection'.sel[current] = Last(selection.back)
    BY <1>1, <1>2, <2>1, <2>2, <2>3, FindAndSelectKept
  <2> QED BY <2>4 DEF GoesBack
<1>4. CASE ~(range \notin Caret /\ L # NULL /\ found # NoRange)
  <2>1. selection' = [selection EXCEPT !.list = <<>>, !.mixed = @ /\ Asked]
    BY <1>4 DEF SelectionRangeRequest
  <2>2. selection'.sel = selection.sel
    BY <1>2, <2>1 DEF SelectionRecord
  <2> QED BY <2>2 DEF GoesBack
<1> QED
  BY <1>3, <1>4

\* A step that answers a call for shrinking, or one that is the same.
LEMMA ShrinkAnswered ==
    ASSUME AskedInv, SelectionInv, [Next]_vars,
           NEW i \in 1 .. Len(calls), calls[i].method = "selection", ~calls[i].arg.expand,
           calls' = WithoutCall(i)
    PROVE  GoesBack
<1> USE DEF AskedInv
<1>1. calls \in Seq(ToSet(calls)) /\ Len(calls) \in Nat /\ DOMAIN calls = 1 .. Len(calls)
  BY DEF CallsInv
<1>2. CASE UNCHANGED selection
  BY <1>2 DEF GoesBack
<1>3. ASSUME NEW T, NEW cs \in Seq(T), calls' = calls \o cs PROVE FALSE
  BY <1>3, NoneGone
<1>4. UNCHANGED calls => FALSE
  <2>1. <<>> \in Seq({}) /\ calls \o <<>> = calls
    BY <1>1
  <2> QED BY <1>3, <2>1
<1>5. ASSUME NEW j \in 1 .. Len(calls), WithoutCall(j) = WithoutCall(i)
      PROVE  calls[j] = calls[i]
  <2>1. i < j \/ j < i \/ i = j
    BY <1>1
  <2> QED BY <1>1, <1>5, <2>1, RemoveAtEither DEF WithoutCall
<1>6. ASSUME NEW d \in Doc, NEW t, NEW asks \in BOOLEAN, Ask(IF asks THEN Queries(d, t) ELSE <<>>)
      PROVE  FALSE
  <2>1. calls' = calls \o (IF asks THEN Queries(d, t) ELSE <<>>)
    BY <1>6 DEF Ask, MakeCalls
  <2>2. CASE asks
    <3>1. calls' = calls \o Queries(d, t)
      BY <2>1, <2>2
    <3>2. PICK T : Queries(d, t) \in Seq(T)
      BY QueriesAreCalls
    <3> QED BY <1>3, <3>1, <3>2
  <2>3. CASE ~asks
    <3>1. calls' = calls \o <<>> /\ <<>> \in Seq({})
      BY <2>1, <2>3
    <3> QED BY <1>3, <3>1
  <2> QED BY <2>2, <2>3
<1>7. CASE UNCHANGED vars
  BY <1>2, <1>7 DEF vars, drawnVars
<1>8. ASSUME NEW d \in Doc,
             OpenDocument(d) \/ Activate(d) \/ Edit(d) \/ UpdateIdle(d) \/ CloseDocument(d)
      PROVE  GoesBack
  <2>1. CASE OpenDocument(d) \/ Activate(d)
    <3>1. Ask(IF server.running THEN Queries(d, tokens) ELSE <<>>) /\ server.running \in BOOLEAN
      BY <2>1 DEF OpenDocument, Activate, Visible, IInv, DocumentsInv, ServerType
    <3> QED BY <1>6, <3>1
  <2>2. CASE Edit(d)
    <3>1. d # current => UNCHANGED calls
      BY <2>2 DEF Edit
    <3>2. d = current => \E cs : calls' = calls \o cs /\ (cs = <<>> \/ \E c : cs = <<c>>)
      BY <2>2 DEF Edit, MakeCalls, CompletionCall
    <3>3. ASSUME NEW cs, cs = <<>> \/ \E c : cs = <<c>> PROVE \E T : cs \in Seq(T)
      <4>1. CASE cs = <<>>
        <5>1. cs \in Seq({})
          BY <4>1
        <5> QED BY <5>1
      <4>2. ASSUME NEW c, cs = <<c>> PROVE \E T : cs \in Seq(T)
        <5>1. cs \in Seq({c})
          BY <4>2
        <5> QED BY <5>1
      <4> QED BY <3>3, <4>1, <4>2
    <3> QED BY <1>3, <1>4, <3>1, <3>2, <3>3
  <2>3. CASE UpdateIdle(d)
    BY <1>2, <2>3 DEF UpdateIdle
  <2>4. CASE CloseDocument(d)
    BY <1>4, <2>4 DEF CloseDocument
  <2> QED BY <1>8, <2>1, <2>2, <2>3, <2>4
<1>9. CASE ServerInitialized
  <2>1. CASE current = NULL
    BY <1>2, <1>9, <2>1 DEF ServerInitialized
  <2>2. CASE current # NULL
    <3>1. Ask(IF TRUE THEN Queries(current, TokensDestroyed(Doc)) ELSE <<>>) /\ current \in Doc
      BY <1>9, <2>2 DEF ServerInitialized, Visible, IInv, DocumentsInv
    <3> QED BY <1>6, <3>1
  <2> QED BY <2>1, <2>2
<1>10. CASE \/ ServerCrashed \/ FreeServer \/ ServerTells \/ UserSwitchesPage \/ HighlightMoves
            \/ UserCompletes \/ UserMovesPopup
  BY <1>2, <1>10 DEF ServerCrashed, FreeServer, ServerTells, UserSwitchesPage, HighlightMoves,
                     UserCompletes, UserMovesPopup, drawnVars
<1>11. CASE UserSelects
  BY <1>4, <1>11 DEF UserSelects
<1>12. ASSUME NEW j \in 1 .. MaxCalls, Answer(j) PROVE GoesBack
  <2>1. /\ Answerable(j) /\ calls' = WithoutCall(j)
        /\ UNCHANGED <<enabled, doc, current, server>>
    BY <1>12 DEF Answer
  <2>2. calls[j] = calls[i]
    BY <1>5, <2>1 DEF Answerable
  <2>3. CASE SelectionAnswer(j)
    BY <2>1, <2>2, <2>3, SelectionAnswerKept
  <2> QED BY <1>2, <1>12, <2>3 DEF Answer, TokensAnswer, SymbolsAnswer, LensAnswer,
             HighlightAnswer, CompletionAnswer, PopupAnswer, drawnVars
<1>13. ASSUME NEW j \in 1 .. MaxCalls, Refuse(j) PROVE GoesBack
  BY <1>2, <1>13 DEF Refuse
<1>14. CASE UserExpandsSelection
  <2>1. ASSUME NEW expand \in BOOLEAN, SelectionRangeRequest(expand) PROVE FALSE
    <3>1. \/ calls' = calls \o <<>>
          \/ \E c : calls' = calls \o <<c>>
      BY <2>1 DEF SelectionRangeRequest, MakeCalls
    <3>2. <<>> \in Seq({}) /\ \A c : <<c>> \in Seq({c})
      OBVIOUS
    <3> QED BY <1>3, <3>1, <3>2
  <2>2. ASSUME NEW range \in TextRange, UserSelectsRange(range) PROVE FALSE
    BY <1>4, <2>2 DEF UserSelectsRange
  <2> QED BY <1>14, <2>1, <2>2 DEF UserExpandsSelection, SelectionMoves
<1> QED
  BY <1>2, <1>7, <1>8, <1>9, <1>10, <1>11, <1>12, <1>13, <1>14 DEF Next

-----------------------------------------------------------------------------
\* The invariant holds.
LEMMA SelectionAlways == Spec => []SelectionInv
<1>1. Init => SelectionInv
  <2> SUFFICES ASSUME Init PROVE SelectionInv
    OBVIOUS
  <2>1. /\ calls = <<>> /\ current = NULL
        /\ selection = [sel |-> [d \in Doc |-> Unselected], list |-> NULL, back |-> <<>>,
                        mixed |-> FALSE]
    BY DEF Init, DocumentsInit, SelectionInit
  <2>2. Unselected \in TextRange
    <3>1. PICK r \in Syntax : TRUE
      BY SyntaxAssumption
    <3>2. r[1] \in Position
      BY DEF Position
    <3>3. \A p \in Position : p \in Nat
      BY SyntaxAssumption DEF Position
    <3> DEFINE c == CHOOSE p \in Position : TRUE
    <3>4. c \in Position
      BY <3>2
    <3> HIDE DEF c
    <3>5. <<c, c>> \in TextRange
      BY <3>3, <3>4 DEF TextRange
    <3> QED BY <3>5 DEF Unselected, c
  <2>3. selection \in SelectionRecord
    <3>1. <<>> \in Seq(TextRange)
      OBVIOUS
    <3> QED BY <2>1, <2>2, <3>1 DEF SelectionRecord
  <2>4. SelectionCall = {}
    <3>1. ToSet(<<>>) = {}
      BY DEF ToSet
    <3> QED BY <2>1, <3>1 DEF SelectionCall
  <2> QED BY <2>1, <2>3, <2>4 DEF SelectionInv
<1>2. AskedInv /\ SelectionInv /\ [Next]_vars => SelectionInv'
  BY SelectionStep
<1> QED
  BY <1>1, <1>2, AskedAlways, PTL DEF Spec

\* Shrinking goes back the way of expanding: for any syntax, any number of keys that were
\* pressed before the server answered, and however the user moved between documents.
THEOREM ShrinkingRetraces == Spec => ShrinksBack
<1>1. AskedInv /\ SelectionInv /\ [Next]_vars =>
         [LET shrinks == \/ SelectionRangeRequest(FALSE)
                         \/ \E i \in 1 .. Len(calls) :
                               /\ calls[i].method = "selection" /\ ~calls[i].arg.expand
                               /\ calls' = WithoutCall(i)
          IN (/\ shrinks
              /\ current # NULL
              /\ selection.back # <<>>
              /\ selection'.sel[current] # selection.sel[current]
              /\ ~selection.mixed)
             => selection'.sel[current] = Last(selection.back)]_selection
  <2> SUFFICES ASSUME AskedInv, SelectionInv, [Next]_vars,
                      \/ SelectionRangeRequest(FALSE)
                      \/ \E i \in 1 .. Len(calls) :
                            /\ calls[i].method = "selection" /\ ~calls[i].arg.expand
                            /\ calls' = WithoutCall(i)
               PROVE  GoesBack
    BY DEF GoesBack
  <2>1. CASE SelectionRangeRequest(FALSE)
    BY <2>1, ShrinkRequested
  <2> QED BY <2>1, ShrinkAnswered
<1> QED
  BY <1>1, SelectionAlways, AskedAlways, PTL DEF Spec, ShrinksBack
=============================================================================
