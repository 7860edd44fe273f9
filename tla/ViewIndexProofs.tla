--------------------------- MODULE ViewIndexProofs ---------------------------
(***************************************************************************)
(* For any identities, orders, versions, limits and bounds: the indexes of *)
(* a view are exact, every page is the records it should be, and a listing *)
(* that ends returned all that it owed.                                    *)
(***************************************************************************)
EXTENDS ViewIndex, FiniteSetTheorems, SequenceTheorems, WellFoundedInduction, TLAPS

-----------------------------------------------------------------------------
(* The search *)

\* A set of numbers that is not empty has a least.
LEMMA Least ==
  ASSUME NEW T, T \subseteq Nat, T # {}
  PROVE  \E m \in T : \A i \in T : m <= i
<1> DEFINE R == OpToRel(<, Nat)
<1>1. IsWellFoundedOn(R, Nat)
  BY NatLessThanWellFounded
<1>2. \A x, y \in Nat : y < x => <<y, x>> \in R
  BY DEF OpToRel
<1> HIDE DEF R
<1>3. PICK m \in T : \A y \in T : ~ (<<y, m>> \in R)
  BY <1>1, WFMin
<1>4. ASSUME NEW i \in T PROVE m <= i
  <2>1. ~(i < m) /\ i \in Nat /\ m \in Nat
    BY <1>2, <1>3
  <2> QED BY <2>1
<1> QED BY <1>4

\* The entries in left are the first ones.
Prefix(q, left) ==
  \A m, n \in 1..Len(q) : m < n /\ q[n] \in left => q[m] \in left

\* Entries that are the first ones end somewhere.
LEMMA PrefixEnds ==
  ASSUME NEW S, NEW q \in Seq(S), NEW left, Prefix(q, left)
  PROVE  \E p \in 0..Len(q) : \A n \in 1..Len(q) : q[n] \in left <=> n <= p
<1> DEFINE T == {p \in 0..Len(q) : \A n \in 1..Len(q) : q[n] \in left => n <= p}
<1>0. Len(q) \in Nat
  OBVIOUS
<1>1. Len(q) \in T
  BY <1>0
<1>2. T \subseteq Nat /\ T # {}
  BY <1>0, <1>1
<1> HIDE DEF T
<1>3. PICK p \in T : \A i \in T : p <= i
  BY <1>2, Least
<1>4. p \in 0..Len(q) /\ \A n \in 1..Len(q) : q[n] \in left => n <= p
  BY DEF T
<1>5. ASSUME NEW n \in 1..Len(q), n <= p PROVE q[n] \in left
  <2>1. p - 1 \notin T
    BY <1>2, <1>3
  <2>2. p - 1 \in 0..Len(q)
    BY <1>0, <1>4, <1>5
  <2>3. PICK k \in 1..Len(q) : q[k] \in left /\ ~(k <= p - 1)
    BY <2>1, <2>2 DEF T
  <2>4. k = p
    BY <1>4, <2>3
  <2> QED BY <1>5, <2>3, <2>4 DEF Prefix
<1> QED BY <1>4, <1>5

\* Binary search finds where they end.
LEMMA Finds ==
  ASSUME NEW S, NEW q \in Seq(S), NEW left, Prefix(q, left)
  PROVE  /\ Search(q, left) \in 0..Len(q)
         /\ \A n \in 1..Len(q) : q[n] \in left <=> n <= Search(q, left)
<1> DEFINE L == Len(q)
<1>0. L \in Nat
  OBVIOUS
<1>1. PICK p \in 0..L : \A n \in 1..L : q[n] \in left <=> n <= p
  BY <1>0, PrefixEnds
<1> DEFINE W == (0..L) \X (0..L)
           Middle(w) == w[1] + (w[2] - w[1]) \div 2
           Halve(f) == [w \in W |->
             IF w[1] >= w[2] THEN w[1]
             ELSE IF q[Middle(w) + 1] \in left THEN f[<<Middle(w) + 1, w[2]>>]
                                               ELSE f[<<w[1], Middle(w)>>]]
           clamp == [w \in W |-> IF w[1] >= w[2] \/ p < w[1] THEN w[1]
                                 ELSE IF p > w[2] THEN w[2] ELSE p]
           g == CHOOSE f : f = Halve(f)
<1>2. Search(q, left) = g[<<0, L>>]
  BY Zenon DEF Search
<1> HIDE DEF L
<1>3. ASSUME NEW w \in W, w[1] < w[2]
      PROVE  /\ Middle(w) \in w[1]..w[2] - 1 /\ w[1] \in Nat /\ w[2] \in Nat /\ w[2] <= L
             /\ <<Middle(w) + 1, w[2]>> \in W /\ <<w[1], Middle(w)>> \in W
             /\ Middle(w) + 1 \in 1..L
  <2>1. w[1] \in 0..L /\ w[2] \in 0..L
    OBVIOUS
  <2>2. Middle(w) \in w[1]..w[2] - 1
    BY <1>3, <2>1
  <2>3. PICK m \in Int : m = Middle(w) /\ m \in w[1]..w[2] - 1
    BY <2>1, <2>2
  <2>4. m + 1 \in 1..L /\ m + 1 \in 0..L /\ m \in 0..L
    BY <1>0, <2>1, <2>3
  <2> HIDE DEF Middle
  <2> QED BY <1>0, <2>1, <2>3, <2>4
<1> HIDE DEF Middle
<1>4. ASSUME NEW w \in W PROVE clamp[w] = Halve(clamp)[w]
  <2>0. w[1] \in 0..L /\ w[2] \in 0..L
    OBVIOUS
  <2>1. CASE w[1] >= w[2]
    BY <2>0, <2>1
  <2>2. CASE w[1] < w[2] /\ q[Middle(w) + 1] \in left
    <3>1. Middle(w) + 1 <= p
      BY <1>1, <1>3, <2>2
    <3>2. PICK v \in W : v = <<Middle(w) + 1, w[2]>>
      BY <1>3, <2>2
    <3>3. Halve(clamp)[w] = clamp[v]
      BY <2>0, <2>2, <3>2
    <3>4. v[1] = Middle(w) + 1 /\ v[2] = w[2]
      BY <3>2
    <3> QED BY <1>3, <2>0, <2>2, <3>1, <3>3, <3>4
  <2>3. CASE w[1] < w[2] /\ q[Middle(w) + 1] \notin left
    <3>1. ~(Middle(w) + 1 <= p)
      BY <1>1, <1>3, <2>3
    <3>2. PICK v \in W : v = <<w[1], Middle(w)>>
      BY <1>3, <2>3
    <3>3. Halve(clamp)[w] = clamp[v]
      BY <2>0, <2>3, <3>2
    <3>4. v[1] = w[1] /\ v[2] = Middle(w)
      BY <3>2
    <3>5. PICK a \in Nat, b \in Nat, m \in Nat :
            a = w[1] /\ b = w[2] /\ m = Middle(w) /\ a <= m /\ m < b
      <4>1. Middle(w) \in w[1]..w[2] - 1 /\ w[1] \in Nat /\ w[2] \in Nat
        BY <1>3, <2>3
      <4>2. Middle(w) \in Nat /\ w[1] <= Middle(w) /\ Middle(w) < w[2]
        BY <4>1
      <4> QED BY <4>1, <4>2
    <3>6. p <= m /\ p \in Nat
      BY <1>0, <3>1, <3>5
    <3>7. clamp[w] = IF p < a THEN a ELSE IF p > b THEN b ELSE p
      BY <2>3, <3>5
    <3>8. clamp[v] = IF a >= m \/ p < a THEN a ELSE IF p > m THEN m ELSE p
      BY <3>4, <3>5
    <3> QED BY <3>3, <3>5, <3>6, <3>7, <3>8
  <2> QED BY <2>0, <2>1, <2>2, <2>3
<1>5. clamp = Halve(clamp)
  BY <1>4
<1>6. g = Halve(g)
  <2> HIDE DEF clamp, Halve
  <2> QED BY <1>5
<1> HIDE DEF g
<1>7. ASSUME NEW k \in W, g[k] # clamp[k] PROVE FALSE
  <2> DEFINE Bad == {w \in W : g[w] # clamp[w]}
             Sizes == {w[2] - w[1] : w \in Bad}
  <2>1. ASSUME NEW w \in Bad PROVE w[1] < w[2]
    BY <1>6, <2>1
  <2>2. Sizes \subseteq Nat /\ Sizes # {}
    <3>1. \A w \in Bad : w[1] \in Nat /\ w[2] \in Nat /\ w[1] < w[2]
      BY <2>1
    <3>2. k \in Bad
      BY <1>7
    <3> HIDE DEF Bad
    <3> QED BY <3>1, <3>2
  <2>3. PICK z \in Sizes : \A y \in Sizes : z <= y
    <3> HIDE DEF Sizes
    <3> QED BY <2>2, Least
  <2>4. PICK w \in Bad : z = w[2] - w[1]
    OBVIOUS
  <2>5. w[1] < w[2] /\ w \in W /\ g[w] # clamp[w]
    BY <2>1
  <2>6. ASSUME NEW v \in W, v[2] - v[1] < w[2] - w[1] PROVE g[v] = clamp[v]
    <3>1. v \in Bad => v[2] - v[1] \in Sizes
      OBVIOUS
    <3>2. v[2] - v[1] \in Int /\ z \in Int
      BY <2>4
    <3> HIDE DEF Sizes
    <3> QED BY <2>3, <2>4, <2>6, <3>1, <3>2
  <2> HIDE DEF Bad, Sizes
  <2>7. g[<<Middle(w) + 1, w[2]>>] = clamp[<<Middle(w) + 1, w[2]>>]
    <3>1. PICK v \in W : v = <<Middle(w) + 1, w[2]>> /\ v[1] = Middle(w) + 1 /\ v[2] = w[2]
      BY <1>3, <2>5
    <3>2. v[2] - v[1] < w[2] - w[1]
      <4>1. Middle(w) \in w[1]..w[2] - 1 /\ w[1] \in Nat /\ w[2] \in Nat
        BY <1>3, <2>5
      <4>2. Middle(w) \in Nat /\ w[1] <= Middle(w) /\ Middle(w) < w[2]
        BY <4>1
      <4> QED BY <3>1, <4>1, <4>2
    <3> QED BY <2>6, <3>1, <3>2
  <2>8. g[<<w[1], Middle(w)>>] = clamp[<<w[1], Middle(w)>>]
    <3>1. PICK v \in W : v = <<w[1], Middle(w)>> /\ v[1] = w[1] /\ v[2] = Middle(w)
      BY <1>3, <2>5
    <3>2. v[2] - v[1] < w[2] - w[1]
      <4>1. Middle(w) \in w[1]..w[2] - 1 /\ w[1] \in Nat /\ w[2] \in Nat
        BY <1>3, <2>5
      <4>2. Middle(w) \in Nat /\ w[1] <= Middle(w) /\ Middle(w) < w[2]
        BY <4>1
      <4> QED BY <3>1, <4>1, <4>2
    <3> QED BY <2>6, <3>1, <3>2
  <2>9. Halve(g)[w] = Halve(clamp)[w]
    BY <2>5, <2>7, <2>8
  <2> QED BY <1>4, <1>6, <2>5, <2>9
<1>8. <<0, L>> \in W
  BY <1>0
<1>9. g[<<0, L>>] = clamp[<<0, L>>]
  BY <1>7, <1>8
<1>10. clamp[<<0, L>>] = p
  BY <1>0, <1>8
<1> QED BY <1>1, <1>2, <1>9, <1>10 DEF L

-----------------------------------------------------------------------------
(* Sorted sequences *)

\* A slice is what it says.
LEMMA Slice ==
  ASSUME NEW S, NEW q \in Seq(S), NEW m \in 1..Len(q) + 1, NEW n \in 0..Len(q), m <= n + 1
  PROVE  /\ SubSeq(q, m, n) \in Seq(S) /\ Len(SubSeq(q, m, n)) = n - m + 1
         /\ \A i \in 1..n - m + 1 : SubSeq(q, m, n)[i] = q[m + i - 1]
<1>1. \A i \in m..n : q[i] \in S
  OBVIOUS
<1>2. m \in Int /\ n \in Int /\ (IF m <= n THEN n - m + 1 ELSE 0) = n - m + 1
  OBVIOUS
<1> QED BY <1>1, <1>2, SubSeqProperties

\* r is q with e at position i.
With(r, q, i, e) ==
  /\ Len(r) = Len(q) + 1
  /\ \A n \in 1..Len(q) + 1 : r[n] = IF n < i THEN q[n] ELSE IF n = i THEN e ELSE q[n - 1]

\* InsertAt puts one entry in and moves the rest up.
LEMMA Inserting ==
  ASSUME NEW S, NEW q \in Seq(S), NEW e \in S, NEW i \in 1..Len(q) + 1
  PROVE  InsertAt(q, i, e) \in Seq(S) /\ With(InsertAt(q, i, e), q, i, e)
<1>0. Len(q) \in Nat /\ i - 1 \in 0..Len(q) /\ 1 \in 1..Len(q) + 1 /\ Len(q) \in 0..Len(q)
  OBVIOUS
<1>1. PICK a : a = SubSeq(q, 1, i - 1)
  OBVIOUS
<1>2. a \in Seq(S) /\ Len(a) = i - 1 /\ \A n \in 1..i - 1 : a[n] = q[n]
  <2>1. /\ a \in Seq(S) /\ Len(a) = i - 1 - 1 + 1
        /\ \A n \in 1..i - 1 - 1 + 1 : a[n] = q[1 + n - 1]
    BY <1>0, <1>1, Slice
  <2>2. i - 1 - 1 + 1 = i - 1 /\ \A n \in Int : 1 + n - 1 = n
    OBVIOUS
  <2> QED BY <2>1, <2>2
<1>3. PICK b : b = SubSeq(q, i, Len(q))
  OBVIOUS
<1>4. /\ b \in Seq(S) /\ Len(b) = Len(q) - i + 1
      /\ \A n \in 1..Len(q) - i + 1 : b[n] = q[i + n - 1]
  BY <1>0, <1>3, Slice
<1>5. PICK c : c = a \o <<e>>
  OBVIOUS
<1>6. c \in Seq(S) /\ Len(c) = i /\ c[i] = e /\ \A n \in 1..i - 1 : c[n] = q[n]
  <2>1. <<e>> \in Seq(S) /\ Len(<<e>>) = 1 /\ <<e>>[1] = e
    OBVIOUS
  <2>2. /\ c \in Seq(S) /\ Len(c) = Len(a) + 1
        /\ \A n \in 1..Len(a) + 1 : c[n] = IF n <= Len(a) THEN a[n] ELSE <<e>>[n - Len(a)]
    BY <1>2, <1>5, <2>1, ConcatProperties
  <2>3. i - (i - 1) = 1 /\ i - 1 + 1 = i /\ ~(i <= i - 1) /\ i \in 1..i
    OBVIOUS
  <2>4. c[i] = e
    BY <1>2, <2>1, <2>2, <2>3
  <2>5. ASSUME NEW n \in 1..i - 1 PROVE c[n] = q[n]
    BY <1>2, <2>2, <2>5
  <2> QED BY <1>2, <2>2, <2>3, <2>4, <2>5
<1>7. PICK r : r = c \o b
  OBVIOUS
<1>8. /\ r \in Seq(S) /\ Len(r) = Len(q) + 1
      /\ \A n \in 1..Len(q) + 1 : r[n] = IF n <= i THEN c[n] ELSE b[n - i]
  <2>1. /\ r \in Seq(S) /\ Len(r) = Len(c) + Len(b)
        /\ \A n \in 1..Len(c) + Len(b) : r[n] = IF n <= Len(c) THEN c[n] ELSE b[n - Len(c)]
    BY <1>4, <1>6, <1>7, ConcatProperties
  <2>2. Len(c) + Len(b) = Len(q) + 1
    BY <1>0, <1>4, <1>6
  <2> QED BY <1>6, <2>1, <2>2
<1>9. r = InsertAt(q, i, e)
  BY <1>1, <1>3, <1>5, <1>7 DEF InsertAt
<1>10. ASSUME NEW n \in 1..Len(q) + 1
       PROVE  r[n] = IF n < i THEN q[n] ELSE IF n = i THEN e ELSE q[n - 1]
  <2>1. CASE n < i
    BY <1>6, <1>8, <2>1
  <2>2. CASE n = i
    BY <1>6, <1>8, <2>2
  <2>3. CASE n > i
    <3>1. n - i \in 1..Len(q) - i + 1 /\ i + (n - i) - 1 = n - 1
      BY <1>0, <2>3
    <3>2. r[n] = b[n - i]
      BY <1>8, <2>3
    <3> QED BY <1>4, <2>3, <3>1, <3>2
  <2> QED BY <2>1, <2>2, <2>3
<1>11. With(r, q, i, e)
  BY <1>8, <1>10 DEF With
<1> QED BY <1>8, <1>9, <1>11

\* RemoveAt takes one entry out and moves the rest down.
LEMMA Removing ==
  ASSUME NEW S, NEW q \in Seq(S), NEW p \in 1..Len(q)
  PROVE  \E r \in Seq(S) :
           /\ r = RemoveAt(q, p) /\ Len(r) = Len(q) - 1
           /\ \A n \in 1..Len(q) - 1 : r[n] = IF n < p THEN q[n] ELSE q[n + 1]
<1>0. /\ Len(q) \in Nat /\ p - 1 \in 0..Len(q) /\ 1 \in 1..Len(q) + 1 /\ Len(q) \in 0..Len(q)
      /\ p + 1 \in 1..Len(q) + 1 /\ p + 1 <= Len(q) + 1
  OBVIOUS
<1>1. PICK a : a = SubSeq(q, 1, p - 1)
  OBVIOUS
<1>2. a \in Seq(S) /\ Len(a) = p - 1 /\ \A n \in 1..p - 1 : a[n] = q[n]
  <2>1. /\ a \in Seq(S) /\ Len(a) = p - 1 - 1 + 1
        /\ \A n \in 1..p - 1 - 1 + 1 : a[n] = q[1 + n - 1]
    BY <1>0, <1>1, Slice
  <2>2. p - 1 - 1 + 1 = p - 1 /\ \A n \in Int : 1 + n - 1 = n
    OBVIOUS
  <2> QED BY <2>1, <2>2
<1>3. PICK b : b = SubSeq(q, p + 1, Len(q))
  OBVIOUS
<1>4. /\ b \in Seq(S) /\ Len(b) = Len(q) - (p + 1) + 1
      /\ \A n \in 1..Len(q) - (p + 1) + 1 : b[n] = q[p + 1 + n - 1]
  BY <1>0, <1>3, Slice
<1>5. PICK r : r = a \o b
  OBVIOUS
<1>6. /\ r \in Seq(S) /\ Len(r) = Len(q) - 1
      /\ \A n \in 1..Len(q) - 1 : r[n] = IF n < p THEN a[n] ELSE b[n - (p - 1)]
  <2>1. /\ r \in Seq(S) /\ Len(r) = Len(a) + Len(b)
        /\ \A n \in 1..Len(a) + Len(b) : r[n] = IF n <= Len(a) THEN a[n] ELSE b[n - Len(a)]
    BY <1>2, <1>4, <1>5, ConcatProperties
  <2>2. Len(a) + Len(b) = Len(q) - 1
    BY <1>0, <1>2, <1>4
  <2>3. ASSUME NEW n \in 1..Len(q) - 1 PROVE r[n] = IF n < p THEN a[n] ELSE b[n - (p - 1)]
    <3>1. n <= Len(a) <=> n < p
      BY <1>2
    <3>2. r[n] = IF n <= Len(a) THEN a[n] ELSE b[n - Len(a)]
      BY <2>1, <2>2
    <3> QED BY <1>2, <3>1, <3>2
  <2> QED BY <2>1, <2>2, <2>3
<1>7. r = RemoveAt(q, p)
  BY <1>1, <1>3, <1>5 DEF RemoveAt
<1>8. ASSUME NEW n \in 1..Len(q) - 1 PROVE r[n] = IF n < p THEN q[n] ELSE q[n + 1]
  <2>1. CASE n < p
    BY <1>2, <1>6, <2>1
  <2>2. CASE n >= p
    <3>1. n - (p - 1) \in 1..Len(q) - (p + 1) + 1 /\ p + 1 + (n - (p - 1)) - 1 = n + 1
      BY <1>0, <2>2
    <3>2. r[n] = b[n - (p - 1)]
      BY <1>6, <2>2
    <3> QED BY <1>4, <2>2, <3>1, <3>2
  <2> QED BY <2>1, <2>2
<1> QED BY <1>6, <1>7, <1>8

\* A sequence in strict order of a relation, which has no element twice.
Sorted(q, R) == \A m, n \in 1..Len(q) : m < n => <<q[m], q[n]>> \in R

Elements(q) == {q[n] : n \in 1..Len(q)}

\* A relation on S that puts no two elements before each other.
Strict(R) == \A a, b : <<a, b>> \in R => a # b /\ <<b, a>> \notin R

\* e belongs at position i.
Splits(q, i, e, R) ==
  \A n \in 1..Len(q) : IF n < i THEN <<q[n], e>> \in R ELSE <<e, q[n]>> \in R

\* Inserting where an entry belongs keeps a sequence sorted.
LEMMA InsertSorted ==
  ASSUME NEW S, NEW q \in Seq(S), NEW e \in S, NEW R, NEW i \in 1..Len(q) + 1, Sorted(q, R),
         Splits(q, i, e, R)
  PROVE  /\ InsertAt(q, i, e) \in Seq(S) /\ Sorted(InsertAt(q, i, e), R)
         /\ Elements(InsertAt(q, i, e)) = Elements(q) \cup {e}
<1>0. Len(q) \in Nat
  OBVIOUS
<1>1. PICK r \in Seq(S) : r = InsertAt(q, i, e) /\ Len(r) = Len(q) + 1 /\ With(r, q, i, e)
  <2>1. InsertAt(q, i, e) \in Seq(S) /\ With(InsertAt(q, i, e), q, i, e)
    BY Inserting
  <2> QED BY <2>1 DEF With
<1>2. ASSUME NEW n \in 1..Len(r)
      PROVE  \/ n < i /\ n \in 1..Len(q) /\ r[n] = q[n]
             \/ n = i /\ r[n] = e
             \/ n > i /\ n - 1 \in 1..Len(q) /\ r[n] = q[n - 1]
  <2>1. n \in 1..Len(q) + 1
    BY <1>1
  <2>2. r[n] = IF n < i THEN q[n] ELSE IF n = i THEN e ELSE q[n - 1]
    BY <1>1, <2>1 DEF With
  <2>3. \/ n < i /\ n \in 1..Len(q)
        \/ n = i
        \/ n > i /\ n - 1 \in 1..Len(q)
    BY <1>0, <2>1
  <2> QED BY <2>2, <2>3
<1>3. ASSUME NEW m \in 1..Len(r), NEW n \in 1..Len(r), m < n PROVE <<r[m], r[n]>> \in R
  <2>0. m \in Int /\ n \in Int
    OBVIOUS
  <2>1. CASE n < i
    <3>1. m < i /\ n # i /\ m # i /\ ~(n > i) /\ ~(m > i)
      BY <1>3, <2>0, <2>1
    <3> QED BY <1>2, <1>3, <2>1, <3>1 DEF Sorted
  <2>2. CASE n = i
    <3>1. m < i /\ m # i /\ ~(m > i) /\ ~(n < i) /\ ~(n > i)
      BY <1>3, <2>0, <2>2
    <3> QED BY <1>2, <2>2, <3>1 DEF Splits
  <2>3. CASE n > i /\ m = i
    <3>1. ~(n - 1 < i) /\ n # i /\ ~(n < i) /\ ~(m < i) /\ ~(m > i)
      BY <2>0, <2>3
    <3> QED BY <1>2, <2>3, <3>1 DEF Splits
  <2>4. CASE n > i /\ m < i
    <3>1. m < n - 1 /\ n # i /\ ~(n < i) /\ m # i /\ ~(m > i)
      BY <2>0, <2>4
    <3> QED BY <1>2, <2>4, <3>1 DEF Sorted
  <2>5. CASE n > i /\ m > i
    <3>1. m - 1 < n - 1 /\ n # i /\ ~(n < i) /\ m # i /\ ~(m < i)
      BY <1>3, <2>0, <2>5
    <3> QED BY <1>2, <2>5, <3>1 DEF Sorted
  <2>6. n < i \/ n = i \/ (n > i /\ m = i) \/ (n > i /\ m < i) \/ (n > i /\ m > i)
    BY <2>0
  <2> QED BY <2>1, <2>2, <2>3, <2>4, <2>5, <2>6
<1>4. Elements(r) \subseteq Elements(q) \cup {e}
  <2>1. ASSUME NEW n \in 1..Len(r) PROVE r[n] = e \/ \E k \in 1..Len(q) : r[n] = q[k]
    BY <1>2
  <2> QED BY <2>1 DEF Elements
<1>5. Elements(q) \cup {e} \subseteq Elements(r)
  <2>1. i \in 1..Len(r) /\ r[i] = e
    BY <1>0, <1>1 DEF With
  <2>2. ASSUME NEW n \in 1..Len(q) PROVE \E k \in 1..Len(r) : r[k] = q[n]
    <3>1. CASE n < i
      <4>1. n \in 1..Len(r) /\ n \in 1..Len(q) + 1
        BY <1>0, <1>1
      <4> QED BY <1>1, <3>1, <4>1 DEF With
    <3>2. CASE n >= i
      <4>1. n + 1 \in 1..Len(r) /\ n + 1 > i /\ n + 1 - 1 = n
        BY <1>0, <1>1, <3>2
      <4>2. r[n + 1] = q[n]
        BY <1>0, <1>1, <4>1 DEF With
      <4> QED BY <4>1, <4>2
    <3> QED BY <3>1, <3>2
  <2> QED BY <2>1, <2>2 DEF Elements
<1> QED BY <1>1, <1>3, <1>4, <1>5 DEF Sorted

\* Removing keeps it sorted, and removes one element.
LEMMA RemoveSorted ==
  ASSUME NEW S, NEW q \in Seq(S), NEW R, NEW p \in 1..Len(q), Sorted(q, R), Strict(R)
  PROVE  /\ RemoveAt(q, p) \in Seq(S) /\ Sorted(RemoveAt(q, p), R)
         /\ Elements(RemoveAt(q, p)) = Elements(q) \ {q[p]}
<1>1. PICK r \in Seq(S) :
        /\ r = RemoveAt(q, p) /\ Len(r) = Len(q) - 1
        /\ \A n \in 1..Len(q) - 1 : r[n] = IF n < p THEN q[n] ELSE q[n + 1]
  BY Removing
<1>2. ASSUME NEW m \in 1..Len(r), NEW n \in 1..Len(r), m < n PROVE <<r[m], r[n]>> \in R
  <2>1. PICK i \in 1..Len(q) : r[m] = q[i] /\ (IF m < p THEN i = m ELSE i = m + 1)
    BY <1>1
  <2>2. PICK j \in 1..Len(q) : r[n] = q[j] /\ (IF n < p THEN j = n ELSE j = n + 1)
    BY <1>1
  <2>3. i < j
    BY <1>2, <2>1, <2>2
  <2> QED BY <2>1, <2>2, <2>3 DEF Sorted
<1>3. ASSUME NEW m \in 1..Len(q), NEW n \in 1..Len(q), q[m] = q[n] PROVE m = n
  <2>1. ~(m < n) /\ ~(n < m)
    BY <1>3 DEF Sorted, Strict
  <2> QED BY <2>1
<1>4. Elements(r) \subseteq Elements(q) \ {q[p]}
  <2>1. ASSUME NEW n \in 1..Len(r) PROVE \E i \in 1..Len(q) : r[n] = q[i] /\ i # p
    <3>1. PICK i \in 1..Len(q) : r[n] = q[i] /\ (IF n < p THEN i = n ELSE i = n + 1)
      BY <1>1
    <3> QED BY <3>1
  <2>2. ASSUME NEW n \in 1..Len(r) PROVE r[n] \in Elements(q) /\ r[n] # q[p]
    <3>1. PICK i \in 1..Len(q) : r[n] = q[i] /\ i # p
      BY <2>1
    <3>2. q[i] \in Elements(q)
      BY DEF Elements
    <3>3. q[i] # q[p]
      BY <1>3, <3>1
    <3> QED BY <3>1, <3>2, <3>3
  <2>3. ASSUME NEW x \in Elements(r) PROVE \E n \in 1..Len(r) : x = r[n]
    BY DEF Elements
  <2> QED BY <2>2, <2>3
<1>5. Elements(q) \ {q[p]} \subseteq Elements(r)
  <2>1. ASSUME NEW n \in 1..Len(q), n # p PROVE \E i \in 1..Len(r) : r[i] = q[n]
    <3>1. CASE n < p
      BY <1>1, <3>1
    <3>2. CASE n > p
      <4>1. n - 1 \in 1..Len(r) /\ r[n - 1] = q[n - 1 + 1] /\ n - 1 + 1 = n
        BY <1>1, <3>2
      <4> QED BY <4>1
    <3> QED BY <2>1, <3>1, <3>2
  <2> QED BY <2>1 DEF Elements
<1> QED BY <1>1, <1>2, <1>4, <1>5 DEF Sorted

-----------------------------------------------------------------------------
(* The orders *)

Kinds == {"ranked", "due"}

\* The identities whose version belongs into the index of a kind.
Holders(kind, recs) == {i \in Ids : In(kind, recs[i])}

\* How they follow each other there.
Rel(kind, recs) ==
  {x \in Holders(kind, recs) \X Holders(kind, recs) : Before(kind, recs[x[1]], recs[x[2]])}

\* The fields of a version that was decoded.
LEMMA VersionFields ==
  ASSUME NEW i \in Ids, NEW r \in Versions(i)
  PROVE  /\ r # None /\ r.id = i /\ r.on = i /\ r.rev \in 1..MaxRev
         /\ r.rank \in Int \cup {None} /\ r.due \in Int \cup {None} /\ r.deleted \in BOOLEAN
         /\ [r EXCEPT !.on = i] = r
<1>1. PICK v \in 1..MaxRev, s \in Shapes :
        r = [id |-> i, on |-> i, rev |-> v, rank |-> s.rank, due |-> s.due, deleted |-> s.deleted]
  BY DEF Versions
<1>2. s.rank \in Int \cup {None} /\ s.due \in Int \cup {None} /\ s.deleted \in BOOLEAN
  BY IndexConstants
<1>3. r \in [id : Ids, on : Ids, rev : Nat, rank : Int \cup {None}, due : Int \cup {None},
             deleted : BOOLEAN]
  BY <1>1, <1>2
<1> QED BY <1>1, <1>2, <1>3, IndexConstants

\* What they are sorted by are numbers.
LEMMA SortKeys ==
  ASSUME NEW kind \in Kinds, NEW recs, Held(recs), NEW i \in Holders(kind, recs)
  PROVE  /\ i \in Ids /\ recs[i].id = i /\ i.key \in Int /\ i.scope \in Int
         /\ IF kind = "ranked" THEN recs[i].rank \in Int ELSE recs[i].due \in Int
<1>1. i \in Ids /\ In(kind, recs[i])
  BY DEF Holders
<1>2. recs[i] # None
  BY <1>1 DEF In, IsRanked, IsDue
<1>3. recs[i] \in Versions(i)
  BY <1>1, <1>2 DEF Held
<1>4. /\ recs[i].id = i /\ recs[i].rank \in Int \cup {None} /\ recs[i].due \in Int \cup {None}
  BY <1>1, <1>3, VersionFields
<1>5. IF kind = "ranked" THEN recs[i].rank # None ELSE recs[i].due # None
  BY <1>1 DEF In, IsRanked, IsDue
<1>6. i.key \in Int /\ i.scope \in Int
  BY <1>1, IndexConstants
<1> QED BY <1>1, <1>4, <1>5, <1>6

\* They are a strict linear order.
LEMMA Linear ==
  ASSUME NEW kind \in Kinds, NEW recs, Held(recs), NEW a \in Holders(kind, recs),
         NEW b \in Holders(kind, recs), NEW c \in Holders(kind, recs)
  PROVE  /\ ~Before(kind, recs[a], recs[a])
         /\ Before(kind, recs[a], recs[b]) => ~Before(kind, recs[b], recs[a])
         /\ a # b => Before(kind, recs[a], recs[b]) \/ Before(kind, recs[b], recs[a])
         /\ Before(kind, recs[a], recs[b]) /\ Before(kind, recs[b], recs[c]) =>
              Before(kind, recs[a], recs[c])
<1>1. /\ recs[a].id = a /\ recs[b].id = b /\ recs[c].id = c
      /\ a.key \in Int /\ b.key \in Int /\ c.key \in Int
      /\ a.scope \in Int /\ b.scope \in Int /\ c.scope \in Int
  BY SortKeys
<1>2. a # b => a.key # b.key \/ a.scope # b.scope
  <2>1. a \in [scope : Int, key : Int] /\ b \in [scope : Int, key : Int]
    BY SortKeys, IndexConstants
  <2> QED BY <2>1
<1>3. CASE kind = "ranked"
  <2>1. recs[a].rank \in Int /\ recs[b].rank \in Int /\ recs[c].rank \in Int
    BY <1>3, SortKeys
  <2> QED BY <1>1, <1>2, <1>3, <2>1 DEF Before, OrderedRankedBefore
<1>4. CASE kind = "due"
  <2>1. recs[a].due \in Int /\ recs[b].due \in Int /\ recs[c].due \in Int
    BY <1>4, SortKeys
  <2> QED BY <1>1, <1>2, <1>4, <2>1 DEF Before, OrderedDueBefore
<1> QED BY <1>3, <1>4 DEF Kinds

\* The order of an index, as a relation, is strict.
LEMMA RelStrict ==
  ASSUME NEW kind \in Kinds, NEW recs, Held(recs)
  PROVE  /\ Strict(Rel(kind, recs))
         /\ \A a, b \in Holders(kind, recs) : <<a, b>> \in Rel(kind, recs) <=> Before(kind, recs[a], recs[b])
         /\ \A a, b : <<a, b>> \in Rel(kind, recs) => a \in Holders(kind, recs) /\ b \in Holders(kind, recs)
<1>1. ASSUME NEW a, NEW b
      PROVE  <<a, b>> \in Rel(kind, recs) <=> /\ a \in Holders(kind, recs) /\ b \in Holders(kind, recs)
                                             /\ Before(kind, recs[a], recs[b])
  BY DEF Rel
<1>2. Strict(Rel(kind, recs))
  BY <1>1, Linear DEF Strict
<1> QED BY <1>1, <1>2

-----------------------------------------------------------------------------
(* Moving a record in an index *)

\* An index of identities M.
Indexes(q, kind, recs, M) ==
  q \in Seq(Ids) /\ Sorted(q, Rel(kind, recs)) /\ Elements(q) = M /\ M \subseteq Holders(kind, recs)

\* The lower bound of a version: before it is what comes before it.
LEMMA LowerBoundIs ==
  ASSUME NEW kind \in Kinds, NEW recs, Held(recs), NEW M, NEW q, Indexes(q, kind, recs, M),
         NEW id \in Holders(kind, recs)
  PROVE  /\ LowerBound(recs, q, kind, recs[id]) \in 0..Len(q)
         /\ \A n \in 1..Len(q) : /\ q[n] \in M
                                 /\ Before(kind, recs[q[n]], recs[id]) <=>
                                      n <= LowerBound(recs, q, kind, recs[id])
<1> DEFINE left == {e \in ToSet(q) : Before(kind, recs[e], recs[id])}
<1>1. /\ q \in Seq(Ids) /\ Sorted(q, Rel(kind, recs))
      /\ \A n \in 1..Len(q) : q[n] \in M /\ q[n] \in Holders(kind, recs) /\ q[n] \in ToSet(q)
  BY DEF Indexes, Elements, ToSet
<1>2. \A n \in 1..Len(q) : q[n] \in left <=> Before(kind, recs[q[n]], recs[id])
  BY <1>1
<1>3. Prefix(q, left)
  <2> HIDE DEF left
  <2> SUFFICES ASSUME NEW m \in 1..Len(q), NEW n \in 1..Len(q), m < n, q[n] \in left
               PROVE  q[m] \in left
    BY DEF Prefix
  <2>1. <<q[m], q[n]>> \in Rel(kind, recs)
    BY <1>1 DEF Sorted
  <2>2. Before(kind, recs[q[m]], recs[q[n]]) /\ Before(kind, recs[q[n]], recs[id])
    BY <1>1, <1>2, <2>1, RelStrict
  <2>3. Before(kind, recs[q[m]], recs[id])
    BY <1>1, <2>2, Linear
  <2> QED BY <1>2, <2>3
<1>4. LowerBound(recs, q, kind, recs[id]) = Search(q, left)
  BY DEF LowerBound
<1> HIDE DEF left
<1>5. /\ Search(q, left) \in 0..Len(q)
      /\ \A n \in 1..Len(q) : q[n] \in left <=> n <= Search(q, left)
  BY <1>1, <1>3, Finds
<1> QED BY <1>1, <1>2, <1>4, <1>5

\* insertCurrentLocked
LEMMA InsertExact ==
  ASSUME NEW kind \in Kinds, NEW recs, Held(recs), NEW M, NEW q, Indexes(q, kind, recs, M),
         NEW id \in Holders(kind, recs), id \notin M
  PROVE  Indexes(Inserted(recs, q, kind, id), kind, recs, M \cup {id})
<1>1. PICK p \in 0..Len(q) :
        /\ p = LowerBound(recs, q, kind, recs[id])
        /\ \A n \in 1..Len(q) : q[n] \in M /\ (Before(kind, recs[q[n]], recs[id]) <=> n <= p)
  BY LowerBoundIs
<1>2. q \in Seq(Ids) /\ Sorted(q, Rel(kind, recs)) /\ Elements(q) = M /\ M \subseteq Holders(kind, recs)
      /\ Len(q) \in Nat
  BY DEF Indexes
<1>3. PICK i \in 1..Len(q) + 1 : i = p + 1
  BY <1>2
<1>4. ASSUME NEW n \in 1..Len(q)
      PROVE  IF n < i THEN <<q[n], id>> \in Rel(kind, recs) ELSE <<id, q[n]>> \in Rel(kind, recs)
  <2>1. q[n] \in Holders(kind, recs) /\ q[n] # id
    BY <1>1, <1>2
  <2>2. n < i <=> n <= p
    BY <1>2, <1>3
  <2>3. n <= p => Before(kind, recs[q[n]], recs[id])
    BY <1>1
  <2>4. ~(n <= p) => Before(kind, recs[id], recs[q[n]])
    BY <1>1, <2>1, Linear
  <2> QED BY <2>1, <2>2, <2>3, <2>4, RelStrict
<1>5. id \in Ids
  BY DEF Holders
<1>6. /\ InsertAt(q, i, id) \in Seq(Ids) /\ Sorted(InsertAt(q, i, id), Rel(kind, recs))
      /\ Elements(InsertAt(q, i, id)) = M \cup {id}
  <2>1. PICK R : R = Rel(kind, recs)
    OBVIOUS
  <2>2. Sorted(q, R) /\ Splits(q, i, id, R)
    BY <1>2, <1>4, <2>1 DEF Splits
  <2>3. /\ InsertAt(q, i, id) \in Seq(Ids) /\ Sorted(InsertAt(q, i, id), R)
        /\ Elements(InsertAt(q, i, id)) = Elements(q) \cup {id}
    BY <1>2, <1>5, <2>2, InsertSorted
  <2> QED BY <1>2, <2>1, <2>3
<1>7. Inserted(recs, q, kind, id) = InsertAt(q, i, id)
  BY <1>1, <1>3 DEF Inserted
<1> QED BY <1>2, <1>6, <1>7 DEF Indexes

\* removeCurrentLocked
LEMMA RemoveExact ==
  ASSUME NEW kind \in Kinds, Held(records), NEW M, NEW q, Indexes(q, kind, records, M), NEW id \in M
  PROVE  Indexes(Removed(q, kind, id), kind, records, M \ {id})
<1>1. /\ q \in Seq(Ids) /\ Sorted(q, Rel(kind, records)) /\ Elements(q) = M
      /\ M \subseteq Holders(kind, records) /\ id \in Holders(kind, records) /\ Len(q) \in Nat
  BY DEF Indexes
<1>2. PICK p \in 0..Len(q) :
        /\ p = LowerBound(records, q, kind, records[id])
        /\ \A n \in 1..Len(q) : q[n] \in M /\ (Before(kind, records[q[n]], records[id]) <=> n <= p)
  BY <1>1, LowerBoundIs
<1>3. PICK k \in 1..Len(q) : q[k] = id
  BY <1>1 DEF Elements
<1>4. \A n \in 1..Len(q) : n < k => Before(kind, records[q[n]], records[id])
  <2>1. ASSUME NEW n \in 1..Len(q), n < k PROVE <<q[n], id>> \in Rel(kind, records)
    BY <1>1, <1>3, <2>1 DEF Sorted
  <2> QED BY <1>1, <1>2, <2>1, RelStrict
<1>5. ASSUME NEW n \in 1..Len(q), q[n] = id PROVE n = k
  <2>1. ~(n < k) /\ ~(k < n)
    BY <1>1, <1>3, <1>5, RelStrict DEF Sorted, Strict
  <2> QED BY <2>1
<1>6. ~Before(kind, records[id], records[id])
  BY <1>1, Linear
<1>7. k = p + 1
  <2>1. ~(k <= p)
    BY <1>2, <1>3, <1>6
  <2>2. CASE k > p + 1
    <3>1. p + 1 \in 1..Len(q) /\ p + 1 < k /\ ~(p + 1 <= p)
      BY <1>1, <2>2
    <3> QED BY <1>2, <1>4, <3>1
  <2> QED BY <2>1, <2>2
<1>8. Locate(q, kind, id) = {k}
  <2>1. Locate(q, kind, id) = {n \in p + 1..Len(q) :
          /\ q[n] = id /\ \A m \in p + 1..n : ~Before(kind, records[id], records[q[m]])}
    BY <1>2 DEF Locate
  <2>2. k \in p + 1..Len(q) /\ \A m \in p + 1..k : m = k
    BY <1>1, <1>7
  <2>3. \A n \in p + 1..Len(q) : n \in 1..Len(q)
    BY <1>1
  <2> QED BY <1>3, <1>5, <1>6, <2>1, <2>2, <2>3
<1>9. Removed(q, kind, id) = RemoveAt(q, k)
  <2>1. (CHOOSE n \in {k} : \A m \in {k} : n <= m) = k
    OBVIOUS
  <2> QED BY <1>8, <2>1 DEF Removed
<1>10. /\ RemoveAt(q, k) \in Seq(Ids) /\ Sorted(RemoveAt(q, k), Rel(kind, records))
       /\ Elements(RemoveAt(q, k)) = M \ {id}
  <2>1. PICK R : R = Rel(kind, records) /\ Strict(R) /\ Sorted(q, R)
    BY <1>1, RelStrict
  <2>2. /\ RemoveAt(q, k) \in Seq(Ids) /\ Sorted(RemoveAt(q, k), R)
        /\ Elements(RemoveAt(q, k)) = Elements(q) \ {q[k]}
    BY <1>1, <2>1, RemoveSorted
  <2> QED BY <1>1, <1>3, <2>1, <2>2
<1> QED BY <1>1, <1>9, <1>10 DEF Indexes

\* An index that does not hold the identity is left alone by its versions.
LEMMA KeepExact ==
  ASSUME NEW kind \in Kinds, NEW old, NEW recs, Held(old), Held(recs), NEW M, NEW q,
         Indexes(q, kind, old, M), NEW id, id \notin M,
         \A i \in Ids : i # id => recs[i] = old[i]
  PROVE  Indexes(q, kind, recs, M)
<1>1. q \in Seq(Ids) /\ Sorted(q, Rel(kind, old)) /\ Elements(q) = M /\ M \subseteq Holders(kind, old)
  BY DEF Indexes
<1>2. \A a \in M : a \in Holders(kind, recs) /\ recs[a] = old[a]
  BY <1>1 DEF Holders
<1>3. ASSUME NEW m \in 1..Len(q), NEW n \in 1..Len(q), m < n
      PROVE  <<q[m], q[n]>> \in Rel(kind, recs)
  <2>1. q[m] \in M /\ q[n] \in M /\ <<q[m], q[n]>> \in Rel(kind, old)
    BY <1>1, <1>3 DEF Elements, Sorted
  <2>2. Before(kind, old[q[m]], old[q[n]])
    BY <1>1, <2>1, RelStrict
  <2> QED BY <1>2, <2>1, <2>2, RelStrict
<1> QED BY <1>1, <1>2, <1>3 DEF Indexes, Sorted

\* An index after a version has become another.
LEMMA MoveExact ==
  ASSUME NEW kind \in Kinds, DOMAIN records = Ids, Held(records), NEW M, NEW q,
         Indexes(q, kind, records, M), NEW id \in Ids, id \in M <=> In(kind, records[id]),
         NEW r \in Versions(id), NEW recs, recs = [records EXCEPT ![id] = r]
  PROVE  Indexes(Moved(q, kind, id, r), kind, recs, IF In(kind, r) THEN M \cup {id} ELSE M \ {id})
<1> DEFINE kept == IF In(kind, records[id]) THEN Removed(q, kind, id) ELSE q
<1>1. Indexes(kept, kind, records, M \ {id})
  <2>1. CASE id \in M
    BY <2>1, RemoveExact
  <2>2. CASE id \notin M
    <3>1. M \ {id} = M
      BY <2>2
    <3> QED BY <2>2, <3>1
  <2> QED BY <2>1, <2>2
<1>2. recs[id] = r /\ \A i \in Ids : i # id => recs[i] = records[i]
  OBVIOUS
<1>3. Held(recs)
  BY <1>2 DEF Held
<1>4. Moved(q, kind, id, r) = IF In(kind, r) THEN Inserted(recs, kept, kind, id) ELSE kept
  BY DEF Moved
<1> HIDE DEF kept
<1>5. Indexes(kept, kind, recs, M \ {id})
  BY <1>1, <1>2, <1>3, KeepExact
<1>6. CASE In(kind, r)
  <2>1. id \in Holders(kind, recs) /\ id \notin M \ {id} /\ (M \ {id}) \cup {id} = M \cup {id}
    BY <1>2, <1>6 DEF Holders
  <2>2. Indexes(Inserted(recs, kept, kind, id), kind, recs, (M \ {id}) \cup {id})
    BY <1>3, <1>5, <2>1, InsertExact
  <2> QED BY <1>4, <1>6, <2>1, <2>2
<1>7. CASE ~In(kind, r)
  BY <1>4, <1>5, <1>7
<1> QED BY <1>6, <1>7

\* By order.
OrderRel == {x \in Ids \X Ids : OrderOf[x[1]] < OrderOf[x[2]]}

\* Orders are numbers, and the relation compares them.
LEMMA OrderTyped ==
  /\ \A i \in Ids : OrderOf[i] \in 1..MaxOrder /\ OrderOf[i] \in Nat
  /\ \A a, b \in Ids : <<a, b>> \in OrderRel <=> OrderOf[a] < OrderOf[b]
  BY IndexConstants DEF OrderRel

\* The position of an order in the index of a scope.
LEMMA OrderLowerBoundIs ==
  ASSUME NEW q \in Seq(Ids), Sorted(q, OrderRel), NEW o \in Nat
  PROVE  /\ OrderLowerBound(q, o) \in 0..Len(q)
         /\ \A n \in 1..Len(q) : OrderOf[q[n]] < o <=> n <= OrderLowerBound(q, o)
<1> DEFINE left == {e \in Ids : OrderOf[e] < o}
<1>1. \A n \in 1..Len(q) : q[n] \in Ids
  OBVIOUS
<1>2. \A n \in 1..Len(q) : q[n] \in left <=> OrderOf[q[n]] < o
  BY <1>1
<1>3. OrderLowerBound(q, o) = Search(q, left)
  BY DEF OrderLowerBound
<1>4. Prefix(q, left)
  <2> HIDE DEF left
  <2> SUFFICES ASSUME NEW m \in 1..Len(q), NEW n \in 1..Len(q), m < n, q[n] \in left
               PROVE  q[m] \in left
    BY DEF Prefix
  <2>1. OrderOf[q[m]] < OrderOf[q[n]]
    BY <1>1, OrderTyped DEF Sorted
  <2>2. OrderOf[q[m]] \in Nat /\ OrderOf[q[n]] \in Nat /\ OrderOf[q[n]] < o
    BY <1>1, <1>2, OrderTyped
  <2>3. \A a, b \in Nat : a < b /\ b < o => a < o
    OBVIOUS
  <2> QED BY <1>2, <2>1, <2>2, <2>3
<1> HIDE DEF left
<1>5. /\ Search(q, left) \in 0..Len(q)
      /\ \A n \in 1..Len(q) : q[n] \in left <=> n <= Search(q, left)
  BY <1>4, Finds
<1> QED BY <1>2, <1>3, <1>5

\* A new identity goes where its order says.
LEMMA OrderInsertExact ==
  ASSUME NEW q \in Seq(Ids), Sorted(q, OrderRel), NEW id \in Ids, id \notin Elements(q),
         \A i \in Elements(q) : i.scope = id.scope
  PROVE  LET r == InsertAt(q, OrderLowerBound(q, OrderOf[id]) + 1, id)
         IN r \in Seq(Ids) /\ Sorted(r, OrderRel) /\ Elements(r) = Elements(q) \cup {id}
<1>1. PICK p \in 0..Len(q) :
        /\ p = OrderLowerBound(q, OrderOf[id])
        /\ \A n \in 1..Len(q) : OrderOf[q[n]] < OrderOf[id] <=> n <= p
  BY OrderTyped, OrderLowerBoundIs
<1>2. PICK i \in 1..Len(q) + 1 : i = p + 1
  OBVIOUS
<1>3. ASSUME NEW n \in 1..Len(q)
      PROVE  IF n < i THEN <<q[n], id>> \in OrderRel ELSE <<id, q[n]>> \in OrderRel
  <2>0. q[n] \in Elements(q) /\ q[n] \in Ids
    BY DEF Elements
  <2>1. q[n] \in Ids /\ q[n] # id /\ q[n].scope = id.scope
    BY <2>0
  <2>2. OrderOf[q[n]] # OrderOf[id] /\ OrderOf[q[n]] \in Nat /\ OrderOf[id] \in Nat
    BY <2>1, OrderTyped, IndexConstants
  <2>3. n < i <=> n <= p
    BY <1>2
  <2>4. n < i <=> OrderOf[q[n]] < OrderOf[id]
    BY <1>1, <2>3
  <2>5. ~(n < i) => OrderOf[id] < OrderOf[q[n]]
    <3>1. \A a, b \in Nat : a # b /\ ~(a < b) => b < a
      OBVIOUS
    <3> QED BY <2>2, <2>4, <3>1
  <2> QED BY <2>1, <2>4, <2>5, OrderTyped
<1>4. Splits(q, i, id, OrderRel)
  BY <1>3 DEF Splits
<1>5. PICK R : R = OrderRel /\ Sorted(q, R) /\ Splits(q, i, id, R)
  BY <1>4
<1>6. /\ InsertAt(q, i, id) \in Seq(Ids) /\ Sorted(InsertAt(q, i, id), R)
      /\ Elements(InsertAt(q, i, id)) = Elements(q) \cup {id}
  BY <1>5, InsertSorted
<1> QED BY <1>1, <1>2, <1>5, <1>6

-----------------------------------------------------------------------------
(* The three indexes *)

OrderMembers(s, recs) == {i \in Ids : recs[i] # None /\ i.scope = s}
RankMembers(s, recs) == {i \in Ids : IsRanked(recs[i]) /\ RankingScopeOf[i] = s}

Exact(ord, rnk, du, recs) ==
  /\ \A s \in Scopes : Sorted(ord[s], OrderRel) /\ Elements(ord[s]) = OrderMembers(s, recs)
  /\ \A s \in RankingScopes : Indexes(rnk[s], "ranked", recs, RankMembers(s, recs))
  /\ Indexes(du, "due", recs, Holders("due", recs))

\* Applying a version keeps them.
LEMMA ApplyExact ==
  ASSUME DOMAIN records = Ids, Held(records), Exact(order, ranked, due, records),
         order \in [Scopes -> Seq(Ids)], ranked \in [RankingScopes -> Seq(Ids)],
         NEW id \in Ids, NEW r \in Versions(id), ApplyRecord(id, r)
  PROVE  /\ DOMAIN records' = Ids /\ Held(records') /\ Exact(order', ranked', due', records')
         /\ order' \in [Scopes -> Seq(Ids)] /\ ranked' \in [RankingScopes -> Seq(Ids)]
<1>1. /\ records' = [records EXCEPT ![id] = r]
      /\ order' = IF records[id] # None THEN order
                  ELSE [order EXCEPT ![id.scope] =
                          InsertAt(order[id.scope], OrderLowerBound(order[id.scope], OrderOf[id]) + 1, id)]
      /\ ranked' = [ranked EXCEPT ![RankingScopeOf[id]] =
                      Moved(ranked[RankingScopeOf[id]], "ranked", id, r)]
      /\ due' = Moved(due, "due", id, r)
  BY DEF ApplyRecord
<1>2. PICK recs : recs = records' /\ recs = [records EXCEPT ![id] = r]
  BY <1>1
<1>3. /\ DOMAIN recs = Ids /\ recs[id] = r /\ \A i \in Ids : i # id => recs[i] = records[i]
      /\ r # None /\ id.scope \in Scopes /\ RankingScopeOf[id] \in RankingScopes
  BY <1>2, VersionFields DEF Scopes, RankingScopes
<1>4. Held(recs)
  BY <1>3 DEF Held
<1>5. /\ order' \in [Scopes -> Seq(Ids)]
      /\ \A s \in Scopes : Sorted(order'[s], OrderRel) /\ Elements(order'[s]) = OrderMembers(s, recs)
  <2>1. CASE records[id] # None
    <3>1. \A s \in Scopes : OrderMembers(s, recs) = OrderMembers(s, records)
      BY <1>3, <2>1 DEF OrderMembers
    <3> QED BY <1>1, <2>1, <3>1 DEF Exact
  <2>2. CASE records[id] = None
    <3>1. PICK q \in Seq(Ids) : q = order[id.scope] /\ Sorted(q, OrderRel) /\ Elements(q) = OrderMembers(id.scope, records)
      BY <1>3 DEF Exact
    <3>2. id \notin Elements(q) /\ \A i \in Elements(q) : i.scope = id.scope
      BY <2>2, <3>1 DEF OrderMembers
    <3>3. PICK x : /\ x = InsertAt(q, OrderLowerBound(q, OrderOf[id]) + 1, id)
                   /\ x \in Seq(Ids) /\ Sorted(x, OrderRel) /\ Elements(x) = Elements(q) \cup {id}
      BY <3>1, <3>2, OrderInsertExact
    <3>4. order' = [order EXCEPT ![id.scope] = x]
      BY <1>1, <2>2, <3>1, <3>3
    <3>5. OrderMembers(id.scope, recs) = OrderMembers(id.scope, records) \cup {id}
      BY <1>3 DEF OrderMembers
    <3>6. \A s \in Scopes : s # id.scope => OrderMembers(s, recs) = OrderMembers(s, records)
      BY <1>3 DEF OrderMembers
    <3> QED BY <1>3, <3>1, <3>3, <3>4, <3>5, <3>6 DEF Exact
  <2> QED BY <2>1, <2>2
<1>6. ASSUME NEW s \in RankingScopes
      PROVE  /\ ranked'[s] \in Seq(Ids)
             /\ Indexes(ranked'[s], "ranked", recs, RankMembers(s, recs))
  <2>0. Indexes(ranked[s], "ranked", records, RankMembers(s, records)) /\ "ranked" \in Kinds
    BY DEF Exact, Kinds
  <2>1. CASE s = RankingScopeOf[id]
    <3>1. id \in RankMembers(s, records) <=> In("ranked", records[id])
      BY <2>1 DEF RankMembers, In
    <3>2. RankMembers(s, recs) = IF In("ranked", r) THEN RankMembers(s, records) \cup {id}
                                 ELSE RankMembers(s, records) \ {id}
      BY <1>3, <2>1 DEF RankMembers, In
    <3>3. Indexes(Moved(ranked[s], "ranked", id, r), "ranked", recs, RankMembers(s, recs))
      <4>1. PICK M : M = RankMembers(s, records)
        OBVIOUS
      <4>2. Indexes(Moved(ranked[s], "ranked", id, r), "ranked", recs,
                    IF In("ranked", r) THEN M \cup {id} ELSE M \ {id})
        BY <1>2, <2>0, <3>1, <4>1, MoveExact
      <4> QED BY <3>2, <4>1, <4>2
    <3>4. ranked'[s] = Moved(ranked[s], "ranked", id, r)
      BY <1>1, <2>1
    <3> QED BY <3>3, <3>4 DEF Indexes
  <2>2. CASE s # RankingScopeOf[id]
    <3>1. RankMembers(s, recs) = RankMembers(s, records) /\ id \notin RankMembers(s, records)
      BY <1>3, <2>2 DEF RankMembers
    <3>2. ranked'[s] = ranked[s]
      BY <1>1, <2>2
    <3>3. Indexes(ranked[s], "ranked", recs, RankMembers(s, records))
      BY <1>3, <1>4, <2>0, <3>1, KeepExact
    <3> QED BY <3>1, <3>2, <3>3 DEF Indexes
  <2> QED BY <2>1, <2>2
<1>7. ranked' \in [RankingScopes -> Seq(Ids)]
  BY <1>1, <1>6
<1>8. Indexes(due', "due", recs, Holders("due", recs))
  <2>0. Indexes(due, "due", records, Holders("due", records)) /\ "due" \in Kinds
    BY DEF Exact, Kinds
  <2>1. id \in Holders("due", records) <=> In("due", records[id])
    BY DEF Holders
  <2>2. Holders("due", recs) = IF In("due", r) THEN Holders("due", records) \cup {id}
                               ELSE Holders("due", records) \ {id}
    BY <1>3 DEF Holders
  <2>3. Indexes(Moved(due, "due", id, r), "due", recs, Holders("due", recs))
    <3>1. PICK M : M = Holders("due", records)
      OBVIOUS
    <3>2. Indexes(Moved(due, "due", id, r), "due", recs, IF In("due", r) THEN M \cup {id} ELSE M \ {id})
      BY <1>2, <2>0, <2>1, <3>1, MoveExact
    <3> QED BY <2>2, <3>1, <3>2
  <2> QED BY <1>1, <2>3
<1> QED BY <1>2, <1>3, <1>4, <1>5, <1>6, <1>7, <1>8 DEF Exact

\* The types of the indexes.
IndexTypes ==
  /\ DOMAIN records = Ids /\ Held(records) /\ due \in Seq(Ids)
  /\ order \in [Scopes -> Seq(Ids)] /\ ranked \in [RankingScopes -> Seq(Ids)]

Ascending(q, kind, recs) ==
  \A m, n \in 1..Len(q) : m < n => Before(kind, recs[q[m]], recs[q[n]])

\* What a sorted index is, without its relation.
LEMMA IndexIs ==
  ASSUME NEW kind \in Kinds, NEW recs, Held(recs), NEW M, M \subseteq Holders(kind, recs),
         NEW q \in Seq(Ids)
  PROVE  Indexes(q, kind, recs, M) <=> Elements(q) = M /\ Ascending(q, kind, recs)
<1>1. ASSUME Elements(q) = M, NEW m \in 1..Len(q), NEW n \in 1..Len(q)
      PROVE  <<q[m], q[n]>> \in Rel(kind, recs) <=> Before(kind, recs[q[m]], recs[q[n]])
  <2>1. q[m] \in Holders(kind, recs) /\ q[n] \in Holders(kind, recs)
    BY <1>1 DEF Elements
  <2> QED BY <2>1, RelStrict
<1>2. Elements(q) = M => (Sorted(q, Rel(kind, recs)) <=> Ascending(q, kind, recs))
  BY <1>1 DEF Sorted, Ascending
<1> QED BY <1>2 DEF Indexes

\* Sorted by the relation is sorted by order.
LEMMA OrderIs ==
  ASSUME NEW q \in Seq(Ids)
  PROVE  Sorted(q, OrderRel) <=>
           \A m, n \in 1..Len(q) : m < n => OrderOf[q[m]] < OrderOf[q[n]]
<1>1. \A n \in 1..Len(q) : q[n] \in Ids
  OBVIOUS
<1> QED BY <1>1, OrderTyped DEF Sorted

OrderedList(s) == [kind |-> "ordered", of |-> s]
RankedList(s) == [kind |-> "ranked", of |-> s]
DueList(b) == [kind |-> "due", of |-> b]

\* A query is of one of the three kinds.
LEMMA QueryKinds ==
  \A q \in Queries : \/ \E s \in Scopes : q = OrderedList(s)
                     \/ \E s \in RankingScopes : q = RankedList(s)
                     \/ \E b \in Bounds : q = DueList(b)
<1> SUFFICES ASSUME NEW q \in Queries
             PROVE  \/ \E s \in Scopes : q = OrderedList(s)
                    \/ \E s \in RankingScopes : q = RankedList(s)
                    \/ \E b \in Bounds : q = DueList(b)
  OBVIOUS
<1>1. CASE q \in [kind : {"ordered"}, of : Scopes]
  <2>1. q.of \in Scopes /\ q = [kind |-> "ordered", of |-> q.of]
    BY <1>1
  <2> QED BY <2>1 DEF OrderedList
<1>2. CASE q \in [kind : {"ranked"}, of : RankingScopes]
  <2>1. q.of \in RankingScopes /\ q = [kind |-> "ranked", of |-> q.of]
    BY <1>2
  <2> QED BY <2>1 DEF RankedList
<1>3. CASE q \in [kind : {"due"}, of : Bounds]
  <2>1. q.of \in Bounds /\ q = [kind |-> "due", of |-> q.of]
    BY <1>3
  <2> QED BY <2>1 DEF DueList
<1> QED BY <1>1, <1>2, <1>3 DEF Queries

\* Each listing against its index.
LEMMA ListIs ==
  IndexTypes =>
    /\ \A s \in Scopes : ListExact(OrderedList(s)) <=>
         Sorted(order[s], OrderRel) /\ Elements(order[s]) = OrderMembers(s, records)
    /\ \A s \in RankingScopes : ListExact(RankedList(s)) <=>
         Indexes(ranked[s], "ranked", records, RankMembers(s, records))
    /\ \A b : ListExact(DueList(b)) <=> Indexes(due, "due", records, Holders("due", records))
<1> SUFFICES ASSUME IndexTypes
             PROVE  /\ \A s \in Scopes : ListExact(OrderedList(s)) <=>
                         Sorted(order[s], OrderRel) /\ Elements(order[s]) = OrderMembers(s, records)
                    /\ \A s \in RankingScopes : ListExact(RankedList(s)) <=>
                         Indexes(ranked[s], "ranked", records, RankMembers(s, records))
                    /\ \A b : ListExact(DueList(b)) <=>
                         Indexes(due, "due", records, Holders("due", records))
  OBVIOUS
<1> USE DEF IndexTypes
<1>1. ASSUME NEW s \in Scopes
      PROVE  ListExact(OrderedList(s)) <=>
               Sorted(order[s], OrderRel) /\ Elements(order[s]) = OrderMembers(s, records)
  <2>1. PICK q \in Seq(Ids) : q = order[s]
    OBVIOUS
  <2>2. Entries(OrderedList(s)) = q /\ Members(OrderedList(s)) = OrderMembers(s, records)
    BY <2>1 DEF Entries, Members, OrderMembers, OrderedList
  <2>3. \A i, j : Precedes(OrderedList(s), i, j) <=> OrderOf[i] < OrderOf[j]
    BY DEF Precedes, OrderedList
  <2>4. {Entries(OrderedList(s))[n] : n \in 1..Len(Entries(OrderedList(s)))} = Elements(q)
    BY <2>2 DEF Elements
  <2>5. ListExact(OrderedList(s)) <=>
          /\ Elements(q) = OrderMembers(s, records)
          /\ \A m, n \in 1..Len(q) : m < n => OrderOf[q[m]] < OrderOf[q[n]]
    BY <2>2, <2>3, <2>4 DEF ListExact
  <2>6. Sorted(q, OrderRel) <=>
          \A m, n \in 1..Len(q) : m < n => OrderOf[q[m]] < OrderOf[q[n]]
    BY OrderIs
  <2> QED BY <2>1, <2>5, <2>6, Zenon
<1>2. ASSUME NEW s \in RankingScopes
      PROVE  ListExact(RankedList(s)) <=>
               Indexes(ranked[s], "ranked", records, RankMembers(s, records))
  <2>1. PICK q \in Seq(Ids) : q = ranked[s]
    OBVIOUS
  <2>2. Entries(RankedList(s)) = q /\ Members(RankedList(s)) = RankMembers(s, records)
    BY <2>1 DEF Entries, Members, RankMembers, RankedList
  <2>3. \A i, j : Precedes(RankedList(s), i, j) <=> Before("ranked", records[i], records[j])
    BY DEF Precedes, Before, RankedList
  <2>4. RankMembers(s, records) \subseteq Holders("ranked", records) /\ "ranked" \in Kinds
    BY DEF RankMembers, Holders, In, Kinds
  <2>5. {Entries(RankedList(s))[n] : n \in 1..Len(Entries(RankedList(s)))} = Elements(q)
    BY <2>2 DEF Elements
  <2>6. (\A m, n \in 1..Len(Entries(RankedList(s))) : m < n => Precedes(RankedList(s), Entries(RankedList(s))[m], Entries(RankedList(s))[n]))
          <=> Ascending(q, "ranked", records)
    BY <2>2, <2>3 DEF Ascending
  <2>7. PICK M : M = RankMembers(s, records) /\ M \subseteq Holders("ranked", records)
    BY <2>4
  <2>8. Indexes(q, "ranked", records, M) <=> Elements(q) = M /\ Ascending(q, "ranked", records)
    BY <2>4, <2>7, IndexIs
  <2>9. ListExact(RankedList(s)) <=> Elements(q) = M /\ Ascending(q, "ranked", records)
    BY <2>2, <2>5, <2>6, <2>7, Zenon DEF ListExact
  <2> QED BY <2>1, <2>7, <2>8, <2>9
<1>3. ASSUME NEW b
      PROVE  ListExact(DueList(b)) <=> Indexes(due, "due", records, Holders("due", records))
  <2>1. PICK q \in Seq(Ids) : q = due
    OBVIOUS
  <2>2. Entries(DueList(b)) = q /\ Members(DueList(b)) = Holders("due", records)
    BY <2>1 DEF Entries, Members, Holders, In, DueList
  <2>3. \A i, j : Precedes(DueList(b), i, j) <=> Before("due", records[i], records[j])
    BY DEF Precedes, Before, DueList
  <2>4. "due" \in Kinds
    BY DEF Kinds
  <2>5. {Entries(DueList(b))[n] : n \in 1..Len(Entries(DueList(b)))} = Elements(q)
    BY <2>2 DEF Elements
  <2>6. (\A m, n \in 1..Len(Entries(DueList(b))) : m < n => Precedes(DueList(b), Entries(DueList(b))[m], Entries(DueList(b))[n]))
          <=> Ascending(q, "due", records)
    BY <2>2, <2>3 DEF Ascending
  <2>7. PICK M : M = Holders("due", records) /\ M \subseteq Holders("due", records)
    BY <2>4
  <2>8. Indexes(q, "due", records, M) <=> Elements(q) = M /\ Ascending(q, "due", records)
    BY <2>4, <2>7, IndexIs
  <2>9. ListExact(DueList(b)) <=> Elements(q) = M /\ Ascending(q, "due", records)
    BY <2>2, <2>5, <2>6, <2>7, Zenon DEF ListExact
  <2> QED BY <2>1, <2>7, <2>8, <2>9
<1> QED BY <1>1, <1>2, <1>3

\* What a reader of the listings sees, and what the indexes are.
Lists == (\A q \in Queries : ListExact(q)) /\ ListExact(DueList(0))

AllExact == Exact(order, ranked, due, records)

\* What a reader of a listing sees is exact just if the indexes behind it are.
LEMMA ListsAre == IndexTypes => (Lists <=> AllExact)
<1> USE DEF AllExact
<1> SUFFICES ASSUME IndexTypes PROVE Lists <=> AllExact
  OBVIOUS
<1>1. ASSUME Lists PROVE Exact(order, ranked, due, records)
  <2>1. \A s \in Scopes : OrderedList(s) \in Queries
    BY DEF Queries, OrderedList
  <2>2. \A s \in RankingScopes : RankedList(s) \in Queries
    BY DEF Queries, RankedList
  <2> QED BY <1>1, <2>1, <2>2, ListIs DEF Lists, Exact
<1>2. ASSUME Exact(order, ranked, due, records) PROVE Lists
  BY <1>2, ListIs, QueryKinds DEF Lists, Exact
<1> QED BY <1>1, <1>2

\* decodeOrderedRecord lets through versions of the subject's own identity.
LEMMA Decoded ==
  ASSUME NEW on \in Ids, NEW p \in Good(on) \cup Foreign(on), Decodes(on, p)
  PROVE  p.rec.id = on /\ [p.rec EXCEPT !.on = on] \in Versions(on)
<1>0. p.rec.id = on
  BY DEF Decodes
<1>1. ASSUME NEW i \in Ids PROVE Some(i) \in Versions(i) /\ Some(i).id = i
  <2>1. PICK s \in Shapes : TRUE
    BY IndexConstants
  <2>2. PICK r \in Versions(i) : r.rev = MaxRev
    <3>1. MaxRev \in 1..MaxRev
      BY IndexConstants
    <3>2. [id |-> i, on |-> i, rev |-> MaxRev, rank |-> s.rank, due |-> s.due, deleted |-> s.deleted]
            \in Versions(i)
      BY <2>1, <3>1 DEF Versions
    <3> QED BY <3>2
  <2>3. Some(i) \in Versions(i)
    BY <2>2 DEF Some
  <2> QED BY <2>3, VersionFields
<1>2. \A v, ns, r : Payload(v, ns, r).rec = r
  BY DEF Payload
<1>3. p.rec \in Versions(on)
  <2>1. CASE p \in Good(on)
    BY <1>2, <2>1 DEF Good
  <2>2. CASE p \in Foreign(on)
    <3>1. p # None
      BY DEF Decodes
    <3>2. ASSUME NEW i \in Ids \ {on}, p = Payload(RecordVersion, Namespace, Some(i)) PROVE FALSE
      BY <1>0, <1>1, <1>2, <3>2
    <3>3. p = Payload(RecordVersion + 1, Namespace, Some(on)) \/ p = Payload(RecordVersion, Elsewhere, Some(on))
      BY <2>2, <3>1, <3>2 DEF Foreign
    <3> QED BY <1>1, <1>2, <3>3
  <2> QED BY <2>1, <2>2
<1> QED BY <1>0, <1>3, VersionFields

-----------------------------------------------------------------------------
(* Where a page begins and how far it may go *)

\* Where a page starts and how far it may go.
Located(q, c) ==
  /\ Start(q, c) \in 0..Len(Entries(q)) /\ Eligible(q) \in 0..Len(Entries(q))
  /\ Start(q, c) <= Eligible(q)
  /\ \A n \in 1..Len(Entries(q)) :
       Entries(q)[n] \in Beyond(q, c) <=> Start(q, c) < n /\ n <= Eligible(q)

\* A page of acceptance order starts behind its order: none is beyond the largest.
LEMMA OrderedLocated ==
  ASSUME IndexTypes, Lists, NEW s \in Scopes, NEW c \in 0..MaxOrder
  PROVE  Located(OrderedList(s), c)
<1>0. PICK q : q = OrderedList(s)
  OBVIOUS
<1>1. PICK e \in Seq(Ids) : q = OrderedList(s) /\ e = order[s]
  BY <1>0 DEF IndexTypes
<1>2. Sorted(e, OrderRel) /\ Elements(e) = OrderMembers(s, records)
  BY <1>1, ListsAre DEF AllExact, Exact
<1>3. /\ Entries(q) = e /\ Members(q) = OrderMembers(s, records)
      /\ Start(q, c) = IF c = MaxOrder THEN Len(e) ELSE OrderLowerBound(e, c + 1)
      /\ Eligible(q) = Len(e) /\ Len(e) \in Nat
      /\ \A i : i \in Beyond(q, c) <=> i \in Members(q) /\ OrderOf[i] > c
  BY <1>1 DEF Entries, Members, Start, Eligible, OrderedStart, Beyond, OrderedList, OrderMembers
<1>4. \A n \in 1..Len(e) : e[n] \in Members(q) /\ OrderOf[e[n]] \in 1..MaxOrder
  <2>1. \A n \in 1..Len(e) : e[n] \in Elements(e) /\ e[n] \in Ids
    BY DEF Elements
  <2> QED BY <1>2, <1>3, <2>1, OrderTyped
<1>5. MaxOrder \in Nat
  BY IndexConstants
<1>6. CASE c = MaxOrder
  <2>1. \A n \in 1..Len(e) : ~(OrderOf[e[n]] > c) /\ ~(Len(e) < n)
    BY <1>3, <1>4, <1>5, <1>6
  <2> QED BY <1>1, <1>3, <1>6, <2>1 DEF Located
<1>7. CASE c # MaxOrder
  <2>0. PICK d \in Nat : d = c + 1
    OBVIOUS
  <2>1. PICK p \in 0..Len(e) :
          p = OrderLowerBound(e, d) /\ \A n \in 1..Len(e) : OrderOf[e[n]] < d <=> n <= p
    BY <1>2, OrderLowerBoundIs
  <2>2. ASSUME NEW n \in 1..Len(e) PROVE OrderOf[e[n]] > c <=> p < n /\ n <= Len(e)
    <3>1. OrderOf[e[n]] \in Nat
      BY <1>4, <1>5
    <3>2. PICK o \in Nat : o = OrderOf[e[n]] /\ (o < d <=> n <= p)
      BY <2>1, <3>1
    <3>3. o > c <=> ~(o < d)
      BY <1>5, <2>0
    <3>4. p < n <=> ~(n <= p)
      OBVIOUS
    <3> QED BY <1>3, <3>2, <3>3, <3>4
  <2>3. p <= Len(e)
    BY <1>3
  <2> QED BY <1>1, <1>3, <1>4, <1>7, <2>0, <2>1, <2>2, <2>3 DEF Located
<1> QED BY <1>6, <1>7

\* A position between versions.
Probe(kind, c) == c.id \in Ids /\ IF kind = "ranked" THEN c.rank \in Int ELSE c.due \in Int

\* A position compares with every record of the index as a record would.
LEMMA ProbeBefore ==
  ASSUME NEW kind \in Kinds, NEW recs, Held(recs), NEW a \in Holders(kind, recs),
         NEW b \in Holders(kind, recs), NEW c, Probe(kind, c)
  PROVE  Before(kind, c, recs[a]) /\ Before(kind, recs[a], recs[b]) => Before(kind, c, recs[b])
<1>1. /\ recs[a].id = a /\ recs[b].id = b /\ a.key \in Int /\ b.key \in Int
      /\ a.scope \in Int /\ b.scope \in Int
  BY SortKeys
<1>2. c.id.key \in Int /\ c.id.scope \in Int
  BY IndexConstants DEF Probe
<1>3. CASE kind = "ranked"
  <2>1. recs[a].rank \in Int /\ recs[b].rank \in Int /\ c.rank \in Int
    BY <1>3, SortKeys DEF Probe
  <2> QED BY <1>1, <1>2, <1>3, <2>1 DEF Before, OrderedRankedBefore
<1>4. CASE kind = "due"
  <2>1. recs[a].due \in Int /\ recs[b].due \in Int /\ c.due \in Int
    BY <1>4, SortKeys DEF Probe
  <2> QED BY <1>1, <1>2, <1>4, <2>1 DEF Before, OrderedDueBefore
<1> QED BY <1>3, <1>4 DEF Kinds

\* The upper bound of a position: after it is what comes after it.
LEMMA UpperBoundIs ==
  ASSUME NEW kind \in Kinds, NEW recs, Held(recs), NEW M, NEW q, Indexes(q, kind, recs, M),
         NEW c, Probe(kind, c)
  PROVE  /\ UpperBound(recs, q, kind, c) \in 0..Len(q)
         /\ \A n \in 1..Len(q) : Before(kind, c, recs[q[n]]) <=> ~(n <= UpperBound(recs, q, kind, c))
<1> DEFINE left == {e \in ToSet(q) : ~Before(kind, c, recs[e])}
<1>1. /\ q \in Seq(Ids) /\ Sorted(q, Rel(kind, recs))
      /\ \A n \in 1..Len(q) : q[n] \in Holders(kind, recs) /\ q[n] \in ToSet(q)
  BY DEF Indexes, Elements, ToSet
<1>2. \A n \in 1..Len(q) : q[n] \in left <=> ~Before(kind, c, recs[q[n]])
  BY <1>1
<1>3. Prefix(q, left)
  <2> HIDE DEF left
  <2> SUFFICES ASSUME NEW m \in 1..Len(q), NEW n \in 1..Len(q), m < n, q[n] \in left
               PROVE  q[m] \in left
    BY DEF Prefix
  <2>1. <<q[m], q[n]>> \in Rel(kind, recs)
    BY <1>1 DEF Sorted
  <2>2. Before(kind, recs[q[m]], recs[q[n]]) /\ ~Before(kind, c, recs[q[n]])
    BY <1>1, <1>2, <2>1, RelStrict
  <2>3. ~Before(kind, c, recs[q[m]])
    BY <1>1, <2>2, ProbeBefore
  <2> QED BY <1>2, <2>3
<1>4. UpperBound(recs, q, kind, c) = Search(q, left)
  BY DEF UpperBound
<1> HIDE DEF left
<1>5. /\ Search(q, left) \in 0..Len(q)
      /\ \A n \in 1..Len(q) : q[n] \in left <=> n <= Search(q, left)
  BY <1>1, <1>3, Finds
<1> QED BY <1>2, <1>4, <1>5

\* A token resumes behind the records that do not come after it.
LEMMA ResumedIs ==
  ASSUME NEW kind \in Kinds, Held(records), NEW M, NEW q, Indexes(q, kind, records, M),
         NEW c, c = None \/ Probe(kind, c)
  PROVE  /\ Resumed(q, kind, c) \in 0..Len(q)
         /\ \A n \in 1..Len(q) :
              (c = None \/ Before(kind, c, records[q[n]])) <=> Resumed(q, kind, c) < n
<1>1. Len(q) \in Nat
  BY DEF Indexes
<1>2. CASE c = None
  BY <1>1, <1>2 DEF Resumed
<1>3. CASE c # None
  <2>1. PICK u \in 0..Len(q) :
          /\ u = UpperBound(records, q, kind, c)
          /\ \A n \in 1..Len(q) : Before(kind, c, records[q[n]]) <=> ~(n <= u)
    BY <1>3, UpperBoundIs
  <2>2. Resumed(q, kind, c) = u
    BY <1>3, <2>1 DEF Resumed
  <2>3. \A n \in 1..Len(q) : ~(n <= u) <=> u < n
    OBVIOUS
  <2> QED BY <1>3, <2>1, <2>2, <2>3
<1> QED BY <1>2, <1>3

\* A page of a ranking starts behind its token.
LEMMA RankedLocated ==
  ASSUME IndexTypes, Lists, NEW s \in RankingScopes, NEW c, c = None \/ Probe("ranked", c)
  PROVE  Located(RankedList(s), c)
<1>0. PICK q : q = RankedList(s)
  OBVIOUS
<1>1. PICK e \in Seq(Ids) : q = RankedList(s) /\ e = ranked[s]
  BY <1>0 DEF IndexTypes
<1>2. Indexes(e, "ranked", records, RankMembers(s, records)) /\ Held(records) /\ "ranked" \in Kinds
  BY <1>1, ListsAre DEF AllExact, Exact, IndexTypes, Kinds
<1>3. /\ Entries(q) = e /\ Members(q) = RankMembers(s, records)
      /\ Start(q, c) = Resumed(e, "ranked", c)
      /\ Eligible(q) = Len(e) /\ Len(e) \in Nat
      /\ \A i : i \in Beyond(q, c) <=>
           i \in Members(q) /\ (c = None \/ Before("ranked", c, records[i]))
  BY <1>1 DEF Entries, Members, Start, Eligible, Beyond, Before, RankedList, RankMembers
<1>4. \A n \in 1..Len(e) : e[n] \in Members(q)
  BY <1>2, <1>3 DEF Indexes, Elements
<1>5. /\ Resumed(e, "ranked", c) \in 0..Len(e)
      /\ \A n \in 1..Len(e) :
           (c = None \/ Before("ranked", c, records[e[n]])) <=> Resumed(e, "ranked", c) < n
  BY <1>2, ResumedIs
<1>6. PICK r \in 0..Len(e) : r = Resumed(e, "ranked", c) /\ r <= Len(e)
  BY <1>3, <1>5
<1>7. ASSUME NEW n \in 1..Len(e) PROVE e[n] \in Beyond(q, c) <=> r < n /\ n <= Len(e)
  <2>1. n <= Len(e)
    BY <1>3
  <2>2. e[n] \in Beyond(q, c) <=> c = None \/ Before("ranked", c, records[e[n]])
    BY <1>3, <1>4
  <2> QED BY <1>5, <1>6, <2>1, <2>2
<1>8. Start(q, c) = r /\ Eligible(q) = Len(e) /\ Entries(q) = e /\ Len(e) \in 0..Len(e)
  BY <1>3, <1>6
<1> QED BY <1>1, <1>6, <1>7, <1>8 DEF Located

\* The eligible records of the due index are those up to the bound.
LEMMA DueEndIs ==
  ASSUME Held(records), NEW M, Indexes(due, "due", records, M), NEW b \in Int
  PROVE  /\ DueEnd(b) \in 0..Len(due)
         /\ \A n \in 1..Len(due) : records[due[n]].due \in Int
         /\ \A n \in 1..Len(due) : records[due[n]].due <= b <=> n <= DueEnd(b)
<1> DEFINE left == {e \in ToSet(due) : records[e].due <= b}
<1>0. "due" \in Kinds
  BY DEF Kinds
<1>1. /\ due \in Seq(Ids) /\ Sorted(due, Rel("due", records))
      /\ \A n \in 1..Len(due) : due[n] \in Holders("due", records) /\ due[n] \in ToSet(due)
  BY DEF Indexes, Elements, ToSet
<1>2. /\ \A n \in 1..Len(due) : due[n] \in left <=> records[due[n]].due <= b
      /\ \A n \in 1..Len(due) : records[due[n]].due \in Int
  BY <1>0, <1>1, SortKeys
<1>3. Prefix(due, left)
  <2> HIDE DEF left
  <2> SUFFICES ASSUME NEW m \in 1..Len(due), NEW n \in 1..Len(due), m < n, due[n] \in left
               PROVE  due[m] \in left
    BY DEF Prefix
  <2>1. <<due[m], due[n]>> \in Rel("due", records)
    BY <1>1 DEF Sorted
  <2>2. Before("due", records[due[m]], records[due[n]]) /\ records[due[n]].due <= b
    BY <1>0, <1>1, <1>2, <2>1, RelStrict
  <2>3. PICK x \in Int, y \in Int : x = records[due[m]].due /\ y = records[due[n]].due
    BY <1>2
  <2>4. x <= y
    <3>1. x < y \/ x = y
      BY <2>2, <2>3, Zenon DEF Before, OrderedDueBefore
    <3> QED BY <3>1
  <2>5. x <= b
    BY <2>2, <2>3, <2>4
  <2> QED BY <1>2, <2>3, <2>5
<1>4. DueEnd(b) = Search(due, left)
  BY DEF DueEnd
<1> HIDE DEF left
<1>5. /\ Search(due, left) \in 0..Len(due)
      /\ \A n \in 1..Len(due) : due[n] \in left <=> n <= Search(due, left)
  BY <1>1, <1>3, Finds
<1> QED BY <1>2, <1>4, <1>5

DueBeyond(b, c, i) == records[i].due <= b /\ (c = None \/ Before("due", c, records[i]))

\* A page of the due index starts behind its token and ends at the bound.
LEMMA DueLocated ==
  ASSUME IndexTypes, Lists, NEW b \in Bounds, NEW c, c = None \/ (Probe("due", c) /\ c.due <= b)
  PROVE  Located(DueList(b), c)
<1>1. PICK q : q = DueList(b)
  OBVIOUS
<1>2. Indexes(due, "due", records, Holders("due", records)) /\ Held(records) /\ "due" \in Kinds
  BY <1>1, ListsAre DEF AllExact, Exact, IndexTypes, Kinds
<1>3. /\ Entries(q) = due /\ Members(q) = Holders("due", records)
      /\ Start(q, c) = Resumed(due, "due", c)
      /\ Eligible(q) = DueEnd(b) /\ Len(due) \in Nat
      /\ \A i : i \in Beyond(q, c) <=> i \in Members(q) /\ DueBeyond(b, c, i)
  <2>1. q.kind = "due" /\ q.of = b /\ q.kind # "ordered" /\ q.kind # "ranked"
    BY <1>1 DEF DueList
  <2>2. Entries(q) = due /\ Members(q) = Holders("due", records)
    BY <2>1 DEF Entries, Members, Holders, In
  <2>3. Start(q, c) = Resumed(due, "due", c) /\ Eligible(q) = DueEnd(b) /\ Len(due) \in Nat
    BY <2>1, <2>2 DEF Start, Eligible, IndexTypes
  <2>4. ASSUME NEW i
        PROVE  i \in Beyond(q, c) <=> i \in Members(q) /\ DueBeyond(b, c, i)
    <3>1. Before("due", c, records[i]) <=> OrderedDueBefore(c, records[i])
      BY DEF Before
    <3>2. i \in Beyond(q, c) <=> /\ i \in Members(q) /\ records[i].due <= b
                                 /\ c = None \/ OrderedDueBefore(c, records[i])
      <4>1. (CASE q.kind = "ordered" -> OrderOf[i] > c
               [] q.kind = "ranked" -> c = None \/ OrderedRankedBefore(c, records[i])
               [] q.kind = "due" -> c = None \/ OrderedDueBefore(c, records[i]))
             <=> c = None \/ OrderedDueBefore(c, records[i])
        BY <2>1
      <4> QED BY <2>1, <4>1 DEF Beyond
    <3> QED BY <3>1, <3>2 DEF DueBeyond
  <2> QED BY <2>2, <2>3, <2>4
<1>4. \A n \in 1..Len(due) : due[n] \in Members(q)
  BY <1>2, <1>3 DEF Indexes, Elements
<1>5. PICK r \in 0..Len(due) :
        /\ r = Resumed(due, "due", c)
        /\ \A n \in 1..Len(due) : (c = None \/ Before("due", c, records[due[n]])) <=> r < n
  BY <1>2, ResumedIs
<1>6. PICK z \in 0..Len(due) :
        /\ z = DueEnd(b)
        /\ \A n \in 1..Len(due) : records[due[n]].due \in Int
        /\ \A n \in 1..Len(due) : records[due[n]].due <= b <=> n <= z
  BY <1>2, DueEndIs, IndexConstants
<1>7. r <= z
  <2>1. CASE r = 0
    BY <2>1
  <2>2. CASE r # 0
    <3>1. r \in 1..Len(due) /\ ~(r < r)
      BY <1>3, <2>2
    <3>2. c # None /\ ~Before("due", c, records[due[r]]) /\ records[due[r]].due \in Int
      BY <1>5, <1>6, <3>1
    <3>3. c.due \in Int /\ c.due <= b /\ b \in Int
      BY <3>2, IndexConstants DEF Probe
    <3>4. ~(c.due < records[due[r]].due)
      BY <3>2 DEF Before, OrderedDueBefore
    <3>5. records[due[r]].due <= b
      BY <3>2, <3>3, <3>4
    <3> QED BY <1>6, <3>1, <3>5
  <2> QED BY <2>1, <2>2
<1>8. ASSUME NEW n \in 1..Len(due) PROVE due[n] \in Beyond(q, c) <=> r < n /\ n <= z
  <2>1. due[n] \in Beyond(q, c) <=> DueBeyond(b, c, due[n])
    BY <1>3, <1>4
  <2>2. (c = None \/ Before("due", c, records[due[n]])) <=> r < n
    BY <1>5
  <2>3. records[due[n]].due <= b <=> n <= z
    BY <1>6
  <2> QED BY <2>1, <2>2, <2>3, Zenon DEF DueBeyond
<1>9. Start(q, c) = r /\ Eligible(q) = z /\ Entries(q) = due
  BY <1>3, <1>5, <1>6
<1> QED BY <1>1, <1>7, <1>8, <1>9 DEF Located

\* Each listing starts where its position says and goes no further than it may.
LEMMA Locates ==
  ASSUME IndexTypes, Lists, NEW q \in Queries, NEW c, Fits(q, c)
  PROVE  Located(q, c)
<1>1. CASE \E s \in Scopes : q = OrderedList(s)
  <2>1. PICK s \in Scopes : q = OrderedList(s)
    BY <1>1
  <2>2. c \in 0..MaxOrder
    BY <2>1 DEF Fits, OrderedList
  <2> QED BY <2>1, <2>2, OrderedLocated
<1>2. CASE \E s \in RankingScopes : q = RankedList(s)
  <2>1. PICK s \in RankingScopes : q = RankedList(s)
    BY <1>2
  <2>2. c = None \/ Probe("ranked", c)
    BY <2>1 DEF Fits, RankedList, Probe
  <2> QED BY <2>1, <2>2, RankedLocated
<1>3. CASE \E b \in Bounds : q = DueList(b)
  <2>1. PICK b \in Bounds : q = DueList(b)
    BY <1>3
  <2>2. c = None \/ (Probe("due", c) /\ c.due <= b)
    BY <2>1 DEF Fits, DueList, Probe
  <2> QED BY <2>1, <2>2, DueLocated
<1> QED BY <1>1, <1>2, <1>3, QueryKinds

-----------------------------------------------------------------------------
(* A page, and the position it leaves the caller at *)

\* A page, its bounds and its entries.
PageIs(q, c) ==
  /\ Start(q, c) \in Nat /\ End(q, c) \in Nat /\ Eligible(q) \in Nat
  /\ Start(q, c) <= End(q, c) /\ End(q, c) <= Eligible(q) /\ Eligible(q) <= Len(Entries(q))
  /\ End(q, c) < Eligible(q) => End(q, c) = Start(q, c) + limit
  /\ End(q, c) <= Start(q, c) + limit
  /\ Page(q, c) \in Seq(Ids) /\ Len(Page(q, c)) = End(q, c) - Start(q, c)
  /\ \A n \in 1..Len(Page(q, c)) : Page(q, c)[n] = Entries(q)[Start(q, c) + n]

\* Indexes hold identities.
LEMMA EntriesTyped == IndexTypes => \A q \in Queries : Entries(q) \in Seq(Ids)
<1> SUFFICES ASSUME IndexTypes, NEW q \in Queries PROVE Entries(q) \in Seq(Ids)
  OBVIOUS
<1>1. ASSUME NEW s \in Scopes, q = OrderedList(s) PROVE Entries(q) \in Seq(Ids)
  <2>1. Entries(q) = order[s]
    BY <1>1 DEF Entries, OrderedList
  <2> QED BY <2>1 DEF IndexTypes
<1>2. ASSUME NEW s \in RankingScopes, q = RankedList(s) PROVE Entries(q) \in Seq(Ids)
  <2>1. Entries(q) = ranked[s]
    BY <1>2 DEF Entries, RankedList
  <2> QED BY <2>1 DEF IndexTypes
<1>3. ASSUME NEW b \in Bounds, q = DueList(b) PROVE Entries(q) \in Seq(Ids)
  <2>1. Entries(q) = due
    BY <1>3 DEF Entries, DueList
  <2> QED BY <2>1 DEF IndexTypes
<1> QED BY <1>1, <1>2, <1>3, QueryKinds

\* The page between start and end: its slice bounds are in order.
LEMMA Pages ==
  ASSUME IndexTypes, NEW q \in Queries, NEW c, Located(q, c), limit \in Nat \ {0}
  PROVE  PageIs(q, c)
<1>1. PICK e \in Seq(Ids) : e = Entries(q)
  BY EntriesTyped
<1>2. PICK a \in Nat, z \in Nat : a = Start(q, c) /\ z = Eligible(q) /\ a <= z /\ z <= Len(e) /\ Len(e) \in Nat
  BY <1>1 DEF Located
<1>3. PICK l \in Nat : l = limit /\ l > 0
  OBVIOUS
<1>4. PICK d \in Nat : d = End(q, c) /\ d = IF a + l <= z THEN a + l ELSE z
  BY <1>2, <1>3 DEF End, Smaller
<1>5. a <= d /\ d <= z /\ d <= a + l /\ (d < z => d = a + l)
  <2>1. a <= z /\ d = IF a + l <= z THEN a + l ELSE z
    BY <1>2, <1>4
  <2> QED BY <2>1
<1>6. PICK x : x = SubSeq(e, a + 1, d) /\ x = Page(q, c)
  BY <1>1, <1>2, <1>4 DEF Page
<1>7. /\ x \in Seq(Ids) /\ Len(x) = d - (a + 1) + 1
      /\ \A n \in 1..d - (a + 1) + 1 : x[n] = e[a + 1 + n - 1]
  <2>1. a + 1 \in 1..Len(e) + 1 /\ d \in 0..Len(e) /\ a + 1 <= d + 1
    BY <1>2, <1>5
  <2> QED BY <1>6, <2>1, Slice
<1>8. Len(x) = d - a /\ \A n \in 1..Len(x) : x[n] = e[a + n]
  <2>1. d - (a + 1) + 1 = d - a /\ \A n \in Int : a + 1 + n - 1 = a + n
    OBVIOUS
  <2> QED BY <1>7, <2>1
<1> QED BY <1>1, <1>2, <1>3, <1>4, <1>5, <1>6, <1>7, <1>8 DEF PageIs

\* The entries of a listing are its members, in their order.
LEMMA Entered ==
  ASSUME IndexTypes, Lists, NEW q \in Queries
  PROVE  /\ \A i : i \in Members(q) <=> \E n \in 1..Len(Entries(q)) : Entries(q)[n] = i
         /\ \A m, n \in 1..Len(Entries(q)) : m < n => Precedes(q, Entries(q)[m], Entries(q)[n])
<1>1. ListExact(q)
  BY DEF Lists
<1>2. {Entries(q)[n] : n \in 1..Len(Entries(q))} = Members(q)
  BY <1>1 DEF ListExact
<1>3. \A m, n \in 1..Len(Entries(q)) : m < n => Precedes(q, Entries(q)[m], Entries(q)[n])
  BY <1>1 DEF ListExact
<1>4. \A i : i \in {Entries(q)[n] : n \in 1..Len(Entries(q))} <=> \E n \in 1..Len(Entries(q)) : Entries(q)[n] = i
  OBVIOUS
<1> QED BY <1>2, <1>3, <1>4

\* They have an order.
LEMMA PrecedesStrict ==
  ASSUME IndexTypes, NEW q \in Queries, NEW i \in Members(q), NEW j \in Members(q)
  PROVE  ~Precedes(q, i, i) /\ (Precedes(q, i, j) => ~Precedes(q, j, i))
<1>1. ASSUME NEW s \in Scopes, q = OrderedList(s)
      PROVE  ~Precedes(q, i, i) /\ (Precedes(q, i, j) => ~Precedes(q, j, i))
  <2>1. \A x, y : Precedes(q, x, y) <=> OrderOf[x] < OrderOf[y]
    BY <1>1 DEF Precedes, OrderedList
  <2>2. i \in Ids /\ j \in Ids
    BY <1>1 DEF Members, OrderedList
  <2>3. OrderOf[i] \in Nat /\ OrderOf[j] \in Nat
    BY <2>2, OrderTyped
  <2> QED BY <2>1, <2>3
<1>2. ASSUME NEW s \in RankingScopes, q = RankedList(s)
      PROVE  ~Precedes(q, i, i) /\ (Precedes(q, i, j) => ~Precedes(q, j, i))
  <2>1. \A x, y : Precedes(q, x, y) <=> Before("ranked", records[x], records[y])
    BY <1>2 DEF Precedes, Before, RankedList
  <2>2. i \in Holders("ranked", records) /\ j \in Holders("ranked", records)
    BY <1>2 DEF Members, Holders, In, RankedList
  <2>3. "ranked" \in Kinds /\ Held(records)
    BY DEF Kinds, IndexTypes
  <2> QED BY <2>1, <2>2, <2>3, Linear
<1>3. ASSUME NEW b \in Bounds, q = DueList(b)
      PROVE  ~Precedes(q, i, i) /\ (Precedes(q, i, j) => ~Precedes(q, j, i))
  <2>1. \A x, y : Precedes(q, x, y) <=> Before("due", records[x], records[y])
    BY <1>3 DEF Precedes, Before, DueList
  <2>2. i \in Holders("due", records) /\ j \in Holders("due", records)
    BY <1>3 DEF Members, Holders, In, DueList
  <2>3. "due" \in Kinds /\ Held(records)
    BY DEF Kinds, IndexTypes
  <2> QED BY <2>1, <2>2, <2>3, Linear
<1> QED BY <1>1, <1>2, <1>3, QueryKinds

\* Where entries stand is how they precede each other.
LEMMA EnteredOrder ==
  ASSUME IndexTypes, Lists, NEW q \in Queries, NEW m \in 1..Len(Entries(q)), NEW n \in 1..Len(Entries(q))
  PROVE  /\ Precedes(q, Entries(q)[m], Entries(q)[n]) <=> m < n
         /\ Entries(q)[m] = Entries(q)[n] => m = n
<1>1. PICK i \in Members(q), j \in Members(q) : i = Entries(q)[m] /\ j = Entries(q)[n]
  BY Entered
<1>2. m < n => Precedes(q, i, j)
  BY <1>1, Entered
<1>3. n < m => Precedes(q, j, i)
  BY <1>1, Entered
<1>4. ~Precedes(q, i, i) /\ ~Precedes(q, j, j) /\ ~(Precedes(q, i, j) /\ Precedes(q, j, i))
  BY PrecedesStrict
<1>5. m < n \/ n < m \/ m = n
  OBVIOUS
<1>6. ~(m < n /\ n < m) /\ (m = n => ~(m < n))
  OBVIOUS
<1> QED BY <1>1, <1>2, <1>3, <1>4, <1>5, <1>6

\* The cursor of a record.
Position(q, i) == IF q.kind = "ordered" THEN OrderOf[i] ELSE EncodeCursor(q, records[i])

\* A listing can go on from the position of one of its records, and beyond it lie
\* the records that one precedes.
LEMMA PositionIs ==
  ASSUME IndexTypes, NEW q \in Queries, NEW i \in Members(q), q.kind = "due" => records[i].due <= q.of
  PROVE  /\ Fits(q, Position(q, i))
         /\ IF q.kind = "ordered" THEN Position(q, i) \in 1..MaxOrder
            ELSE Position(q, i).of = q.of /\ Position(q, i).id \in Ids
         /\ \A j : j \in Beyond(q, Position(q, i)) <=>
              /\ j \in Members(q) /\ Precedes(q, i, j)
              /\ q.kind = "due" => records[j].due <= q.of
<1>0. \A s \in Ids : records[s] # None => records[s] \in Versions(s)
  BY DEF IndexTypes, Held
<1>1. ASSUME NEW s \in Scopes, q = OrderedList(s)
      PROVE  /\ Position(q, i) \in 1..MaxOrder /\ q.kind = "ordered" /\ q.kind # "due"
             /\ Fits(q, Position(q, i))
             /\ \A j : j \in Beyond(q, Position(q, i)) <=> j \in Members(q) /\ Precedes(q, i, j)
  <2>1. i \in Ids /\ q.kind = "ordered"
    BY <1>1 DEF Members, OrderedList
  <2>2. PICK o \in 1..MaxOrder : o = OrderOf[i] /\ o = Position(q, i)
    BY <2>1, OrderTyped DEF Position
  <2>3. \A j : Precedes(q, i, j) <=> o < OrderOf[j]
    BY <2>1, <2>2 DEF Precedes
  <2>4. \A j \in Members(q) : j \in Beyond(q, o) <=> OrderOf[j] > o
    BY <2>1 DEF Beyond
  <2>5. \A j \in Members(q) : OrderOf[j] > o <=> o < OrderOf[j]
    OBVIOUS
  <2>6. \A j : j \in Beyond(q, o) => j \in Members(q)
    BY DEF Beyond
  <2>7. Fits(q, o)
    BY <2>1 DEF Fits
  <2> QED BY <2>1, <2>2, <2>3, <2>4, <2>5, <2>6, <2>7
<1>2. ASSUME NEW s \in RankingScopes, q = RankedList(s)
      PROVE  /\ Position(q, i).of = q.of /\ Position(q, i).id \in Ids
             /\ q.kind # "ordered" /\ q.kind # "due"
             /\ Fits(q, Position(q, i))
             /\ \A j : j \in Beyond(q, Position(q, i)) <=> j \in Members(q) /\ Precedes(q, i, j)
  <2>1. q.kind = "ranked" /\ q.of = s /\ i \in Ids /\ IsRanked(records[i])
    BY <1>2 DEF Members, RankedList
  <2>2. /\ records[i].rank \in Int /\ records[i].due \in Int \cup {None}
        /\ records[i].id = i
    BY <1>0, <2>1, VersionFields DEF IsRanked
  <2>3. PICK t : t = Position(q, i) /\ t = [version |-> CursorVersion, kind |-> "ranked",
                     namespace |-> Namespace, of |-> s, rank |-> records[i].rank,
                     due |-> records[i].due, id |-> i]
    BY <2>1, <2>2 DEF Position, EncodeCursor
  <2>4. t # None /\ t.of = s /\ t.id = i /\ t.rank = records[i].rank
    BY <2>1, <2>2, <2>3, IndexConstants DEF CursorVersion
  <2>5. Fits(q, t)
    BY <2>1, <2>2, <2>4 DEF Fits
  <2>6. \A j : OrderedRankedBefore(t, records[j]) <=> OrderedRankedBefore(records[i], records[j])
    BY <2>2, <2>4 DEF OrderedRankedBefore
  <2>7. \A j : Precedes(q, i, j) <=> OrderedRankedBefore(records[i], records[j])
    BY <2>1 DEF Precedes
  <2>8. \A j : j \in Beyond(q, t) <=> j \in Members(q) /\ OrderedRankedBefore(t, records[j])
    BY <2>1, <2>4 DEF Beyond
  <2> QED BY <2>1, <2>3, <2>4, <2>5, <2>6, <2>7, <2>8
<1>3. ASSUME NEW b \in Bounds, q = DueList(b)
      PROVE  /\ Position(q, i).of = q.of /\ Position(q, i).id \in Ids
             /\ q.kind # "ordered" /\ q.kind = "due"
             /\ Fits(q, Position(q, i))
             /\ \A j : j \in Beyond(q, Position(q, i)) <=>
                  j \in Members(q) /\ Precedes(q, i, j) /\ records[j].due <= q.of
  <2>1. q.kind = "due" /\ q.of = b /\ i \in Ids /\ IsDue(records[i]) /\ records[i].due <= b
    BY <1>3 DEF Members, DueList
  <2>2. /\ records[i].due \in Int /\ records[i].rank \in Int \cup {None}
        /\ records[i].id = i
    BY <1>0, <2>1, VersionFields DEF IsDue
  <2>3. PICK t : t = Position(q, i) /\ t = [version |-> CursorVersion, kind |-> "due",
                     namespace |-> Namespace, of |-> b, rank |-> records[i].rank,
                     due |-> records[i].due, id |-> i]
    BY <2>1, <2>2 DEF Position, EncodeCursor
  <2>4. t # None /\ t.of = b /\ t.id = i /\ t.due = records[i].due
    BY <2>1, <2>2, <2>3, IndexConstants DEF CursorVersion
  <2>5. Fits(q, t)
    BY <2>1, <2>2, <2>4 DEF Fits
  <2>6. \A j : OrderedDueBefore(t, records[j]) <=> OrderedDueBefore(records[i], records[j])
    BY <2>2, <2>4 DEF OrderedDueBefore
  <2>7. \A j : Precedes(q, i, j) <=> OrderedDueBefore(records[i], records[j])
    BY <2>1 DEF Precedes
  <2>8. \A j : j \in Beyond(q, t) <=>
          j \in Members(q) /\ OrderedDueBefore(t, records[j]) /\ records[j].due <= b
    BY <2>1, <2>4 DEF Beyond
  <2> QED BY <2>1, <2>3, <2>4, <2>5, <2>6, <2>7, <2>8
<1> QED BY <1>1, <1>2, <1>3, QueryKinds

\* What lies beyond the last record of a page is what the page left.
LEMMA Follows ==
  ASSUME IndexTypes, Lists, NEW q \in Queries, NEW c, Fits(q, c), limit \in Nat \ {0},
         Start(q, c) < End(q, c)
  PROVE  LET i == Last(Page(q, c))
         IN /\ i \in Members(q) /\ (q.kind = "due" => records[i].due <= q.of)
            /\ \A n \in 1..Len(Entries(q)) :
                 Entries(q)[n] \in Beyond(q, Position(q, i)) <=> End(q, c) < n /\ n <= Eligible(q)
<1>1. Located(q, c) /\ PageIs(q, c)
  BY Locates, Pages
<1>2. PICK e \in Seq(Ids) : e = Entries(q)
  BY EntriesTyped
<1>3. PICK a \in Nat, d \in Nat, z \in Nat :
        /\ a = Start(q, c) /\ d = End(q, c) /\ z = Eligible(q)
        /\ a < d /\ d <= z /\ z <= Len(e) /\ Len(e) \in Nat
  BY <1>1, <1>2 DEF PageIs
<1>4. PICK x \in Seq(Ids) : x = Page(q, c) /\ Len(x) = d - a /\ \A n \in 1..Len(x) : x[n] = e[a + n]
  BY <1>1, <1>2, <1>3 DEF PageIs
<1>5. d - a \in 1..Len(x) /\ a + (d - a) = d /\ d \in 1..Len(e)
  BY <1>3, <1>4
<1>6. PICK i : i = Last(Page(q, c)) /\ i = e[d]
  BY <1>4, <1>5 DEF Last
<1>7. i \in Members(q)
  BY <1>2, <1>5, <1>6, Entered
<1>8. \A n \in 1..Len(e) : e[n] \in Beyond(q, c) <=> a < n /\ n <= z
  BY <1>1, <1>2, <1>3 DEF Located
<1>9. \A j \in Beyond(q, c) : q.kind = "due" => records[j].due <= q.of
  BY DEF Beyond
<1>10. q.kind = "due" => records[i].due <= q.of
  BY <1>3, <1>5, <1>6, <1>8, <1>9
<1>11. /\ Fits(q, Position(q, i))
       /\ \A j : j \in Beyond(q, Position(q, i)) <=>
            /\ j \in Members(q) /\ Precedes(q, i, j)
            /\ q.kind = "due" => records[j].due <= q.of
  BY <1>7, <1>10, PositionIs
<1>12. Located(q, Position(q, i))
  BY <1>11, Locates
<1>13. ASSUME NEW n \in 1..Len(e)
       PROVE  e[n] \in Beyond(q, Position(q, i)) <=> d < n /\ n <= z
  <2>1. e[n] \in Members(q)
    BY <1>2, Entered
  <2>2. Precedes(q, i, e[n]) <=> d < n
    BY <1>2, <1>5, <1>6, EnteredOrder
  <2>3. ASSUME e[n] \in Beyond(q, Position(q, i)) PROVE n <= z
    BY <1>2, <1>3, <1>12, <2>3 DEF Located
  <2>4. ASSUME d < n, n <= z PROVE q.kind = "due" => records[e[n]].due <= q.of
    <3>1. a < n
      BY <1>3, <2>4
    <3> QED BY <1>8, <1>9, <2>4, <3>1
  <2> QED BY <1>11, <2>1, <2>2, <2>3, <2>4
<1> QED BY <1>2, <1>3, <1>6, <1>7, <1>10, <1>13

-----------------------------------------------------------------------------
(* The indexes are exact *)

\* The types of the caller's state.
CallerTypes ==
  /\ out \in Seq(Ids) /\ touched \subseteq Ids /\ fatal \in BOOLEAN
  /\ phase \in {"idle", "paging", "done", "rejected", "failed"}
  /\ phase \notin {"idle", "failed"} => query \in Queries /\ limit \in Limits
  /\ query # None /\ cursor \notin {None, first} =>
       IF query.kind = "ordered" THEN cursor \in 1..MaxOrder
       ELSE cursor.of = query.of /\ cursor.id \in Ids
  /\ phase = "idle" => cursor = first
  /\ phase = "paging" => Fits(query, cursor)

\* The invariant, in parts: the indexes' types, the indexes, the caller.
LEMMA InvParts == IndexInv <=> IndexTypes /\ Lists /\ CallerTypes
<1>1. IndexInv => IndexTypes /\ Lists /\ CallerTypes
  BY DEF IndexInv, IndexExact, TypeOK, IndexTypes, Lists, CallerTypes, DueList
<1>2. ASSUME IndexTypes, Lists, CallerTypes PROVE IndexInv
  <2>1. \A i \in Ids : records[i] # None =>
          [records[i] EXCEPT !.on = i] \in Versions(i) /\ records[i].on = i
    BY <1>2, VersionFields DEF IndexTypes, Held
  <2>2. TypeOK
    BY <1>2, <2>1 DEF TypeOK, IndexTypes, CallerTypes
  <2> QED BY <1>2, <2>1, <2>2 DEF IndexInv, IndexExact, IndexTypes, Lists, CallerTypes, DueList
<1> QED BY <1>1, <1>2

\* A cursor that was accepted is a position.
LEMMA FirstFits ==
  ASSUME NEW q \in Queries, NEW c \in FirstCursors(q), q.kind # "ordered" => c = None \/ Accepts(q, c)
  PROVE  Fits(q, c)
<1>1. CASE q.kind = "ordered"
  BY <1>1 DEF FirstCursors, Fits
<1>2. CASE q.kind # "ordered" /\ c # None
  <2>0. Accepts(q, c)
    BY <1>2
  <2>1. ASSUME NEW p \in Queries, NEW r \in Positions, r.rank # None, r.due # None, c = EncodeCursor(p, r)
        PROVE  Fits(q, c)
    <3>1. c.id = r.id /\ c.rank = r.rank /\ c.due = r.due
      BY <2>1 DEF EncodeCursor
    <3>2. r.id \in Ids /\ r.rank \in Int /\ r.due \in Int
      BY <2>1, IndexConstants DEF Positions
    <3>3. q.kind = "ranked" \/ q.kind = "due"
      BY <1>2 DEF Queries
    <3>4. c.of = q.of /\ (q.kind = "due" => c.due <= q.of)
      BY <2>0 DEF Accepts
    <3> QED BY <3>1, <3>2, <3>3, <3>4 DEF Fits
  <2>2. ASSUME NEW i \in Ids,
               c = [Sample(q, i) EXCEPT !.version = 2]
        PROVE  FALSE
    <3>1. c.version = 2
      BY <2>2 DEF Sample, EncodeCursor
    <3> QED BY <2>0, <3>1 DEF Accepts, CursorVersion
  <2>3. ASSUME NEW i \in Ids,
               c = [Sample(q, i) EXCEPT !.namespace = Elsewhere]
        PROVE  FALSE
    <3>1. c.namespace = Elsewhere
      BY <2>3 DEF Sample, EncodeCursor
    <3> QED BY <2>0, <3>1, IndexConstants DEF Accepts
  <2>4. c \in Tokens \/ c \in Outdated(q) \/ c \in Alien(q)
    BY <1>2 DEF FirstCursors
  <2>5. c \in Tokens => Fits(q, c)
    BY <2>1 DEF Tokens
  <2>6. c \notin Outdated(q)
    BY <2>2 DEF Outdated
  <2>7. c \notin Alien(q)
    BY <2>3 DEF Alien
  <2> QED BY <2>4, <2>5, <2>6, <2>7
<1>3. CASE q.kind # "ordered" /\ c = None
  BY <1>3 DEF Fits
<1> QED BY <1>1, <1>2, <1>3

\* Steps of the caller leave the indexes as they were.
LEMMA IndexUntouched ==
  ASSUME IndexTypes, Lists, UNCHANGED indexVars
  PROVE  IndexTypes' /\ Lists'
<1>1. IndexTypes'
  BY DEF IndexTypes, indexVars
<1>2. Exact(order, ranked, due, records)
  BY ListsAre DEF AllExact
<1>3. AllExact'
  BY <1>2 DEF indexVars, AllExact
<1>4. IndexTypes' => (Lists' <=> AllExact')
  BY ListsAre, PTL
<1> QED BY <1>1, <1>3, <1>4

\* applyMessage: a record moves in every index it is in, anything else poisons.
LEMMA ApplyKeeps ==
  ASSUME IndexInv, NEW on \in Ids, NEW p \in Good(on) \cup Foreign(on), ApplyMessage(on, p)
  PROVE  IndexInv'
<1>0. IndexTypes /\ Lists /\ CallerTypes
  BY InvParts
<1>1. CASE Decodes(on, p)
  <2>1. PICK r \in Versions(on) : ApplyRecord(on, r)
    BY <1>1, Decoded DEF ApplyMessage
  <2>2. Exact(order, ranked, due, records)
    BY <1>0, ListsAre DEF AllExact
  <2>3. /\ DOMAIN records' = Ids /\ Held(records') /\ Exact(order', ranked', due', records')
        /\ order' \in [Scopes -> Seq(Ids)] /\ ranked' \in [RankingScopes -> Seq(Ids)]
    BY <1>0, <2>1, <2>2, ApplyExact DEF IndexTypes
  <2>4. IndexTypes'
    BY <2>3 DEF IndexTypes, Exact, Indexes
  <2>5. Lists'
    <3>1. IndexTypes' => (Lists' <=> AllExact')
      BY ListsAre, PTL
    <3> QED BY <2>3, <2>4, <3>1 DEF AllExact
  <2>6. CallerTypes'
    BY <1>0, <2>1 DEF ApplyRecord, CallerTypes, Fits, listVars
  <2>7. IndexInv' <=> IndexTypes' /\ Lists' /\ CallerTypes'
    BY InvParts, PTL
  <2> QED BY <2>4, <2>5, <2>6, <2>7
<1>2. CASE ~Decodes(on, p)
  <2>1. fatal' = TRUE /\ UNCHANGED <<records, order, ranked, due, listVars, touched>>
    BY <1>2 DEF ApplyMessage
  <2>2. IndexTypes'
    BY <1>0, <2>1 DEF IndexTypes
  <2>3. Exact(order, ranked, due, records)
    BY <1>0, ListsAre DEF AllExact
  <2>4. Exact(order', ranked', due', records')
    BY <2>1, <2>3
  <2>5. Lists'
    <3>1. IndexTypes' => (Lists' <=> AllExact')
      BY ListsAre, PTL
    <3> QED BY <2>2, <2>4, <3>1 DEF AllExact
  <2>6. CallerTypes'
    BY <1>0, <2>1 DEF CallerTypes, Fits, listVars
  <2>7. IndexInv' <=> IndexTypes' /\ Lists' /\ CallerTypes'
    BY InvParts, PTL
  <2> QED BY <2>2, <2>5, <2>6, <2>7
<1> QED BY <1>1, <1>2

\* A page is appended, and the caller goes on after it or has come to the end.
PageTaken ==
  /\ UNCHANGED <<indexVars, query, limit, first, touched>>
  /\ out' = out \o Page(query, cursor)
  /\ \/ phase' = "done" /\ UNCHANGED cursor /\ End(query, cursor) = Eligible(query)
     \/ /\ UNCHANGED phase /\ Start(query, cursor) < End(query, cursor)
        /\ cursor' = Position(query, Last(Page(query, cursor)))

\* Both kinds of pages advance the caller the same way.
LEMMA PageMoves ==
  ASSUME IndexTypes, Lists, CallerTypes, NextOrdered \/ NextTokens
  PROVE  /\ query \in Queries /\ limit \in Nat \ {0} /\ limit \in Limits /\ phase = "paging"
         /\ Fits(query, cursor) /\ PageTaken
<1>0. phase = "paging"
  BY DEF NextOrdered, NextTokens
<1>1. query \in Queries /\ limit \in Nat \ {0} /\ Fits(query, cursor) /\ limit \in Limits
  BY <1>0, IndexConstants DEF CallerTypes
<1>2. PageIs(query, cursor)
  BY <1>1, Locates, Pages
<1>3. PICK a \in Nat, d \in Nat, z \in Nat, l \in Nat :
        /\ a = Start(query, cursor) /\ d = End(query, cursor) /\ z = Eligible(query) /\ l = limit
        /\ l > 0 /\ a <= d /\ d <= z /\ (d < z => d = a + l)
  BY <1>1, <1>2 DEF PageIs
<1>4. PICK x \in Seq(Ids) : x = Page(query, cursor) /\ Len(x) = d - a
  BY <1>2, <1>3 DEF PageIs
<1>5. CASE NextOrdered
  <2>1. CASE x = <<>>
    <3>1. Len(x) = 0
      BY <2>1
    <3>2. d = z
      BY <1>3, <1>4, <3>1
    <3> QED BY <1>0, <1>1, <1>3, <1>4, <1>5, <2>1, <3>2 DEF NextOrdered, PageTaken
  <2>2. CASE x # <<>>
    <3>1. Len(x) # 0
      BY <2>2
    <3>2. a < d
      BY <1>3, <1>4, <3>1
    <3> QED BY <1>0, <1>1, <1>3, <1>4, <1>5, <2>2, <3>2 DEF NextOrdered, PageTaken, Position
  <2> QED BY <2>1, <2>2
<1>6. CASE NextTokens
  <2>1. CASE d < z
    <3>1. a < d
      BY <1>3, <2>1
    <3> QED BY <1>0, <1>1, <1>3, <1>4, <1>6, <2>1, <3>1 DEF NextTokens, PageTaken, Position
  <2>2. CASE ~(d < z)
    <3>1. d = z
      BY <1>3, <2>2
    <3> QED BY <1>0, <1>1, <1>3, <1>4, <1>6, <2>2, <3>1 DEF NextTokens, PageTaken
  <2> QED BY <2>1, <2>2
<1> QED BY <1>5, <1>6

\* A page leaves the caller at a position it can go on from.
LEMMA PageKeeps ==
  ASSUME IndexTypes, Lists, CallerTypes, NextOrdered \/ NextTokens
  PROVE  CallerTypes'
<1>1. /\ query \in Queries /\ limit \in Nat \ {0} /\ limit \in Limits /\ phase = "paging"
      /\ Fits(query, cursor) /\ PageTaken
  BY PageMoves
<1>2. PICK x \in Seq(Ids) : x = Page(query, cursor)
  BY <1>1, Locates, Pages DEF PageIs
<1>3. out' \in Seq(Ids)
  BY <1>1, <1>2 DEF CallerTypes, PageTaken
<1>4. CASE phase' = "done" /\ UNCHANGED cursor
  BY <1>1, <1>3, <1>4 DEF CallerTypes, PageTaken, indexVars
<1>5. CASE /\ UNCHANGED phase /\ Start(query, cursor) < End(query, cursor)
           /\ cursor' = Position(query, Last(x))
  <2>1. PICK i : i = Last(x) /\ i \in Members(query) /\ (query.kind = "due" => records[i].due <= query.of)
    BY <1>1, <1>2, <1>5, Follows
  <2>2. /\ Fits(query, cursor')
        /\ IF query.kind = "ordered" THEN cursor' \in 1..MaxOrder
            ELSE cursor'.of = query.of /\ cursor'.id \in Ids
    BY <1>1, <1>5, <2>1, PositionIs
  <2>3. Fits(query, cursor)'
    BY <1>1, <2>2 DEF Fits, PageTaken
  <2> QED BY <1>1, <1>3, <1>5, <2>2, <2>3 DEF CallerTypes, PageTaken, indexVars
<1> QED BY <1>1, <1>2, <1>4, <1>5 DEF PageTaken

\* So does the check of the first cursor.
LEMMA BeginKeeps ==
  ASSUME CallerTypes, NEW q \in Queries, NEW n \in Limits, NEW c \in FirstCursors(q), Begin(q, n, c)
  PROVE  CallerTypes'
<1>1. /\ query' = q /\ limit' = n /\ cursor' = c /\ first' = c
      /\ phase' = IF q.kind # "ordered" /\ c # None /\ ~Accepts(q, c) THEN "rejected" ELSE "paging"
      /\ UNCHANGED <<indexVars, out, touched>>
  BY DEF Begin
<1>2. phase' = "paging" => Fits(q, c)
  BY <1>1, FirstFits
<1>3. phase' = "paging" => Fits(query, cursor)'
  BY <1>1, <1>2 DEF Fits
<1> QED BY <1>1, <1>3 DEF CallerTypes, indexVars

\* Every step keeps the indexes exact.
LEMMA IndexStep == IndexInv /\ [Next]_vars => IndexInv'
<1> SUFFICES ASSUME IndexInv, [Next]_vars PROVE IndexInv'
  OBVIOUS
<1>0. IndexTypes /\ Lists /\ CallerTypes
  BY InvParts
<1>1. ASSUME NEW on \in Ids, NEW p \in Good(on) \cup Foreign(on), ApplyMessage(on, p) PROVE IndexInv'
  BY <1>1, ApplyKeeps
<1>2. ASSUME UNCHANGED indexVars, CallerTypes' PROVE IndexInv'
  <2>1. IndexInv' <=> IndexTypes' /\ Lists' /\ CallerTypes'
    BY InvParts, PTL
  <2> QED BY <1>0, <1>2, <2>1, IndexUntouched
<1>3. ASSUME NEW q \in Queries, NEW n \in Limits, NEW c \in FirstCursors(q), Begin(q, n, c)
      PROVE  IndexInv'
  BY <1>0, <1>2, <1>3, BeginKeeps DEF Begin
<1>4. CASE NextOrdered
  BY <1>0, <1>2, <1>4, PageKeeps DEF NextOrdered
<1>5. CASE NextTokens
  BY <1>0, <1>2, <1>5, PageKeeps DEF NextTokens
<1>6. CASE ListingFails
  <2>1. CallerTypes'
    BY <1>0, <1>6 DEF CallerTypes, ListingFails, indexVars
  <2> QED BY <1>2, <1>6, <2>1 DEF ListingFails
<1>7. CASE UNCHANGED vars
  <2>1. CallerTypes'
    BY <1>0, <1>7 DEF CallerTypes, Fits, vars, indexVars, listVars
  <2> QED BY <1>2, <1>7, <2>1 DEF vars
<1> QED BY <1>1, <1>3, <1>4, <1>5, <1>6, <1>7 DEF Next

\* An empty view is exact.
LEMMA InitIndexed == Init => IndexInv
<1> SUFFICES ASSUME Init PROVE IndexInv
  OBVIOUS
<1>0. <<>> \in Seq(Ids)
  OBVIOUS
<1>1. IndexTypes
  BY <1>0 DEF Init, IndexTypes, Held
<1>2. \A i \in Ids : records[i] = None
  BY DEF Init
<1>3. \A R : Sorted(<<>>, R) /\ Elements(<<>>) = {}
  <2>1. \A n : n \notin 1..Len(<<>>)
    OBVIOUS
  <2> QED BY <2>1 DEF Sorted, Elements
<1>4. /\ \A s : OrderMembers(s, records) = {} /\ RankMembers(s, records) = {}
      /\ Holders("due", records) = {}
  BY <1>2 DEF OrderMembers, RankMembers, Holders, In, IsRanked, IsDue
<1>5. AllExact
  BY <1>0, <1>3, <1>4 DEF Init, AllExact, Exact, Indexes
<1>6. CallerTypes
  BY <1>0 DEF Init, CallerTypes
<1> QED BY <1>1, <1>5, <1>6, ListsAre, InvParts

\* The inductive invariant of the indexes.
LEMMA IndexInductive == Spec => []IndexInv
<1>1. Init => IndexInv
  BY InitIndexed
<1>2. IndexInv /\ [Next]_vars => IndexInv'
  BY IndexStep
<1> QED BY <1>1, <1>2, PTL DEF Spec

\* Whatever versions, tombstones and foreign messages a view applies, and in whatever
\* order, its three indexes hold exactly the records they should, each once and in
\* order, and each from its own subject (applyRecord, decodeOrderedRecord).
THEOREM ExactIndexes == Spec => []IndexExact
<1>1. IndexInv => IndexExact
  BY DEF IndexInv
<1> QED BY <1>1, IndexInductive, PTL

-----------------------------------------------------------------------------
(* A page is the records beyond its cursor *)

Distinct(q) == \A m, n \in 1..Len(q) : q[m] = q[n] => m = n

\* T is what q holds after position a, up to b.
IsSlice(T, q, a, b) == \A i : i \in T <=> \E n \in 1..Len(q) : q[n] = i /\ a < n /\ n <= b

\* Different entries count once each.
LEMMA Counted ==
  ASSUME NEW S, NEW q \in Seq(S), Distinct(q), NEW a \in Nat, NEW b \in Nat, a <= b, b <= Len(q),
         NEW T, IsSlice(T, q, a, b)
  PROVE  Cardinality(T) = b - a
<1> USE DEF Distinct, IsSlice
<1>0. Len(q) \in Nat
  OBVIOUS
<1>1. PICK P : P = a + 1..b
  OBVIOUS
<1>2. \A n : n \in P <=> n \in 1..Len(q) /\ a < n /\ n <= b
  BY <1>0, <1>1
<1>3. PICK f : f = [n \in P |-> q[n]]
  OBVIOUS
<1>4. f \in Surjection(P, T)
  <2>1. f \in [P -> T]
    BY <1>2, <1>3
  <2>2. \A t \in T : \E n \in P : f[n] = t
    BY <1>2, <1>3
  <2> QED BY <2>1, <2>2 DEF Surjection
<1>5. f \in Injection(P, T)
  <2>1. \A m, n \in P : f[m] = f[n] => m = n
    BY <1>2, <1>3
  <2> QED BY <1>4, <2>1 DEF Surjection, Injection, IsInjective
<1>6. a + 1 \in Int /\ b \in Int
  OBVIOUS
<1>7. IsFiniteSet(P) /\ Cardinality(P) = IF a + 1 > b THEN 0 ELSE b - (a + 1) + 1
  BY <1>1, <1>6, FS_Interval
<1>8. Cardinality(P) = b - a
  BY <1>7
<1>9. Cardinality(T) = Cardinality(P)
  BY <1>4, <1>5, <1>7, FS_Surjection
<1> QED BY <1>8, <1>9

\* The page between start and end is the first records beyond the cursor.
LEMMA PageIsExact == IndexInv => PageExact
<1> SUFFICES ASSUME IndexInv, phase = "paging" PROVE PageExact
  BY DEF PageExact
<1>0. IndexTypes /\ Lists /\ CallerTypes
  BY InvParts
<1>1. query \in Queries /\ limit \in Nat \ {0} /\ Fits(query, cursor)
  BY <1>0, IndexConstants DEF CallerTypes
<1>2. Located(query, cursor) /\ PageIs(query, cursor)
  BY <1>0, <1>1, Locates, Pages
<1>3. PICK e \in Seq(Ids) : e = Entries(query) /\ Len(e) \in Nat
  BY <1>0, <1>1, EntriesTyped
<1>4. PICK a \in Nat, d \in Nat, z \in Nat, l \in Nat :
        /\ a = Start(query, cursor) /\ d = End(query, cursor) /\ z = Eligible(query) /\ l = limit
        /\ a <= d /\ d <= z /\ z <= Len(e) /\ (d < z => d = a + l) /\ d <= a + l
  BY <1>1, <1>2, <1>3 DEF PageIs
<1>5. PICK x \in Seq(Ids) : /\ x = Page(query, cursor) /\ Len(x) = d - a
                            /\ \A n \in 1..Len(x) : x[n] = e[a + n]
  BY <1>2, <1>3, <1>4 DEF PageIs
<1>6. \A m, n \in 1..Len(e) : /\ e[m] = e[n] => m = n
                               /\ Precedes(query, e[m], e[n]) <=> m < n
  BY <1>0, <1>1, <1>3, EnteredOrder
<1>7. PICK rest : rest = Beyond(query, cursor)
  OBVIOUS
<1>8. \A i : i \in rest <=> \E n \in 1..Len(e) : e[n] = i /\ a < n /\ n <= z
  <2>1. \A n \in 1..Len(e) : e[n] \in rest <=> a < n /\ n <= z
    BY <1>2, <1>3, <1>4, <1>7 DEF Located
  <2>2. \A i : i \in Members(query) => \E n \in 1..Len(e) : e[n] = i
    BY <1>0, <1>1, <1>3, Entered
  <2>3. rest \subseteq Members(query)
    BY <1>7 DEF Beyond
  <2> QED BY <2>1, <2>2, <2>3
<1>9. Cardinality(rest) = z - a
  <2>1. a <= z
    BY <1>4
  <2>2. Distinct(e) /\ IsSlice(rest, e, a, z)
    BY <1>6, <1>8 DEF Distinct, IsSlice
  <2> QED BY <1>4, <2>1, <2>2, Counted
<1>10. Len(x) = Smaller(l, Cardinality(rest))
  BY <1>4, <1>5, <1>9 DEF Smaller
<1>11. ASSUME NEW n \in 1..Len(x)
       PROVE  x[n] \in rest /\ Cardinality({i \in rest : Precedes(query, i, x[n])}) = n - 1
  <2>0. n \in Nat /\ n > 0 /\ n <= d - a /\ d <= z /\ z <= Len(e) /\ Len(e) \in Nat
    BY <1>3, <1>4, <1>5
  <2>1. PICK b \in Nat : b = a + n - 1 /\ a <= b /\ b <= Len(e) /\ b < z
    BY <2>0
  <2>2. a + n \in 1..Len(e) /\ a < a + n /\ a + n <= z /\ a + n = b + 1
    BY <2>0, <2>1
  <2>3. x[n] = e[a + n]
    BY <1>5
  <2>4. x[n] \in rest
    BY <1>8, <2>2, <2>3
  <2>5. PICK T : T = {i \in rest : Precedes(query, i, x[n])}
    OBVIOUS
  <2>6. ASSUME NEW k \in 1..Len(e) PROVE k < a + n <=> k <= b
    BY <2>1, <2>2
  <2>7. \A i : i \in T <=> \E k \in 1..Len(e) : e[k] = i /\ a < k /\ k <= b
    <3>1. ASSUME NEW i \in T PROVE \E k \in 1..Len(e) : e[k] = i /\ a < k /\ k <= b
      <4>1. PICK k \in 1..Len(e) : e[k] = i /\ a < k
        BY <1>8, <2>5
      <4>2. Precedes(query, e[k], e[a + n])
        BY <2>3, <2>5, <4>1
      <4>3. k < a + n
        <5>1. PICK p \in 1..Len(e) : p = a + n
          BY <2>2
        <5>2. Precedes(query, e[k], e[p])
          BY <4>2, <5>1
        <5>3. Precedes(query, e[k], e[p]) => k < p
          BY <1>0, <1>1, <1>3, EnteredOrder
        <5> QED BY <5>1, <5>2, <5>3
      <4> QED BY <2>6, <4>1, <4>3
    <3>2. ASSUME NEW k \in 1..Len(e), a < k, k <= b PROVE e[k] \in T
      <4>1. k <= z
        BY <1>4, <2>1, <3>2
      <4>2. e[k] \in rest
        BY <1>8, <3>2, <4>1
      <4>3. Precedes(query, e[k], e[a + n])
        <5>1. PICK p \in 1..Len(e) : p = a + n
          BY <2>2
        <5>2. k < p
          BY <2>6, <3>2, <5>1
        <5>3. k < p => Precedes(query, e[k], e[p])
          BY <1>0, <1>1, <1>3, EnteredOrder
        <5> QED BY <5>1, <5>2, <5>3
      <4> QED BY <2>3, <2>5, <4>2, <4>3
    <3> QED BY <3>1, <3>2
  <2>8. Cardinality(T) = b - a
    <3>1. Distinct(e) /\ IsSlice(T, e, a, b)
      BY <1>6, <2>7 DEF Distinct, IsSlice
    <3> QED BY <2>1, <3>1, Counted
  <2> QED BY <2>1, <2>4, <2>5, <2>8
<1>12. 0 <= Start(query, cursor) /\ Start(query, cursor) <= End(query, cursor)
  BY <1>4
<1> QED BY <1>4, <1>5, <1>7, <1>10, <1>11, <1>12 DEF PageExact

\* For every accepted cursor a page has its slice bounds in order and is the first
\* records beyond the cursor, up to the limit, at any order, rank or due bound
\* (ListOrdered, ListRanked, ListDue).
THEOREM ExactPages == Spec => []PageExact
  BY PageIsExact, IndexInductive, PTL

-----------------------------------------------------------------------------
(* A listing returns what it owes *)

\* The members of a listing, its order and what lies beyond a position, as functions
\* of the records.
MembersIn(recs, q) ==
  CASE q.kind = "ordered" -> {i \in Ids : recs[i] # None /\ i.scope = q.of}
    [] q.kind = "ranked" -> {i \in Ids : IsRanked(recs[i]) /\ RankingScopeOf[i] = q.of}
    [] q.kind = "due" -> {i \in Ids : IsDue(recs[i])}

PrecedesIn(recs, q, i, j) ==
  CASE q.kind = "ordered" -> OrderOf[i] < OrderOf[j]
    [] q.kind = "ranked" -> OrderedRankedBefore(recs[i], recs[j])
    [] q.kind = "due" -> OrderedDueBefore(recs[i], recs[j])

BeyondIn(recs, q, c) ==
  {i \in MembersIn(recs, q) :
     /\ q.kind = "due" => recs[i].due <= q.of
     /\ CASE q.kind = "ordered" -> OrderOf[i] > c
          [] q.kind = "ranked" -> c = None \/ OrderedRankedBefore(c, recs[i])
          [] q.kind = "due" -> c = None \/ OrderedDueBefore(c, recs[i])}

\* out returns every record of S at most once and in order; it has returned those
\* of S that are not in left.
InOrder(o, S, recs, q) ==
  \A i, j \in S : \A m, n \in 1..Len(o) :
    o[m] = i /\ o[n] = j => (i = j => m = n) /\ (PrecedesIn(recs, q, i, j) => m < n)

Returned(o, S, left) == \A i \in S : (\E n \in 1..Len(o) : o[n] = i) <=> i \notin left

Left == IF phase = "done" THEN {} ELSE BeyondIn(records, query, cursor)
Owed == BeyondIn(records, query, first) \ touched

Listed == InOrder(out, Owed, records, query) /\ Returned(out, Owed, Left)

ListingTypes ==
  /\ phase = "idle" => out = <<>> /\ touched = {}
  /\ phase = "paging" => Fits(query, first)

\* The listings' own notions, at the records held now.
LEMMA Explicit ==
  /\ \A q, i, j : Precedes(q, i, j) <=> PrecedesIn(records, q, i, j)
  /\ \A q, c : Beyond(q, c) = BeyondIn(records, q, c)
<1>1. \A q, i, j : Precedes(q, i, j) = PrecedesIn(records, q, i, j)
  BY DEF Precedes, PrecedesIn
<1>2. \A q : Members(q) = MembersIn(records, q)
  BY DEF Members, MembersIn
<1>3. \A q, c : Beyond(q, c) = BeyondIn(records, q, c)
  BY <1>2 DEF Beyond, BeyondIn
<1> QED BY <1>1, <1>3

\* What is beyond a position, and the order, change only for records that do.
LEMMA OnlyTouched ==
  ASSUME NEW recs, NEW now, NEW q \in Queries, NEW i \in Ids, NEW j \in Ids,
         recs[i] = now[i], recs[j] = now[j]
  PROVE  /\ PrecedesIn(recs, q, i, j) <=> PrecedesIn(now, q, i, j)
         /\ \A c : i \in BeyondIn(recs, q, c) <=> i \in BeyondIn(now, q, c)
<1>1. PrecedesIn(recs, q, i, j) = PrecedesIn(now, q, i, j)
  BY DEF PrecedesIn
<1>2. q.kind = "ordered" \/ q.kind = "ranked" \/ q.kind = "due"
  BY DEF Queries
<1>3. i \in MembersIn(recs, q) <=> i \in MembersIn(now, q)
  BY <1>2 DEF MembersIn
<1>4. \A c : i \in BeyondIn(recs, q, c) <=> i \in BeyondIn(now, q, c)
  BY <1>3 DEF BeyondIn
<1> QED BY <1>1, <1>4

ListedSoFar == phase \in {"paging", "done"} => Listed

\* The invariant, in parts.
LEMMA ListingParts == ListingInv <=> IndexInv /\ ListingTypes /\ ListedSoFar
<1>1. Quiet = Owed
  BY Explicit DEF Quiet, Owed
<1>2. \A i : i \notin Left <=> (phase = "done" \/ i \notin Beyond(query, cursor))
  BY Explicit DEF Left
<1>3. InOrder(out, Owed, records, query) <=>
        \A i, j \in Quiet : \A m, n \in 1..Len(out) :
            out[m] = i /\ out[n] = j => (i = j => m = n) /\ (Precedes(query, i, j) => m < n)
  BY <1>1, Explicit DEF InOrder
<1>4. Returned(out, Owed, Left) <=>
        \A i \in Quiet :
            (\E n \in 1..Len(out) : out[n] = i) <=> phase = "done" \/ i \notin Beyond(query, cursor)
  BY <1>1, <1>2 DEF Returned
<1> QED BY <1>3, <1>4 DEF ListingInv, ListingTypes, ListedSoFar, Listed

\* A message: what it touched is no longer owed.
LEMMA ApplyLists ==
  ASSUME ListingInv, NEW on \in Ids, NEW r \in Versions(on), ApplyRecord(on, r), phase \in {"paging", "done"}
  PROVE  Listed'
<1>1. Listed /\ query \in Queries /\ DOMAIN records = Ids
  <2>1. Listed /\ IndexInv
    BY ListingParts DEF ListedSoFar
  <2> QED BY <2>1, InvParts DEF CallerTypes, IndexTypes
<1>2. /\ records' = [records EXCEPT ![on] = r] /\ touched' = touched \cup {on}
      /\ out' = out /\ query' = query /\ first' = first /\ cursor' = cursor /\ phase' = phase
  BY DEF ApplyRecord, listVars
<1>3. PICK recs, now : recs = records /\ now = records' /\ \A i \in Ids : i # on => recs[i] = now[i]
  BY <1>1, <1>2
<1>4. PICK old, new : /\ old = Owed /\ new = Owed'
                      /\ old = BeyondIn(recs, query, first) \ touched
                      /\ new = BeyondIn(now, query, first) \ (touched \cup {on})
  BY <1>2, <1>3 DEF Owed
<1>5. ASSUME NEW i \in new PROVE i \in old /\ i \in Ids /\ i # on
  <2>1. i # on /\ i \notin touched /\ i \in BeyondIn(now, query, first)
    BY <1>4
  <2>2. i \in Ids
    <3>1. i \in MembersIn(now, query)
      BY <2>1 DEF BeyondIn
    <3>2. query.kind = "ordered" \/ query.kind = "ranked" \/ query.kind = "due"
      BY <1>1 DEF Queries
    <3> QED BY <3>1, <3>2 DEF MembersIn
  <2>3. i \in BeyondIn(recs, query, first)
    BY <1>1, <1>3, <2>1, <2>2, OnlyTouched
  <2> QED BY <1>4, <2>1, <2>2, <2>3
<1>6. InOrder(out, new, now, query)
  <2>1. \A i, j \in new : PrecedesIn(recs, query, i, j) <=> PrecedesIn(now, query, i, j)
    BY <1>1, <1>3, <1>5, OnlyTouched
  <2>2. InOrder(out, old, recs, query)
    BY <1>1, <1>3, <1>4 DEF Listed
  <2> QED BY <1>5, <2>1, <2>2 DEF InOrder
<1>7. Returned(out, new, Left')
  <2>1. \A i \in new : i \in Left <=> i \in Left'
    <3>1. \A i \in new : i \in BeyondIn(recs, query, cursor) <=> i \in BeyondIn(now, query, cursor)
      BY <1>1, <1>3, <1>5, OnlyTouched
    <3> QED BY <1>2, <1>3, <3>1 DEF Left
  <2>2. Returned(out, old, Left)
    BY <1>1, <1>4 DEF Listed
  <2> QED BY <1>5, <2>1, <2>2 DEF Returned
<1> QED BY <1>2, <1>3, <1>4, <1>6, <1>7 DEF Listed

\* An index in its order, no entry twice.
Ascends(e, recs, q) ==
  \A k, l \in 1..Len(e) : (e[k] = e[l] => k = l) /\ (PrecedesIn(recs, q, e[k], e[l]) => k < l)

\* Among the first z entries, left holds those behind the first a.
Behind(left, e, a, z) == \A k \in 1..Len(e) : k <= z => (e[k] \in left <=> a < k)

\* Returning the entries from a to d of an index, those up to a having been returned.
LEMMA Appending ==
  ASSUME NEW e \in Seq(Ids), NEW o \in Seq(Ids), NEW x \in Seq(Ids), NEW a \in Nat, NEW d \in Nat, NEW z \in Nat,
         a <= d, d <= z, z <= Len(e), Len(x) = d - a, \A n \in 1..Len(x) : x[n] = e[a + n],
         NEW recs, NEW q, NEW S, \A i \in S : \E k \in 1..Len(e) : e[k] = i /\ k <= z,
         Ascends(e, recs, q), InOrder(o, S, recs, q),
         NEW left, Returned(o, S, left), Behind(left, e, a, z),
         NEW rest, Behind(rest, e, d, z)
  PROVE  InOrder(o \o x, S, recs, q) /\ Returned(o \o x, S, rest)
<1>1. PICK h \in Nat, w \in Nat : h = Len(o) /\ w = Len(x) /\ w = d - a
  OBVIOUS
<1>2. PICK y \in Seq(Ids) : /\ y = o \o x /\ Len(y) = h + w
                            /\ \A n \in 1..h : y[n] = o[n]
                            /\ \A n \in 1..w : y[h + n] = x[n]
  <2>1. o \o x \in Seq(Ids) /\ Len(o \o x) = h + w
    <3>1. o \o x \in Seq(Ids) /\ Len(o \o x) = Len(o) + Len(x)
      BY ConcatProperties, Zenon
    <3> QED BY <1>1, <3>1
  <2>2. ASSUME NEW n \in 1..h PROVE (o \o x)[n] = o[n]
    BY <1>1
  <2>3. ASSUME NEW n \in 1..w PROVE (o \o x)[h + n] = x[n]
    <3>1. h + n \in 1..Len(o) + Len(x) /\ h + n > Len(o) /\ h + n - Len(o) = n
      BY <1>1
    <3> QED BY <1>1, <3>1
  <2> QED BY <2>1, <2>2, <2>3
<1>3. ASSUME NEW k \in 1..Len(e), e[k] \in S, k <= z
      PROVE  (\E n \in 1..h : o[n] = e[k]) <=> k <= a
  BY <1>1, <1>3 DEF Returned, Behind
<1>4. ASSUME NEW k \in 1..Len(e), e[k] \in S, k <= z, NEW n \in 1..h + w, y[n] = e[k]
      PROVE  (n <= h /\ k <= a) \/ (n > h /\ k > a /\ k <= d /\ n = h + k - a)
  <2>1. CASE n <= h
    BY <1>2, <1>3, <1>4, <2>1
  <2>2. CASE n > h
    <3>1. PICK m \in 1..w : n = h + m
      <4>1. n - h \in 1..w /\ n = h + (n - h)
        BY <2>2
      <4> QED BY <4>1
    <3>2. y[n] = e[a + m] /\ a + m \in 1..Len(e)
      BY <1>1, <1>2, <3>1
    <3>3. k = a + m
      BY <1>4, <3>2 DEF Ascends
    <3> QED BY <1>1, <2>2, <3>1, <3>3
  <2> QED BY <2>1, <2>2
<1>5. ASSUME NEW k \in 1..Len(e), e[k] \in S, a < k, k <= d PROVE \E n \in 1..h + w : y[n] = e[k]
  <2>1. PICK m \in 1..w : k = a + m
    <3>1. k - a \in 1..w /\ k = a + (k - a)
      BY <1>1, <1>5
    <3> QED BY <3>1
  <2>2. y[h + m] = e[k] /\ h + m \in 1..h + w
    BY <1>1, <1>2, <2>1
  <2> QED BY <2>2
<1>6. ASSUME NEW i \in S, NEW j \in S, NEW m \in 1..Len(y), NEW n \in 1..Len(y), y[m] = i, y[n] = j
      PROVE  (i = j => m = n) /\ (PrecedesIn(recs, q, i, j) => m < n)
  <2>0. m \in 1..h + w /\ n \in 1..h + w
    BY <1>2
  <2>1. PICK k \in 1..Len(e) : e[k] = i /\ k <= z
    OBVIOUS
  <2>2. PICK l \in 1..Len(e) : e[l] = j /\ l <= z
    OBVIOUS
  <2>3. (i = j => k = l) /\ (PrecedesIn(recs, q, i, j) => k < l)
    BY <2>1, <2>2 DEF Ascends
  <2>4. (m <= h /\ k <= a) \/ (m > h /\ k > a /\ k <= d /\ m = h + k - a)
    BY <1>4, <1>6, <2>0, <2>1
  <2>5. (n <= h /\ l <= a) \/ (n > h /\ l > a /\ l <= d /\ n = h + l - a)
    BY <1>4, <1>6, <2>0, <2>2
  <2>6. CASE m <= h /\ n <= h
    <3>1. o[m] = i /\ o[n] = j /\ m \in 1..Len(o) /\ n \in 1..Len(o)
      BY <1>1, <1>2, <1>6, <2>0, <2>6
    <3> QED BY <3>1 DEF InOrder
  <2>7. CASE ~(m <= h /\ n <= h)
    <3>1. k \in Int /\ l \in Int /\ m \in Int /\ n \in Int /\ h \in Int /\ a \in Int
      OBVIOUS
    <3>2. (k = l => m = n) /\ (k < l => m < n)
      <4>1. CASE m <= h /\ n > h
        BY <2>4, <2>5, <3>1, <4>1
      <4>2. CASE m > h /\ n <= h
        BY <2>4, <2>5, <3>1, <4>2
      <4>3. CASE m > h /\ n > h
        BY <2>4, <2>5, <3>1, <4>3
      <4> QED BY <2>7, <3>1, <4>1, <4>2, <4>3
    <3> QED BY <2>3, <3>2
  <2> QED BY <2>6, <2>7
<1>7. ASSUME NEW i \in S PROVE (\E n \in 1..Len(y) : y[n] = i) <=> i \notin rest
  <2>1. PICK k \in 1..Len(e) : e[k] = i /\ k <= z
    OBVIOUS
  <2>2. i \notin rest <=> k <= d
    BY <2>1 DEF Behind
  <2>3. ASSUME NEW n \in 1..Len(y), y[n] = i PROVE k <= d
    <3>1. n \in 1..h + w
      BY <1>2
    <3>2. (n <= h /\ k <= a) \/ (n > h /\ k > a /\ k <= d /\ n = h + k - a)
      BY <1>4, <2>1, <2>3, <3>1
    <3> QED BY <3>2
  <2>4. ASSUME k <= d PROVE \E n \in 1..Len(y) : y[n] = i
    <3>1. CASE k <= a
      <4>1. PICK n \in 1..h : o[n] = e[k]
        BY <1>3, <2>1, <3>1
      <4>2. y[n] = i /\ n \in 1..Len(y)
        BY <1>1, <1>2, <2>1, <4>1
      <4> QED BY <4>2
    <3>2. CASE a < k
      BY <1>2, <1>5, <2>1, <2>4, <3>2
    <3> QED BY <3>1, <3>2
  <2> QED BY <2>2, <2>3, <2>4
<1>8. InOrder(y, S, recs, q)
  BY <1>6 DEF InOrder
<1>9. Returned(y, S, rest)
  BY <1>7 DEF Returned
<1> QED BY <1>2, <1>8, <1>9

\* A page: its records were owed, and what is left is what lies beyond its last.
LEMMA PageLists ==
  ASSUME ListingInv, NextOrdered \/ NextTokens
  PROVE  Listed'
<1>0. IndexInv /\ ListingTypes /\ (phase \in {"paging", "done"} => Listed)
  BY ListingParts DEF ListedSoFar
<1>1. IndexTypes /\ Lists /\ CallerTypes
  BY <1>0, InvParts
<1>2. /\ query \in Queries /\ limit \in Nat \ {0} /\ phase = "paging"
      /\ Fits(query, cursor) /\ PageTaken
  BY <1>1, PageMoves
<1>3. Listed /\ Fits(query, first)
  BY <1>0, <1>2 DEF ListingTypes
<1>4. Located(query, cursor) /\ PageIs(query, cursor) /\ Located(query, first)
  BY <1>1, <1>2, <1>3, Locates, Pages
<1>5. PICK e \in Seq(Ids) : e = Entries(query) /\ Len(e) \in Nat
  BY <1>1, <1>2, EntriesTyped
<1>6. PICK a \in Nat, d \in Nat, z \in Nat :
        /\ a = Start(query, cursor) /\ d = End(query, cursor) /\ z = Eligible(query)
        /\ a <= d /\ d <= z /\ z <= Len(e)
  BY <1>4, <1>5 DEF PageIs
<1>7. PICK x \in Seq(Ids) : /\ x = Page(query, cursor) /\ Len(x) = d - a
                            /\ \A n \in 1..Len(x) : x[n] = e[a + n]
  BY <1>4, <1>5, <1>6 DEF PageIs
<1>8. Ascends(e, records, query)
  <2> SUFFICES ASSUME NEW k \in 1..Len(e), NEW l \in 1..Len(e)
               PROVE  (e[k] = e[l] => k = l) /\ (PrecedesIn(records, query, e[k], e[l]) => k < l)
    BY DEF Ascends
  <2>1. (e[k] = e[l] => k = l) /\ (Precedes(query, e[k], e[l]) => k < l)
    BY <1>1, <1>2, <1>5, EnteredOrder
  <2> QED BY <2>1, Explicit
<1>9. \A i \in Owed : \E k \in 1..Len(e) : e[k] = i /\ k <= z
  <2> SUFFICES ASSUME NEW i \in Owed PROVE \E k \in 1..Len(e) : e[k] = i /\ k <= z
    OBVIOUS
  <2>1. i \in Beyond(query, first)
    BY Explicit DEF Owed
  <2>2. i \in Members(query)
    BY <2>1 DEF Beyond
  <2>3. PICK k \in 1..Len(e) : e[k] = i
    BY <1>1, <1>2, <1>5, <2>2, Entered
  <2>4. k <= z
    BY <1>4, <1>5, <1>6, <2>1, <2>3 DEF Located
  <2> QED BY <2>3, <2>4
<1>10. Behind(Left, e, a, z)
  <2>1. Left = Beyond(query, cursor)
    BY <1>2, Explicit DEF Left
  <2> QED BY <1>4, <1>5, <1>6, <2>1 DEF Behind, Located
<1>11. /\ records' = records /\ query' = query /\ first' = first /\ touched' = touched
       /\ out' = out \o x
  BY <1>2, <1>7 DEF PageTaken, indexVars
<1>12. Behind(Left', e, d, z)
  <2>1. CASE phase' = "done" /\ d = z
    <3>1. Left' = {}
      BY <2>1 DEF Left
    <3>2. \A k \in 1..Len(e) : k <= z => ~(d < k)
      BY <2>1
    <3> QED BY <3>1, <3>2 DEF Behind
  <2>2. CASE UNCHANGED phase /\ a < d /\ cursor' = Position(query, Last(x))
    <3>1. Left' = Beyond(query, cursor')
      BY <1>2, <1>11, <2>2, Explicit DEF Left
    <3>2. \A k \in 1..Len(e) : e[k] \in Beyond(query, cursor') <=> d < k /\ k <= z
      BY <1>1, <1>2, <1>5, <1>6, <1>7, <2>2, Follows
    <3> QED BY <3>1, <3>2 DEF Behind
  <2> QED BY <1>2, <1>6, <1>7, <2>1, <2>2 DEF PageTaken
<1>13. out \in Seq(Ids) /\ Owed' = Owed
  BY <1>1, <1>11 DEF CallerTypes, Owed
<1>14. InOrder(out, Owed, records, query) /\ Returned(out, Owed, Left)
  BY <1>3 DEF Listed
<1>15. InOrder(out \o x, Owed, records, query) /\ Returned(out \o x, Owed, Left')
  <2>0. PICK o \in Seq(Ids) : o = out
    BY <1>13
  <2>1. PICK S, left, rest, recs, q :
          S = Owed /\ left = Left /\ rest = Left' /\ recs = records /\ q = query
    OBVIOUS
  <2>2. /\ \A i \in S : \E k \in 1..Len(e) : e[k] = i /\ k <= z
        /\ Ascends(e, recs, q) /\ InOrder(o, S, recs, q)
        /\ Returned(o, S, left) /\ Behind(left, e, a, z) /\ Behind(rest, e, d, z)
    BY <1>8, <1>9, <1>10, <1>12, <1>14, <2>0, <2>1
  <2>3. InOrder(o \o x, S, recs, q) /\ Returned(o \o x, S, rest)
    BY <1>6, <1>7, <2>2, Appending
  <2> QED BY <2>0, <2>1, <2>3
<1> QED BY <1>11, <1>13, <1>15 DEF Listed

\* Before its first page a listing has returned nothing and owes everything.
LEMMA BeginLists ==
  ASSUME ListingInv, NEW q \in Queries, NEW n \in Limits, NEW c \in FirstCursors(q), Begin(q, n, c)
  PROVE  /\ phase' = "paging" => Fits(query, first)'
         /\ phase' \in {"paging", "done"} => Listed'
<1>1. /\ query' = q /\ limit' = n /\ cursor' = c /\ first' = c
      /\ phase' = IF q.kind # "ordered" /\ c # None /\ ~Accepts(q, c) THEN "rejected" ELSE "paging"
      /\ UNCHANGED <<indexVars, out, touched>> /\ phase = "idle"
  BY DEF Begin
<1>2. phase' = "paging" => Fits(q, c)
  BY <1>1, FirstFits
<1>3. phase' = "paging" => Fits(query, first)'
  BY <1>1, <1>2 DEF Fits
<1>4. out' = <<>>
  BY <1>1, ListingParts DEF ListingTypes
<1>5. ASSUME phase' \in {"paging", "done"} PROVE Listed'
  <2>1. \A S : InOrder(<<>>, S, records', query')
    BY DEF InOrder
  <2>2. Left' = BeyondIn(records', q, c) /\ Owed' \subseteq BeyondIn(records', q, c)
    BY <1>1, <1>5 DEF Left, Owed
  <2>3. Returned(<<>>, Owed', Left')
    BY <2>2 DEF Returned
  <2> QED BY <1>4, <2>1, <2>3 DEF Listed
<1> QED BY <1>3, <1>5

\* Every step keeps what a listing returned right.
LEMMA ListingStep == ListingInv /\ [Next]_vars => ListingInv'
<1> SUFFICES ASSUME ListingInv, [Next]_vars PROVE ListingInv'
  OBVIOUS
<1>0. IndexInv /\ ListingTypes /\ (phase \in {"paging", "done"} => Listed)
  BY ListingParts DEF ListedSoFar
<1>1. IndexInv'
  BY <1>0, IndexStep
<1>2. ASSUME ListingTypes', phase' \in {"paging", "done"} => Listed' PROVE ListingInv'
  <2>1. ListingInv' <=> IndexInv' /\ ListingTypes' /\ ListedSoFar'
    BY ListingParts, PTL
  <2> QED BY <1>1, <1>2, <2>1 DEF ListedSoFar
<1>3. ASSUME UNCHANGED <<records, listVars, touched>> PROVE ListingInv'
  <2>1. ListingTypes'
    BY <1>0, <1>3 DEF ListingTypes, listVars, Fits
  <2>2. Left' = Left /\ Owed' = Owed
    BY <1>3 DEF Left, Owed, listVars
  <2>3. phase' \in {"paging", "done"} => Listed'
    BY <1>0, <1>3, <2>2 DEF Listed, listVars
  <2> QED BY <1>2, <2>1, <2>3
<1>4. ASSUME NEW on \in Ids, NEW p \in Good(on) \cup Foreign(on), ApplyMessage(on, p) PROVE ListingInv'
  <2>1. CASE Decodes(on, p)
    <3>1. PICK r \in Versions(on) : ApplyRecord(on, r)
      BY <1>4, <2>1, Decoded DEF ApplyMessage
    <3>2. /\ phase' = phase /\ query' = query /\ first' = first /\ out' = out
          /\ phase = "idle" => touched' = touched
      BY <3>1 DEF ApplyRecord, listVars
    <3>3. ListingTypes'
      BY <1>0, <3>2 DEF ListingTypes, Fits
    <3>4. phase' \in {"paging", "done"} => Listed'
      BY <3>1, <3>2, ApplyLists
    <3> QED BY <1>2, <3>3, <3>4
  <2>2. CASE ~Decodes(on, p)
    BY <1>3, <1>4, <2>2 DEF ApplyMessage
  <2> QED BY <2>1, <2>2
<1>5. ASSUME NEW q \in Queries, NEW n \in Limits, NEW c \in FirstCursors(q), Begin(q, n, c)
      PROVE  ListingInv'
  <2>1. phase' # "idle"
    BY <1>5 DEF Begin
  <2>2. ListingTypes'
    BY <1>5, <2>1, BeginLists DEF ListingTypes
  <2> QED BY <1>2, <1>5, <2>2, BeginLists
<1>6. CASE NextOrdered \/ NextTokens
  <2>1. Listed'
    BY <1>6, PageLists
  <2>2. IndexTypes /\ Lists /\ CallerTypes
    BY <1>0, InvParts
  <2>3. phase = "paging" /\ PageTaken
    BY <1>6, <2>2, PageMoves
  <2>4. phase' # "idle" /\ query' = query /\ first' = first
    BY <2>3 DEF PageTaken
  <2>5. ListingTypes'
    BY <1>0, <2>3, <2>4 DEF ListingTypes, Fits
  <2> QED BY <1>2, <2>1, <2>5
<1>7. CASE ListingFails
  <2>1. phase' = "failed"
    BY <1>7 DEF ListingFails
  <2>2. ListingTypes'
    BY <2>1 DEF ListingTypes
  <2> QED BY <1>2, <2>1, <2>2
<1>8. CASE UNCHANGED vars
  BY <1>3, <1>8 DEF vars, indexVars
<1> QED BY <1>4, <1>5, <1>6, <1>7, <1>8 DEF Next

\* Nobody has asked yet.
LEMMA InitListed == Init => ListingInv
<1> SUFFICES ASSUME Init PROVE ListingInv
  OBVIOUS
<1>1. IndexInv
  BY InitIndexed
<1>2. ListingTypes /\ phase = "idle"
  BY DEF Init, ListingTypes
<1> QED BY <1>1, <1>2, ListingParts DEF ListedSoFar

\* At most one place, at least one at the end.
LEMMA ListingIsExact == ListingInv => ListingExact
<1> SUFFICES ASSUME ListingInv, phase \in {"paging", "done"} PROVE ListingExact
  BY DEF ListingExact
<1>1. /\ \A i, j \in Quiet : \A m, n \in 1..Len(out) :
           out[m] = i /\ out[n] = j => (i = j => m = n) /\ (Precedes(query, i, j) => m < n)
      /\ \A i \in Quiet :
           (\E n \in 1..Len(out) : out[n] = i) <=> phase = "done" \/ i \notin Beyond(query, cursor)
  BY DEF ListingInv
<1> DEFINE places(i) == {n \in 1..Len(out) : out[n] = i}
<1>2. ASSUME NEW i \in Quiet PROVE Cardinality(places(i)) <= 1
  <2>1. PICK P : P = places(i)
    OBVIOUS
  <2>2. \A m, n \in P : m = n
    BY <1>1, <2>1
  <2>3. CASE P = {}
    <3>1. Cardinality(P) = 0
      BY <2>3, FS_EmptySet
    <3> QED BY <2>1, <3>1
  <2>4. CASE P # {}
    <3>1. PICK m : m \in P
      BY <2>4
    <3>2. P = {m}
      BY <2>2, <3>1
    <3>3. Cardinality(P) = 1
      BY <3>2, FS_Singleton
    <3> QED BY <2>1, <3>3
  <2> QED BY <2>3, <2>4
<1>3. ASSUME phase = "done", NEW i \in Quiet PROVE places(i) # {}
  BY <1>1, <1>3
<1>4. ASSUME NEW i \in Quiet, NEW j \in Quiet, NEW m \in places(i), NEW n \in places(j), Precedes(query, i, j)
      PROVE  m < n
  BY <1>1, <1>4
<1>5. Quiet = Beyond(query, first) \ touched
  BY DEF Quiet
<1> QED BY <1>2, <1>3, <1>4, <1>5 DEF ListingExact

\* However messages and pages interleave, a listing that ends has returned every record
\* beyond its first cursor that nobody rewrote meanwhile, once and in order (the
\* cursors of ListOrdered, ListRanked and ListDue).
THEOREM ExactListings == Spec => []ListingExact
<1>1. Init => ListingInv
  BY InitListed
<1>2. ListingInv /\ [Next]_vars => ListingInv'
  BY ListingStep
<1> QED BY <1>1, <1>2, ListingIsExact, PTL DEF Spec
=============================================================================
