-------------------------- MODULE OrderedSeamProofs --------------------------
(***************************************************************************)
(* Proofs about OrderedSeam, for any calls, seams, names and limits: what  *)
(* the server stores at once is one call's, what a seam says of a write is *)
(* so, a seam writes only into a stream it has verified, and names are     *)
(* kept apart.                                                             *)
(*                                                                         *)
(* The first part is about how names are written: what is joined of chunks *)
(* of which none begins another can be taken apart in one way only, and    *)
(* both escapes of NameCodec make such chunks.                             *)
(***************************************************************************)
EXTENDS OrderedSeam, FiniteSetTheorems, SequenceTheorems, WellFoundedInduction, TLAPS

-----------------------------------------------------------------------------
(* Sequences *)

\* What is so of the first number and of each after one it is so of is so of all.
LEMMA Upwards ==
  ASSUME NEW n \in Nat, NEW T, 0 \in T, \A i \in 0..n : i \in T /\ i + 1 <= n => i + 1 \in T
  PROVE  \A i \in 0..n : i \in T
<1> DEFINE U == {i \in 0..n : i \notin T}
           R == OpToRel(<, Nat)
<1> SUFFICES ASSUME U # {} PROVE FALSE
  OBVIOUS
<1>1. U \subseteq Nat
  OBVIOUS
<1>2. IsWellFoundedOn(R, Nat)
  BY NatLessThanWellFounded
<1>3. \A x, y \in Nat : y < x => <<y, x>> \in R
  BY DEF OpToRel
<1> HIDE DEF R
<1>4. PICK m \in U : \A y \in U : ~ (<<y, m>> \in R)
  BY <1>1, <1>2, WFMin
<1>5. m \in 0..n /\ m \notin T /\ m # 0
  BY <1>4
<1>6. m - 1 \in 0..n /\ m - 1 \notin U
  <2>1. m \in Nat /\ m - 1 \in Nat /\ m - 1 \in 0..n /\ m - 1 < m
    BY <1>5
  <2>2. <<m - 1, m>> \in R
    BY <1>3, <2>1
  <2> HIDE DEF U
  <2> QED BY <1>4, <2>1, <2>2
<1>7. (m - 1) + 1 \in T
  BY <1>5, <1>6
<1> QED BY <1>5, <1>7

\* Appending puts the second behind the first.
LEMMA Concat ==
  ASSUME NEW D, NEW x \in Seq(D), NEW y \in Seq(D)
  PROVE  /\ x \o y \in Seq(D) /\ Len(x) \in Nat /\ Len(y) \in Nat /\ Len(x \o y) = Len(x) + Len(y)
         /\ \A p \in 1..Len(x) : (x \o y)[p] = x[p]
         /\ \A p \in 1..Len(y) : (x \o y)[Len(x) + p] = y[p]
<1>1. x \o y \in Seq(D) /\ Len(x \o y) = Len(x) + Len(y)
  BY ConcatProperties, Zenon
<1>2. ASSUME NEW p \in 1..Len(x) PROVE (x \o y)[p] = x[p]
  OBVIOUS
<1>3. ASSUME NEW p \in 1..Len(y) PROVE (x \o y)[Len(x) + p] = y[p]
  <2>1. Len(x) + p \in 1..Len(x) + Len(y) /\ Len(x) + p > Len(x) /\ Len(x) + p - Len(x) = p
    OBVIOUS
  <2> QED BY <2>1
<1> QED BY <1>1, <1>2, <1>3

-----------------------------------------------------------------------------
(* Joining chunks *)

\* f joins the first n chunks of s, one by one.
Joins(f, s, D, n) ==
  /\ f \in [0..n -> Seq(D)] /\ f[0] = <<>>
  /\ \A i \in 1..n : f[i] = f[i - 1] \o s[i]

\* Chunks can be joined.
LEMMA Joinable ==
  ASSUME NEW D, NEW s \in Seq(Seq(D))
  PROVE  \E f : Joins(f, s, D, Len(s))
<1> DEFINE T == {m \in Nat : \E f : Joins(f, s, D, m)}
<1>0. Len(s) \in Nat /\ <<>> \in Seq(D)
  OBVIOUS
<1>1. 0 \in T
  <2>1. Joins([i \in 0..0 |-> <<>>], s, D, 0)
    BY <1>0 DEF Joins
  <2> QED BY <2>1
<1>2. ASSUME NEW m \in 0..Len(s), m \in T, m + 1 <= Len(s) PROVE m + 1 \in T
  <2>1. PICK f : Joins(f, s, D, m)
    BY <1>2
  <2>2. f \in [0..m -> Seq(D)] /\ f[0] = <<>> /\ \A i \in 1..m : f[i] = f[i - 1] \o s[i]
    BY <2>1 DEF Joins
  <2> DEFINE g == [i \in 0..m + 1 |-> IF i <= m THEN f[i] ELSE f[m] \o s[m + 1]]
  <2>3. f[m] \in Seq(D) /\ s[m + 1] \in Seq(D)
    BY <1>2, <2>2
  <2>4. f[m] \o s[m + 1] \in Seq(D)
    BY <2>3, Concat
  <2>5. g \in [0..m + 1 -> Seq(D)] /\ g[0] = <<>>
    BY <2>2, <2>4
  <2>6. ASSUME NEW i \in 1..m + 1 PROVE g[i] = g[i - 1] \o s[i]
    <3>1. CASE i <= m
      <4>1. i \in 1..m /\ g[i] = f[i] /\ g[i - 1] = f[i - 1]
        BY <3>1
      <4> QED BY <2>2, <4>1
    <3>2. CASE ~(i <= m)
      <4>1. i = m + 1 /\ g[i] = f[m] \o s[m + 1] /\ g[i - 1] = f[m]
        BY <3>2
      <4> QED BY <4>1
    <3> QED BY <3>1, <3>2
  <2> HIDE DEF g
  <2>7. Joins(g, s, D, m + 1)
    BY <2>5, <2>6 DEF Joins
  <2> QED BY <2>7
<1> HIDE DEF T
<1>3. \A i \in 0..Len(s) : i \in T
  BY <1>0, <1>1, <1>2, Upwards
<1>4. Len(s) \in T
  BY <1>0, <1>3
<1> QED BY <1>4 DEF T

\* That is what FlattenSeq computes.
LEMMA Flattened ==
  ASSUME NEW D, NEW s \in Seq(Seq(D)), NEW f, Joins(f, s, D, Len(s))
  PROVE  FlattenSeq(s) = f[Len(s)] /\ FlattenSeq(s) \in Seq(D)
<1> DEFINE N == Len(s)
<1>1. N \in Nat /\ f \in [0..N -> Seq(D)] /\ f[0] = <<>>
  BY DEF Joins
<1>2. ASSUME NEW i \in 1..N PROVE f[i] = f[i - 1] \o s[i] /\ f[i - 1] \in Seq(D)
  <2>1. i - 1 \in 0..N
    BY <1>1
  <2>2. f[i - 1] \in Seq(D)
    BY <1>1, <2>1
  <2>3. \A j \in 1..Len(s) : f[j] = f[j - 1] \o s[j]
    BY DEF Joins
  <2> QED BY <2>2, <2>3
<1>3. CASE N = 0
  BY <1>1, <1>3 DEF FlattenSeq
<1>4. CASE N # 0
  <2> DEFINE E(h) == [i \in 1..N |-> IF i = 1 THEN s[i] ELSE h[i - 1] \o s[i]]
             g == [i \in 1..N |-> f[i]]
             h == CHOOSE q : q = E(q)
  <2>1. ASSUME NEW i \in 1..N PROVE g[i] = IF i = 1 THEN s[i] ELSE g[i - 1] \o s[i]
    <3>1. CASE i = 1
      <4>1. f[i] = f[i - 1] \o s[i]
        BY <1>2
      <4>2. s[i] \in Seq(D)
        OBVIOUS
      <4>3. \A y \in Seq(D) : <<>> \o y = y
        BY ConcatEmptySeq, Zenon
      <4>4. i - 1 = 0
        BY <3>1
      <4>5. f[i] = s[i]
        BY <1>1, <4>1, <4>2, <4>3, <4>4
      <4> QED BY <3>1, <4>5
    <3>2. CASE i # 1
      <4>1. i - 1 \in 1..N
        BY <1>1, <3>2
      <4> QED BY <1>2, <3>2, <4>1
    <3> QED BY <3>1, <3>2
  <2>2. g = E(g)
    BY <2>1
  <2>3. h = E(h)
    <3> HIDE DEF g, E
    <3> QED BY <2>2
  <2>4. FlattenSeq(s) = h[N]
    BY <1>4 DEF FlattenSeq
  <2> HIDE DEF h, g
  <2>5. DOMAIN h = 1..N /\ \A i \in 1..N : h[i] = IF i = 1 THEN s[i] ELSE h[i - 1] \o s[i]
    BY <2>3
  <2> DEFINE T == {i \in Nat : i = 0 \/ h[i] = g[i]}
  <2>6. 0 \in T
    OBVIOUS
  <2>7. ASSUME NEW i \in 0..N, i \in T, i + 1 <= N PROVE i + 1 \in T
    <3>1. i + 1 \in 1..N /\ (i + 1) - 1 = i
      BY <1>1, <2>7
    <3>2. g[i + 1] = IF i + 1 = 1 THEN s[i + 1] ELSE g[i] \o s[i + 1]
      BY <2>1, <3>1
    <3>3. h[i + 1] = IF i + 1 = 1 THEN s[i + 1] ELSE h[i] \o s[i + 1]
      BY <2>5, <3>1
    <3> QED BY <2>7, <3>1, <3>2, <3>3
  <2> HIDE DEF T
  <2>8. \A i \in 0..N : i \in T
    BY <1>1, <2>6, <2>7, Upwards
  <2>9. h[N] = f[N]
    <3>1. N \in 0..N /\ N \in 1..N
      BY <1>1, <1>4
    <3>2. h[N] = g[N]
      BY <1>4, <2>8, <3>1 DEF T
    <3>3. g[N] = f[N]
      BY <3>1 DEF g
    <3> QED BY <3>2, <3>3
  <2> QED BY <1>1, <2>4, <2>9
<1> QED BY <1>3, <1>4

\* Each is a sequence.
LEMMA JoinTypes ==
  ASSUME NEW D, NEW s, NEW n, NEW f, Joins(f, s, D, n)
  PROVE  f[0] = <<>> /\ \A i \in 0..n : f[i] \in Seq(D) /\ Len(f[i]) \in Nat
<1>1. f \in [0..n -> Seq(D)] /\ f[0] = <<>>
  BY DEF Joins
<1>2. \A i \in 0..n : f[i] \in Seq(D)
  BY <1>1
<1>3. \A x \in Seq(D) : Len(x) \in Nat
  OBVIOUS
<1> QED BY <1>1, <1>2, <1>3

\* What was joined stays in front.
LEMMA InFront ==
  ASSUME NEW D, NEW s \in Seq(Seq(D)), NEW f, Joins(f, s, D, Len(s)), NEW k \in 0..Len(s)
  PROVE  /\ Len(f[k]) <= Len(f[Len(s)])
         /\ \A p \in 1..Len(f[k]) : f[Len(s)][p] = f[k][p]
<1> DEFINE T == {d \in Nat : k + d <= Len(s) =>
                   Len(f[k]) <= Len(f[k + d]) /\ \A p \in 1..Len(f[k]) : f[k + d][p] = f[k][p]}
           n == Len(s) - k
<1>0. /\ Len(s) \in Nat /\ n \in Nat /\ k + n = Len(s)
      /\ \A i \in 0..Len(s) : f[i] \in Seq(D) /\ Len(f[i]) \in Nat
  <2>1. Len(s) \in Nat
    OBVIOUS
  <2> QED BY <2>1, JoinTypes
<1>1. 0 \in T
  BY <1>0
<1>2. ASSUME NEW d \in 0..n, d \in T, d + 1 <= n PROVE d + 1 \in T
  <2>1. /\ k + (d + 1) \in 1..Len(s) /\ (k + (d + 1)) - 1 = k + d /\ k + d \in 0..Len(s)
        /\ k + d <= Len(s) /\ d + 1 \in Nat
    <3>1. Len(s) \in Nat /\ d + 1 <= n
      BY <1>0, <1>2
    <3> HIDE DEF T
    <3> QED BY <3>1
  <2>2. PICK x \in Seq(D), y \in Seq(D) :
          x = f[k + d] /\ y = s[k + (d + 1)] /\ f[k + (d + 1)] = x \o y
    <3>1. f[k + d] \in Seq(D) /\ s[k + (d + 1)] \in Seq(D)
      BY <1>0, <2>1
    <3>2. f[k + (d + 1)] = f[(k + (d + 1)) - 1] \o s[k + (d + 1)]
      BY <2>1 DEF Joins
    <3> QED BY <2>1, <3>1, <3>2
  <2>3. Len(f[k]) <= Len(x) /\ \A p \in 1..Len(f[k]) : x[p] = f[k][p]
    BY <1>2, <2>1, <2>2
  <2>4. /\ Len(x) \in Nat /\ Len(y) \in Nat /\ Len(x \o y) = Len(x) + Len(y)
        /\ \A p \in 1..Len(x) : (x \o y)[p] = x[p]
    BY Concat
  <2>5. Len(f[k]) \in Nat
    BY <1>0
  <2>6. Len(f[k]) <= Len(x \o y) /\ \A p \in 1..Len(f[k]) : (x \o y)[p] = f[k][p]
    BY <2>3, <2>4, <2>5
  <2> QED BY <2>1, <2>2, <2>6
<1> HIDE DEF T
<1>3. \A d \in 0..n : d \in T
  BY <1>0, <1>1, <1>2, Upwards
<1>4. n \in T
  BY <1>0, <1>3
<1> QED BY <1>0, <1>4 DEF T

\* Neither begins the other.
Parts(u, v) == \E p \in 1..Len(u) : p \in 1..Len(v) /\ u[p] # v[p]

\* Chunks that are not empty, and of which none begins another.
Code(s, t, D) ==
  /\ s \in Seq(Seq(D)) /\ t \in Seq(Seq(D))
  /\ \A i \in 1..Len(s), j \in 1..Len(t) : s[i] = t[j] \/ Parts(s[i], t[j])
  /\ \A i \in 1..Len(s) : Len(s[i]) > 0
  /\ \A j \in 1..Len(t) : Len(t[j]) > 0

\* Of two sequences of such chunks that join to the same, one is the front of the other.
LEMMA ReadBack ==
  ASSUME NEW D, NEW s, NEW t, Code(s, t, D), FlattenSeq(s) = FlattenSeq(t)
  PROVE  Len(s) <= Len(t) /\ \A i \in 1..Len(s) : s[i] = t[i]
<1>0. /\ s \in Seq(Seq(D)) /\ t \in Seq(Seq(D)) /\ Len(s) \in Nat /\ Len(t) \in Nat
      /\ \A i \in 1..Len(s) : s[i] \in Seq(D) /\ Len(s[i]) > 0
      /\ \A i \in 1..Len(t) : t[i] \in Seq(D) /\ Len(t[i]) > 0
  BY DEF Code
<1>1. PICK f : Joins(f, s, D, Len(s))
  BY <1>0, Joinable
<1>2. PICK g : Joins(g, t, D, Len(t))
  BY <1>0, Joinable
<1>3. PICK N \in Nat, M \in Nat : N = Len(s) /\ M = Len(t)
  BY <1>0
<1>4. PICK all : all = f[N] /\ all = g[M]
  BY <1>0, <1>1, <1>2, <1>3, Flattened
<1>5. /\ f[0] = <<>> /\ \A i \in 0..N : f[i] \in Seq(D) /\ Len(f[i]) \in Nat
      /\ g[0] = <<>> /\ \A i \in 0..M : g[i] \in Seq(D) /\ Len(g[i]) \in Nat
  BY <1>1, <1>2, <1>3, JoinTypes
<1>6. /\ \A k \in 0..N : Len(f[k]) <= Len(all) /\ \A p \in 1..Len(f[k]) : all[p] = f[k][p]
      /\ \A k \in 0..M : Len(g[k]) <= Len(all) /\ \A p \in 1..Len(g[k]) : all[p] = g[k][p]
  <2>1. \A k \in 0..N : Len(f[k]) <= Len(f[N]) /\ \A p \in 1..Len(f[k]) : f[N][p] = f[k][p]
    BY <1>0, <1>1, <1>3, InFront
  <2>2. \A k \in 0..M : Len(g[k]) <= Len(g[M]) /\ \A p \in 1..Len(g[k]) : g[M][p] = g[k][p]
    BY <1>0, <1>2, <1>3, InFront
  <2> QED BY <1>4, <2>1, <2>2
<1> DEFINE T == {k \in Nat : k <= N => k <= M /\ f[k] = g[k] /\ \A i \in 1..k : s[i] = t[i]}
<1>7. 0 \in T
  BY <1>5
<1>8. ASSUME NEW k \in 0..N, k \in T, k + 1 <= N PROVE k + 1 \in T
  <2>1. k <= M /\ f[k] = g[k] /\ \A i \in 1..k : s[i] = t[i]
    BY <1>8
  <2>2. k + 1 \in 1..N /\ k + 1 \in 0..N /\ (k + 1) - 1 = k
    BY <1>8
  <2>3. PICK x \in Seq(D), y \in Seq(D) : x = f[k] /\ y = s[k + 1] /\ f[k + 1] = x \o y /\ Len(y) > 0
    BY <1>0, <1>1, <1>3, <1>5, <2>2 DEF Joins
  <2>4. /\ Len(x) \in Nat /\ Len(y) \in Nat /\ Len(x \o y) = Len(x) + Len(y)
        /\ \A p \in 1..Len(y) : (x \o y)[Len(x) + p] = y[p]
    BY Concat
  <2>5. Len(x \o y) <= Len(all) /\ \A p \in 1..Len(x \o y) : all[p] = (x \o y)[p]
    BY <1>6, <2>2, <2>3
  <2>6. k # M
    <3> SUFFICES ASSUME k = M PROVE FALSE
      OBVIOUS
    <3>1. all = x
      BY <1>4, <2>1, <2>3
    <3>2. Len(x) + Len(y) <= Len(x)
      BY <2>4, <2>5, <3>1
    <3>3. Len(y) > 0 /\ Len(x) \in Nat /\ Len(y) \in Nat
      BY <2>3, <2>4
    <3> QED BY <3>2, <3>3
  <2>7. k + 1 <= M /\ k + 1 \in 1..M /\ k + 1 \in 0..M
    BY <2>1, <2>6
  <2>8. PICK z \in Seq(D) : z = t[k + 1] /\ g[k + 1] = x \o z
    BY <1>0, <1>2, <1>3, <1>5, <2>1, <2>2, <2>3, <2>7 DEF Joins
  <2>9. /\ Len(z) \in Nat /\ Len(x \o z) = Len(x) + Len(z)
        /\ \A p \in 1..Len(z) : (x \o z)[Len(x) + p] = z[p]
    BY Concat
  <2>10. \A p \in 1..Len(x \o z) : all[p] = (x \o z)[p]
    BY <1>6, <2>7, <2>8
  <2>11. y = z
    <3>1. y = z \/ \E p \in 1..Len(y) : p \in 1..Len(z) /\ y[p] # z[p]
      <4>1. y = z \/ Parts(y, z)
        BY <1>3, <2>2, <2>3, <2>7, <2>8 DEF Code
      <4> QED BY <4>1 DEF Parts
    <3>2. ASSUME NEW p \in 1..Len(y), p \in 1..Len(z) PROVE y[p] = z[p]
      <4>1. Len(x) + p \in 1..Len(x \o y) /\ Len(x) + p \in 1..Len(x \o z)
        BY <2>4, <2>9, <3>2
      <4>2. all[Len(x) + p] = y[p] /\ all[Len(x) + p] = z[p]
        BY <2>4, <2>5, <2>9, <2>10, <3>2, <4>1
      <4> QED BY <4>2
    <3> QED BY <3>1, <3>2
  <2>12. \A i \in 1..k + 1 : s[i] = t[i]
    <3>1. s[k + 1] = t[k + 1]
      BY <2>3, <2>8, <2>11
    <3>2. \A i \in 1..k + 1 : i \in 1..k \/ i = k + 1
      OBVIOUS
    <3> QED BY <2>1, <3>1, <3>2
  <2>13. k + 1 \in Nat /\ f[k + 1] = g[k + 1]
    BY <2>3, <2>8, <2>11
  <2> QED BY <2>7, <2>12, <2>13
<1> HIDE DEF T
<1>9. \A k \in 0..N : k \in T
  BY <1>7, <1>8, Upwards
<1>10. N \in T
  BY <1>9
<1> QED BY <1>3, <1>10 DEF T

\* They are the same.
LEMMA Unique ==
  ASSUME NEW D, NEW s, NEW t, Code(s, t, D), FlattenSeq(s) = FlattenSeq(t)
  PROVE  Len(s) = Len(t) /\ \A i \in 1..Len(s) : s[i] = t[i]
<1>1. Code(t, s, D)
  <2>1. \A u, v : Parts(u, v) => Parts(v, u)
    BY DEF Parts
  <2> QED BY <2>1 DEF Code
<1>2. Len(s) \in Nat /\ Len(t) \in Nat
  BY DEF Code
<1>3. Len(s) <= Len(t) /\ Len(t) <= Len(s) /\ \A i \in 1..Len(s) : s[i] = t[i]
  BY <1>1, ReadBack
<1> QED BY <1>2, <1>3

-----------------------------------------------------------------------------
(* The codes *)

\* F writes each character of C as some of D, and no two so that one begins the other.
Tells(F, C, D) ==
  /\ F \in [C -> Seq(D)] /\ \A x \in C : Len(F[x]) > 0
  /\ \A x, y \in C : x # y => Parts(F[x], F[y])

\* What is written with F, character by character.
Written(F, a) == FlattenSeq([i \in 1..Len(a) |-> F[a[i]]])

\* It is of D, and can be read in one way only.
LEMMA Decodable ==
  ASSUME NEW C, NEW D, NEW F, Tells(F, C, D), NEW a \in Seq(C), NEW b \in Seq(C)
  PROVE  Written(F, a) \in Seq(D) /\ (Written(F, a) = Written(F, b) => a = b)
<1> DEFINE s == [i \in 1..Len(a) |-> F[a[i]]]
           t == [i \in 1..Len(b) |-> F[b[i]]]
<1>1. /\ Len(a) \in Nat /\ \A i \in 1..Len(a) : a[i] \in C
      /\ Len(b) \in Nat /\ \A i \in 1..Len(b) : b[i] \in C
  OBVIOUS
<1>2. \A x \in C : F[x] \in Seq(D) /\ Len(F[x]) > 0
  BY DEF Tells
<1>3. s \in Seq(Seq(D)) /\ Len(s) = Len(a) /\ \A i \in 1..Len(a) : s[i] = F[a[i]]
  BY <1>1, <1>2
<1>4. t \in Seq(Seq(D)) /\ Len(t) = Len(b) /\ \A i \in 1..Len(b) : t[i] = F[b[i]]
  BY <1>1, <1>2
<1>5. Written(F, a) = FlattenSeq(s) /\ Written(F, b) = FlattenSeq(t)
  BY DEF Written
<1> HIDE DEF s, t
<1>6. FlattenSeq(s) \in Seq(D)
  <2>1. PICK f : Joins(f, s, D, Len(s))
    BY <1>3, Joinable
  <2> QED BY <1>3, <2>1, Flattened
<1>7. ASSUME FlattenSeq(s) = FlattenSeq(t) PROVE a = b
  <2>1. ASSUME NEW x \in C, NEW y \in C
        PROVE  F[x] = F[y] \/ Parts(F[x], F[y])
    BY DEF Tells
  <2>2. ASSUME NEW i \in 1..Len(s), NEW j \in 1..Len(t)
        PROVE  s[i] = t[j] \/ Parts(s[i], t[j])
    <3>1. PICK x \in C : x = a[i] /\ s[i] = F[x]
      BY <1>1, <1>3
    <3>2. PICK y \in C : y = b[j] /\ t[j] = F[y]
      BY <1>1, <1>4
    <3> QED BY <2>1, <3>1, <3>2
  <2>3. (\A i \in 1..Len(s) : Len(s[i]) > 0) /\ \A j \in 1..Len(t) : Len(t[j]) > 0
    BY <1>1, <1>2, <1>3, <1>4
  <2>4. Code(s, t, D)
    BY <1>3, <1>4, <2>2, <2>3 DEF Code
  <2>5. Len(s) = Len(t) /\ \A i \in 1..Len(s) : s[i] = t[i]
    BY <1>7, <2>4, Unique
  <2>6. ASSUME NEW i \in 1..Len(a) PROVE a[i] = b[i]
    <3>1. a[i] \in C /\ b[i] \in C /\ F[a[i]] = F[b[i]]
      BY <1>1, <1>3, <1>4, <2>5
    <3>2. ASSUME NEW x \in C, NEW y \in C, F[x] = F[y] PROVE x = y
      BY <3>2 DEF Tells, Parts
    <3> QED BY <3>1, <3>2
  <2>7. Len(a) = Len(b)
    BY <1>3, <1>4, <2>5
  <2> QED BY <2>6, <2>7, SeqEqual
<1> QED BY <1>5, <1>6, <1>7

\* The characters of what streams are called, and of a ledger's subject.
StreamChars == NameChars \ {".", "/"}
SubjectChars == NameChars \cup {"%", "E"}

\* Which characters are where.
LEMMA CharsApart ==
  /\ "O" \notin SubjectChars /\ "X" \notin SubjectChars /\ "%" \notin NameChars
  /\ StreamChars \subseteq SubjectChars /\ "." \notin StreamChars
  /\ "_" \in StreamChars /\ "u" \in StreamChars /\ "d" \in StreamChars /\ "s" \in StreamChars
  /\ "." \in SubjectChars /\ "2" \in SubjectChars
BY DEF StreamChars, SubjectChars, NameChars

\* A sequence of one character.
LEMMA Written1 ==
  ASSUME NEW D, NEW x \in D, NEW u, u = <<x>> PROVE u \in Seq(D) /\ Len(u) = 1 /\ u[1] = x
OBVIOUS

\* Three.
LEMMA Written3 ==
  ASSUME NEW D, NEW x \in D, NEW y \in D, NEW z \in D, NEW u, u = <<x, y, z>>
  PROVE  u \in Seq(D) /\ Len(u) = 3 /\ u[1] = x
OBVIOUS

\* What Escape makes of the characters a stream's name has none of.
Marks == {"u", "d", "s"}
Marked(e) == <<"_", e>>

\* The two characters of an escape.
LEMMA MarkedFields ==
  ASSUME NEW e \in Marks
  PROVE  Marked(e) \in Seq(StreamChars) /\ Len(Marked(e)) = 2 /\ Marked(e)[1] = "_" /\ Marked(e)[2] = e
<1>1. "_" \in StreamChars /\ e \in StreamChars
  BY CharsApart DEF Marks
<1>2. PICK x \in StreamChars : x = "_"
  BY <1>1
<1>3. PICK y \in StreamChars : y = e
  BY <1>1
<1>4. PICK u : u = Marked(e) /\ u = <<x, y>>
  BY <1>2, <1>3 DEF Marked
<1>5. u \in Seq(StreamChars) /\ Len(u) = 2 /\ u[1] = x /\ u[2] = y
  BY <1>4
<1> QED BY <1>2, <1>3, <1>4, <1>5

\* A ledger's stream is called by the characters streams may have, and no two names have the
\* same (encodeStream: '_' escapes itself, so "a.b", "a/b" and "a_db" are told apart).
THEOREM StreamNames ==
  ASSUME NEW a \in Seq(NameChars), NEW b \in Seq(NameChars)
  PROVE  EncodeStream(a) \in Seq(StreamChars) /\ (EncodeStream(a) = EncodeStream(b) => a = b)
<1> DEFINE F == [ch \in NameChars |-> Escape(ch)]
           mark(ch) == CASE ch = "_" -> "u" [] ch = "." -> "d" [] ch = "/" -> "s"
<1>1. ASSUME NEW x \in NameChars
      PROVE  IF x \in {"_", ".", "/"} THEN mark(x) \in Marks /\ F[x] = Marked(mark(x))
                                      ELSE x \in StreamChars /\ F[x] = <<x>>
  BY DEF Escape, StreamChars, Marks, Marked
<1>2. \A x, y \in {"_", ".", "/"} : x # y => mark(x) # mark(y)
  OBVIOUS
<1>3. ASSUME NEW c \in Seq(NameChars) PROVE EncodeStream(c) = Written(F, c)
  <2>1. \A i \in 1..Len(c) : Escape(c[i]) = F[c[i]]
    OBVIOUS
  <2>2. [i \in 1..Len(c) |-> Escape(c[i])] = [i \in 1..Len(c) |-> F[c[i]]]
    BY <2>1
  <2> QED BY <2>2 DEF EncodeStream, Written
<1>4. F = [ch \in NameChars |-> F[ch]]
  OBVIOUS
<1> HIDE DEF F, mark
<1>5. ASSUME NEW x \in NameChars, x \in {"_", ".", "/"}
      PROVE  F[x] \in Seq(StreamChars) /\ Len(F[x]) = 2 /\ F[x][1] = "_" /\ F[x][2] = mark(x)
  <2>1. mark(x) \in Marks /\ F[x] = Marked(mark(x))
    BY <1>1, <1>5
  <2> QED BY <2>1, MarkedFields
<1>6. ASSUME NEW x \in NameChars, x \notin {"_", ".", "/"}
      PROVE  F[x] \in Seq(StreamChars) /\ Len(F[x]) = 1 /\ F[x][1] = x
  <2>1. F[x] = <<x>> /\ x \in StreamChars
    BY <1>1, <1>6
  <2> QED BY <2>1, Written1
<1>7. ASSUME NEW x \in NameChars PROVE F[x] \in Seq(StreamChars) /\ Len(F[x]) > 0 /\ 1 \in 1..Len(F[x])
  <2>1. CASE x \in {"_", ".", "/"}
    <3>1. F[x] \in Seq(StreamChars) /\ Len(F[x]) = 2
      BY <1>5, <2>1
    <3> QED BY <3>1
  <2>2. CASE x \notin {"_", ".", "/"}
    <3>1. F[x] \in Seq(StreamChars) /\ Len(F[x]) = 1
      BY <1>6, <2>2
    <3> QED BY <3>1
  <2> QED BY <2>1, <2>2
<1>8. ASSUME NEW x \in NameChars, NEW y \in NameChars, x # y PROVE Parts(F[x], F[y])
  <2>0. ASSUME NEW z \in NameChars PROVE F[z][1] = IF z \in {"_", ".", "/"} THEN "_" ELSE z
    <3>1. CASE z \in {"_", ".", "/"}
      <4>1. F[z][1] = "_"
        BY <1>5, <3>1
      <4> QED BY <3>1, <4>1
    <3>2. CASE z \notin {"_", ".", "/"}
      <4>1. F[z][1] = z
        BY <1>6, <3>2
      <4> QED BY <3>2, <4>1
    <3> QED BY <3>1, <3>2
  <2>1. CASE x \in {"_", ".", "/"} /\ y \in {"_", ".", "/"}
    <3>1. Len(F[x]) = 2 /\ Len(F[y]) = 2 /\ F[x][2] # F[y][2]
      BY <1>2, <1>5, <1>8, <2>1
    <3> QED BY <3>1 DEF Parts
  <2>2. CASE x \notin {"_", ".", "/"} \/ y \notin {"_", ".", "/"}
    <3>1. F[x][1] # F[y][1]
      BY <1>8, <2>0, <2>2
    <3> QED BY <1>7, <3>1 DEF Parts
  <2> QED BY <2>1, <2>2
<1>9. Tells(F, NameChars, StreamChars)
  <2>1. F \in [NameChars -> Seq(StreamChars)]
    BY <1>4, <1>7
  <2> QED BY <1>7, <1>8, <2>1 DEF Tells
<1> QED BY <1>3, <1>9, Decodable

\* No two names have the same subject, though '/' becomes '.' (encodeSubject escapes '.'
\* with a character that no name has).
THEOREM SubjectNames ==
  ASSUME NEW a \in Seq(NameChars), NEW b \in Seq(NameChars)
  PROVE  EncodeSubject(a) \in Seq(SubjectChars) /\ (EncodeSubject(a) = EncodeSubject(b) => a = b)
<1> DEFINE F == [ch \in NameChars |-> EscapeDot(ch)]
<1>1. ASSUME NEW x \in NameChars
      PROVE  /\ x = "." => F[x] = <<"%", "2", "E">>
             /\ x = "/" => F[x] = <<".">>
             /\ x \notin {".", "/"} => F[x] = <<x>> /\ x \in SubjectChars /\ x # "%"
  BY CharsApart DEF EscapeDot, SubjectChars
<1>2. ASSUME NEW c \in Seq(NameChars) PROVE EncodeSubject(c) = Written(F, c)
  <2>1. \A i \in 1..Len(c) : EscapeDot(c[i]) = F[c[i]]
    OBVIOUS
  <2>2. [i \in 1..Len(c) |-> EscapeDot(c[i])] = [i \in 1..Len(c) |-> F[c[i]]]
    BY <2>1
  <2> QED BY <2>2 DEF EncodeSubject, Written
<1>3. F = [ch \in NameChars |-> F[ch]]
  OBVIOUS
<1> HIDE DEF F
<1>4. ASSUME NEW x \in NameChars PROVE F[x] \in Seq(SubjectChars) /\ Len(F[x]) > 0
  <2>1. "%" \in SubjectChars /\ "2" \in SubjectChars /\ "E" \in SubjectChars /\ "." \in SubjectChars
    BY CharsApart DEF SubjectChars
  <2>2. CASE x = "."
    <3>1. F[x] = <<"%", "2", "E">>
      BY <1>1, <2>2
    <3> QED BY <2>1, <3>1, Written3
  <2>3. CASE x # "."
    <3>1. PICK e \in SubjectChars : F[x] = <<e>>
      BY <1>1, <2>1, <2>3
    <3> QED BY <3>1, Written1
  <2> QED BY <2>2, <2>3
<1>5. ASSUME NEW x \in NameChars, NEW y \in NameChars, x # y
      PROVE  Parts(F[x], F[y])
  <2>1. ASSUME NEW z \in NameChars
        PROVE  F[z][1] = (IF z = "." THEN "%" ELSE IF z = "/" THEN "." ELSE z) /\ z # "%"
    <3>1. CASE z = "."
      <4>1. F[z] = <<"%", "2", "E">>
        BY <1>1, <3>1
      <4> QED BY <3>1, <4>1
    <3>2. CASE z # "."
      <4>1. F[z] = <<IF z = "/" THEN "." ELSE z>> /\ z # "%"
        BY <1>1, <3>2
      <4> QED BY <3>2, <4>1
    <3> QED BY <3>1, <3>2
  <2>2. F[x][1] # F[y][1]
    BY <1>5, <2>1
  <2>3. 1 \in 1..Len(F[x]) /\ 1 \in 1..Len(F[y])
    BY <1>4
  <2> QED BY <2>2, <2>3 DEF Parts
<1>6. Tells(F, NameChars, SubjectChars)
  <2>1. F \in [NameChars -> Seq(SubjectChars)]
    BY <1>3, <1>4
  <2> QED BY <1>4, <1>5, <2>1 DEF Tells
<1> QED BY <1>2, <1>6, Decodable

-----------------------------------------------------------------------------
(* Streams and subjects of different names *)

\* All that is written in what streams are called and take.
Chars == SubjectChars \cup {"O", "I", "X"}

\* What it is to begin a sequence.
LEMMA Prefixed ==
  ASSUME NEW D, NEW s \in Seq(D), NEW t \in Seq(D), IsPrefix(s, t)
  PROVE  Len(s) <= Len(t) /\ \A i \in 1..Len(s) : s[i] = t[i]
<1>1. Len(s) \in Nat /\ Len(t) \in Nat /\ Len(s) <= Len(t)
  BY DEF IsPrefix
<1>2. SubSeq(s, 1, Len(s)) = SubSeq(t, 1, Len(s))
  BY DEF IsPrefix
<1>3. ASSUME NEW i \in 1..Len(s) PROVE s[i] = t[i]
  <2>1. SubSeq(s, 1, Len(s))[i] = s[i]
    BY <1>1
  <2>2. SubSeq(t, 1, Len(s))[i] = t[i]
    BY <1>1
  <2> QED BY <1>2, <2>1, <2>2
<1> QED BY <1>1, <1>3

\* A namespace's stream is called OI_ and the name's own.
LEMMA OrderedName ==
  ASSUME NEW a \in Seq(NameChars)
  PROVE  /\ EncodeStream(a) \in Seq(StreamChars) /\ Len(EncodeStream(a)) \in Nat
         /\ OrderedStreamName(a) \in Seq(Chars) /\ Len(OrderedStreamName(a)) = 3 + Len(EncodeStream(a))
         /\ OrderedStreamName(a)[1] = "O"
         /\ \A i \in 1..Len(EncodeStream(a)) : OrderedStreamName(a)[3 + i] = EncodeStream(a)[i]
<1>1. PICK e \in Seq(Chars) : e = EncodeStream(a) /\ EncodeStream(a) \in Seq(StreamChars)
  <2>1. EncodeStream(a) \in Seq(StreamChars)
    BY StreamNames
  <2>2. StreamChars \subseteq Chars
    BY CharsApart DEF Chars
  <2> QED BY <2>1, <2>2
<1>2. PICK h \in Seq(Chars) : h = <<"O", "I", "_">> /\ Len(h) = 3 /\ h[1] = "O"
  <2>1. PICK x \in Chars, y \in Chars, z \in Chars : x = "O" /\ y = "I" /\ z = "_"
    BY CharsApart DEF Chars
  <2>2. PICK h : h = <<x, y, z>>
    OBVIOUS
  <2>3. h \in Seq(Chars) /\ Len(h) = 3 /\ h[1] = x
    BY <2>2, Written3
  <2> QED BY <2>1, <2>2, <2>3
<1>3. OrderedStreamName(a) = h \o e
  BY <1>1, <1>2 DEF OrderedStreamName
<1>4. /\ h \o e \in Seq(Chars) /\ Len(e) \in Nat /\ Len(h \o e) = Len(h) + Len(e)
      /\ \A p \in 1..Len(h) : (h \o e)[p] = h[p]
      /\ \A p \in 1..Len(e) : (h \o e)[Len(h) + p] = e[p]
  BY Concat
<1>5. 1 \in 1..Len(h)
  <2>1. Len(h) = 3
    BY <1>2
  <2> QED BY <2>1
<1> QED BY <1>1, <1>2, <1>3, <1>4, <1>5

\* Its subjects begin with OI. and the name's own, and another dot.
LEMMA OrderedRoot ==
  ASSUME NEW a \in Seq(NameChars)
  PROVE  LET r == Root(OrderedSubjectFilter(a)) IN
         /\ r = Append(OrderedSubjectFilter(a).root, ".")
         /\ r \in Seq(Chars) /\ Len(r) = 4 + Len(EncodeStream(a)) /\ r[1] = "O"
         /\ \A i \in 1..Len(EncodeStream(a)) : r[3 + i] = EncodeStream(a)[i]
         /\ r[4 + Len(EncodeStream(a))] = "."
<1>1. PICK e \in Seq(Chars) : e = EncodeStream(a)
  <2>1. EncodeStream(a) \in Seq(StreamChars)
    BY StreamNames
  <2>2. StreamChars \subseteq Chars
    BY CharsApart DEF Chars
  <2> QED BY <2>1, <2>2
<1>2. PICK h \in Seq(Chars) : h = <<"O", "I", ".">> /\ Len(h) = 3 /\ h[1] = "O"
  <2>1. PICK x \in Chars, y \in Chars, z \in Chars : x = "O" /\ y = "I" /\ z = "."
    BY CharsApart DEF Chars
  <2>2. PICK h : h = <<x, y, z>>
    OBVIOUS
  <2>3. h \in Seq(Chars) /\ Len(h) = 3 /\ h[1] = x
    BY <2>2, Written3
  <2> QED BY <2>1, <2>2, <2>3
<1>3. OrderedSubjectFilter(a).root = h \o e /\ OrderedSubjectFilter(a).below
  BY <1>1, <1>2 DEF OrderedSubjectFilter
<1>4. /\ h \o e \in Seq(Chars) /\ Len(e) \in Nat /\ Len(h \o e) = Len(h) + Len(e)
      /\ \A p \in 1..Len(h) : (h \o e)[p] = h[p]
      /\ \A p \in 1..Len(e) : (h \o e)[Len(h) + p] = e[p]
  BY Concat
<1>5. PICK q \in Seq(Chars) :
        /\ q = h \o e /\ Len(q) = 3 + Len(e) /\ q[1] = "O" /\ \A p \in 1..Len(e) : q[3 + p] = e[p]
  <2>1. 1 \in 1..Len(h)
    BY <1>2
  <2> QED BY <1>2, <1>4, <2>1
<1>6. PICK dot \in Chars : dot = "."
  BY CharsApart DEF Chars
<1>7. PICK r \in Seq(Chars) :
        /\ r = Append(q, dot) /\ Len(r) = Len(q) + 1 /\ r[Len(q) + 1] = dot
        /\ \A i \in 1..Len(q) : r[i] = q[i]
  <2>1. /\ Append(q, dot) \in Seq(Chars) /\ Len(Append(q, dot)) = Len(q) + 1
        /\ Append(q, dot)[Len(q) + 1] = dot
        /\ \A i \in 1..Len(q) : Append(q, dot)[i] = q[i]
    OBVIOUS
  <2> QED BY <2>1
<1>8. r = Append(OrderedSubjectFilter(a).root, ".") /\ r = Root(OrderedSubjectFilter(a))
  BY <1>3, <1>5, <1>6, <1>7 DEF Root
<1>9. Len(r) = 4 + Len(e) /\ r[1] = "O" /\ r[4 + Len(e)] = "."
  <2>1. Len(q) + 1 = 4 + Len(e) /\ 1 \in 1..Len(q)
    BY <1>4, <1>5
  <2> QED BY <1>5, <1>6, <1>7, <2>1
<1>10. ASSUME NEW i \in 1..Len(e) PROVE r[3 + i] = e[i]
  <2>1. 3 + i \in 1..Len(q)
    BY <1>4, <1>5
  <2> QED BY <1>5, <1>7, <2>1
<1> QED BY <1>1, <1>7, <1>8, <1>9, <1>10

\* Namespaces of two names have streams of two names, and no subject in common.
LEMMA NamespacesApart ==
  ASSUME NEW a \in Seq(NameChars), NEW b \in Seq(NameChars)
  PROVE  /\ OrderedStreamName(a) = OrderedStreamName(b) => a = b
         /\ Overlap(OrderedSubjectFilter(a), OrderedSubjectFilter(b)) => a = b
<1>1. PICK u \in Seq(StreamChars), v \in Seq(StreamChars) :
        u = EncodeStream(a) /\ v = EncodeStream(b) /\ (u = v => a = b)
  BY StreamNames
<1>2. Len(u) \in Nat /\ Len(v) \in Nat
  OBVIOUS
<1>3. ASSUME OrderedStreamName(a) = OrderedStreamName(b) PROVE a = b
  <2>1. PICK s \in Seq(Chars) :
          /\ s = OrderedStreamName(a) /\ s = OrderedStreamName(b)
          /\ Len(s) = 3 + Len(u) /\ Len(s) = 3 + Len(v)
          /\ \A i \in 1..Len(u) : s[3 + i] = u[i]
          /\ \A i \in 1..Len(v) : s[3 + i] = v[i]
    BY <1>1, <1>3, OrderedName
  <2>2. Len(u) = Len(v)
    BY <1>2, <2>1
  <2>3. \A i \in 1..Len(u) : u[i] = v[i]
    BY <2>1, <2>2
  <2> QED BY <1>1, <2>2, <2>3, SeqEqual
<1>4. PICK q \in Seq(Chars), r \in Seq(Chars) :
        q = Root(OrderedSubjectFilter(a)) /\ r = Root(OrderedSubjectFilter(b))
  BY OrderedRoot
<1>5. /\ Len(q) = 4 + Len(u) /\ q[4 + Len(u)] = "." /\ \A i \in 1..Len(u) : q[3 + i] = u[i]
      /\ Len(r) = 4 + Len(v) /\ r[4 + Len(v)] = "." /\ \A i \in 1..Len(v) : r[3 + i] = v[i]
  BY <1>1, <1>4, OrderedRoot
<1>6. ASSUME Len(q) <= Len(r), \A i \in 1..Len(q) : q[i] = r[i] PROVE u = v
  <2>1. Len(u) = Len(v)
    <3> SUFFICES ASSUME Len(u) < Len(v) PROVE FALSE
      BY <1>2, <1>5, <1>6
    <3>1. /\ 4 + Len(u) \in 1..Len(q) /\ 1 + Len(u) \in 1..Len(v) /\ 3 + (1 + Len(u)) = 4 + Len(u)
      BY <1>2, <1>5
    <3>2. r[4 + Len(u)] = "." /\ r[4 + Len(u)] = v[1 + Len(u)]
      BY <1>5, <1>6, <3>1
    <3>3. v[1 + Len(u)] \in StreamChars
      BY <3>1
    <3> QED BY <3>2, <3>3, CharsApart
  <2>2. ASSUME NEW i \in 1..Len(u) PROVE u[i] = v[i]
    <3>1. 3 + i \in 1..Len(q) /\ i \in 1..Len(v)
      BY <1>2, <1>5, <2>1
    <3> QED BY <1>5, <1>6, <3>1
  <2> QED BY <2>1, <2>2, SeqEqual
<1>7. ASSUME Len(r) <= Len(q), \A i \in 1..Len(r) : r[i] = q[i] PROVE u = v
  <2>1. Len(u) = Len(v)
    <3> SUFFICES ASSUME Len(v) < Len(u) PROVE FALSE
      BY <1>2, <1>5, <1>7
    <3>1. /\ 4 + Len(v) \in 1..Len(r) /\ 1 + Len(v) \in 1..Len(u) /\ 3 + (1 + Len(v)) = 4 + Len(v)
      BY <1>2, <1>5
    <3>2. q[4 + Len(v)] = "." /\ q[4 + Len(v)] = u[1 + Len(v)]
      BY <1>5, <1>7, <3>1
    <3>3. u[1 + Len(v)] \in StreamChars
      BY <3>1
    <3> QED BY <3>2, <3>3, CharsApart
  <2>2. Len(r) = Len(q) /\ Len(r) \in Nat
    BY <1>2, <1>5, <2>1
  <2> QED BY <1>6, <1>7, <2>2
<1>8. ASSUME Overlap(OrderedSubjectFilter(a), OrderedSubjectFilter(b)) PROVE u = v
  <2>1. CASE OrderedSubjectFilter(a).root = OrderedSubjectFilter(b).root
    <3>1. q = r
      BY <1>4, <2>1, OrderedRoot
    <3>2. Len(q) \in Nat
      OBVIOUS
    <3> QED BY <1>6, <3>1, <3>2
  <2>2. CASE IsPrefix(q, r)
    BY <1>6, <2>2, Prefixed
  <2>3. CASE IsPrefix(r, q)
    BY <1>7, <2>3, Prefixed
  <2> QED BY <1>4, <1>8, <2>1, <2>2, <2>3 DEF Overlap
<1> QED BY <1>1, <1>3, <1>8

\* A ledger's stream and subject are no namespace's.
LEMMA LedgersApart ==
  ASSUME NEW a \in Seq(NameChars), NEW b \in Seq(NameChars)
  PROVE  /\ EncodeStream(a) # OrderedStreamName(b)
         /\ ~Overlap(LedgerSubject(a), OrderedSubjectFilter(b))
         /\ ~Overlap(OrderedSubjectFilter(b), LedgerSubject(a))
<1>1. EncodeStream(a) # OrderedStreamName(b)
  <2>1. PICK s \in Seq(StreamChars) : s = EncodeStream(a)
    BY StreamNames
  <2>2. PICK t \in Seq(Chars) : t = OrderedStreamName(b) /\ t[1] = "O" /\ Len(t) >= 3
    <3>1. Len(EncodeStream(b)) \in Nat
      BY OrderedName
    <3> QED BY <3>1, OrderedName
  <2>3. ASSUME s = t PROVE FALSE
    <3>1. s[1] \in StreamChars
      BY <2>2, <2>3
    <3> QED BY <2>2, <2>3, <3>1, CharsApart
  <2> QED BY <2>1, <2>2, <2>3
<1>2. PICK s \in Seq(Chars) : s = EncodeSubject(a) /\ s \in Seq(SubjectChars)
  <2>1. SubjectChars \subseteq Chars
    BY DEF Chars
  <2>2. EncodeSubject(a) \in Seq(SubjectChars)
    BY SubjectNames
  <2> QED BY <2>1, <2>2
<1>3. PICK r \in Seq(Chars) : r = Root(OrderedSubjectFilter(b)) /\ r[1] = "O" /\ Len(r) >= 4
  <2>1. Len(EncodeStream(b)) \in Nat
    BY OrderedName
  <2> QED BY <2>1, OrderedRoot
<1>4. ~IsPrefix(r, s)
  <2> SUFFICES ASSUME IsPrefix(r, s) PROVE FALSE
    OBVIOUS
  <2>1. Len(r) <= Len(s) /\ \A i \in 1..Len(r) : r[i] = s[i]
    BY Prefixed
  <2>2. 1 \in 1..Len(r) /\ 1 \in 1..Len(s)
    BY <1>3, <2>1
  <2>3. s[1] \in SubjectChars /\ s[1] = "O"
    BY <1>2, <1>3, <2>1, <2>2
  <2> QED BY <2>3, CharsApart
<1>5. /\ LedgerSubject(a).below = FALSE /\ Root(LedgerSubject(a)) = s
      /\ OrderedSubjectFilter(b).below = TRUE
  BY <1>2 DEF LedgerSubject, OrderedSubjectFilter, Root
<1> QED BY <1>1, <1>3, <1>4, <1>5 DEF Overlap

\* The operator's subject is nobody's.
LEMMA ForeignApart ==
  ASSUME NEW a \in Seq(NameChars)
  PROVE  /\ ~Overlap(Foreign.subjects, LedgerSubject(a))
         /\ ~Overlap(Foreign.subjects, OrderedSubjectFilter(a))
<1>1. PICK x \in Seq(Chars) : x = <<"X">> /\ Len(x) = 1 /\ x[1] = "X"
  <2>1. PICK e \in Chars : e = "X"
    BY DEF Chars
  <2>2. PICK x : x = <<e>>
    OBVIOUS
  <2> QED BY <2>1, <2>2, Written1
<1>2. Foreign.subjects.root = x /\ Foreign.subjects.below = FALSE /\ Root(Foreign.subjects) = x
  BY <1>1 DEF Foreign, Root
<1>3. PICK s \in Seq(SubjectChars) : s = EncodeSubject(a)
  BY SubjectNames
<1>4. x # s
  <2> SUFFICES ASSUME x = s PROVE FALSE
    OBVIOUS
  <2>1. s[1] \in SubjectChars
    BY <1>1
  <2> QED BY <1>1, <2>1, CharsApart
<1>5. LedgerSubject(a).root = s /\ LedgerSubject(a).below = FALSE
  BY <1>3 DEF LedgerSubject
<1>6. PICK r \in Seq(Chars) : r = Root(OrderedSubjectFilter(a)) /\ r[1] = "O" /\ Len(r) >= 4
  <2>1. Len(EncodeStream(a)) \in Nat
    BY OrderedName
  <2> QED BY <2>1, OrderedRoot
<1>7. ~IsPrefix(r, x)
  <2> SUFFICES ASSUME IsPrefix(r, x) PROVE FALSE
    OBVIOUS
  <2>1. Len(r) <= Len(x)
    BY Prefixed
  <2> QED BY <1>1, <1>6, <2>1
<1>8. OrderedSubjectFilter(a).below = TRUE
  BY DEF OrderedSubjectFilter
<1> QED BY <1>2, <1>4, <1>5, <1>6, <1>7, <1>8 DEF Overlap

\* Two calls share a stream if they are for the same name and both for a ledger or both for
\* a namespace, and what their streams take overlaps only then.
LEMMA StreamsApart ==
  ASSUME job \in Jobs, NEW c \in Calls, NEW d \in Calls
  PROVE  /\ ~Overlap(Foreign.subjects, LayoutOf(c).subjects)
         /\ StreamOf(c) = StreamOf(d) => job[c].name = job[d].name /\ LayoutOf(c) = LayoutOf(d)
         /\ StreamOf(c) # StreamOf(d) => ~Overlap(LayoutOf(c).subjects, LayoutOf(d).subjects)
<1>1. PICK a \in Seq(NameChars), b \in Seq(NameChars) : a = job[c].name /\ b = job[d].name
  BY SeamNames
<1>2. /\ job[c].kind = "append" =>
           StreamOf(c) = EncodeStream(a) /\ LayoutOf(c).subjects = LedgerSubject(a)
      /\ job[c].kind # "append" =>
           StreamOf(c) = OrderedStreamName(a) /\ LayoutOf(c).subjects = OrderedSubjectFilter(a)
  BY <1>1 DEF StreamOf, LayoutOf
<1>3. /\ job[d].kind = "append" =>
           StreamOf(d) = EncodeStream(b) /\ LayoutOf(d).subjects = LedgerSubject(b)
      /\ job[d].kind # "append" =>
           StreamOf(d) = OrderedStreamName(b) /\ LayoutOf(d).subjects = OrderedSubjectFilter(b)
  BY <1>1 DEF StreamOf, LayoutOf
<1>4. ~Overlap(Foreign.subjects, LayoutOf(c).subjects)
  BY <1>2, ForeignApart
<1>5. (job[c].kind = "append" <=> job[d].kind = "append") /\ a = b =>
        StreamOf(c) = StreamOf(d) /\ LayoutOf(c) = LayoutOf(d)
  BY <1>1 DEF StreamOf, LayoutOf
<1>6. CASE job[c].kind = "append" /\ job[d].kind = "append"
  <2>1. EncodeStream(a) = EncodeStream(b) => a = b
    BY StreamNames
  <2>2. Overlap(LedgerSubject(a), LedgerSubject(b)) => a = b
    BY SubjectNames DEF Overlap, LedgerSubject
  <2> QED BY <1>1, <1>2, <1>3, <1>4, <1>5, <1>6, <2>1, <2>2
<1>7. CASE job[c].kind # "append" /\ job[d].kind # "append"
  <2>1. /\ OrderedStreamName(a) = OrderedStreamName(b) => a = b
        /\ Overlap(OrderedSubjectFilter(a), OrderedSubjectFilter(b)) => a = b
    BY NamespacesApart
  <2> QED BY <1>1, <1>2, <1>3, <1>4, <1>5, <1>7, <2>1
<1>8. CASE job[c].kind = "append" /\ job[d].kind # "append"
  <2>1. EncodeStream(a) # OrderedStreamName(b) /\ ~Overlap(LedgerSubject(a), OrderedSubjectFilter(b))
    BY LedgersApart
  <2> QED BY <1>2, <1>3, <1>4, <1>8, <2>1
<1>9. CASE job[c].kind # "append" /\ job[d].kind = "append"
  <2>1. EncodeStream(b) # OrderedStreamName(a) /\ ~Overlap(OrderedSubjectFilter(a), LedgerSubject(b))
    BY LedgersApart
  <2> QED BY <1>2, <1>3, <1>4, <1>9, <2>1
<1> QED BY <1>6, <1>7, <1>8, <1>9

USE SeamConstants

-----------------------------------------------------------------------------
(* Operators *)

\* What Put makes of a function.
LEMMA Puts ==
  ASSUME NEW f, NEW x, NEW y
  PROVE  /\ DOMAIN Put(f, x, y) = DOMAIN f \cup {x} /\ Put(f, x, y)[x] = y
         /\ \A z \in DOMAIN f : z # x => Put(f, x, y)[z] = f[z]
BY DEF Put

\* What Drop makes of it.
LEMMA Drops ==
  ASSUME NEW f, NEW x
  PROVE  DOMAIN Drop(f, x) = DOMAIN f \ {x} /\ \A z \in DOMAIN f : z # x => Drop(f, x)[z] = f[z]
BY DEF Drop

\* A sequence with an element appended.
LEMMA Appended ==
  ASSUME NEW S, NEW q \in Seq(S), NEW e \in S
  PROVE  /\ Append(q, e) \in Seq(S) /\ Len(q) \in Nat /\ Len(Append(q, e)) = Len(q) + 1
         /\ Append(q, e)[Len(q) + 1] = e
         /\ \A i \in 1..Len(q) : Append(q, e)[i] = q[i] /\ q[i] \in S
OBVIOUS

\* A sequence without its first.
LEMMA Tails ==
  ASSUME NEW S, NEW q \in Seq(S), q # <<>>
  PROVE  /\ Tail(q) \in Seq(S) /\ Len(q) \in Nat \ {0} /\ Len(Tail(q)) = Len(q) - 1
         /\ Head(q) = q[1] /\ q[1] \in S
         /\ \A i \in 1..Len(Tail(q)) : Tail(q)[i] = q[i + 1] /\ q[i + 1] \in S /\ i + 1 \in 1..Len(q)
OBVIOUS

\* A bounded set of numbers has a greatest.
LEMMA Greatest ==
  ASSUME NEW n \in Nat, NEW T, T \subseteq 0..n, T # {}
  PROVE  Max(T) \in T
<1> DEFINE U == {n - i : i \in T}
           R == OpToRel(<, Nat)
<1>1. U \subseteq Nat /\ U # {}
  <2>1. PICK i \in T : TRUE
    OBVIOUS
  <2>2. n - i \in U
    BY <2>1
  <2>3. \A j \in T : n - j \in Nat
    OBVIOUS
  <2> QED BY <2>2, <2>3
<1>2. IsWellFoundedOn(R, Nat)
  BY NatLessThanWellFounded
<1>3. \A x, y \in Nat : y < x => <<y, x>> \in R
  BY DEF OpToRel
<1> HIDE DEF R
<1>4. PICK u \in U : \A y \in U : ~ (<<y, u>> \in R)
  <2> HIDE DEF U
  <2> QED BY <1>1, <1>2, WFMin
<1>5. PICK m \in T : u = n - m
  OBVIOUS
<1>6. ASSUME NEW i \in T PROVE m >= i
  <2>1. n - i \in U /\ n - i \in Nat /\ u \in Nat
    BY <1>1
  <2>2. ~(n - i < u)
    BY <1>3, <1>4, <2>1
  <2> QED BY <1>5, <2>2
<1> QED BY <1>6 DEF Max

-----------------------------------------------------------------------------
(* What delivering a message does *)

SeamTyped == TypeOK /\ CallSteps

\* What is stored of a call that is stored.
Entry(c) ==
  [stream |-> StreamOf(c),
   calls |-> IF job[c].kind = "create" THEN <<c, c>> ELSE <<c>>,
   subjects |-> IF job[c].kind = "create" THEN <<Counter, Record(c)>> ELSE <<Record(c)>>]

\* Batches go on as they were, but that m may have begun one.
Stages(m) ==
  \A k \in DOMAIN staged' :
    \/ k \in DOMAIN staged /\ staged'[k] = staged[k]
    \/ k = <<m.stream, m.batch>> /\ staged'[k] = <<m>> /\ ~m.last

Hears(m, what, count) == reply' = [reply EXCEPT ![m.call] = [is |-> what, count |-> count]]

\* Nothing is stored, and a message that asks is answered so.
Refuses(m) ==
  /\ UNCHANGED <<streams, log>>
  /\ IF m.last THEN \E what \in {"wrongLast", "refused", "noResponders"} : Hears(m, what, 0)
               ELSE UNCHANGED reply

\* The message completes its call's write, which is stored.
Stores(m) ==
  /\ m.last /\ log' = Append(log, Entry(m.call))
  /\ Hears(m, "ok", Len(Entry(m.call).calls))
  /\ \A st \in DOMAIN streams' : Range(streams'[st].last) \subseteq 1..2 * (Len(log) + 1)

\* Sequences stay within twice what was stored: a write adds two at most.
LEMMA Sequenced ==
  ASSUME ServerTypes, NEW m, Exists(m.stream), NEW members,
         Len(members) \in {1, 2},
         \A n \in 1..Len(members) : LastOf(m.stream, members[n].subject) = members[n].exp,
         Store(m, members)
  PROVE  \A st \in DOMAIN streams' : Range(streams'[st].last) \subseteq 1..2 * (Len(log) + 1)
<1> DEFINE last == streams[m.stream].last
           S == {last[s] : s \in DOMAIN last} \cup {0}
           top == Max(S)
           new == {members[n].subject : n \in 1..Len(members)}
           fresh == [s \in DOMAIN last \cup new |->
                      IF s \in new THEN top + CHOOSE n \in 1..Len(members) : members[n].subject = s
                                   ELSE last[s]]
<1>1. streams' = Put(streams, m.stream, [layout |-> streams[m.stream].layout, last |-> fresh])
  BY DEF Store
<1>2. Len(log) \in Nat /\ \A s \in DOMAIN last : last[s] \in 1..2 * Len(log)
  BY DEF ServerTypes, Exists, Range
<1>3. top \in 0..2 * Len(log)
  <2>1. S \subseteq 0..2 * Len(log) /\ S # {} /\ 2 * Len(log) \in Nat
    BY <1>2
  <2> HIDE DEF S
  <2>2. Max(S) \in S
    BY <2>1, Greatest
  <2> QED BY <2>1, <2>2
<1> HIDE DEF top, S
<1>4. ASSUME NEW s \in new
      PROVE  (CHOOSE n \in 1..Len(members) : members[n].subject = s) \in 1..Len(members)
  OBVIOUS
<1>5. ASSUME NEW s \in DOMAIN last \cup new PROVE fresh[s] \in 1..2 * (Len(log) + 1)
  <2>1. CASE s \in new
    <3>1. PICK n \in 1..Len(members) : fresh[s] = top + n
      BY <1>4, <2>1
    <3>2. n \in {1, 2}
      OBVIOUS
    <3> HIDE DEF fresh
    <3> QED BY <1>2, <1>3, <3>1, <3>2
  <2>2. CASE s \notin new
    BY <1>2, <2>2
  <2> QED BY <2>1, <2>2
<1>6. DOMAIN fresh = DOMAIN last \cup new
  OBVIOUS
<1> HIDE DEF fresh
<1>7. Range(fresh) \subseteq 1..2 * (Len(log) + 1)
  BY <1>5, <1>6 DEF Range
<1>8. \A st \in DOMAIN streams : Range(streams[st].last) \subseteq 1..2 * (Len(log) + 1)
  <2>1. 1..2 * Len(log) \subseteq 1..2 * (Len(log) + 1)
    BY <1>2
  <2> QED BY <2>1 DEF ServerTypes
<1>9. /\ DOMAIN streams' = DOMAIN streams \cup {m.stream} /\ streams'[m.stream].last = fresh
      /\ \A st \in DOMAIN streams : st # m.stream => streams'[st] = streams[st]
  <2>1. PICK e : e = [layout |-> streams[m.stream].layout, last |-> fresh]
    OBVIOUS
  <2>2. streams' = Put(streams, m.stream, e) /\ e.last = fresh
    BY <1>1, <2>1
  <2>3. DOMAIN streams' = DOMAIN streams \cup {m.stream} /\ streams'[m.stream] = e
    BY <2>2 DEF Put
  <2>4. \A st \in DOMAIN streams : st # m.stream => streams'[st] = streams[st]
    BY <2>2 DEF Put
  <2> QED BY <2>2, <2>3, <2>4
<1> QED BY <1>7, <1>8, <1>9

\* Storing is all or nothing.
LEMMA StoreEither ==
  ASSUME ServerTypes, NEW m \in Packets, m.last, Exists(m.stream), NEW members, Len(members) \in {1, 2},
         Store(m, members),
         [n \in 1..Len(members) |-> members[n].call] = Entry(m.call).calls,
         [n \in 1..Len(members) |-> members[n].subject] = Entry(m.call).subjects,
         m.stream = StreamOf(m.call), Len(Entry(m.call).calls) = Len(members)
  PROVE  Refuses(m) \/ Stores(m)
<1>1. CASE \A n \in 1..Len(members) : LastOf(m.stream, members[n].subject) = members[n].exp
  <2>1. \A st \in DOMAIN streams' : Range(streams'[st].last) \subseteq 1..2 * (Len(log) + 1)
    BY <1>1, Sequenced
  <2>2. /\ log' = Append(log, [stream |-> m.stream,
                               calls |-> [n \in 1..Len(members) |-> members[n].call],
                               subjects |-> [n \in 1..Len(members) |-> members[n].subject]])
        /\ Answer(m, "ok", Len(members))
    BY <1>1 DEF Store
  <2>3. Entry(m.call) = [stream |-> m.stream,
                         calls |-> [n \in 1..Len(members) |-> members[n].call],
                         subjects |-> [n \in 1..Len(members) |-> members[n].subject]]
    BY DEF Entry
  <2>4. log' = Append(log, Entry(m.call))
    BY <2>2, <2>3
  <2>5. Hears(m, "ok", Len(Entry(m.call).calls))
    BY <2>2 DEF Answer, Hears
  <2> QED BY <2>1, <2>4, <2>5 DEF Stores
<1>2. CASE ~\A n \in 1..Len(members) : LastOf(m.stream, members[n].subject) = members[n].exp
  BY <1>2 DEF Store, Answer, Refuses, Hears
<1> QED BY <1>1, <1>2

\* The kinds of call there are.
LEMMA Kinds ==
  ASSUME job \in Jobs, NEW c \in Calls
  PROVE  SeamOf(c) \in Seams /\ job[c].kind \in {"create", "revise", "append"}
BY DEF SeamOf

\* Taking a revision's message stores it or nothing.
LEMMA SingleTaken ==
  ASSUME SeamTyped, NEW m \in Packets, Sent(m), Exists(m.stream), m.batch = None, Take(m)
  PROVE  Stages(m) /\ (Refuses(m) \/ Stores(m))
<1>1. Store(m, <<m>>) /\ UNCHANGED staged
  BY DEF Take
<1>2. /\ job[m.call].kind = "revise" /\ m.last /\ m.subject = Record(m.call)
      /\ m.stream = StreamOf(m.call)
  BY DEF Sent
<1>3. PICK members : members = <<m>>
  OBVIOUS
<1>4. /\ Len(members) = 1 /\ [n \in 1..1 |-> members[n].call] = <<m.call>>
      /\ [n \in 1..1 |-> members[n].subject] = <<m.subject>>
  BY <1>3
<1>5. Entry(m.call).calls = <<m.call>> /\ Entry(m.call).subjects = <<m.subject>>
      /\ Len(Entry(m.call).calls) = 1
  BY <1>2 DEF Entry
<1>6. Refuses(m) \/ Stores(m)
  BY <1>1, <1>2, <1>3, <1>4, <1>5, StoreEither DEF SeamTyped, TypeOK
<1> QED BY <1>1, <1>6 DEF Stages

\* Taking one of a batch stores the whole batch, or nothing.
LEMMA BatchTaken ==
  ASSUME SeamTyped, IdsUnique, WireInv,
         NEW m \in Packets, Sent(m), Exists(m.stream), m.batch # None, Take(m)
  PROVE  Stages(m) /\ (Refuses(m) \/ Stores(m))
<1> DEFINE k == <<m.stream, m.batch>>
           have == IF k \in DOMAIN staged THEN staged[k] ELSE <<>>
           fits == /\ m.n = Len(have) + 1
                   /\ have = <<>> => Cardinality(Inflight(m.stream)) < MaxInflight
<1>1. /\ job[m.call].kind = "create" /\ m.stream = StreamOf(m.call)
      /\ \/ m.n = 1 /\ ~m.last /\ m.subject = Counter
         \/ m.n = 2 /\ m.last /\ m.subject = Record(m.call)
      /\ m.call \in Calls /\ m.batch = id[m.call]
  BY DEF Sent, Packets
<1>2. TakeBatch(m)
  BY DEF Take
<1>3. ASSUME k \in DOMAIN staged
      PROVE  /\ have \in Seq(Packets) /\ Len(have) = 1 /\ have[1].call = m.call
             /\ have[1].subject = Counter
  <2>1. /\ staged[k] \in Seq(Packets) /\ Len(staged[k]) = 1
    BY <1>3 DEF SeamTyped, TypeOK, ServerTypes
  <2>2. PICK h : h = staged[k][1]
    OBVIOUS
  <2>3. h \in Packets /\ Sent(h) /\ ~h.last /\ k = <<h.stream, h.batch>>
    BY <1>3, <2>1, <2>2 DEF WireInv
  <2>4. h.batch = m.batch /\ h.call \in Calls
    BY <2>3 DEF Packets
  <2>5. h.batch = id[h.call] /\ h.subject = Counter
    BY <2>3, <2>4 DEF Sent
  <2>6. h.call = m.call
    BY <1>1, <2>4, <2>5 DEF IdsUnique
  <2> QED BY <1>3, <2>1, <2>2, <2>5, <2>6
<1>4. CASE ~fits
  <2>1. staged' = Drop(staged, k) /\ Answer(m, "refused", 0) /\ UNCHANGED <<streams, log>>
    BY <1>2, <1>4 DEF TakeBatch
  <2>2. Stages(m)
    BY <2>1 DEF Stages, Drop
  <2> QED BY <2>1, <2>2 DEF Refuses, Answer, Hears
<1>5. CASE fits /\ m.last
  <2>1. staged' = Drop(staged, k) /\ Store(m, Append(have, m))
    BY <1>2, <1>5 DEF TakeBatch
  <2>2. k \in DOMAIN staged
    BY <1>1, <1>5
  <2>3. PICK members : members = Append(have, m)
    OBVIOUS
  <2>4. /\ Len(members) = 2 /\ members[1] = have[1] /\ members[2] = m
    BY <1>3, <2>2, <2>3
  <2>5. /\ [n \in 1..2 |-> members[n].call] = <<m.call, m.call>>
        /\ [n \in 1..2 |-> members[n].subject] = <<Counter, m.subject>>
    BY <1>3, <2>2, <2>4
  <2>6. Entry(m.call).calls = <<m.call, m.call>> /\ Entry(m.call).subjects = <<Counter, m.subject>>
        /\ Len(Entry(m.call).calls) = 2
    BY <1>1, <1>5 DEF Entry
  <2>7. Refuses(m) \/ Stores(m)
    <3>1. Store(m, members) /\ ServerTypes /\ m.last
      BY <1>5, <2>1, <2>3 DEF SeamTyped, TypeOK
    <3>2. /\ [n \in 1..Len(members) |-> members[n].call] = Entry(m.call).calls
          /\ [n \in 1..Len(members) |-> members[n].subject] = Entry(m.call).subjects
          /\ Len(members) \in {1, 2} /\ Len(Entry(m.call).calls) = Len(members)
      BY <2>4, <2>5, <2>6
    <3> QED BY <1>1, <3>1, <3>2, StoreEither
  <2>8. Stages(m)
    BY <2>1 DEF Stages, Drop
  <2> QED BY <2>7, <2>8
<1>6. CASE fits /\ ~m.last
  <2>1. staged' = Put(staged, k, Append(have, m)) /\ UNCHANGED <<streams, log, reply>>
    BY <1>2, <1>6 DEF TakeBatch
  <2>2. have = <<>>
    BY <1>1, <1>3, <1>6
  <2>3. staged' = Put(staged, k, <<m>>)
    <3>1. Append(<<>>, m) = <<m>>
      OBVIOUS
    <3>2. Append(have, m) = <<m>>
      BY <2>2, <3>1
    <3> QED BY <2>1, <3>2
  <2>4. Stages(m)
    BY <1>6, <2>3 DEF Stages, Put
  <2> QED BY <1>6, <2>1, <2>4 DEF Refuses
<1> QED BY <1>4, <1>5, <1>6

\* Delivering a message takes it off the connection, and stores its call's write or
\* nothing.
LEMMA Delivered ==
  ASSUME SeamTyped, IdsUnique, WireInv, NEW s \in Seams, Deliver(s)
  PROVE  \E m \in Packets :
           /\ wire[s] # <<>> /\ m = wire[s][1] /\ Sent(m) /\ SeamOf(m.call) = s
           /\ wire' = [wire EXCEPT ![s] = Tail(@)]
           /\ Stages(m) /\ (Refuses(m) \/ Stores(m))
<1>1. wire[s] # <<>> /\ wire[s] \in Seq(Packets) /\ wire' = [wire EXCEPT ![s] = Tail(@)]
  BY DEF Deliver, SeamTyped, TypeOK, SeamTypes
<1>2. PICK m \in Packets : m = wire[s][1] /\ m = Head(wire[s]) /\ 1 \in 1..Len(wire[s])
  BY <1>1, Tails
<1>3. Sent(m) /\ SeamOf(m.call) = s
  BY <1>2 DEF WireInv
<1>4. CASE Exists(m.stream) /\ Take(m)
  BY <1>1, <1>2, <1>3, <1>4, SingleTaken, BatchTaken
<1>5. CASE (Answer(m, "refused", 0) \/ Answer(m, "noResponders", 0)) /\ UNCHANGED serverVars
  BY <1>1, <1>2, <1>3, <1>5 DEF Answer, serverVars, Stages, Refuses, Hears
<1> QED BY <1>2, <1>4, <1>5 DEF Deliver

-----------------------------------------------------------------------------
(* Types and the steps of calls *)

\* What a call is for never changes, so neither do names and the kinds of messages.
LEMMA SameNames ==
  ASSUME UNCHANGED job
  PROVE  /\ Streams' = Streams /\ Subjects' = Subjects /\ Packets' = Packets
         /\ \A c : /\ StreamOf(c)' = StreamOf(c) /\ SeamOf(c)' = SeamOf(c)
                  /\ Record(c)' = Record(c) /\ LayoutOf(c)' = LayoutOf(c)
<1>1. \A c : /\ StreamOf(c)' = StreamOf(c) /\ SeamOf(c)' = SeamOf(c)
            /\ Record(c)' = Record(c) /\ LayoutOf(c)' = LayoutOf(c)
  BY DEF StreamOf, SeamOf, Record, LayoutOf
<1>2. Streams' = Streams
  BY <1>1 DEF Streams
<1>3. Subjects' = Subjects
  BY <1>1 DEF Subjects
<1>4. Packets' = Packets
  BY <1>2, <1>3 DEF Packets
<1> QED BY <1>1, <1>2, <1>3, <1>4

Places == {"idle", "lookup", "make", "relookup", "info", "read", "member", "commit", "single",
           "await", "done"}

\* Finding, creating and verifying the stream, and reading from it.
Provisions(c) ==
  \/ Begin(c) \/ Lookup(c) \/ Make(c) \/ Relookup(c) \/ Info(c) \/ Read(c) \/ Fails(c)
  \/ EnsureLedger(c)

\* The result of a call that ends before it has sent anything.
Early == {"notFound", "overlap", "error", "config", "exists", "ok"}

\* How a provisioning step moves its call: on to the next request, to reading a
\* stream that is verified, from there to the write with its fences, or to an end.
Walks(c) ==
  /\ UNCHANGED <<res, exp>> /\ job[c].kind # "append"
  /\ \E p \in {"lookup", "make", "relookup", "info"} : pc' = [pc EXCEPT ![c] = p]

Arrives(c) ==
  /\ UNCHANGED <<res, exp>> /\ job[c].kind # "append" /\ pc' = [pc EXCEPT ![c] = "read"]
  /\ StreamOf(c) \in cache[SeamOf(c)] \/ <<SeamOf(c), StreamOf(c)>> \in seen'

Fences(c) ==
  /\ UNCHANGED <<res, seen, cache, streams>> /\ pc[c] = "read" /\ Exists(StreamOf(c))
  /\ exp' = [exp EXCEPT ![c] = [counter |-> LastOf(StreamOf(c), Counter),
                                record |-> LastOf(StreamOf(c), Record(c))]]
  /\ \/ job[c].kind = "create" /\ pc' = [pc EXCEPT ![c] = "member"]
     \/ job[c].kind # "create" /\ pc' = [pc EXCEPT ![c] = "single"]

EndsEarly(c) ==
  /\ UNCHANGED exp /\ pc' = [pc EXCEPT ![c] = "done"]
  /\ \E what \in Early : /\ res' = [res EXCEPT ![c] = what]
                         /\ what = "ok" => job[c].kind = "append"

\* A provisioning step is one of these.
LEMMA ProvisionMoves ==
  ASSUME SeamTyped, NEW c \in Calls, Provisions(c)
  PROVE  /\ UNCHANGED <<job, staged, log, meddled, counter, wire, id, reply>>
         /\ pc[c] \in {"idle", "lookup", "make", "relookup", "info", "read"}
         /\ Walks(c) \/ Arrives(c) \/ Fences(c) \/ EndsEarly(c)
<1> USE DEF Walks, Arrives, Fences, EndsEarly
<1>0. pc[c] \notin {"idle", "done"} => job[c].kind # "append"
  BY DEF SeamTyped, CallSteps
<1>1. CASE Begin(c)
  BY <1>1 DEF Begin, Goto, serverVars
<1>2. CASE Lookup(c)
  BY <1>0, <1>2 DEF Lookup, Goto, Return, serverVars, Early
<1>3. CASE Make(c)
  BY <1>0, <1>3 DEF Make, Goto, Return, Early
<1>4. CASE Relookup(c)
  BY <1>0, <1>4 DEF Relookup, Goto, Return, serverVars, Early
<1>5. CASE Info(c)
  BY <1>0, <1>5 DEF Info, Goto, Return, serverVars, Early, Admitted
<1>6. CASE Read(c)
  BY <1>0, <1>6 DEF Read, Goto, Return, serverVars, Early
<1>7. CASE Fails(c)
  BY <1>7 DEF Fails, Goto, Return, serverVars, Early
<1>8. CASE EnsureLedger(c)
  BY <1>8 DEF EnsureLedger, Goto, Return, Early
<1> QED BY <1>1, <1>2, <1>3, <1>4, <1>5, <1>6, <1>7, <1>8 DEF Provisions

\* What it does to the streams and to what is known of them.
LEMMA ProvisionStreams ==
  ASSUME SeamTyped, NEW c \in Calls, Provisions(c)
  PROVE  /\ UNCHANGED streams \/ \E l : streams' = Put(streams, StreamOf(c), NewStream(l))
         /\ \/ UNCHANGED <<cache, seen>>
            \/ /\ cache' = [cache EXCEPT ![SeamOf(c)] = @ \cup {StreamOf(c)}]
               /\ seen' = seen \cup {<<SeamOf(c), StreamOf(c)>>}
<1>1. CASE Make(c) \/ EnsureLedger(c)
  BY <1>1 DEF Make, EnsureLedger
<1>2. CASE Info(c)
  BY <1>2 DEF Info, Admitted, serverVars
<1>3. CASE Begin(c) \/ Lookup(c) \/ Relookup(c) \/ Read(c) \/ Fails(c)
  BY <1>3 DEF Begin, Lookup, Relookup, Read, Fails, serverVars
<1> QED BY <1>1, <1>2, <1>3 DEF Provisions

\* A call's message goes out on its seam's connection.
Sends(c, m) ==
  /\ m \in Packets /\ m.call = c /\ Sent(m)'
  /\ wire' = [wire EXCEPT ![SeamOf(c)] = Append(@, m)]

Sending(c) == SendMember(c) \/ SendCommit(c) \/ SendSingle(c)

\* A sending step sends one message, or none and ends.
LEMMA SendMoves ==
  ASSUME SeamTyped, Verified, NEW c \in Calls, Sending(c)
  PROVE  /\ UNCHANGED <<job, serverVars, meddled, cache, seen, exp, reply>>
         /\ \/ /\ pc[c] = "member" /\ job[c].kind = "create"
               /\ counter' = [counter EXCEPT ![SeamOf(c)] = @ + 1]
               /\ id' = [id EXCEPT ![c] = <<SeamOf(c), counter[SeamOf(c)] + 1>>]
               /\ \/ /\ pc' = [pc EXCEPT ![c] = "commit"] /\ UNCHANGED res
                     /\ \E m : Sends(c, m) /\ ~m.last
                  \/ /\ pc' = [pc EXCEPT ![c] = "done"] /\ UNCHANGED wire
                     /\ res' = [res EXCEPT ![c] = "unsent"]
            \/ /\ pc[c] \in {"commit", "single"} /\ pc' = [pc EXCEPT ![c] = "await"]
               /\ UNCHANGED <<counter, id, res>> /\ \E m : Sends(c, m) /\ m.last
<1>0. /\ CallTypes /\ SeamTypes /\ SeamOf(c) \in Seams /\ StreamOf(c) \in Streams
      /\ Record(c) \in Subjects /\ Counter \in Subjects
  BY Kinds DEF SeamTyped, TypeOK, Streams, Subjects
<1>1. ASSUME pc[c] \in {"member", "commit", "single"}
      PROVE  /\ exp[c].counter \in Nat /\ exp[c].record \in Nat
             /\ <<SeamOf(c), StreamOf(c)>> \in seen
             /\ pc[c] \in {"member", "commit"} => job[c].kind = "create"
             /\ pc[c] = "single" => job[c].kind = "revise"
             /\ pc[c] = "commit" => id[c] \in Batches
  <2>1. exp[c] \in [counter : Nat, record : Nat]
    BY <1>0, <1>1 DEF CallTypes, SeamTyped, CallSteps
  <2>2. <<SeamOf(c), StreamOf(c)>> \in seen
    BY <1>1 DEF Verified
  <2> QED BY <1>0, <1>1, <2>1, <2>2 DEF CallTypes, SeamTyped, CallSteps
<1>2. CASE SendMember(c)
  <2>1. /\ pc[c] = "member" /\ UNCHANGED <<job, serverVars, meddled, cache, seen, exp, reply>>
        /\ counter' = [counter EXCEPT ![SeamOf(c)] = @ + 1]
        /\ id' = [id EXCEPT ![c] = <<SeamOf(c), counter[SeamOf(c)] + 1>>]
    BY <1>2 DEF SendMember, NextBatchID
  <2>2. PICK b \in Batches : b = <<SeamOf(c), counter[SeamOf(c)] + 1>> /\ b # None
    <3>1. counter[SeamOf(c)] + 1 \in Nat
      BY <1>0 DEF SeamTypes
    <3>2. <<SeamOf(c), counter[SeamOf(c)] + 1>> \in Seams \X Nat
      BY <1>0, <3>1
    <3> QED BY <3>2 DEF Batches
  <2>3. PICK m : m = Message(c, Counter, exp[c].counter, b, 1, FALSE)
    OBVIOUS
  <2>4. /\ m \in Packets /\ m.call = c /\ m.stream = StreamOf(c) /\ m.subject = Counter /\ m.batch = b
        /\ m.n = 1 /\ ~m.last
    BY <1>0, <1>1, <2>1, <2>3 DEF Message, Packets
  <2>5. ASSUME pc' = [pc EXCEPT ![c] = "commit"] PROVE Sent(m)'
    <3>1. pc'[c] = "commit" /\ id'[c] = b
      BY <1>0, <2>1, <2>2, <2>5 DEF CallTypes
    <3> QED BY <1>1, <2>1, <2>2, <2>4, <3>1, SameNames DEF Sent
  <2>6. \/ /\ wire' = [wire EXCEPT ![SeamOf(c)] = Append(@, m)]
           /\ pc' = [pc EXCEPT ![c] = "commit"] /\ UNCHANGED res
        \/ /\ pc' = [pc EXCEPT ![c] = "done"] /\ UNCHANGED wire
           /\ res' = [res EXCEPT ![c] = "unsent"]
    BY <1>2, <2>2, <2>3 DEF SendMember, Send, Goto, Return, NextBatchID
  <2> QED BY <1>1, <2>1, <2>4, <2>5, <2>6 DEF Sends
<1>3. CASE SendCommit(c)
  <2>1. /\ pc[c] = "commit" /\ pc' = [pc EXCEPT ![c] = "await"]
        /\ UNCHANGED <<job, serverVars, meddled, cache, seen, counter, exp, id, reply, res>>
    BY <1>3 DEF SendCommit, Goto
  <2>2. PICK m : m = Message(c, Record(c), exp[c].record, id[c], 2, TRUE)
    OBVIOUS
  <2>3. /\ m \in Packets /\ m.call = c /\ m.stream = StreamOf(c) /\ m.subject = Record(c)
        /\ m.batch = id[c] /\ m.n = 2 /\ m.last
    BY <1>0, <1>1, <2>1, <2>2 DEF Message, Packets
  <2>4. pc'[c] = "await" /\ id'[c] = id[c] /\ id[c] # None
    BY <1>0, <1>1, <2>1 DEF CallTypes, Batches
  <2>5. Sent(m)'
    BY <1>1, <2>1, <2>3, <2>4, SameNames DEF Sent
  <2>6. wire' = [wire EXCEPT ![SeamOf(c)] = Append(@, m)]
    BY <1>3, <2>2 DEF SendCommit, Send
  <2> QED BY <2>1, <2>3, <2>5, <2>6 DEF Sends
<1>4. CASE SendSingle(c)
  <2>1. /\ pc[c] = "single" /\ pc' = [pc EXCEPT ![c] = "await"]
        /\ UNCHANGED <<job, serverVars, meddled, cache, seen, counter, exp, id, reply, res>>
    BY <1>4 DEF SendSingle, Goto
  <2>2. PICK m : m = Message(c, Record(c), exp[c].record, None, 1, TRUE)
    OBVIOUS
  <2>3. /\ m \in Packets /\ m.call = c /\ m.stream = StreamOf(c) /\ m.subject = Record(c)
        /\ m.batch = None /\ m.n = 1 /\ m.last
    BY <1>0, <1>1, <2>1, <2>2 DEF Message, Packets
  <2>4. pc'[c] = "await"
    BY <1>0, <2>1 DEF CallTypes
  <2>5. Sent(m)'
    BY <1>1, <2>1, <2>3, <2>4, SameNames DEF Sent
  <2>6. wire' = [wire EXCEPT ![SeamOf(c)] = Append(@, m)]
    BY <1>4, <2>2 DEF SendSingle, Send
  <2> QED BY <2>1, <2>3, <2>5, <2>6 DEF Sends
<1> QED BY <1>2, <1>3, <1>4 DEF Sending

\* Types hold from the start.
LEMMA InitTyped == Init => SeamTyped
<1> SUFFICES ASSUME Init PROVE SeamTyped
  OBVIOUS
<1>1. job \in Jobs /\ ServerTypes
  BY DEF Init, ServerTypes
<1>2. SeamTypes
  BY DEF Init, SeamTypes
<1>3. CallTypes
  BY DEF Init, CallTypes
<1>4. CallSteps
  BY DEF Init, CallSteps
<1> QED BY <1>1, <1>2, <1>3, <1>4 DEF SeamTyped, TypeOK

\* It moves no other call.
LEMMA ProvisionLocal ==
  ASSUME SeamTyped, NEW c \in Calls, Provisions(c), NEW d \in Calls, d # c
  PROVE  pc'[d] = pc[d] /\ exp'[d] = exp[d] /\ res'[d] = res[d]
<1>0. CallTypes
  BY DEF SeamTyped, TypeOK
<1>1. CASE Walks(c)
  BY <1>0, <1>1 DEF Walks, CallTypes
<1>2. CASE Arrives(c)
  BY <1>0, <1>2 DEF Arrives, CallTypes
<1>3. CASE Fences(c)
  BY <1>0, <1>3 DEF Fences, CallTypes
<1>4. CASE EndsEarly(c)
  BY <1>0, <1>4 DEF EndsEarly, CallTypes
<1> QED BY <1>1, <1>2, <1>3, <1>4, ProvisionMoves

\* What a write is fenced on is a sequence.
LEMMA Fenced ==
  ASSUME ServerTypes, NEW st, Exists(st), NEW x
  PROVE  LastOf(st, x) \in Nat
<1>1. Range(streams[st].last) \subseteq 1..2 * Len(log) /\ Len(log) \in Nat
  BY DEF ServerTypes, Exists
<1>2. Range(streams[st].last) \subseteq Nat
  BY <1>1
<1> QED BY <1>2 DEF LastOf, Range

\* A provisioning step keeps the types.
LEMMA ProvisionTyped ==
  ASSUME SeamTyped, NEW c \in Calls, Provisions(c)
  PROVE  SeamTyped'
<1>0. ServerTypes /\ SeamTypes /\ CallTypes /\ CallSteps /\ job \in Jobs /\ SeamOf(c) \in Seams
      /\ job[c].kind \in {"create", "revise", "append"}
  BY Kinds DEF SeamTyped, TypeOK
<1>1. /\ UNCHANGED <<job, staged, log, meddled, counter, wire, id, reply>>
      /\ Streams' = Streams /\ Subjects' = Subjects /\ Packets' = Packets
  BY ProvisionMoves, SameNames
<1>2. ServerTypes'
  <2>1. \A st \in DOMAIN streams' : Range(streams'[st].last) \subseteq 1..2 * Len(log)
    <3>1. CASE UNCHANGED streams
      BY <1>0, <3>1 DEF ServerTypes
    <3>2. ASSUME NEW l, streams' = Put(streams, StreamOf(c), NewStream(l))
          PROVE  \A st \in DOMAIN streams' : Range(streams'[st].last) \subseteq 1..2 * Len(log)
      <4>1. Range(NewStream(l).last) = {}
        BY DEF NewStream, Range
      <4> QED BY <1>0, <3>2, <4>1 DEF ServerTypes, Put
    <3> QED BY <3>1, <3>2, ProvisionStreams
  <2> QED BY <1>0, <1>1, <2>1 DEF ServerTypes
<1>3. SeamTypes'
  <2>1. StreamOf(c) \in Streams
    BY DEF Streams
  <2>2. CASE UNCHANGED <<cache, seen>>
    BY <1>0, <1>1, <2>2 DEF SeamTypes
  <2>3. CASE /\ cache' = [cache EXCEPT ![SeamOf(c)] = @ \cup {StreamOf(c)}]
             /\ seen' = seen \cup {<<SeamOf(c), StreamOf(c)>>}
    <3>1. cache' \in [Seams -> SUBSET Streams]
      BY <1>0, <2>1, <2>3 DEF SeamTypes
    <3>2. seen' \subseteq Seams \X Streams
      BY <1>0, <2>1, <2>3 DEF SeamTypes
    <3> QED BY <1>0, <1>1, <3>1, <3>2 DEF SeamTypes
  <2> QED BY <2>2, <2>3, ProvisionStreams
<1>4. exp' \in [Calls -> [counter : Nat, record : Nat] \cup {None}]
  <2>1. CASE UNCHANGED exp
    BY <1>0, <2>1 DEF CallTypes
  <2>2. CASE /\ Exists(StreamOf(c))
             /\ exp' = [exp EXCEPT ![c] = [counter |-> LastOf(StreamOf(c), Counter),
                                           record |-> LastOf(StreamOf(c), Record(c))]]
    BY <1>0, <2>2, Fenced DEF CallTypes
  <2> QED BY <2>1, <2>2, ProvisionMoves DEF Walks, Arrives, Fences, EndsEarly
<1>5. pc' \in [Calls -> Places] /\ res' \in [Calls -> Results \cup {None}]
  <2>1. pc \in [Calls -> Places] /\ res \in [Calls -> Results \cup {None}] /\ Early \subseteq Results
    BY <1>0 DEF CallTypes, Places, Early, Results
  <2>2. \A p \in {"lookup", "make", "relookup", "info", "read", "member", "single", "done"} : p \in Places
    BY DEF Places
  <2>3. CASE Walks(c) \/ Arrives(c) \/ Fences(c)
    BY <2>1, <2>2, <2>3 DEF Walks, Arrives, Fences
  <2>4. CASE EndsEarly(c)
    BY <2>1, <2>2, <2>4 DEF EndsEarly
  <2> QED BY <2>3, <2>4, ProvisionMoves
<1>6. CallTypes'
  BY <1>0, <1>1, <1>4, <1>5 DEF CallTypes, Places
<1>7. CallSteps'
  <2>1. ASSUME NEW d \in Calls, d # c PROVE pc'[d] = pc[d] /\ exp'[d] = exp[d] /\ id'[d] = id[d]
    BY <1>1, <2>1, ProvisionLocal
  <2>2. /\ pc'[c] \notin {"idle", "done"} => job[c].kind # "append"
        /\ pc'[c] \in {"member", "commit"} => job[c].kind = "create"
        /\ pc'[c] = "single" => job[c].kind = "revise"
        /\ pc'[c] # "commit"
    <3>1. CASE Walks(c) \/ Arrives(c) \/ EndsEarly(c)
      BY <1>0, <3>1 DEF CallTypes, Walks, Arrives, EndsEarly
    <3>2. CASE Fences(c)
      BY <1>0, <3>2 DEF CallTypes, CallSteps, Fences
    <3> QED BY <3>1, <3>2, ProvisionMoves
  <2>3. ASSUME pc'[c] \in {"member", "single"} PROVE exp'[c] # None
    <3>1. Fences(c)
      BY <1>0, <2>3, ProvisionMoves DEF CallTypes, Walks, Arrives, EndsEarly
    <3>2. exp'[c] = [counter |-> LastOf(StreamOf(c), Counter), record |-> LastOf(StreamOf(c), Record(c))]
      BY <1>0, <3>1 DEF CallTypes, Fences
    <3>3. LastOf(StreamOf(c), Counter) \in Nat /\ LastOf(StreamOf(c), Record(c)) \in Nat
      BY <1>0, <3>1, Fenced DEF Fences
    <3> QED BY <3>2, <3>3
  <2> QED BY <1>0, <1>1, <2>1, <2>2, <2>3 DEF CallSteps
<1> QED BY <1>0, <1>1, <1>2, <1>3, <1>6, <1>7 DEF SeamTyped, TypeOK

\* So does sending.
LEMMA SendTyped ==
  ASSUME SeamTyped, Verified, NEW c \in Calls, Sending(c)
  PROVE  SeamTyped'
<1>0. ServerTypes /\ SeamTypes /\ CallTypes /\ CallSteps /\ job \in Jobs /\ SeamOf(c) \in Seams
  BY Kinds DEF SeamTyped, TypeOK
<1>1. /\ UNCHANGED <<job, serverVars, meddled, cache, seen, exp, reply>>
      /\ Streams' = Streams /\ Subjects' = Subjects /\ Packets' = Packets
  BY SendMoves, SameNames
<1>2. ServerTypes'
  BY <1>0, <1>1 DEF ServerTypes, serverVars
<1>3. wire' \in [Seams -> Seq(Packets)]
  <2>1. ASSUME NEW m, Sends(c, m) PROVE wire' \in [Seams -> Seq(Packets)]
    <3>1. Append(wire[SeamOf(c)], m) \in Seq(Packets)
      BY <1>0, <2>1 DEF SeamTypes, Sends
    <3> QED BY <1>0, <2>1, <3>1 DEF SeamTypes, Sends
  <2>2. CASE UNCHANGED wire
    BY <1>0, <2>2 DEF SeamTypes
  <2> QED BY <2>1, <2>2, SendMoves
<1>4. counter' \in [Seams -> Nat]
  <2>1. UNCHANGED counter \/ counter' = [counter EXCEPT ![SeamOf(c)] = @ + 1]
    BY SendMoves
  <2> QED BY <1>0, <2>1 DEF SeamTypes
<1>5. SeamTypes'
  BY <1>0, <1>1, <1>3, <1>4 DEF SeamTypes
<1>6. id' \in [Calls -> Batches \cup {None}]
      /\ (pc[c] = "member" => id'[c] # None) /\ (pc[c] # "member" => UNCHANGED id)
      /\ \A d \in Calls : d # c => id'[d] = id[d]
  <2>1. CASE UNCHANGED id /\ pc[c] # "member"
    BY <1>0, <2>1 DEF CallTypes
  <2>2. CASE id' = [id EXCEPT ![c] = <<SeamOf(c), counter[SeamOf(c)] + 1>>] /\ pc[c] = "member"
    <3>1. counter[SeamOf(c)] + 1 \in Nat
      BY <1>0 DEF SeamTypes
    <3>2. <<SeamOf(c), counter[SeamOf(c)] + 1>> \in Batches
      BY <1>0, <3>1 DEF Batches
    <3>3. id'[c] = <<SeamOf(c), counter[SeamOf(c)] + 1>>
      BY <1>0, <2>2 DEF CallTypes
    <3>4. id'[c] # None
      BY <3>2, <3>3 DEF Batches
    <3> QED BY <1>0, <2>2, <3>2, <3>4 DEF CallTypes
  <2> QED BY <2>1, <2>2, SendMoves
<1>7. /\ pc' \in [Calls -> Places] /\ res' \in [Calls -> Results \cup {None}]
      /\ \A d \in Calls : d # c => pc'[d] = pc[d]
      /\ pc'[c] \in {"commit", "await", "done"}
      /\ pc'[c] = "commit" => pc[c] = "member" /\ job[c].kind = "create"
  <2>1. pc \in [Calls -> Places] /\ res \in [Calls -> Results \cup {None}] /\ "unsent" \in Results
        /\ {"commit", "await", "done"} \subseteq Places
    BY <1>0 DEF CallTypes, Places, Results
  <2>2. UNCHANGED res \/ res' = [res EXCEPT ![c] = "unsent"]
    BY SendMoves
  <2>3. \E p \in {"commit", "await", "done"} : pc' = [pc EXCEPT ![c] = p] /\
          (p = "commit" => pc[c] = "member" /\ job[c].kind = "create")
    BY SendMoves
  <2>4. res' \in [Calls -> Results \cup {None}]
    BY <2>1, <2>2
  <2> QED BY <2>1, <2>3, <2>4
<1>8. CallTypes'
  BY <1>0, <1>1, <1>6, <1>7 DEF CallTypes, Places
<1>9. CallSteps'
  <2>1. ASSUME NEW d \in Calls, d # c
        PROVE  pc'[d] = pc[d] /\ id'[d] = id[d]
    BY <1>6, <1>7, <2>1
  <2>2. job[c].kind # "append" /\ exp[c] # None
    BY <1>0, SendMoves DEF CallSteps
  <2> QED BY <1>0, <1>1, <1>6, <1>7, <2>1, <2>2 DEF CallSteps
<1> QED BY <1>0, <1>1, <1>2, <1>5, <1>8, <1>9 DEF SeamTyped, TypeOK

\* The call hears, or gives up.
Hearing(c) == Acknowledged(c) \/ GiveUp(c)

\* A call ends with what it heard, or without having heard.
LEMMA HearMoves ==
  ASSUME SeamTyped, NEW c \in Calls, Hearing(c)
  PROVE  /\ UNCHANGED <<job, serverVars, meddled, cache, seen, counter, wire, exp, id, reply>>
         /\ pc[c] = "await" /\ pc' = [pc EXCEPT ![c] = "done"]
         /\ \E what \in {"ok", "precondition", "rejected", "ambiguous", "error"} :
              /\ res' = [res EXCEPT ![c] = what]
              /\ what = "ok" => reply[c] # None /\ reply[c].is = "ok"
              /\ what \in {"precondition", "rejected"} =>
                   reply[c] # None /\ reply[c].is \in {"wrongLast", "refused"}
<1>1. CASE Acknowledged(c)
  <2>1. reply[c].is \in {"ok", "wrongLast", "refused", "noResponders"}
    BY <1>1 DEF Acknowledged, SeamTyped, TypeOK, CallTypes
  <2>2. PICK sent : res' = [res EXCEPT ![c] = Classify(reply[c], sent)]
    BY <1>1 DEF Acknowledged, Return
  <2>3. \/ Classify(reply[c], sent) = "precondition" /\ reply[c].is = "wrongLast"
        \/ Classify(reply[c], sent) = "rejected" /\ reply[c].is = "refused"
        \/ Classify(reply[c], sent) = "ambiguous"
        \/ Classify(reply[c], sent) = "ok" /\ reply[c].is = "ok"
    BY <2>1 DEF Classify
  <2>4. /\ UNCHANGED <<job, serverVars, meddled, cache, seen, counter, wire, exp, id, reply>>
        /\ pc[c] = "await" /\ pc' = [pc EXCEPT ![c] = "done"] /\ reply[c] # None
    BY <1>1 DEF Acknowledged, Return, Goto
  <2> QED BY <2>2, <2>3, <2>4
<1>2. CASE GiveUp(c)
  BY <1>2 DEF GiveUp, Unheard, Return, Goto
<1> QED BY <1>1, <1>2 DEF Hearing

\* That keeps the types.
LEMMA HearTyped ==
  ASSUME SeamTyped, NEW c \in Calls, Hearing(c)
  PROVE  SeamTyped'
<1>0. ServerTypes /\ SeamTypes /\ CallTypes /\ CallSteps /\ job \in Jobs
  BY DEF SeamTyped, TypeOK
<1>1. /\ UNCHANGED <<job, serverVars, meddled, cache, seen, counter, wire, exp, id, reply>>
      /\ Streams' = Streams /\ Subjects' = Subjects /\ Packets' = Packets
      /\ pc' = [pc EXCEPT ![c] = "done"]
  BY HearMoves, SameNames
<1>2. ServerTypes' /\ SeamTypes'
  BY <1>0, <1>1 DEF ServerTypes, SeamTypes, serverVars
<1>3. pc' \in [Calls -> Places] /\ res' \in [Calls -> Results \cup {None}]
  BY <1>0, <1>1, HearMoves DEF CallTypes, Places, Results
<1>4. CallTypes'
  BY <1>0, <1>1, <1>3 DEF CallTypes, Places
<1>5. CallSteps'
  BY <1>0, <1>1 DEF CallSteps, CallTypes
<1> QED BY <1>0, <1>1, <1>2, <1>4, <1>5 DEF SeamTyped, TypeOK

\* The type of what is stored of a call.
LEMMA EntryTyped ==
  ASSUME job \in Jobs, NEW c \in Calls
  PROVE  /\ Entry(c) \in [stream : Streams, calls : Seq(Calls), subjects : Seq(Subjects)]
         /\ Len(Entry(c).calls) \in Nat /\ Entry(c).calls[1] = c /\ ToSet(Entry(c).calls) = {c}
<1>1. StreamOf(c) \in Streams /\ Counter \in Subjects /\ Record(c) \in Subjects
  BY DEF Streams, Subjects
<1>2. /\ <<c, c>> \in Seq(Calls) /\ <<c>> \in Seq(Calls)
      /\ <<Counter, Record(c)>> \in Seq(Subjects) /\ <<Record(c)>> \in Seq(Subjects)
  BY <1>1
<1>3. PICK q \in Seq(Calls) : q = Entry(c).calls /\ (q = <<c>> \/ q = <<c, c>>)
  BY <1>2 DEF Entry
<1>4. Len(q) \in Nat /\ q[1] = c /\ ToSet(q) = {c}
  BY <1>3 DEF ToSet
<1>5. Entry(c) \in [stream : Streams, calls : Seq(Calls), subjects : Seq(Subjects)]
  BY <1>1, <1>2 DEF Entry
<1> QED BY <1>3, <1>4, <1>5

\* What delivering leaves alone.
LEMMA DeliverKeeps ==
  ASSUME NEW s \in Seams, Deliver(s)
  PROVE  UNCHANGED <<job, meddled, cache, seen, counter, pc, exp, id, res>>
BY DEF Deliver

\* Delivering keeps the types.
LEMMA DeliverTyped ==
  ASSUME SeamTyped, IdsUnique, WireInv, NEW s \in Seams, Deliver(s)
  PROVE  SeamTyped'
<1>0. ServerTypes /\ SeamTypes /\ CallTypes /\ CallSteps /\ job \in Jobs
  BY DEF SeamTyped, TypeOK
<1>1. /\ UNCHANGED <<job, meddled, cache, seen, counter, pc, exp, id, res>>
      /\ Streams' = Streams /\ Subjects' = Subjects /\ Packets' = Packets
  BY DeliverKeeps, SameNames
<1>2. PICK m \in Packets :
        /\ wire[s] # <<>> /\ m = wire[s][1] /\ Sent(m) /\ SeamOf(m.call) = s
        /\ wire' = [wire EXCEPT ![s] = Tail(@)]
        /\ Stages(m) /\ (Refuses(m) \/ Stores(m))
  BY Delivered
<1>3. m.call \in Calls
  BY DEF Packets
<1>4. wire' \in [Seams -> Seq(Packets)]
  <2>1. Tail(wire[s]) \in Seq(Packets)
    BY <1>0, <1>2, Tails DEF SeamTypes
  <2> QED BY <1>0, <1>2, <2>1 DEF SeamTypes
<1>5. \A k \in DOMAIN staged' : staged'[k] \in Seq(Packets) /\ Len(staged'[k]) = 1
  <2>1. <<m>> \in Seq(Packets) /\ Len(<<m>>) = 1
    OBVIOUS
  <2> QED BY <1>0, <1>2, <2>1 DEF Stages, ServerTypes
<1>6. ServerTypes'
  <2>1. CASE Refuses(m)
    BY <1>0, <1>1, <1>5, <2>1 DEF Refuses, ServerTypes
  <2>2. CASE Stores(m)
    <3>1. Entry(m.call) \in [stream : Streams, calls : Seq(Calls), subjects : Seq(Subjects)]
      BY <1>0, <1>3, EntryTyped
    <3>2. log' \in Seq([stream : Streams, calls : Seq(Calls), subjects : Seq(Subjects)])
          /\ Len(log') = Len(log) + 1
      BY <1>0, <2>2, <3>1, Appended DEF Stores, ServerTypes
    <3> QED BY <1>0, <1>1, <1>5, <2>2, <3>2 DEF Stores, ServerTypes
  <2> QED BY <1>2, <2>1, <2>2
<1>7. reply' \in [Calls -> [is : {"ok", "wrongLast", "refused", "noResponders"}, count : Nat]
                          \cup {None}]
  <2>1. \/ UNCHANGED reply
        \/ \E what \in {"ok", "wrongLast", "refused", "noResponders"}, n \in Nat : Hears(m, what, n)
    <3>1. Len(Entry(m.call).calls) \in Nat
      BY <1>0, <1>3, EntryTyped
    <3> QED BY <1>2, <3>1 DEF Refuses, Stores
  <2>2. ASSUME NEW what \in {"ok", "wrongLast", "refused", "noResponders"}, NEW n \in Nat,
               Hears(m, what, n)
        PROVE  reply' \in [Calls -> [is : {"ok", "wrongLast", "refused", "noResponders"}, count : Nat]
                                   \cup {None}]
    <3>1. [is |-> what, count |-> n]
            \in [is : {"ok", "wrongLast", "refused", "noResponders"}, count : Nat]
      OBVIOUS
    <3> QED BY <1>0, <2>2, <3>1 DEF CallTypes, Hears
  <2>3. CASE UNCHANGED reply
    BY <1>0, <2>3 DEF CallTypes
  <2> QED BY <2>1, <2>2, <2>3
<1>8. CallTypes' /\ CallSteps' /\ SeamTypes'
  BY <1>0, <1>1, <1>4, <1>7 DEF CallTypes, CallSteps, SeamTypes
<1> QED BY <1>0, <1>1, <1>6, <1>8 DEF SeamTyped, TypeOK

\* What breaks a connection, ends a batch or is the operator's.
Disturbs ==
  \/ \E s \in Seams : Break(s)
  \/ \E k \in DOMAIN staged : Expire(k)
  \/ \E c \in Calls : Meddle(StreamOf(c))

\* What a disturbance leaves alone.
LEMMA DisturbMoves ==
  ASSUME SeamTyped, Disturbs
  PROVE  /\ UNCHANGED <<job, log, cache, seen, counter, callVars>>
         /\ \A k \in DOMAIN staged' : k \in DOMAIN staged /\ staged'[k] = staged[k]
         /\ UNCHANGED wire \/ \E s \in Seams : wire' = [wire EXCEPT ![s] = <<>>]
         /\ \A st \in DOMAIN streams' : Range(streams'[st].last) \subseteq 1..2 * Len(log)
         /\ meddled' \in Seq(Streams)
<1>0. /\ \A st \in DOMAIN streams : Range(streams[st].last) \subseteq 1..2 * Len(log)
      /\ meddled \in Seq(Streams)
  BY DEF SeamTyped, TypeOK, ServerTypes
<1>1. ASSUME NEW s \in Seams, Break(s)
      PROVE  /\ UNCHANGED <<job, serverVars, meddled, cache, seen, counter, callVars>>
             /\ wire' = [wire EXCEPT ![s] = <<>>]
  BY <1>1 DEF Break
<1>2. ASSUME NEW k \in DOMAIN staged, Expire(k)
      PROVE  /\ UNCHANGED <<job, streams, log, meddled, cache, seen, counter, wire, callVars>>
             /\ \A x \in DOMAIN staged' : x \in DOMAIN staged /\ staged'[x] = staged[x]
  BY <1>2 DEF Expire, Drop
<1>3. ASSUME NEW c \in Calls, Meddle(StreamOf(c))
      PROVE  /\ UNCHANGED <<job, log, cache, seen, counter, wire, callVars>>
             /\ \A x \in DOMAIN staged' : x \in DOMAIN staged /\ staged'[x] = staged[x]
             /\ \A x \in DOMAIN streams' : Range(streams'[x].last) \subseteq 1..2 * Len(log)
             /\ meddled' \in Seq(Streams)
  <2>1. PICK st : st = StreamOf(c) /\ st \in Streams
    BY DEF Streams
  <2>2. Meddle(st)
    BY <1>3, <2>1
  <2>3. UNCHANGED <<job, log, cache, seen, counter, wire, callVars>> /\ meddled' = Append(meddled, st)
    BY <2>2 DEF Meddle
  <2>4. \A x \in DOMAIN staged' : x \in DOMAIN staged /\ staged'[x] = staged[x]
    BY <2>2 DEF Meddle
  <2>5. Range(NewStream(Foreign).last) = {}
    BY DEF NewStream, Range
  <2>6. \/ /\ Exists(st) /\ streams' = Put(streams, st, [layout |-> Foreign, last |-> streams[st].last])
        \/ streams' = Put(streams, st, NewStream(Foreign))
        \/ streams' = Drop(streams, st)
    BY <2>2 DEF Meddle
  <2>7. \A x \in DOMAIN streams' : Range(streams'[x].last) \subseteq 1..2 * Len(log)
    BY <1>0, <2>5, <2>6 DEF Put, Drop, Exists
  <2> QED BY <1>0, <2>1, <2>3, <2>4, <2>7
<1> QED BY <1>0, <1>1, <1>2, <1>3 DEF Disturbs, serverVars

\* Disturbances keep the types.
LEMMA DisturbTyped ==
  ASSUME SeamTyped, Disturbs
  PROVE  SeamTyped'
<1>0. ServerTypes /\ SeamTypes /\ CallTypes /\ CallSteps /\ job \in Jobs
  BY DEF SeamTyped, TypeOK
<1>1. /\ UNCHANGED <<job, log, cache, seen, counter, callVars>>
      /\ Streams' = Streams /\ Subjects' = Subjects /\ Packets' = Packets
  BY DisturbMoves, SameNames
<1>2. ServerTypes'
  BY <1>0, <1>1, DisturbMoves DEF ServerTypes
<1>3. wire' \in [Seams -> Seq(Packets)]
  <2>1. <<>> \in Seq(Packets)
    OBVIOUS
  <2>2. UNCHANGED wire \/ \E s \in Seams : wire' = [wire EXCEPT ![s] = <<>>]
    BY DisturbMoves
  <2> QED BY <1>0, <2>1, <2>2 DEF SeamTypes
<1>4. SeamTypes' /\ CallTypes' /\ CallSteps'
  BY <1>0, <1>1, <1>3 DEF SeamTypes, CallTypes, CallSteps, callVars
<1> QED BY <1>0, <1>1, <1>2, <1>4 DEF SeamTyped, TypeOK

\* Every step is a call's, the server's or a disturbance.
LEMMA Steps ==
  ASSUME Next
  PROVE  \/ \E c \in Calls : Provisions(c) \/ Sending(c) \/ Hearing(c)
         \/ \E s \in Seams : Deliver(s)
         \/ Disturbs
BY DEF Next, Step, Provisions, Sending, Hearing, Disturbs

-----------------------------------------------------------------------------
(* Batch ids, and what was verified *)

\* Batch ids stay unique through every step.
LEMMA IdsStep ==
  ASSUME SeamTyped, IdsUnique, Verified, [Next]_vars
  PROVE  IdsUnique'
<1>0. SeamTypes /\ CallTypes /\ job \in Jobs /\ \A c \in Calls : SeamOf(c) \in Seams
  BY Kinds DEF SeamTyped, TypeOK
<1>1. CASE UNCHANGED <<job, id, counter>>
  BY <1>1 DEF IdsUnique, SeamOf
<1>2. ASSUME NEW c \in Calls, UNCHANGED job,
             counter' = [counter EXCEPT ![SeamOf(c)] = @ + 1],
             id' = [id EXCEPT ![c] = <<SeamOf(c), counter[SeamOf(c)] + 1>>]
      PROVE  IdsUnique'
  <2> DEFINE n == counter[SeamOf(c)]
  <2>1. /\ n \in Nat /\ SeamOf(c) \in Seams /\ counter'[SeamOf(c)] = n + 1
        /\ \A s \in Seams : s # SeamOf(c) => counter'[s] = counter[s]
        /\ \A s \in Seams : counter[s] \in Nat
    BY <1>0, <1>2 DEF SeamTypes
  <2>2. /\ id'[c] = <<SeamOf(c), n + 1>> /\ \A d \in Calls : d # c => id'[d] = id[d]
    BY <1>0, <1>2 DEF CallTypes
  <2>3. \A d \in Calls : SeamOf(d)' = SeamOf(d)
    BY <1>2 DEF SeamOf
  <2> HIDE DEF n
  <2>4. ASSUME NEW d \in Calls, d # c, id[d] # None PROVE id[d] # id'[c]
    <3>1. id[d] \in Seams \X Nat /\ id[d][1] = SeamOf(d) /\ id[d][2] <= counter[SeamOf(d)]
      BY <1>0, <2>4 DEF IdsUnique, CallTypes, Batches
    <3>2. id'[c][1] = SeamOf(c) /\ id'[c][2] = n + 1
      BY <2>2
    <3>3. CASE id[d] = id'[c]
      <4>1. SeamOf(d) = SeamOf(c) /\ id[d][2] = n + 1
        BY <3>1, <3>2, <3>3
      <4> QED BY <2>1, <3>1, <4>1 DEF n
    <3> QED BY <3>3
  <2>5. ASSUME NEW d \in Calls, id'[d] # None
        PROVE  id'[d][1] = SeamOf(d) /\ id'[d][2] <= counter'[SeamOf(d)]
    <3>1. CASE d = c
      BY <2>1, <2>2, <3>1
    <3>2. CASE d # c
      <4>1. id[d] \in Seams \X Nat /\ id[d][1] = SeamOf(d) /\ id[d][2] <= counter[SeamOf(d)]
            /\ id'[d] = id[d]
        BY <1>0, <2>2, <2>5, <3>2 DEF IdsUnique, CallTypes, Batches
      <4>2. counter[SeamOf(d)] <= counter'[SeamOf(d)] /\ counter[SeamOf(d)] \in Nat
            /\ counter'[SeamOf(d)] \in Nat
        BY <1>0, <2>1 DEF n
      <4> QED BY <4>1, <4>2
    <3> QED BY <3>1, <3>2
  <2>6. ASSUME NEW d \in Calls, NEW e \in Calls, id'[d] # None, id'[d] = id'[e] PROVE d = e
    BY <2>2, <2>4, <2>6 DEF IdsUnique
  <2> QED BY <2>3, <2>5, <2>6 DEF IdsUnique
<1>3. ASSUME NEW c \in Calls, Provisions(c) \/ Sending(c) \/ Hearing(c) PROVE IdsUnique'
  BY <1>1, <1>2, <1>3, ProvisionMoves, SendMoves, HearMoves
<1>4. CASE Disturbs
  BY <1>1, <1>4, DisturbMoves DEF callVars
<1>5. CASE \E s \in Seams : Deliver(s)
  BY <1>1, <1>5, DeliverKeeps
<1>6. CASE UNCHANGED vars
  BY <1>1, <1>6 DEF vars, callVars
<1> QED BY <1>3, <1>4, <1>5, <1>6, Steps

\* What is known to be verified grows, and calls go on only with that.
LEMMA VerifiedStep ==
  ASSUME SeamTyped, Verified, [Next]_vars
  PROVE  Verified' /\ seen \subseteq seen' /\ UNCHANGED job
<1>0. SeamTypes /\ CallTypes /\ job \in Jobs /\ \A c \in Calls : SeamOf(c) \in Seams
  BY Kinds DEF SeamTyped, TypeOK
<1>1. CASE UNCHANGED <<job, cache, seen, pc>>
  BY <1>1 DEF Verified, SeamOf, StreamOf
<1>2. ASSUME NEW c \in Calls, Provisions(c) PROVE Verified' /\ seen \subseteq seen' /\ UNCHANGED job
  <2>1. UNCHANGED job /\ \A d : StreamOf(d)' = StreamOf(d) /\ SeamOf(d)' = SeamOf(d)
    BY <1>2, ProvisionMoves, SameNames
  <2>2. seen \subseteq seen' /\ \A s \in Seams : \A st \in cache'[s] : <<s, st>> \in seen'
    <3>1. CASE UNCHANGED <<cache, seen>>
      BY <3>1 DEF Verified
    <3>2. CASE /\ cache' = [cache EXCEPT ![SeamOf(c)] = @ \cup {StreamOf(c)}]
               /\ seen' = seen \cup {<<SeamOf(c), StreamOf(c)>>}
      BY <1>0, <3>2 DEF Verified, SeamTypes
    <3> QED BY <1>2, <3>1, <3>2, ProvisionStreams
  <2>3. ASSUME NEW d \in Calls, pc'[d] \in {"read", "member", "commit", "single", "await"}
        PROVE  <<SeamOf(d), StreamOf(d)>> \in seen'
    <3>1. CASE pc'[d] = pc[d]
      BY <2>2, <2>3, <3>1 DEF Verified
    <3>2. CASE d = c /\ Arrives(c)
      BY <1>0, <2>2, <3>2 DEF Arrives, Verified
    <3>3. CASE d = c /\ Fences(c)
      BY <2>2, <3>3 DEF Fences, Verified
    <3>4. CASE d = c /\ (Walks(c) \/ EndsEarly(c))
      BY <1>0, <2>3, <3>4 DEF Walks, EndsEarly, CallTypes
    <3>5. d = c \/ pc'[d] = pc[d]
      BY <1>2, ProvisionLocal
    <3> QED BY <1>2, <3>1, <3>2, <3>3, <3>4, <3>5, ProvisionMoves
  <2> QED BY <2>1, <2>2, <2>3 DEF Verified
<1>3. ASSUME NEW c \in Calls, Sending(c) \/ Hearing(c) PROVE Verified' /\ UNCHANGED <<job, seen>>
  <2>1. UNCHANGED <<job, cache, seen>> /\ \A d : StreamOf(d)' = StreamOf(d) /\ SeamOf(d)' = SeamOf(d)
    BY <1>3, SendMoves, HearMoves, SameNames
  <2>2. /\ pc[c] \in {"member", "commit", "single", "await"}
        /\ \E p : pc' = [pc EXCEPT ![c] = p]
    BY <1>3, SendMoves, HearMoves
  <2>3. <<SeamOf(c), StreamOf(c)>> \in seen
    BY <2>2 DEF Verified
  <2>4. \A d \in Calls : d # c => pc'[d] = pc[d]
    BY <1>0, <2>2 DEF CallTypes
  <2> QED BY <2>1, <2>3, <2>4 DEF Verified
<1>4. CASE \E s \in Seams : Deliver(s)
  BY <1>1, <1>4, DeliverKeeps
<1>5. CASE Disturbs
  BY <1>1, <1>5, DisturbMoves DEF callVars
<1>6. CASE UNCHANGED vars
  BY <1>1, <1>6 DEF vars, callVars
<1> QED BY <1>1, <1>2, <1>3, <1>4, <1>5, <1>6, Steps

-----------------------------------------------------------------------------
(* What is on its way *)

\* A call that has begun to send keeps its batch id and goes forward.
LEMMA Forward ==
  ASSUME SeamTyped, Verified, [Next]_vars, NEW c \in Calls, pc[c] \in {"commit", "await", "done"}
  PROVE  /\ id'[c] = id[c] /\ pc'[c] \in {"commit", "await", "done"}
         /\ pc[c] \in {"await", "done"} => pc'[c] \in {"await", "done"}
<1>0. CallTypes
  BY DEF SeamTyped, TypeOK
<1>1. CASE UNCHANGED <<pc, id>>
  BY <1>1
<1>2. ASSUME NEW d \in Calls, Provisions(d)
      PROVE  id'[c] = id[c] /\ pc'[c] = pc[c]
  <2>1. d # c /\ UNCHANGED id
    BY <1>2, ProvisionMoves
  <2> QED BY <1>2, <2>1, ProvisionLocal
<1>3. ASSUME NEW d \in Calls, Sending(d) \/ Hearing(d)
      PROVE  /\ id'[c] = id[c] /\ pc'[c] \in {"commit", "await", "done"}
             /\ pc[c] \in {"await", "done"} => pc'[c] \in {"await", "done"}
  <2>1. CASE d # c
    BY <1>0, <1>3, <2>1, SendMoves, HearMoves DEF CallTypes
  <2>2. CASE d = c
    BY <1>0, <1>3, <2>2, SendMoves, HearMoves DEF CallTypes
  <2> QED BY <2>1, <2>2
<1>4. CASE \E s \in Seams : Deliver(s)
  BY <1>1, <1>4, DeliverKeeps
<1>5. CASE Disturbs
  BY <1>1, <1>5, DisturbMoves DEF callVars
<1>6. CASE UNCHANGED vars
  BY <1>1, <1>6 DEF vars, callVars
<1> QED BY <1>2, <1>3, <1>4, <1>5, <1>6, Steps

\* What was sent stays sent.
LEMMA SentStays ==
  ASSUME SeamTyped, Verified, [Next]_vars, NEW m \in Packets, Sent(m)
  PROVE  Sent(m)'
<1>1. m.call \in Calls /\ pc[m.call] \in {"commit", "await", "done"}
  BY DEF Packets, Sent
<1>2. /\ id'[m.call] = id[m.call] /\ pc'[m.call] \in {"commit", "await", "done"}
      /\ pc[m.call] \in {"await", "done"} => pc'[m.call] \in {"await", "done"}
  BY <1>1, Forward
<1>3. seen \subseteq seen' /\ UNCHANGED job
  BY VerifiedStep
<1>4. StreamOf(m.call)' = StreamOf(m.call) /\ SeamOf(m.call)' = SeamOf(m.call)
      /\ Record(m.call)' = Record(m.call)
  BY <1>3, SameNames
<1> QED BY <1>2, <1>3, <1>4 DEF Sent

\* A connection takes one more message, loses its first or loses all.  A call that
\* asks to commit has not asked before.
Grows(s) ==
  \E m \in Packets :
    /\ wire'[s] = Append(wire[s], m) /\ Sent(m)' /\ SeamOf(m.call) = s
    /\ m.last => pc[m.call] \in {"commit", "single"}

Shrinks(s) == wire[s] # <<>> /\ wire'[s] = Tail(wire[s])

\* What a step does to a connection.
LEMMA WireMoves ==
  ASSUME SeamTyped, IdsUnique, Verified, WireInv, [Next]_vars, NEW s \in Seams
  PROVE  wire'[s] = wire[s] \/ wire'[s] = <<>> \/ Shrinks(s) \/ Grows(s)
<1>0. wire \in [Seams -> Seq(Packets)] /\ \A c \in Calls : SeamOf(c) \in Seams
  BY Kinds DEF SeamTyped, TypeOK, SeamTypes
<1>1. CASE UNCHANGED wire
  BY <1>1
<1>2. ASSUME NEW c \in Calls, NEW m, Sends(c, m), m.last => pc[c] \in {"commit", "single"}
      PROVE  wire'[s] = wire[s] \/ Grows(s)
  BY <1>0, <1>2 DEF Sends, Grows
<1>3. ASSUME NEW c \in Calls, Sending(c) PROVE wire'[s] = wire[s] \/ Grows(s)
  BY <1>1, <1>2, <1>3, SendMoves
<1>4. ASSUME NEW t \in Seams, Deliver(t) PROVE wire'[s] = wire[s] \/ Shrinks(s)
  BY <1>0, <1>4 DEF Deliver, Shrinks
<1>5. CASE Disturbs
  <2>1. UNCHANGED wire \/ \E t \in Seams : wire' = [wire EXCEPT ![t] = <<>>]
    BY <1>5, DisturbMoves
  <2> QED BY <1>0, <2>1
<1>6. ASSUME NEW c \in Calls, Provisions(c) \/ Hearing(c) PROVE UNCHANGED wire
  BY <1>6, ProvisionMoves, HearMoves
<1>7. CASE UNCHANGED vars
  BY <1>7 DEF vars
<1> QED BY <1>1, <1>3, <1>4, <1>5, <1>6, <1>7, Steps

\* Batches go on, end, or begin with a message that was sent.
LEMMA StagedMoves ==
  ASSUME SeamTyped, IdsUnique, Verified, WireInv, [Next]_vars, NEW k \in DOMAIN staged'
  PROVE  \/ k \in DOMAIN staged /\ staged'[k] = staged[k]
         \/ \E m \in Packets :
              /\ Sent(m) /\ ~m.last /\ k = <<m.stream, m.batch>> /\ staged'[k] = <<m>>
<1>1. CASE UNCHANGED staged
  BY <1>1
<1>2. ASSUME NEW c \in Calls, Provisions(c) \/ Sending(c) \/ Hearing(c) PROVE UNCHANGED staged
  BY <1>2, ProvisionMoves, SendMoves, HearMoves DEF serverVars
<1>3. ASSUME NEW s \in Seams, Deliver(s)
      PROVE  \/ k \in DOMAIN staged /\ staged'[k] = staged[k]
             \/ \E m \in Packets :
                  /\ Sent(m) /\ ~m.last /\ k = <<m.stream, m.batch>> /\ staged'[k] = <<m>>
  <2>1. PICK m \in Packets : Sent(m) /\ Stages(m)
    BY <1>3, Delivered
  <2> QED BY <2>1 DEF Stages
<1>4. CASE Disturbs
  BY <1>4, DisturbMoves
<1>5. CASE UNCHANGED vars
  BY <1>5 DEF vars, serverVars
<1> QED BY <1>1, <1>2, <1>3, <1>4, <1>5, Steps

\* What is on its way or staged was sent.
LEMMA WireStep ==
  ASSUME SeamTyped, IdsUnique, Verified, WireInv, [Next]_vars
  PROVE  WireInv'
<1>0. SeamTypes /\ ServerTypes /\ UNCHANGED job /\ \A c : SeamOf(c)' = SeamOf(c)
  BY VerifiedStep, SameNames DEF SeamTyped, TypeOK
<1>1. ASSUME NEW s \in Seams
      PROVE  /\ wire[s] \in Seq(Packets)
             /\ \A i \in 1..Len(wire[s]) : /\ wire[s][i] \in Packets /\ Sent(wire[s][i])
                                           /\ SeamOf(wire[s][i].call) = s
             /\ \A i, j \in 1..Len(wire[s]) :
                  wire[s][i].last /\ wire[s][j].last /\ wire[s][i].call = wire[s][j].call => i = j
  <2>1. wire[s] \in Seq(Packets) /\ \A i \in 1..Len(wire[s]) : wire[s][i] \in Packets
    BY <1>0 DEF SeamTypes
  <2> QED BY <2>1 DEF WireInv
<1>2. ASSUME NEW s \in Seams, NEW i \in 1..Len(wire'[s])
      PROVE  \E m \in Packets : m = wire'[s][i] /\ Sent(m)' /\ SeamOf(m.call) = s
  <2>1. PICK w \in Seq(Packets) : w = wire[s] /\ \A j \in 1..Len(w) :
                                     w[j] \in Packets /\ Sent(w[j]) /\ SeamOf(w[j].call) = s
    BY <1>1
  <2>2. ASSUME NEW j \in 1..Len(w), wire'[s][i] = w[j]
        PROVE  \E m \in Packets : m = wire'[s][i] /\ Sent(m)' /\ SeamOf(m.call) = s
    <3>1. PICK m \in Packets : m = w[j] /\ Sent(m) /\ SeamOf(m.call) = s
      BY <2>1
    <3>2. Sent(m)'
      BY <3>1, SentStays
    <3> QED BY <2>2, <3>1, <3>2
  <2>3. CASE wire'[s] = wire[s]
    BY <2>1, <2>2, <2>3
  <2>4. CASE wire'[s] = <<>>
    <3>1. 1..Len(<<>>) = {}
      OBVIOUS
    <3> QED BY <1>2, <2>4, <3>1
  <2>5. CASE Shrinks(s)
    <3>1. w # <<>> /\ wire'[s] = Tail(w)
      BY <2>1, <2>5 DEF Shrinks
    <3>2. wire'[s][i] = w[i + 1] /\ i + 1 \in 1..Len(w)
      BY <3>1, Tails
    <3> QED BY <2>2, <3>2
  <2>6. CASE Grows(s)
    <3>1. PICK m \in Packets : wire'[s] = Append(w, m) /\ Sent(m)' /\ SeamOf(m.call) = s
      BY <2>1, <2>6 DEF Grows
    <3>2. Len(w) \in Nat /\ i \in 1..Len(w) + 1
      BY <3>1
    <3>3. CASE i = Len(w) + 1
      BY <3>1, <3>3, Appended
    <3>4. CASE i \in 1..Len(w)
      <4>1. wire'[s][i] = w[i]
        BY <3>1, <3>4
      <4> QED BY <2>2, <3>4, <4>1
    <3> QED BY <3>2, <3>3, <3>4
  <2> QED BY <2>3, <2>4, <2>5, <2>6, WireMoves
<1>3. ASSUME NEW s \in Seams, NEW i \in 1..Len(wire'[s]), NEW j \in 1..Len(wire'[s]),
             wire'[s][i].last, wire'[s][j].last, wire'[s][i].call = wire'[s][j].call
      PROVE  i = j
  <2>1. PICK w \in Seq(Packets) :
          /\ w = wire[s] /\ \A x \in 1..Len(w) : w[x] \in Packets /\ Sent(w[x])
          /\ \A x, y \in 1..Len(w) : w[x].last /\ w[y].last /\ w[x].call = w[y].call => x = y
    BY <1>1
  <2>2. CASE wire'[s] = wire[s]
    BY <1>3, <2>1, <2>2
  <2>3. CASE wire'[s] = <<>>
    <3>1. 1..Len(<<>>) = {}
      OBVIOUS
    <3> QED BY <1>3, <2>3, <3>1
  <2>4. CASE Shrinks(s)
    <3>1. w # <<>> /\ wire'[s] = Tail(w)
      BY <2>1, <2>4 DEF Shrinks
    <3>2. /\ wire'[s][i] = w[i + 1] /\ i + 1 \in 1..Len(w)
          /\ wire'[s][j] = w[j + 1] /\ j + 1 \in 1..Len(w)
      BY <3>1, Tails
    <3>3. i + 1 = j + 1
      BY <1>3, <2>1, <3>2
    <3> QED BY <3>3
  <2>5. CASE Grows(s)
    <3>1. PICK m \in Packets : /\ wire'[s] = Append(w, m)
                               /\ m.last => pc[m.call] \in {"commit", "single"}
      BY <2>1, <2>5 DEF Grows
    <3>2. ASSUME NEW x \in 1..Len(w), w[x].last, w[x].call = m.call PROVE ~m.last
      BY <2>1, <3>1, <3>2 DEF Sent
    <3>3. /\ Len(w) \in Nat /\ i \in 1..Len(w) + 1 /\ j \in 1..Len(w) + 1
          /\ wire'[s][Len(w) + 1] = m /\ \A x \in 1..Len(w) : wire'[s][x] = w[x]
      BY <3>1, Appended
    <3>4. CASE i = Len(w) + 1 /\ j \in 1..Len(w)
      BY <1>3, <3>2, <3>3, <3>4
    <3>5. CASE j = Len(w) + 1 /\ i \in 1..Len(w)
      BY <1>3, <3>2, <3>3, <3>5
    <3>6. CASE i \in 1..Len(w) /\ j \in 1..Len(w)
      BY <1>3, <2>1, <3>3, <3>6
    <3> QED BY <3>3, <3>4, <3>5, <3>6
  <2> QED BY <2>2, <2>3, <2>4, <2>5, WireMoves
<1>4. ASSUME NEW k \in DOMAIN staged', NEW m, m = staged'[k][1]
      PROVE  Sent(m)' /\ ~m.last /\ k = <<m.stream, m.batch>>
  <2>1. m \in Packets /\ Sent(m) /\ ~m.last /\ k = <<m.stream, m.batch>>
    <3>1. CASE k \in DOMAIN staged /\ staged'[k] = staged[k]
      <4>1. m \in Packets
        BY <1>0, <1>4, <3>1 DEF ServerTypes
      <4> QED BY <1>4, <3>1, <4>1 DEF WireInv
    <3>2. ASSUME NEW h \in Packets, Sent(h) /\ ~h.last /\ k = <<h.stream, h.batch>>,
                 staged'[k] = <<h>>
          PROVE  m = h
      BY <1>4, <3>2
    <3> QED BY <3>1, <3>2, StagedMoves
  <2> QED BY <2>1, SentStays
<1>5. (\A s \in Seams : \A i \in 1..Len(wire[s]) : Sent(wire[s][i]) /\ SeamOf(wire[s][i].call) = s)'
  BY <1>0, <1>2
<1>6. (\A k \in DOMAIN staged :
         LET m == staged[k][1] IN Sent(m) /\ ~m.last /\ k = <<m.stream, m.batch>>)'
  BY <1>4
<1> QED BY <1>3, <1>5, <1>6 DEF WireInv

-----------------------------------------------------------------------------
(* What is stored *)

\* Only a message that commits its call's write makes the log grow.
LEMMA LogMoves ==
  ASSUME SeamTyped, IdsUnique, Verified, WireInv, [Next]_vars
  PROVE  UNCHANGED log \/ \E m \in Packets : Sent(m) /\ Stores(m)
<1>1. ASSUME NEW c \in Calls, Provisions(c) \/ Sending(c) \/ Hearing(c) PROVE UNCHANGED log
  BY <1>1, ProvisionMoves, SendMoves, HearMoves DEF serverVars
<1>2. ASSUME NEW s \in Seams, Deliver(s)
      PROVE  UNCHANGED log \/ \E m \in Packets : Sent(m) /\ Stores(m)
  BY <1>2, Delivered DEF Refuses
<1>3. CASE Disturbs
  BY <1>3, DisturbMoves
<1>4. CASE UNCHANGED vars
  BY <1>4 DEF vars, serverVars
<1> QED BY <1>1, <1>2, <1>3, <1>4, Steps

\* What is stored at once is one call's, in a stream its seam has verified.
Whole(e) ==
  \E c \in Calls :
    /\ <<SeamOf(c), e.stream>> \in seen
    /\ \/ /\ job[c].kind = "create"
          /\ e.calls = <<c, c>> /\ e.subjects = <<Counter, Record(c)>>
       \/ /\ job[c].kind = "revise"
          /\ e.calls = <<c>> /\ e.subjects = <<Record(c)>>

\* What is stored stays one call's.
LEMMA LogStep ==
  ASSUME SeamTyped, IdsUnique, Verified, WireInv, LogInv, [Next]_vars
  PROVE  LogInv'
<1>0. seen \subseteq seen' /\ UNCHANGED job /\ \A c : SeamOf(c)' = SeamOf(c) /\ Record(c)' = Record(c)
  BY VerifiedStep, SameNames
<1>1. \A e : Whole(e) => Whole(e)'
  BY <1>0 DEF Whole
<1>2. \A n \in 1..Len(log) : Whole(log[n])
  BY DEF LogInv, Whole
<1>3. CASE UNCHANGED log
  <2>1. (\A n \in 1..Len(log) : Whole(log[n]))'
    BY <1>1, <1>2, <1>3
  <2> QED BY <2>1 DEF LogInv, Whole
<1>4. ASSUME NEW m \in Packets, Sent(m), Stores(m) PROVE LogInv'
  <2>1. PICK e : e = Entry(m.call)
    OBVIOUS
  <2>2. m.call \in Calls
    BY DEF Packets
  <2>3. Whole(e)
    BY <1>4, <2>1, <2>2 DEF Sent, Entry, Whole
  <2>4. /\ log' = Append(log, e) /\ Len(log) \in Nat /\ Len(log') = Len(log) + 1
        /\ log'[Len(log) + 1] = e /\ \A n \in 1..Len(log) : log'[n] = log[n]
    <3>1. job \in Jobs /\ log \in Seq([stream : Streams, calls : Seq(Calls), subjects : Seq(Subjects)])
      BY DEF SeamTyped, TypeOK, ServerTypes
    <3>2. e \in [stream : Streams, calls : Seq(Calls), subjects : Seq(Subjects)]
      BY <2>1, <2>2, <3>1, EntryTyped
    <3>3. log' = Append(log, e)
      BY <1>4, <2>1 DEF Stores
    <3> QED BY <3>1, <3>2, <3>3, Appended
  <2>5. ASSUME NEW n \in 1..Len(log') PROVE \E x : x = log'[n] /\ Whole(x)'
    <3>1. n \in 1..Len(log) \/ n = Len(log) + 1
      BY <2>4
    <3> QED BY <1>1, <1>2, <2>3, <2>4, <3>1
  <2>6. (\A n \in 1..Len(log) : Whole(log[n]))'
    BY <2>5
  <2> QED BY <2>6 DEF LogInv, Whole
<1> QED BY <1>3, <1>4, LogMoves

\* What is stored of a call grows only by its own write.
LEMMA StoredGrows ==
  ASSUME SeamTyped, NEW c \in Calls, log' = Append(log, Entry(c)), NEW d
  PROVE  Stored(d)' = IF d = c THEN Stored(d) \cup {Len(log) + 1} ELSE Stored(d)
<1>1. job \in Jobs /\ log \in Seq([stream : Streams, calls : Seq(Calls), subjects : Seq(Subjects)])
  BY DEF SeamTyped, TypeOK, ServerTypes
<1>2. PICK e : e = Entry(c)
  OBVIOUS
<1>3. /\ e \in [stream : Streams, calls : Seq(Calls), subjects : Seq(Subjects)]
      /\ ToSet(e.calls) = {c}
  BY <1>1, <1>2, EntryTyped
<1>4. /\ Len(log) \in Nat /\ Len(log') = Len(log) + 1
      /\ log'[Len(log) + 1] = e /\ \A n \in 1..Len(log) : log'[n] = log[n]
  BY <1>1, <1>2, <1>3, Appended
<1>5. Stored(d)' = {n \in 1..Len(log') : d \in ToSet(log'[n].calls)}
  BY DEF Stored, ToSet
<1>6. 1..Len(log') = 1..Len(log) \cup {Len(log) + 1}
  BY <1>4
<1>7. d \in ToSet(log'[Len(log) + 1].calls) <=> d = c
  BY <1>3, <1>4
<1>8. \A n \in 1..Len(log) : ToSet(log'[n].calls) = ToSet(log[n].calls)
  BY <1>4
<1> QED BY <1>5, <1>6, <1>7, <1>8 DEF Stored

\* A call asks to commit only by sending that message.
LEMMA CommittingFrom ==
  ASSUME SeamTyped, NEW c \in Calls, Committing(c)',
         \A s \in Seams : \/ wire'[s] = wire[s] \/ wire'[s] = <<>> \/ Shrinks(s)
                          \/ \E m \in Packets : /\ wire'[s] = Append(wire[s], m)
                                                /\ ~(m.last /\ m.call = c)
  PROVE  Committing(c)
<1>0. PICK s \in Seams : \E i \in 1..Len(wire'[s]) : wire'[s][i].last /\ wire'[s][i].call = c
  BY DEF Committing
<1>1. PICK i \in 1..Len(wire'[s]) : wire'[s][i].last /\ wire'[s][i].call = c
  BY <1>0
<1>2. wire[s] \in Seq(Packets)
  BY DEF SeamTyped, TypeOK, SeamTypes
<1>3. PICK w \in Seq(Packets) : w = wire[s]
  BY <1>2
<1>4. SUFFICES \E j \in 1..Len(w) : wire'[s][i] = w[j]
  BY <1>1, <1>3 DEF Committing
<1>5. CASE wire'[s] = wire[s]
  BY <1>3, <1>5
<1>6. CASE wire'[s] = <<>>
  <2>1. 1..Len(<<>>) = {}
    OBVIOUS
  <2> QED BY <1>1, <1>6, <2>1
<1>7. CASE Shrinks(s)
  <2>1. w # <<>> /\ wire'[s] = Tail(w)
    BY <1>3, <1>7 DEF Shrinks
  <2>2. wire'[s][i] = w[i + 1] /\ i + 1 \in 1..Len(w)
    BY <2>1, Tails
  <2> QED BY <2>2
<1>8. ASSUME NEW m \in Packets, wire'[s] = Append(wire[s], m), ~(m.last /\ m.call = c)
      PROVE  \E j \in 1..Len(w) : wire'[s][i] = w[j]
  <2>1. /\ Len(w) \in Nat /\ i \in 1..Len(w) + 1 /\ wire'[s][Len(w) + 1] = m
        /\ \A x \in 1..Len(w) : wire'[s][x] = w[x]
    BY <1>3, <1>8, Appended
  <2>2. i # Len(w) + 1
    BY <1>1, <1>8, <2>1
  <2> QED BY <2>1, <2>2
<1> QED BY <1>5, <1>6, <1>7, <1>8

-----------------------------------------------------------------------------
(* What a seam says of a write *)

Refusals == {"precondition", "rejected", "unsent", "config", "notFound", "exists"}

\* A call of which nothing changes but that it goes on, sending what asks for nothing.
LEMMA OutcomeKept ==
  ASSUME NEW c \in Calls, Outcome(c), UNCHANGED job, reply'[c] = reply[c], res'[c] = res[c],
         pc'[c] \notin {"await", "done"} => pc[c] \notin {"await", "done"},
         pc[c] = "done" => pc'[c] = "done",
         Stored(c)' = Stored(c), Committing(c)' => Committing(c)
  PROVE  Outcome(c)'
BY DEF Outcome

\* Before a call waits, its request to commit is nowhere.
LEMMA NotYetCommitting ==
  ASSUME SeamTyped, WireInv, NEW c \in Calls, pc[c] \notin {"await", "done"}
  PROVE  ~Committing(c)
<1>1. ASSUME NEW s \in Seams, NEW i \in 1..Len(wire[s]), wire[s][i].last
      PROVE  pc[wire[s][i].call] \in {"await", "done"}
  <2>1. Sent(wire[s][i])
    BY DEF WireInv
  <2> QED BY <1>1, <2>1 DEF Sent
<1> QED BY <1>1 DEF Committing

\* The connections do not matter to a call that sends nothing.
LEMMA SameWire ==
  ASSUME UNCHANGED wire, NEW c
  PROVE  Committing(c)' <=> Committing(c)
BY DEF Committing

\* Nothing stored is nothing new of a call.
LEMMA SameStored ==
  ASSUME UNCHANGED log, NEW c
  PROVE  Stored(c)' = Stored(c)
BY DEF Stored, ToSet

\* Provisioning keeps what is known of outcomes.
LEMMA ProvisionOutcome ==
  ASSUME SeamTyped, WireInv, NEW c \in Calls, Provisions(c), NEW d \in Calls, Outcome(d)
  PROVE  Outcome(d)'
<1>0. /\ UNCHANGED <<job, log, wire, reply>> /\ CallTypes
      /\ pc[c] \in {"idle", "lookup", "make", "relookup", "info", "read"}
  BY ProvisionMoves DEF SeamTyped, TypeOK
<1>1. Stored(d)' = Stored(d) /\ (Committing(d)' <=> Committing(d))
  BY <1>0, SameStored, SameWire
<1>2. CASE d # c
  BY <1>0, <1>1, <1>2, ProvisionLocal, OutcomeKept
<1>3. CASE d = c /\ (Walks(c) \/ Arrives(c) \/ Fences(c))
  <2>1. /\ UNCHANGED res /\ pc'[c] \notin {"await", "done"}
    BY <1>0, <1>3 DEF Walks, Arrives, Fences, CallTypes
  <2> QED BY <1>0, <1>1, <1>3, <2>1, OutcomeKept
<1>4. CASE d = c /\ EndsEarly(c)
  <2>1. PICK what \in Early : res' = [res EXCEPT ![c] = what] /\ (what = "ok" => job[c].kind = "append")
    BY <1>4 DEF EndsEarly
  <2>2. pc'[c] = "done" /\ res'[c] = what
    BY <1>0, <1>4, <2>1 DEF EndsEarly, CallTypes
  <2>3. ~Committing(c) /\ Stored(c) = {} /\ reply[c] = None
    BY <1>0, <1>4, NotYetCommitting DEF Outcome
  <2> QED BY <1>0, <1>1, <1>4, <2>1, <2>2, <2>3 DEF Outcome
<1> QED BY <1>2, <1>3, <1>4, ProvisionMoves

\* So does hearing: a call says what the reply says.
LEMMA HearOutcome ==
  ASSUME SeamTyped, NEW c \in Calls, Hearing(c), NEW d \in Calls, Outcome(d)
  PROVE  Outcome(d)'
<1>0. /\ UNCHANGED <<job, log, wire, reply>> /\ CallTypes
      /\ pc[c] = "await" /\ pc' = [pc EXCEPT ![c] = "done"]
  BY HearMoves DEF SeamTyped, TypeOK, serverVars
<1>1. PICK what \in {"ok", "precondition", "rejected", "ambiguous", "error"} :
        /\ res' = [res EXCEPT ![c] = what]
        /\ what = "ok" => reply[c] # None /\ reply[c].is = "ok"
        /\ what \in {"precondition", "rejected"} =>
             reply[c] # None /\ reply[c].is \in {"wrongLast", "refused"}
  BY HearMoves
<1>2. Stored(d)' = Stored(d) /\ (Committing(d)' <=> Committing(d))
  BY <1>0, SameStored, SameWire
<1>3. CASE d # c
  <2>1. pc'[d] = pc[d] /\ res'[d] = res[d]
    BY <1>0, <1>1, <1>3 DEF CallTypes
  <2> QED BY <1>0, <1>2, <2>1, OutcomeKept
<1>4. CASE d = c
  <2>1. pc'[c] = "done" /\ res'[c] = what
    BY <1>0, <1>1 DEF CallTypes
  <2>2. /\ what = "ok" => Stored(c) # {}
        /\ what \in {"precondition", "rejected"} => Stored(c) = {} /\ ~Committing(c)
    BY <1>1, <1>4 DEF Outcome
  <2> QED BY <1>0, <1>2, <1>4, <2>1, <2>2 DEF Outcome
<1> QED BY <1>3, <1>4

\* So does sending: nothing is stored before.
LEMMA SendOutcome ==
  ASSUME SeamTyped, Verified, WireInv, NEW c \in Calls, Sending(c), NEW d \in Calls, Outcome(d)
  PROVE  Outcome(d)'
<1>0. /\ UNCHANGED <<job, log, reply>> /\ CallTypes /\ SeamOf(c) \in Seams
      /\ wire \in [Seams -> Seq(Packets)]
      /\ pc[c] \in {"member", "commit", "single"}
  BY SendMoves, Kinds DEF SeamTyped, TypeOK, serverVars, SeamTypes
<1>1. Stored(d)' = Stored(d)
  BY <1>0, SameStored
<1>2. ASSUME NEW m, Sends(c, m), ~(m.last /\ d = c) PROVE Committing(d)' => Committing(d)
  <2>1. /\ wire'[SeamOf(c)] = Append(wire[SeamOf(c)], m) /\ m \in Packets /\ m.call = c
        /\ \A s \in Seams : s # SeamOf(c) => wire'[s] = wire[s]
    BY <1>0, <1>2 DEF Sends
  <2>2. \A s \in Seams : \/ wire'[s] = wire[s] \/ wire'[s] = <<>> \/ Shrinks(s)
                         \/ \E x \in Packets : /\ wire'[s] = Append(wire[s], x)
                                               /\ ~(x.last /\ x.call = d)
    BY <1>2, <2>1
  <2> QED BY <2>2, CommittingFrom
<1>3. CASE d # c
  <2>1. pc'[d] = pc[d] /\ res'[d] = res[d]
    BY <1>0, <1>3, SendMoves DEF CallTypes
  <2>2. Committing(d)' => Committing(d)
    BY <1>2, <1>3, SameWire, SendMoves
  <2> QED BY <1>0, <1>1, <2>1, <2>2, OutcomeKept
<1>4. CASE d = c
  <2>0. ~Committing(c) /\ Stored(c) = {} /\ reply[c] = None /\ res[c] = None
    BY <1>0, <1>4, NotYetCommitting DEF Outcome
  <2>1. CASE pc' = [pc EXCEPT ![c] = "commit"] /\ UNCHANGED res /\ \E m : Sends(c, m) /\ ~m.last
    <3>1. pc'[c] = "commit"
      BY <1>0, <2>1 DEF CallTypes
    <3> QED BY <1>0, <1>1, <1>2, <1>4, <2>1, <3>1, OutcomeKept
  <2>2. CASE pc' = [pc EXCEPT ![c] = "done"] /\ UNCHANGED wire /\ res' = [res EXCEPT ![c] = "unsent"]
    <3>1. pc'[c] = "done" /\ res'[c] = "unsent" /\ ~Committing(c)'
      BY <1>0, <2>0, <2>2, SameWire DEF CallTypes
    <3> QED BY <1>0, <1>1, <1>4, <2>0, <3>1 DEF Outcome
  <2>3. CASE pc' = [pc EXCEPT ![c] = "await"] /\ UNCHANGED res
    <3>1. pc'[c] = "await"
      BY <1>0, <2>3 DEF CallTypes
    <3>2. None \notin Refusals /\ None # "ok"
      BY DEF Refusals, Results
    <3> QED BY <1>0, <1>1, <1>4, <2>0, <2>3, <3>1, <3>2 DEF Outcome, Refusals
  <2> QED BY <2>1, <2>2, <2>3, SendMoves
<1> QED BY <1>3, <1>4

\* So do disturbances.
LEMMA DisturbOutcome ==
  ASSUME SeamTyped, Disturbs, NEW d \in Calls, Outcome(d)
  PROVE  Outcome(d)'
<1>1. UNCHANGED <<job, log, pc, reply, res>>
  BY DisturbMoves DEF callVars
<1>2. UNCHANGED wire \/ \E s \in Seams : wire' = [wire EXCEPT ![s] = <<>>]
  BY DisturbMoves
<1>3. \A s \in Seams : wire'[s] = wire[s] \/ wire'[s] = <<>>
  BY <1>2 DEF SeamTyped, TypeOK, SeamTypes
<1>4. Committing(d)' => Committing(d)
  BY <1>3, CommittingFrom
<1> QED BY <1>1, <1>4, SameStored, OutcomeKept

\* So does delivering: what is stored is answered so.
LEMMA DeliverOutcome ==
  ASSUME SeamTyped, IdsUnique, WireInv, NEW s \in Seams, Deliver(s), NEW d \in Calls, Outcome(d)
  PROVE  Outcome(d)'
<1>0. UNCHANGED <<job, pc, res>> /\ CallTypes /\ wire \in [Seams -> Seq(Packets)]
  BY DeliverKeeps DEF SeamTyped, TypeOK, SeamTypes
<1>1. PICK m \in Packets :
        /\ wire[s] # <<>> /\ m = wire[s][1] /\ Sent(m) /\ SeamOf(m.call) = s
        /\ wire' = [wire EXCEPT ![s] = Tail(@)]
        /\ Refuses(m) \/ Stores(m)
  BY Delivered
<1>2. m.call \in Calls
  BY DEF Packets
<1>3. \A t \in Seams : IF t = s THEN wire'[t] = Tail(wire[s]) ELSE wire'[t] = wire[t]
  BY <1>0, <1>1
<1>4. Committing(d)' => Committing(d)
  <2>1. \A t \in Seams : wire'[t] = wire[t] \/ Shrinks(t)
    BY <1>1, <1>3 DEF Shrinks
  <2> QED BY <2>1, CommittingFrom
<1>5. CASE ~m.last
  <2>1. UNCHANGED <<log, reply>>
    BY <1>1, <1>5 DEF Refuses, Stores
  <2> QED BY <1>0, <1>4, <2>1, SameStored, OutcomeKept
<1>6. CASE m.last /\ d # m.call
  <2>1. reply'[d] = reply[d]
    BY <1>0, <1>1, <1>2, <1>6 DEF CallTypes, Refuses, Stores, Hears
  <2>2. Stored(d)' = Stored(d)
    <3>1. CASE Refuses(m)
      BY <3>1, SameStored DEF Refuses
    <3>2. CASE Stores(m)
      BY <1>2, <1>6, <3>2, StoredGrows DEF Stores
    <3> QED BY <1>1, <3>1, <3>2
  <2> QED BY <1>0, <1>4, <2>1, <2>2, OutcomeKept
<1>7. CASE m.last /\ d = m.call
  <2>1. 1 \in 1..Len(wire[s]) /\ wire[s] \in Seq(Packets)
    BY <1>0, <1>1, Tails
  <2>2. Committing(d)
    BY <1>1, <1>7, <2>1 DEF Committing
  <2>3. ~Committing(d)'
    <3>1. ASSUME NEW t \in Seams, NEW i \in 1..Len(wire'[t]), wire'[t][i].last, wire'[t][i].call = d
          PROVE  FALSE
      <4>1. CASE t = s
        <5>1. wire'[t] = Tail(wire[s])
          BY <1>3, <4>1
        <5>2. wire'[t][i] = wire[s][i + 1] /\ i + 1 \in 1..Len(wire[s])
          <6>1. PICK w \in Seq(Packets) : w = wire[s] /\ w # <<>>
            BY <1>1, <2>1
          <6>2. wire'[t] = Tail(w) /\ i \in 1..Len(Tail(w))
            BY <3>1, <5>1, <6>1
          <6>3. Tail(w)[i] = w[i + 1] /\ i + 1 \in 1..Len(w)
            BY <6>1, <6>2, Tails
          <6> QED BY <6>1, <6>2, <6>3
        <5>3. i + 1 = 1
          BY <1>1, <1>7, <2>1, <3>1, <5>2 DEF WireInv
        <5> QED BY <5>3
      <4>2. CASE t # s
        <5>1. wire'[t] = wire[t] /\ i \in 1..Len(wire[t])
          BY <1>3, <3>1, <4>2
        <5>2. SeamOf(wire[t][i].call) = t
          BY <5>1 DEF WireInv
        <5> QED BY <1>1, <1>7, <3>1, <4>2, <5>1, <5>2
      <4> QED BY <4>1, <4>2
    <3> QED BY <3>1 DEF Committing
  <2>4. /\ Stored(d) = {} /\ pc[d] \in {"await", "done"} /\ res[d] \notin Refusals
        /\ res[d] = "ok" => job[d].kind = "append"
    BY <1>1, <1>7, <2>2 DEF Outcome, Sent, Refusals
  <2>5. CASE Refuses(m)
    <3>1. PICK what \in {"wrongLast", "refused", "noResponders"} : Hears(m, what, 0)
      BY <1>7, <2>5 DEF Refuses
    <3>2. reply'[d].is = what
      BY <1>0, <1>7, <3>1 DEF CallTypes, Hears
    <3>3. Stored(d)' = {}
      BY <2>4, <2>5, SameStored DEF Refuses
    <3> QED BY <1>0, <2>3, <2>4, <3>2, <3>3 DEF Outcome, Refusals
  <2>6. CASE Stores(m)
    <3>1. reply'[d].is = "ok"
      BY <1>0, <1>7, <2>6 DEF CallTypes, Hears, Stores
    <3>2. Stored(d)' = {Len(log) + 1}
      BY <1>7, <2>4, <2>6, StoredGrows DEF Stores
    <3> QED BY <1>0, <2>3, <2>4, <3>1, <3>2 DEF Outcome, Refusals
  <2> QED BY <1>1, <2>5, <2>6
<1> QED BY <1>5, <1>6, <1>7

-----------------------------------------------------------------------------
(* The invariant *)

\* The invariant holds from the start.
LEMMA SeamInit == Init => SeamInv
<1> SUFFICES ASSUME Init PROVE SeamInv
  OBVIOUS
<1>1. TypeOK /\ CallSteps
  BY InitTyped DEF SeamTyped
<1>2. /\ log = <<>> /\ 1..Len(<<>>) = {} /\ \A s \in Seams : wire[s] = <<>>
      /\ \A c \in Calls : pc[c] = "idle" /\ id[c] = None /\ reply[c] = None /\ res[c] = None
      /\ \A s \in Seams : cache[s] = {}
      /\ staged = <<>>
  BY DEF Init
<1>3. IdsUnique
  BY <1>2 DEF IdsUnique
<1>4. Verified
  BY <1>2 DEF Verified
<1>5. WireInv /\ LogInv
  BY <1>2 DEF WireInv, LogInv
<1>6. ASSUME NEW c \in Calls PROVE Outcome(c)
  <2>1. Stored(c) = {} /\ ~Committing(c)
    BY <1>2 DEF Stored, Committing
  <2>2. None \notin Refusals /\ None # "ok"
    BY DEF Refusals, Results
  <2> QED BY <1>2, <2>1, <2>2 DEF Outcome, Refusals
<1> QED BY <1>1, <1>3, <1>4, <1>5, <1>6 DEF SeamInv

\* Every step keeps the types.
LEMMA TypedStep ==
  ASSUME SeamTyped, IdsUnique, Verified, WireInv, [Next]_vars
  PROVE  SeamTyped'
<1>1. CASE UNCHANGED vars
  <2>1. /\ UNCHANGED <<job, streams, staged, log, meddled, cache, seen, counter, wire, pc, exp, id,
                       reply, res>>
        /\ Streams' = Streams /\ Subjects' = Subjects /\ Packets' = Packets
    BY <1>1, SameNames DEF vars, serverVars, callVars
  <2> QED BY <2>1 DEF SeamTyped, TypeOK, ServerTypes, SeamTypes, CallTypes, CallSteps
<1> QED BY <1>1, Steps, ProvisionTyped, SendTyped, HearTyped, DeliverTyped, DisturbTyped

\* Every step keeps what is known of outcomes.
LEMMA OutcomeStep ==
  ASSUME SeamTyped, IdsUnique, Verified, WireInv, [Next]_vars, NEW c \in Calls, Outcome(c)
  PROVE  Outcome(c)'
<1>1. CASE UNCHANGED vars
  <2>1. UNCHANGED <<job, log, wire, pc, reply, res>>
    BY <1>1 DEF vars, serverVars, callVars
  <2> QED BY <2>1, SameStored, SameWire, OutcomeKept
<1> QED BY <1>1, Steps, ProvisionOutcome, SendOutcome, HearOutcome, DeliverOutcome, DisturbOutcome

\* The parts of the invariant hold together from the start and through every step.
THEOREM Invariant == Spec => []SeamInv
<1>1. SeamInv /\ [Next]_vars => SeamInv'
  <2> SUFFICES ASSUME SeamInv, [Next]_vars PROVE SeamInv'
    OBVIOUS
  <2>1. SeamTyped /\ IdsUnique /\ Verified /\ WireInv /\ LogInv /\ \A c \in Calls : Outcome(c)
    BY DEF SeamInv, SeamTyped
  <2>2. SeamTyped' /\ IdsUnique' /\ Verified' /\ WireInv' /\ LogInv'
    BY <2>1, TypedStep, IdsStep, VerifiedStep, WireStep, LogStep
  <2>3. \A c \in Calls : Outcome(c)'
    BY <2>1, OutcomeStep
  <2> QED BY <2>2, <2>3 DEF SeamInv, SeamTyped
<1> QED BY <1>1, SeamInit, PTL DEF Spec

\* What the server stores at once is what one call sent, a counter with its own record
\* or one revision (publishBatch, nextBatchID).
THEOREM WholeBatches == Spec => []BatchWhole
<1>1. SeamInv => BatchWhole
  <2> SUFFICES ASSUME SeamInv, NEW n \in 1..Len(log), NEW c, c = log[n].calls[1]
               PROVE  /\ ToSet(log[n].calls) = {c}
                      /\ log[n].subjects = IF job[c].kind = "create" THEN <<Counter, Record(c)>>
                                                                     ELSE <<Record(c)>>
    BY DEF BatchWhole, SeamInv
  <2>1. PICK d \in Calls :
          \/ /\ job[d].kind = "create"
             /\ log[n].calls = <<d, d>> /\ log[n].subjects = <<Counter, Record(d)>>
          \/ /\ job[d].kind = "revise"
             /\ log[n].calls = <<d>> /\ log[n].subjects = <<Record(d)>>
    BY DEF SeamInv, LogInv
  <2>2. d = c /\ ToSet(log[n].calls) = {d}
    BY <2>1 DEF ToSet
  <2> QED BY <2>1, <2>2
<1> QED BY <1>1, Invariant, PTL

\* A seam writes only into a stream it has itself verified (verifyAndCacheStream).
THEOREM NothingAdopted == Spec => []NeverAdopted
<1>1. SeamInv => NeverAdopted
  <2> SUFFICES ASSUME SeamInv, NEW n \in 1..Len(log)
               PROVE  <<SeamOf(log[n].calls[1]), log[n].stream>> \in seen
    BY DEF NeverAdopted
  <2>1. PICK d \in Calls : /\ <<SeamOf(d), log[n].stream>> \in seen
                           /\ log[n].calls = <<d, d>> \/ log[n].calls = <<d>>
    BY DEF SeamInv, LogInv
  <2> QED BY <2>1
<1> QED BY <1>1, Invariant, PTL

\* What the seam says of a write is so and stays so: an acknowledged one is stored, once,
\* and one refused, fenced off or never sent is not (classifyOrderedBatchAck).
THEOREM OutcomesTrue == Spec => []OutcomeTrue
<1>1. SeamInv => OutcomeTrue
  <2> SUFFICES ASSUME SeamInv, NEW c \in Calls
               PROVE  /\ Cardinality(Stored(c)) <= 1
                      /\ res[c] = "ok" /\ job[c].kind # "append" => Stored(c) # {}
                      /\ res[c] \in {"precondition", "rejected", "unsent", "config", "notFound",
                                     "exists"} => Stored(c) = {}
    BY DEF OutcomeTrue
  <2>1. Outcome(c)
    BY DEF SeamInv
  <2>2. Cardinality(Stored(c)) <= 1
    <3>1. CASE Stored(c) = {}
      <4>1. Cardinality({}) = 0
        BY FS_EmptySet
      <4> QED BY <3>1, <4>1
    <3>2. ASSUME NEW n \in Stored(c) PROVE Cardinality(Stored(c)) <= 1
      <4>1. Stored(c) = {n}
        BY <2>1, <3>2 DEF Outcome
      <4>2. Cardinality({n}) = 1
        BY FS_Singleton
      <4> QED BY <4>1, <4>2
    <3> QED BY <3>1, <3>2
  <2> QED BY <2>1, <2>2 DEF Outcome
<1> QED BY <1>1, Invariant, PTL

-----------------------------------------------------------------------------
(* Names kept apart *)

\* A stream is as it was, its call's, or the operator's.
Becomes(st) ==
  \/ st \in DOMAIN streams /\ streams'[st].layout = streams[st].layout
  \/ \E c \in Calls : st = StreamOf(c) /\ streams'[st].layout = LayoutOf(c)
  \/ streams'[st].layout = Foreign /\ st \in ToSet(meddled')

\* Then layouts are again as they should be.
LEMMA LayoutsKept ==
  ASSUME UNCHANGED job, Layouts, ToSet(meddled) \subseteq ToSet(meddled'),
         \A st \in DOMAIN streams' : Becomes(st)
  PROVE  Layouts'
<1>1. \A c : StreamOf(c)' = StreamOf(c) /\ LayoutOf(c)' = LayoutOf(c)
  BY SameNames
<1>2. ASSUME NEW st \in DOMAIN streams'
      PROVE  \/ streams'[st].layout = Foreign /\ st \in ToSet(meddled')
             \/ \E c \in Calls : st = StreamOf(c)' /\ streams'[st].layout = LayoutOf(c)'
  BY <1>1, <1>2 DEF Layouts, Becomes
<1> QED BY <1>2 DEF Layouts, Foreign, ToSet

\* The results of calls stay, but for one of c, which is not refused for its stream
\* unless an operator touched it.
Other == {"ok", "precondition", "rejected", "ambiguous", "error", "notFound", "exists", "unsent"}

Answers(c) ==
  \/ UNCHANGED res
  \/ \E what \in Other : res' = [res EXCEPT ![c] = what]
  \/ res' = [res EXCEPT ![c] = "config"] /\ StreamOf(c) \in ToSet(meddled)

\* Such an answer keeps calls unhindered.
LEMMA AnswersKeep ==
  ASSUME CallTypes, UNCHANGED job, Unhindered, ToSet(meddled) \subseteq ToSet(meddled'),
         NEW c \in Calls, Answers(c)
  PROVE  Unhindered'
<1>1. \A d : StreamOf(d)' = StreamOf(d)
  BY SameNames
<1>2. ASSUME NEW d \in Calls
      PROVE  res'[d] # "overlap" /\ (res'[d] = "config" => StreamOf(d) \in ToSet(meddled'))
  BY <1>2 DEF Answers, Other, Unhindered, CallTypes
<1> QED BY <1>1, <1>2 DEF Unhindered, ToSet

\* A stream that is not there can be created, and one that is there is as the call wants
\* it, or an operator's.
LEMMA Provisionable ==
  ASSUME job \in Jobs, Layouts, NEW c \in Calls
  PROVE  /\ ~Exists(StreamOf(c)) => MayCreate(LayoutOf(c))
         /\ Exists(StreamOf(c)) /\ streams[StreamOf(c)].layout # LayoutOf(c) =>
              StreamOf(c) \in ToSet(meddled)
<1>1. ASSUME ~Exists(StreamOf(c)), NEW o \in DOMAIN streams
      PROVE  ~Overlap(streams[o].layout.subjects, LayoutOf(c).subjects)
  <2>1. CASE streams[o].layout = Foreign
    BY <2>1, StreamsApart
  <2>2. ASSUME NEW d \in Calls, o = StreamOf(d), streams[o].layout = LayoutOf(d)
        PROVE  ~Overlap(streams[o].layout.subjects, LayoutOf(c).subjects)
    <3>1. StreamOf(d) # StreamOf(c)
      BY <1>1, <2>2 DEF Exists
    <3> QED BY <2>2, <3>1, StreamsApart
  <2> QED BY <2>1, <2>2 DEF Layouts
<1>2. ASSUME Exists(StreamOf(c)), streams[StreamOf(c)].layout # LayoutOf(c)
      PROVE  StreamOf(c) \in ToSet(meddled)
  <2>1. ASSUME NEW d \in Calls, StreamOf(c) = StreamOf(d), streams[StreamOf(c)].layout = LayoutOf(d)
        PROVE  FALSE
    BY <1>2, <2>1, StreamsApart
  <2> QED BY <1>2, <2>1 DEF Layouts, Exists
<1> QED BY <1>1, <1>2 DEF MayCreate

\* So provisioning lays the call's stream out, if any, and answers so.
LEMMA ProvisionsApart ==
  ASSUME SeamTyped, Layouts, NEW c \in Calls, Provisions(c)
  PROVE  /\ UNCHANGED streams \/ streams' = Put(streams, StreamOf(c), NewStream(LayoutOf(c)))
         /\ Answers(c)
<1>0. job \in Jobs
  BY DEF SeamTyped, TypeOK
<1>1. CASE Begin(c)
  BY <1>1 DEF Begin, serverVars, Answers, Other
<1>2. CASE Lookup(c)
  <2>1. UNCHANGED res \/ res' = [res EXCEPT ![c] = "notFound"]
    BY <1>2 DEF Lookup, Return
  <2> QED BY <1>2, <2>1 DEF Lookup, serverVars, Answers, Other
<1>3. CASE Make(c)
  <2>1. CASE Exists(StreamOf(c))
    BY <1>3, <2>1 DEF Make, Answers, Other
  <2>2. CASE ~Exists(StreamOf(c))
    BY <1>0, <1>3, <2>2, Provisionable DEF Make, Answers, Other
  <2> QED BY <2>1, <2>2
<1>4. CASE Relookup(c)
  <2>1. UNCHANGED res \/ res' = [res EXCEPT ![c] = "error"]
    BY <1>4 DEF Relookup, Return
  <2> QED BY <1>4, <2>1 DEF Relookup, serverVars, Answers, Other
<1>5. CASE Info(c)
  <2>1. CASE Admitted(c)
    BY <1>5, <2>1 DEF Info, Answers, Other, serverVars
  <2>2. CASE ~Admitted(c)
    <3>1. res' = [res EXCEPT ![c] = IF Exists(StreamOf(c)) THEN "config" ELSE "error"]
      BY <1>5, <2>2 DEF Info, Return
    <3>2. Exists(StreamOf(c)) => StreamOf(c) \in ToSet(meddled)
      BY <1>0, <2>2, Provisionable DEF Admitted
    <3>3. Answers(c)
      <4>1. CASE Exists(StreamOf(c))
        BY <3>1, <3>2, <4>1 DEF Answers
      <4>2. CASE ~Exists(StreamOf(c))
        <5>1. res' = [res EXCEPT ![c] = "error"]
          BY <3>1, <4>2
        <5> QED BY <5>1 DEF Answers, Other
      <4> QED BY <4>1, <4>2
    <3> QED BY <1>5, <3>3 DEF Info, serverVars
  <2> QED BY <2>1, <2>2
<1>6. CASE Read(c)
  <2>1. \/ UNCHANGED res
        \/ \E what \in {"error", "exists", "notFound"} : res' = [res EXCEPT ![c] = what]
    BY <1>6 DEF Read, Return
  <2> QED BY <1>6, <2>1 DEF Read, serverVars, Answers, Other
<1>7. CASE Fails(c)
  <2>1. res' = [res EXCEPT ![c] = "error"]
    BY <1>7 DEF Fails, Return
  <2> QED BY <1>7, <2>1 DEF Fails, serverVars, Answers, Other
<1>8. CASE EnsureLedger(c)
  <2>1. CASE Exists(StreamOf(c))
    BY <1>8, <2>1 DEF EnsureLedger, Return, Answers, Other
  <2>2. CASE ~Exists(StreamOf(c))
    BY <1>0, <1>8, <2>2, Provisionable DEF EnsureLedger, Return, Answers, Other
  <2> QED BY <2>1, <2>2
<1> QED BY <1>1, <1>2, <1>3, <1>4, <1>5, <1>6, <1>7, <1>8 DEF Provisions

\* A message changes no stream's layout.
LEMMA DeliverLayouts ==
  ASSUME NEW s \in Seams, Deliver(s)
  PROVE  \A st \in DOMAIN streams' : st \in DOMAIN streams /\ streams'[st].layout = streams[st].layout
<1>1. ASSUME NEW m, NEW members, Exists(m.stream), Store(m, members)
      PROVE  \A st \in DOMAIN streams' :
               st \in DOMAIN streams /\ streams'[st].layout = streams[st].layout
  <2>1. CASE UNCHANGED streams
    BY <2>1
  <2>2. ASSUME NEW l,
               streams' = Put(streams, m.stream, [layout |-> streams[m.stream].layout, last |-> l])
        PROVE  \A st \in DOMAIN streams' :
                 st \in DOMAIN streams /\ streams'[st].layout = streams[st].layout
    <3>1. PICK e : e = [layout |-> streams[m.stream].layout, last |-> l]
      OBVIOUS
    <3>2. e.layout = streams[m.stream].layout /\ streams' = Put(streams, m.stream, e)
      BY <2>2, <3>1
    <3>3. \A st \in DOMAIN streams' : \/ st = m.stream /\ streams'[st] = e
                                      \/ st \in DOMAIN streams /\ streams'[st] = streams[st]
      <4>1. DOMAIN streams' = DOMAIN streams \cup {m.stream} /\ streams'[m.stream] = e
        BY <3>2 DEF Put
      <4>2. \A st \in DOMAIN streams : st # m.stream => streams'[st] = streams[st]
        BY <3>2 DEF Put
      <4> QED BY <4>1, <4>2
    <3> QED BY <1>1, <3>2, <3>3 DEF Exists
  <2> QED BY <1>1, <2>1, <2>2 DEF Store
<1>2. PICK m : m = Head(wire[s])
  OBVIOUS
<1>3. CASE Exists(m.stream) /\ Take(m)
  <2>1. UNCHANGED streams \/ \E members : Store(m, members)
    BY <1>3 DEF Take, TakeBatch
  <2> QED BY <1>1, <1>3, <2>1
<1>4. CASE UNCHANGED serverVars
  BY <1>4 DEF serverVars
<1> QED BY <1>2, <1>3, <1>4 DEF Deliver

\* Nor do what breaks or is given up, but an operator's step, of a stream he touched.
LEMMA DisturbLayouts ==
  ASSUME SeamTyped, Disturbs
  PROVE  ToSet(meddled) \subseteq ToSet(meddled') /\ \A st \in DOMAIN streams' : Becomes(st)
<1>1. CASE UNCHANGED <<streams, meddled>>
  BY <1>1 DEF Becomes
<1>2. ASSUME NEW st \in Streams, Meddle(st)
      PROVE  ToSet(meddled) \subseteq ToSet(meddled') /\ \A o \in DOMAIN streams' : Becomes(o)
  <2>1. meddled \in Seq(Streams) /\ meddled' = Append(meddled, st)
    BY <1>2 DEF Meddle, SeamTyped, TypeOK, ServerTypes
  <2>2. ToSet(meddled) \subseteq ToSet(meddled') /\ st \in ToSet(meddled')
    <3>1. /\ Len(meddled) \in Nat /\ Len(meddled') = Len(meddled) + 1
          /\ meddled'[Len(meddled) + 1] = st /\ \A i \in 1..Len(meddled) : meddled'[i] = meddled[i]
      BY <2>1, Appended
    <3> QED BY <3>1 DEF ToSet
  <2>3. CASE \E l : streams' = Put(streams, st, [layout |-> Foreign, last |-> l])
    <3>1. PICK e : streams' = Put(streams, st, e) /\ e.layout = Foreign
      BY <2>3
    <3>2. \A o \in DOMAIN streams' : \/ o = st /\ streams'[o] = e
                                     \/ o \in DOMAIN streams /\ streams'[o] = streams[o]
      <4>1. DOMAIN streams' = DOMAIN streams \cup {st} /\ streams'[st] = e
        BY <3>1 DEF Put
      <4>2. \A o \in DOMAIN streams : o # st => streams'[o] = streams[o]
        BY <3>1 DEF Put
      <4> QED BY <4>1, <4>2
    <3> QED BY <2>2, <3>1, <3>2 DEF Becomes
  <2>4. CASE streams' = Drop(streams, st)
    <3>1. \A o \in DOMAIN streams' : o \in DOMAIN streams /\ streams'[o] = streams[o]
      BY <2>4 DEF Drop
    <3> QED BY <2>2, <3>1 DEF Becomes
  <2> QED BY <1>2, <2>3, <2>4 DEF Meddle, NewStream
<1>3. ASSUME NEW s \in Seams, Break(s) PROVE UNCHANGED <<streams, meddled>>
  BY <1>3 DEF Break, serverVars
<1>4. ASSUME NEW k \in DOMAIN staged, Expire(k) PROVE UNCHANGED <<streams, meddled>>
  BY <1>4 DEF Expire
<1>5. ASSUME NEW c \in Calls, Meddle(StreamOf(c)) PROVE \E st \in Streams : Meddle(st)
  BY <1>5 DEF Streams
<1> QED BY <1>1, <1>2, <1>3, <1>4, <1>5 DEF Disturbs

\* What is stored lies in its call's stream.
LEMMA PlacedStep ==
  ASSUME SeamTyped, IdsUnique, Verified, WireInv, Placed, [Next]_vars
  PROVE  Placed'
<1>0. UNCHANGED job
  BY VerifiedStep
<1>1. \A c : StreamOf(c)' = StreamOf(c)
  BY <1>0, SameNames
<1>2. CASE UNCHANGED log
  BY <1>1, <1>2 DEF Placed
<1>3. ASSUME NEW m \in Packets, Stores(m) PROVE Placed'
  <2>1. PICK e : e = Entry(m.call)
    OBVIOUS
  <2>2. m.call \in Calls
    BY DEF Packets
  <2>3. e.stream = StreamOf(m.call) /\ e.calls[1] = m.call
    BY <2>1 DEF Entry
  <2>4. /\ Len(log) \in Nat /\ Len(log') = Len(log) + 1
        /\ log'[Len(log) + 1] = e /\ \A n \in 1..Len(log) : log'[n] = log[n]
    <3>1. job \in Jobs /\ log \in Seq([stream : Streams, calls : Seq(Calls), subjects : Seq(Subjects)])
      BY DEF SeamTyped, TypeOK, ServerTypes
    <3>2. e \in [stream : Streams, calls : Seq(Calls), subjects : Seq(Subjects)]
      BY <2>1, <2>2, <3>1, EntryTyped
    <3>3. log' = Append(log, e)
      BY <1>3, <2>1 DEF Stores
    <3> QED BY <3>1, <3>2, <3>3, Appended
  <2>5. ASSUME NEW n \in 1..Len(log') PROVE log'[n].stream = StreamOf(log'[n].calls[1])
    <3>1. n \in 1..Len(log) \/ n = Len(log) + 1
      BY <2>4
    <3> QED BY <2>3, <2>4, <3>1 DEF Placed
  <2> QED BY <1>1, <2>5 DEF Placed
<1> QED BY <1>2, <1>3, LogMoves

\* Names are apart from the start.
LEMMA ApartInit == Init => ApartInv
<1> SUFFICES ASSUME Init PROVE ApartInv
  OBVIOUS
<1>1. DOMAIN streams = {} /\ 1..Len(log) = {} /\ \A c \in Calls : res[c] = None
  BY DEF Init
<1>2. None # "overlap" /\ None # "config"
  BY DEF Results
<1> QED BY <1>1, <1>2 DEF ApartInv, Layouts, Placed, Unhindered

\* Every step keeps them apart.
LEMMA ApartStep ==
  ASSUME SeamInv, ApartInv, [Next]_vars
  PROVE  ApartInv'
<1>0. /\ SeamTyped /\ IdsUnique /\ Verified /\ WireInv /\ CallTypes
      /\ Layouts /\ Placed /\ Unhindered /\ UNCHANGED job
  <2>1. SeamTyped /\ IdsUnique /\ Verified /\ WireInv /\ CallTypes
    BY DEF SeamInv, SeamTyped, TypeOK
  <2> QED BY <2>1, VerifiedStep DEF ApartInv
<1>1. Placed'
  BY <1>0, PlacedStep
<1>2. ASSUME UNCHANGED streams, UNCHANGED meddled PROVE Layouts'
  <2>1. \A st \in DOMAIN streams' : Becomes(st)
    BY <1>2 DEF Becomes
  <2> QED BY <1>0, <1>2, <2>1, LayoutsKept
<1>3. ASSUME UNCHANGED res, ToSet(meddled) \subseteq ToSet(meddled') PROVE Unhindered'
  <2>1. \A d : StreamOf(d)' = StreamOf(d)
    BY <1>0, SameNames
  <2> QED BY <1>0, <1>3, <2>1 DEF Unhindered, ToSet
<1>4. CASE UNCHANGED vars
  BY <1>1, <1>2, <1>3, <1>4 DEF vars, serverVars, callVars, ApartInv
<1>5. ASSUME NEW c \in Calls, Provisions(c) PROVE ApartInv'
  <2>1. UNCHANGED meddled /\ Answers(c)
    BY <1>0, <1>5, ProvisionMoves, ProvisionsApart
  <2>2. Unhindered'
    BY <1>0, <2>1, AnswersKeep
  <2>3. \A st \in DOMAIN streams' : Becomes(st)
    <3>1. CASE UNCHANGED streams
      BY <3>1 DEF Becomes
    <3>2. CASE streams' = Put(streams, StreamOf(c), NewStream(LayoutOf(c)))
      <4>1. PICK l : l = LayoutOf(c)
        OBVIOUS
      <4>2. PICK e : e = [layout |-> l, last |-> <<>>]
        OBVIOUS
      <4>3. e.layout = l /\ streams' = Put(streams, StreamOf(c), e)
        BY <3>2, <4>1, <4>2 DEF NewStream
      <4>4. \A st \in DOMAIN streams' : \/ st = StreamOf(c) /\ streams'[st] = e
                                        \/ st \in DOMAIN streams /\ streams'[st] = streams[st]
        <5>1. DOMAIN streams' = DOMAIN streams \cup {StreamOf(c)} /\ streams'[StreamOf(c)] = e
          BY <4>3 DEF Put
        <5>2. \A st \in DOMAIN streams : st # StreamOf(c) => streams'[st] = streams[st]
          BY <4>3 DEF Put
        <5> QED BY <5>1, <5>2
      <4> QED BY <4>1, <4>3, <4>4 DEF Becomes
    <3> QED BY <1>0, <1>5, <3>1, <3>2, ProvisionsApart
  <2>4. Layouts'
    BY <1>0, <2>1, <2>3, LayoutsKept
  <2> QED BY <1>1, <2>2, <2>4 DEF ApartInv
<1>6. ASSUME NEW c \in Calls, Sending(c) \/ Hearing(c) PROVE ApartInv'
  <2>1. UNCHANGED <<streams, meddled>>
    BY <1>0, <1>6, SendMoves, HearMoves DEF serverVars
  <2>2. Answers(c)
    <3>1. CASE Sending(c)
      BY <1>0, <3>1, SendMoves DEF Answers, Other
    <3>2. CASE Hearing(c)
      BY <1>0, <3>2, HearMoves DEF Answers, Other
    <3> QED BY <1>6, <3>1, <3>2
  <2>3. Unhindered'
    BY <1>0, <2>1, <2>2, AnswersKeep
  <2> QED BY <1>1, <1>2, <2>1, <2>3 DEF ApartInv
<1>7. ASSUME NEW s \in Seams, Deliver(s) PROVE ApartInv'
  <2>1. UNCHANGED <<meddled, res>>
    BY <1>7, DeliverKeeps
  <2>2. \A st \in DOMAIN streams' : Becomes(st)
    BY <1>7, DeliverLayouts DEF Becomes
  <2>3. Layouts'
    BY <1>0, <2>1, <2>2, LayoutsKept
  <2> QED BY <1>1, <1>3, <2>1, <2>3 DEF ApartInv
<1>8. CASE Disturbs
  <2>1. UNCHANGED res
    BY <1>0, <1>8, DisturbMoves DEF callVars
  <2>2. ToSet(meddled) \subseteq ToSet(meddled') /\ \A st \in DOMAIN streams' : Becomes(st)
    BY <1>0, <1>8, DisturbLayouts
  <2>3. Layouts'
    BY <1>0, <2>2, LayoutsKept
  <2> QED BY <1>1, <1>3, <2>1, <2>2, <2>3 DEF ApartInv
<1> QED BY <1>4, <1>5, <1>6, <1>7, <1>8, Steps

\* Namespaces and ledgers of whatever names are kept apart and do not get into each other's
\* way: no two names are written alike (encodeStream, encodeSubject, orderedStreamName).
THEOREM NamesKeptApart == Spec => []NamesApart
<1>1. SeamInv /\ ApartInv => NamesApart
  <2> SUFFICES ASSUME SeamInv, ApartInv PROVE NamesApart
    OBVIOUS
  <2>1. ASSUME NEW m \in 1..Len(log), NEW n \in 1..Len(log), log[m].stream = log[n].stream
        PROVE  job[log[m].calls[1]].name = job[log[n].calls[1]].name
    <3>1. PICK c \in Calls : c = log[m].calls[1]
      <4>1. PICK c \in Calls : log[m].calls = <<c, c>> \/ log[m].calls = <<c>>
        BY DEF SeamInv, LogInv
      <4>2. log[m].calls[1] = c
        BY <4>1
      <4> QED BY <4>2
    <3>2. PICK d \in Calls : d = log[n].calls[1]
      <4>1. PICK d \in Calls : log[n].calls = <<d, d>> \/ log[n].calls = <<d>>
        BY DEF SeamInv, LogInv
      <4>2. log[n].calls[1] = d
        BY <4>1
      <4> QED BY <4>2
    <3>3. StreamOf(c) = StreamOf(d)
      BY <2>1, <3>1, <3>2 DEF ApartInv, Placed
    <3>4. job \in Jobs
      BY DEF SeamInv, TypeOK
    <3>5. job[c].name = job[d].name
      BY <3>3, <3>4, StreamsApart
    <3> QED BY <3>1, <3>2, <3>5
  <2>2. \A c \in Calls : res[c] \in {"config", "overlap"} => StreamOf(c) \in ToSet(meddled)
    BY DEF ApartInv, Unhindered
  <2> QED BY <2>1, <2>2 DEF NamesApart
<1>2. SeamInv /\ ApartInv /\ [Next]_vars => ApartInv'
  BY ApartStep
<1> QED BY <1>1, <1>2, ApartInit, Invariant, PTL DEF Spec
=============================================================================
