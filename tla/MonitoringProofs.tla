--------------------------- MODULE MonitoringProofs ---------------------------
(***************************************************************************)
(* The statistics of a connector and what the monitoring server reports of *)
(* them, for any request times, any number of bins, messages and requests. *)
(***************************************************************************)
EXTENDS Monitoring, SequenceTheorems, FiniteSetTheorems, WellFoundedInduction, TLAPS

-----------------------------------------------------------------------------
(* Numbers and fractions.                                                  *)

\* A set of numbers has a smallest element; with this, a proof by induction is
\* one about the smallest counterexample.
LEMMA NatMin ==
    ASSUME NEW T \in SUBSET Nat, T # {}
    PROVE  \E x \in T : \A y \in T : x <= y
  <1> DEFINE R == OpToRel(<, Nat)
  <1>1. IsWellFoundedOn(R, Nat)
    BY NatLessThanWellFounded
  <1>2. \A x, y \in Nat : x < y => <<x, y>> \in R
    BY DEF OpToRel
  <1> HIDE DEF R
  <1>3. PICK x \in T : \A y \in T : ~(<<y, x>> \in R)
    BY <1>1, WFMin
  <1>4. ASSUME NEW y \in T PROVE x <= y
    <2>1. x \in Nat /\ y \in Nat
      OBVIOUS
    <2>2. ~(y < x)
      BY <1>2, <1>3, <2>1
    <2>3. QED
      BY <2>1, <2>2
  <1>5. QED
    BY <1>4

\* Fractions a/b, c/d, e/f are compared by cross-multiplication.
LEMMA CrossLeq ==
    ASSUME NEW a \in Int, NEW c \in Int, NEW e \in Int,
           NEW b \in Nat \ {0}, NEW d \in Nat \ {0}, NEW f \in Nat \ {0},
           a * d <= c * b, c * f <= e * d
    PROVE  a * f <= e * b
  <1>1. (a * d) * f <= (c * b) * f
    OBVIOUS
  <1>2. (c * f) * b <= (e * d) * b
    OBVIOUS
  <1>3. (a * f) * d <= (e * b) * d
    BY <1>1, <1>2
  <1>4. QED
    BY <1>3

\* The same for strict comparison.
LEMMA CrossLess ==
    ASSUME NEW a \in Int, NEW c \in Int, NEW e \in Int,
           NEW b \in Nat \ {0}, NEW d \in Nat \ {0}, NEW f \in Nat \ {0},
           a * d < c * b, c * f < e * d
    PROVE  a * f < e * b
  <1>1. (a * d) * f < (c * b) * f
    OBVIOUS
  <1>2. (c * f) * b < (e * d) * b
    OBVIOUS
  <1>3. (a * f) * d < (e * b) * d
    BY <1>1, <1>2
  <1>4. QED
    BY <1>3

\* Of finitely many fractions one is smallest.
LEMMA LeastFraction ==
    ASSUME NEW n \in Nat, n >= 2,
           NEW D \in [2..n -> [num : Int, den : Nat \ {0}]]
    PROVE  \E i \in 2..n : \A j \in 2..n : D[i].num * D[j].den <= D[j].num * D[i].den
  <1> DEFINE Leq(i, j) == D[i].num * D[j].den <= D[j].num * D[i].den
             Has(k) == \E i \in 2..k : \A j \in 2..k : Leq(i, j)
             Bad == {k \in 2..n : ~Has(k)}
  <1>0. \A i \in 2..n : D[i].num \in Int /\ D[i].den \in Nat \ {0}
    OBVIOUS
  <1>1. \A i \in 2..n : Leq(i, i)
    BY <1>0
  <1>2. \A i, j \in 2..n : Leq(i, j) \/ Leq(j, i)
    <2> SUFFICES ASSUME NEW i \in 2..n, NEW j \in 2..n PROVE Leq(i, j) \/ Leq(j, i)
      OBVIOUS
    <2>1. D[i].num * D[j].den \in Int /\ D[j].num * D[i].den \in Int
      BY <1>0
    <2>2. QED
      BY <2>1
  <1>3. \A i, j, k \in 2..n : Leq(i, j) /\ Leq(j, k) => Leq(i, k)
    <2> SUFFICES ASSUME NEW i \in 2..n, NEW j \in 2..n, NEW k \in 2..n, Leq(i, j), Leq(j, k)
                 PROVE  Leq(i, k)
      OBVIOUS
    <2>1. /\ D[i].num \in Int /\ D[j].num \in Int /\ D[k].num \in Int
          /\ D[i].den \in Nat \ {0} /\ D[j].den \in Nat \ {0} /\ D[k].den \in Nat \ {0}
      BY <1>0
    <2> DEFINE a == D[i].num  c == D[j].num  e == D[k].num
               b == D[i].den  d == D[j].den  f == D[k].den
    <2>2. a * d <= c * b /\ c * f <= e * d
      OBVIOUS
    <2>3. SUFFICES a * f <= e * b
      OBVIOUS
    <2> HIDE DEF a, b, c, d, e, f
    <2>4. /\ a \in Int /\ c \in Int /\ e \in Int
          /\ b \in Nat \ {0} /\ d \in Nat \ {0} /\ f \in Nat \ {0}
      BY <2>1 DEF a, b, c, d, e, f
    <2>5. QED
      BY <2>2, <2>4, CrossLeq
  <1> HIDE DEF Leq
  <1>4. SUFFICES ASSUME Bad # {} PROVE FALSE
    <2>1. n \in 2..n
      OBVIOUS
    <2>2. Has(n)
      BY <1>4, <2>1
    <2>3. QED
      BY <2>2 DEF Leq
  <1>5. PICK m \in Bad : \A k \in Bad : m <= k
    <2> HIDE DEF Bad
    <2>1. Bad \in SUBSET Nat
      BY DEF Bad
    <2>2. QED
      BY <1>4, <2>1, NatMin
  <1>6. CASE m = 2
    <2>1. Has(2)
      BY <1>1
    <2>2. QED
      BY <1>5, <1>6, <2>1
  <1>7. CASE m > 2
    <2>1. m - 1 \in 2..n /\ m \in 2..n /\ m - 1 < m
      BY <1>5, <1>7
    <2>2. Has(m - 1)
      <3>1. m - 1 \notin Bad
        <4> HIDE DEF Bad
        <4>1. m \in Int /\ ~(m <= m - 1)
          BY <2>1
        <4>2. QED
          BY <1>5, <4>1
      <3>2. QED
        BY <2>1, <3>1
    <2>3. PICK i \in 2..(m - 1) : \A j \in 2..(m - 1) : Leq(i, j)
      BY <2>2
    <2>4. i \in 2..n /\ i \in 2..m
      BY <2>1
    <2>5. \A j \in 2..m : j \in 2..n /\ (j \in 2..(m - 1) \/ j = m)
      BY <2>1
    <2>6. CASE Leq(i, m)
      <3>1. \A j \in 2..m : Leq(i, j)
        BY <2>3, <2>5, <2>6
      <3>2. QED
        BY <1>5, <2>4, <3>1
    <2>7. CASE Leq(m, i)
      <3>1. \A j \in 2..m : Leq(m, j)
        BY <1>1, <1>3, <2>1, <2>3, <2>4, <2>5, <2>7
      <3>2. m \in 2..m
        BY <2>1
      <3>3. QED
        BY <1>5, <3>1, <3>2
    <2>8. QED
      BY <1>2, <2>1, <2>4, <2>6, <2>7
  <1>8. QED
    BY <1>5, <1>6, <1>7

-----------------------------------------------------------------------------
(* Bins.                                                                   *)

BinType == [sum : Nat, count : Nat \ {0}]

Sorted(s) == \A i, j \in 1..Len(s) : i < j => Less(s[i], s[j])

-----------------------------------------------------------------------------
(* The order of bins.                                                      *)

\* The sum and the count of a bin are numbers, and the bin is not empty.
LEMMA BinFields ==
    ASSUME NEW x \in BinType
    PROVE  x.sum \in Nat /\ x.count \in Nat \ {0}
  BY DEF BinType

\* The order of the values of bins is transitive.
LEMMA LessTransitive ==
    ASSUME NEW x \in BinType, NEW y \in BinType, NEW z \in BinType, Less(x, y), Less(y, z)
    PROVE  Less(x, z)
  <1> DEFINE a == x.sum  c == y.sum  e == z.sum  b == x.count  d == y.count  f == z.count
  <1>1. a * d < c * b /\ c * f < e * d
    BY DEF Less
  <1>2. SUFFICES a * f < e * b
    BY DEF Less
  <1>3. /\ a \in Int /\ c \in Int /\ e \in Int
        /\ b \in Nat \ {0} /\ d \in Nat \ {0} /\ f \in Nat \ {0}
    BY BinFields
  <1> HIDE DEF a, b, c, d, e, f
  <1>4. QED
    BY <1>1, <1>3, CrossLess

\* A bin whose samples are all n lies among the others as n does.
LEMMA LessAt ==
    ASSUME NEW v \in BinType, NEW x \in BinType, NEW n \in Nat, v.sum = n * v.count
    PROVE  /\ x.sum < n * x.count => Less(x, v)
           /\ n * x.count < x.sum => Less(v, x)
           /\ Less(v, x) => n * x.count < x.sum
  <1> DEFINE a == x.sum  b == x.count  d == v.count
  <1>1. a \in Nat /\ b \in Nat /\ d \in Nat /\ d > 0
    BY BinFields
  <1>2. /\ Less(x, v) <=> a * d < (n * d) * b
        /\ Less(v, x) <=> (n * d) * b < a * d
    BY DEF Less
  <1> HIDE DEF a, b, d
  <1>3. (n * d) * b = (n * b) * d
    BY <1>1
  <1> DEFINE p == n * b
  <1>4. p \in Nat
    BY <1>1
  <1> HIDE DEF p
  <1>5. (a < p => a * d < p * d) /\ (p < a => p * d < a * d) /\ (p * d < a * d => p < a)
    BY <1>1, <1>4
  <1>6. (a < p => Less(x, v)) /\ (p < a => Less(v, x)) /\ (Less(v, x) => p < a)
    BY <1>2, <1>3, <1>5 DEF p
  <1>7. QED
    BY <1>6 DEF a, b, p

\* Two bins merged lie where both lay.
LEMMA LessMerged ==
    ASSUME NEW x \in BinType, NEW y \in BinType, NEW z \in BinType
    PROVE  /\ Merged(y, z) \in BinType
           /\ Less(x, y) /\ Less(x, z) => Less(x, Merged(y, z))
           /\ Less(y, x) /\ Less(z, x) => Less(Merged(y, z), x)
  <1> DEFINE a == x.sum  b == x.count  c == y.sum  d == y.count  e == z.sum  f == z.count
  <1>1. a \in Nat /\ b \in Nat /\ c \in Nat /\ d \in Nat \ {0} /\ e \in Nat /\ f \in Nat \ {0}
    BY BinFields
  <1>2. Merged(y, z) = [sum |-> c + e, count |-> d + f]
    BY DEF Merged
  <1>3. /\ Less(x, y) <=> a * d < c * b
        /\ Less(x, z) <=> a * f < e * b
        /\ Less(y, x) <=> c * b < a * d
        /\ Less(z, x) <=> e * b < a * f
        /\ Less(x, Merged(y, z)) <=> a * (d + f) < (c + e) * b
        /\ Less(Merged(y, z), x) <=> (c + e) * b < a * (d + f)
    BY <1>2 DEF Less
  <1> HIDE DEF a, b, c, d, e, f
  <1>4. a * (d + f) = a * d + a * f /\ (c + e) * b = c * b + e * b
    BY <1>1
  <1>5. a * d \in Nat /\ a * f \in Nat /\ c * b \in Nat /\ e * b \in Nat
    BY <1>1
  <1>6. Merged(y, z) \in BinType
    BY <1>1, <1>2 DEF BinType
  <1>7. QED
    BY <1>3, <1>4, <1>5, <1>6

-----------------------------------------------------------------------------
(* A sequence with a part replaced by one element.                         *)

Splice(s, p, e, q) == SubSeq(s, 1, p) \o <<e>> \o SubSeq(s, q, Len(s))

\* The elements of a splice: those before p, the new one, those from q on.
LEMMA SpliceElements ==
    ASSUME NEW S, NEW s \in Seq(S), NEW e \in S,
           NEW p \in 0..Len(s), NEW q \in 1..(Len(s) + 1)
    PROVE  /\ Splice(s, p, e, q) \in Seq(S)
           /\ Len(Splice(s, p, e, q)) = p + 2 + Len(s) - q
           /\ \A k \in 1..p : Splice(s, p, e, q)[k] = s[k]
           /\ Splice(s, p, e, q)[p + 1] = e
           /\ \A k \in (p + 2)..(p + 2 + Len(s) - q) :
                 Splice(s, p, e, q)[k] = s[k - p - 2 + q]
  <1> DEFINE l == SubSeq(s, 1, p)
             m == l \o <<e>>
             r == SubSeq(s, q, Len(s))
             n == Len(s)
  <1>1. n \in Nat /\ \A k \in 1..n : s[k] \in S
    OBVIOUS
  <1>2. l \in Seq(S) /\ Len(l) = p /\ \A k \in 1..p : l[k] = s[k]
    <2>1. \A k \in 1..p : s[k] \in S
      BY <1>1
    <2>2. l \in Seq(S) /\ Len(l) = IF 1 <= p THEN p - 1 + 1 ELSE 0
      BY <1>1, <2>1, SubSeqProperties
    <2>3. \A k \in 1..(p - 1 + 1) : l[k] = s[1 + k - 1]
      BY <1>1, <2>1, SubSeqProperties
    <2>4. QED
      BY <1>1, <2>2, <2>3
  <1>3. /\ r \in Seq(S) /\ Len(r) = n - q + 1
        /\ \A k \in 1..(n - q + 1) : r[k] = s[q + k - 1]
    <2>1. \A k \in q..n : s[k] \in S
      BY <1>1
    <2>2. r \in Seq(S) /\ Len(r) = IF q <= n THEN n - q + 1 ELSE 0
      BY <1>1, <2>1, SubSeqProperties
    <2>3. \A k \in 1..(n - q + 1) : r[k] = s[q + k - 1]
      BY <1>1, <2>1, SubSeqProperties
    <2>4. QED
      BY <1>1, <2>2, <2>3
  <1> HIDE DEF l, r, n
  <1>4. /\ m \in Seq(S) /\ Len(m) = p + 1 /\ m[p + 1] = e
        /\ \A k \in 1..p : m[k] = s[k]
    <2>1. <<e>> \in Seq(S) /\ Len(<<e>>) = 1 /\ <<e>>[1] = e
      OBVIOUS
    <2>2. m \in Seq(S) /\ Len(m) = p + 1
      BY <1>2, <2>1, ConcatProperties
    <2>3. \A k \in 1..(p + 1) : m[k] = IF k <= p THEN l[k] ELSE <<e>>[k - p]
      BY <1>2, <2>1, ConcatProperties
    <2>4. p \in Nat
      BY <1>1 DEF n
    <2>5. m[p + 1] = e
      <3>1. p + 1 \in 1..(p + 1) /\ ~(p + 1 <= p) /\ (p + 1) - p = 1
        BY <2>4
      <3>2. m[p + 1] = <<e>>[(p + 1) - p]
        BY <2>3, <3>1
      <3>3. QED
        BY <2>1, <3>1, <3>2
    <2>6. \A k \in 1..p : m[k] = s[k]
      BY <1>2, <2>3, <2>4
    <2>7. QED
      BY <2>2, <2>5, <2>6
  <1> HIDE DEF m
  <1>5. Splice(s, p, e, q) = m \o r
    BY DEF Splice, m, l, r
  <1>6. /\ m \o r \in Seq(S) /\ Len(m \o r) = p + 1 + (n - q + 1)
        /\ \A k \in 1..(p + 1 + (n - q + 1)) :
              (m \o r)[k] = IF k <= p + 1 THEN m[k] ELSE r[k - (p + 1)]
    <2>1. m \o r \in Seq(S) /\ Len(m \o r) = Len(m) + Len(r)
      BY <1>3, <1>4, ConcatProperties
    <2>2. \A k \in 1..(Len(m) + Len(r)) :
              (m \o r)[k] = IF k <= Len(m) THEN m[k] ELSE r[k - Len(m)]
      BY <1>3, <1>4, ConcatProperties
    <2>3. Len(m) = p + 1 /\ Len(r) = n - q + 1
      BY <1>3, <1>4
    <2>4. Len(m) + Len(r) = p + 1 + (n - q + 1)
      BY <2>3
    <2>5. \A k \in 1..(p + 1 + (n - q + 1)) :
              (m \o r)[k] = IF k <= p + 1 THEN m[k] ELSE r[k - (p + 1)]
      BY Zenon, <2>2, <2>3
    <2>6. QED
      BY <2>1, <2>4, <2>5
  <1>7. p \in Nat /\ q \in Nat /\ q <= n + 1 /\ 1 <= q
    BY <1>1 DEF n
  <1>8. p + 1 + (n - q + 1) = p + 2 + n - q
    BY <1>1, <1>7
  <1>9. \A k \in 1..p : (m \o r)[k] = s[k]
    BY <1>1, <1>4, <1>6, <1>7
  <1>10. (m \o r)[p + 1] = e
    BY <1>1, <1>4, <1>6, <1>7
  <1>11. ASSUME NEW k \in (p + 2)..(p + 2 + n - q)
         PROVE  (m \o r)[k] = s[k - p - 2 + q]
    <2>1. k \in 1..(p + 1 + (n - q + 1)) /\ ~(k <= p + 1)
      BY <1>1, <1>7
    <2>2. (m \o r)[k] = r[k - (p + 1)]
      BY <1>6, <2>1
    <2>3. k - (p + 1) \in 1..(n - q + 1) /\ q + (k - (p + 1)) - 1 = k - p - 2 + q
      BY <1>1, <1>7
    <2>4. QED
      BY <1>3, <2>2, <2>3
  <1>12. QED
    BY <1>5, <1>6, <1>8, <1>9, <1>10, <1>11 DEF n

\* It stays sorted if the element fits in.
LEMMA SpliceSorted ==
    ASSUME NEW s \in Seq(BinType), NEW e \in BinType, Sorted(s),
           NEW p \in 0..Len(s), NEW q \in 1..(Len(s) + 1), p < q,
           \A k \in 1..p : Less(s[k], e),
           \A k \in q..Len(s) : Less(e, s[k])
    PROVE  Sorted(Splice(s, p, e, q))
  <1> DEFINE t == Splice(s, p, e, q)
             n == Len(s)
             w == p + 2 + n - q
             back(k) == k - p - 2 + q
  <1>1. /\ Len(t) = w
        /\ \A k \in 1..p : t[k] = s[k]
        /\ t[p + 1] = e
        /\ \A k \in (p + 2)..w : t[k] = s[back(k)]
    <2>1. /\ Len(t) = p + 2 + Len(s) - q
          /\ \A k \in 1..p : t[k] = s[k]
          /\ t[p + 1] = e
          /\ \A k \in (p + 2)..(p + 2 + Len(s) - q) : t[k] = s[k - p - 2 + q]
      <3>1. Len(t) = p + 2 + Len(s) - q
        BY SpliceElements
      <3>2. \A k \in 1..p : t[k] = s[k]
        BY SpliceElements
      <3>3. t[p + 1] = e
        BY SpliceElements
      <3>4. \A k \in (p + 2)..(p + 2 + Len(s) - q) : t[k] = s[k - p - 2 + q]
        BY SpliceElements
      <3>5. QED
        BY <3>1, <3>2, <3>3, <3>4
    <2>2. QED
      BY <2>1
  <1>2. n \in Nat /\ p \in Nat /\ q \in Nat /\ p <= n /\ 1 <= q /\ q <= n + 1
    OBVIOUS
  <1>3. \A k \in (p + 2)..w : back(k) \in q..n /\ back(k) \in 1..n /\ p < back(k)
    BY <1>2
  <1>4. \A j, k \in (p + 2)..w : j < k => back(j) < back(k)
    BY <1>2
  <1>5. \A k \in 1..w : k \in 1..p \/ k = p + 1 \/ k \in (p + 2)..w
    BY <1>2
  <1>6. \A k \in 1..p : k \in 1..n
    BY <1>2
  <1> SUFFICES ASSUME NEW i \in 1..Len(t), NEW j \in 1..Len(t), i < j
               PROVE  Less(t[i], t[j])
    BY DEF Sorted
  <1> HIDE DEF t, back
  <1>7. CASE i \in 1..p
    <2>1. t[i] = s[i] /\ i \in 1..n
      BY <1>1, <1>6, <1>7
    <2>2. CASE j \in 1..p
      BY <1>1, <1>6, <2>1, <2>2 DEF Sorted
    <2>3. CASE j = p + 1
      BY <1>1, <1>7, <2>1, <2>3
    <2>4. CASE j \in (p + 2)..w
      <3>1. t[j] = s[back(j)] /\ back(j) \in 1..n /\ i < back(j)
        BY <1>1, <1>2, <1>3, <1>7, <2>4
      <3>2. QED
        BY <2>1, <3>1 DEF Sorted
    <2>5. QED
      BY <1>1, <1>5, <2>2, <2>3, <2>4
  <1>8. CASE i = p + 1
    <2>1. j \in (p + 2)..w
      BY <1>1, <1>2, <1>8
    <2>2. QED
      BY <1>1, <1>3, <1>8, <2>1
  <1>9. CASE i \in (p + 2)..w
    <2>1. j \in (p + 2)..w
      BY <1>1, <1>2, <1>9
    <2>2. QED
      BY <1>1, <1>3, <1>4, <1>9, <2>1 DEF Sorted
  <1>10. QED
    BY <1>1, <1>5, <1>7, <1>8, <1>9

-----------------------------------------------------------------------------
(* Add keeps the bins in order.                                            *)

\* The position Add's loop stops at.
Place(s, n) == SelectInSeq(s, LAMBDA b : b.sum >= n * b.count)

\* Place is the first bin that is not below the time, or 0 if all are.
LEMMA PlaceIsFirst ==
    ASSUME NEW s \in Seq(BinType), NEW n \in Nat
    PROVE  \/ /\ Place(s, n) = 0
              /\ \A k \in 1..Len(s) : s[k].sum < n * s[k].count
           \/ /\ Place(s, n) \in 1..Len(s)
              /\ s[Place(s, n)].sum >= n * s[Place(s, n)].count
              /\ \A k \in 1..(Place(s, n) - 1) : s[k].sum < n * s[k].count
  <1> DEFINE I == {k \in 1..Len(s) : s[k].sum >= n * s[k].count}
  <1>1. Place(s, n) = IF I # {} THEN Min(I) ELSE 0
    BY DEF Place, SelectInSeq
  <1>2. \A k \in 1..Len(s) : s[k].sum \in Nat /\ n * s[k].count \in Nat
    <2>1. \A k \in 1..Len(s) : s[k] \in BinType
      OBVIOUS
    <2>2. \A k \in 1..Len(s) : s[k].sum \in Nat /\ s[k].count \in Nat
      BY <2>1, BinFields
    <2>3. QED
      BY <2>2
  <1>3. \A k \in 1..Len(s) : k \notin I => s[k].sum < n * s[k].count
    BY <1>2
  <1>4. CASE I = {}
    BY <1>1, <1>3, <1>4
  <1>5. CASE I # {}
    <2>1. I \in SUBSET Nat
      OBVIOUS
    <2>2. \A k \in I : k \in 1..Len(s) /\ s[k].sum >= n * s[k].count
      OBVIOUS
    <2> HIDE DEF I
    <2>3. \E x \in I : \A y \in I : x <= y
      BY <1>5, <2>1, NatMin
    <2>4. Min(I) \in I /\ \A y \in I : Min(I) <= y
      BY <2>3 DEF Min
    <2> DEFINE i == Place(s, n)
    <2>5. i \in I /\ \A y \in I : i <= y
      BY <1>1, <1>5, <2>4
    <2> HIDE DEF i
    <2>6. i \in 1..Len(s) /\ s[i].sum >= n * s[i].count
      BY <2>2, <2>5
    <2>7. ASSUME NEW k \in 1..(i - 1) PROVE s[k].sum < n * s[k].count
      <3>1. k \in 1..Len(s) /\ ~(i <= k)
        BY <2>6
      <3>2. QED
        BY <1>3, <2>5, <3>1
    <2>8. QED
      BY <2>6, <2>7 DEF i
  <1>6. QED
    BY <1>4, <1>5

\* A bin of n fits between the bins that are less and those that are more.
LEMMA InsertSorted ==
    ASSUME NEW s \in Seq(BinType), Sorted(s), NEW n \in Nat
    PROVE  Insert(s, n) \in Seq(BinType) /\ Sorted(Insert(s, n))
  <1> DEFINE i == Place(s, n)
             v == [sum |-> s[i].sum + n, count |-> s[i].count + 1]
  <1>1. \A k \in 1..Len(s) : s[k] \in BinType
    OBVIOUS
  <1>2. Bin(n) \in BinType /\ Bin(n).sum = n * Bin(n).count
    BY DEF Bin, BinType
  <1>3. \A k \in 1..Len(s) : s[k].sum < n * s[k].count => Less(s[k], Bin(n))
    BY <1>1, <1>2, LessAt
  <1>4. Insert(s, n) = IF i = 0 THEN Append(s, Bin(n))
                       ELSE IF s[i].sum = n * s[i].count
                            THEN [s EXCEPT ![i] = v]
                            ELSE Splice(s, i - 1, Bin(n), i)
    BY DEF Insert, Place, Splice, InsertAt, ReplaceAt
  <1>5. \/ i = 0 /\ \A k \in 1..Len(s) : s[k].sum < n * s[k].count
        \/ /\ i \in 1..Len(s) /\ s[i].sum >= n * s[i].count
           /\ \A k \in 1..(i - 1) : s[k].sum < n * s[k].count
    BY PlaceIsFirst
  <1>6. Len(s) \in Nat
    OBVIOUS
  <1> HIDE DEF i
  <1>7. CASE i = 0
    <2> DEFINE t == Append(s, Bin(n))
    <2>1. Insert(s, n) = t
      BY <1>4, <1>7
    <2>2. t \in Seq(BinType) /\ Len(t) = Len(s) + 1
      BY <1>2
    <2>3. \A k \in 1..Len(s) : t[k] = s[k] /\ Less(t[k], Bin(n))
      <3>1. \A k \in 1..Len(s) : s[k].sum < n * s[k].count
        BY <1>5, <1>7
      <3>2. \A k \in 1..Len(s) : t[k] = s[k]
        BY <1>2
      <3>3. QED
        BY <1>3, <3>1, <3>2
    <2>4. t[Len(s) + 1] = Bin(n)
      BY <1>2
    <2> HIDE DEF t
    <2>5. ASSUME NEW j \in 1..Len(t), NEW k \in 1..Len(t), j < k
          PROVE  Less(t[j], t[k])
      <3>1. j \in 1..Len(s) /\ (k \in 1..Len(s) \/ k = Len(s) + 1)
        BY <1>6, <2>2, <2>5
      <3>2. CASE k = Len(s) + 1
        BY <2>3, <2>4, <3>1, <3>2
      <3>3. CASE k \in 1..Len(s)
        BY <2>3, <2>5, <3>1, <3>3 DEF Sorted
      <3>4. QED
        BY <3>1, <3>2, <3>3
    <2>6. QED
      BY <2>1, <2>2, <2>5 DEF Sorted
  <1>8. CASE i \in 1..Len(s) /\ s[i].sum = n * s[i].count
    <2> DEFINE t == [s EXCEPT ![i] = v]
    <2>1. i # 0
      BY <1>6, <1>8
    <2>2. Insert(s, n) = t
      BY <1>4, <1>8, <2>1
    <2>3. v \in BinType /\ v.sum = n * v.count
      <3> DEFINE c == s[i].count
      <3>1. c \in Nat \ {0} /\ s[i].sum \in Nat
        BY <1>1, <1>8, BinFields
      <3>2. v.sum = s[i].sum + n /\ v.count = c + 1 /\ s[i].sum = n * c
        BY <1>8
      <3> HIDE DEF c
      <3>3. n * (c + 1) = n * c + n
        BY <3>1
      <3>4. v \in BinType
        <4>1. s[i].sum + n \in Nat /\ s[i].count + 1 \in Nat \ {0}
          BY <3>1 DEF c
        <4>2. QED
          BY <4>1 DEF BinType
      <3>5. QED
        BY <3>2, <3>3, <3>4
    <2> HIDE DEF v
    <2>4. t \in Seq(BinType) /\ Len(t) = Len(s)
      BY <1>8, <2>3
    <2>5. t[i] = v /\ \A k \in 1..Len(s) : k # i => t[k] = s[k]
      BY <1>8, <2>3
    <2> HIDE DEF t
    <2>6. \A k \in 1..(i - 1) : Less(s[k], v)
      <3>1. \A k \in 1..(i - 1) : k \in 1..Len(s) /\ s[k].sum < n * s[k].count
        BY <1>5, <1>6, <1>8, <2>1
      <3>2. QED
        BY <1>1, <2>3, <3>1, LessAt
    <2>7. ASSUME NEW k \in (i + 1)..Len(s) PROVE Less(v, s[k])
      <3>1. k \in 1..Len(s) /\ i < k
        BY <1>6, <1>8
      <3>2. Less(s[i], s[k])
        BY <1>8, <3>1 DEF Sorted
      <3>3. s[i] \in BinType /\ s[k] \in BinType
        BY <1>1, <1>8, <3>1
      <3>4. n * s[k].count < s[k].sum
        BY <1>8, <3>2, <3>3, LessAt
      <3>5. QED
        BY <2>3, <3>3, <3>4, LessAt
    <2>8. ASSUME NEW j \in 1..Len(t), NEW k \in 1..Len(t), j < k
          PROVE  Less(t[j], t[k])
      <3>1. j \in 1..Len(s) /\ k \in 1..Len(s)
        BY <2>4
      <3>2. CASE k = i
        <4>1. j \in 1..(i - 1) /\ j # i
          BY <1>6, <1>8, <2>8, <3>1, <3>2
        <4>2. QED
          BY <2>5, <2>6, <3>1, <3>2, <4>1
      <3>3. CASE j = i
        <4>1. k \in (i + 1)..Len(s) /\ k # i
          BY <1>6, <1>8, <2>8, <3>1, <3>3
        <4>2. QED
          BY <2>5, <2>7, <3>1, <3>3, <4>1
      <3>4. CASE j # i /\ k # i
        BY <2>5, <2>8, <3>1, <3>4 DEF Sorted
      <3>5. QED
        BY <3>2, <3>3, <3>4
    <2>9. QED
      BY <2>2, <2>4, <2>8 DEF Sorted
  <1>9. CASE i \in 1..Len(s) /\ s[i].sum # n * s[i].count
    <2>1. i # 0 /\ i - 1 \in 0..Len(s) /\ i \in 1..(Len(s) + 1) /\ i - 1 < i
      BY <1>6, <1>9
    <2>2. Insert(s, n) = Splice(s, i - 1, Bin(n), i)
      BY <1>4, <1>9, <2>1
    <2>3. \A k \in 1..(i - 1) : Less(s[k], Bin(n))
      <3>1. \A k \in 1..(i - 1) : k \in 1..Len(s) /\ s[k].sum < n * s[k].count
        BY <1>5, <1>6, <1>9, <2>1
      <3>2. QED
        BY <1>3, <3>1
    <2>4. Less(Bin(n), s[i])
      <3>1. s[i] \in BinType
        BY <1>1, <1>9
      <3>2. s[i].sum \in Nat /\ s[i].count \in Nat
        BY <3>1, BinFields
      <3>3. s[i].sum >= n * s[i].count
        BY <1>5, <2>1
      <3>4. n * s[i].count < s[i].sum
        BY <1>9, <3>2, <3>3
      <3>5. QED
        BY <1>2, <3>1, <3>4, LessAt
    <2>5. ASSUME NEW k \in i..Len(s) PROVE Less(Bin(n), s[k])
      <3>1. k \in 1..Len(s) /\ (k = i \/ i < k)
        BY <1>6, <1>9
      <3>2. CASE i < k
        <4>1. Less(s[i], s[k])
          BY <1>9, <3>1, <3>2 DEF Sorted
        <4>2. QED
          BY <1>1, <1>2, <1>9, <2>4, <3>1, <4>1, LessTransitive
      <3>3. QED
        BY <2>4, <3>1, <3>2
    <2>6. Splice(s, i - 1, Bin(n), i) \in Seq(BinType)
      BY <1>2, <2>1, SpliceElements
    <2>7. Sorted(Splice(s, i - 1, Bin(n), i))
      BY <1>2, <2>1, <2>3, <2>5, SpliceSorted
    <2>8. QED
      BY <2>2, <2>6, <2>7
  <1>10. QED
    BY <1>5, <1>7, <1>8, <1>9

-----------------------------------------------------------------------------
(* So does trim.                                                           *)

\* There is a closest pair of bins.
LEMMA ClosestInRange ==
    ASSUME NEW s \in Seq(BinType), Len(s) >= 2
    PROVE  Closest(s) \in 2..Len(s)
  <1> DEFINE n == Len(s)
             D == [i \in 2..n |-> Delta(s, i)]
             Leq(i, j) == D[i].num * D[j].den <= D[j].num * D[i].den
  <1>1. n \in Nat
    OBVIOUS
  <1>2. \A i \in 2..n : Delta(s, i) \in [num : Int, den : Nat \ {0}]
    <2> SUFFICES ASSUME NEW i \in 2..n PROVE Delta(s, i) \in [num : Int, den : Nat \ {0}]
      OBVIOUS
    <2>1. i \in 1..n /\ i - 1 \in 1..n
      BY <1>1
    <2>2. s[i] \in BinType /\ s[i-1] \in BinType
      BY <2>1
    <2> DEFINE a == s[i].sum  b == s[i].count  c == s[i-1].sum  d == s[i-1].count
    <2>3. a \in Nat /\ b \in Nat \ {0} /\ c \in Nat /\ d \in Nat \ {0}
      BY <2>2, BinFields
    <2>4. Delta(s, i) = [num |-> a * d - c * b, den |-> b * d]
      BY DEF Delta
    <2> HIDE DEF a, b, c, d
    <2>5. a * d - c * b \in Int /\ b * d \in Nat \ {0}
      BY <2>3
    <2>6. QED
      BY <2>4, <2>5
  <1>3. D \in [2..n -> [num : Int, den : Nat \ {0}]]
    BY <1>2
  <1>4. \E i \in 2..n : \A j \in 2..n : Leq(i, j)
    <2>1. n >= 2
      OBVIOUS
    <2> HIDE DEF n, D
    <2>2. QED
      BY <1>1, <1>3, <2>1, LeastFraction
  <1> DEFINE Near(i, j) == Delta(s, i).num * Delta(s, j).den
                              <= Delta(s, j).num * Delta(s, i).den
             T == {i \in 2..n : \A j \in 2..n : Near(i, j)}
  <1>5. T # {}
    <2>1. \A i \in 2..n : D[i] = Delta(s, i)
      OBVIOUS
    <2> HIDE DEF D, n
    <2>2. QED
      BY <1>4, <2>1
  <1>6. PICK i \in T : \A j \in T : i <= j
    <2> HIDE DEF T
    <2>1. T \in SUBSET Nat
      BY <1>1 DEF T
    <2>2. QED
      BY <1>5, <2>1, NatMin
  <1>7. i \in 2..n /\ \A j \in 2..n : Near(i, j)
    BY <1>6
  <1>8. ASSUME NEW j \in 2..(i - 1), Near(j, i) PROVE FALSE
    <2>1. j \in 2..n /\ ~(i <= j)
      BY <1>1, <1>7
    <2>2. ASSUME NEW k \in 2..n PROVE Near(j, k)
      <3> DEFINE a == Delta(s, j).num  c == Delta(s, i).num  e == Delta(s, k).num
                 b == Delta(s, j).den  d == Delta(s, i).den  f == Delta(s, k).den
      <3>1. a * d <= c * b /\ c * f <= e * d
        BY <1>7, <1>8
      <3>2. /\ a \in Int /\ c \in Int /\ e \in Int
            /\ b \in Nat \ {0} /\ d \in Nat \ {0} /\ f \in Nat \ {0}
        BY <1>2, <1>7, <2>1
      <3>3. SUFFICES a * f <= e * b
        OBVIOUS
      <3> HIDE DEF a, b, c, d, e, f
      <3>4. QED
        BY <3>1, <3>2, CrossLeq
    <2>3. j \in T
      BY <2>1, <2>2
    <2>4. QED
      BY <1>6, <2>1, <2>3
  <1>9. /\ \A j \in 2..n : Near(i, j)
        /\ \A j \in 2..(i - 1) : ~Near(j, i)
    BY <1>7, <1>8
  <1>10. Closest(s) = CHOOSE k \in 2..Len(s) :
                          /\ \A j \in 2..Len(s) : Near(k, j)
                          /\ \A j \in 2..(k - 1) : ~Near(j, k)
    BY Zenon DEF Closest
  <1> HIDE DEF Near, T
  <1>11. QED
    BY <1>7, <1>9, <1>10

\* A turn of trim merges two neighbours, and what was less than the one or more
\* than the other still is.
LEMMA MergeSorted ==
    ASSUME NEW s \in Seq(BinType), Sorted(s), Len(s) >= 2
    PROVE  /\ MergeClosest(s) \in Seq(BinType)
           /\ Sorted(MergeClosest(s))
           /\ Len(MergeClosest(s)) = Len(s) - 1
  <1> DEFINE i == Closest(s)
             e == Merged(s[i-1], s[i])
             t == Splice(s, i - 2, e, i + 1)
             n == Len(s)
  <1>1. i \in 2..n /\ n \in Nat
    BY ClosestInRange
  <1>2. MergeClosest(s) = t
    BY DEF MergeClosest, Splice
  <1> HIDE DEF i
  <1>3. /\ i - 2 \in 0..Len(s) /\ i + 1 \in 1..(Len(s) + 1) /\ i - 2 < i + 1
        /\ i \in 1..n /\ i - 1 \in 1..n
    BY <1>1
  <1>4. s[i-1] \in BinType /\ s[i] \in BinType /\ \A k \in 1..n : s[k] \in BinType
    BY <1>3
  <1>5. e \in BinType
    BY <1>4, LessMerged
  <1>6. ASSUME NEW k \in 1..(i - 2) PROVE Less(s[k], e)
    <2>1. k \in 1..n /\ k < i - 1 /\ k < i
      BY <1>1
    <2>2. Less(s[k], s[i-1]) /\ Less(s[k], s[i])
      BY <1>3, <2>1 DEF Sorted
    <2>3. QED
      BY <1>4, <2>1, <2>2, LessMerged
  <1>7. ASSUME NEW k \in (i + 1)..Len(s) PROVE Less(e, s[k])
    <2>1. k \in 1..n /\ i - 1 < k /\ i < k
      BY <1>1
    <2>2. Less(s[i-1], s[k]) /\ Less(s[i], s[k])
      BY <1>3, <2>1 DEF Sorted
    <2>3. QED
      BY <1>4, <2>1, <2>2, LessMerged
  <1> HIDE DEF e
  <1>8. t \in Seq(BinType) /\ Len(t) = (i - 2) + 2 + Len(s) - (i + 1)
    <2>1. t \in Seq(BinType)
      BY <1>3, <1>5, SpliceElements
    <2>2. Len(t) = (i - 2) + 2 + Len(s) - (i + 1)
      <3> DEFINE p == i - 2  q == i + 1
      <3>1. p \in 0..Len(s) /\ q \in 1..(Len(s) + 1)
        BY <1>3
      <3> HIDE DEF p, q
      <3>2. Len(Splice(s, p, e, q)) = p + 2 + Len(s) - q
        BY <1>5, <3>1, SpliceElements
      <3>3. QED
        BY <3>2 DEF p, q
    <2>3. QED
      BY <2>1, <2>2
  <1>9. Sorted(t)
    BY <1>3, <1>5, <1>6, <1>7, SpliceSorted
  <1>10. (i - 2) + 2 + Len(s) - (i + 1) = Len(s) - 1
    BY <1>1
  <1>11. QED
    BY <1>2, <1>8, <1>9, <1>10

-----------------------------------------------------------------------------
(* Sums.                                                                   *)

\* What does not change from step to step stays what it was.
LEMMA Constant ==
    ASSUME NEW lo \in Nat, NEW hi \in Nat, NEW h,
           \A k \in (lo + 1)..hi : h[k] = h[k-1]
    PROVE  \A k \in lo..hi : h[k] = h[lo]
  <1> DEFINE Bad == {k \in lo..hi : h[k] # h[lo]}
  <1>1. SUFFICES ASSUME Bad # {} PROVE FALSE
    BY <1>1
  <1>2. PICK m \in Bad : \A k \in Bad : m <= k
    <2> HIDE DEF Bad
    <2>1. Bad \in SUBSET Nat
      BY DEF Bad
    <2>2. QED
      BY <1>1, <2>1, NatMin
  <1>3. m \in lo..hi /\ h[m] # h[lo]
    BY <1>2
  <1>4. m # lo
    BY <1>3
  <1>5. m \in (lo + 1)..hi /\ m - 1 \in lo..hi /\ ~(m <= m - 1)
    BY <1>3, <1>4
  <1>6. h[m] = h[m-1]
    BY <1>5
  <1>7. m - 1 \in Bad
    BY <1>3, <1>5, <1>6
  <1> HIDE DEF Bad
  <1>8. QED
    BY <1>2, <1>5, <1>7

\* Sums is the function its recursion describes.
LEMMA SumsFacts ==
    ASSUME NEW n \in Nat, NEW a \in [1..n -> Nat]
    PROVE  /\ Sums(a, n) \in [0..n -> Nat]
           /\ Sums(a, n)[0] = 0
           /\ \A k \in 1..n : Sums(a, n)[k] = Sums(a, n)[k-1] + a[k]
  <1> DEFINE Has(m) == \E f \in [0..m -> Nat] :
                          f[0] = 0 /\ \A k \in 1..m : f[k] = f[k-1] + a[k]
             Bad == {m \in 0..n : ~Has(m)}
  <1>1. Has(n)
    <2>1. SUFFICES ASSUME Bad # {} PROVE FALSE
      <3>1. n \in 0..n
        OBVIOUS
      <3>2. QED
        BY <2>1, <3>1
    <2>2. PICK m \in Bad : \A k \in Bad : m <= k
      <3> HIDE DEF Bad
      <3>1. Bad \in SUBSET Nat
        BY DEF Bad
      <3>2. QED
        BY <2>1, <3>1, NatMin
    <2>3. m \in 0..n /\ ~Has(m)
      BY <2>2
    <2>4. CASE m = 0
      <3> DEFINE f == [k \in 0..0 |-> 0]
      <3>1. f \in [0..0 -> Nat] /\ f[0] = 0 /\ \A k \in 1..0 : f[k] = f[k-1] + a[k]
        OBVIOUS
      <3>2. Has(0)
        BY <3>1
      <3>3. QED
        BY <2>3, <2>4, <3>2
    <2>5. CASE m # 0
      <3>1. m - 1 \in 0..n /\ m \in 1..n /\ ~(m <= m - 1)
        BY <2>3, <2>5
      <3>2. Has(m - 1)
        <4>1. m - 1 \notin Bad
          <5> HIDE DEF Bad
          <5>1. QED
            BY <2>2, <3>1
        <4>2. QED
          BY <3>1, <4>1
      <3>3. PICK g \in [0..(m - 1) -> Nat] :
               g[0] = 0 /\ \A k \in 1..(m - 1) : g[k] = g[k-1] + a[k]
        BY <3>2
      <3> DEFINE f == [k \in 0..m |-> IF k = m THEN g[m-1] + a[m] ELSE g[k]]
      <3>4. \A k \in 0..m : k = m \/ k \in 0..(m - 1)
        BY <3>1
      <3>5. g[m-1] + a[m] \in Nat
        BY <3>1, <3>3
      <3>6. f \in [0..m -> Nat]
        BY <3>3, <3>4, <3>5
      <3>7. f[0] = 0
        BY <3>1, <3>3
      <3>8. \A k \in 1..m : f[k] = f[k-1] + a[k]
        <4> SUFFICES ASSUME NEW k \in 1..m PROVE f[k] = f[k-1] + a[k]
          OBVIOUS
        <4>1. k \in 0..m /\ k - 1 \in 0..m /\ k - 1 # m
          BY <3>1
        <4>2. f[k-1] = g[k-1]
          BY <4>1
        <4>3. CASE k = m
          BY <4>1, <4>2, <4>3
        <4>4. CASE k # m
          <5>1. k \in 1..(m - 1)
            BY <3>1, <4>4
          <5>2. f[k] = g[k]
            BY <4>1, <4>4
          <5>3. QED
            BY <3>3, <4>2, <5>1, <5>2
        <4>5. QED
          BY <4>3, <4>4
      <3> HIDE DEF f
      <3>9. QED
        BY <2>3, <3>6, <3>7, <3>8
    <2>6. QED
      BY <2>4, <2>5
  <1>2. PICK g \in [0..n -> Nat] : g[0] = 0 /\ \A k \in 1..n : g[k] = g[k-1] + a[k]
    BY <1>1
  <1> DEFINE Body(f) == [k \in 0..n |-> IF k = 0 THEN 0 ELSE f[k-1] + a[k]]
             f == Sums(a, n)
  <1>3. g = Body(g)
    <2>1. \A k \in 0..n : g[k] = IF k = 0 THEN 0 ELSE g[k-1] + a[k]
      <3>1. \A k \in 0..n : k = 0 \/ k \in 1..n
        OBVIOUS
      <3>2. QED
        BY <1>2, <3>1
    <2>2. QED
      BY <2>1
  <1>4. f = CHOOSE x : x = Body(x)
    BY DEF Sums
  <1> HIDE DEF f
  <1>5. f = Body(f)
    <2> HIDE DEF Body
    <2>1. QED
      BY <1>3, <1>4
  <1>6. /\ f[0] = 0
        /\ \A k \in 1..n : f[k] = f[k-1] + a[k]
    <2>1. \A k \in 0..n : f[k] = IF k = 0 THEN 0 ELSE f[k-1] + a[k]
      BY <1>5
    <2>2. QED
      BY <2>1
  <1>7. \A k \in 0..n : f[k] = g[k]
    <2> DEFINE Odd == {k \in 0..n : f[k] # g[k]}
    <2>1. SUFFICES ASSUME Odd # {} PROVE FALSE
      BY <2>1
    <2>2. PICK m \in Odd : \A k \in Odd : m <= k
      <3> HIDE DEF Odd
      <3>1. Odd \in SUBSET Nat
        BY DEF Odd
      <3>2. QED
        BY <2>1, <3>1, NatMin
    <2>3. m \in 0..n /\ f[m] # g[m]
      BY <2>2
    <2>4. m # 0
      BY <1>2, <1>6, <2>3
    <2>5. m \in 1..n /\ m - 1 \in 0..n /\ ~(m <= m - 1)
      BY <2>3, <2>4
    <2>6. f[m-1] # g[m-1]
      BY <1>2, <1>6, <2>3, <2>5
    <2>7. m - 1 \in Odd
      BY <2>5, <2>6
    <2> HIDE DEF Odd
    <2>8. QED
      BY <2>2, <2>5, <2>7
  <1>8. f \in [0..n -> Nat]
    BY <1>2, <1>5, <1>7
  <1>9. QED
    BY <1>6, <1>8 DEF f

\* b[1..w] is a[1..n] with what lies between p and q replaced by v.
NumbersReplaced(a, n, b, w, p, v, q) ==
    /\ n \in Nat /\ a \in [1..n -> Nat] /\ v \in Nat
    /\ p \in 0..n /\ q \in 1..(n + 1) /\ p < q
    /\ w \in Nat /\ w = p + 2 + n - q /\ b \in [1..w -> Nat]
    /\ \A k \in 1..p : b[k] = a[k]
    /\ b[p+1] = v
    /\ \A k \in (p + 2)..w : b[k] = a[k - p - 2 + q]

\* The sum after a part has been replaced by one number.
LEMMA SpliceSum ==
    ASSUME NEW a, NEW n, NEW b, NEW w, NEW p, NEW v, NEW q,
           NumbersReplaced(a, n, b, w, p, v, q)
    PROVE  Sums(b, w)[w] = Sums(a, n)[n] + v + Sums(a, n)[p] - Sums(a, n)[q-1]
  <1> DEFINE f == Sums(b, w)  g == Sums(a, n)
  <1>0. /\ n \in Nat /\ a \in [1..n -> Nat] /\ v \in Nat
        /\ p \in 0..n /\ q \in 1..(n + 1) /\ p < q
        /\ w \in Nat /\ w = p + 2 + n - q /\ b \in [1..w -> Nat]
        /\ \A k \in 1..p : b[k] = a[k]
        /\ b[p+1] = v
        /\ \A k \in (p + 2)..w : b[k] = a[k - p - 2 + q]
    BY DEF NumbersReplaced
  <1> USE <1>0
  <1>1. /\ f \in [0..w -> Nat] /\ f[0] = 0
        /\ \A k \in 1..w : f[k] = f[k-1] + b[k]
    BY SumsFacts
  <1>2. /\ g \in [0..n -> Nat] /\ g[0] = 0
        /\ \A k \in 1..n : g[k] = g[k-1] + a[k]
    BY SumsFacts
  <1> HIDE DEF f, g
  <1>3. p \in Nat /\ q \in Nat /\ p <= n /\ 1 <= q /\ q <= n + 1 /\ p + 1 <= w
    OBVIOUS
  <1>4. f[p] = g[p]
    <2> DEFINE lo == 0
               h == [k \in lo..p |-> f[k] - g[k]]
    <2>1. ASSUME NEW k \in (lo + 1)..p PROVE h[k] = h[k-1]
      <3>1. /\ k \in lo..p /\ k - 1 \in lo..p /\ k \in 1..w /\ k \in 1..n /\ k \in 1..p
            /\ k - 1 \in 0..w /\ k - 1 \in 0..n
        BY <1>3
      <3>2. f[k] = f[k-1] + a[k] /\ g[k] = g[k-1] + a[k]
        BY <1>1, <1>2, <3>1
      <3>3. f[k-1] \in Nat /\ g[k-1] \in Nat /\ a[k] \in Nat
        BY <1>1, <1>2, <3>1
      <3>4. h[k] = f[k] - g[k] /\ h[k-1] = f[k-1] - g[k-1]
        BY <3>1
      <3> HIDE DEF h
      <3>5. QED
        BY <3>2, <3>3, <3>4
    <2>2. h[p] = f[p] - g[p] /\ h[lo] = f[0] - g[0] /\ p \in lo..p /\ lo \in Nat
      BY <1>3
    <2>3. f[p] \in Nat /\ g[p] \in Nat
      BY <1>1, <1>2, <1>3
    <2> HIDE <1>0 DEF h, lo
    <2>4. h[p] = h[lo]
      <3>1. p \in Nat
        BY <1>3
      <3>2. \A k \in lo..p : h[k] = h[lo]
        BY <2>1, <2>2, <3>1, Constant
      <3>3. QED
        BY <2>2, <3>2
    <2>5. QED
      BY <1>1, <1>2, <2>2, <2>3, <2>4
  <1>5. f[p+1] = f[p] + v
    <2>1. p + 1 \in 1..w /\ (p + 1) - 1 = p
      BY <1>3
    <2>2. QED
      BY <1>1, <2>1
  <1>6. f[w] - g[n] = f[p+1] - g[q-1]
    <2> DEFINE lo == p + 1
               h == [k \in lo..w |-> f[k] - g[k - p - 2 + q]]
    <2>1. lo \in Nat /\ lo <= w
      BY <1>3
    <2>2. ASSUME NEW k \in (lo + 1)..w PROVE h[k] = h[k-1]
      <3> DEFINE j == k - p - 2 + q
      <3>1. /\ k \in lo..w /\ k - 1 \in lo..w /\ k \in 1..w /\ k \in (p + 2)..w
            /\ k - 1 \in 0..w
        BY <1>3
      <3>2. j \in 1..n /\ j - 1 \in 0..n /\ (k - 1) - p - 2 + q = j - 1
        BY <1>3, <3>1
      <3>3. h[k] = f[k] - g[j] /\ h[k-1] = f[k-1] - g[j-1]
        BY <3>1, <3>2
      <3>4. b[k] = a[j]
        BY <3>1
      <3> HIDE DEF h, j, lo
      <3>5. f[k] = f[k-1] + a[j] /\ g[j] = g[j-1] + a[j]
        BY <1>1, <1>2, <3>1, <3>2, <3>4
      <3>6. f[k-1] \in Nat /\ g[j-1] \in Nat /\ a[j] \in Nat
        BY <1>1, <1>2, <3>1, <3>2
      <3>7. QED
        BY <3>3, <3>5, <3>6
    <2>3. lo \in lo..w /\ w \in lo..w /\ lo - p - 2 + q = q - 1 /\ w - p - 2 + q = n
      BY <1>3
    <2>4. h[lo] = f[lo] - g[lo - p - 2 + q] /\ h[w] = f[w] - g[w - p - 2 + q]
      BY <2>3
    <2> HIDE DEF h, lo
    <2>5. h[w] = h[lo]
      BY <2>1, <2>2, <2>3, Constant
    <2>6. QED
      BY <2>3, <2>4, <2>5 DEF lo
  <1>7. /\ f[w] \in Nat /\ g[n] \in Nat /\ f[p+1] \in Nat /\ g[q-1] \in Nat
        /\ f[p] \in Nat /\ g[p] \in Nat
    <2>1. w \in 0..w /\ n \in 0..n /\ p + 1 \in 0..w /\ q - 1 \in 0..n /\ p \in 0..w
      BY <1>3
    <2>2. QED
      BY <1>1, <1>2, <2>1
  <1>8. f[w] = g[n] + v + g[p] - g[q-1]
    <2> DEFINE A == f[w]  B == g[n]  C == f[p+1]  E == g[q-1]  F == f[p]  G == g[p]
    <2> HIDE DEF A, B, C, E, F, G
    <2>1. A \in Nat /\ B \in Nat /\ C \in Nat /\ E \in Nat /\ F \in Nat /\ G \in Nat
      BY <1>7 DEF A, B, C, E, F, G
    <2>2. F = G /\ C = F + v /\ A - B = C - E
      BY <1>4, <1>5, <1>6 DEF A, B, C, E, F, G
    <2>3. A = B + v + G - E
      BY <2>1, <2>2
    <2>4. QED
      BY <2>3 DEF A, B, E, G
  <1>9. QED
    BY <1>8 DEF f, g

-----------------------------------------------------------------------------
(* What the bins add up to.                                                *)

SumBelow(s, i) == Sums([k \in 1..Len(s) |-> s[k].sum], Len(s))[i]

\* Below and SumBelow grow by one bin at a time and end in the totals.
LEMMA BelowSteps ==
    ASSUME NEW s \in Seq(BinType)
    PROVE  /\ \A k \in 0..Len(s) : Below(s, k) \in Nat /\ SumBelow(s, k) \in Nat
           /\ Below(s, 0) = 0 /\ SumBelow(s, 0) = 0
           /\ \A k \in 1..Len(s) : /\ Below(s, k) = Below(s, k-1) + s[k].count
                                   /\ SumBelow(s, k) = SumBelow(s, k-1) + s[k].sum
           /\ MeanSum(s) = SumBelow(s, Len(s))
  <1> DEFINE n == Len(s)
             a == [k \in 1..n |-> s[k].count]
             b == [k \in 1..n |-> s[k].sum]
  <1>1. n \in Nat
    OBVIOUS
  <1>2. a \in [1..n -> Nat] /\ b \in [1..n -> Nat]
    <2>1. \A k \in 1..n : s[k] \in BinType
      OBVIOUS
    <2>2. \A k \in 1..n : s[k].sum \in Nat /\ s[k].count \in Nat
      BY <2>1, BinFields
    <2>3. QED
      BY <2>2
  <1>3. \A k : Below(s, k) = Sums(a, n)[k] /\ SumBelow(s, k) = Sums(b, n)[k]
    BY DEF Below, SumBelow
  <1>4. MeanSum(s) = SumBelow(s, n)
    BY DEF MeanSum, SumBelow
  <1>5. \A k \in 1..n : a[k] = s[k].count /\ b[k] = s[k].sum
    OBVIOUS
  <1> HIDE DEF a, b, n
  <1>6. /\ Sums(a, n) \in [0..n -> Nat] /\ Sums(a, n)[0] = 0
        /\ \A k \in 1..n : Sums(a, n)[k] = Sums(a, n)[k-1] + a[k]
    BY <1>1, <1>2, SumsFacts
  <1>7. /\ Sums(b, n) \in [0..n -> Nat] /\ Sums(b, n)[0] = 0
        /\ \A k \in 1..n : Sums(b, n)[k] = Sums(b, n)[k-1] + b[k]
    BY <1>1, <1>2, SumsFacts
  <1>8. \A k \in 0..n : Below(s, k) \in Nat /\ SumBelow(s, k) \in Nat
    BY <1>3, <1>6, <1>7
  <1>9. Below(s, 0) = 0 /\ SumBelow(s, 0) = 0
    BY <1>3, <1>6, <1>7
  <1>10. \A k \in 1..n : /\ Below(s, k) = Below(s, k-1) + s[k].count
                         /\ SumBelow(s, k) = SumBelow(s, k-1) + s[k].sum
    BY <1>3, <1>5, <1>6, <1>7
  <1>11. QED
    BY <1>4, <1>8, <1>9, <1>10 DEF n

\* t is s with the bins between p and q replaced by e.
Replaced(s, t, p, e, q) ==
    /\ p \in 0..Len(s) /\ q \in 1..(Len(s) + 1) /\ p < q
    /\ Len(t) = p + 2 + Len(s) - q
    /\ \A k \in 1..p : t[k] = s[k]
    /\ t[p + 1] = e
    /\ \A k \in (p + 2)..Len(t) : t[k] = s[k - p - 2 + q]

\* A splice replaces a part of the bins by one bin.
LEMMA SpliceReplaced ==
    ASSUME NEW s \in Seq(BinType), NEW e \in BinType,
           NEW p \in 0..Len(s), NEW q \in 1..(Len(s) + 1), p < q
    PROVE  Replaced(s, Splice(s, p, e, q), p, e, q)
  <1> DEFINE x == Splice(s, p, e, q)
  <1>1. Len(x) = p + 2 + Len(s) - q
    BY SpliceElements
  <1>2. \A k \in 1..p : x[k] = s[k]
    BY SpliceElements
  <1>3. x[p + 1] = e
    BY SpliceElements
  <1>4. \A k \in (p + 2)..(p + 2 + Len(s) - q) : x[k] = s[k - p - 2 + q]
    BY SpliceElements
  <1> HIDE DEF x
  <1>5. Replaced(s, x, p, e, q)
    BY <1>1, <1>2, <1>3, <1>4 DEF Replaced
  <1>6. QED
    BY <1>5 DEF x

\* What the totals of the bins become when a part is replaced.
LEMMA ReplacedSum ==
    ASSUME NEW s \in Seq(BinType), NEW t \in Seq(BinType), NEW p, NEW e \in BinType, NEW q,
           Replaced(s, t, p, e, q)
    PROVE  /\ Below(t, Len(t)) = Below(s, Len(s)) + e.count + Below(s, p) - Below(s, q-1)
           /\ MeanSum(t) = MeanSum(s) + e.sum + SumBelow(s, p) - SumBelow(s, q-1)
  <1> DEFINE n == Len(s)
             w == Len(t)
  <1>1. /\ n \in Nat /\ w \in Nat /\ p \in 0..n /\ q \in 1..(n + 1) /\ p < q
        /\ w = p + 2 + n - q
    BY DEF Replaced
  <1>2. /\ \A k \in 1..n : s[k].sum \in Nat /\ s[k].count \in Nat
        /\ \A k \in 1..w : t[k].sum \in Nat /\ t[k].count \in Nat
        /\ e.sum \in Nat /\ e.count \in Nat
    <2>1. (\A k \in 1..n : s[k] \in BinType) /\ (\A k \in 1..w : t[k] \in BinType)
      OBVIOUS
    <2>2. QED
      BY <2>1, BinFields
  <1>3. /\ \A k \in 1..p : t[k] = s[k] /\ k \in 1..n /\ k \in 1..w
        /\ t[p+1] = e /\ p + 1 \in 1..w
        /\ \A k \in (p + 2)..w : /\ t[k] = s[k - p - 2 + q]
                                 /\ k \in 1..w /\ k - p - 2 + q \in 1..n
    <2>1. \A k \in 1..p : k \in 1..n /\ k \in 1..w
      BY <1>1
    <2>2. p + 1 \in 1..w
      BY <1>1
    <2>3. \A k \in (p + 2)..w : k \in 1..w /\ k - p - 2 + q \in 1..n
      BY <1>1
    <2>4. /\ \A k \in 1..p : t[k] = s[k]
          /\ t[p+1] = e
          /\ \A k \in (p + 2)..w : t[k] = s[k - p - 2 + q]
      BY DEF Replaced
    <2>5. QED
      BY <2>1, <2>2, <2>3, <2>4
  <1>4. Below(t, w) = Below(s, n) + e.count + Below(s, p) - Below(s, q-1)
    <2> DEFINE a == [k \in 1..n |-> s[k].count]
               b == [k \in 1..w |-> t[k].count]
               v == e.count
    <2>1. a \in [1..n -> Nat] /\ b \in [1..w -> Nat] /\ v \in Nat
      BY <1>2
    <2>2. (\A k : Below(s, k) = Sums(a, n)[k]) /\ Below(t, w) = Sums(b, w)[w]
      BY DEF Below
    <2>3. /\ \A k \in 1..p : b[k] = a[k]
          /\ b[p+1] = v
          /\ \A k \in (p + 2)..w : b[k] = a[k - p - 2 + q]
      BY <1>3
    <2> HIDE DEF a, b, v, n, w
    <2>4. NumbersReplaced(a, n, b, w, p, v, q)
      BY <1>1, <2>1, <2>3 DEF NumbersReplaced
    <2>5. Sums(b, w)[w] = Sums(a, n)[n] + v + Sums(a, n)[p] - Sums(a, n)[q-1]
      BY <2>4, SpliceSum
    <2>6. QED
      BY <2>2, <2>5 DEF v
  <1>5. SumBelow(t, w) = SumBelow(s, n) + e.sum + SumBelow(s, p) - SumBelow(s, q-1)
    <2> DEFINE a == [k \in 1..n |-> s[k].sum]
               b == [k \in 1..w |-> t[k].sum]
               v == e.sum
    <2>1. a \in [1..n -> Nat] /\ b \in [1..w -> Nat] /\ v \in Nat
      BY <1>2
    <2>2. (\A k : SumBelow(s, k) = Sums(a, n)[k]) /\ SumBelow(t, w) = Sums(b, w)[w]
      BY DEF SumBelow
    <2>3. /\ \A k \in 1..p : b[k] = a[k]
          /\ b[p+1] = v
          /\ \A k \in (p + 2)..w : b[k] = a[k - p - 2 + q]
      BY <1>3
    <2> HIDE DEF a, b, v, n, w
    <2>4. NumbersReplaced(a, n, b, w, p, v, q)
      BY <1>1, <2>1, <2>3 DEF NumbersReplaced
    <2>5. Sums(b, w)[w] = Sums(a, n)[n] + v + Sums(a, n)[p] - Sums(a, n)[q-1]
      BY <2>4, SpliceSum
    <2>6. QED
      BY <2>2, <2>5 DEF v
  <1>6. MeanSum(t) = SumBelow(t, w) /\ MeanSum(s) = SumBelow(s, n)
    BY BelowSteps
  <1>7. QED
    BY <1>4, <1>5, <1>6

\* Add counts one sample more, of value n.
LEMMA InsertSums ==
    ASSUME NEW s \in Seq(BinType), NEW n \in Nat, Insert(s, n) \in Seq(BinType)
    PROVE  /\ Below(Insert(s, n), Len(Insert(s, n))) = Below(s, Len(s)) + 1
           /\ MeanSum(Insert(s, n)) = MeanSum(s) + n
  <1> DEFINE i == Place(s, n)
             v == Merged(s[i], Bin(n))
             t == Insert(s, n)
  <1>1. t = IF i = 0 THEN Append(s, Bin(n))
            ELSE IF s[i].sum = n * s[i].count THEN [s EXCEPT ![i] = v]
                 ELSE Splice(s, i - 1, Bin(n), i)
    BY DEF Insert, Place, Splice, InsertAt, ReplaceAt, Merged, Bin
  <1>2. i = 0 \/ i \in 1..Len(s)
    BY PlaceIsFirst
  <1>3. Bin(n) \in BinType /\ Bin(n).sum = n /\ Bin(n).count = 1
    BY DEF Bin, BinType
  <1>4. Len(s) \in Nat /\ \A k \in 1..Len(s) : s[k] \in BinType
    OBVIOUS
  <1>5. /\ \A k \in 0..Len(s) : Below(s, k) \in Nat /\ SumBelow(s, k) \in Nat
        /\ \A k \in 1..Len(s) : /\ Below(s, k) = Below(s, k-1) + s[k].count
                                /\ SumBelow(s, k) = SumBelow(s, k-1) + s[k].sum
        /\ MeanSum(s) = SumBelow(s, Len(s))
    BY BelowSteps
  <1> DEFINE p == IF i = 0 THEN Len(s) ELSE i - 1
  <1>6. ASSUME Replaced(s, t, p, Bin(n), p + 1)
        PROVE  Below(t, Len(t)) = Below(s, Len(s)) + 1 /\ MeanSum(t) = MeanSum(s) + n
    <2>0. p \in 0..Len(s) /\ (p + 1) - 1 = p
      BY <1>2, <1>4
    <2> HIDE DEF p, t
    <2>1. /\ Below(t, Len(t)) = Below(s, Len(s)) + 1 + Below(s, p) - Below(s, p)
          /\ MeanSum(t) = MeanSum(s) + n + SumBelow(s, p) - SumBelow(s, p)
      <3>1. t \in Seq(BinType)
        BY DEF t
      <3> DEFINE q == p + 1
      <3>2. q - 1 = p /\ Replaced(s, t, p, Bin(n), q)
        BY <1>6, <2>0
      <3> DEFINE e == Bin(n)
      <3>3. e \in BinType /\ e.sum = n /\ e.count = 1 /\ Replaced(s, t, p, e, q)
        BY <1>3, <3>2
      <3> HIDE DEF q, e
      <3>4. /\ Below(t, Len(t)) = Below(s, Len(s)) + e.count + Below(s, p) - Below(s, q-1)
            /\ MeanSum(t) = MeanSum(s) + e.sum + SumBelow(s, p) - SumBelow(s, q-1)
        BY <3>1, <3>3, ReplacedSum
      <3>5. QED
        BY <3>2, <3>3, <3>4
    <2>2. /\ Below(s, p) \in Nat /\ SumBelow(s, p) \in Nat
          /\ Below(s, Len(s)) \in Nat /\ MeanSum(s) \in Nat
      BY <1>4, <1>5, <2>0
    <2>3. QED
      BY <2>1, <2>2
  <1> HIDE DEF i
  <1>7. CASE i = 0
    <2>1. t = Append(s, Bin(n)) /\ p = Len(s)
      BY <1>1, <1>7
    <2>2. Replaced(s, t, Len(s), Bin(n), Len(s) + 1)
      <3> DEFINE x == Append(s, Bin(n))
                 l == Len(s)
      <3>1. /\ Len(x) = l + 1
            /\ \A k \in 1..l : x[k] = s[k]
            /\ x[l + 1] = Bin(n)
        BY <1>3
      <3> HIDE DEF x, l
      <3>2. l \in Nat
        BY <1>4 DEF l
      <3>3. /\ l \in 0..l /\ l + 1 \in 1..(l + 1) /\ l < l + 1 /\ Len(x) = l + 2 + l - (l + 1)
            /\ \A k \in (l + 2)..Len(x) : FALSE
        BY <3>1, <3>2
      <3>4. Replaced(s, x, l, Bin(n), l + 1)
        BY <3>1, <3>3 DEF Replaced, l
      <3>5. QED
        BY <2>1, <3>4 DEF x, l
    <2>3. QED
      BY <1>6, <2>1, <2>2
  <1>8. CASE i \in 1..Len(s) /\ s[i].sum # n * s[i].count
    <2>1. i # 0 /\ i - 1 \in 0..Len(s) /\ i \in 1..(Len(s) + 1) /\ i - 1 < i /\ (i - 1) + 1 = i
      BY <1>4, <1>8
    <2>2. t = Splice(s, i - 1, Bin(n), i) /\ p = i - 1
      BY <1>1, <1>8, <2>1
    <2>3. Replaced(s, Splice(s, i - 1, Bin(n), i), i - 1, Bin(n), i)
      BY <1>3, <2>1, SpliceReplaced
    <2>4. QED
      BY <1>6, <2>1, <2>2, <2>3
  <1>9. CASE i \in 1..Len(s) /\ s[i].sum = n * s[i].count
    <2> DEFINE x == [s EXCEPT ![i] = v]
    <2>1. i # 0 /\ i - 1 \in 0..Len(s) /\ i + 1 \in 1..(Len(s) + 1) /\ i - 1 < i + 1
      BY <1>4, <1>9
    <2>2. t = x
      BY <1>1, <1>9, <2>1
    <2>3. v \in BinType /\ v.sum = s[i].sum + n /\ v.count = s[i].count + 1
      <3>1. s[i] \in BinType
        BY <1>4, <1>9
      <3>2. v \in BinType
        BY <1>3, <3>1, LessMerged
      <3>3. QED
        BY <1>3, <3>2 DEF Merged
    <2> HIDE DEF v
    <2>4. x \in Seq(BinType) /\ Len(x) = Len(s)
      BY <1>9, <2>3
    <2>5. x[i] = v /\ \A k \in 1..Len(s) : k # i => x[k] = s[k]
      BY <1>9, <2>3
    <2> HIDE DEF x
    <2>6. Replaced(s, x, i - 1, v, i + 1)
      <3> DEFINE l == Len(s)
      <3>1. l \in Nat /\ i \in 1..l
        BY <1>4, <1>9
      <3>2. l = (i - 1) + 2 + l - (i + 1) /\ (i - 1) + 1 = i
        BY <3>1
      <3>3. \A k \in 1..(i - 1) : k \in 1..l /\ k # i
        BY <3>1
      <3>4. \A k \in ((i - 1) + 2)..l : k \in 1..l /\ k # i /\ k - (i - 1) - 2 + (i + 1) = k
        BY <3>1
      <3>5. \A k \in ((i - 1) + 2)..l : x[k] = s[k - (i - 1) - 2 + (i + 1)]
        BY <2>5, <3>4
      <3>6. \A k \in 1..(i - 1) : x[k] = s[k]
        BY <2>5, <3>3
      <3> HIDE DEF l
      <3>7. Len(x) = l
        BY <2>4 DEF l
      <3>8. QED
        BY <2>1, <2>5, <3>2, <3>5, <3>6, <3>7 DEF Replaced, l
    <2>7. /\ Below(x, Len(x)) = Below(s, Len(s)) + v.count + Below(s, i - 1) - Below(s, i)
          /\ MeanSum(x) = MeanSum(s) + v.sum + SumBelow(s, i - 1) - SumBelow(s, i)
      <3> DEFINE o == i - 1  q == i + 1
      <3>1. q - 1 = i /\ Replaced(s, x, o, v, q)
        BY <1>9, <2>6
      <3> HIDE DEF o, q
      <3>2. /\ Below(x, Len(x)) = Below(s, Len(s)) + v.count + Below(s, o) - Below(s, q-1)
            /\ MeanSum(x) = MeanSum(s) + v.sum + SumBelow(s, o) - SumBelow(s, q-1)
        BY <2>3, <2>4, <3>1, ReplacedSum
      <3>3. QED
        BY <3>1, <3>2 DEF o
    <2>8. /\ Below(s, i) = Below(s, i - 1) + s[i].count
          /\ SumBelow(s, i) = SumBelow(s, i - 1) + s[i].sum
          /\ Below(s, i - 1) \in Nat /\ SumBelow(s, i - 1) \in Nat
          /\ Below(s, Len(s)) \in Nat /\ MeanSum(s) \in Nat
          /\ s[i].count \in Nat /\ s[i].sum \in Nat
      <3>1. s[i].count \in Nat /\ s[i].sum \in Nat
        BY <1>4, <1>9, BinFields
      <3>2. Below(s, Len(s)) \in Nat /\ MeanSum(s) \in Nat
        BY <1>4, <1>5
      <3>3. QED
        BY <1>5, <1>9, <2>1, <3>1, <3>2
    <2> DEFINE B == Below(s, i - 1)  C == SumBelow(s, i - 1)  D == Below(s, Len(s))
               E == MeanSum(s)  c == s[i].count  m == s[i].sum
    <2> HIDE DEF B, C, D, E, c, m
    <2>9. B \in Nat /\ C \in Nat /\ D \in Nat /\ E \in Nat /\ c \in Nat /\ m \in Nat
      BY <2>8 DEF B, C, D, E, c, m
    <2>10. Below(x, Len(x)) = D + (c + 1) + B - (B + c) /\ MeanSum(x) = E + (m + n) + C - (C + m)
      BY <2>3, <2>7, <2>8 DEF B, C, D, E, c, m
    <2>11. Below(x, Len(x)) = D + 1 /\ MeanSum(x) = E + n
      BY <2>9, <2>10
    <2>12. QED
      BY <2>2, <2>11 DEF D, E
  <1>10. QED
    BY <1>2, <1>7, <1>8, <1>9

\* A turn of trim moves samples and their sum into one bin.
LEMMA MergeSums ==
    ASSUME NEW s \in Seq(BinType), Len(s) >= 2, MergeClosest(s) \in Seq(BinType)
    PROVE  /\ Below(MergeClosest(s), Len(MergeClosest(s))) = Below(s, Len(s))
           /\ MeanSum(MergeClosest(s)) = MeanSum(s)
  <1> DEFINE i == Closest(s)
             e == Merged(s[i-1], s[i])
             p == i - 2
             q == i + 1
             t == Splice(s, p, e, q)
  <1>1. i \in 2..Len(s) /\ Len(s) \in Nat
    BY ClosestInRange
  <1>2. MergeClosest(s) = t
    BY DEF MergeClosest, Splice
  <1> HIDE DEF i
  <1>3. /\ p \in 0..Len(s) /\ q \in 1..(Len(s) + 1) /\ p < q /\ q - 1 = i
        /\ i \in 1..Len(s) /\ i - 1 \in 1..Len(s) /\ (i - 1) - 1 = p
    BY <1>1
  <1>4. s[i-1] \in BinType /\ s[i] \in BinType
    BY <1>3
  <1>5. /\ e \in BinType
        /\ e.sum = s[i-1].sum + s[i].sum /\ e.count = s[i-1].count + s[i].count
    <2>1. e \in BinType
      BY <1>4, LessMerged
    <2>2. QED
      BY <2>1 DEF Merged
  <1>0. p \in 0..Len(s) /\ q \in 1..(Len(s) + 1) /\ p < q
    BY <1>3
  <1> HIDE DEF e, p, q
  <1>6. Replaced(s, t, p, e, q)
    BY <1>5, <1>0, SpliceReplaced
  <1>7. t \in Seq(BinType)
    BY <1>2
  <1> HIDE DEF t
  <1>8. /\ Below(t, Len(t)) = Below(s, Len(s)) + e.count + Below(s, p) - Below(s, i)
        /\ MeanSum(t) = MeanSum(s) + e.sum + SumBelow(s, p) - SumBelow(s, i)
    <2>1. /\ Below(t, Len(t)) = Below(s, Len(s)) + e.count + Below(s, p) - Below(s, q-1)
          /\ MeanSum(t) = MeanSum(s) + e.sum + SumBelow(s, p) - SumBelow(s, q-1)
      BY <1>5, <1>6, <1>7, ReplacedSum
    <2>2. QED
      BY <1>3, <2>1
  <1>9. /\ \A k \in 0..Len(s) : Below(s, k) \in Nat /\ SumBelow(s, k) \in Nat
        /\ \A k \in 1..Len(s) : /\ Below(s, k) = Below(s, k-1) + s[k].count
                                /\ SumBelow(s, k) = SumBelow(s, k-1) + s[k].sum
        /\ MeanSum(s) = SumBelow(s, Len(s))
    BY BelowSteps
  <1>10. /\ Below(s, i) = Below(s, i - 1) + s[i].count
         /\ Below(s, i - 1) = Below(s, p) + s[i-1].count
         /\ SumBelow(s, i) = SumBelow(s, i - 1) + s[i].sum
         /\ SumBelow(s, i - 1) = SumBelow(s, p) + s[i-1].sum
    BY <1>3, <1>9
  <1>11. /\ Below(s, p) \in Nat /\ SumBelow(s, p) \in Nat
         /\ Below(s, Len(s)) \in Nat /\ MeanSum(s) \in Nat
         /\ s[i].count \in Nat /\ s[i].sum \in Nat
         /\ s[i-1].count \in Nat /\ s[i-1].sum \in Nat
    <2>1. s[i].count \in Nat /\ s[i].sum \in Nat /\ s[i-1].count \in Nat /\ s[i-1].sum \in Nat
      BY <1>4, BinFields
    <2>2. Len(s) \in 0..Len(s)
      BY <1>1
    <2>3. Below(s, Len(s)) \in Nat /\ MeanSum(s) \in Nat
      BY <1>9, <2>2
    <2>4. Below(s, p) \in Nat /\ SumBelow(s, p) \in Nat
      BY <1>9, <1>0
    <2>5. QED
      BY <2>1, <2>3, <2>4
  <1> DEFINE B == Below(s, p)  C == SumBelow(s, p)  D == Below(s, Len(s))  E == MeanSum(s)
             c == s[i].count  m == s[i].sum  d == s[i-1].count  r == s[i-1].sum
  <1> HIDE DEF B, C, D, E, c, m, d, r
  <1>12. /\ B \in Nat /\ C \in Nat /\ D \in Nat /\ E \in Nat
         /\ c \in Nat /\ m \in Nat /\ d \in Nat /\ r \in Nat
    BY <1>11 DEF B, C, D, E, c, m, d, r
  <1>13. /\ Below(t, Len(t)) = D + (d + c) + B - ((B + d) + c)
         /\ MeanSum(t) = E + (r + m) + C - ((C + r) + m)
    BY <1>5, <1>8, <1>10 DEF B, C, D, E, c, m, d, r
  <1>14. Below(t, Len(t)) = D /\ MeanSum(t) = E
    BY <1>12, <1>13
  <1>15. QED
    BY <1>2, <1>14 DEF D, E

-----------------------------------------------------------------------------
(* The invariant of the statistics.                                        *)

AverageType == [num : Nat, den : Nat \ {0}]

StatsType ==
    /\ MessagesIn \in Nat /\ MessagesOut \in Nat /\ RequestCount \in Nat
    /\ MovingAverage \in AverageType
    /\ bins \in Seq(BinType)
    /\ handling \in {"idle", "in", "out", "counted", "timed", "added"}
    /\ reqns \in Nat /\ total \in Nat

\* Between AddMessageOut and AddRequestTime one count is ahead of the other.
CountersAgree ==
    /\ MessagesIn >= MessagesOut /\ (handling = "in" => MessagesIn > MessagesOut)
    /\ MessagesOut = IF handling = "out" THEN RequestCount + 1 ELSE RequestCount

\* The average lags behind the count while AddRequestTime computes it,
AverageExact ==
    IF handling = "counted"
    THEN /\ RequestCount >= 1 /\ total >= reqns
         /\ MovingAverage.num * (RequestCount - 1) = (total - reqns) * MovingAverage.den
    ELSE MovingAverage.num * RequestCount = total * MovingAverage.den

\* and the bins lag until Add has been through its loop.
BinsExact ==
    LET Lag == handling \in {"counted", "timed"} IN
    /\ total = IF Lag THEN MeanSum(bins) + reqns ELSE MeanSum(bins)
    /\ RequestCount = IF Lag THEN Below(bins, Len(bins)) + 1 ELSE Below(bins, Len(bins))

BinsSorted ==
    Sorted(bins) /\ (handling # "added" => Len(bins) <= MaxBins)

StatsInv == StatsType /\ CountersAgree /\ AverageExact /\ BinsExact /\ BinsSorted

CopyType == [in : Nat, out : Nat, count : Nat, average : AverageType, sum : Nat]

\* A report is NoReport, or has a copy made while the handler was idle.
ReportType == report \in [Requests -> [copy : Seq(CopyType), quintiles : Nat]]

MonitoringInv == StatsInv /\ ReportType /\ ReportConsistent

\* The moving average, updated as a fraction, stays the exact mean.
LEMMA AverageStep ==
    ASSUME NEW n \in Nat, n >= 1, NEW a \in Nat, NEW d \in Nat \ {0}, NEW t \in Nat, NEW s \in Nat,
           s >= t, a * (n - 1) = (s - t) * d
    PROVE  /\ (n - 1) * a + t * d \in Nat /\ n * d \in Nat \ {0}
           /\ ((n - 1) * a + t * d) * n = s * (n * d)
  <1>1. (n - 1) * a = a * (n - 1)
    OBVIOUS
  <1>2. (s - t) * d = s * d - t * d
    OBVIOUS
  <1>3. s * d \in Nat /\ t * d \in Nat
    OBVIOUS
  <1>4. (n - 1) * a + t * d = s * d
    BY <1>1, <1>2, <1>3
  <1>5. (s * d) * n = s * (n * d)
    OBVIOUS
  <1>6. n * d \in Nat \ {0}
    OBVIOUS
  <1>7. QED
    BY <1>3, <1>4, <1>5, <1>6

\* The invariant holds for new statistics.
LEMMA StatsStart == NewConnectorStats => StatsInv
  <1> SUFFICES ASSUME NewConnectorStats PROVE StatsInv
    OBVIOUS
  <1> USE DEF NewConnectorStats
  <1>1. StatsType
    BY DEF StatsType, AverageType
  <1>2. CountersAgree /\ AverageExact
    BY DEF CountersAgree, AverageExact
  <1>3. BinsExact
    <2>1. bins \in Seq(BinType) /\ Len(bins) = 0
      OBVIOUS
    <2>2. MeanSum(bins) = 0 /\ Below(bins, Len(bins)) = 0
      BY <2>1, BelowSteps
    <2>3. QED
      BY <2>2 DEF BinsExact
  <1>4. BinsSorted
    BY MaxBinsAssumption DEF BinsSorted, Sorted
  <1>5. QED
    BY <1>1, <1>2, <1>3, <1>4 DEF StatsInv

\* One step per action of the message handler.
LEMMA StatsStep == StatsInv /\ MessageHandler => StatsInv'
  <1> SUFFICES ASSUME StatsInv, MessageHandler PROVE StatsInv'
    OBVIOUS
  <1> USE DEF StatsInv
  <1>1. CASE AddMessageIn
    <2>1. StatsType'
      BY <1>1 DEF AddMessageIn, StatsType
    <2>2. CountersAgree'
      BY <1>1 DEF AddMessageIn, StatsType, CountersAgree
    <2>3. AverageExact'
      BY <1>1 DEF AddMessageIn, AverageExact
    <2>4. BinsExact' /\ BinsSorted'
      BY <1>1 DEF AddMessageIn, BinsExact, BinsSorted
    <2>5. QED
      BY <2>1, <2>2, <2>3, <2>4
  <1>2. CASE HandlingFails
    <2>1. StatsType'
      BY <1>2 DEF HandlingFails, StatsType
    <2>2. CountersAgree'
      BY <1>2 DEF HandlingFails, StatsType, CountersAgree
    <2>3. AverageExact'
      BY <1>2 DEF HandlingFails, AverageExact
    <2>4. BinsExact' /\ BinsSorted'
      BY <1>2 DEF HandlingFails, BinsExact, BinsSorted
    <2>5. QED
      BY <2>1, <2>2, <2>3, <2>4
  <1>3. CASE AddMessageOut
    <2>1. StatsType'
      BY <1>3 DEF AddMessageOut, StatsType
    <2>2. CountersAgree'
      BY <1>3 DEF AddMessageOut, StatsType, CountersAgree
    <2>3. AverageExact'
      BY <1>3 DEF AddMessageOut, AverageExact
    <2>4. BinsExact' /\ BinsSorted'
      BY <1>3 DEF AddMessageOut, BinsExact, BinsSorted
    <2>5. QED
      BY <2>1, <2>2, <2>3, <2>4
  <1>4. ASSUME NEW t \in Times, CountRequest(t) PROVE StatsInv'
    <2>0. t \in Nat
      BY StatsAssumption
    <2>1. StatsType'
      BY <1>4, <2>0 DEF CountRequest, StatsType
    <2>2. CountersAgree'
      BY <1>4 DEF CountRequest, StatsType, CountersAgree
    <2>3. AverageExact'
      <3>1. MovingAverage.num * RequestCount = total * MovingAverage.den
        BY <1>4 DEF CountRequest, AverageExact
      <3>2. RequestCount' - 1 = RequestCount /\ total' - reqns' = total
        BY <1>4, <2>0 DEF CountRequest, StatsType
      <3>3. RequestCount' >= 1 /\ total' >= reqns'
        BY <1>4, <2>0 DEF CountRequest, StatsType
      <3>4. QED
        BY <1>4, <3>1, <3>2, <3>3 DEF CountRequest, AverageExact
    <2>4. BinsExact' /\ BinsSorted'
      BY <1>4 DEF CountRequest, BinsExact, BinsSorted
    <2>5. QED
      BY <2>1, <2>2, <2>3, <2>4
  <1>5. CASE MoveAverage
    <2> DEFINE a == MovingAverage.num  d == MovingAverage.den
    <2>1. /\ RequestCount \in Nat /\ a \in Nat /\ d \in Nat \ {0} /\ reqns \in Nat /\ total \in Nat
          /\ RequestCount >= 1 /\ total >= reqns
          /\ a * (RequestCount - 1) = (total - reqns) * d
      BY <1>5 DEF MoveAverage, StatsType, AverageType, AverageExact
    <2>2. MovingAverage' = [num |-> (RequestCount - 1) * a + reqns * d, den |-> RequestCount * d]
      BY <1>5 DEF MoveAverage, Average
    <2> HIDE DEF a, d
    <2>3. /\ (RequestCount - 1) * a + reqns * d \in Nat /\ RequestCount * d \in Nat \ {0}
          /\ ((RequestCount - 1) * a + reqns * d) * RequestCount = total * (RequestCount * d)
      BY <2>1, AverageStep
    <2>4. /\ MovingAverage' \in AverageType
          /\ MovingAverage'.num * RequestCount = total * MovingAverage'.den
      BY <2>2, <2>3 DEF AverageType
    <2>5. StatsType'
      BY <1>5, <2>4 DEF MoveAverage, StatsType
    <2>6. CountersAgree'
      BY <1>5 DEF MoveAverage, CountersAgree
    <2>7. AverageExact'
      BY <1>5, <2>4 DEF MoveAverage, AverageExact
    <2>8. BinsExact' /\ BinsSorted'
      BY <1>5 DEF MoveAverage, BinsExact, BinsSorted
    <2>9. QED
      BY <2>5, <2>6, <2>7, <2>8
  <1>6. CASE AddToHistogram
    <2>1. bins \in Seq(BinType) /\ Sorted(bins) /\ reqns \in Nat
      BY DEF StatsType, BinsSorted
    <2>2. bins' = Insert(bins, reqns)
      BY <1>6 DEF AddToHistogram
    <2>3. bins' \in Seq(BinType) /\ Sorted(bins')
      BY <2>1, <2>2, InsertSorted
    <2>4. Below(bins', Len(bins')) = Below(bins, Len(bins)) + 1 /\ MeanSum(bins') = MeanSum(bins) + reqns
      BY <2>1, <2>2, <2>3, InsertSums
    <2>5. StatsType'
      BY <1>6, <2>3 DEF AddToHistogram, StatsType
    <2>6. CountersAgree'
      BY <1>6 DEF AddToHistogram, CountersAgree
    <2>7. AverageExact'
      BY <1>6 DEF AddToHistogram, AverageExact
    <2>8. BinsExact'
      BY <1>6, <2>4 DEF AddToHistogram, BinsExact
    <2>9. BinsSorted'
      BY <1>6, <2>3 DEF AddToHistogram, BinsSorted
    <2>10. QED
      BY <2>5, <2>6, <2>7, <2>8, <2>9
  <1>7. CASE TrimMerges
    <2>1. bins \in Seq(BinType) /\ Sorted(bins)
      BY DEF StatsType, BinsSorted
    <2>2. bins' = MergeClosest(bins) /\ Len(bins) > MaxBins
      BY <1>7 DEF TrimMerges
    <2>3. Len(bins) >= 2
      <3>1. Len(bins) \in Nat
        BY <2>1
      <3>2. QED
        BY <2>2, <3>1, MaxBinsAssumption
    <2>4. bins' \in Seq(BinType) /\ Sorted(bins')
      BY <2>1, <2>2, <2>3, MergeSorted
    <2>5. Below(bins', Len(bins')) = Below(bins, Len(bins)) /\ MeanSum(bins') = MeanSum(bins)
      BY <2>1, <2>2, <2>3, <2>4, MergeSums
    <2>6. StatsType'
      BY <1>7, <2>4 DEF TrimMerges, StatsType
    <2>7. CountersAgree'
      BY <1>7 DEF TrimMerges, CountersAgree
    <2>8. AverageExact'
      BY <1>7 DEF TrimMerges, AverageExact
    <2>9. BinsExact'
      BY <1>7, <2>5 DEF TrimMerges, BinsExact
    <2>10. BinsSorted'
      BY <1>7, <2>4 DEF TrimMerges, BinsSorted
    <2>11. QED
      BY <2>6, <2>7, <2>8, <2>9, <2>10
  <1>8. CASE TrimEnds
    <2>1. StatsType'
      BY <1>8 DEF TrimEnds, StatsType
    <2>2. CountersAgree'
      BY <1>8 DEF TrimEnds, CountersAgree
    <2>3. AverageExact'
      BY <1>8 DEF TrimEnds, AverageExact
    <2>4. BinsExact' /\ BinsSorted'
      BY <1>8 DEF TrimEnds, BinsExact, BinsSorted
    <2>5. QED
      BY <2>1, <2>2, <2>3, <2>4
  <1>9. QED
    BY <1>1, <1>2, <1>3, <1>4, <1>5, <1>6, <1>7, <1>8 DEF MessageHandler

\* A step that leaves the statistics alone keeps the invariant.
LEMMA StatsStutter == StatsInv /\ UNCHANGED statVars => StatsInv'
  BY DEF StatsInv, StatsType, CountersAgree, AverageExact, BinsExact, BinsSorted, statVars

-----------------------------------------------------------------------------
(* The reports.                                                            *)

Good(c) ==
    /\ c.in >= c.out /\ c.out = c.count
    /\ c.average.num * c.count = c.sum * c.average.den

\* A report that is changed only in what it does not promise stays good.
LEMMA ReportsStep ==
    ASSUME ReportType, ReportConsistent, NEW r \in Requests, NEW x,
           x \in [copy : Seq(CopyType), quintiles : Nat],
           \A c \in Range(x.copy) : Good(c),
           report' = [report EXCEPT ![r] = x]
    PROVE  ReportType' /\ ReportConsistent'
  <1>1. ReportType'
    BY DEF ReportType
  <1>2. ASSUME NEW q \in Requests, NEW c \in Range(report'[q].copy)
        PROVE  Good(c)
    <2>1. CASE q = r
      BY <1>2, <2>1 DEF ReportType
    <2>2. CASE q # r
      <3>1. report'[q] = report[q]
        BY <2>2 DEF ReportType
      <3>2. QED
        BY <1>2, <3>1 DEF ReportConsistent, Good
    <2>3. QED
      BY <2>1, <2>2
  <1>3. ReportConsistent'
    BY <1>2 DEF ReportConsistent, Good
  <1>4. QED
    BY <1>1, <1>3

\* Every step keeps the invariant.
LEMMA MonitoringStep == MonitoringInv /\ [Next]_vars => MonitoringInv'
  <1> SUFFICES ASSUME MonitoringInv, [Next]_vars PROVE MonitoringInv'
    OBVIOUS
  <1> USE DEF MonitoringInv
  <1>1. CASE MessageHandler /\ UNCHANGED httpVars
    <2>1. StatsInv'
      BY <1>1, StatsStep
    <2>2. ReportType' /\ ReportConsistent'
      BY <1>1 DEF httpVars, ReportType, ReportConsistent
    <2>3. QED
      BY <2>1, <2>2
  <1>2. ASSUME UNCHANGED statVars, UNCHANGED report PROVE MonitoringInv'
    <2>1. StatsInv'
      BY <1>2, StatsStutter
    <2>2. ReportType' /\ ReportConsistent'
      BY <1>2 DEF ReportType, ReportConsistent
    <2>3. QED
      BY <2>1, <2>2
  <1>3. ASSUME NEW r \in Requests, HandleRequest(r) \/ \E p \in Paths : Accept(r, p)
        PROVE  MonitoringInv'
    <2>1. UNCHANGED statVars
      BY <1>3 DEF HandleRequest, Handle, CopyStats, ScanQuantile, ScanPanics, Answer, Accept
    <2>2. StatsInv'
      BY <2>1, StatsStutter
    <2>3. report[r] \in [copy : Seq(CopyType), quintiles : Nat]
      BY DEF ReportType
    <2>4. CASE Handle(r) \/ \E p \in Paths : Accept(r, p)
      BY <1>2, <2>1, <2>4 DEF Handle, Accept
    <2>5. CASE CopyStats(r)
      <3> DEFINE c == [in |-> MessagesIn, out |-> MessagesOut, count |-> RequestCount,
                       average |-> MovingAverage, sum |-> total]
                 x == [copy |-> <<c>>, quintiles |-> report[r].quintiles]
      <3>1. handling = "idle"
        BY <2>5 DEF CopyStats, LockFree
      <3>2. c \in CopyType
        BY DEF CopyType, StatsInv, StatsType
      <3>3. Good(c)
        BY <3>1 DEF Good, StatsInv, CountersAgree, AverageExact
      <3>4. report' = [report EXCEPT ![r] = x]
        <4>1. report' = [report EXCEPT ![r] = [report[r] EXCEPT !.copy = <<c>>]]
          BY <2>5 DEF CopyStats
        <4>2. [report[r] EXCEPT !.copy = <<c>>] = x
          BY <2>3
        <4>3. QED
          BY Zenon, <4>1, <4>2
      <3> HIDE DEF c
      <3>5. x \in [copy : Seq(CopyType), quintiles : Nat]
        BY <2>3, <3>2
      <3>6. \A d \in Range(x.copy) : d = c
        BY DEF Range
      <3> HIDE DEF x
      <3>7. ReportType' /\ ReportConsistent'
        BY <3>3, <3>4, <3>5, <3>6, ReportsStep
      <3>8. QED
        BY <2>2, <3>7
    <2>6. CASE ScanQuantile(r)
      <3> DEFINE x == [copy |-> report[r].copy, quintiles |-> report[r].quintiles + 1]
      <3>1. report' = [report EXCEPT ![r] = x]
        <4>1. report' = [report EXCEPT ![r] =
                            [report[r] EXCEPT !.quintiles = report[r].quintiles + 1]]
          BY <2>6 DEF ScanQuantile
        <4>2. [report[r] EXCEPT !.quintiles = report[r].quintiles + 1] = x
          BY <2>3
        <4>3. QED
          BY Zenon, <4>1, <4>2
      <3>2. x \in [copy : Seq(CopyType), quintiles : Nat]
        BY <2>3
      <3>3. \A d \in Range(x.copy) : Good(d)
        BY DEF ReportConsistent, Good
      <3> HIDE DEF x
      <3>4. ReportType' /\ ReportConsistent'
        BY <3>1, <3>2, <3>3, ReportsStep
      <3>5. QED
        BY <2>2, <3>4
    <2>7. CASE ScanPanics(r) \/ Answer(r)
      <3>1. report' = [report EXCEPT ![r] = NoReport]
        BY <2>7 DEF ScanPanics, Answer
      <3>2. NoReport \in [copy : Seq(CopyType), quintiles : Nat] /\ Range(NoReport.copy) = {}
        BY DEF NoReport, Range
      <3>3. ReportType' /\ ReportConsistent'
        BY <3>1, <3>2, ReportsStep
      <3>4. QED
        BY <2>2, <3>3
    <2>8. QED
      BY <1>3, <2>4, <2>5, <2>6, <2>7 DEF HandleRequest
  <1>4. CASE Stop
    BY <1>2, <1>4 DEF Stop, StopBegins, StopMonitoring, ShutdownReturns, ShutdownTimesOut
  <1>5. CASE UNCHANGED vars
    BY <1>2, <1>5 DEF vars, httpVars
  <1>6. QED
    BY <1>1, <1>3, <1>4, <1>5 DEF Next

\* The invariant holds initially.
LEMMA MonitoringStart == Init => MonitoringInv
  <1> SUFFICES ASSUME Init PROVE MonitoringInv
    OBVIOUS
  <1>1. StatsInv
    BY StatsStart DEF Init
  <1>2. ReportType
    BY DEF Init, ReportType, NoReport
  <1>3. ReportConsistent
    BY DEF Init, ReportConsistent, NoReport, Range
  <1>4. QED
    BY <1>1, <1>2, <1>3 DEF MonitoringInv

\* So it always holds.
LEMMA MonitoringInvariant == Spec => []MonitoringInv
  BY MonitoringStart, MonitoringStep, PTL DEF Spec

-----------------------------------------------------------------------------
(* Quantiles: which times lie in which bin.                                *)

\* The bin b is all of time n.
At(b, n) == b.sum = n * b.count

Lagging == handling \in {"counted", "timed"}

\* How often time t has reached the bins.
InBins(t) == IF Lagging /\ t = reqns THEN samples[t] - 1 ELSE samples[t]

SamplesType ==
    /\ samples \in [Times -> Nat] /\ IsFiniteSet(Seen)
    /\ handling \in {"counted", "timed", "added"} => reqns \in Seen

\* However bins were merged, each lies between times that were seen,
BinsInRange ==
    \A i \in 1..Len(bins) : \E s, t \in Seen :
        s * bins[i].count <= bins[i].sum /\ bins[i].sum <= t * bins[i].count

\* and if none can have been merged, each time has its bin.
OneBinEach ==
    /\ \A i \in 1..Len(bins) : \E t \in Times :
          At(bins[i], t) /\ bins[i].count = InBins(t)
    /\ \A t \in Times : InBins(t) > 0 => \E i \in 1..Len(bins) : At(bins[i], t)

QuantilesInv ==
    SamplesType /\ BinsInRange /\ (Cardinality(Seen) <= MaxBins => OneBinEach)

\* In strict order, at most one bin is of time n,
LEMMA OneAt ==
    ASSUME NEW s \in Seq(BinType), Sorted(s), NEW n \in Nat,
           NEW i \in 1..Len(s), NEW j \in 1..Len(s), At(s[i], n), At(s[j], n)
    PROVE  i = j
  <1>1. ASSUME NEW k \in 1..Len(s), NEW l \in 1..Len(s), At(s[k], n), At(s[l], n), k < l
        PROVE  FALSE
    <2>1. s[k] \in BinType /\ s[l] \in BinType
      OBVIOUS
    <2>2. Less(s[k], s[l])
      BY <1>1 DEF Sorted
    <2>3. n * s[l].count < s[l].sum
      BY <1>1, <2>1, <2>2, LessAt DEF At
    <2>4. s[l].sum \in Nat
      BY <2>1, BinFields
    <2>5. QED
      BY <1>1, <2>3, <2>4 DEF At
  <1>2. i \in Int /\ j \in Int
    OBVIOUS
  <1>3. i < j \/ j < i \/ i = j
    BY <1>2
  <1>4. QED
    BY <1>1, <1>3

\* and the bins lie as their times do.
LEMMA AtOrder ==
    ASSUME NEW s \in Seq(BinType), Sorted(s),
           NEW i \in 1..Len(s), NEW j \in 1..Len(s), NEW m \in Nat, NEW n \in Nat,
           At(s[i], m), At(s[j], n)
    PROVE  m < n <=> i < j
  <1>0. s[i] \in BinType /\ s[j] \in BinType
    OBVIOUS
  <1> DEFINE c == s[i].count  d == s[j].count  x == s[i].sum  y == s[j].sum
  <1>1. c \in Nat \ {0} /\ d \in Nat \ {0} /\ x = m * c /\ y = n * d
    BY <1>0, BinFields DEF At
  <1>2. /\ Less(s[i], s[j]) <=> x * d < y * c
        /\ Less(s[j], s[i]) <=> y * c < x * d
    BY DEF Less
  <1>3. i < j => Less(s[i], s[j])
    BY DEF Sorted
  <1>4. j < i => Less(s[j], s[i])
    BY DEF Sorted
  <1> HIDE DEF c, d, x, y
  <1> DEFINE e == c * d
  <1>5. x * d = m * e /\ y * c = n * e /\ e \in Nat \ {0}
    BY <1>1
  <1> HIDE DEF e
  <1>6. (m * e < n * e <=> m < n) /\ (n * e < m * e <=> n < m)
    BY <1>5
  <1>7. (i < j => m < n) /\ (j < i => n < m)
    BY <1>2, <1>3, <1>4, <1>5, <1>6
  <1>8. CASE i = j
    <2>1. m * c = n * c
      BY <1>1, <1>8 DEF c, d, x, y
    <2>2. m = n
      BY <1>1, <2>1
    <2>3. QED
      BY <1>8, <2>2
  <1>9. i \in Int /\ j \in Int
    OBVIOUS
  <1>10. QED
    BY <1>7, <1>8, <1>9

\* t is s with one sample more, n: in the bin of time n, or in a new one if
\* there is none.
Added(s, t, n) ==
    /\ \A k \in 1..Len(t) :
          \/ ~At(t[k], n) /\ \E j \in 1..Len(s) : t[k] = s[j]
          \/ At(t[k], n) /\ t[k].count = 1 /\ \A j \in 1..Len(s) : ~At(s[j], n)
          \/ At(t[k], n) /\ \E j \in 1..Len(s) : At(s[j], n) /\ t[k].count = s[j].count + 1
    /\ \A j \in 1..Len(s) : ~At(s[j], n) => \E k \in 1..Len(t) : t[k] = s[j]
    /\ \E k \in 1..Len(t) : At(t[k], n)

\* t is s with two bins merged.
MergedInto(s, t) ==
    \A k \in 1..Len(t) :
        \/ \E j \in 1..Len(s) : t[k] = s[j]
        \/ \E i, j \in 1..Len(s) : t[k] = Merged(s[i], s[j])

\* A new bin among bins of other times.
LEMMA ReplacedAdds ==
    ASSUME NEW s \in Seq(BinType), NEW t \in Seq(BinType), NEW n \in Nat, NEW p,
           Replaced(s, t, p, Bin(n), p + 1), \A j \in 1..Len(s) : ~At(s[j], n)
    PROVE  Added(s, t, n)
  <1>1. /\ p \in 0..Len(s) /\ Len(t) = p + 2 + Len(s) - (p + 1)
        /\ \A k \in 1..p : t[k] = s[k]
        /\ t[p + 1] = Bin(n)
        /\ \A k \in (p + 2)..Len(t) : t[k] = s[k - p - 2 + (p + 1)]
    BY DEF Replaced
  <1>2. Len(s) \in Nat /\ Len(t) \in Nat
    OBVIOUS
  <1>3. Len(t) = Len(s) + 1
    BY <1>1, <1>2
  <1>4. At(Bin(n), n) /\ Bin(n).count = 1
    BY DEF At, Bin
  <1>5. ASSUME NEW k \in 1..Len(t), k # p + 1 PROVE \E j \in 1..Len(s) : t[k] = s[j]
    <2>1. CASE k \in 1..p
      BY <1>1, <1>2, <2>1
    <2>2. CASE k \in (p + 2)..Len(t)
      <3>1. k - p - 2 + (p + 1) \in 1..Len(s)
        BY <1>1, <1>2, <1>3, <2>2
      <3>2. QED
        BY <1>1, <2>2, <3>1
    <2>3. QED
      BY <1>1, <1>2, <1>5, <2>1, <2>2
  <1>6. ASSUME NEW j \in 1..Len(s) PROVE \E k \in 1..Len(t) : t[k] = s[j]
    <2>1. CASE j \in 1..p
      BY <1>1, <1>2, <1>3, <2>1
    <2>2. CASE j \in (p + 1)..Len(s)
      <3>1. j + 1 \in (p + 2)..Len(t) /\ (j + 1) - p - 2 + (p + 1) = j /\ j + 1 \in 1..Len(t)
        BY <1>1, <1>2, <1>3, <2>2
      <3>2. t[j + 1] = s[(j + 1) - p - 2 + (p + 1)]
        BY <1>1, <3>1
      <3>3. QED
        BY <3>1, <3>2
    <2>3. QED
      BY <1>1, <1>2, <2>1, <2>2
  <1>7. p + 1 \in 1..Len(t)
    BY <1>1, <1>2, <1>3
  <1>8. \A k \in 1..Len(t) :
           \/ ~At(t[k], n) /\ \E j \in 1..Len(s) : t[k] = s[j]
           \/ At(t[k], n) /\ t[k].count = 1 /\ \A j \in 1..Len(s) : ~At(s[j], n)
    BY <1>1, <1>4, <1>5
  <1>9. QED
    BY <1>1, <1>4, <1>6, <1>7, <1>8 DEF Added

\* Add puts n in its bin.
LEMMA InsertAdds ==
    ASSUME NEW s \in Seq(BinType), Sorted(s), NEW n \in Nat
    PROVE  Added(s, Insert(s, n), n)
  <1> DEFINE i == Place(s, n)
             v == [sum |-> s[i].sum + n, count |-> s[i].count + 1]
             t == Insert(s, n)
  <1>1. \A k \in 1..Len(s) : s[k] \in BinType /\ s[k].sum \in Nat /\ s[k].count \in Nat \ {0}
    BY BinFields
  <1>2. Bin(n) \in BinType
    BY DEF Bin, BinType
  <1>3. t = IF i = 0 THEN Append(s, Bin(n))
            ELSE IF s[i].sum = n * s[i].count THEN [s EXCEPT ![i] = v]
                 ELSE Splice(s, i - 1, Bin(n), i)
    BY DEF Insert, Place, Splice, InsertAt, ReplaceAt
  <1>4. \/ i = 0 /\ \A k \in 1..Len(s) : s[k].sum < n * s[k].count
        \/ /\ i \in 1..Len(s) /\ s[i].sum >= n * s[i].count
           /\ \A k \in 1..(i - 1) : s[k].sum < n * s[k].count
    BY PlaceIsFirst
  <1>5. Len(s) \in Nat /\ t \in Seq(BinType)
    <2>1. t \in Seq(BinType)
      BY InsertSorted
    <2>2. QED
      BY <2>1
  <1> HIDE DEF i, t
  <1>6. CASE i = 0
    <2> DEFINE l == Len(s)
    <2>1. t = Append(s, Bin(n))
      BY <1>3, <1>6
    <2>2. Replaced(s, t, l, Bin(n), l + 1)
      <3>1. Len(t) = l + 1 /\ (\A k \in 1..l : t[k] = s[k]) /\ t[l + 1] = Bin(n)
        BY <1>2, <2>1
      <3>2. l \in Nat
        BY <1>5
      <3> HIDE DEF l
      <3>3. /\ l \in 0..l /\ l + 1 \in 1..(l + 1) /\ l < l + 1 /\ Len(t) = l + 2 + l - (l + 1)
            /\ \A k \in (l + 2)..Len(t) : FALSE
        BY <3>1, <3>2
      <3>4. QED
        BY <3>1, <3>3 DEF Replaced, l
    <2>3. \A j \in 1..Len(s) : ~At(s[j], n)
      BY <1>1, <1>4, <1>5, <1>6 DEF At
    <2> HIDE DEF l
    <2>4. Added(s, t, n)
      BY <1>5, <2>2, <2>3, ReplacedAdds
    <2>5. QED
      BY <2>4 DEF t
  <1>7. CASE i \in 1..Len(s) /\ s[i].sum = n * s[i].count
    <2>1. i # 0
      BY <1>7
    <2>2. t = [s EXCEPT ![i] = v]
      BY <1>3, <1>7, <2>1
    <2>3. v.sum = s[i].sum + n /\ v.count = s[i].count + 1 /\ At(v, n)
      <3> DEFINE c == s[i].count
      <3>1. c \in Nat /\ v.sum = n * c + n /\ v.count = c + 1
        BY <1>1, <1>7
      <3> HIDE DEF c, v
      <3>2. At(v, n)
        <4>1. n * (c + 1) = n * c + n
          BY <3>1
        <4>2. QED
          BY <3>1, <4>1 DEF At
      <3>3. QED
        BY <3>2 DEF v
    <2> HIDE DEF v
    <2>4. Len(t) = Len(s) /\ t[i] = v /\ \A k \in 1..Len(s) : k # i => t[k] = s[k]
      BY <1>7, <2>2
    <2>5. At(s[i], n) /\ \A j \in 1..Len(s) : j # i => ~At(s[j], n)
      <3>1. At(s[i], n)
        BY <1>7 DEF At
      <3>2. QED
        BY <1>7, <3>1, OneAt
    <2>6. \A k \in 1..Len(t) :
             \/ ~At(t[k], n) /\ \E j \in 1..Len(s) : t[k] = s[j]
             \/ At(t[k], n) /\ \E j \in 1..Len(s) : At(s[j], n) /\ t[k].count = s[j].count + 1
      BY <1>7, <2>3, <2>4, <2>5
    <2>7. \A j \in 1..Len(s) : ~At(s[j], n) => \E k \in 1..Len(t) : t[k] = s[j]
      BY <2>4, <2>5
    <2>8. \E k \in 1..Len(t) : At(t[k], n)
      BY <1>7, <2>3, <2>4
    <2>9. Added(s, t, n)
      BY <2>6, <2>7, <2>8 DEF Added
    <2>10. QED
      BY <2>9 DEF t
  <1>8. CASE i \in 1..Len(s) /\ s[i].sum # n * s[i].count
    <2> DEFINE p == i - 1
    <2>1. i # 0 /\ p \in 0..Len(s) /\ i = p + 1 /\ i \in 1..(Len(s) + 1) /\ p < i
      BY <1>5, <1>8
    <2>2. t = Splice(s, p, Bin(n), i)
      BY <1>3, <1>8, <2>1
    <2>3. n * s[i].count < s[i].sum
      <3>1. s[i].sum \in Nat /\ s[i].count \in Nat
        BY <1>1, <1>8
      <3>2. s[i].sum >= n * s[i].count
        BY <1>4, <2>1
      <3>3. QED
        BY <1>8, <3>1, <3>2
    <2>4. ASSUME NEW j \in 1..Len(s) PROVE ~At(s[j], n)
      <3>1. CASE j < i
        <4>1. j \in 1..(i - 1)
          BY <1>8, <3>1
        <4>2. s[j].sum < n * s[j].count
          BY <1>4, <2>1, <4>1
        <4>3. QED
          BY <1>1, <4>2 DEF At
      <3>2. CASE j = i
        BY <1>8, <3>2 DEF At
      <3>3. CASE i < j
        <4>1. Less(s[i], s[j])
          BY <1>8, <3>3 DEF Sorted
        <4>2. At(Bin(n), n)
          BY DEF At, Bin
        <4>3. Less(Bin(n), s[i])
          BY <1>1, <1>2, <1>8, <2>3, <4>2, LessAt DEF At
        <4>4. Less(Bin(n), s[j])
          BY <1>1, <1>2, <1>8, <4>1, <4>3, LessTransitive
        <4>5. n * s[j].count < s[j].sum
          BY <1>1, <1>2, <4>2, <4>4, LessAt DEF At
        <4>6. QED
          BY <1>1, <4>5 DEF At
      <3>4. QED
        BY <1>8, <3>1, <3>2, <3>3
    <2> HIDE DEF p
    <2>5. Replaced(s, t, p, Bin(n), i)
      BY <1>2, <2>1, <2>2, SpliceReplaced
    <2>6. Replaced(s, t, p, Bin(n), p + 1)
      BY <2>1, <2>5
    <2>7. Added(s, t, n)
      BY <1>5, <2>4, <2>6, ReplacedAdds
    <2>8. QED
      BY <2>7 DEF t
  <1>9. QED
    BY <1>4, <1>6, <1>7, <1>8

\* A turn of trim merges two neighbours and leaves the other bins alone.
LEMMA MergeMerges ==
    ASSUME NEW s \in Seq(BinType), Len(s) >= 2
    PROVE  MergedInto(s, MergeClosest(s))
  <1> DEFINE i == Closest(s)
             e == Merged(s[i-1], s[i])
             p == i - 2
             q == i + 1
             t == Splice(s, p, e, q)
  <1>1. i \in 2..Len(s) /\ Len(s) \in Nat
    BY ClosestInRange
  <1>2. MergeClosest(s) = t
    BY DEF MergeClosest, Splice
  <1> HIDE DEF i
  <1>3. /\ p \in 0..Len(s) /\ q \in 1..(Len(s) + 1) /\ p < q
        /\ i \in 1..Len(s) /\ i - 1 \in 1..Len(s)
    BY <1>1
  <1>4. e \in BinType
    <2>1. s[i-1] \in BinType /\ s[i] \in BinType
      BY <1>3
    <2>2. QED
      BY <2>1, LessMerged
  <1>5. \E j, k \in 1..Len(s) : e = Merged(s[j], s[k])
    BY <1>3
  <1> HIDE DEF e, p, q
  <1>6. Replaced(s, t, p, e, q)
    BY <1>3, <1>4, SpliceReplaced
  <1> HIDE DEF t
  <1>7. /\ Len(t) = p + 2 + Len(s) - q
        /\ \A k \in 1..p : t[k] = s[k]
        /\ t[p + 1] = e
        /\ \A k \in (p + 2)..Len(t) : t[k] = s[k - p - 2 + q]
    BY <1>6 DEF Replaced
  <1>8. ASSUME NEW k \in 1..Len(t)
        PROVE  \/ \E j \in 1..Len(s) : t[k] = s[j]
               \/ \E j, l \in 1..Len(s) : t[k] = Merged(s[j], s[l])
    <2>1. CASE k \in 1..p
      BY <1>1, <1>3, <1>7, <2>1
    <2>2. CASE k = p + 1
      BY <1>5, <1>7, <2>2
    <2>3. CASE k \in (p + 2)..Len(t)
      <3>1. k - p - 2 + q \in 1..Len(s)
        BY <1>1, <1>3, <1>7, <2>3
      <3>2. QED
        BY <1>7, <2>3, <3>1
    <2>4. QED
      BY <1>1, <1>3, <2>1, <2>2, <2>3
  <1>9. MergedInto(s, t)
    BY <1>8 DEF MergedInto
  <1>10. QED
    BY <1>2, <1>9

\* Two bins merged lie between the shortest and the longest time of both.
LEMMA LowerMerged ==
    ASSUME NEW a \in Nat, NEW c \in Nat, NEW m \in Nat, NEW n \in Nat, NEW k \in Nat, NEW l \in Nat,
           a * k <= m, c * l <= n
    PROVE  \E s \in {a, c} : s * (k + l) <= m + n
  <1>1. CASE a <= c
    <2>1. a * l <= c * l
      BY <1>1
    <2>2. a * (k + l) = a * k + a * l
      OBVIOUS
    <2> DEFINE u == a * k  v == a * l  w == c * l
    <2>3. u \in Nat /\ v \in Nat /\ w \in Nat
      OBVIOUS
    <2> HIDE DEF u, v, w
    <2>4. u + v <= m + n
      BY <2>1, <2>3 DEF u, v, w
    <2>5. QED
      BY <2>2, <2>4 DEF u, v
  <1>2. CASE c < a
    <2>1. c * k <= a * k
      BY <1>2
    <2>2. c * (k + l) = c * k + c * l
      OBVIOUS
    <2> DEFINE u == c * k  v == c * l  w == a * k
    <2>3. u \in Nat /\ v \in Nat /\ w \in Nat
      OBVIOUS
    <2> HIDE DEF u, v, w
    <2>4. u + v <= m + n
      BY <2>1, <2>3 DEF u, v, w
    <2>5. QED
      BY <2>2, <2>4 DEF u, v
  <1>3. QED
    BY <1>1, <1>2

\* The upper bound likewise.
LEMMA UpperMerged ==
    ASSUME NEW a \in Nat, NEW c \in Nat, NEW m \in Nat, NEW n \in Nat, NEW k \in Nat, NEW l \in Nat,
           m <= a * k, n <= c * l
    PROVE  \E t \in {a, c} : m + n <= t * (k + l)
  <1>1. CASE c <= a
    <2>1. c * l <= a * l
      BY <1>1
    <2>2. a * (k + l) = a * k + a * l
      OBVIOUS
    <2> DEFINE u == a * k  v == a * l  w == c * l
    <2>3. u \in Nat /\ v \in Nat /\ w \in Nat
      OBVIOUS
    <2> HIDE DEF u, v, w
    <2>4. m + n <= u + v
      BY <2>1, <2>3 DEF u, v, w
    <2>5. QED
      BY <2>2, <2>4 DEF u, v
  <1>2. CASE a < c
    <2>1. a * k <= c * k
      BY <1>2
    <2>2. c * (k + l) = c * k + c * l
      OBVIOUS
    <2> DEFINE u == c * k  v == c * l  w == a * k
    <2>3. u \in Nat /\ v \in Nat /\ w \in Nat
      OBVIOUS
    <2> HIDE DEF u, v, w
    <2>4. m + n <= u + v
      BY <2>1, <2>3 DEF u, v, w
    <2>5. QED
      BY <2>2, <2>4 DEF u, v
  <1>3. QED
    BY <1>1, <1>2

\* The bin b lies between two times that were seen.
Within(b) == \E s, t \in Seen : s * b.count <= b.sum /\ b.sum <= t * b.count

\* The merger of two bins within the times seen is within them.
LEMMA WithinMerged ==
    ASSUME NEW x \in BinType, NEW y \in BinType, Within(x), Within(y)
    PROVE  Within(Merged(x, y))
  <1>1. PICK a \in Seen, b \in Seen : a * x.count <= x.sum /\ x.sum <= b * x.count
    BY DEF Within
  <1>2. PICK c \in Seen, d \in Seen : c * y.count <= y.sum /\ y.sum <= d * y.count
    BY DEF Within
  <1>3. a \in Nat /\ b \in Nat /\ c \in Nat /\ d \in Nat
    BY StatsAssumption DEF Seen
  <1> DEFINE m == x.sum  n == y.sum  k == x.count  l == y.count
  <1>4. m \in Nat /\ n \in Nat /\ k \in Nat /\ l \in Nat
    BY BinFields
  <1>5. a * k <= m /\ m <= b * k /\ c * l <= n /\ n <= d * l
    BY <1>1, <1>2
  <1>6. Merged(x, y).sum = m + n /\ Merged(x, y).count = k + l
    BY DEF Merged
  <1> HIDE DEF m, n, k, l
  <1>7. \E s \in {a, c} : s * (k + l) <= m + n
    BY <1>3, <1>4, <1>5, LowerMerged
  <1>8. \E t \in {b, d} : m + n <= t * (k + l)
    BY <1>3, <1>4, <1>5, UpperMerged
  <1>9. QED
    BY <1>6, <1>7, <1>8 DEF Within

\* With a bin for each time there are no more bins than times.
LEMMA BinsAreTimes ==
    ASSUME bins \in Seq(BinType), Sorted(bins), SamplesType, OneBinEach, ~Lagging
    PROVE  Len(bins) <= Cardinality(Seen)
  <1> DEFINE n == Len(bins)
             f == [i \in 1..n |-> CHOOSE t \in Times : At(bins[i], t) /\ bins[i].count = InBins(t)]
  <1>1. n \in Nat
    OBVIOUS
  <1>2. ASSUME NEW i \in 1..n PROVE f[i] \in Seen /\ f[i] \in Nat /\ At(bins[i], f[i])
    <2>1. \E t \in Times : At(bins[i], t) /\ bins[i].count = InBins(t)
      BY DEF OneBinEach
    <2>2. f[i] \in Times /\ At(bins[i], f[i]) /\ bins[i].count = InBins(f[i])
      BY <2>1
    <2> HIDE DEF f
    <2>3. bins[i] \in BinType
      OBVIOUS
    <2>4. bins[i].count \in Nat \ {0}
      BY <2>3, BinFields
    <2>5. samples[f[i]] \in Nat \ {0}
      BY <2>2, <2>4 DEF InBins
    <2> DEFINE t == f[i]
    <2>6. t \in Times /\ samples[t] \in Nat \ {0} /\ At(bins[i], t)
      BY <2>2, <2>5
    <2> HIDE DEF t
    <2>7. t \in Seen /\ t \in Nat
      BY <2>6, StatsAssumption DEF Seen
    <2>8. QED
      BY <2>6, <2>7 DEF t
  <1> HIDE DEF f
  <1>3. ASSUME NEW i \in 1..n, NEW j \in 1..n, f[i] = f[j] PROVE i = j
    BY <1>2, <1>3, OneAt
  <1>4. f \in Injection(1..n, Seen)
    <2>1. f \in [1..n -> Seen]
      BY <1>2 DEF f
    <2>2. QED
      BY <1>3, <2>1 DEF Injection, IsInjective
  <1>5. IsFiniteSet(Seen)
    BY DEF SamplesType
  <1>6. Cardinality(1..n) <= Cardinality(Seen)
    BY <1>4, <1>5, FS_Injection
  <1>7. Cardinality(1..n) = n
    <2> HIDE DEF n
    <2>1. Cardinality(1..n) = IF 1 > n THEN 0 ELSE n - 1 + 1
      BY <1>1, FS_Interval
    <2>2. QED
      BY <1>1, <2>1
  <1>8. QED
    BY <1>6, <1>7

\* The invariant holds for new statistics, which have no bins.
LEMMA QuantilesStart == NewConnectorStats => QuantilesInv
  <1> SUFFICES ASSUME NewConnectorStats PROVE QuantilesInv
    OBVIOUS
  <1> USE DEF NewConnectorStats
  <1>1. Seen = {} /\ samples \in [Times -> Nat] /\ Len(bins) = 0
    BY DEF Seen
  <1>2. SamplesType
    BY <1>1, FS_EmptySet DEF SamplesType
  <1>3. BinsInRange
    BY <1>1 DEF BinsInRange
  <1>4. OneBinEach
    <2>1. \A t \in Times : ~(InBins(t) > 0)
      BY DEF InBins, Lagging
    <2>2. QED
      BY <1>1, <2>1 DEF OneBinEach
  <1>5. QED
    BY <1>2, <1>3, <1>4 DEF QuantilesInv

\* A step that neither registers a time nor touches the bins.
LEMMA QuantilesKept ==
    ASSUME QuantilesInv, UNCHANGED <<bins, samples>>,
           handling' \in {"counted", "timed", "added"} =>
               /\ handling \in {"counted", "timed", "added"} /\ reqns' = reqns,
           \A t \in Times : InBins(t)' = InBins(t)
    PROVE  QuantilesInv'
  <1>1. Seen' = Seen
    BY DEF Seen
  <1>2. SamplesType'
    BY <1>1 DEF QuantilesInv, SamplesType
  <1>3. BinsInRange'
    BY <1>1 DEF QuantilesInv, BinsInRange
  <1>4. OneBinEach => OneBinEach'
    BY DEF OneBinEach, At
  <1>5. QED
    BY <1>1, <1>2, <1>3, <1>4 DEF QuantilesInv

\* A request is counted: its time is seen and not yet in a bin.
LEMMA QuantilesCount ==
    ASSUME StatsInv, QuantilesInv, NEW t \in Times, CountRequest(t)
    PROVE  QuantilesInv'
  <1>0. /\ samples \in [Times -> Nat] /\ samples' = [samples EXCEPT ![t] = samples[t] + 1]
        /\ bins' = bins /\ reqns' = t /\ handling = "out" /\ handling' = "counted"
    BY DEF QuantilesInv, SamplesType, CountRequest
  <1>1. samples' \in [Times -> Nat] /\ samples'[t] = samples[t] + 1
        /\ \A u \in Times \ {t} : samples'[u] = samples[u]
    BY <1>0
  <1>2. Seen' = Seen \cup {t}
    <2>1. \A u \in Times : samples[u] \in Nat
      BY <1>0
    <2>2. \A u \in Times : u \in Seen' <=> u \in Seen \/ u = t
      BY <1>1, <2>1 DEF Seen
    <2>3. Seen' \subseteq Times /\ Seen \subseteq Times
      BY DEF Seen
    <2>4. QED
      BY <2>2, <2>3
  <1>3. IsFiniteSet(Seen) /\ IsFiniteSet(Seen') /\ Seen \in SUBSET Seen'
    <2>1. IsFiniteSet(Seen)
      BY DEF QuantilesInv, SamplesType
    <2>2. IsFiniteSet(Seen \cup {t})
      BY <2>1, FS_AddElement
    <2>3. QED
      BY <1>2, <2>1, <2>2
  <1>4. SamplesType'
    BY <1>0, <1>1, <1>2, <1>3 DEF SamplesType
  <1>5. BinsInRange'
    BY <1>0, <1>2 DEF QuantilesInv, BinsInRange
  <1>6. \A u \in Times : InBins(u)' = InBins(u)
    BY <1>0, <1>1 DEF InBins, Lagging
  <1>7. OneBinEach => OneBinEach'
    BY <1>0, <1>6 DEF OneBinEach, At
  <1>8. Cardinality(Seen') <= MaxBins => Cardinality(Seen) <= MaxBins
    <2> DEFINE X == Seen  Y == Seen'
    <2> HIDE DEF X, Y
    <2>1. IsFiniteSet(X) /\ IsFiniteSet(Y) /\ X \in SUBSET Y
      BY <1>3 DEF X, Y
    <2>2. Cardinality(X) <= Cardinality(Y)
      BY <2>1, FS_Subset
    <2>3. Cardinality(X) \in Nat /\ Cardinality(Y) \in Nat
      BY <2>1, FS_CardinalityType
    <2>4. Cardinality(Y) <= MaxBins => Cardinality(X) <= MaxBins
      BY <2>2, <2>3, MaxBinsAssumption
    <2>5. QED
      BY <2>4 DEF X, Y
  <1>9. QED
    BY <1>4, <1>5, <1>7, <1>8 DEF QuantilesInv

\* Add puts the time in the bin at that time, or in a new one.
LEMMA QuantilesAdd ==
    ASSUME StatsInv, QuantilesInv, AddToHistogram
    PROVE  QuantilesInv'
  <1> DEFINE n == reqns
  <1>0. /\ bins' = Insert(bins, n) /\ handling = "timed" /\ handling' = "added"
        /\ UNCHANGED <<samples, reqns>>
    BY DEF AddToHistogram
  <1>1. /\ bins \in Seq(BinType) /\ Sorted(bins) /\ n \in Nat
        /\ samples \in [Times -> Nat] /\ n \in Seen /\ IsFiniteSet(Seen)
    BY <1>0 DEF StatsInv, StatsType, BinsSorted, QuantilesInv, SamplesType
  <1>2. Added(bins, bins', n)
    BY <1>0, <1>1, InsertAdds
  <1>3. Seen' = Seen
    BY <1>0 DEF Seen
  <1>4. SamplesType'
    BY <1>0, <1>1, <1>3 DEF SamplesType
  <1>5. bins' \in Seq(BinType)
    BY <1>0, <1>1, InsertSorted
  <1>6. \A i \in 1..Len(bins) : bins[i] \in BinType /\ bins[i].count \in Nat \ {0}
    BY <1>1, BinFields
  <1>7. \A i \in 1..Len(bins') : bins'[i] \in BinType /\ bins'[i].count \in Nat \ {0} /\ bins'[i].sum \in Nat
    BY <1>5, BinFields
  <1>8. BinsInRange'
    <2> SUFFICES ASSUME NEW k \in 1..Len(bins')
                 PROVE  \E s, t \in Seen : /\ s * bins'[k].count <= bins'[k].sum
                                           /\ bins'[k].sum <= t * bins'[k].count
      BY <1>3 DEF BinsInRange
    <2>1. CASE At(bins'[k], n)
      <3>1. n * bins'[k].count = bins'[k].sum /\ bins'[k].sum \in Nat
        BY <1>7, <2>1 DEF At
      <3>2. QED
        BY <1>1, <3>1
    <2>2. CASE ~At(bins'[k], n)
      <3>1. PICK j \in 1..Len(bins) : bins'[k] = bins[j]
        BY <1>2, <2>2 DEF Added
      <3>2. QED
        BY <3>1 DEF QuantilesInv, BinsInRange
    <2>3. QED
      BY <2>1, <2>2
  <1>9. ASSUME OneBinEach PROVE OneBinEach'
    <2>0. /\ n \in Times /\ samples[n] \in Nat
          /\ \A t \in Times : InBins(t)' = samples[t]
          /\ \A t \in Times : t # n => InBins(t) = samples[t]
          /\ InBins(n) = samples[n] - 1
      BY <1>0, <1>1 DEF InBins, Lagging, Seen
    <2>1. ASSUME NEW j \in 1..Len(bins), NEW t \in Times, NEW u \in Times, At(bins[j], t), At(bins[j], u)
          PROVE  t = u
      <3> DEFINE c == bins[j].count
      <3>1. c \in Nat \ {0} /\ t * c = u * c
        BY <1>6, <2>1 DEF At
      <3>2. t \in Nat /\ u \in Nat
        BY StatsAssumption
      <3> HIDE DEF c
      <3>3. QED
        BY <3>1, <3>2
    <2>2. ASSUME NEW k \in 1..Len(bins')
          PROVE  \E t \in Times : At(bins'[k], t) /\ bins'[k].count = samples[t]
      <3>1. CASE ~At(bins'[k], n) /\ \E j \in 1..Len(bins) : bins'[k] = bins[j]
        <4>1. PICK j \in 1..Len(bins) : bins'[k] = bins[j]
          BY <3>1
        <4>2. PICK t \in Times : At(bins[j], t) /\ bins[j].count = InBins(t)
          BY <1>9 DEF OneBinEach
        <4>3. t # n
          BY <3>1, <4>1, <4>2
        <4>4. QED
          BY <2>0, <4>1, <4>2, <4>3
      <3>2. CASE At(bins'[k], n) /\ bins'[k].count = 1 /\ \A j \in 1..Len(bins) : ~At(bins[j], n)
        <4>1. ~(InBins(n) > 0)
          BY <1>9, <2>0, <3>2 DEF OneBinEach
        <4>2. samples[n] > 0
          BY <1>1 DEF Seen
        <4>3. samples[n] = 1
          BY <2>0, <4>1, <4>2
        <4>4. QED
          BY <2>0, <3>2, <4>3
      <3>3. CASE At(bins'[k], n) /\ \E j \in 1..Len(bins) : At(bins[j], n) /\ bins'[k].count = bins[j].count + 1
        <4>1. PICK j \in 1..Len(bins) : At(bins[j], n) /\ bins'[k].count = bins[j].count + 1
          BY <3>3
        <4>2. PICK t \in Times : At(bins[j], t) /\ bins[j].count = InBins(t)
          BY <1>9 DEF OneBinEach
        <4>3. t = n
          BY <2>0, <2>1, <4>1, <4>2
        <4>4. bins'[k].count = (samples[n] - 1) + 1
          BY <2>0, <4>1, <4>2, <4>3
        <4>5. QED
          BY <2>0, <3>3, <4>4
      <3>4. QED
        BY <1>2, <3>1, <3>2, <3>3 DEF Added
    <2>3. ASSUME NEW t \in Times, samples[t] > 0
          PROVE  \E k \in 1..Len(bins') : At(bins'[k], t)
      <3>1. CASE t = n
        BY <1>2, <3>1 DEF Added
      <3>2. CASE t # n
        <4>1. PICK j \in 1..Len(bins) : At(bins[j], t)
          BY <1>9, <2>0, <2>3, <3>2 DEF OneBinEach
        <4>2. ~At(bins[j], n)
          BY <2>0, <2>1, <3>2, <4>1
        <4>3. QED
          BY <1>2, <4>1, <4>2 DEF Added
      <3>3. QED
        BY <3>1, <3>2
    <2>4. /\ \A k \in 1..Len(bins') : \E t \in Times : At(bins'[k], t) /\ bins'[k].count = InBins(t)'
          /\ \A t \in Times : InBins(t)' > 0 => \E k \in 1..Len(bins') : At(bins'[k], t)
      BY <2>0, <2>2, <2>3
    <2>5. QED
      BY <2>4 DEF OneBinEach, At
  <1>10. QED
    BY <1>3, <1>4, <1>8, <1>9 DEF QuantilesInv

\* trim merges only when more times were seen than there may be bins.
LEMMA QuantilesMerge ==
    ASSUME StatsInv, QuantilesInv, TrimMerges
    PROVE  QuantilesInv'
  <1>0. /\ bins' = MergeClosest(bins) /\ Len(bins) > MaxBins /\ handling = "added"
        /\ UNCHANGED <<samples, reqns, handling>>
    BY DEF TrimMerges
  <1>1. bins \in Seq(BinType) /\ Sorted(bins)
    BY DEF StatsInv, StatsType, BinsSorted
  <1>2. Len(bins) \in Nat /\ Len(bins) >= 2
    <2>1. Len(bins) \in Nat
      BY <1>1
    <2>2. QED
      BY <1>0, <2>1, MaxBinsAssumption
  <1>3. MergedInto(bins, bins')
    BY <1>0, <1>1, <1>2, MergeMerges
  <1>4. Seen' = Seen
    BY <1>0 DEF Seen
  <1>5. SamplesType'
    BY <1>0, <1>4 DEF QuantilesInv, SamplesType
  <1>6. \A i \in 1..Len(bins) : bins[i] \in BinType /\ Within(bins[i])
    BY <1>1 DEF QuantilesInv, BinsInRange, Within
  <1>7. BinsInRange'
    <2>1. ASSUME NEW k \in 1..Len(bins') PROVE Within(bins'[k])
      <3>1. CASE \E j \in 1..Len(bins) : bins'[k] = bins[j]
        BY <1>6, <3>1
      <3>2. CASE \E i, j \in 1..Len(bins) : bins'[k] = Merged(bins[i], bins[j])
        BY <1>6, <3>2, WithinMerged
      <3>3. QED
        BY <1>3, <3>1, <3>2 DEF MergedInto
    <2>2. QED
      BY <1>4, <2>1 DEF BinsInRange, Within
  <1>8. ~(Cardinality(Seen) <= MaxBins)
    <2> SUFFICES ASSUME Cardinality(Seen) <= MaxBins PROVE FALSE
      OBVIOUS
    <2>1. OneBinEach /\ SamplesType
      BY DEF QuantilesInv
    <2>2. ~Lagging
      BY <1>0 DEF Lagging
    <2>3. Len(bins) <= Cardinality(Seen)
      BY <1>1, <2>1, <2>2, BinsAreTimes
    <2>4. Cardinality(Seen) \in Nat
      BY <2>1, FS_CardinalityType DEF SamplesType
    <2>5. QED
      BY <1>0, <1>2, <2>3, <2>4, MaxBinsAssumption
  <1>9. QED
    BY <1>4, <1>5, <1>7, <1>8 DEF QuantilesInv

\* Every step of a message handler keeps the invariant.
LEMMA QuantilesStep == StatsInv /\ QuantilesInv /\ MessageHandler => QuantilesInv'
  <1> SUFFICES ASSUME StatsInv, QuantilesInv, MessageHandler PROVE QuantilesInv'
    OBVIOUS
  <1>1. CASE AddMessageIn
    BY <1>1, QuantilesKept DEF AddMessageIn, InBins, Lagging
  <1>2. CASE HandlingFails
    BY <1>2, QuantilesKept DEF HandlingFails, InBins, Lagging
  <1>3. CASE AddMessageOut
    BY <1>3, QuantilesKept DEF AddMessageOut, InBins, Lagging
  <1>4. ASSUME NEW t \in Times, CountRequest(t) PROVE QuantilesInv'
    BY <1>4, QuantilesCount
  <1>5. CASE MoveAverage
    BY <1>5, QuantilesKept DEF MoveAverage, InBins, Lagging
  <1>6. CASE AddToHistogram
    BY <1>6, QuantilesAdd
  <1>7. CASE TrimMerges
    BY <1>7, QuantilesMerge
  <1>8. CASE TrimEnds
    BY <1>8, QuantilesKept DEF TrimEnds, InBins, Lagging
  <1>9. QED
    BY <1>1, <1>2, <1>3, <1>4, <1>5, <1>6, <1>7, <1>8 DEF MessageHandler

\* So does a step that leaves the statistics alone.
LEMMA QuantilesStutter == QuantilesInv /\ UNCHANGED statVars => QuantilesInv'
  BY QuantilesKept DEF statVars, InBins, Lagging

\* Sums that add up the same numbers are the same.
LEMMA SumsAgree ==
    ASSUME NEW m \in Nat, NEW n \in Nat, m <= n,
           NEW a \in [1..m -> Nat], NEW b \in [1..n -> Nat],
           \A k \in 1..m : a[k] = b[k]
    PROVE  \A k \in 0..m : Sums(a, m)[k] = Sums(b, n)[k]
  <1> DEFINE f == Sums(a, m)  g == Sums(b, n)  h == [k \in 0..m |-> f[k] - g[k]]
  <1>1. /\ f \in [0..m -> Nat] /\ f[0] = 0
        /\ \A k \in 1..m : f[k] = f[k-1] + a[k]
    BY SumsFacts
  <1>2. /\ g \in [0..n -> Nat] /\ g[0] = 0
        /\ \A k \in 1..n : g[k] = g[k-1] + b[k]
    BY SumsFacts
  <1> HIDE DEF f, g
  <1>3. ASSUME NEW k \in 1..m PROVE h[k] = h[k-1]
    <2>1. k \in 0..m /\ k - 1 \in 0..m /\ k \in 1..n /\ k \in 0..n /\ k - 1 \in 0..n
      OBVIOUS
    <2>2. /\ f[k-1] \in Nat /\ g[k-1] \in Nat /\ a[k] \in Nat /\ a[k] = b[k]
          /\ f[k] = f[k-1] + a[k] /\ g[k] = g[k-1] + b[k]
      BY <1>1, <1>2, <2>1
    <2>3. h[k] = f[k] - g[k] /\ h[k-1] = f[k-1] - g[k-1]
      BY <2>1
    <2> HIDE DEF h
    <2>4. QED
      BY <2>2, <2>3
  <1>4. h[0] = 0
    BY <1>1, <1>2
  <1>5. \A k \in 0..m : h[k] = f[k] - g[k] /\ f[k] \in Nat /\ g[k] \in Nat
    BY <1>1, <1>2
  <1> HIDE DEF h
  <1>6. \A k \in 0..m : h[k] = h[0]
    <2> DEFINE lo == 0
    <2>1. lo \in Nat /\ \A k \in (lo + 1)..m : h[k] = h[k-1]
      BY <1>3
    <2> HIDE DEF lo
    <2>2. \A k \in lo..m : h[k] = h[lo]
      BY <2>1, Constant
    <2>3. QED
      BY <2>2 DEF lo
  <1>7. QED
    BY <1>4, <1>5, <1>6 DEF f, g

Registered(x) == IF x \in Times THEN samples[x] ELSE 0

\* No request took from x up to y: those that took up to y are those that took
\* less than x, and those that took y.
LEMMA FasterStep ==
    ASSUME samples \in [Times -> Nat], NEW x \in Nat, NEW y \in Nat, x <= y,
           \A z \in x..(y - 1) : Registered(z) = 0
    PROVE  Faster(y + 1) = Faster(x) + Registered(y)
  <1> DEFINE n == y + 1
             a == [k \in 1..x |-> Registered(k - 1)]
             b == [k \in 1..n |-> Registered(k - 1)]
             g == Sums(b, n)
  <1>1. Faster(x) = Sums(a, x)[x] /\ Faster(y + 1) = g[n]
    BY DEF Faster, Registered
  <1>2. a \in [1..x -> Nat] /\ b \in [1..n -> Nat]
    BY DEF Registered
  <1>3. \A k \in 1..x : a[k] = b[k]
    OBVIOUS
  <1>4. \A k \in (x + 1)..y : k \in 1..n /\ k - 1 \in x..(y - 1) /\ b[k] = 0
    OBVIOUS
  <1>5. b[n] = Registered(y)
    OBVIOUS
  <1>6. n \in Nat /\ x <= n /\ x \in 0..x /\ n \in 1..n /\ n - 1 = y /\ y \in x..y
    OBVIOUS
  <1>7. \A k \in (x + 1)..y : k \in 1..n /\ k - 1 \in 0..n
    OBVIOUS
  <1>8. x \in 0..n
    OBVIOUS
  <1> HIDE DEF n, a, b
  <1>9. Sums(a, x)[x] = g[x]
    BY <1>2, <1>3, <1>6, SumsAgree
  <1>10. g \in [0..n -> Nat] /\ \A k \in 1..n : g[k] = g[k-1] + b[k]
    BY <1>2, <1>6, SumsFacts
  <1> HIDE DEF g
  <1>11. \A k \in (x + 1)..y : g[k] = g[k-1]
    <2> SUFFICES ASSUME NEW k \in (x + 1)..y PROVE g[k] = g[k-1]
      OBVIOUS
    <2>1. g[k] = g[k-1] + b[k] /\ b[k] = 0 /\ g[k-1] \in Nat
      BY <1>4, <1>7, <1>10
    <2>2. QED
      BY <2>1
  <1>12. g[y] = g[x]
    <2>1. \A k \in x..y : g[k] = g[x]
      BY <1>11, Constant
    <2>2. QED
      BY <1>6, <2>1
  <1>13. g[n] = g[n-1] + b[n]
    BY <1>6, <1>10
  <1>14. QED
    BY <1>1, <1>5, <1>6, <1>9, <1>12, <1>13

\* No request took less than no time.
LEMMA FasterNone == ASSUME samples \in [Times -> Nat] PROVE Faster(0) = 0
  <1> DEFINE o == 0
             a == [k \in 1..o |-> IF k - 1 \in Times THEN samples[k-1] ELSE 0]
  <1>1. Faster(0) = Sums(a, o)[o]
    BY DEF Faster
  <1>2. o \in Nat /\ a \in [1..o -> Nat]
    OBVIOUS
  <1> HIDE DEF a
  <1>3. Sums(a, o)[0] = 0
    <2> HIDE DEF o
    <2>1. QED
      BY <1>2, SumsFacts
  <1>4. QED
    BY <1>1, <1>3

\* The times of the bins, in their order.
TimesOfBins(f) ==
    /\ f \in [1..Len(bins) -> Seen]
    /\ \A i \in 1..Len(bins) : At(bins[i], f[i]) /\ bins[i].count = samples[f[i]]
    /\ \A i, j \in 1..Len(bins) : f[i] < f[j] <=> i < j
    /\ \A t \in Seen : \E i \in 1..Len(bins) : f[i] = t

\* Before trim had to merge, each bin is at one time and each time in one bin.
LEMMA TimesExist ==
    ASSUME bins \in Seq(BinType), Sorted(bins), SamplesType, OneBinEach, ~Lagging
    PROVE  \E f : TimesOfBins(f)
  <1> DEFINE n == Len(bins)
             f == [i \in 1..n |-> CHOOSE t \in Times : At(bins[i], t) /\ bins[i].count = InBins(t)]
  <1>0. \A t \in Times : InBins(t) = samples[t] /\ samples[t] \in Nat /\ t \in Nat
    BY StatsAssumption DEF InBins, SamplesType
  <1>1. ASSUME NEW i \in 1..n
        PROVE  f[i] \in Seen /\ f[i] \in Nat /\ At(bins[i], f[i]) /\ bins[i].count = samples[f[i]]
    <2>1. \E t \in Times : At(bins[i], t) /\ bins[i].count = InBins(t)
      BY DEF OneBinEach
    <2>2. f[i] \in Times /\ At(bins[i], f[i]) /\ bins[i].count = InBins(f[i])
      BY <2>1
    <2> DEFINE t == f[i]
    <2>3. t \in Times /\ At(bins[i], t) /\ bins[i].count = samples[t] /\ t \in Nat
      BY <1>0, <2>2
    <2> HIDE DEF t, f
    <2>4. bins[i] \in BinType
      OBVIOUS
    <2>5. bins[i].count \in Nat \ {0}
      BY <2>4, BinFields
    <2>6. t \in Seen
      BY <2>3, <2>5 DEF Seen
    <2>7. QED
      BY <2>3, <2>6 DEF t
  <1>2. f \in [1..n -> Seen]
    BY <1>1
  <1> HIDE DEF f
  <1>3. \A i, j \in 1..n : f[i] < f[j] <=> i < j
    BY <1>1, AtOrder
  <1>4. ASSUME NEW t \in Seen PROVE \E i \in 1..n : f[i] = t
    <2>1. t \in Times /\ InBins(t) > 0 /\ t \in Nat
      BY <1>0 DEF Seen
    <2>2. PICK i \in 1..n : At(bins[i], t)
      BY <2>1 DEF OneBinEach
    <2>3. ~(f[i] < t) /\ ~(t < f[i])
      BY <1>1, <2>1, <2>2, AtOrder
    <2>4. f[i] = t
      BY <1>1, <2>1, <2>3
    <2>5. QED
      BY <2>4
  <1>5. TimesOfBins(f)
    BY <1>1, <1>2, <1>3, <1>4 DEF TimesOfBins
  <1>6. QED
    BY <1>5

\* The samples in the first i bins are the requests that took no longer than
\* the time of bin i.
LEMMA BelowIsFaster ==
    ASSUME bins \in Seq(BinType), samples \in [Times -> Nat], NEW f, TimesOfBins(f)
    PROVE  \A i \in 1..Len(bins) : Below(bins, i) = Faster(f[i] + 1)
  <1> DEFINE n == Len(bins)
             Bad == {i \in 1..n : Below(bins, i) # Faster(f[i] + 1)}
  <1>0. n \in Nat
    OBVIOUS
  <1>1. \A i \in 1..n : /\ f[i] \in Nat /\ f[i] \in Times
                        /\ Registered(f[i]) = samples[f[i]] /\ bins[i].count = samples[f[i]]
    <2> SUFFICES ASSUME NEW i \in 1..n
                 PROVE  /\ f[i] \in Nat /\ f[i] \in Times
                        /\ Registered(f[i]) = samples[f[i]] /\ bins[i].count = samples[f[i]]
      OBVIOUS
    <2>1. f[i] \in Seen /\ bins[i].count = samples[f[i]]
      BY DEF TimesOfBins
    <2>2. f[i] \in Times
      BY <2>1 DEF Seen
    <2>3. QED
      BY <2>1, <2>2, StatsAssumption DEF Registered
  <1>2. ASSUME NEW z \in Nat, Registered(z) # 0 PROVE \E j \in 1..n : f[j] = z
    <2>1. z \in Times /\ samples[z] \in Nat /\ samples[z] # 0
      BY <1>2 DEF Registered
    <2>2. z \in Seen
      BY <2>1 DEF Seen
    <2>3. QED
      BY <2>2 DEF TimesOfBins
  <1>3. \A i, j \in 1..n : f[i] < f[j] <=> i < j
    BY DEF TimesOfBins
  <1>4. /\ Below(bins, 0) = 0
        /\ \A k \in 1..n : Below(bins, k) = Below(bins, k-1) + bins[k].count
    BY BelowSteps
  <1>5. SUFFICES ASSUME Bad # {} PROVE FALSE
    OBVIOUS
  <1>6. PICK i \in Bad : \A j \in Bad : i <= j
    <2> HIDE DEF Bad
    <2>1. Bad \in SUBSET Nat
      BY DEF Bad
    <2>2. QED
      BY <1>5, <2>1, NatMin
  <1> DEFINE y == f[i]
  <1>7. i \in 1..n /\ Below(bins, i) # Faster(y + 1) /\ y \in Nat /\ bins[i].count = Registered(y)
    BY <1>1, <1>6
  <1> HIDE DEF n
  <1>8. CASE i = 1
    <2>1. ASSUME NEW z \in 0..(y - 1) PROVE Registered(z) = 0
      <3> SUFFICES ASSUME Registered(z) # 0 PROVE FALSE
        OBVIOUS
      <3>1. z \in Nat /\ z < y
        BY <1>7
      <3>2. PICK j \in 1..n : f[j] = z
        BY <1>2, <3>1
      <3>3. j < i
        BY <1>3, <1>7, <3>1, <3>2
      <3>4. QED
        BY <1>0, <1>8, <3>3
    <2>2. Faster(y + 1) = Faster(0) + Registered(y)
      <3> DEFINE x == 0
      <3>1. x \in Nat /\ x <= y /\ \A z \in x..(y - 1) : Registered(z) = 0
        BY <1>7, <2>1
      <3> HIDE DEF x, y
      <3>2. Faster(y + 1) = Faster(x) + Registered(y)
        BY <1>7, <3>1, FasterStep
      <3>3. QED
        BY <3>2 DEF x
    <2>3. Below(bins, 1) = Below(bins, 0) + bins[1].count
      <3>1. 1 \in 1..n /\ 1 - 1 = 0
        BY <1>7, <1>8
      <3>2. QED
        BY <1>4, <3>1
    <2>4. Faster(0) = 0
      BY FasterNone
    <2>5. QED
      BY <1>4, <1>7, <1>8, <2>2, <2>3, <2>4
  <1>9. CASE i # 1
    <2> DEFINE p == i - 1  x == f[p] + 1
    <2>1. p \in 1..n /\ p < i /\ i = p + 1
      BY <1>0, <1>7, <1>9
    <2>2. p \notin Bad
      <3> HIDE DEF Bad
      <3>1. ~(i <= p)
        BY <1>0, <2>1
      <3>2. QED
        BY <1>6, <3>1
    <2>3. Below(bins, p) = Faster(x)
      BY <2>1, <2>2 DEF n
    <2>4. f[p] < y /\ f[p] \in Nat
      BY <1>1, <1>3, <1>7, <2>1
    <2>5. x \in Nat /\ x <= y
      BY <1>7, <2>4
    <2>6. ASSUME NEW z \in x..(y - 1) PROVE Registered(z) = 0
      <3> SUFFICES ASSUME Registered(z) # 0 PROVE FALSE
        OBVIOUS
      <3>1. z \in Nat /\ z < y /\ f[p] < z
        BY <1>7, <2>4
      <3>2. PICK j \in 1..n : f[j] = z
        BY <1>2, <3>1
      <3>3. p < j /\ j < i
        BY <1>3, <1>7, <2>1, <3>1, <3>2
      <3>4. j \in Int /\ p \in Int
        BY <1>0, <2>1
      <3>5. QED
        BY <2>1, <3>3, <3>4
    <2> HIDE DEF x, y, p
    <2>7. Faster(y + 1) = Faster(x) + Registered(y)
      BY <1>7, <2>5, <2>6, FasterStep
    <2>8. Below(bins, i) = Below(bins, p) + bins[i].count
      BY <1>4, <1>7 DEF p
    <2>9. QED
      BY <1>7, <2>3, <2>7, <2>8
  <1>10. QED
    BY <1>8, <1>9

\* Quantile is the first bin up to which q percent of the samples lie.
LEMMA QuantileIsFirst ==
    ASSUME NEW s \in Seq(BinType), Len(s) > 0, NEW q \in 0..100
    PROVE  /\ Quantile(s, q) \in 1..Len(s)
           /\ 100 * Below(s, Quantile(s, q)) >= q * Below(s, Len(s))
           /\ \A j \in 1..Len(s) :
                 j < Quantile(s, q) => 100 * Below(s, j) < q * Below(s, Len(s))
  <1> DEFINE n == Len(s)
             Reached == {i \in 1..n : 100 * Below(s, i) >= q * Below(s, n)}
             r == Quantile(s, q)
  <1>1. n \in Nat /\ n \in 1..n
    OBVIOUS
  <1>2. \A k \in 1..n : Below(s, k) \in Nat
    BY BelowSteps
  <1>3. n \in Reached
    <2> DEFINE b == Below(s, n)
    <2>1. b \in Nat
      BY <1>1, <1>2
    <2> HIDE DEF b
    <2>2. 100 * b >= q * b
      BY <2>1
    <2>3. QED
      BY <1>1, <2>2 DEF b
  <1>4. r = CHOOSE i \in Reached : \A j \in Reached : i <= j
    BY <1>3 DEF Quantile
  <1>5. Reached \in SUBSET Nat
    OBVIOUS
  <1> HIDE DEF Reached, r
  <1>6. r \in Reached /\ \A j \in Reached : r <= j
    BY <1>3, <1>4, <1>5, NatMin
  <1>7. r \in 1..n /\ 100 * Below(s, r) >= q * Below(s, n)
    BY <1>6 DEF Reached
  <1>8. ASSUME NEW j \in 1..n, j < r PROVE 100 * Below(s, j) < q * Below(s, n)
    <2>1. j \notin Reached
      BY <1>6, <1>7, <1>8
    <2>2. ~(100 * Below(s, j) >= q * Below(s, n))
      BY <2>1 DEF Reached
    <2>3. Below(s, j) \in Nat /\ Below(s, n) \in Nat
      BY <1>1, <1>2
    <2>4. QED
      BY <2>2, <2>3
  <1>9. QED
    BY <1>7, <1>8 DEF r

\* The order of bins is asymmetric.
LEMMA LessAsymmetric ==
    ASSUME NEW x \in BinType, NEW y \in BinType, Less(x, y)
    PROVE  ~Less(y, x) /\ x # y
  <1> DEFINE a == x.sum * y.count  b == y.sum * x.count
  <1>1. a \in Nat /\ b \in Nat
    BY BinFields
  <1>2. (Less(x, y) <=> a < b) /\ (Less(y, x) <=> b < a)
    BY DEF Less
  <1>3. x = y => a = b
    OBVIOUS
  <1> HIDE DEF a, b
  <1>4. QED
    BY <1>1, <1>2, <1>3

-----------------------------------------------------------------------------
(* The theorems.                                                           *)

\* For any number of bins and any request times, the bins of the histogram are
\* in strict order at every moment, in the middle of Add and trim too, none is
\* empty, and the connector gives its lock back with no more than MaxBins.
THEOREM BinsStayInOrder == Spec => []BinsInOrder
  <1>1. MonitoringInv => BinsInOrder
    <2> SUFFICES ASSUME MonitoringInv PROVE BinsInOrder
      OBVIOUS
    <2>1. Sorted(bins) /\ (handling = "idle" => Len(bins) <= MaxBins)
      BY DEF MonitoringInv, StatsInv, BinsSorted
    <2>2. \A i \in 1..Len(bins) : bins[i].count > 0
      <3>1. bins \in Seq(BinType)
        BY DEF MonitoringInv, StatsInv, StatsType
      <3>2. \A i \in 1..Len(bins) : bins[i] \in BinType
        BY <3>1
      <3>3. \A i \in 1..Len(bins) : bins[i].count \in Nat \ {0}
        BY <3>2, BinFields
      <3>4. QED
        BY <3>3
    <2>3. QED
      BY <2>1, <2>2 DEF BinsInOrder, Sorted
  <1>2. QED
    BY <1>1, MonitoringInvariant, PTL

\* However the times fall and however often trim merges bins, no sample is lost
\* or counted twice: the histogram's Mean is the mean of all request times, and
\* the average that AddRequestTime updates step by step equals it.
THEOREM MeanStaysExact == Spec => []MeanIsExact
  <1>1. MonitoringInv => MeanIsExact
    BY DEF MonitoringInv, StatsInv, AverageExact, BinsExact, MeanIsExact
  <1>2. QED
    BY <1>1, MonitoringInvariant, PTL

\* Any number of requests, answered while the connector forwards messages:
\* what Stats copied under the lock is the state between two messages.
THEOREM ReportsAreConsistent == Spec => []ReportConsistent
  <1>1. MonitoringInv => ReportConsistent
    BY DEF MonitoringInv
  <1>2. QED
    BY <1>1, MonitoringInvariant, PTL

\* Monitoring requests and Stop leave the statistics alone.
LEMMA HandlerOrStutter == [Next]_vars => MessageHandler \/ UNCHANGED statVars
  <1> SUFFICES ASSUME [Next]_vars PROVE MessageHandler \/ UNCHANGED statVars
    OBVIOUS
  <1>1. ASSUME NEW r \in Requests, HandleRequest(r) \/ \E p \in Paths : Accept(r, p)
        PROVE  UNCHANGED statVars
    BY <1>1 DEF HandleRequest, Handle, CopyStats, ScanQuantile, ScanPanics, Answer, Accept
  <1>2. CASE Stop
    BY <1>2 DEF Stop, StopBegins, StopMonitoring, ShutdownReturns, ShutdownTimesOut
  <1>3. CASE UNCHANGED vars
    BY <1>3 DEF vars
  <1>4. QED
    BY <1>1, <1>2, <1>3 DEF Next

\* What the monitoring page shows as a percentile is right for any times, any
\* number of requests and of bins: it never falls for a larger percentage and
\* lies between the shortest and the longest time, however often trim merged;
\* and before trim has had to merge it is the exact quantile of the requests.
THEOREM QuantilesStayExact == Spec => []QuantileIsExact
  <1> DEFINE Inv == MonitoringInv /\ QuantilesInv
  <1>1. Init => Inv
    <2> SUFFICES ASSUME Init PROVE QuantilesInv
      BY MonitoringStart
    <2>1. QED
      BY QuantilesStart DEF Init
  <1>2. Inv /\ [Next]_vars => Inv'
    <2>1. MonitoringInv /\ QuantilesInv /\ [Next]_vars => QuantilesInv'
      BY HandlerOrStutter, QuantilesStep, QuantilesStutter DEF MonitoringInv
    <2>2. QED
      BY <2>1, MonitoringStep
  <1>3. Inv => QuantileIsExact
    <2> SUFFICES ASSUME MonitoringInv, QuantilesInv, handling = "idle", RequestCount > 0,
                        NEW q \in Percents
                 PROVE  LET b == bins[Quantile(bins, q)] IN
                        /\ \E s, t \in Seen : s * b.count <= b.sum /\ b.sum <= t * b.count
                        /\ \A p \in Percents : p < q => ~Less(b, bins[Quantile(bins, p)])
                        /\ Cardinality(Seen) <= MaxBins =>
                              \E t \in Seen :
                                 /\ b.sum = t * b.count
                                 /\ 100 * Faster(t + 1) >= q * RequestCount
                                 /\ \A s \in Seen : s < t => 100 * Faster(s + 1) < q * RequestCount
      BY DEF QuantileIsExact
    <2> DEFINE n == Len(bins)
               r == Quantile(bins, q)
               b == bins[r]
    <2>1. bins \in Seq(BinType) /\ Sorted(bins) /\ RequestCount \in Nat
      BY DEF MonitoringInv, StatsInv, StatsType, BinsSorted
    <2>2. n \in Nat /\ RequestCount = Below(bins, n)
      <3>1. RequestCount = Below(bins, n)
        BY DEF MonitoringInv, StatsInv, BinsExact
      <3>2. QED
        BY <2>1, <3>1
    <2>3. n > 0
      <3>1. n = 0 => Below(bins, n) = 0
        BY <2>1, BelowSteps
      <3>2. QED
        BY <2>1, <2>2, <3>1
    <2>4. \A p \in Percents : p \in 0..100
      BY DEF Percents
    <2>5. ASSUME NEW p \in Percents
          PROVE  /\ Quantile(bins, p) \in 1..n
                 /\ 100 * Below(bins, Quantile(bins, p)) >= p * Below(bins, n)
                 /\ \A j \in 1..n : j < Quantile(bins, p) => 100 * Below(bins, j) < p * Below(bins, n)
      BY <2>1, <2>3, <2>4, QuantileIsFirst
    <2>6. \A k \in 1..n : Below(bins, k) \in Nat
      BY <2>1, BelowSteps
    <2>7. r \in 1..n
      BY <2>5
    <2>8. \E s, t \in Seen : s * b.count <= b.sum /\ b.sum <= t * b.count
      BY <2>7 DEF QuantilesInv, BinsInRange
    <2>9. ASSUME NEW p \in Percents, p < q PROVE ~Less(b, bins[Quantile(bins, p)])
      <3> DEFINE o == Quantile(bins, p)
      <3>1. o \in 1..n
        BY <2>5
      <3>2. ~(r < o)
        <4> SUFFICES ASSUME r < o PROVE FALSE
          OBVIOUS
        <4> DEFINE B == Below(bins, r)  N == Below(bins, n)
        <4>1. 100 * B < p * N
          BY <2>5, <2>7
        <4>2. 100 * B >= q * N
          BY <2>5
        <4>3. B \in Nat /\ N \in Nat /\ p \in Nat /\ q \in Nat
          <5>1. n \in 1..n
            BY <2>2, <2>3
          <5>2. B \in Nat /\ N \in Nat
            BY <2>6, <2>7, <5>1
          <5>3. p \in 0..100 /\ q \in 0..100
            BY <2>4
          <5> HIDE DEF B, N
          <5>4. QED
            BY <5>2, <5>3
        <4> HIDE DEF B, N
        <4>4. p * N <= q * N
          BY <2>9, <4>3
        <4>5. QED
          BY <4>1, <4>2, <4>3, <4>4
      <3>3. bins[o] \in BinType /\ b \in BinType
        BY <2>1, <2>7, <3>1
      <3>4. o = r \/ o < r
        BY <2>7, <3>1, <3>2
      <3>5. o < r => Less(bins[o], b)
        BY <2>1, <2>7, <3>1 DEF Sorted
      <3> HIDE DEF r, o
      <3>6. QED
        BY <3>3, <3>4, <3>5, LessAsymmetric DEF o
    <2>10. ASSUME Cardinality(Seen) <= MaxBins
           PROVE  \E t \in Seen :
                     /\ b.sum = t * b.count
                     /\ 100 * Faster(t + 1) >= q * RequestCount
                     /\ \A s \in Seen : s < t => 100 * Faster(s + 1) < q * RequestCount
      <3>1. SamplesType /\ OneBinEach /\ ~Lagging
        BY <2>10 DEF QuantilesInv, Lagging
      <3>2. PICK f : TimesOfBins(f)
        BY <2>1, <3>1, TimesExist
      <3>3. \A i \in 1..n : Below(bins, i) = Faster(f[i] + 1)
        BY <2>1, <3>1, <3>2, BelowIsFaster DEF SamplesType
      <3> DEFINE t == f[r]
      <3>4. t \in Seen /\ b.sum = t * b.count
        BY <2>7, <3>2 DEF TimesOfBins, At
      <3>5. 100 * Faster(t + 1) >= q * RequestCount
        BY <2>2, <2>5, <2>7, <3>3
      <3>6. ASSUME NEW s \in Seen, s < t PROVE 100 * Faster(s + 1) < q * RequestCount
        <4>1. PICK j \in 1..n : f[j] = s
          BY <3>2 DEF TimesOfBins
        <4>2. j < r
          BY <2>7, <3>2, <3>6, <4>1 DEF TimesOfBins
        <4>3. 100 * Below(bins, j) < q * Below(bins, n)
          BY <2>5, <4>2
        <4>4. QED
          BY <2>2, <3>3, <4>1, <4>3
      <3> HIDE DEF t, b
      <3>7. QED
        BY <3>4, <3>5, <3>6
    <2> HIDE DEF b
    <2>11. QED
      BY <2>8, <2>9, <2>10 DEF b, r
  <1>4. QED
    BY <1>1, <1>2, <1>3, PTL DEF Spec

=============================================================================
