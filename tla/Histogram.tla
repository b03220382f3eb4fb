------------------------------ MODULE Histogram ------------------------------
(***************************************************************************)
(* The streaming histogram of src/nats-mq/core/histogram.go.               *)
(*                                                                         *)
(* A bin holds the sum and the count of its samples; its Value is the      *)
(* quotient, so that the weighted average of a merge is exact.  Quantiles  *)
(* are given in percent.  The rounding of float64 is left out.             *)
(***************************************************************************)
EXTENDS Integers, Sequences, SequencesExt

CONSTANT MaxBins    \* h.MaxBins, 60 in NewConnectorStats

ASSUME MaxBinsAssumption == MaxBins \in Nat \ {0}

\* The quantiles UpdateQuintiles asks for.
Percents == {50, 75, 90, 95}

Bin(n) == [sum |-> n, count |-> 1]

\* b.Value < c.Value
Less(b, c) == b.sum * c.count < c.sum * b.count

\* Mutant: a new bin goes after the first larger one.
InsertPastLarger(bins, n) ==
    LET i == SelectInSeq(bins, LAMBDA b : b.sum >= n * b.count) IN
    IF i = 0 THEN Append(bins, Bin(n))
    ELSE IF bins[i].sum = n * bins[i].count
         THEN ReplaceAt(bins, i, [sum |-> bins[i].sum + n, count |-> bins[i].count + 1])
         ELSE InsertAt(bins, i + 1, Bin(n))

\* The loop of Add: count n in the bin of that value, or make a bin for it
\* before the first larger one.
Insert(bins, n) ==
    LET i == SelectInSeq(bins, LAMBDA b : b.sum >= n * b.count) IN
    IF i = 0 THEN Append(bins, Bin(n))
    ELSE IF bins[i].sum = n * bins[i].count
         THEN ReplaceAt(bins, i, [sum |-> bins[i].sum + n, count |-> bins[i].count + 1])
         ELSE InsertAt(bins, i, Bin(n))

\* bins[i].Value - bins[i-1].Value, as a fraction.
Delta(bins, i) ==
    [num |-> bins[i].sum * bins[i-1].count - bins[i-1].sum * bins[i].count,
     den |-> bins[i].count * bins[i-1].count]

\* The first of the bins that are closest to the bin before them.
Closest(bins) ==
    LET Leq(i, j) == Delta(bins, i).num * Delta(bins, j).den
                        <= Delta(bins, j).num * Delta(bins, i).den
    IN  CHOOSE i \in 2..Len(bins) :
            /\ \A j \in 2..Len(bins) : Leq(i, j)
            /\ \A j \in 2..(i - 1) : ~Leq(j, i)

\* The weighted average of two bins.
Merged(b, c) == [sum |-> b.sum + c.sum, count |-> b.count + c.count]

\* A turn of the loop in trim: the closest bins become one.
MergeClosest(bins) ==
    LET i == Closest(bins) IN
    SubSeq(bins, 1, i - 2) \o <<Merged(bins[i-1], bins[i])>> \o SubSeq(bins, i + 1, Len(bins))

\* The sums of a[1], ..., a[k], for k up to n: a loop that adds up.
Sums(a, n) ==
    LET f[k \in 0..n] == IF k = 0 THEN 0 ELSE f[k-1] + a[k] IN f

\* The samples in the first i bins.
Below(bins, i) == Sums([k \in 1..Len(bins) |-> bins[k].count], Len(bins))[i]

\* Mutant: the quantile is the bin after which more than q of the samples lie.
QuantileStrict(bins, q) ==
    LET Reached == {i \in 1..Len(bins) : 100 * Below(bins, i) > q * Below(bins, Len(bins))}
    IN  IF Reached = {} THEN 0 ELSE CHOOSE i \in Reached : \A j \in Reached : i <= j

\* The bin whose Value Quantile returns, 0 when it returns -1.
Quantile(bins, q) ==
    LET Reached == {i \in 1..Len(bins) : 100 * Below(bins, i) >= q * Below(bins, Len(bins))}
    IN  IF Reached = {} THEN 0 ELSE CHOOSE i \in Reached : \A j \in Reached : i <= j

\* Mean times Total: the sum of Value * Count.
MeanSum(bins) == Sums([k \in 1..Len(bins) |-> bins[k].sum], Len(bins))[Len(bins)]

=============================================================================
