--------------------------- MODULE ConnectorStats ---------------------------
(***************************************************************************)
(* The statistics of a connector (src/nats-mq/core/stats.go) as its        *)
(* message handler keeps them, with the connector's lock: messages in and  *)
(* out, the moving average of the request times and their histogram.       *)
(*                                                                         *)
(* The handler is one process here: its calls take turns at the lock.      *)
(* Monitoring.tla has those who read the statistics.                       *)
(***************************************************************************)
EXTENDS Histogram, FiniteSets

CONSTANTS Times,         \* request times, in some unit
          MaxRequests,   \* bound: messages forwarded
          MaxFailures    \* bound: messages that could not be forwarded

ASSUME StatsAssumption ==
    Times \subseteq Nat /\ MaxRequests \in Nat /\ MaxFailures \in Nat

VARIABLES
    MessagesIn,
    MessagesOut,
    RequestCount,
    MovingAverage,   \* a fraction
    bins,            \* the bins of stats.histogram
    handling,        \* the message handler: "idle", "in", "out", "counted", "timed",
                     \* "added"; it has the connector's lock unless idle
    reqns,           \* the request time it is adding
    samples,         \* history: how often each request time was registered
    total            \* history: the sum of the request times

statVars == <<MessagesIn, MessagesOut, RequestCount, MovingAverage, bins, handling, reqns,
              samples, total>>

NewConnectorStats ==
    /\ MessagesIn = 0 /\ MessagesOut = 0 /\ RequestCount = 0
    /\ MovingAverage = [num |-> 0, den |-> 1]
    /\ bins = <<>>
    /\ handling = "idle"
    /\ reqns = 0
    /\ samples = [t \in Times |-> 0] /\ total = 0

\* The handler takes the lock: AddMessageIn.
AddMessageIn ==
    /\ handling = "idle" /\ MessagesIn < MaxRequests + MaxFailures
    /\ handling' = "in"
    /\ MessagesIn' = MessagesIn + 1
    /\ UNCHANGED <<MessagesOut, RequestCount, MovingAverage, bins, reqns, samples, total>>

\* The message is not converted, published or committed, and the handler returns.
HandlingFails ==
    /\ handling = "in" /\ MessagesIn - MessagesOut <= MaxFailures
    /\ handling' = "idle"
    /\ UNCHANGED <<MessagesIn, MessagesOut, RequestCount, MovingAverage, bins, reqns, samples, total>>

\* It is forwarded: AddMessageOut.
AddMessageOut ==
    /\ handling = "in" /\ MessagesOut < MaxRequests
    /\ handling' = "out"
    /\ MessagesOut' = MessagesOut + 1
    /\ UNCHANGED <<MessagesIn, RequestCount, MovingAverage, bins, reqns, samples, total>>

\* AddRequestTime counts the request
CountRequest(t) ==
    /\ handling = "out"
    /\ handling' = "counted"
    /\ RequestCount' = RequestCount + 1
    /\ reqns' = t
    /\ samples' = [samples EXCEPT ![t] = @ + 1] /\ total' = total + t
    /\ UNCHANGED <<MessagesIn, MessagesOut, MovingAverage, bins>>

\* Mutant: the old average is weighted with the new count.
AverageOfAll(avg, n, t) == [num |-> n * avg.num + t * avg.den, den |-> n * avg.den]

\* ((n - 1) * avg + t) / n
Average(avg, n, t) == [num |-> (n - 1) * avg.num + t * avg.den, den |-> n * avg.den]

\* and moves the average,
MoveAverage ==
    /\ handling = "counted"
    /\ handling' = "timed"
    /\ MovingAverage' = Average(MovingAverage, RequestCount, reqns)
    /\ UNCHANGED <<MessagesIn, MessagesOut, RequestCount, bins, reqns, samples, total>>

\* and adds to the histogram.
AddToHistogram ==
    /\ handling = "timed"
    /\ handling' = "added"
    /\ bins' = Insert(bins, reqns)
    /\ UNCHANGED <<MessagesIn, MessagesOut, RequestCount, MovingAverage, reqns, samples, total>>

\* trim, which Add deferred: bins are merged as long as there are too many,
TrimMerges ==
    /\ handling = "added" /\ Len(bins) > MaxBins
    /\ bins' = MergeClosest(bins)
    /\ UNCHANGED <<MessagesIn, MessagesOut, RequestCount, MovingAverage, handling, reqns,
                   samples, total>>

\* and then the handler gives the lock back.
TrimEnds ==
    /\ handling = "added" /\ Len(bins) <= MaxBins
    /\ handling' = "idle" /\ reqns' = 0
    /\ UNCHANGED <<MessagesIn, MessagesOut, RequestCount, MovingAverage, bins, samples, total>>

MessageHandler ==
    \/ AddMessageIn \/ HandlingFails \/ AddMessageOut
    \/ \E t \in Times : CountRequest(t)
    \/ MoveAverage \/ AddToHistogram \/ TrimMerges \/ TrimEnds

-----------------------------------------------------------------------------
(* Properties, of the statistics that whoever takes the lock finds.        *)

Seen == {t \in Times : samples[t] > 0}

\* The requests that took less than x.
Faster(x) ==
    Sums([k \in 1..x |-> IF k - 1 \in Times THEN samples[k-1] ELSE 0], x)[x]

\* Quantile's scan relies on the order of the bins: at any moment, while trim
\* merges them too, they are in strict order and none is empty; no more than
\* MaxBins are left when the lock is given back.
BinsInOrder ==
    /\ \A i, j \in 1..Len(bins) : i < j => Less(bins[i], bins[j])
    /\ \A i \in 1..Len(bins) : bins[i].count > 0
    /\ handling = "idle" => Len(bins) <= MaxBins

\* The bins hold all the requests, and the histogram's Mean, however often bins
\* were merged, is the exact mean of all request times; so is the moving
\* average.
MeanIsExact ==
    handling = "idle" =>
        /\ MeanSum(bins) = total /\ Below(bins, Len(bins)) = RequestCount
        /\ MovingAverage.num * RequestCount = total * MovingAverage.den

\* As long as no more than MaxBins different times were seen, Quantile is the
\* smallest time that at least q percent of the requests did not exceed.
\* However bins were merged, it is no less than for a smaller q, and lies
\* between the shortest and the longest time.
QuantileIsExact ==
    handling = "idle" /\ RequestCount > 0 =>
        \A q \in Percents :
            LET b == bins[Quantile(bins, q)]
                UpTo(x) == Faster(x + 1)
            IN  /\ \E s, t \in Seen : s * b.count <= b.sum /\ b.sum <= t * b.count
                /\ \A p \in Percents : p < q => ~Less(b, bins[Quantile(bins, p)])
                /\ Cardinality(Seen) <= MaxBins =>
                      \E t \in Seen :
                          /\ b.sum = t * b.count
                          /\ 100 * UpTo(t) >= q * RequestCount
                          /\ \A s \in Seen : s < t => 100 * UpTo(s) < q * RequestCount

=============================================================================
