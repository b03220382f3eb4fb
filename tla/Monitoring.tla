----------------------------- MODULE Monitoring -----------------------------
(***************************************************************************)
(* The monitoring server (src/nats-mq/core/monitoring.go) beside a         *)
(* connector at work: requests, each a goroutine, and Stop, which waits    *)
(* for them with runningLock held.                                         *)
(*                                                                         *)
(* Stats copies the counters under the connector's lock; the copy shares   *)
(* the histogram, and UpdateQuintiles scans it without the lock.  A scan   *)
(* that meets an Add is a data race: it may return anything, or run past   *)
(* the end of the bins, a panic that net/http recovers.                    *)
(***************************************************************************)
EXTENDS ConnectorStats

CONSTANTS
    Requests,   \* requests that can be under way together
    MaxHTTP     \* bound: requests served

VARIABLES
    request,        \* per request: "none", "root", "healthz", "varz", "copy", "scan",
                    \* "report"
    report,         \* per request: the connector's stats, and the quantiles found so far
    httpReqStats,   \* requests counted, by path
    monitor,        \* "serving", "closing" while Shutdown waits, "closed", "timeout"
    runningLock,    \* "free", "stop"
    accepted        \* spent bound

httpVars == <<request, report, httpReqStats, monitor, runningLock, accepted>>
vars == <<statVars, httpVars>>

Paths == {"root", "varz", "healthz"}

NoReport == [copy |-> <<>>, quintiles |-> 0]

\* startMonitoring has made the map and the server.
Init ==
    /\ NewConnectorStats
    /\ request = [r \in Requests |-> "none"]
    /\ report = [r \in Requests |-> NoReport]
    /\ httpReqStats = [p \in Paths |-> 0] /\ accepted = 0
    /\ monitor = "serving" /\ runningLock = "free"

\* The server accepts a request.
Accept(r, p) ==
    /\ monitor = "serving" /\ request[r] = "none" /\ accepted < MaxHTTP
    /\ request' = [request EXCEPT ![r] = p]
    /\ accepted' = accepted + 1
    /\ UNCHANGED <<statVars, report, httpReqStats, monitor, runningLock>>

\* HandleRoot, HandleHealthz, and HandleVarz's first lines: count the request,
\* under statsLock.
Handle(r) ==
    /\ request[r] \in Paths
    /\ httpReqStats' = [httpReqStats EXCEPT ![request[r]] = @ + 1]
    /\ request' = [request EXCEPT ![r] = IF @ = "varz" THEN "copy" ELSE "none"]
    /\ UNCHANGED <<statVars, report, monitor, runningLock, accepted>>

\* Mutant: Stats copies without the connector's lock.
AnyTime == TRUE

\* Stats takes the connector's lock.
LockFree == handling = "idle"

\* Mutant: stats is called with the running lock, as its comment says.
RunningLockFree == runningLock = "free"

\* HandleVarz does not take the running lock.
MayCollect == TRUE

\* stats: the connector's Stats, a copy (sum: history, of all times so far).
CopyStats(r) ==
    /\ request[r] = "copy" /\ LockFree /\ MayCollect
    /\ report' = [report EXCEPT ![r].copy =
                    <<[in |-> MessagesIn, out |-> MessagesOut, count |-> RequestCount,
                       average |-> MovingAverage, sum |-> total]>>]
    /\ request' = [request EXCEPT ![r] = "scan"]
    /\ UNCHANGED <<statVars, httpReqStats, monitor, runningLock, accepted>>

\* UpdateQuintiles, one Quantile after the other; the value is as good as the
\* bins were (QuantileIsExact), or anything, -1 too, while Add was at work.
ScanQuantile(r) ==
    /\ request[r] = "scan"
    /\ report' = [report EXCEPT ![r].quintiles = @ + 1]
    /\ request' = [request EXCEPT ![r] =
                     IF report[r].quintiles + 1 = Cardinality(Percents) THEN "report" ELSE @]
    /\ UNCHANGED <<statVars, httpReqStats, monitor, runningLock, accepted>>

\* A bin was merged away under the scan: the index is out of range.
ScanPanics(r) ==
    /\ request[r] = "scan" /\ handling \in {"timed", "added"}
    /\ request' = [request EXCEPT ![r] = "none"]
    /\ report' = [report EXCEPT ![r] = NoReport]
    /\ UNCHANGED <<statVars, httpReqStats, monitor, runningLock, accepted>>

\* stats copies httpReqStats under statsLock, HandleVarz answers.
Answer(r) ==
    /\ request[r] = "report"
    /\ request' = [request EXCEPT ![r] = "none"]
    /\ report' = [report EXCEPT ![r] = NoReport]
    /\ UNCHANGED <<statVars, httpReqStats, monitor, runningLock, accepted>>

\* Stop takes the running lock, and keeps it.
StopBegins ==
    /\ runningLock = "free" /\ monitor = "serving"
    /\ runningLock' = "stop"
    /\ UNCHANGED <<statVars, request, report, httpReqStats, monitor, accepted>>

\* StopMonitoring: Shutdown closes the listener and waits for the requests,
StopMonitoring ==
    /\ runningLock = "stop" /\ monitor = "serving"
    /\ monitor' = "closing"
    /\ UNCHANGED <<statVars, request, report, httpReqStats, runningLock, accepted>>

Active == {r \in Requests : request[r] # "none"}

\* until there are none,
ShutdownReturns ==
    /\ monitor = "closing" /\ Active = {}
    /\ monitor' = "closed" /\ runningLock' = "free"
    /\ UNCHANGED <<statVars, request, report, httpReqStats, accepted>>

\* or five seconds are over, and StopMonitoring returns the error.
ShutdownTimesOut ==
    /\ monitor = "closing" /\ Active # {}
    /\ monitor' = "timeout" /\ runningLock' = "free"
    /\ UNCHANGED <<statVars, request, report, httpReqStats, accepted>>

HandleRequest(r) == Handle(r) \/ CopyStats(r) \/ ScanQuantile(r) \/ ScanPanics(r) \/ Answer(r)

Stop == StopBegins \/ StopMonitoring \/ ShutdownReturns \/ ShutdownTimesOut

Next ==
    \/ MessageHandler /\ UNCHANGED httpVars
    \/ \E r \in Requests : HandleRequest(r) \/ \E p \in Paths : Accept(r, p)
    \/ Stop

\* Handlers run on, and one that waits for the connector's lock gets it in the
\* end; nothing says that messages, requests, Stop or the timeout come.
Fairness ==
    /\ WF_vars(handling # "idle" /\ MessageHandler /\ UNCHANGED httpVars)
    /\ \A r \in Requests : WF_vars(HandleRequest(r)) /\ SF_vars(CopyStats(r))
    /\ WF_vars(ShutdownReturns)

Spec == Init /\ [][Next]_vars /\ Fairness

-----------------------------------------------------------------------------
(* Properties.                                                             *)

\* The counters of a report belong together, though the connector counts one
\* after the other while requests come in (Stats): what was forwarded, the
\* number of request times, and their exact average.
ReportConsistent ==
    \A r \in Requests : \A c \in Range(report[r].copy) :
        /\ c.in >= c.out /\ c.out = c.count
        /\ c.average.num * c.count = c.sum * c.average.den

\* When Stop waits for the requests under way, with the running lock held, all
\* of them come to their end, without the help of the timeout (StopMonitoring).
RequestsEnd == monitor = "closing" ~> Active = {}

=============================================================================
