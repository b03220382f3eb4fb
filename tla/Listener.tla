------------------------------ MODULE Listener ------------------------------
(***************************************************************************)
(* A connector that reads from MQ: setUpCallback or setUpPolling with the  *)
(* function of createMQCallback, while the bridge shuts the connector down *)
(* and starts it again (src/nats-mq/core/connector.go).                    *)
(*                                                                         *)
(* Each Start makes a new queue manager connection and a new reader, the   *)
(* consumer thread of the MQ client or the polling goroutine; both are     *)
(* numbered alike.  The reader gets a message under syncpoint before the   *)
(* callback takes the connector's lock; the callback then works with       *)
(* whatever mq.qMgr is by that time.                                       *)
(*                                                                         *)
(* External: a queue gives its oldest message first, and a message that is *)
(* backed out takes its old place; MQOP_STOP waits for a consumer that is  *)
(* in its callback; a connection that ends, whether disconnected or        *)
(* broken, backs out what was not committed.                               *)
(***************************************************************************)
EXTENDS Naturals, FiniteSets

CONSTANTS Messages,      \* messages put on the queue, numbered in that order
          Polling,       \* config.UsePolling
          MaxStarts,     \* bound: calls of Start
          MaxShutdowns,  \* bound: calls of Shutdown
          MaxFailures,   \* bound: failed conversions and publishes
          MaxBreaks      \* bound: broken queue manager connections

ASSUME ListenerAssumption ==
    /\ Messages \subseteq Nat
    /\ Polling \in BOOLEAN
    /\ MaxStarts \in Nat /\ MaxShutdowns \in Nat /\ MaxFailures \in Nat /\ MaxBreaks \in Nat

Epochs == 1..MaxStarts

VARIABLES
    arrived,     \* history: messages that were put on the queue
    queue,       \* messages available on the queue
    uow,         \* per connection: messages got and not committed
    published,   \* messages published at least once
    qMgr,        \* mq.qMgr: 0 for nil
    starts,      \* connections made so far
    alive,       \* connections that work
    told,        \* readers that were told to stop
    lock,        \* who holds the connector's lock: "free", "shutdown", "callback"
    reader,      \* per connection: what its reader is doing
    hand,        \* per connection: the message its reader holds, or {}
    crashed,     \* a nil queue manager was used: the process is gone
    shutdowns, failures, breaks    \* spent bounds

vars == <<arrived, queue, uow, published, qMgr, starts, alive, told, lock, reader,
          hand, crashed, shutdowns, failures, breaks>>

Init ==
    /\ arrived = {} /\ queue = {}
    /\ uow = [e \in Epochs |-> {}]
    /\ published = {}
    /\ qMgr = 0 /\ starts = 0 /\ alive = {} /\ told = {}
    /\ lock = "free"
    /\ reader = [e \in Epochs |-> "none"]
    /\ hand = [e \in Epochs |-> {}]
    /\ crashed = FALSE /\ shutdowns = 0 /\ failures = 0 /\ breaks = 0

\* What was not committed on connection e is back on the queue.
BackOut(e) ==
    /\ queue' = queue \cup uow[e]
    /\ uow' = [uow EXCEPT ![e] = {}]

-----------------------------------------------------------------------------
(* Start and Shutdown, called by the bridge.                               *)

\* Another program puts a message on the queue.
Arrive(m) ==
    /\ \A k \in arrived : k < m
    /\ arrived' = arrived \cup {m} /\ queue' = queue \cup {m}
    /\ UNCHANGED <<uow, published, qMgr, starts, alive, told, lock, reader, hand,
                   crashed, shutdowns, failures, breaks>>

\* Start, from connectToMQ to setUpListener, under the connector's lock.
Start ==
    /\ ~crashed /\ lock = "free" /\ qMgr = 0 /\ starts < MaxStarts
    /\ starts' = starts + 1 /\ qMgr' = starts + 1
    /\ alive' = alive \cup {starts + 1}
    /\ reader' = [reader EXCEPT ![starts + 1] = "idle"]
    /\ UNCHANGED <<arrived, queue, uow, published, told, lock, hand, crashed, shutdowns,
                   failures, breaks>>

\* Shutdown takes the lock and calls shutdownCB.
ShutdownLocks ==
    /\ ~crashed /\ lock = "free" /\ qMgr # 0 /\ shutdowns < MaxShutdowns
    /\ shutdowns' = shutdowns + 1
    /\ lock' = "shutdown"
    /\ UNCHANGED <<arrived, queue, uow, published, qMgr, starts, alive, told, reader,
                   hand, crashed, failures, breaks>>

\* Mutant: callbacks are not stopped, as in polling.
StopsAtOnce == TRUE

\* shutdownCB returns: at once for a poller (close(done)), for callbacks when
\* no consumer is in its callback (MQOP_STOP).
StopReturns == Polling \/ reader[qMgr] = "idle"

\* The rest of Shutdown: the queue is closed, Disc, mq.qMgr = nil, unlock.
ShutdownEnds ==
    /\ ~crashed /\ lock = "shutdown" /\ StopReturns
    /\ lock' = "free" /\ qMgr' = 0
    /\ alive' = alive \ {qMgr} /\ told' = told \cup {qMgr}
    /\ BackOut(qMgr)
    /\ UNCHANGED <<arrived, published, starts, reader, hand, crashed, shutdowns,
                   failures, breaks>>

\* A queue manager connection breaks.
Break(e) ==
    /\ ~crashed /\ e \in alive /\ breaks < MaxBreaks
    /\ breaks' = breaks + 1
    /\ alive' = alive \ {e}
    /\ BackOut(e)
    /\ UNCHANGED <<arrived, published, qMgr, starts, told, lock, reader, hand, crashed,
                   shutdowns, failures>>

-----------------------------------------------------------------------------
(* The reader of connection e.                                             *)

\* Get returns a message, or the MQ client calls the consumer with one.
Get(e, m) ==
    /\ ~crashed /\ reader[e] = "idle" /\ e \in alive
    /\ m \in queue /\ \A k \in queue : m <= k
    /\ queue' = queue \ {m}
    /\ uow' = [uow EXCEPT ![e] = @ \cup {m}]
    /\ reader' = [reader EXCEPT ![e] = "got"]
    /\ hand' = [hand EXCEPT ![e] = {m}]
    /\ UNCHANGED <<arrived, published, qMgr, starts, alive, told, lock, crashed,
                   shutdowns, failures, breaks>>

\* A poller whose Get returned without a message finds done closed, and ends;
\* a consumer that was stopped is not called again.
Ends(e) ==
    /\ ~crashed /\ reader[e] = "idle" /\ e \in told
    /\ reader' = [reader EXCEPT ![e] = "ended"]
    /\ UNCHANGED <<arrived, queue, uow, published, qMgr, starts, alive, told, lock,
                   hand, crashed, shutdowns, failures, breaks>>

\* The callback takes the lock, converts and publishes.
Publish(e) ==
    /\ ~crashed /\ reader[e] = "got" /\ lock = "free"
    /\ lock' = "callback"
    /\ published' = published \cup hand[e]
    /\ reader' = [reader EXCEPT ![e] = "published"]
    /\ UNCHANGED <<arrived, queue, uow, qMgr, starts, alive, told, hand, crashed,
                   shutdowns, failures, breaks>>

\* ... or fails to convert or to publish.
PublishFails(e) ==
    /\ ~crashed /\ reader[e] = "got" /\ lock = "free" /\ failures < MaxFailures
    /\ failures' = failures + 1
    /\ lock' = "callback"
    /\ reader' = [reader EXCEPT ![e] = "failed"]
    /\ UNCHANGED <<arrived, queue, uow, published, qMgr, starts, alive, told, hand,
                   crashed, shutdowns, breaks>>

\* Mutant: the message is committed whether or not it was published.
CommitsAlways == {"published", "failed"}

\* Cmit is called after a publish that succeeded.
Commits == {"published"}

\* The callback returns and unlocks, after ending the unit of work of
\* mq.qMgr; if that is nil, Cmit and Back dereference it and the process panics.
CallbackReturns(e, End) ==
    IF qMgr = 0
    THEN crashed' = TRUE /\ UNCHANGED <<queue, uow, lock, reader, hand>>
    ELSE /\ End
         /\ lock' = "free"
         /\ reader' = [reader EXCEPT ![e] = "idle"]
         /\ hand' = [hand EXCEPT ![e] = {}]
         /\ UNCHANGED crashed

\* Cmit on mq.qMgr, whichever connection that is by now; on a broken one it
\* fails and the callback returns after starting ConnectorError.
Commit(e) ==
    /\ ~crashed /\ reader[e] \in Commits
    /\ CallbackReturns(e, uow' = [uow EXCEPT ![qMgr] = {}] /\ UNCHANGED queue)
    /\ UNCHANGED <<arrived, published, qMgr, starts, alive, told, shutdowns, failures, breaks>>

\* Back on mq.qMgr.
Back(e) ==
    /\ ~crashed /\ reader[e] = "failed"
    /\ CallbackReturns(e, BackOut(qMgr))
    /\ UNCHANGED <<arrived, published, qMgr, starts, alive, told, shutdowns, failures, breaks>>

ReaderStep(e) ==
    \/ \E m \in Messages : Get(e, m)
    \/ Publish(e) \/ PublishFails(e) \/ Commit(e) \/ Back(e)

Next ==
    \/ Start \/ ShutdownLocks \/ ShutdownEnds
    \/ \E m \in Messages : Arrive(m)
    \/ \E e \in Epochs : Break(e) \/ ReaderStep(e) \/ Ends(e)

Spec == Init /\ [][Next]_vars

-----------------------------------------------------------------------------
(* Properties.                                                             *)

\* The messages MQ still has: on the queue or in a unit of work.
Source == queue \cup UNION {uow[e] : e \in Epochs}

Abstract == INSTANCE Delivery WITH source <- Source, target <- published

\* The listener implements Delivery: MQ gives a message up only when it has
\* been published, through failed publishes, broken connections and restarts.
ImplementsDelivery == Abstract!Spec

\* The same as a state predicate: no message has left MQ unpublished.  Violated
\* for a poller that is restarted: the goroutine of the connection before
\* commits what the new one has got (Cmit on mq.qMgr).
NoMessageLost == arrived \subseteq Source \cup published

\* A reader in its callback uses the connection it got the message on: the
\* unit of work it ends is its own.
EndsOwnUnitOfWork ==
    \A e \in Epochs : reader[e] \in {"published", "failed"} => qMgr = e

\* No message is published before the older ones were: a failed publish, a
\* broken connection or a restart lets none overtake another.
PublishedInOrder ==
    \A m \in published, k \in arrived : k < m => k \in published

=============================================================================
