--------------------------- MODULE StanSubscriber ---------------------------
(***************************************************************************)
(* A connector that reads a streaming channel and puts to MQ:              *)
(* subscribeToChannel of src/nats-mq/core/connector.go, while the bridge   *)
(* shuts the connector down and starts it again.                           *)
(*                                                                         *)
(* Each Start opens a new MQ object and subscribes with a callback that    *)
(* captures it (dest); the two are numbered alike.  Start that fails, as   *)
(* the one of a durable that is still subscribed does, is a no-op here.    *)
(*                                                                         *)
(* External: the streaming server.  It sends what a subscription has not   *)
(* acknowledged, again after a while; it keeps the acknowledgements of a   *)
(* durable when its connection goes, and it refuses a second subscription  *)
(* for a durable.  Message i of the channel was published at time i; a     *)
(* position beyond the last message is taken as it stands.                 *)
(***************************************************************************)
EXTENDS Integers, FiniteSets

CONSTANTS N,                 \* bound: messages published to the channel
          Positions,         \* StartAtTime and StartAtSequence, 0 when absent
          MaxStarts,         \* bound: calls of Start
          MaxFailures,       \* bound: failed conversions and puts, lost acks
          MaxOutages         \* bound: outages of MQ and of the streaming server

ASSUME SubscriberAssumption ==
    /\ N \in Nat /\ MaxStarts \in Nat /\ MaxFailures \in Nat /\ MaxOutages \in Nat
    /\ Positions \subseteq [time : Nat, sequence : Nat \cup {-1}]

Epochs == 1..MaxStarts
Messages == 1..N

VARIABLES
    durable,    \* config.DurableName is set
    position,   \* config.StartAtTime and config.StartAtSequence
    last,       \* the last message of the channel
    base,       \* where the subscription starts, 0 before the first
    acked,      \* messages acknowledged on it
    live,       \* the subscription the server has, 0 for none
    inbox,      \* messages sent to it, not yet in its callback
    cb,         \* per subscription: the message in its callback, or 0
    lock,       \* the subscription whose callback is past its Put, or 0
    up,         \* the connector is started
    dest,       \* the MQ object that can be put to, 0 for none
    placed,     \* messages on MQ
    starts, failures, outages    \* spent bounds

config == <<durable, position>>
vars == <<config, last, base, acked, live, inbox, cb, lock, up, dest, placed,
          starts, failures, outages>>

Init ==
    /\ durable \in BOOLEAN /\ position \in Positions
    /\ last = 0 /\ base = 0 /\ acked = {} /\ live = 0 /\ inbox = {}
    /\ cb = [e \in Epochs |-> 0]
    /\ lock = 0 /\ up = FALSE /\ dest = 0 /\ placed = {}
    /\ starts = 0 /\ failures = 0 /\ outages = 0

\* What the server has to send to the subscription.
Owed == {m \in 1..last : base > 0 /\ m >= base /\ m \notin acked}

-----------------------------------------------------------------------------
(* The channel, and the outages.                                           *)

ChannelPublish ==
    /\ last < N
    /\ last' = last + 1
    /\ UNCHANGED <<config, base, acked, live, inbox, cb, lock, up, dest,
                   placed, starts, failures, outages>>

\* The streaming connection is lost, with the subscriptions on it.  (The bound
\* on starts leaves one for after the outage.)
StanGone ==
    /\ live # 0 /\ outages < MaxOutages /\ starts < MaxStarts
    /\ outages' = outages + 1
    /\ live' = 0 /\ inbox' = {}
    /\ UNCHANGED <<config, last, base, acked, cb, lock, up, dest, placed,
                   starts, failures>>

\* The queue manager goes away: every Put fails until the next Start.
MqGone ==
    /\ dest # 0 /\ outages < MaxOutages
    /\ outages' = outages + 1
    /\ dest' = 0
    /\ UNCHANGED <<config, last, base, acked, live, inbox, cb, lock, up,
                   placed, starts, failures>>

-----------------------------------------------------------------------------
(* Start and Shutdown.                                                     *)

\* Mutant: a subscription without options begins with the last message.
FirstIsLast == IF last = 0 THEN 1 ELSE last

\* The start position of a new subscription, from the options of
\* subscribeToChannel.
First ==
    IF position.time # 0 THEN position.time
    ELSE IF position.sequence = -1 THEN (IF last = 0 THEN 1 ELSE last)
    ELSE IF position.sequence > 0 THEN position.sequence
    ELSE 1

Start ==
    /\ ~up /\ lock = 0 /\ starts < MaxStarts
    /\ live = 0
    /\ starts' = starts + 1
    /\ up' = TRUE /\ dest' = starts + 1 /\ live' = starts + 1
    /\ IF durable /\ base > 0
       THEN UNCHANGED <<base, acked>>
       ELSE base' = First /\ acked' = {}
    /\ UNCHANGED <<config, last, inbox, cb, lock, placed, failures, outages>>

\* Shutdown unsubscribes, except from a durable, and closes the MQ object.
\* (The bound on starts leaves one for after each Shutdown.)
Shutdown ==
    /\ up /\ lock = 0 /\ starts < MaxStarts
    /\ up' = FALSE /\ dest' = 0
    /\ IF durable
       THEN UNCHANGED <<live, inbox>>
       ELSE live' = 0 /\ inbox' = {}
    /\ UNCHANGED <<config, last, base, acked, cb, lock, placed, starts,
                   failures, outages>>

-----------------------------------------------------------------------------
(* Delivery.                                                               *)

\* The server sends a message, for the first time or again.
Send(m) ==
    /\ live # 0 /\ m \in Owed \ inbox
    /\ inbox' = inbox \cup {m}
    /\ UNCHANGED <<config, last, base, acked, live, cb, lock, up, dest, placed,
                   starts, failures, outages>>

\* The client calls the callback, which waits for the connector's lock.
Dispatch(m) ==
    /\ live # 0 /\ m \in inbox /\ cb[live] = 0
    /\ inbox' = inbox \ {m}
    /\ cb' = [cb EXCEPT ![live] = m]
    /\ UNCHANGED <<config, last, base, acked, live, lock, up, dest, placed,
                   starts, failures, outages>>

\* The callback has the lock, converts the message and puts it.
Put(e) ==
    /\ cb[e] # 0 /\ lock = 0 /\ dest = e
    /\ placed' = placed \cup {cb[e]}
    /\ lock' = e
    /\ UNCHANGED <<config, last, base, acked, live, inbox, cb, up, dest,
                   starts, failures, outages>>

\* The conversion or the Put fails: logged, and not acknowledged.
PutFails(e) ==
    /\ cb[e] # 0 /\ lock = 0
    /\ IF dest = e
       THEN failures < MaxFailures /\ failures' = failures + 1
       ELSE UNCHANGED failures
    /\ cb' = [cb EXCEPT ![e] = 0]
    /\ UNCHANGED <<config, last, base, acked, live, inbox, lock, up, dest,
                   placed, starts, outages>>

\* Mutant: every message is acknowledged, put or not.
AcksAlways(e) == cb[e] # 0 /\ lock \in {0, e}

\* msg.Ack is called after a Put that succeeded.
MayAck(e) == lock = e

\* The acknowledgement reaches the server, and the callback returns.
Ack(e) ==
    /\ MayAck(e) /\ live = e
    /\ acked' = acked \cup {cb[e]}
    /\ cb' = [cb EXCEPT ![e] = 0] /\ lock' = 0
    /\ UNCHANGED <<config, last, base, live, inbox, up, dest, placed, starts,
                   failures, outages>>

\* ... or is lost with the connection or on the way: its error is ignored.
AckLost(e) ==
    /\ lock = e
    /\ IF live = e
       THEN failures < MaxFailures /\ failures' = failures + 1
       ELSE UNCHANGED failures
    /\ cb' = [cb EXCEPT ![e] = 0] /\ lock' = 0
    /\ UNCHANGED <<config, last, base, acked, live, inbox, up, dest, placed,
                   starts, outages>>

Callback(e) == Put(e) \/ PutFails(e) \/ Ack(e) \/ AckLost(e)

Next ==
    \/ ChannelPublish \/ StanGone \/ MqGone \/ Start \/ Shutdown
    \/ \E m \in Messages : Send(m) \/ Dispatch(m)
    \/ \E e \in Epochs : Callback(e)

Spec == Init /\ [][Next]_vars

\* The server sends what it owes, the client calls the callback, and one that
\* waits for the lock gets it.
FairSpec ==
    /\ Spec
    /\ \A m \in Messages : WF_vars(Send(m)) /\ WF_vars(Dispatch(m))
    /\ \A e \in Epochs : WF_vars(Callback(e))

-----------------------------------------------------------------------------
(* Properties.                                                             *)

Abstract == INSTANCE Delivery WITH source <- Messages \ acked, target <- placed

\* The subscriber implements Delivery: through lost acknowledgements, failed
\* puts, outages and restarts, the channel gives a message up only when it is
\* on MQ, and is asked for it again where a restart forgets that.
ImplementsDelivery == Abstract!Spec

\* Messages the configured start position leaves out.  The last message
\* received is the last one at the time of the subscription: of the first one
\* for a durable, else of the latest, so that a restart passes over the others.
Excluded(m) ==
    IF position.time # 0 THEN m < position.time
    ELSE IF position.sequence = -1 THEN m < base
    ELSE m < position.sequence

\* Once there was a subscription no message of the channel from the start
\* position on is passed over, by an outage or by a restart: one that is not on
\* MQ is owed to the subscription.
NoneSkipped ==
    base > 0 => \A m \in 1..last : m \in placed \/ m \in Owed \/ Excluded(m)

\* Without a durable name every message of the channel from the start position
\* on comes to MQ: what was not acknowledged, or was in a callback when the
\* connector was restarted, is sent again.  This asks that again and again the
\* connector is up with both connections working: it does not notice that MQ
\* is gone, the bridge may leave it on a dead streaming connection, and a
\* durable one that was shut down cannot start again.
EventuallyPlaced ==
    ~durable /\ []<>(dest # 0 /\ live # 0) =>
        \A m \in Messages : (m <= last) ~> (m \in placed \/ Excluded(m))

=============================================================================
