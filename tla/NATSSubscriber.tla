--------------------------- MODULE NATSSubscriber ---------------------------
(***************************************************************************)
(* A connector that reads a NATS subject and puts to MQ: subscribeToNATS   *)
(* of src/nats-mq/core/connector.go, while the bridge shuts the connector  *)
(* down and starts it again.  NATS sends a message once, and only to whom  *)
(* is subscribed; the callback logs what it cannot put.                    *)
(*                                                                         *)
(* Each Start opens a new MQ object and subscribes with a callback that    *)
(* captures it (dest); the two are numbered alike.                         *)
(*                                                                         *)
(* External: the NATS client calls the callback of a subscription for one  *)
(* message after the other; Unsubscribe drops those it has not called it   *)
(* for, and does not wait for the call in progress.                        *)
(***************************************************************************)
EXTENDS Naturals, Sequences

CONSTANTS N,              \* bound: messages published to the subject
          MaxStarts,      \* bound: calls of Start
          MaxFailures,    \* bound: failed conversions and puts
          MaxOutages      \* bound: outages of MQ and of NATS

Epochs == 1..MaxStarts

VARIABLES
    next,       \* the last message published
    nats,       \* the NATS connection is up
    sub,        \* mq.sub, 0 for nil
    pending,    \* messages the client holds for it, in order
    cb,         \* per subscription: the message in its callback, or 0
    dest,       \* the MQ object that can be put to, 0 for none
    placed,     \* messages put to MQ, in order
    starts, failures, outages    \* spent bounds

vars == <<next, nats, sub, pending, cb, dest, placed, starts,
          failures, outages>>

Init ==
    /\ next = 0 /\ nats = TRUE /\ sub = 0 /\ pending = <<>>
    /\ cb = [e \in Epochs |-> 0]
    /\ dest = 0 /\ placed = <<>>
    /\ starts = 0 /\ failures = 0 /\ outages = 0

\* A message is published to the subject: the client gets it, or nobody.
NatsPublish ==
    /\ next < N
    /\ next' = next + 1
    /\ IF sub # 0 /\ nats
       THEN pending' = Append(pending, next')
       ELSE UNCHANGED pending
    /\ UNCHANGED <<nats, sub, cb, dest, placed, starts, failures, outages>>

\* NATS is out of reach for a while; the client keeps its subscriptions.
NatsGone ==
    /\ nats /\ outages < MaxOutages
    /\ outages' = outages + 1 /\ nats' = FALSE
    /\ UNCHANGED <<next, sub, pending, cb, dest, placed, starts, failures>>

NatsBack ==
    /\ ~nats /\ nats' = TRUE
    /\ UNCHANGED <<next, sub, pending, cb, dest, placed, starts,
                   failures, outages>>

\* The queue manager goes away: every Put fails until the next Start.
MqGone ==
    /\ dest # 0 /\ outages < MaxOutages
    /\ outages' = outages + 1 /\ dest' = 0
    /\ UNCHANGED <<next, nats, sub, pending, cb, placed, starts, failures>>

\* Start checks NATS, opens the MQ object and subscribes, all under the lock.
Start ==
    /\ sub = 0 /\ nats /\ starts < MaxStarts
    /\ starts' = starts + 1 /\ sub' = starts + 1 /\ dest' = starts + 1
    /\ UNCHANGED <<next, nats, pending, cb, placed, failures, outages>>

\* Shutdown unsubscribes and closes the MQ object.
Shutdown ==
    /\ sub # 0
    /\ sub' = 0 /\ dest' = 0
    /\ pending' = <<>>
    /\ UNCHANGED <<next, nats, cb, placed, starts, failures, outages>>

\* The client calls the callback, which waits for the connector's lock.
Dispatch ==
    /\ sub # 0 /\ pending # <<>> /\ cb[sub] = 0
    /\ cb' = [cb EXCEPT ![sub] = Head(pending)]
    /\ pending' = Tail(pending)
    /\ UNCHANGED <<next, nats, sub, dest, placed, starts, failures, outages>>

\* Mutant: the callback puts to the connector's object of the moment.
CurrentDest(e) == dest # 0

\* The callback puts to the object that was open when it was made.
CanPut(e) == dest = e

\* The callback has the lock, converts the message and puts it.
Put(e) ==
    /\ cb[e] # 0 /\ CanPut(e)
    /\ placed' = Append(placed, cb[e])
    /\ cb' = [cb EXCEPT ![e] = 0]
    /\ UNCHANGED <<next, nats, sub, pending, dest, starts, failures, outages>>

\* The conversion or the Put fails: logged, and the message is gone.
PutFails(e) ==
    /\ cb[e] # 0
    /\ IF CanPut(e)
       THEN failures < MaxFailures /\ failures' = failures + 1
       ELSE UNCHANGED failures
    /\ cb' = [cb EXCEPT ![e] = 0]
    /\ UNCHANGED <<next, nats, sub, pending, dest, placed, starts, outages>>

Next ==
    \/ NatsPublish \/ NatsGone \/ NatsBack \/ MqGone \/ Start \/ Shutdown \/ Dispatch
    \/ \E e \in Epochs : Put(e) \/ PutFails(e)

Spec == Init /\ [][Next]_vars

-----------------------------------------------------------------------------
(* Properties.                                                             *)

\* The messages come to MQ in the order of the subject and none comes twice,
\* also when a callback of the subscription before a restart is still waiting
\* for the lock while the new subscription is served.
PutInOrder == \A i, j \in 1..Len(placed) : i < j => placed[i] < placed[j]

=============================================================================
