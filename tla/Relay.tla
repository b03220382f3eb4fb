------------------------------- MODULE Relay -------------------------------
(***************************************************************************)
(* Two connectors of one bridge in a row, as in src/docs/tutorial.md: one  *)
(* of type NATS2Queue puts the messages of the subject tick on a queue,    *)
(* one of type Queue2NATS publishes what is on the queue to tock.          *)
(*                                                                         *)
(* The NATS connection is shared (bridge.nats).  natsMessageHandler only   *)
(* hands a message to the NATS client, and the listener commits.  The      *)
(* client sends what it holds while it is connected; what it has not sent  *)
(* when the connection breaks is written to the dead socket and lost; what *)
(* it is handed until it is connected again it keeps, unless it gives the  *)
(* connection up.  Each connector has an MQ connection of its own.         *)
(***************************************************************************)
EXTENDS Listener, Sequences, SequencesExt

CONSTANTS InStarts,      \* bound: calls of Start, of the first connector
          InFailures,    \* bound: its failed conversions and puts
          MaxOutages     \* bound: outages of NATS and of its MQ connection

\* The messages of the queue are known by their places, from 1 on.
ASSUME RelayAssumption ==
    /\ Cardinality(Messages) \in Nat /\ Messages = 1..Cardinality(Messages)
    /\ InStarts \in Nat /\ InFailures \in Nat /\ MaxOutages \in Nat

VARIABLES
    next, nats, sub, pending, cb, dest, placed,   \* see NATSSubscriber
    inStarts, inFailures, outages,
    closed,    \* the NATS client has given its connection up
    outbox,    \* messages the NATS client has not sent yet
    tock,      \* messages that came to the subject tock, by their places
    lost       \* history: messages the NATS client has dropped

In == INSTANCE NATSSubscriber
        WITH N <- Cardinality(Messages), MaxStarts <- InStarts,
             MaxFailures <- InFailures, starts <- inStarts, failures <- inFailures

inVars    == <<next, nats, sub, pending, cb, dest, placed, inStarts, inFailures,
               outages>>
natsSide  == <<closed, outbox, tock, lost>>
relayVars == <<vars, inVars, natsSide>>

RelayInit ==
    /\ Init /\ In!Init
    /\ closed = FALSE /\ outbox = <<>> /\ tock = <<>> /\ lost = {}

-----------------------------------------------------------------------------

\* A Put of the first connector is an arrival for the second, which knows the
\* message by its place in the order of the puts.
PutArrives(e) == In!Put(e) /\ Arrive(Len(placed) + 1) /\ UNCHANGED natsSide

\* The other steps of the first connector; a connection that was given up does
\* not come back.
InStep ==
    /\ \/ In!NatsPublish \/ In!MqGone \/ In!Start \/ In!Shutdown
       \/ In!Dispatch \/ \E e \in In!Epochs : In!PutFails(e)
       \/ ~closed /\ In!NatsBack
    /\ UNCHANGED <<vars, natsSide>>

\* Start of the second one checks NATS before anything else.
OutStarts == nats /\ Start /\ UNCHANGED <<inVars, natsSide>>

\* natsMessageHandler: Publish fails on a connection that was given up.
HandOver(e) ==
    /\ ~closed /\ Publish(e)
    /\ outbox' = outbox \o SetToSeq(hand[e])
    /\ UNCHANGED <<inVars, closed, tock, lost>>

\* Everything else the second connector does.
OutStep ==
    /\ \/ ShutdownLocks \/ ShutdownEnds
       \/ \E e \in Epochs :
             \/ Break(e) \/ Ends(e) \/ PublishFails(e) \/ Commit(e) \/ Back(e)
             \/ \E m \in Messages : Get(e, m)
    /\ UNCHANGED <<inVars, natsSide>>

-----------------------------------------------------------------------------
(* The NATS client.                                                        *)

\* It sends what it was handed, in that order.
Flush ==
    /\ nats /\ outbox # <<>>
    /\ tock' = Append(tock, Head(outbox)) /\ outbox' = Tail(outbox)
    /\ UNCHANGED <<vars, inVars, closed, lost>>

\* What it holds is gone.
DropOutbox == lost' = lost \cup Range(outbox) /\ outbox' = <<>> /\ UNCHANGED tock

\* The connection breaks, and takes with it what was not sent.
NatsBreaks == In!NatsGone /\ DropOutbox /\ UNCHANGED <<vars, closed>>

\* The client has used up its reconnects.
GivesUp ==
    /\ ~nats /\ ~closed /\ closed' = TRUE
    /\ DropOutbox
    /\ UNCHANGED <<vars, inVars>>

RelayNext ==
    \/ InStep \/ OutStarts \/ OutStep \/ Flush \/ NatsBreaks \/ GivesUp
    \/ \E e \in In!Epochs : PutArrives(e)
    \/ \E e \in Epochs : HandOver(e)

RelaySpec == RelayInit /\ [][RelayNext]_relayVars

-----------------------------------------------------------------------------
(* Properties.                                                             *)

\* The first connector puts in the order of its subject, and once.
PutInOrder == In!PutInOrder

\* What the first connector has put comes out at tock in order, but for
\* repetitions, and without a gap other than the messages the NATS client held,
\* committed on MQ, when it lost its connection; what is not out is still on
\* MQ, with the client, or one of those.
RelayedInOrder ==
    LET out == tock \o outbox IN
    /\ \A i \in DOMAIN out, k \in DOMAIN placed :
          k < out[i] => k \in lost \/ \E j \in 1..i : out[j] = k
    /\ DOMAIN placed \subseteq Source \cup Range(out) \cup lost

=============================================================================
