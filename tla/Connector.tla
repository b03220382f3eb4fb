------------------------------ MODULE Connector ------------------------------
(***************************************************************************)
(* Start and Shutdown of one connector, resource by resource, with a       *)
(* failure possible at every step (the *2*.go files and the helpers of     *)
(* connector.go they call).  Every call holds the connector's lock, so     *)
(* calls follow one another; the bridge calls Start only while the         *)
(* connector is not up (NeverStartedTwice of Bridge.tla) and Shutdown at   *)
(* any time.                                                               *)
(*                                                                         *)
(* A reader of MQ is fed by callbacks, which MQOP_STOP ends before it      *)
(* returns, or by a goroutine that polls (setUpPolling), which is told to  *)
(* stop and ends later, outside the connector's lock.                      *)
(***************************************************************************)
EXTENDS Naturals, Sequences, FiniteSets, ConnectorTypes

CONSTANTS MaxStarts,     \* bound: calls of Start
          MaxShutdowns   \* bound: calls of Shutdown

VARIABLES
    type,         \* the connector's type
    durable,      \* a DurableName is configured
    polling,      \* config.UsePolling, for a type that reads MQ
    field,        \* the pointers of the connector object, 0 for nil
    open,         \* <<resource, instance>> pairs that exist outside it
    told,         \* pollers whose done channel is closed and that still run
    serial,       \* instances created so far
    pc, step,     \* the call in progress, and where it is in its sequence
    up,           \* the last call was a Start that returned nil
    last,         \* the last call that returned
    connects, disconnects,          \* ConnectorStats
    starts, shutdowns, failures     \* calls so far, and failed Starts

config == <<type, durable, polling>>
vars == <<config, field, open, told, serial, pc, step, up, last, connects,
          disconnects, starts, shutdowns, failures>>

Resources == {"qMgr", "queue", "topic", "mqSub", "listener", "natsSub", "stanSub"}
\* What brings messages to the connector.
Feeds == {"listener", "natsSub", "stanSub"}

Init ==
    /\ type \in ConnectorType
    /\ durable \in BOOLEAN /\ (durable => SubscribesStan(type))
    /\ polling \in BOOLEAN /\ (polling => ReadsMQ(type))
    /\ field = [r \in Resources |-> 0]
    /\ open = {} /\ told = {} /\ serial = 0
    /\ pc = "idle" /\ step = 0 /\ up = FALSE /\ last = "none"
    /\ connects = 0 /\ disconnects = 0
    /\ starts = 0 /\ shutdowns = 0 /\ failures = 0

-----------------------------------------------------------------------------
(* Start.                                                                  *)

\* Start returns an error; what it acquired stays as it is.
ReturnError ==
    /\ pc' = "idle" /\ last' = "start" /\ failures' = failures + 1
    /\ UNCHANGED <<field, open, serial, step, up, connects>>

\* Start is called: the check of its requirement.
Start ==
    /\ pc = "idle" /\ ~up /\ starts < MaxStarts
    /\ starts' = starts + 1
    /\ \/ /\ pc' = "starting" /\ step' = 1
          /\ UNCHANGED <<field, open, serial, up, last, connects, failures>>
       \/ ReturnError
    /\ UNCHANGED <<config, told, disconnects, shutdowns>>

\* The streaming server takes no second subscription for a durable.
Refused(r) == r = "stanSub" /\ durable /\ \E k \in 1..serial : <<r, k>> \in open

\* The next resource is acquired and its field overwritten; after the last one
\* AddConnect, and Start returns nil.
Acquire ==
    /\ pc = "starting"
    /\ LET r == type.start[step] IN
        /\ ~Refused(r)
        /\ serial' = serial + 1
        /\ field' = [field EXCEPT ![r] = serial + 1]
        /\ open' = open \cup {<<r, serial + 1>>}
    /\ IF step < Len(type.start)
       THEN step' = step + 1 /\ UNCHANGED <<pc, up, last, connects>>
       ELSE /\ pc' = "idle" /\ step' = 0 /\ up' = TRUE /\ last' = "start"
            /\ connects' = connects + 1
    /\ UNCHANGED <<config, told, disconnects, starts, shutdowns, failures>>

AcquireFails ==
    /\ pc = "starting"
    /\ ReturnError
    /\ UNCHANGED <<config, told, disconnects, starts, shutdowns>>

-----------------------------------------------------------------------------
(* Shutdown.                                                               *)

\* Mutant: every type returns early when it has no listener.
NothingHeldListener == ReadsMQ(type) /\ field["listener"] = 0

\* The early return of the types that read a topic.
NothingHeld == type.onlyIf # "none" /\ field[type.onlyIf] = 0

\* Shutdown is called: AddDisconnect, whatever the state, and the early return.
Shutdown ==
    /\ pc = "idle" /\ shutdowns < MaxShutdowns
    /\ shutdowns' = shutdowns + 1 /\ disconnects' = disconnects + 1
    /\ up' = FALSE
    /\ IF NothingHeld
       THEN last' = "shutdown" /\ UNCHANGED <<pc, step>>
       ELSE pc' = "stopping" /\ step' = 1 /\ UNCHANGED last
    /\ UNCHANGED <<config, field, open, told, serial, connects, starts, failures>>

\* Mutant: the connection goes first.
ReverseStep == type.shutdown[Len(type.shutdown) + 1 - step]

\* The resource Shutdown turns to.
ShutdownStep == type.shutdown[step]

\* Mutant: subscriptions are kept, durable or not.
KeptAlways(r) == type.durables /\ r = "stanSub"

\* The subscription of a durable is kept.
Kept(r) == type.durables /\ r = "stanSub" /\ durable

\* shutdownCB of a poller closes its done channel and returns.
OnlyTold(r) == polling /\ r = "listener"

\* Mutant: the field is cleared and the resource left open.
LeftOpen(r) == open

\* A resource is closed; disconnecting the queue manager closes what was
\* opened on that connection, which Shutdown has done by itself by then.
Closed(r) == IF OnlyTold(r) THEN open ELSE open \ {<<r, field[r]>>}

Release ==
    /\ pc = "stopping"
    /\ LET r == ShutdownStep IN
        IF field[r] = 0 \/ Kept(r)
        THEN UNCHANGED <<field, open, told>>
        ELSE /\ open' = Closed(r) /\ field' = [field EXCEPT ![r] = 0]
             /\ told' = IF OnlyTold(r) THEN told \cup {<<r, field[r]>>} ELSE told
    /\ IF step < Len(type.shutdown)
       THEN step' = step + 1 /\ UNCHANGED <<pc, last>>
       ELSE pc' = "idle" /\ step' = 0 /\ last' = "shutdown"
    /\ UNCHANGED <<config, serial, up, connects, disconnects, starts, shutdowns, failures>>

-----------------------------------------------------------------------------
(* What happens outside the calls.                                         *)

\* The goroutine of a poller is past its Get and its callback, finds done
\* closed and ends.
PollerEnds ==
    /\ \E x \in told : open' = open \ {x} /\ told' = told \ {x}
    /\ UNCHANGED <<config, field, serial, pc, step, up, last, connects, disconnects,
                   starts, shutdowns, failures>>

\* The streaming connection goes away, and with it its subscriptions.
StanGone ==
    /\ \E k \in 1..serial : <<"stanSub", k>> \in open
    /\ open' = {x \in open : x[1] # "stanSub"}
    /\ UNCHANGED <<config, field, told, serial, pc, step, up, last, connects,
                   disconnects, starts, shutdowns, failures>>

\* Nothing calls the connector any more.
Rest == pc = "idle" /\ UNCHANGED vars

Next ==
    \/ Start \/ Acquire \/ AcquireFails \/ Shutdown \/ Release
    \/ PollerEnds \/ StanGone \/ Rest

Spec == Init /\ [][Next]_vars

-----------------------------------------------------------------------------
(* Properties.                                                             *)

Held == {<<r, field[r]>> : r \in {x \in Resources : field[x] # 0}}

\* A feed that may outlive the calls: a durable subscription, or a poller that
\* has been told to stop.
Outlives(x) == (x[1] = "stanSub" /\ durable) \/ x \in told

\* Between calls, a connector that is not up is fed by nothing that goes on: no
\* listener or subscription outlives Shutdown or a failed Start, except a
\* durable one, and a poller that will end by itself.
QuietWhenDown ==
    pc = "idle" /\ ~up => \A x \in open : x[1] \in Feeds => Outlives(x)

\* The connection to the queue manager is only cut after the feed that uses it
\* was closed or, if it polls, told to stop (durable subscriptions excepted).
FeedClosedFirst ==
    [][\A x \in open \ open' : x[1] = "qMgr" =>
           \A y \in open : y[1] \in Feeds => Outlives(y)]_vars

\* A resource that no field points to, other than a poller about to end, is
\* left over from a failed Start: as long as none has failed, Shutdown and the
\* next Start lose nothing.
LeaksOnlyAfterFailure ==
    failures = 0 => open \subseteq Held \cup told

\* Shutdown disconnects the connection its field points to.  Only a reader of a
\* topic may keep it, by its early return, and only after a failed Start.
ShutdownDisconnects ==
    pc = "idle" /\ last = "shutdown" /\ field["qMgr"] # 0 =>
        type.onlyIf # "none" /\ failures > 0

=============================================================================
