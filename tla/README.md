# A TLA+ model of the NATS-MQ bridge

The bridge is one Go process that forwards messages between IBM MQ (queues and
topics) and NATS (subjects) or NATS streaming (channels). This directory holds
TLA+ modules that model it, TLC configurations that check the modules on small
instances, and TLAPS proofs of the results that hold for every instance.

    tlc -workers 2 -config BridgeOutages.cfg MCBridge     # one run
    tlapm BridgeProofs.tla                                # one proof module

`PROJECT.json` lists the components, the runs with their properties, the map
from definitions to source lines, the findings, the hazards and the theorems.

## 1. Inventory

### The parts and their state

| Part | Source (`src/nats-mq/core` unless given) | State | Operations |
|---|---|---|---|
| Bridge | `bridge.go` | `running`, `nats`, `stan`, `connectors`, `reconnect`, `reconnectTimer`, `replyToInfo`; locks `runningLock`, `natsLock`, `reconnectLock` | `Start`, `Stop`, `ConnectorError`, `checkConnections`, `ensureReconnectTimer`, `stopReconnectTimer` |
| Handlers | `handlers.go` | none of its own | `natsDisconnected`, `natsClosed`, `stanConnectionLost`; three more that only log |
| Timer | `reconnecttimer.go` | one goroutine per timer | `After`, `Cancel` |
| Connectors | `*2*.go`, `connector.go`, `connect.go` | `qMgr`, an MQ object, a subscription or a listener, statistics, a lock | `Start`, `Shutdown`, `CheckConnections`, `Stats` |
| MQ listener | `connector.go` | a consumer thread or a polling goroutine; the unit of work of its MQ connection | `setUpCallback`, `setUpPolling`, `createMQCallback` |
| NATS subscriber | `connector.go` | a subscription and its callback | `subscribeToNATS` |
| Streaming subscriber | `connector.go` | a subscription, its acknowledgements | `subscribeToChannel` |
| Conversion | `msgconv.go` | reads `replyToInfo` | `MQToNATSMessage`, `NATSToMQMessage` |
| Message format | `src/message/message.go` | typed properties | `SetProperty`, `DeleteProperty`, the getters, `Encode`, `DecodeBridgeMessage` |
| Statistics | `stats.go`, `histogram.go` | counters, moving average, bins | `AddRequestTime`, `UpdateQuintiles`, `Add`, `Quantile` |
| Monitoring | `monitoring.go` | HTTP server, request counts | `startMonitoring`, `StopMonitoring`, `stats` |
| Process | `src/nats-mq/main.go` | the variables `server` and `err`, the signal channel | `main`, the signal goroutine |
| Configuration | `src/nats-mq/conf` | the `config` of a bridge | `DefaultBridgeConfig`, `LoadConfigFile`, `parseStruct` |
| Logging | `src/nats-mq/logging` | none at run time | output |

### How they interact

`main` starts the bridge and stops it on a signal. `Start` connects to NATS and
streaming, creates the connectors (each registers itself in `replyToInfo`) and
starts them. The NATS client calls its handlers one after the other on a
goroutine of its own, the streaming client each on a new one; both end in
`checkConnections`, which shuts down the connectors that miss a connection and
puts them into `reconnect`. A listener that meets an MQ error calls
`ConnectorError` in a new goroutine, with the same effect for one connector. The
reconnect timer's goroutine restarts what is in the map. Messages run beside
all this on the goroutines of the client libraries and take only the lock of
their connector; all connectors share the one NATS connection. Monitoring
requests run on goroutines of the HTTP server, take a connector's lock to copy
its counters and no lock to scan its histogram.

### What is hard here

* Three kinds of goroutines (handlers, errors, timers) and `Stop` share
  `reconnect`, `reconnectTimer` and `stan`; `Stop` replaces the map without the
  lock the others use, and `stan` is read without one.
* A timer may fire while it is cancelled, and a pass that finds NATS away arms
  a new timer and goes on.
* Callbacks take the connector's lock only after they have a message: whatever
  they use then may belong to a later connection.
* Start may fail at each of its steps, and returns without releasing anything.
* Delivery rests on acknowledgements (commit, streaming ack) that are lost,
  late, or applied to something else, and on a NATS client that only buffers.
* `main` and its signal goroutine share `server` and `err` without a lock, and
  signals wait in a channel with one slot.
* The configuration is filled field by field, and an error leaves it half done.

`PROJECT.json` has the complete list under `hazards`, each with the properties
that cover it.

## 2. Modules

| Module | Models | Composed of |
|---|---|---|
| `ConnectorTypes` | the eight connector types, as records: what Start acquires and Shutdown releases, in which order | |
| `Bridge` | the bridge, its handlers and timers, with the connectors reduced to up, down, broken | `ConnectorTypes` |
| `MCBridge` | instances of `Bridge` for TLC | `Bridge` |
| `BridgeProofs` | theorems about `Bridge` | `Bridge` |
| `Connector` | Start and Shutdown of one connector, resource by resource | `ConnectorTypes` |
| `ConnectorProofs` | theorems about it | `Connector` |
| `Delivery` | abstract: at-least-once delivery | |
| `Listener` | the MQ listener against Shutdown and restart | refines `Delivery` |
| `ListenerProofs` | theorems about `Listener` | `Listener` |
| `StanSubscriber` | the streaming subscriber | refines `Delivery` |
| `MCStanSubscriber` | start positions for TLC | `StanSubscriber` |
| `StanSubscriberProofs` | theorems about it | `StanSubscriber` |
| `NATSSubscriber` | the NATS subscriber | |
| `Relay` | a NATS subscriber and a listener in a row, over the bridge's one NATS connection | `NATSSubscriber`, `Listener` |
| `RelayProofs` | theorems about both connectors | `Relay`, `ListenerProofs` |
| `Property` | typed properties: storing, codec, reading (operators only) | |
| `MsgConv` | reply mapping, headers and properties on a round trip | `Property` |
| `MCMsgConv` | property values for TLC | `MsgConv` |
| `MsgConvProofs` | theorems about conversion and properties | `MsgConv` |
| `Histogram` | the histogram (operators only) | |
| `ConnectorStats` | the statistics as a message handler keeps them, against the samples | `Histogram` |
| `Monitoring` | monitoring requests beside that handler and beside Stop | `ConnectorStats` |
| `MonitoringProofs` | theorems about the histogram, the statistics and the reports | `Monitoring` |
| `Config` | the configuration structs, their defaults, how a file fills them (operators only) | |
| `Main` | the process, its signals and its configuration file | `Config` |
| `MCMain` | configuration files for TLC | `Main` |
| `MainProofs` | theorems about the parser and what a bridge is configured with | `Main` |

### Bridge

One action is what a goroutine does between two lock operations, or between two
reads of state that others write. Who holds `runningLock` across several steps
is in `runningLock` (only Start and Stop do), who holds `reconnectLock` in
`holder`; a goroutine that waits for a lock is an action whose guard is that
the lock is free. Goroutines of one kind in one place are counted: `orphanArmed`
and `orphanFired` are the timers that `bridge.reconnectTimer` does not point to
any more, `lostCb`, `lostCheck`, `lostWait` the `stanConnectionLost` handlers by
how far they are, `err` and `errOk` the `ConnectorError` calls.

| Code | Actions |
|---|---|
| `Start` | `StartBegin`, `StartNats`, `StartStan`, `StartConnector`, `StartMonitoring`; a failure is `StartFailed`, after which main calls Stop |
| `Stop` | `StopBegin`, `StopReconnectTimer`, `StopClearReconnect`, `StopConnector`, `StopNats`, `StopStan` |
| `natsDisconnected`, `natsClosed` | `NatsDisconnected`, `NatsClosed` at the head of the client's queue `ach` |
| `stanConnectionLost` | `StanConnectionLost`, `StanLostChecks` |
| `checkConnections` | `NatsCheckLocks` or `StanCheckLocks`, `CheckConnector` for each connector, `CheckEnds` |
| `ConnectorError` | `ConnectorErrorChecks`, `ConnectorError` |
| the timer's goroutine | `TimerFires`, `TimerLocks`, `TimerStan`, `TimerRestarts` for each connector of the map, `TimerEnds`; the same for orphans |

A streaming connection has a number, so that a subscription on a dead one can be
told from one on the present one. Loops over maps and slices visit the
connectors in any order. Start and Shutdown of a connector are one step here,
because they hold its lock throughout; `Connector` takes them apart.

### Connector

`Connector` walks through the lists of `ConnectorTypes`: `Acquire` and `Release` take
one resource at a time, `AcquireFails` returns the error with everything acquired so
far left as it is. `open` is what exists outside the connector, `field` what the
connector points to. With callbacks a listener is closed when Shutdown has called
`shutdownCB`. A poller is not: closing its `done` channel only tells its goroutine to
stop, and it goes on past `Close` and `Disc` until it next looks. Such pollers
are `told`, and `PollerEnds` is where they end, at any later time.

### Listener, StanSubscriber, NATSSubscriber

Each Start makes a new MQ connection or subscription; they are numbered, and a
callback of number e may still run while the connector is at a later one. What
the client libraries do is external and stated at the head of each module.
`Listener` keeps what each MQ connection has got and not committed, so that
`Cmit` and `Back` on `mq.qMgr` act on the connection it points to, which need
not be the one the message came from. A queue is read in the order of arrival;
a message that was backed out keeps its place.

`StanSubscriber` has the options of `subscribeToChannel`: a durable name or none, and
a start position, which is a time, a sequence number, the last message received
(-1) or nothing.

`Relay` puts a NATS2Queue and a Queue2NATS connector in a row, as
`docs/tutorial.md` does: a Put of the first is an arrival for the second. They
share the NATS connection. `natsMessageHandler` hands a message to the NATS
client and the callback commits on MQ; the client sends from its buffer
(`outbox`) while it is connected. When the connection breaks, what it had not sent
goes to the dead socket (`NatsBreaks`); what it is handed until it is connected
again it keeps, unless it gives up. `lost` is history: what was dropped either way.

### Delivery

`source` and `target`: `Deliver` copies a message, `Remove` takes messages from
the source that the target has, `Offer` brings messages back. The mapping for a
listener is the queue with all units of work, and what was published; for the
streaming subscriber what was not acknowledged, and what is on MQ. A subscription
without a durable name forgets its acknowledgements at a restart: that is the
`Offer`.

### Conversion

`MsgConv` first creates up to three connectors of any configuration, then
converts one message to NATS or streaming and one back. The parts of a message
(an id, a reply-to queue with its queue manager, a property) are converted apart
from each other, so `Messages` has every value of each part and not every
combination. Connectors have one queue manager; a message may name it, another one
or none, and is mapped only in the first case (`msgconv.go:192`).

A Go value is its type and a number, and an id a sequence of `IdLength` bytes; which
values the MQ library and clients use are constants, and so are the widths of the
integers: `Half` is 2^(w-1) for each width w. `Decoded` is what msgpack does to a
value (integers come back as `int64`, cut to its bits, floats as `float64`), `Sized`
the conversion to the stored type. `Supported` are the types for which `SetProperty`
has a case; for others it returns an error, and then a message from MQ is not
converted and a client's message stays as it was. Between the two conversions a NATS
client may set or delete the property of the decoded message, or the message may
be one the client made itself, with values of Go types MQ does not have; `Promised` is
what the comments of `SetProperty` say they become, by Go's conversion.

### Statistics and monitoring

A bin holds sum and count instead of value and count, so that values are
fractions and the arithmetic exact; rounding of `float64` is left out.
`ConnectorStats` takes a message handler apart into the updates it makes with
the connector's lock; in between, the counters do not agree with each other.
`Add` is its loop, and then one step per turn of the loop of `trim`, since
monitoring reads the bins in between. `total` and `samples` are history: what
the statistics are compared with.

`Monitoring` adds the requests. `CopyStats` is `Stats`, which waits for the lock.
`ScanQuantile` is one `Quantile` of `UpdateQuintiles` on the shared histogram,
without the lock: while `Add` is at work it may find anything, and `ScanPanics`
is the index that trim has taken away. `StopMonitoring` waits for the requests,
with `runningLock` held, for five seconds at most.

### Configuration and process

A parsed file is a map from keys to values that have a kind; a key is a field's
name with one of three spellings, since `get` looks for the name and for its
lower case. `parseStruct` returns at the first setting that does not fit, with
the fields before it set. The code calls itself for a struct in a struct; the
structs of `BridgeConfig` nest three deep, and so the recursion is written out as
`parseStruct`, `parseNested` and `parseFlat`, which share one body
(`ParseFields`). `Fits` and `Means` say, setting by setting, what a file
is to mean; they know nothing of the order of the fields.

`Main` has one action per statement of `main` and of its signal goroutine. Start
and Stop of a bridge are one step each (they hold `runningLock` throughout;
`Bridge` takes them apart), and Start may fail at any time. The signal channel
holds one signal; a signal before `signal.Notify` ends the process, one that is
taken before `main` has set `server` is a nil dereference. The file may change
while the process runs.

## 3. Runs

Passing runs:

| Run | Shows | Bounds |
|---|---|---|
| `bridge_outages` | `NoneForgotten`, `NeverStartedTwice`, `NoLostReconnect`, `NilStreamingNoticed`, `LiveStreamingKept` | a listener that needs NATS and a subscriber that needs streaming; one NATS outage, two streaming losses, one pass without a server |
| `bridge_recovery` | `Restarted`, `StopCompletes`, `ClosedNatsStopsBridge`, under fairness | a durable streaming subscriber; one outage of NATS and one of streaming |
| `bridge_repair` | `StreamingRetryPending`, and `BrokenReaderRepaired` under fairness | a poller; an MQ outage, a repeated or late error, a streaming loss |
| `connector` | `QuietWhenDown`, `LeaksOnlyAfterFailure`, `ShutdownDisconnects`, `FeedClosedFirst` | all types, callbacks and polling, durable or not; four starts and four shutdowns; a poller may end at any time after it was told to |
| `relay` | `ImplementsDelivery`, `EndsOwnUnitOfWork`, `PublishedInOrder` of the listener, `PutInOrder` of the subscriber, `RelayedInOrder` of both | callbacks; three messages; three starts of the listener, two of the subscriber, a failed publish, a failed put, a broken MQ connection, two outages of NATS or of the subscriber's MQ |
| `stan_subscriber` | `ImplementsDelivery`, `NoneSkipped`, and `EventuallyPlaced` under fairness | with and without a durable name; four start positions (none, the last message, from the second on, a time); three messages, two restarts, two outages, a failure |
| `monitoring` | `BinsInOrder`, `MeanIsExact`, `QuantileIsExact`, `ReportConsistent`, and `RequestsEnd` under fairness | five requests of four different times in three bins, a failed message; a monitoring request at any moment |
| `process` | `LoadedAsWritten`, and `EditTakesEffect`, `InterruptEnds` under fairness | about 470 files: each setting alone with each kind of value in each spelling, pairs of settings, and one setting in two spellings; three signals and a change for two of the files |
| `msgconv` | `ReplyLeadsBack`, `AnswerIsForwarded`, `HeaderSurvives`, `PropertiesSurvive` | every configuration of up to three connectors over two subjects, a channel of the same name, two queues; two queue managers; ids of two bytes; integers of 3, 5, 7 and 9 bits for those of 8 to 64, with the ends of every signed type and both sides of the signed limit for every unsigned one; a client that makes a message or changes one |

The bounds are on what the environment does: outages, failures, messages,
restarts. Two connectors of different needs are enough for the interplay in the
bridge, because connectors meet only in the map and the timer, which see
nothing of a connector but whether it is in the map; the proofs lift the safety
properties to any number of connectors and any bounds. Two losses let a late
handler of the first meet the connection after it; two restarts let a callback
of the first connection meet the last. Fewer bins than times make every
kind of merge happen. Small widths have the same ends, overflows and inclusions
as Go's, and the proofs are for any. Three signals let one wait and one be dropped while the
goroutine handles another. The files of `process` are parsed once each, without
signals: what a file becomes does not depend on when it is loaded.

`MaxBadPasses` bounds the timer passes that find NATS or streaming away. Such
passes change nothing but the number of timers, which grows without bound.

Every property of a passing run is broken by a plausible slip in the code it is
about (`mutants` in `PROJECT.json`): the operator before its definition, commented
"Mutant", is that slip.

Runs that end in a violation show where the code and its documentation
disagree. Each is an entry of `findings`, with the quotation.

| Run | What happens |
|---|---|
| `one_timer` | a pass without NATS arms a timer and goes on, so timers multiply (no `return` at `bridge.go:445`) |
| `poller_loss` | a poller's late callback commits the next connection's message, unpublished |
| `reload` | after a reload between `NewBridgeServer` and `Start` of main, or after two reloads, two bridges run (`server :=` at `main.go:61`) |

### Further observations

Behaviours of the code that came up while modelling. They are listed under
`hazards`; where the state is in a model, TLC reaches it when the predicate given
is checked as an invariant, but no run of the project does so.

* `bridge.go:437`: a timer that has fired, or a `ConnectorError` past
  `checkRunning`, works on after Stop. In `Bridge`, `stopPc = "done" => ~Up(c)`
  fails.
* `stan2topic.go:112`: streaming reconnected between `bridge.stan = nil` and the
  check leaves a subscriber on the dead connection. `running /\ holder = "free"
  /\ lostWait = 0` does not imply `sub[c] = stan` for a subscriber that is up.
* `connector.go:368`: a listener can publish on a nil streaming connection while
  the handler is between `bridge.stan = nil` and `checkConnections`.
  `NilStreamingNoticed` says that it is for no longer than that.
* `connector.go:371`: a message is committed on MQ when the NATS client has it in
  its buffer, and nothing flushes it. When the connection breaks before the client
  has sent it, the message is lost although the client reconnects: `lost = {}` fails
  in `Relay`.
* `connector.go:303`: `shutdownCB` of a poller does not wait for its goroutine, which
  may be inside `Get` while the queue is closed and the connection cut: `told = {}`
  between calls fails in `Connector`.
* `connector.go:440`: a subscriber without a durable name that starts at -1 begins at
  the last message after every restart and passes over what came before it:
  `NoneSkipped` fails when `Excluded` is false for that position.
* `connector.go:409`, `:475`: connectors that put to MQ only log a failed Put, so
  that nothing repairs them; `BrokenReaderRepaired` is false for writers.
* `stan2queue.go:87`: a durable subscriber shut down for a NATS outage cannot
  start again while its old subscription lives (`Refused`); `Restarted` holds for
  durables but for that time.
* `topic2nats.go:53`, `:88`: a Start that fails keeps its queue manager connected,
  the next one overwrites the field; Shutdown of a topic reader without a
  subscription returns before `Disc`. `LeaksOnlyAfterFailure` and
  `ShutdownDisconnects` say what is left of this.
* `queue2nats.go:86`: with callbacks, Shutdown waits in MQOP_STOP with the lock
  that the callback wants: `lock = "shutdown" /\ reader[qMgr] = "got"` is reachable
  in `Listener`. That MQOP_STOP waits is a behaviour of the MQ client.
* `connector.go:356`: a poller that got a message before Shutdown uses a nil
  queue manager after it: `crashed` is reachable in `Listener` with `Polling`.
* `queue2nats.go:81`: every Shutdown counts a disconnect, also of a connector that
  is not connected.
* `monitoring.go:234`: requests scan a histogram without the connector's lock. A
  quantile of a busy connector may be -1, or the request may panic.
* `monitoring.go:222`: the comment says that the caller of `stats` holds the
  running lock. `HandleVarz` does not; if it did, a request would wait for Stop
  and Stop for it, until the timeout (the mutant of `RequestsEnd`).
* `main.go:62`, `:79`: the error of `LoadConfigFile` is ignored; after a file with one
  bad setting the bridge starts with the zero configuration, without connectors
  and without the defaults.
* `main.go:41`: an interrupt that comes while a SIGHUP waits in the channel is
  dropped.
* `main.go:45`: a signal before `signal.Notify` kills the process, and one before
  `server` is set is a nil dereference.
* `main.go:63`: `err` is shared by `main` and the signal goroutine; a Start of one
  that succeeds between the other's Start and its check hides a failure.
* `main.go:63`: after the first reload the bridge that runs is never stopped by a
  signal, so a second one that uses the same monitoring port or streaming client
  id fails to start, and the process exits.
* `conf.go:59`: the comment says that logging defaults to debug and trace; both are
  false.
* `parse.go:117`: an integer in an array of strings becomes the character of that
  code, not its digits.
* `message.go:142`: `SetProperty` on a decoded message that had no properties
  writes to a nil map and panics (`client = "panicked"` in `MsgConv`).
* `connector.go:53`: NATS2Queue and Stan2Queue connectors of one queue share a
  reply key; a message to streaming then has no `ReplyToChannel`.
* `msgconv.go:205`: replies are mapped for connectors that exclude headers, which
  `README.md:31` says do not work.
* `message.go:140`: the comment has all unsigned ints converted to int64. `SetProperty`
  has no case for `uint` and returns an error (`message.go:197`; `Supported`), and a
  `uint64` above the largest `int64` comes back negative (`Converted`).
* `message.go:177`: unsigned integers and bytes a client sets cannot be read before
  the message has been through the codec.
* `handlers.go:55`: when NATS gives up the bridge stops and the process stays,
  where `docs/config.md:130` says it exits.

### Deadlock

Deadlock is checked for `Bridge` (with a `Stopped` step for a bridge that was
stopped) and for `Connector` (with `Rest`). The other models end when their
messages, requests or signals are used up.

### Fairness

* `Bridge`: weak fairness for each goroutine's next step. Strong fairness for
  `StopReconnectTimer`, which waits for a lock that others keep taking: Go's
  mutexes hand over to a waiter after a millisecond. `NatsReconnects \/
  NatsGivesUp` is fair because the client does one or the other after
  `MaxReconnects` attempts; `StanServerBack` and `MqBack` say that outages end.
  Nothing is assumed of the order of steps, and outages are not fair.
* `StanSubscriber`: the server sends what it owes again and again, the client calls the
  callback, and a callback that waits for the lock gets it. Nothing is assumed of the
  bridge: it may leave a subscriber on a dead streaming connection (see
  `stan2topic.go:112` above), and that MQ is lost is not noticed. `EventuallyPlaced` is
  about behaviours in which, again and again, the connector is up with both
  connections working, and says so as its hypothesis.
* `Monitoring`: a handler that runs goes on, and a request that waits for the
  connector's lock gets it (strong fairness of `CopyStats`, for Go's mutexes hand
  over). Messages, requests, Stop and the timeout are not fair.
* `Main`: `main` and the signal goroutine go on. Signals, changes of the file and
  the end of a NATS connection are not fair.

## 4. Proofs

All theorems hold for every value of the constants under the `ASSUME`s of the
modules (types of the connectors, bounds and request times that are natural
numbers, integer types of which int64 is the widest, property values that a Go
program can have).

`BridgeProofs` proves one inductive invariant, `IndInv`, and draws six
results from it:

* `StartInv`: while Start runs nothing else is going on; the map is empty, no
  timer exists and no handler is past its check. Without it the induction has
  Start meeting restarts of connectors it has not started yet.
* `StopInv`: `running` means that Stop has not begun.
* `QueueInv`: the dispatcher of the NATS client is inside the callback at the
  head of its queue, so ending that callback takes off the right element.
* `ConnInv`: which connectors are up, in the map and still to be visited by the
  loop that is under way. `NoneForgotten` says nothing of Stop, so
  `NeverStartedTwice` needs this while Stop clears the map.
* `TimerInv`: `NoLostReconnect`, and `cur` is `"running"` only while a timer's
  goroutine holds the lock.
* `LostInv`: at most one `stanConnectionLost` is on its way, and then `bridge.stan`
  is the dead connection it is about: that is why a late handler finds nothing
  live to drop.
* `RetryInv`: the retry that is pending while streaming is away.

The proof of `Invariance` has a step per action and under it one per conjunct
that the action can disturb.

`NilStreamingSeen` is proved on top of it, with `NilInv`: `NilStreamingNoticed`, and
that no connector is up before Start is past streaming. That a Start with
`bridge.stan` nil brings up no connector that needs it is a lemma of its own.

`ListenerProofs` (`~Polling`) proves `OwnUnitOfWork`, `CallbackDelivers`,
`CallbackLosesNothing` and `CallbackKeepsOrder`. The invariant says that only the
present connection is alive or busy, that its unit of work is the message in
hand, and that the message in hand is at the source until it is committed. For
the order it adds that what is older than a message in hand was published: `Get`
takes the oldest on the queue, and nothing older left MQ unpublished.
`poller_loss` shows that this fails for a poller.

`StanSubscriberProofs` proves `SubscriberDelivers`: what was acknowledged is on
MQ, and so is the message of a callback that is past its Put. `SubscriberSkipsNone`
follows from the same invariant: what is not on MQ was not acknowledged, so the
subscription still owes it unless it lies before the start position, from which
`base` is known for every kind of position.

`ConnectorProofs` proves the four properties of the run `connector`, for any number
of starts, shutdowns and failures. What the eight types have in common is
`TypeShape`: a queue manager, then an object or subscription, then what feeds the
connector, and the reverse in Shutdown, with or without an early return.
`ConnectorInv` says how much of that is there at each step of Start (`FieldsSet`)
and Shutdown (`OpenSoFar`), and that a feed is known to the field that closes it
(`FeedKnown`) or is a poller that has been told to stop (`told`), which no field
points to any more. `ConnectorDisconnects` needs that a topic reader is without its
subscription and with a connection only after a failure (`DownIsEmpty`). `ConnectorClosesFeedFirst` is
an action property: by the step that cuts the connection, `FeedKnown` leaves no feed
but a durable subscription and pollers that were told.

`RelayProofs` has three layers.

* The subscriber alone: `InLine` says that the messages put, the one in the
  callback and those the client holds are in line, and the callback of an old
  subscription can put nothing, since the MQ object it captured is closed.
  `RelayPutsInOrder` is what remains of it.
* Composition: `RelayIsListener` shows that every step of the two is one of the
  listener (an arrival, for a Put of the first) or none. So the theorems about the
  listener hold here: `RelayDelivers` is `CallbackDelivers`, carried over.
* `RelayKeepsOrder`: what has been handed to the NATS client (`OutType`,
  `OutInOrder`) and has not been dropped by it is the listener's published set in the
  order of publication; `DropOut` is the step that moves the buffer to `lost`.

`MsgConvProofs` rests on two theorems about operators. `TypedPropertyKept` is
arithmetic, for any widths: cut to 64 bits by the codec and then to the stored type,
a number is what the conversion to the stored type alone makes of it (`SizedTwice`),
and that is the number itself or, beyond the signed limit, the negative one of the
same bits (`SizedConverts`). It covers every value of every Go type that
`SetProperty` has a case for. `IdKept` says that trimming zeros at both ends and
padding at the right gives an id back; it needs the first byte not to be zero.
`ConvInv` then says that what is registered in `replyToInfo` was created under
its own description (`Registered`), and that the message on the wire has the
header of the message sent and the property set last (`WireOK`); the four
invariants of the run follow, for any number of connectors.

`MonitoringProofs` is about the statistics with any number of bins and requests.

* Order. Values are fractions that are compared by cross-multiplication.
  `InsertSorted` and `MergeSorted` say that `Add` and a turn of `trim` leave the bins
  strictly sorted: both replace a part of the bins by one bin (`Splice`), and that
  bin lies between what is left on either side. For `trim` this needs that the
  two bins merged are neighbours, and that a closest pair exists
  (`ClosestInRange`). That `trim` ends with at most `MaxBins` is its guard.
* Sums. `SumsFacts` says that the recursive function `Sums` is what its recursion
  describes, `SpliceSum` what becomes of the sum when a part is replaced.
  `InsertSums` and `MergeSums`: `Add` adds one request and its time, `trim` nothing.
* `StatsInv` puts this beside the counters: which of `MessagesOut`, `RequestCount`,
  `MovingAverage` and the bins is ahead of which, at each step of the handler. A
  report is copied when the handler is idle, where all agree.
* Quantiles. `QuantilesStayExact` needs to know which requests lie in which bin, and
  `BinsExact` only knows how many there are. `QuantilesInv` adds `BinsInRange`, that the
  value of each bin lies between two times that were seen (`WithinMerged`: a
  merger lies between what it was made of), and `OneBinEach`: while no more
  different times than `MaxBins` were seen, each bin is at one time and holds all
  requests of that time, and each time has its bin. The second is inductive
  because as long as bins are at different times there are no more of them than
  times (`BinsAreTimes`), so `trim` has nothing to merge. It holds at every step of
  the handler but for the request that is counted and not yet added
  (`Lagging`). `QuantileIsFirst` says that the scan stops at the first bin where the
  share is reached; that gives the order of quantiles. `BelowIsFaster` leads from
  the bins below one to the requests that took less than its time, which makes
  the quantile the exact one.

`MainProofs` proves `NeverAPartOfAFile`, for any set of files, any signals and any
changes of the file.

* The parser. `LoopResult` says of the loop over the fields: it succeeds exactly if no
  field is refused, and then has set each field. `FlatStruct`, `NestedStruct` and
  `OuterStruct` go up the three levels of structs: each succeeds exactly if the
  section `Fits`, and then leaves what it `Means`. The provers cannot use a
  lemma with an operator as a parameter, so the argument is made once for each
  level. `AllOrNothing` is the result for a file.
* The process. `ProcessInv` says that a bridge has the configuration of the file it
  read (`ConfigOfRead`), and that `main` and the signal goroutine load a file only
  into a bridge that has read none (`LoadedOnce`). The second is needed because a
  refused file leaves what the bridge had before: loaded twice, it would be the
  settings of the first file. `KeptStep` covers the steps that leave
  configurations alone.

The provers cannot use an induction principle with an operator parameter.
Where a proof is by induction over a number, it takes the set of
counterexamples and leads its smallest element (`NatMin`, from well-foundedness)
to a contradiction: so `Constant`, `SumsFacts`, `BelowIsFaster`,
`LeastFraction`.

Every safety property and every refinement of the passing runs is stated by a
theorem. `TypeOK` of `Bridge`, a conjunct of `IndInv`, is proved (`TypeCorrect`) and is
no property of a run: a check of it on an instance would add nothing. Only model-checked is what needs fairness, which is out of the prover's reach:
`Restarted`, `StopCompletes`, `ClosedNatsStopsBridge`, `BrokenReaderRepaired`,
`EventuallyPlaced`, `RequestsEnd`, `EditTakesEffect`, `InterruptEnds`.

## 5. Not modelled

* The logging, which is output only, and the lexer of configuration files, which
  belongs to the NATS server.
* What no field of `BridgeConfig` reaches in `conf`: floats, maps, host-ports, the
  strict mode, the path checks of `utils.go`.
* The pages of the monitoring server, and byte counters.
* Connectors with equal ids; queue groups; several queue managers.
* The message handles of the MQ client library.
* Data races below the level of the steps, except for the scan of the
  statistics by a monitoring request.
* The Java helper, the examples and the performance programs, which are not part
  of the bridge process.

## 6. Plan

Done, in this order: `ConnectorTypes` and `Bridge` with its proofs;
`Connector`; `Delivery`, `Listener`, `StanSubscriber` with their proofs;
`NATSSubscriber`; statistics; conversion and properties; `Main`; then `Relay`,
the order of a listener with its proof, streaming that is nil with its proof,
durables in `Restarted`, `Config` with `Main` under fairness, `Monitoring`, and
the clients of the message format.

Then proofs of `Connector`, of the relay and its composition, of conversion and
properties, of the statistics with what monitoring reports of them, of the
quantiles, and of the configuration of a bridge.

Next:

1. Connectors with equal ids in `Bridge`.
2. The bridge composed with the resources of its connectors, so that leaks and
   restarts are seen together.
