------------------------------- MODULE Bridge -------------------------------
(***************************************************************************)
(* The life of one BridgeServer: Start and Stop, the connection handlers,  *)
(* ConnectorError, checkConnections and the reconnect timer                *)
(* (src/nats-mq/core/bridge.go, handlers.go, reconnecttimer.go).           *)
(*                                                                         *)
(* Goroutines that are interchangeable are counted, not named: orphanArmed *)
(* is the number of timer goroutines that wait for their interval and that *)
(* bridge.reconnectTimer does not point to, err[c] the number of           *)
(* ConnectorError calls for c that have not passed checkRunning, and so    *)
(* on.  The steps of one goroutine between two lock operations, or between *)
(* two reads of state that others write, are one action.  Start and        *)
(* Shutdown of a connector hold that connector's lock throughout and are   *)
(* one step here.                                                          *)
(***************************************************************************)
EXTENDS Naturals, Sequences, FiniteSets, ConnectorTypes

CONSTANTS Connectors,      \* the configured connectors
          typeOf,          \* their types
          Durable,         \* the ones with a DurableName
          Polling,         \* the ones with UsePolling
          StanConfigured,  \* whether STAN.ClusterID is set
          MaxNatsOutages,  \* bound: NATS disconnects
          MaxStanLosses,   \* bound: lost streaming connections
          MaxMqFailures,   \* bound: MQ outages
          MaxLateErrors,   \* bound: repeated or late errors of pollers
          MaxBadPasses     \* bound: timer passes while NATS or STAN is away

ASSUME ConnectorsAssumption ==
    /\ typeOf \in [Connectors -> ConnectorType]
    /\ Durable \subseteq Connectors
    /\ Polling \subseteq Connectors
    /\ StanConfigured \in BOOLEAN

ASSUME BoundsAssumption ==
    {MaxNatsOutages, MaxStanLosses, MaxMqFailures, MaxLateErrors, MaxBadPasses}
        \subseteq Nat

VARIABLES
    running,       \* bridge.running
    runningLock,   \* who holds bridge.runningLock across steps
    startPc,       \* progress of Start
    lifeTodo,      \* connectors the loop of Start or of Stop has still to visit
    stopCalls,     \* calls of Stop that wait for runningLock
    stopPc,        \* progress of the Stop that found the bridge running
    nats,          \* bridge.nats: "nil" or the state of the connection
    stan,          \* bridge.stan: 0 for nil, else which connection it is
    stanEpoch,     \* streaming connections made so far
    stanLive,      \* the latest of them still works
    stanSrv,       \* the streaming server answers
    mqUp,          \* the queue manager answers
    conn,          \* per connector: what its MQ side is doing
    sub,           \* per connector: streaming connection of its subscription
    draining,      \* pollers told to stop whose goroutine has not left its loop
    reconnect,     \* keys of bridge.reconnect
    holder,        \* what the holder of bridge.reconnectLock is doing
    todo,          \* connectors that holder has still to visit
    cur,           \* state of the timer bridge.reconnectTimer points to
    orphanArmed,   \* other timer goroutines still waiting for their interval
    orphanFired,   \* other timer goroutines waiting for reconnectLock
    ach,           \* callbacks queued on the NATS client's dispatcher
    natsCb,        \* the dispatcher, inside natsDisconnected
    lostCb,        \* stanConnectionLost handlers not yet past checkRunning
    lostCheck,     \* ... that set bridge.stan to nil, before checkConnections
    lostWait,      \* ... that wait for reconnectLock in checkConnections
    err,           \* per connector: ConnectorError calls before checkRunning
    errOk,         \* per connector: ConnectorError calls waiting for the lock
    natsOutages, stanLosses, mqFailures, lateErrors, badPasses  \* spent bounds

life       == <<running, runningLock, startPc, lifeTodo, stopCalls, stopPc>>
links      == <<nats, stan, stanEpoch, stanLive, stanSrv, mqUp>>
connState  == <<conn, sub, draining>>
timers     == <<cur, orphanArmed, orphanFired>>
recState   == <<reconnect, holder, todo>>
callbacks  == <<ach, natsCb, lostCb, lostCheck, lostWait>>
errorCalls == <<err, errOk>>
spent      == <<natsOutages, stanLosses, mqFailures, lateErrors, badPasses>>
vars == <<life, links, connState, timers, recState, callbacks, errorCalls, spent>>

StartPcs == {"new", "nats", "stan", "connectors", "done", "failed"}
StopPcs  == {"none", "timer", "clear", "shutdown", "stan", "done"}
Holders  == {"free", "natsCheck", "stanCheck", "timerStan", "timerLoop"}

Init ==
    /\ running = FALSE /\ runningLock = "free" /\ startPc = "new"
    /\ lifeTodo = {} /\ stopCalls = 0 /\ stopPc = "none"
    /\ nats = "nil" /\ stan = 0 /\ stanEpoch = 0 /\ stanLive = FALSE
    /\ stanSrv = TRUE /\ mqUp = TRUE
    /\ conn = [c \in Connectors |-> "down"]
    /\ sub = [c \in Connectors |-> 0]
    /\ draining = {}
    /\ reconnect = {} /\ holder = "free" /\ todo = {}
    /\ cur = "nil" /\ orphanArmed = 0 /\ orphanFired = 0
    /\ ach = <<>> /\ natsCb = "idle"
    /\ lostCb = 0 /\ lostCheck = 0 /\ lostWait = 0
    /\ err = [c \in Connectors |-> 0]
    /\ errOk = [c \in Connectors |-> 0]
    /\ natsOutages = 0 /\ stanLosses = 0 /\ mqFailures = 0
    /\ lateErrors = 0 /\ badPasses = 0

-----------------------------------------------------------------------------
(* Connectors, seen from the bridge.                                       *)

\* Start succeeded and Shutdown was not called since.
Up(c)     == conn[c] # "down"
\* Up, but its connection to the queue manager is gone.
Broken(c) == conn[c] \in {"broken", "reported"}

CheckNATS == nats = "up"
CheckStan == CheckNATS /\ stan # 0

\* CheckConnections of the eight types.
CheckConnections(c) == IF NeedsStan(typeOf[c]) THEN CheckStan ELSE CheckNATS

\* The streaming server refuses a second active subscription for a durable
\* name on the same client connection, and a dead connection takes none.
CanSubscribe(c) ==
    /\ stanLive /\ stanSrv
    /\ ~(c \in Durable /\ sub[c] = stan)

\* Start of a connector runs to its end.
Starts(c) ==
    /\ CheckConnections(c)
    /\ mqUp
    /\ SubscribesStan(typeOf[c]) => CanSubscribe(c)

\* Start returns nil.
StartOk(c) ==
    /\ Starts(c)
    /\ conn' = [conn EXCEPT ![c] = "up"]
    /\ sub' = [sub EXCEPT ![c] = IF SubscribesStan(typeOf[c]) THEN stan ELSE 0]
    /\ UNCHANGED draining

\* Start returns an error.
StartFails(c) == ~Starts(c) /\ UNCHANGED connState

\* Shutdown: the subscription of a durable is neither unsubscribed nor closed;
\* a poller is told to stop and leaves its loop later.
Shutdown(c) ==
    /\ conn' = [conn EXCEPT ![c] = "down"]
    /\ sub' = [sub EXCEPT ![c] =
                  IF typeOf[c].durables /\ c \in Durable THEN @ ELSE 0]
    /\ draining' = IF Up(c) /\ ReadsMQ(typeOf[c]) /\ c \in Polling
                   THEN draining \cup {c} ELSE draining

-----------------------------------------------------------------------------
(* ensureReconnectTimer and the pointer it guards.                         *)

\* Mutant: ensureReconnectTimer is not called.
NotEnsured == cur

\* ensureReconnectTimer: a no-op when bridge.reconnectTimer is set.
Ensured == IF cur = "nil" THEN "armed" ELSE cur

\* Mutant: a connector that was shut down is not put into the map.
NotQueued(c) == reconnect

\* A connector is put into bridge.reconnect.
Queued(c) == reconnect \cup {c}

\* bridge.reconnectTimer is overwritten: the goroutine of the timer it pointed
\* to, if any, goes on without it.
Repoint(new, fired) ==
    /\ cur' = new
    /\ orphanArmed' = IF cur = "armed" THEN orphanArmed + 1 ELSE orphanArmed
    /\ orphanFired' = IF cur = "fired" THEN fired + 1 ELSE fired

-----------------------------------------------------------------------------
(* Start: holds runningLock from its first step to its last.               *)

StartBegin ==
    /\ startPc = "new"
    /\ running' = TRUE /\ runningLock' = "start" /\ startPc' = "nats"
    /\ UNCHANGED <<lifeTodo, stopCalls, stopPc, links, connState, timers,
                   recState, callbacks, errorCalls, spent>>

\* Start returned an error: main calls Stop.
StartFailed ==
    /\ startPc' = "failed" /\ runningLock' = "free" /\ stopCalls' = stopCalls + 1
    /\ UNCHANGED <<running, lifeTodo, stopPc>>

StartNats ==
    /\ startPc = "nats"
    /\ \/ /\ nats' = "up" /\ startPc' = "stan"
          /\ UNCHANGED <<running, runningLock, lifeTodo, stopCalls, stopPc>>
       \/ UNCHANGED nats /\ StartFailed
    /\ UNCHANGED <<stan, stanEpoch, stanLive, stanSrv, mqUp, connState, timers,
                   recState, callbacks, errorCalls, spent>>

\* connectToSTAN when bridge.stan is nil and streaming is configured.
StanConnected ==
    /\ CheckNATS /\ stanSrv
    /\ stan' = stanEpoch + 1 /\ stanEpoch' = stanEpoch + 1 /\ stanLive' = TRUE

StartStan ==
    /\ startPc = "stan"
    /\ \/ /\ \/ StanConfigured /\ StanConnected
             \/ ~StanConfigured /\ UNCHANGED <<stan, stanEpoch, stanLive>>
          /\ startPc' = "connectors" /\ lifeTodo' = Connectors
          /\ UNCHANGED <<running, runningLock, stopCalls, stopPc>>
       \/ /\ StanConfigured
          /\ UNCHANGED <<stan, stanEpoch, stanLive>>
          /\ StartFailed
    /\ UNCHANGED <<nats, stanSrv, mqUp, connState, timers, recState, callbacks,
                   errorCalls, spent>>

StartConnector(c) ==
    /\ startPc = "connectors" /\ c \in lifeTodo
    /\ \/ /\ StartOk(c)
          /\ lifeTodo' = lifeTodo \ {c}
          /\ UNCHANGED <<running, runningLock, startPc, stopCalls, stopPc>>
       \/ StartFails(c) /\ StartFailed
    /\ UNCHANGED <<links, timers, recState, callbacks, errorCalls, spent>>

StartMonitoring ==
    /\ startPc = "connectors" /\ lifeTodo = {}
    /\ \/ /\ startPc' = "done" /\ runningLock' = "free"
          /\ UNCHANGED <<running, lifeTodo, stopCalls, stopPc>>
       \/ StartFailed
    /\ UNCHANGED <<links, connState, timers, recState, callbacks, errorCalls, spent>>

-----------------------------------------------------------------------------
(* Stop: holds runningLock from its first step to its last.                *)

\* main receives an interrupt or a hang-up.
StopSignal ==
    /\ startPc = "done" /\ stopPc = "none" /\ stopCalls = 0
    /\ stopCalls' = 1
    /\ UNCHANGED <<running, runningLock, startPc, lifeTodo, stopPc, links,
                   connState, timers, recState, callbacks, errorCalls, spent>>

StopBegin ==
    /\ stopCalls > 0 /\ runningLock = "free"
    /\ stopCalls' = stopCalls - 1
    /\ IF running
       THEN running' = FALSE /\ runningLock' = "stop" /\ stopPc' = "timer"
       ELSE UNCHANGED <<running, runningLock, stopPc>>
    /\ UNCHANGED <<startPc, lifeTodo, links, connState, timers, recState,
                   callbacks, errorCalls, spent>>

\* stopReconnectTimer: Cancel ends a timer that has not fired; one that has
\* fired is past its select and goes on.
StopReconnectTimer ==
    /\ stopPc = "timer" /\ holder = "free"
    /\ stopPc' = "clear"
    /\ cur' = "nil"
    /\ orphanFired' = IF cur = "fired" THEN orphanFired + 1 ELSE orphanFired
    /\ UNCHANGED <<orphanArmed, running, runningLock, startPc, lifeTodo, stopCalls,
                   links, connState, recState, callbacks, errorCalls, spent>>

\* The map is replaced without reconnectLock.
StopClearReconnect ==
    /\ stopPc = "clear"
    /\ stopPc' = "shutdown" /\ lifeTodo' = Connectors /\ reconnect' = {}
    /\ UNCHANGED <<running, runningLock, startPc, stopCalls, links, connState,
                   timers, holder, todo, callbacks, errorCalls, spent>>

StopConnector(c) ==
    /\ stopPc = "shutdown" /\ c \in lifeTodo
    /\ Shutdown(c)
    /\ lifeTodo' = lifeTodo \ {c}
    /\ UNCHANGED <<running, runningLock, startPc, stopCalls, stopPc, links,
                   timers, recState, callbacks, errorCalls, spent>>

\* Close of a connected client runs both handlers, of a disconnected one the
\* closed handler only.
StopNats ==
    /\ stopPc = "shutdown" /\ lifeTodo = {}
    /\ stopPc' = "stan"
    /\ nats' = IF nats = "nil" THEN nats ELSE "closed"
    /\ ach' = CASE nats = "up"   -> ach \o <<"disconnected", "closed">>
                [] nats = "down" -> Append(ach, "closed")
                [] OTHER         -> ach
    /\ UNCHANGED <<running, runningLock, startPc, lifeTodo, stopCalls, stan,
                   stanEpoch, stanLive, stanSrv, mqUp, connState, timers,
                   recState, natsCb, lostCb, lostCheck, lostWait, errorCalls, spent>>

\* stan.Close, which leaves bridge.stan set, StopMonitoring and the unlock.
StopStan ==
    /\ stopPc = "stan"
    /\ stopPc' = "done" /\ runningLock' = "free"
    /\ stanLive' = (stanLive /\ stan = 0)
    /\ UNCHANGED <<running, startPc, lifeTodo, stopCalls, nats, stan, stanEpoch,
                   stanSrv, mqUp, connState, timers, recState, callbacks,
                   errorCalls, spent>>

-----------------------------------------------------------------------------
(* The connections come and go while the bridge runs.                      *)

NatsDown ==
    /\ running /\ nats = "up" /\ natsOutages < MaxNatsOutages
    /\ nats' = "down" /\ natsOutages' = natsOutages + 1
    /\ ach' = Append(ach, "disconnected")
    /\ UNCHANGED <<life, stan, stanEpoch, stanLive, stanSrv, mqUp, connState,
                   timers, recState, natsCb, lostCb, lostCheck, lostWait,
                   errorCalls, stanLosses, mqFailures, lateErrors, badPasses>>

\* The client library reconnects; natsReconnected only logs.
NatsReconnects ==
    /\ running /\ nats = "down"
    /\ nats' = "up"
    /\ UNCHANGED <<life, stan, stanEpoch, stanLive, stanSrv, mqUp, connState,
                   timers, recState, callbacks, errorCalls, spent>>

\* The client library has used up MaxReconnects and closes the connection.
NatsGivesUp ==
    /\ running /\ nats = "down"
    /\ nats' = "closed"
    /\ ach' = Append(ach, "closed")
    /\ UNCHANGED <<life, stan, stanEpoch, stanLive, stanSrv, mqUp, connState,
                   timers, recState, natsCb, lostCb, lostCheck, lostWait,
                   errorCalls, spent>>

\* The streaming client gives the connection up after missed pings: it closes
\* it and runs the handler in a goroutine of its own.
StanLost ==
    /\ running /\ stan # 0 /\ stanLive /\ stanLosses < MaxStanLosses
    /\ stanLive' = FALSE /\ stanLosses' = stanLosses + 1
    /\ stanSrv' \in BOOLEAN
    /\ lostCb' = lostCb + 1
    /\ UNCHANGED <<life, nats, stan, stanEpoch, mqUp, connState, timers, recState,
                   ach, natsCb, lostCheck, lostWait, errorCalls, natsOutages,
                   mqFailures, lateErrors, badPasses>>

StanServerBack ==
    /\ ~stanSrv
    /\ stanSrv' = TRUE
    /\ UNCHANGED <<life, nats, stan, stanEpoch, stanLive, mqUp, connState, timers,
                   recState, callbacks, errorCalls, spent>>

\* The queue manager goes away: every connection to it is dead for good.
MqDown ==
    /\ running /\ mqUp /\ mqFailures < MaxMqFailures
    /\ mqUp' = FALSE /\ mqFailures' = mqFailures + 1
    /\ conn' = [c \in Connectors |-> IF conn[c] = "up" THEN "broken" ELSE conn[c]]
    /\ UNCHANGED <<life, nats, stan, stanEpoch, stanLive, stanSrv, sub, draining,
                   timers, recState, callbacks, errorCalls, natsOutages,
                   stanLosses, lateErrors, badPasses>>

MqBack ==
    /\ ~mqUp
    /\ mqUp' = TRUE
    /\ UNCHANGED <<life, nats, stan, stanEpoch, stanLive, stanSrv, connState,
                   timers, recState, callbacks, errorCalls, spent>>

-----------------------------------------------------------------------------
(* Handlers of the NATS and of the streaming client.  The NATS client runs *)
(* its callbacks one after the other; the head of ach is the running one.  *)

\* natsDisconnected up to the lock of checkConnections; the two calls of
\* checkRunning have nothing between them.
NatsDisconnected ==
    /\ natsCb = "idle" /\ ach # <<>> /\ Head(ach) = "disconnected"
    /\ runningLock = "free"
    /\ IF running THEN natsCb' = "waiting" /\ UNCHANGED ach
                  ELSE ach' = Tail(ach) /\ UNCHANGED natsCb
    /\ UNCHANGED <<life, links, connState, timers, recState, lostCb, lostCheck,
                   lostWait, errorCalls, spent>>

\* Mutant: the closed handler only logs.
OnlyLogged == stopCalls

\* natsClosed starts Stop in a goroutine, when the bridge runs.
StopStarted == IF running THEN stopCalls + 1 ELSE stopCalls

NatsClosed ==
    /\ natsCb = "idle" /\ ach # <<>> /\ Head(ach) = "closed"
    /\ runningLock = "free"
    /\ ach' = Tail(ach)
    /\ stopCalls' = StopStarted
    /\ UNCHANGED <<running, runningLock, startPc, lifeTodo, stopPc, links,
                   connState, timers, recState, natsCb, lostCb, lostCheck,
                   lostWait, errorCalls, spent>>

\* Mutant: the handler does not call checkConnections.
LossUnchecked == lostCheck

\* stanConnectionLost goes on to checkConnections.
LossChecked == lostCheck + 1

StanConnectionLost ==
    /\ lostCb > 0 /\ runningLock = "free"
    /\ lostCb' = lostCb - 1
    /\ IF running THEN stan' = 0 /\ lostCheck' = LossChecked
                  ELSE UNCHANGED <<stan, lostCheck>>
    /\ UNCHANGED <<life, nats, stanEpoch, stanLive, stanSrv, mqUp, connState,
                   timers, recState, ach, natsCb, lostWait, errorCalls, spent>>

\* checkRunning of checkConnections, called by stanConnectionLost.
StanLostChecks ==
    /\ lostCheck > 0 /\ runningLock = "free"
    /\ lostCheck' = lostCheck - 1
    /\ lostWait' = IF running THEN lostWait + 1 ELSE lostWait
    /\ UNCHANGED <<life, links, connState, timers, recState, ach, natsCb, lostCb,
                   errorCalls, spent>>

\* checkConnections takes reconnectLock, for either caller.
NatsCheckLocks ==
    /\ natsCb = "waiting" /\ holder = "free"
    /\ natsCb' = "locked" /\ holder' = "natsCheck" /\ todo' = Connectors
    /\ UNCHANGED <<life, links, connState, timers, reconnect, ach, lostCb,
                   lostCheck, lostWait, errorCalls, spent>>

StanCheckLocks ==
    /\ lostWait > 0 /\ holder = "free"
    /\ lostWait' = lostWait - 1 /\ holder' = "stanCheck" /\ todo' = Connectors
    /\ UNCHANGED <<life, links, connState, timers, reconnect, ach, natsCb, lostCb,
                   lostCheck, errorCalls, spent>>

\* One turn of the loop of checkConnections.
CheckConnector(c) ==
    /\ holder \in {"natsCheck", "stanCheck"} /\ c \in todo
    /\ todo' = todo \ {c}
    /\ IF c \in reconnect \/ CheckConnections(c)
       THEN UNCHANGED <<reconnect, connState>>
       ELSE Shutdown(c) /\ reconnect' = Queued(c)
    /\ UNCHANGED <<life, links, timers, holder, callbacks, errorCalls, spent>>

\* The end of checkConnections: the timer is ensured whatever the loop found.
CheckEnds ==
    /\ holder \in {"natsCheck", "stanCheck"} /\ todo = {}
    /\ holder' = "free" /\ cur' = Ensured
    /\ IF holder = "natsCheck" THEN natsCb' = "idle" /\ ach' = Tail(ach)
                               ELSE UNCHANGED <<natsCb, ach>>
    /\ UNCHANGED <<life, links, connState, orphanArmed, orphanFired, reconnect,
                   todo, lostCb, lostCheck, lostWait, errorCalls, spent>>

-----------------------------------------------------------------------------
(* Errors of the MQ side: only connectors that read from MQ report them.   *)

\* Mutant: the callback logs the error and returns.
NotReported(c) == err

\* ConnectorError is started in a goroutine.
Reported(c) == [err EXCEPT ![c] = @ + 1]

\* The callback of a broken listener reports the error.
ListenerError(c) ==
    /\ conn[c] = "broken" /\ ReadsMQ(typeOf[c])
    /\ conn' = [conn EXCEPT ![c] = "reported"]
    /\ err' = Reported(c)
    /\ UNCHANGED <<life, links, sub, draining, timers, recState, callbacks, errOk,
                   spent>>

\* A poller calls Get again and reports again, or reports the Get that was
\* under way when it was shut down.
RepeatedError(c) ==
    /\ lateErrors < MaxLateErrors
    /\ \/ conn[c] = "reported" /\ c \in Polling /\ UNCHANGED draining
       \/ c \in draining /\ draining' = draining \ {c}
    /\ lateErrors' = lateErrors + 1
    /\ err' = Reported(c)
    /\ UNCHANGED <<life, links, conn, sub, timers, recState, callbacks, errOk,
                   natsOutages, stanLosses, mqFailures, badPasses>>

\* The poller's goroutine sees done closed and ends.
PollerEnds(c) ==
    /\ c \in draining
    /\ draining' = draining \ {c}
    /\ UNCHANGED <<life, links, conn, sub, timers, recState, callbacks, errorCalls,
                   spent>>

\* ConnectorError: checkRunning ...
ConnectorErrorChecks(c) ==
    /\ err[c] > 0 /\ runningLock = "free"
    /\ err' = [err EXCEPT ![c] = @ - 1]
    /\ errOk' = IF running THEN [errOk EXCEPT ![c] = @ + 1] ELSE errOk
    /\ UNCHANGED <<life, links, connState, timers, recState, callbacks, spent>>

\* ... and all it does under reconnectLock.
ConnectorError(c) ==
    /\ errOk[c] > 0 /\ holder = "free"
    /\ errOk' = [errOk EXCEPT ![c] = @ - 1]
    /\ IF c \in reconnect
       THEN UNCHANGED <<reconnect, connState, cur>>
       ELSE Shutdown(c) /\ reconnect' = Queued(c) /\ cur' = Ensured
    /\ UNCHANGED <<life, links, orphanArmed, orphanFired, holder, todo, callbacks,
                   err, spent>>

-----------------------------------------------------------------------------
(* The goroutines of reconnect timers.                                     *)

TimerFires ==
    /\ cur = "armed"
    /\ cur' = "fired"
    /\ UNCHANGED <<life, links, connState, orphanArmed, orphanFired, recState,
                   callbacks, errorCalls, spent>>

OrphanFires ==
    /\ orphanArmed > 0
    /\ orphanArmed' = orphanArmed - 1 /\ orphanFired' = orphanFired + 1
    /\ UNCHANGED <<life, links, connState, cur, recState, callbacks, errorCalls,
                   spent>>

\* Passes with NATS or streaming away are counted, and end at their bound.
PassAllowed ==
    LET good == CheckNATS /\ (stan # 0 \/ stanSrv \/ ~StanConfigured)
    IN  /\ good \/ badPasses < MaxBadPasses
        /\ badPasses' = IF good THEN badPasses ELSE badPasses + 1

\* A fired timer takes reconnectLock and looks at NATS: when NATS is away it
\* drops the pointer, arms a new timer and goes on all the same.
TimerLocks ==
    /\ cur = "fired" /\ holder = "free" /\ PassAllowed
    /\ holder' = "timerStan"
    /\ cur' = IF CheckNATS THEN "running" ELSE "armed"
    /\ UNCHANGED <<life, links, connState, orphanArmed, orphanFired, reconnect, todo,
                   callbacks, errorCalls, natsOutages, stanLosses, mqFailures,
                   lateErrors>>

\* The same for a timer that bridge.reconnectTimer does not point to.
OrphanLocks ==
    /\ orphanFired > 0 /\ holder = "free" /\ PassAllowed
    /\ holder' = "timerStan"
    /\ IF CheckNATS
       THEN orphanFired' = orphanFired - 1 /\ UNCHANGED <<cur, orphanArmed>>
       ELSE Repoint("armed", orphanFired - 1)
    /\ UNCHANGED <<life, links, connState, reconnect, todo, callbacks, errorCalls,
                   natsOutages, stanLosses, mqFailures, lateErrors>>

\* Mutant: a dead connection is replaced before its handler has run.
StanMissingOrDead == StanConfigured /\ (stan = 0 \/ ~stanLive)

\* connectToSTAN has something to do.
StanMissing == StanConfigured /\ stan = 0

\* Mutant: a failed streaming connect arms no timer.
StanNotRetried == UNCHANGED timers

\* After a failed streaming connect the pointer is dropped and a timer armed.
StanRetried == Repoint("armed", orphanFired)

\* Mutant: the loop visits every connector, not only the ones in the map.
AllConnectors == Connectors

\* The map as the loop finds it when it begins.
ToRestart == reconnect

\* Streaming is reconnected when bridge.stan is nil; when that fails a new
\* timer is armed and the pass goes on all the same.
TimerStan ==
    /\ holder = "timerStan"
    /\ \/ StanMissing /\ StanConnected /\ UNCHANGED timers
       \/ /\ StanMissing /\ ~(CheckNATS /\ stanSrv) /\ StanRetried
          /\ UNCHANGED <<stan, stanEpoch, stanLive>>
       \/ ~StanMissing /\ UNCHANGED <<stan, stanEpoch, stanLive, timers>>
    /\ holder' = "timerLoop" /\ todo' = ToRestart
    /\ UNCHANGED <<life, nats, stanSrv, mqUp, connState, reconnect, callbacks,
                   errorCalls, spent>>

\* A connector that could not be started stays in the map.
Stays(c) == reconnect

\* One turn of the loop over the map that was bridge.reconnect when the loop
\* began.
TimerRestarts(c) ==
    /\ holder = "timerLoop" /\ c \in todo
    /\ todo' = todo \ {c}
    /\ \/ StartOk(c) /\ reconnect' = reconnect \ {c}
       \/ StartFails(c) /\ reconnect' = Stays(c)
    /\ UNCHANGED <<life, links, timers, holder, callbacks, errorCalls, spent>>

\* Mutant: the pass returns without unlocking reconnectLock.
TimerEndsLocked ==
    /\ holder = "timerLoop" /\ todo = {}
    /\ Repoint(IF reconnect # {} THEN "armed" ELSE "nil", orphanFired)
    /\ UNCHANGED <<life, links, connState, recState, callbacks, errorCalls, spent>>

\* bridge.reconnectTimer is dropped, whichever timer it points to by now.
TimerEnds ==
    /\ holder = "timerLoop" /\ todo = {}
    /\ holder' = "free"
    /\ Repoint(IF reconnect # {} THEN "armed" ELSE "nil", orphanFired)
    /\ UNCHANGED <<life, links, connState, reconnect, todo, callbacks, errorCalls,
                   spent>>

-----------------------------------------------------------------------------
\* The bridge has been stopped; whatever goroutines are left may go on.
Stopped == stopPc = "done" /\ UNCHANGED vars

Next ==
    \/ StartBegin \/ StartNats \/ StartStan \/ StartMonitoring
    \/ StopSignal \/ StopBegin \/ StopReconnectTimer \/ StopClearReconnect
    \/ StopNats \/ StopStan \/ Stopped
    \/ NatsDown \/ NatsReconnects \/ NatsGivesUp
    \/ StanLost \/ StanServerBack \/ MqDown \/ MqBack
    \/ NatsDisconnected \/ NatsClosed \/ StanConnectionLost \/ StanLostChecks
    \/ NatsCheckLocks \/ StanCheckLocks \/ CheckEnds
    \/ TimerFires \/ OrphanFires \/ TimerLocks \/ OrphanLocks
    \/ TimerStan \/ TimerEnds
    \/ \E c \in Connectors :
          \/ StartConnector(c) \/ StopConnector(c)
          \/ CheckConnector(c) \/ TimerRestarts(c)
          \/ ListenerError(c) \/ RepeatedError(c) \/ PollerEnds(c)
          \/ ConnectorErrorChecks(c) \/ ConnectorError(c)

Spec == Init /\ [][Next]_vars

-----------------------------------------------------------------------------
(* Fairness: goroutines that can run do run, whoever waits for a mutex that *)
(* keeps being released gets it (Go's mutexes do not starve a waiter), the  *)
(* NATS client either reconnects or gives up, and the servers come back.    *)

LockHolderStep ==
    \/ TimerStan \/ TimerEnds \/ CheckEnds
    \/ \E c \in Connectors : CheckConnector(c) \/ TimerRestarts(c)

StartStep ==
    \/ StartNats \/ StartStan \/ StartMonitoring
    \/ \E c \in Connectors : StartConnector(c)

StopStep ==
    \/ StopBegin \/ StopClearReconnect \/ StopNats \/ StopStan
    \/ \E c \in Connectors : StopConnector(c)

Fairness ==
    /\ WF_vars(StartStep) /\ WF_vars(StopStep) /\ SF_vars(StopReconnectTimer)
    /\ WF_vars(LockHolderStep)
    /\ WF_vars(NatsDisconnected) /\ WF_vars(NatsClosed)
    /\ WF_vars(StanConnectionLost) /\ WF_vars(StanLostChecks)
    /\ WF_vars(NatsCheckLocks) /\ WF_vars(StanCheckLocks)
    /\ WF_vars(TimerFires) /\ WF_vars(OrphanFires)
    /\ WF_vars(TimerLocks \/ OrphanLocks)
    /\ \A c \in Connectors :
          /\ WF_vars(ListenerError(c))
          /\ WF_vars(ConnectorErrorChecks(c)) /\ WF_vars(ConnectorError(c))
    /\ WF_vars(NatsReconnects \/ NatsGivesUp)
    /\ WF_vars(StanServerBack) /\ WF_vars(MqBack)

FairSpec == Spec /\ Fairness

-----------------------------------------------------------------------------
(* Properties.                                                             *)

LifeOK ==
    /\ running \in BOOLEAN /\ runningLock \in {"free", "start", "stop"}
    /\ startPc \in StartPcs /\ stopPc \in StopPcs
    /\ lifeTodo \subseteq Connectors /\ stopCalls \in Nat

LinksOK ==
    /\ nats \in {"nil", "up", "down", "closed"}
    /\ stan \in Nat /\ stanEpoch \in Nat /\ stanLive \in BOOLEAN
    /\ stanSrv \in BOOLEAN /\ mqUp \in BOOLEAN

ConnsOK ==
    /\ conn \in [Connectors -> {"down", "up", "broken", "reported"}]
    /\ sub \in [Connectors -> Nat] /\ draining \subseteq Connectors

TimersOK ==
    /\ cur \in {"nil", "armed", "fired", "running"}
    /\ orphanArmed \in Nat /\ orphanFired \in Nat

RecOK ==
    reconnect \subseteq Connectors /\ holder \in Holders /\ todo \subseteq Connectors

CallbacksOK ==
    /\ ach \in Seq({"disconnected", "closed"})
    /\ natsCb \in {"idle", "waiting", "locked"}
    /\ lostCb \in Nat /\ lostCheck \in Nat /\ lostWait \in Nat

ErrorsOK == err \in [Connectors -> Nat] /\ errOk \in [Connectors -> Nat]

SpentOK ==
    /\ natsOutages \in Nat /\ stanLosses \in Nat /\ mqFailures \in Nat
    /\ lateErrors \in Nat /\ badPasses \in Nat

\* Every variable of the bridge has its type.
TypeOK ==
    /\ LifeOK /\ LinksOK /\ ConnsOK /\ TimersOK
    /\ RecOK /\ CallbacksOK /\ ErrorsOK /\ SpentOK

\* While the bridge runs no connector is forgotten: each one is either up or
\* in bridge.reconnect, never both (Start on a connector that is up would
\* overwrite, and so leak, its queue manager connection and its listener).
NoneForgotten ==
    running /\ startPc = "done" =>
        \A c \in Connectors : Up(c) <=> c \notin reconnect

\* The reconnect loop never calls Start on a connector that is up, also when
\* Stop has replaced the map under it.
NeverStartedTwice ==
    holder = "timerLoop" => \A c \in todo : ~Up(c)

\* Whenever reconnectLock is free and a connector waits for its restart, the
\* timer that bridge.reconnectTimer points to is on its way.
NoLostReconnect ==
    running /\ holder = "free" /\ reconnect # {} => cur \in {"armed", "fired"}

\* A bridge with streaming configured that has lost it has something pending
\* that will try to reconnect: a handler, the lock's holder or some timer.
StreamingRetryPending ==
    running /\ startPc = "done" /\ StanConfigured /\ stan = 0 =>
        \/ cur # "nil" \/ orphanArmed + orphanFired > 0
        \/ lostCheck + lostWait > 0 \/ holder \in {"stanCheck", "timerStan"}

\* A connector that needs streaming is up without it only as long as the
\* handler of the loss has not looked at it: a listener may meanwhile publish
\* on the nil connection (stanMessageHandler), and for no longer.
NilStreamingNoticed ==
    running /\ stan = 0 =>
        \A c \in Connectors :
            NeedsStan(typeOf[c]) /\ Up(c) =>
                \/ lostCheck + lostWait > 0
                \/ holder = "stanCheck" /\ c \in todo

\* A late stanConnectionLost never throws away a streaming connection that
\* works: bridge.stan goes back to nil only for a dead one.
LiveStreamingKept ==
    [][stan # 0 /\ stan' = 0 => ~stanLive]_vars

\* A durable subscriber that was shut down while the streaming connection of
\* its subscription is still the bridge's: the server refuses it a new one.
Refused(c) == c \in Durable /\ stan # 0 /\ sub[c] = stan

\* A connector that waits for its restart is up again some time, or the bridge
\* is stopped.  Only a durable subscriber may wait for longer, while the
\* streaming connection of its old subscription lives.
Restarted ==
    \A c \in Connectors :
        c \in reconnect /\ ~Refused(c) ~> (Up(c) \/ ~running)

\* A connector that reads from a queue manager that went away gets a working
\* connection again.  (One that writes to it does not: it only logs.)
BrokenReaderRepaired ==
    \A c \in Connectors \ Durable :
        Broken(c) /\ ReadsMQ(typeOf[c]) ~> (conn[c] = "up" \/ ~running)

\* Every call of Stop ends with the bridge stopped: it is not caught between
\* the running lock and the reconnect lock.
StopCompletes == stopCalls > 0 ~> stopPc = "done"

\* A NATS connection that is given up takes the bridge down.
ClosedNatsStopsBridge == nats = "closed" ~> stopPc = "done"

-----------------------------------------------------------------------------
(* What the documentation says and the code does not do.                   *)

\* Violated: a restart is tried every reconnect interval, by one timer at a
\* time.  A pass that finds NATS away arms a timer and goes on.
SingleReconnectTimer ==
    (IF cur = "nil" THEN 0 ELSE 1) + orphanArmed + orphanFired <= 1
=============================================================================
