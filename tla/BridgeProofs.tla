---------------------------- MODULE BridgeProofs ----------------------------
(***************************************************************************)
(* Proofs, for every set of connectors of every type and for every bound,  *)
(* that the supervision of Bridge.tla loses no connector and no streaming  *)
(* connection.                                                             *)
(***************************************************************************)
EXTENDS Bridge, TLAPS

\* While Start runs it holds runningLock and nobody else has got anywhere.
Starting == startPc \notin {"done", "failed"}

StartInv ==
    Starting =>
        /\ stopPc = "none"
        /\ running = (startPc # "new")
        /\ startPc # "new" => runningLock = "start"
        /\ reconnect = {} /\ holder = "free" /\ cur = "nil"
        /\ orphanArmed = 0 /\ orphanFired = 0
        /\ natsCb = "idle" /\ lostCheck = 0 /\ lostWait = 0
        /\ \A c \in Connectors : errOk[c] = 0

\* Stop clears running before it touches anything else.
StopInv == running => stopPc = "none"

\* The dispatcher is inside the callback at the head of its queue.
QueueInv ==
    /\ natsCb # "idle" => ach # <<>>
    /\ holder = "natsCheck" => natsCb = "locked"

\* What is up, what is queued for a restart, and what the loops have visited.
ConnInv ==
    /\ \A c \in reconnect : ~Up(c)
    /\ holder = "timerLoop" => \A c \in todo : ~Up(c)
    /\ startPc = "connectors" => \A c \in Connectors \ lifeTodo : Up(c)
    /\ running /\ startPc = "done" =>
          \A c \in Connectors : Up(c) \/ c \in reconnect

\* The timer bridge.reconnectTimer points to.
TimerInv ==
    /\ cur = "running" => holder \in {"timerStan", "timerLoop"}
    /\ NoLostReconnect

\* At most one stanConnectionLost is on its way, and then bridge.stan is the
\* dead connection it is about.
LostInv ==
    /\ startPc \in {"new", "nats", "stan"} => stan = 0
    /\ startPc = "connectors" /\ StanConfigured => stan # 0
    /\ lostCb > 0 => lostCb = 1 /\ stan # 0 /\ ~stanLive

\* StreamingRetryPending, without counting a pass that is past its streaming
\* step.
RetryInv ==
    running /\ startPc = "done" /\ StanConfigured /\ stan = 0 =>
        \/ cur \in {"armed", "fired"} \/ orphanArmed + orphanFired > 0
        \/ lostCheck + lostWait > 0 \/ holder \in {"stanCheck", "timerStan"}

IndInv ==
    /\ TypeOK
    /\ StartInv /\ StopInv /\ QueueInv /\ ConnInv /\ TimerInv /\ LostInv /\ RetryInv

-----------------------------------------------------------------------------
(* What Start and Shutdown of one connector do to its state.               *)

\* Shutdown keeps the types of the connectors' state.
LEMMA ShutdownType ==
    ASSUME NEW c \in Connectors, ConnsOK, Shutdown(c)
    PROVE  ConnsOK'
  BY DEF ConnsOK, Shutdown

\* Start keeps them too.
LEMMA StartOkType ==
    ASSUME NEW c \in Connectors, LinksOK, ConnsOK, StartOk(c)
    PROVE  ConnsOK'
  BY DEF LinksOK, ConnsOK, StartOk

\* A step that leaves the connectors alone keeps them.
LEMMA SameConnsType ==
    ASSUME ConnsOK, UNCHANGED connState
    PROVE  ConnsOK'
  BY DEF ConnsOK, connState

\* The steps that start or shut down one connector keep the types.
LEMMA ConnsStep ==
    ASSUME LinksOK, ConnsOK, NEW c \in Connectors,
           \/ StartConnector(c) \/ StopConnector(c) \/ CheckConnector(c)
           \/ TimerRestarts(c) \/ ConnectorError(c)
    PROVE  ConnsOK'
<1>1. CASE StartConnector(c)
  BY <1>1, StartOkType, SameConnsType DEF StartConnector, StartFails
<1>2. CASE StopConnector(c)
  BY <1>2, ShutdownType DEF StopConnector
<1>3. CASE CheckConnector(c)
  BY <1>3, ShutdownType, SameConnsType DEF CheckConnector
<1>4. CASE TimerRestarts(c)
  BY <1>4, StartOkType, SameConnsType DEF TimerRestarts, StartFails
<1>5. CASE ConnectorError(c)
  BY <1>5, ShutdownType, SameConnsType DEF ConnectorError
<1>q. QED
  BY <1>1, <1>2, <1>3, <1>4, <1>5

\* The steps that take from or add to the dispatcher's queue keep its type.
LEMMA QueueStep ==
    ASSUME CallbacksOK, QueueInv, NatsDisconnected \/ CheckEnds \/ StopNats
    PROVE  ach' \in Seq({"disconnected", "closed"})
<1> DEFINE S == {"disconnected", "closed"}
<1>1. ach # <<>> => Tail(ach) \in Seq(S)
  BY DEF CallbacksOK
<1>2. CASE NatsDisconnected
  BY <1>1, <1>2 DEF NatsDisconnected, CallbacksOK
<1>3. CASE CheckEnds
  BY <1>1, <1>3 DEF CheckEnds, CallbacksOK, QueueInv
<1>4. CASE StopNats
  <2>1. ach \o <<"disconnected", "closed">> \in Seq(S)
    BY DEF CallbacksOK
  <2>2. Append(ach, "closed") \in Seq(S)
    BY DEF CallbacksOK
  <2>q. QED
    BY <1>4, <2>1, <2>2 DEF StopNats, CallbacksOK
<1>q. QED
  BY <1>2, <1>3, <1>4

-----------------------------------------------------------------------------

\* Every step keeps the types.
LEMMA TypeStep ==
    ASSUME IndInv, [Next]_vars
    PROVE  TypeOK'
<1> USE DEF IndInv, TypeOK, LifeOK, LinksOK, ConnsOK, TimersOK, RecOK,
               CallbacksOK, ErrorsOK, SpentOK, StartPcs, StopPcs, Holders,
               life, links, connState, timers, recState, callbacks,
               errorCalls, spent
<1>1. CASE StartBegin
  BY <1>1 DEF StartBegin
<1>2. CASE StartNats
  BY <1>2 DEF StartNats, StartFailed
<1>3. CASE StartStan
  <2>1. LifeOK'
    BY <1>3 DEF StartStan, StartFailed
  <2>2. stanLive' \in BOOLEAN
    BY <1>3 DEF StartStan, StanConnected
  <2>3. LinksOK'
    BY <1>3, <2>2 DEF StartStan, StanConnected
  <2>q. QED
    BY <1>3, <2>1, <2>3 DEF StartStan
<1>4. CASE StartMonitoring
  BY <1>4 DEF StartMonitoring, StartFailed
<1>5. CASE StopSignal
  BY <1>5 DEF StopSignal
<1>6. CASE StopBegin
  <2>1. running' \in BOOLEAN
    BY <1>6 DEF StopBegin
  <2>2. stopPc' \in StopPcs /\ runningLock' \in {"free", "start", "stop"}
    BY <1>6 DEF StopBegin
  <2>q. QED
    BY <1>6, <2>1, <2>2 DEF StopBegin
<1>7. CASE StopReconnectTimer
  BY <1>7 DEF StopReconnectTimer
<1>8. CASE StopClearReconnect
  BY <1>8 DEF StopClearReconnect
<1>9. CASE StopNats
  <2>1. LifeOK' /\ LinksOK'
    BY <1>9 DEF StopNats
  <2>2. CallbacksOK'
    <3>1. ach' \in Seq({"disconnected", "closed"})
      BY <1>9, QueueStep
    <3>2. UNCHANGED <<natsCb, lostCb, lostCheck, lostWait>>
      BY <1>9 DEF StopNats
    <3>q. QED
      BY <3>1, <3>2
  <2>3. UNCHANGED <<connState, timers, recState, errorCalls, spent>>
    BY <1>9 DEF StopNats
  <2>q. QED
    BY <2>1, <2>2, <2>3
<1>10. CASE StopStan
  BY <1>10 DEF StopStan
<1>11. CASE Stopped
  BY <1>11 DEF Stopped, vars
<1>12. CASE NatsDown
  BY <1>12 DEF NatsDown
<1>13. CASE NatsReconnects
  BY <1>13 DEF NatsReconnects
<1>14. CASE NatsGivesUp
  BY <1>14 DEF NatsGivesUp
<1>15. CASE StanLost
  <2>1. LinksOK'
    BY <1>15 DEF StanLost
  <2>2. CallbacksOK'
    BY <1>15 DEF StanLost
  <2>3. SpentOK'
    BY <1>15 DEF StanLost
  <2>q. QED
    BY <1>15, <2>1, <2>2, <2>3 DEF StanLost
<1>16. CASE StanServerBack
  BY <1>16 DEF StanServerBack
<1>17. CASE MqDown
  <2>1. LinksOK'
    BY <1>17 DEF MqDown
  <2>2. ConnsOK'
    BY <1>17 DEF MqDown
  <2>3. SpentOK'
    BY <1>17 DEF MqDown
  <2>q. QED
    BY <1>17, <2>1, <2>2, <2>3 DEF MqDown
<1>18. CASE MqBack
  BY <1>18 DEF MqBack
<1>19. CASE NatsDisconnected
  <2>1. ach' \in Seq({"disconnected", "closed"})
    BY <1>19, QueueStep
  <2>2. natsCb' \in {"idle", "waiting", "locked"}
    BY <1>19 DEF NatsDisconnected
  <2>q. QED
    BY <1>19, <2>1, <2>2 DEF NatsDisconnected
<1>20. CASE NatsClosed
  BY <1>20 DEF NatsClosed, StopStarted
<1>21. CASE StanConnectionLost
  BY <1>21 DEF StanConnectionLost, LossChecked
<1>22. CASE StanLostChecks
  BY <1>22 DEF StanLostChecks
<1>23. CASE NatsCheckLocks
  BY <1>23 DEF NatsCheckLocks
<1>24. CASE StanCheckLocks
  BY <1>24 DEF StanCheckLocks
<1>25. CASE CheckEnds
  <2>1. ach' \in Seq({"disconnected", "closed"})
    BY <1>25, QueueStep
  <2>2. natsCb' \in {"idle", "waiting", "locked"}
    BY <1>25 DEF CheckEnds
  <2>3. TimersOK' /\ RecOK'
    BY <1>25 DEF CheckEnds, Ensured
  <2>q. QED
    BY <1>25, <2>1, <2>2, <2>3 DEF CheckEnds
<1>26. CASE TimerFires
  BY <1>26 DEF TimerFires
<1>27. CASE OrphanFires
  BY <1>27 DEF OrphanFires
<1>28. CASE TimerLocks
  BY <1>28 DEF TimerLocks, PassAllowed
<1>29. CASE OrphanLocks
  <2>1. TimersOK'
    BY <1>29 DEF OrphanLocks, PassAllowed, Repoint
  <2>2. RecOK'
    BY <1>29 DEF OrphanLocks, PassAllowed, Repoint
  <2>3. SpentOK'
    BY <1>29 DEF OrphanLocks, PassAllowed, Repoint
  <2>q. QED
    BY <1>29, <2>1, <2>2, <2>3 DEF OrphanLocks
<1>30. CASE TimerStan
  <2>1. stanLive' \in BOOLEAN
    BY <1>30 DEF TimerStan, StanConnected
  <2>2. LinksOK'
    BY <1>30, <2>1 DEF TimerStan, StanConnected
  <2>3. TimersOK'
    BY <1>30 DEF TimerStan, StanRetried, Repoint
  <2>4. RecOK'
    BY <1>30 DEF TimerStan, ToRestart
  <2>q. QED
    BY <1>30, <2>2, <2>3, <2>4 DEF TimerStan
<1>31. CASE TimerEnds
  BY <1>31 DEF TimerEnds, Repoint
<1>32. ASSUME NEW c \in Connectors, StartConnector(c) PROVE TypeOK'
  <2>1. ConnsOK'
    BY <1>32, ConnsStep
  <2>2. LifeOK'
    BY <1>32 DEF StartConnector, StartFailed
  <2>q. QED
    BY <1>32, <2>1, <2>2 DEF StartConnector
<1>33. ASSUME NEW c \in Connectors, StopConnector(c) PROVE TypeOK'
  BY <1>33 DEF StopConnector, Shutdown
<1>34. ASSUME NEW c \in Connectors, CheckConnector(c) PROVE TypeOK'
  <2>1. ConnsOK'
    BY <1>34, ConnsStep
  <2>2. RecOK'
    BY <1>34 DEF CheckConnector, Queued
  <2>q. QED
    BY <1>34, <2>1, <2>2 DEF CheckConnector
<1>35. ASSUME NEW c \in Connectors, TimerRestarts(c) PROVE TypeOK'
  <2>1. ConnsOK'
    BY <1>35, ConnsStep
  <2>2. RecOK'
    BY <1>35 DEF TimerRestarts, Stays
  <2>q. QED
    BY <1>35, <2>1, <2>2 DEF TimerRestarts
<1>36. ASSUME NEW c \in Connectors, ListenerError(c) PROVE TypeOK'
  BY <1>36 DEF ListenerError, Reported
<1>37. ASSUME NEW c \in Connectors, RepeatedError(c) PROVE TypeOK'
  BY <1>37 DEF RepeatedError, Reported
<1>38. ASSUME NEW c \in Connectors, PollerEnds(c) PROVE TypeOK'
  BY <1>38 DEF PollerEnds
<1>39. ASSUME NEW c \in Connectors, ConnectorErrorChecks(c) PROVE TypeOK'
  BY <1>39 DEF ConnectorErrorChecks
<1>40. ASSUME NEW c \in Connectors, ConnectorError(c) PROVE TypeOK'
  <2>1. ConnsOK'
    BY <1>40, ConnsStep
  <2>2. TimersOK' /\ RecOK' /\ ErrorsOK'
    BY <1>40 DEF ConnectorError, Queued, Ensured
  <2>q. QED
    BY <1>40, <2>1, <2>2 DEF ConnectorError
<1>41. CASE UNCHANGED vars
  BY <1>41 DEF vars
<1>q. QED
  BY <1>1, <1>2, <1>3, <1>4, <1>5, <1>6, <1>7, <1>8, <1>9, <1>10, <1>11,
     <1>12, <1>13, <1>14, <1>15, <1>16, <1>17, <1>18, <1>19, <1>20, <1>21,
     <1>22, <1>23, <1>24, <1>25, <1>26, <1>27, <1>28, <1>29, <1>30, <1>31,
     <1>32, <1>33, <1>34, <1>35, <1>36, <1>37, <1>38, <1>39, <1>40, <1>41 DEF
     Next

\* Every step keeps StartInv.
LEMMA StartInvStep ==
    ASSUME IndInv, [Next]_vars
    PROVE  StartInv'
<1> DEFINE Frame == UNCHANGED <<startPc, stopPc, running, runningLock, reconnect, holder, cur,
                         orphanArmed, orphanFired, natsCb, lostCheck, lostWait, errOk>>
<1> USE DEF IndInv, TypeOK, LifeOK, ErrorsOK, TimersOK, StartPcs, StartInv,
               Starting, life, links, connState, timers, recState, callbacks,
               errorCalls, spent
<1>1. CASE StartBegin
  BY <1>1 DEF StartBegin
<1>2. CASE StartNats
  BY <1>2 DEF StartNats, StartFailed
<1>3. CASE StartStan
  BY <1>3 DEF StartStan, StartFailed, StanConnected
<1>4. CASE StartMonitoring
  BY <1>4 DEF StartMonitoring, StartFailed
<1>5. CASE StopBegin
  BY <1>5 DEF StopBegin
<1>6. CASE StopReconnectTimer
  BY <1>6 DEF StopReconnectTimer
<1>7. CASE StopClearReconnect
  BY <1>7 DEF StopClearReconnect
<1>8. CASE StopNats
  BY <1>8 DEF StopNats
<1>9. CASE StopStan
  BY <1>9 DEF StopStan
<1>10. CASE NatsDisconnected
  BY <1>10 DEF NatsDisconnected
<1>11. CASE StanConnectionLost
  BY <1>11 DEF StanConnectionLost, LossChecked
<1>12. CASE StanLostChecks
  BY <1>12 DEF StanLostChecks
<1>13. CASE NatsCheckLocks
  BY <1>13 DEF NatsCheckLocks
<1>14. CASE StanCheckLocks
  BY <1>14 DEF StanCheckLocks
<1>15. CASE CheckEnds
  BY <1>15 DEF CheckEnds, Ensured
<1>16. CASE TimerFires
  BY <1>16 DEF TimerFires
<1>17. CASE OrphanFires
  BY <1>17 DEF OrphanFires
<1>18. CASE TimerLocks
  BY <1>18 DEF TimerLocks, PassAllowed
<1>19. CASE OrphanLocks
  BY <1>19 DEF OrphanLocks, PassAllowed, Repoint
<1>20. CASE TimerStan
  BY <1>20 DEF TimerStan, StanMissing, StanConnected, StanRetried, Repoint,
     ToRestart
<1>21. CASE TimerEnds
  BY <1>21 DEF TimerEnds, Repoint
<1>22. ASSUME NEW c \in Connectors, StartConnector(c) PROVE StartInv'
  BY <1>22 DEF StartConnector, StartFailed, StartOk, StartFails
<1>23. ASSUME NEW c \in Connectors, CheckConnector(c) PROVE StartInv'
  BY <1>23 DEF CheckConnector, Shutdown, Queued
<1>24. ASSUME NEW c \in Connectors, TimerRestarts(c) PROVE StartInv'
  BY <1>24 DEF TimerRestarts, StartOk, StartFails, Stays
<1>25. ASSUME NEW c \in Connectors, ConnectorErrorChecks(c) PROVE StartInv'
  BY <1>25 DEF ConnectorErrorChecks
<1>26. ASSUME NEW c \in Connectors, ConnectorError(c) PROVE StartInv'
  BY <1>26 DEF ConnectorError, Shutdown, Queued, Ensured
<1>27. ASSUME \/ StopSignal \/ Stopped \/ NatsDown \/ NatsReconnects
              \/ NatsGivesUp
      PROVE  Frame
  BY <1>27 DEF StopSignal, Stopped, NatsDown, NatsReconnects, NatsGivesUp,
     vars
<1>28. ASSUME \/ StanLost \/ StanServerBack \/ MqDown \/ MqBack \/ NatsClosed
      PROVE  Frame
  BY <1>28 DEF StanLost, StanServerBack, MqDown, MqBack, NatsClosed
<1>29. ASSUME NEW c \in Connectors,
             \/ StopConnector(c) \/ ListenerError(c) \/ RepeatedError(c)
             \/ PollerEnds(c)
      PROVE  Frame
  BY <1>29 DEF StopConnector, ListenerError, RepeatedError, PollerEnds
<1>30. CASE UNCHANGED vars
  BY <1>30 DEF vars
<1>31. CASE Frame
  BY <1>31
<1>q. QED
  BY <1>1, <1>2, <1>3, <1>4, <1>5, <1>6, <1>7, <1>8, <1>9, <1>10, <1>11,
     <1>12, <1>13, <1>14, <1>15, <1>16, <1>17, <1>18, <1>19, <1>20, <1>21,
     <1>22, <1>23, <1>24, <1>25, <1>26, <1>27, <1>28, <1>29, <1>30, <1>31 DEF
     Next

\* Every step keeps StopInv.
LEMMA StopInvStep ==
    ASSUME IndInv, [Next]_vars
    PROVE  StopInv'
<1> DEFINE Frame == UNCHANGED <<running, stopPc>>
<1> USE DEF IndInv, TypeOK, LifeOK, StartPcs, StartInv, Starting, StopInv,
               life, links, connState, timers, recState, callbacks,
               errorCalls, spent
<1>1. CASE StartBegin
  BY <1>1 DEF StartBegin
<1>2. CASE StopBegin
  BY <1>2 DEF StopBegin
<1>3. CASE StopReconnectTimer
  BY <1>3 DEF StopReconnectTimer
<1>4. CASE StopClearReconnect
  BY <1>4 DEF StopClearReconnect
<1>5. CASE StopNats
  BY <1>5 DEF StopNats
<1>6. CASE StopStan
  BY <1>6 DEF StopStan
<1>7. ASSUME \/ StartNats \/ StartStan \/ StartMonitoring \/ StopSignal
             \/ Stopped \/ NatsDown \/ NatsReconnects
      PROVE  Frame
  BY <1>7 DEF StartNats, StartStan, StartMonitoring, StopSignal, Stopped,
     NatsDown, NatsReconnects, StartFailed, vars
<1>8. ASSUME \/ NatsGivesUp \/ StanLost \/ StanServerBack \/ MqDown \/ MqBack
             \/ NatsDisconnected \/ NatsClosed
      PROVE  Frame
  BY <1>8 DEF NatsGivesUp, StanLost, StanServerBack, MqDown, MqBack,
     NatsDisconnected, NatsClosed
<1>9. ASSUME \/ StanConnectionLost \/ StanLostChecks \/ NatsCheckLocks
             \/ StanCheckLocks \/ CheckEnds \/ TimerFires \/ OrphanFires
      PROVE  Frame
  BY <1>9 DEF StanConnectionLost, LossChecked, StanLostChecks, NatsCheckLocks,
     StanCheckLocks, CheckEnds, TimerFires, OrphanFires
<1>10. ASSUME \/ TimerLocks \/ OrphanLocks \/ TimerStan \/ TimerEnds
      PROVE  Frame
  BY <1>10 DEF TimerLocks, OrphanLocks, TimerStan, TimerEnds
<1>11. ASSUME NEW c \in Connectors,
             \/ StartConnector(c) \/ StopConnector(c) \/ CheckConnector(c)
             \/ TimerRestarts(c) \/ ListenerError(c) \/ RepeatedError(c)
             \/ PollerEnds(c) \/ ConnectorErrorChecks(c) \/ ConnectorError(c)
      PROVE  Frame
  BY <1>11 DEF StartConnector, StopConnector, CheckConnector, TimerRestarts,
     ListenerError, RepeatedError, PollerEnds, ConnectorErrorChecks,
     ConnectorError, StartFailed
<1>12. CASE UNCHANGED vars
  BY <1>12 DEF vars
<1>13. CASE Frame
  BY <1>13
<1>q. QED
  BY <1>1, <1>2, <1>3, <1>4, <1>5, <1>6, <1>7, <1>8, <1>9, <1>10, <1>11,
     <1>12, <1>13 DEF Next

\* Every step keeps QueueInv.
LEMMA QueueInvStep ==
    ASSUME IndInv, [Next]_vars
    PROVE  QueueInv'
<1> DEFINE Frame == UNCHANGED <<ach, natsCb, holder>>
<1> USE DEF IndInv, TypeOK, CallbacksOK, QueueInv, life, links, connState,
               timers, recState, callbacks, errorCalls, spent
<1>1. CASE StopNats
  BY <1>1 DEF StopNats
<1>2. CASE NatsDown
  BY <1>2 DEF NatsDown
<1>3. CASE NatsGivesUp
  BY <1>3 DEF NatsGivesUp
<1>4. CASE NatsDisconnected
  BY <1>4 DEF NatsDisconnected
<1>5. CASE NatsClosed
  BY <1>5 DEF NatsClosed, StopStarted
<1>6. CASE NatsCheckLocks
  BY <1>6 DEF NatsCheckLocks
<1>7. CASE StanCheckLocks
  BY <1>7 DEF StanCheckLocks
<1>8. CASE CheckEnds
  BY <1>8 DEF CheckEnds, Ensured
<1>9. CASE TimerLocks
  BY <1>9 DEF TimerLocks, PassAllowed
<1>10. CASE OrphanLocks
  BY <1>10 DEF OrphanLocks, PassAllowed, Repoint
<1>11. CASE TimerStan
  BY <1>11 DEF TimerStan, StanMissing, StanConnected, StanRetried, Repoint,
     ToRestart
<1>12. CASE TimerEnds
  BY <1>12 DEF TimerEnds, Repoint
<1>13. ASSUME \/ StartBegin \/ StartNats \/ StartStan \/ StartMonitoring
              \/ StopSignal \/ StopBegin \/ StopReconnectTimer
      PROVE  Frame
  BY <1>13 DEF StartBegin, StartNats, StartStan, StartMonitoring, StopSignal,
     StopBegin, StopReconnectTimer, StartFailed
<1>14. ASSUME \/ StopClearReconnect \/ StopStan \/ Stopped \/ NatsReconnects
              \/ StanLost \/ StanServerBack \/ MqDown
      PROVE  Frame
  BY <1>14 DEF StopClearReconnect, StopStan, Stopped, NatsReconnects,
     StanLost, StanServerBack, MqDown, vars
<1>15. ASSUME \/ MqBack \/ StanConnectionLost \/ StanLostChecks \/ TimerFires
              \/ OrphanFires
      PROVE  Frame
  BY <1>15 DEF MqBack, StanConnectionLost, LossChecked, StanLostChecks, TimerFires,
     OrphanFires
<1>16. ASSUME NEW c \in Connectors,
             \/ StartConnector(c) \/ StopConnector(c) \/ CheckConnector(c)
             \/ TimerRestarts(c) \/ ListenerError(c) \/ RepeatedError(c)
             \/ PollerEnds(c) \/ ConnectorErrorChecks(c) \/ ConnectorError(c)
      PROVE  Frame
  BY <1>16 DEF StartConnector, StopConnector, CheckConnector, TimerRestarts,
     ListenerError, RepeatedError, PollerEnds, ConnectorErrorChecks,
     ConnectorError, StartFailed
<1>17. CASE UNCHANGED vars
  BY <1>17 DEF vars
<1>18. CASE Frame
  BY <1>18
<1>q. QED
  BY <1>1, <1>2, <1>3, <1>4, <1>5, <1>6, <1>7, <1>8, <1>9, <1>10, <1>11,
     <1>12, <1>13, <1>14, <1>15, <1>16, <1>17, <1>18 DEF Next

\* Every step keeps TimerInv.
LEMMA TimerInvStep ==
    ASSUME IndInv, [Next]_vars
    PROVE  TimerInv'
<1> DEFINE Frame == UNCHANGED <<running, cur, holder, reconnect>>
<1> USE DEF IndInv, TypeOK, LifeOK, TimersOK, RecOK, Holders, StartInv,
               Starting, StartPcs, StopInv, TimerInv, NoLostReconnect, life,
               links, connState, timers, recState, callbacks, errorCalls,
               spent
<1>1. CASE StartBegin
  BY <1>1 DEF StartBegin
<1>2. CASE StopBegin
  BY <1>2 DEF StopBegin
<1>3. CASE StopReconnectTimer
  BY <1>3 DEF StopReconnectTimer
<1>4. CASE StopClearReconnect
  BY <1>4 DEF StopClearReconnect
<1>5. CASE NatsCheckLocks
  BY <1>5 DEF NatsCheckLocks
<1>6. CASE StanCheckLocks
  BY <1>6 DEF StanCheckLocks
<1>7. CASE CheckEnds
  BY <1>7 DEF CheckEnds, Ensured
<1>8. CASE TimerFires
  BY <1>8 DEF TimerFires
<1>9. CASE TimerLocks
  BY <1>9 DEF TimerLocks, PassAllowed
<1>10. CASE OrphanLocks
  BY <1>10 DEF OrphanLocks, PassAllowed, Repoint
<1>11. CASE TimerStan
  BY <1>11 DEF TimerStan, StanMissing, StanConnected, StanRetried, Repoint,
     ToRestart
<1>12. CASE TimerEnds
  BY <1>12 DEF TimerEnds, Repoint
<1>13. ASSUME NEW c \in Connectors, CheckConnector(c) PROVE TimerInv'
  BY <1>13 DEF CheckConnector, Shutdown, Queued
<1>14. ASSUME NEW c \in Connectors, TimerRestarts(c) PROVE TimerInv'
  BY <1>14 DEF TimerRestarts, StartOk, StartFails, Stays
<1>15. ASSUME NEW c \in Connectors, ConnectorError(c) PROVE TimerInv'
  BY <1>15 DEF ConnectorError, Shutdown, Queued, Ensured
<1>16. ASSUME \/ StartNats \/ StartStan \/ StartMonitoring \/ StopSignal
              \/ StopNats \/ StopStan \/ Stopped
      PROVE  Frame
  BY <1>16 DEF StartNats, StartStan, StartMonitoring, StopSignal, StopNats,
     StopStan, Stopped, StartFailed, vars
<1>17. ASSUME \/ NatsDown \/ NatsReconnects \/ NatsGivesUp \/ StanLost
              \/ StanServerBack \/ MqDown \/ MqBack
      PROVE  Frame
  BY <1>17 DEF NatsDown, NatsReconnects, NatsGivesUp, StanLost,
     StanServerBack, MqDown, MqBack
<1>18. ASSUME \/ NatsDisconnected \/ NatsClosed \/ StanConnectionLost
              \/ StanLostChecks \/ OrphanFires
      PROVE  Frame
  BY <1>18 DEF NatsDisconnected, NatsClosed, StanConnectionLost, LossChecked,
     StanLostChecks, OrphanFires
<1>19. ASSUME NEW c \in Connectors,
             \/ StartConnector(c) \/ StopConnector(c) \/ ListenerError(c)
             \/ RepeatedError(c) \/ PollerEnds(c) \/ ConnectorErrorChecks(c)
      PROVE  Frame
  BY <1>19 DEF StartConnector, StopConnector, ListenerError, RepeatedError,
     PollerEnds, ConnectorErrorChecks, StartFailed
<1>20. CASE UNCHANGED vars
  BY <1>20 DEF vars
<1>21. CASE Frame
  BY <1>21
<1>q. QED
  BY <1>1, <1>2, <1>3, <1>4, <1>5, <1>6, <1>7, <1>8, <1>9, <1>10, <1>11,
     <1>12, <1>13, <1>14, <1>15, <1>16, <1>17, <1>18, <1>19, <1>20, <1>21 DEF
     Next

\* Every step keeps LostInv.
LEMMA LostInvStep ==
    ASSUME IndInv, [Next]_vars
    PROVE  LostInv'
<1> DEFINE Frame == UNCHANGED <<startPc, stan, stanLive, lostCb>>
<1> USE DEF IndInv, TypeOK, LifeOK, LinksOK, CallbacksOK, StartPcs, StartInv,
               Starting, LostInv, life, links, connState, timers, recState,
               callbacks, errorCalls, spent
<1>1. CASE StartBegin
  BY <1>1 DEF StartBegin
<1>2. CASE StartNats
  BY <1>2 DEF StartNats, StartFailed
<1>3. CASE StartStan
  BY <1>3 DEF StartStan, StartFailed, StanConnected
<1>4. CASE StartMonitoring
  BY <1>4 DEF StartMonitoring, StartFailed
<1>5. CASE StopStan
  BY <1>5 DEF StopStan
<1>6. CASE StanLost
  BY <1>6 DEF StanLost
<1>7. CASE StanConnectionLost
  BY <1>7 DEF StanConnectionLost, LossChecked
<1>8. CASE TimerStan
  BY <1>8 DEF TimerStan, StanMissing, StanConnected, StanRetried, Repoint,
     ToRestart
<1>9. ASSUME NEW c \in Connectors, StartConnector(c) PROVE LostInv'
  BY <1>9 DEF StartConnector, StartFailed, StartOk, StartFails
<1>10. ASSUME \/ StopSignal \/ StopBegin \/ StopReconnectTimer
              \/ StopClearReconnect \/ StopNats \/ Stopped \/ NatsDown
              \/ NatsReconnects
      PROVE  Frame
  BY <1>10 DEF StopSignal, StopBegin, StopReconnectTimer, StopClearReconnect,
     StopNats, Stopped, NatsDown, NatsReconnects, vars
<1>11. ASSUME \/ NatsGivesUp \/ StanServerBack \/ MqDown \/ MqBack
              \/ NatsDisconnected \/ NatsClosed \/ StanLostChecks
              \/ NatsCheckLocks
      PROVE  Frame
  BY <1>11 DEF NatsGivesUp, StanServerBack, MqDown, MqBack, NatsDisconnected,
     NatsClosed, StanLostChecks, NatsCheckLocks
<1>12. ASSUME \/ StanCheckLocks \/ CheckEnds \/ TimerFires \/ OrphanFires
              \/ TimerLocks \/ OrphanLocks \/ TimerEnds
      PROVE  Frame
  BY <1>12 DEF StanCheckLocks, CheckEnds, TimerFires, OrphanFires, TimerLocks,
     OrphanLocks, TimerEnds
<1>13. ASSUME NEW c \in Connectors,
             \/ StopConnector(c) \/ CheckConnector(c) \/ TimerRestarts(c)
             \/ ListenerError(c) \/ RepeatedError(c) \/ PollerEnds(c)
             \/ ConnectorErrorChecks(c) \/ ConnectorError(c)
      PROVE  Frame
  BY <1>13 DEF StopConnector, CheckConnector, TimerRestarts, ListenerError,
     RepeatedError, PollerEnds, ConnectorErrorChecks, ConnectorError
<1>14. CASE UNCHANGED vars
  BY <1>14 DEF vars
<1>15. CASE Frame
  BY <1>15
<1>q. QED
  BY <1>1, <1>2, <1>3, <1>4, <1>5, <1>6, <1>7, <1>8, <1>9, <1>10, <1>11,
     <1>12, <1>13, <1>14, <1>15 DEF Next

\* Every step keeps RetryInv.
LEMMA RetryInvStep ==
    ASSUME IndInv, [Next]_vars
    PROVE  RetryInv'
<1> DEFINE Frame == UNCHANGED <<running, startPc, stan, cur, orphanArmed, orphanFired,
                         lostCheck, lostWait, holder>>
<1> USE DEF IndInv, TypeOK, LifeOK, LinksOK, TimersOK, CallbacksOK, RecOK,
               Holders, StartInv, Starting, StartPcs, StopInv, TimerInv,
               LostInv, RetryInv, life, links, connState, timers, recState,
               callbacks, errorCalls, spent
<1>1. CASE StartBegin
  BY <1>1 DEF StartBegin
<1>2. CASE StartNats
  BY <1>2 DEF StartNats, StartFailed
<1>3. CASE StartStan
  BY <1>3 DEF StartStan, StartFailed, StanConnected
<1>4. CASE StartMonitoring
  BY <1>4 DEF StartMonitoring, StartFailed
<1>5. CASE StopBegin
  BY <1>5 DEF StopBegin
<1>6. CASE StopReconnectTimer
  BY <1>6 DEF StopReconnectTimer
<1>7. CASE StanConnectionLost
  BY <1>7 DEF StanConnectionLost, LossChecked
<1>8. CASE StanLostChecks
  BY <1>8 DEF StanLostChecks
<1>9. CASE NatsCheckLocks
  BY <1>9 DEF NatsCheckLocks
<1>10. CASE StanCheckLocks
  BY <1>10 DEF StanCheckLocks
<1>11. CASE CheckEnds
  BY <1>11 DEF CheckEnds, Ensured
<1>12. CASE TimerFires
  BY <1>12 DEF TimerFires
<1>13. CASE OrphanFires
  BY <1>13 DEF OrphanFires
<1>14. CASE TimerLocks
  BY <1>14 DEF TimerLocks, PassAllowed
<1>15. CASE OrphanLocks
  BY <1>15 DEF OrphanLocks, PassAllowed, Repoint
<1>16. CASE TimerStan
  BY <1>16 DEF TimerStan, StanMissing, StanConnected, StanRetried, Repoint,
     ToRestart
<1>17. CASE TimerEnds
  BY <1>17 DEF TimerEnds, Repoint
<1>18. ASSUME NEW c \in Connectors, StartConnector(c) PROVE RetryInv'
  BY <1>18 DEF StartConnector, StartFailed, StartOk, StartFails
<1>19. ASSUME NEW c \in Connectors, ConnectorError(c) PROVE RetryInv'
  BY <1>19 DEF ConnectorError, Shutdown, Queued, Ensured
<1>20. ASSUME \/ StopSignal \/ StopClearReconnect \/ StopNats \/ StopStan
              \/ Stopped \/ NatsDown \/ NatsReconnects
      PROVE  Frame
  BY <1>20 DEF StopSignal, StopClearReconnect, StopNats, StopStan, Stopped,
     NatsDown, NatsReconnects, vars
<1>21. ASSUME \/ NatsGivesUp \/ StanLost \/ StanServerBack \/ MqDown \/ MqBack
              \/ NatsDisconnected \/ NatsClosed
      PROVE  Frame
  BY <1>21 DEF NatsGivesUp, StanLost, StanServerBack, MqDown, MqBack,
     NatsDisconnected, NatsClosed
<1>22. ASSUME NEW c \in Connectors,
             \/ StopConnector(c) \/ CheckConnector(c) \/ TimerRestarts(c)
             \/ ListenerError(c) \/ RepeatedError(c) \/ PollerEnds(c)
             \/ ConnectorErrorChecks(c)
      PROVE  Frame
  BY <1>22 DEF StopConnector, CheckConnector, TimerRestarts, ListenerError,
     RepeatedError, PollerEnds, ConnectorErrorChecks
<1>23. CASE UNCHANGED vars
  BY <1>23 DEF vars
<1>24. CASE Frame
  BY <1>24
<1>q. QED
  BY <1>1, <1>2, <1>3, <1>4, <1>5, <1>6, <1>7, <1>8, <1>9, <1>10, <1>11,
     <1>12, <1>13, <1>14, <1>15, <1>16, <1>17, <1>18, <1>19, <1>20, <1>21,
     <1>22, <1>23, <1>24 DEF Next

\* Every step keeps ConnInv.
LEMMA ConnInvStep ==
    ASSUME IndInv, [Next]_vars
    PROVE  ConnInv'
<1> DEFINE Frame == UNCHANGED <<running, startPc, lifeTodo, conn, reconnect, holder, todo>>
<1> USE DEF IndInv, TypeOK, LifeOK, ConnsOK, RecOK, Holders, StartInv,
               Starting, StartPcs, StopInv, ConnInv, Up, life, links,
               connState, timers, recState, callbacks, errorCalls, spent
<1>1. CASE StartBegin
  BY <1>1 DEF StartBegin
<1>2. CASE StartNats
  BY <1>2 DEF StartNats, StartFailed
<1>3. CASE StartStan
  BY <1>3 DEF StartStan, StartFailed, StanConnected
<1>4. CASE StartMonitoring
  BY <1>4 DEF StartMonitoring, StartFailed
<1>5. CASE StopBegin
  BY <1>5 DEF StopBegin
<1>6. CASE StopClearReconnect
  BY <1>6 DEF StopClearReconnect
<1>7. CASE NatsCheckLocks
  BY <1>7 DEF NatsCheckLocks
<1>8. CASE StanCheckLocks
  BY <1>8 DEF StanCheckLocks
<1>9. CASE MqDown
  BY <1>9 DEF MqDown
<1>10. CASE CheckEnds
  BY <1>10 DEF CheckEnds, Ensured
<1>11. CASE TimerLocks
  BY <1>11 DEF TimerLocks, PassAllowed
<1>12. CASE OrphanLocks
  BY <1>12 DEF OrphanLocks, PassAllowed, Repoint
<1>13. CASE TimerStan
  BY <1>13 DEF TimerStan, StanMissing, StanConnected, StanRetried, Repoint,
     ToRestart
<1>14. CASE TimerEnds
  BY <1>14 DEF TimerEnds, Repoint
<1>15. ASSUME NEW c \in Connectors, StartConnector(c) PROVE ConnInv'
  BY <1>15 DEF StartConnector, StartFailed, StartOk, StartFails
<1>16. ASSUME NEW c \in Connectors, StopConnector(c) PROVE ConnInv'
  BY <1>16 DEF StopConnector, Shutdown
<1>17. ASSUME NEW c \in Connectors, CheckConnector(c) PROVE ConnInv'
  BY <1>17 DEF CheckConnector, Shutdown, Queued
<1>18. ASSUME NEW c \in Connectors, TimerRestarts(c) PROVE ConnInv'
  BY <1>18 DEF TimerRestarts, StartOk, StartFails, Stays
<1>19. ASSUME NEW c \in Connectors, ListenerError(c) PROVE ConnInv'
  BY <1>19 DEF ListenerError, Reported
<1>20. ASSUME NEW c \in Connectors, ConnectorError(c) PROVE ConnInv'
  BY <1>20 DEF ConnectorError, Shutdown, Queued, Ensured
<1>21. ASSUME \/ StopSignal \/ StopReconnectTimer \/ StopNats \/ StopStan
              \/ Stopped \/ NatsDown \/ NatsReconnects \/ NatsGivesUp
              \/ StanLost
      PROVE  Frame
  BY <1>21 DEF StopSignal, StopReconnectTimer, StopNats, StopStan, Stopped,
     NatsDown, NatsReconnects, NatsGivesUp, StanLost, vars
<1>22. ASSUME \/ StanServerBack \/ MqBack \/ NatsDisconnected \/ NatsClosed
              \/ StanConnectionLost \/ StanLostChecks \/ TimerFires
              \/ OrphanFires
      PROVE  Frame
  BY <1>22 DEF StanServerBack, MqBack, NatsDisconnected, NatsClosed,
     StanConnectionLost, LossChecked, StanLostChecks, TimerFires, OrphanFires
<1>23. ASSUME NEW c \in Connectors,
             \/ RepeatedError(c) \/ PollerEnds(c) \/ ConnectorErrorChecks(c)
      PROVE  Frame
  BY <1>23 DEF RepeatedError, PollerEnds, ConnectorErrorChecks
<1>24. CASE UNCHANGED vars
  BY <1>24 DEF vars
<1>25. CASE Frame
  BY <1>25
<1>q. QED
  BY <1>1, <1>2, <1>3, <1>4, <1>5, <1>6, <1>7, <1>8, <1>9, <1>10, <1>11,
     <1>12, <1>13, <1>14, <1>15, <1>16, <1>17, <1>18, <1>19, <1>20, <1>21,
     <1>22, <1>23, <1>24, <1>25 DEF Next

-----------------------------------------------------------------------------
(* The theorems.                                                           *)

\* The bridge before Start satisfies the inductive invariant.
LEMMA InitInv == Init => IndInv
<1> SUFFICES ASSUME Init PROVE IndInv
  OBVIOUS
<1>1. TypeOK
  <2>1. LifeOK /\ RecOK
    BY DEF Init, LifeOK, RecOK, StartPcs, StopPcs, Holders
  <2>2. LinksOK
    BY DEF Init, LinksOK
  <2>3. ConnsOK /\ ErrorsOK
    BY DEF Init, ConnsOK, ErrorsOK
  <2>4. TimersOK /\ SpentOK
    BY DEF Init, TimersOK, SpentOK
  <2>5. CallbacksOK
    BY DEF Init, CallbacksOK
  <2>q. QED
    BY <2>1, <2>2, <2>3, <2>4, <2>5 DEF TypeOK
<1>2. StartInv /\ StopInv /\ QueueInv
  BY DEF Init, StartInv, Starting, StopInv, QueueInv
<1>3. ConnInv /\ TimerInv /\ LostInv /\ RetryInv
  BY DEF Init, ConnInv, TimerInv, NoLostReconnect, LostInv, RetryInv
<1>q. QED
  BY <1>1, <1>2, <1>3 DEF IndInv

\* The inductive invariant holds in every reachable state.
THEOREM Invariance == Spec => []IndInv
<1>1. IndInv /\ [Next]_vars => IndInv'
  BY TypeStep, StartInvStep, StopInvStep, QueueInvStep, ConnInvStep,
     TimerInvStep, LostInvStep, RetryInvStep DEF IndInv
<1>q. QED
  BY InitInv, <1>1, PTL DEF Spec

\* Every variable of the bridge always has its type: no goroutine counter
\* goes below zero and no callback is taken from an empty queue.
THEOREM TypeCorrect == Spec => []TypeOK
<1>1. IndInv => TypeOK
  BY DEF IndInv
<1>q. QED
  BY Invariance, <1>1, PTL

\* ConnectorError, checkConnections and the reconnect loop between them never
\* forget a connector: while the bridge runs each one is up or queued.
THEOREM NoneEverForgotten == Spec => []NoneForgotten
<1>1. IndInv => NoneForgotten
  BY DEF IndInv, TypeOK, RecOK, ConnInv, NoneForgotten
<1>q. QED
  BY Invariance, <1>1, PTL

\* The reconnect loop never starts a connector that is up.
THEOREM StartedOnce == Spec => []NeverStartedTwice
<1>1. IndInv => NeverStartedTwice
  BY DEF IndInv, ConnInv, NeverStartedTwice
<1>q. QED
  BY Invariance, <1>1, PTL

\* Whenever a connector is queued and the lock is free, the timer runs.
THEOREM ReconnectNeverLost == Spec => []NoLostReconnect
<1>1. IndInv => NoLostReconnect
  BY DEF IndInv, TimerInv
<1>q. QED
  BY Invariance, <1>1, PTL

\* A lost streaming connection always has a retry on its way.
THEOREM StreamingRetried == Spec => []StreamingRetryPending
<1>1. IndInv => StreamingRetryPending
  BY DEF IndInv, RetryInv, StreamingRetryPending
<1>q. QED
  BY Invariance, <1>1, PTL

\* stanConnectionLost only ever drops a streaming connection that is dead.
THEOREM LiveStreamingNeverDropped == Spec => LiveStreamingKept
<1>1. ASSUME IndInv, [Next]_vars, stan # 0, stan' = 0
      PROVE  ~stanLive
  <2> DEFINE Frame == UNCHANGED <<stan>>
  <2> USE DEF IndInv, TypeOK, LinksOK, LostInv, life, links, connState, timers,
                 recState, callbacks, errorCalls, spent
  <2>1. CASE StartStan
    BY <1>1, <2>1 DEF StartStan, StartFailed, StanConnected
  <2>2. CASE StanConnectionLost
    BY <1>1, <2>2 DEF StanConnectionLost, LossChecked
  <2>3. CASE TimerStan
    BY <1>1, <2>3 DEF TimerStan, StanMissing, StanConnected, StanRetried, Repoint,
       ToRestart
  <2>4. ASSUME \/ StartBegin \/ StartNats \/ StartMonitoring \/ StopSignal
               \/ StopBegin \/ StopReconnectTimer \/ StopClearReconnect
               \/ StopNats \/ StopStan \/ Stopped
        PROVE  Frame
    BY <2>4 DEF StartBegin, StartNats, StartMonitoring, StopSignal, StopBegin,
       StopReconnectTimer, StopClearReconnect, StopNats, StopStan, Stopped,
       StartFailed, vars
  <2>5. ASSUME \/ NatsDown \/ NatsReconnects \/ NatsGivesUp \/ StanLost
               \/ StanServerBack \/ MqDown \/ MqBack \/ NatsDisconnected
               \/ NatsClosed \/ StanLostChecks
        PROVE  Frame
    BY <2>5 DEF NatsDown, NatsReconnects, NatsGivesUp, StanLost, StanServerBack,
       MqDown, MqBack, NatsDisconnected, NatsClosed, StanLostChecks
  <2>6. ASSUME \/ NatsCheckLocks \/ StanCheckLocks \/ CheckEnds \/ TimerFires
               \/ OrphanFires \/ TimerLocks \/ OrphanLocks \/ TimerEnds
        PROVE  Frame
    BY <2>6 DEF NatsCheckLocks, StanCheckLocks, CheckEnds, TimerFires,
       OrphanFires, TimerLocks, OrphanLocks, TimerEnds
  <2>7. ASSUME NEW c \in Connectors,
               \/ StartConnector(c) \/ StopConnector(c) \/ CheckConnector(c)
               \/ TimerRestarts(c) \/ ListenerError(c) \/ RepeatedError(c)
               \/ PollerEnds(c) \/ ConnectorErrorChecks(c) \/ ConnectorError(c)
        PROVE  Frame
    BY <2>7 DEF StartConnector, StopConnector, CheckConnector, TimerRestarts,
       ListenerError, RepeatedError, PollerEnds, ConnectorErrorChecks,
       ConnectorError, StartFailed
  <2>8. CASE UNCHANGED vars
    BY <1>1, <2>8 DEF vars
  <2>9. CASE Frame
    BY <1>1, <2>9
  <2>q. QED
    BY <1>1, <2>1, <2>2, <2>3, <2>4, <2>5, <2>6, <2>7, <2>8, <2>9 DEF Next
<1>q. QED
  BY Invariance, <1>1, PTL DEF Spec, LiveStreamingKept

-----------------------------------------------------------------------------
(* The window in which a connector is up without its streaming connection. *)

\* NilStreamingNoticed, and nothing is up before Start comes to the connectors.
NilInv ==
    /\ startPc \in {"new", "nats", "stan"} => \A c \in Connectors : ~Up(c)
    /\ NilStreamingNoticed

\* What Start and Shutdown of a connector may change: a connector that comes up
\* and needs streaming has it, one that was shut down is not up.
LEMMA UpOnlyWithStreaming ==
    ASSUME IndInv, NEW c \in Connectors, StartOk(c), stan = 0
    PROVE  ~NeedsStan(typeOf[c]) /\ \A d \in Connectors \ {c} : conn'[d] = conn[d]
  BY DEF IndInv, TypeOK, ConnsOK, StartOk, Starts, CheckConnections, CheckStan

\* Shutdown takes its connector down and no other.
LEMMA DownAfterShutdown ==
    ASSUME IndInv, NEW c \in Connectors, Shutdown(c)
    PROVE  /\ conn'[c] = "down"
           /\ \A d \in Connectors \ {c} : conn'[d] = conn[d]
  BY DEF IndInv, TypeOK, ConnsOK, Shutdown

\* Every step keeps NilInv.
LEMMA NilInvStep ==
    ASSUME IndInv, NilInv, [Next]_vars
    PROVE  NilInv'
<1> DEFINE Frame == UNCHANGED <<running, startPc, stan, conn, holder, todo, lostCheck,
                                lostWait>>
<1> USE DEF NilInv, NilStreamingNoticed, Up, life, links, connState, timers, recState,
            callbacks, errorCalls, spent
<1>t. /\ lostCheck \in Nat /\ lostWait \in Nat /\ todo \subseteq Connectors
      /\ running \in BOOLEAN /\ conn \in [Connectors -> {"down", "up", "broken", "reported"}]
      /\ startPc \in StartPcs
  BY DEF IndInv, TypeOK, CallbacksOK, RecOK, LifeOK, ConnsOK
<1>1. CASE StartBegin
  BY <1>1 DEF StartBegin
<1>2. CASE StartNats
  BY <1>2 DEF StartNats, StartFailed
<1>3. CASE StartStan
  BY <1>3 DEF StartStan, StartFailed, StanConnected
<1>4. CASE StartMonitoring
  BY <1>4 DEF StartMonitoring, StartFailed
<1>5. CASE StopBegin
  BY <1>5 DEF StopBegin
<1>6. CASE StanConnectionLost
  BY <1>6, <1>t DEF StanConnectionLost, LossChecked
<1>7. CASE StanLostChecks
  BY <1>7, <1>t DEF StanLostChecks
<1>8. CASE NatsCheckLocks
  BY <1>8, <1>t DEF NatsCheckLocks
<1>9. CASE StanCheckLocks
  BY <1>9, <1>t DEF StanCheckLocks
<1>10. CASE CheckEnds
  BY <1>10, <1>t DEF CheckEnds
<1>11. CASE MqDown
  BY <1>11, <1>t DEF MqDown
<1>12. CASE TimerLocks \/ OrphanLocks
  BY <1>12, <1>t DEF TimerLocks, OrphanLocks
<1>13. CASE TimerStan
  <2>1. stanEpoch \in Nat
    BY DEF IndInv, TypeOK, LinksOK
  <2>2. stan' = stan \/ stan' # 0
    BY <1>13, <2>1 DEF TimerStan, StanConnected
  <2>3. holder = "timerStan" /\ UNCHANGED <<running, startPc, conn, lostCheck, lostWait>>
    BY <1>13 DEF TimerStan
  <2>q. QED
    BY <2>2, <2>3
<1>14. CASE TimerEnds
  BY <1>14, <1>t DEF TimerEnds
<1>15. ASSUME NEW c \in Connectors, StartConnector(c) PROVE NilInv'
  <2>1. /\ startPc = "connectors" /\ startPc' \in {"connectors", "failed"}
        /\ UNCHANGED <<running, stan, holder, todo, lostCheck, lostWait>>
    BY <1>15 DEF StartConnector, StartFailed
  <2>2. StartOk(c) \/ UNCHANGED conn
    BY <1>15 DEF StartConnector, StartFails
  <2>q. QED
    BY <2>1, <2>2, UpOnlyWithStreaming
<1>16. ASSUME NEW c \in Connectors, TimerRestarts(c) PROVE NilInv'
  <2>1. /\ startPc \in {"done", "failed"} /\ holder = "timerLoop"
        /\ UNCHANGED <<running, startPc, stan, holder, lostCheck, lostWait>>
    BY <1>16, <1>t DEF TimerRestarts, IndInv, StartInv, Starting, StartPcs
  <2>2. StartOk(c) \/ UNCHANGED conn
    BY <1>16 DEF TimerRestarts, StartFails
  <2>q. QED
    BY <2>1, <2>2, UpOnlyWithStreaming
<1>17. ASSUME NEW c \in Connectors, StopConnector(c) PROVE NilInv'
  <2>1. /\ Shutdown(c)
        /\ UNCHANGED <<running, startPc, stan, holder, todo, lostCheck, lostWait>>
    BY <1>17 DEF StopConnector
  <2>q. QED
    BY <2>1, DownAfterShutdown
<1>18. ASSUME NEW c \in Connectors, CheckConnector(c) PROVE NilInv'
  <2>1. /\ todo' = todo \ {c}
        /\ UNCHANGED <<running, startPc, stan, holder, lostCheck, lostWait>>
    BY <1>18 DEF CheckConnector
  <2>2. CASE c \in reconnect \/ CheckConnections(c)
    <3>1. UNCHANGED conn
      BY <1>18, <2>2 DEF CheckConnector
    <3>2. stan = 0 => ~Up(c) \/ ~NeedsStan(typeOf[c])
      BY <2>2 DEF IndInv, ConnInv, CheckConnections, CheckStan
    <3>q. QED
      BY <2>1, <3>1, <3>2
  <2>3. CASE ~(c \in reconnect \/ CheckConnections(c))
    <3>1. Shutdown(c)
      BY <1>18, <2>3 DEF CheckConnector
    <3>q. QED
      BY <2>1, <3>1, DownAfterShutdown
  <2>q. QED
    BY <2>2, <2>3
<1>19. ASSUME NEW c \in Connectors, ConnectorError(c) PROVE NilInv'
  <2>1. UNCHANGED <<running, startPc, stan, holder, todo, lostCheck, lostWait>>
    BY <1>19 DEF ConnectorError
  <2>2. Shutdown(c) \/ UNCHANGED conn
    BY <1>19 DEF ConnectorError
  <2>q. QED
    BY <2>1, <2>2, DownAfterShutdown
<1>20. ASSUME NEW c \in Connectors, ListenerError(c) PROVE NilInv'
  BY <1>20, <1>t DEF ListenerError
<1>21. ASSUME \/ StopSignal \/ StopReconnectTimer \/ StopClearReconnect \/ StopNats
              \/ StopStan \/ Stopped \/ NatsDown \/ NatsReconnects \/ NatsGivesUp
       PROVE  Frame
  BY <1>21 DEF StopSignal, StopReconnectTimer, StopClearReconnect, StopNats, StopStan,
     Stopped, NatsDown, NatsReconnects, NatsGivesUp, vars
<1>22. ASSUME \/ StanLost \/ StanServerBack \/ MqBack \/ NatsDisconnected \/ NatsClosed
              \/ TimerFires \/ OrphanFires
       PROVE  Frame
  BY <1>22 DEF StanLost, StanServerBack, MqBack, NatsDisconnected, NatsClosed, TimerFires,
     OrphanFires
<1>23. ASSUME NEW c \in Connectors,
             \/ RepeatedError(c) \/ PollerEnds(c) \/ ConnectorErrorChecks(c)
       PROVE  Frame
  BY <1>23 DEF RepeatedError, PollerEnds, ConnectorErrorChecks
<1>24. CASE UNCHANGED vars
  BY <1>24 DEF vars
<1>25. CASE Frame
  BY <1>25
<1>q. QED
  BY <1>1, <1>2, <1>3, <1>4, <1>5, <1>6, <1>7, <1>8, <1>9, <1>10, <1>11, <1>12, <1>13,
     <1>14, <1>15, <1>16, <1>17, <1>18, <1>19, <1>20, <1>21, <1>22, <1>23, <1>24, <1>25
     DEF Next

\* A connector that needs streaming and is up without it is still to be visited
\* by the checkConnections of the stanConnectionLost that made it so.
THEOREM NilStreamingSeen == Spec => []NilStreamingNoticed
<1>1. Init => NilInv
  BY DEF Init, NilInv, NilStreamingNoticed, Up
<1>2. IndInv /\ NilInv /\ [Next]_vars => NilInv'
  BY NilInvStep
<1>3. NilInv => NilStreamingNoticed
  BY DEF NilInv
<1>q. QED
  BY <1>1, <1>2, <1>3, Invariance, PTL DEF Spec

=============================================================================
