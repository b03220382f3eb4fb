--------------------------- MODULE ConnectorProofs ---------------------------
(***************************************************************************)
(* What Start and Shutdown of a connector leave behind, for every type and *)
(* any number of calls and failures.                                       *)
(***************************************************************************)
EXTENDS Connector, TLAPS

\* What the eight types have in common: the connection first, then an MQ
\* object, the feed at last; and back in the opposite order.
TypeShape(t) ==
    /\ Len(t.start) = 3 /\ Len(t.shutdown) = 3
    /\ t.start[1] = "qMgr" /\ t.shutdown[3] = "qMgr"
    /\ t.start[2] \in {"queue", "topic", "mqSub"} /\ t.shutdown[2] = t.start[2]
    /\ t.start[3] \in Feeds /\ t.shutdown[1] = t.start[3]
    /\ t.onlyIf \in {"none", t.start[2]}
    /\ t.durables <=> t.start[3] = "stanSub"

Middle == type.start[2]
Feed   == type.start[3]

\* The types the argument needs.
ConnectorOK ==
    /\ TypeShape(type)
    /\ durable \in BOOLEAN /\ (durable => Feed = "stanSub")
    /\ serial \in Nat
    /\ field \in [Resources -> 0..serial]
    /\ open \subseteq {"qMgr", Middle, Feed} \X (1..serial)
    /\ \A x \in told : x[1] = "listener"
    /\ pc \in {"idle", "starting", "stopping"}
    /\ up \in BOOLEAN /\ failures \in Nat
    /\ pc \in {"starting", "stopping"} => step \in 1..3 /\ ~up

\* A connector that is up has all its resources; so has one that is starting,
\* up to where it is.
FieldsSet ==
    /\ up => field["qMgr"] # 0 /\ field[Middle] # 0 /\ field[Feed] # 0
    /\ pc = "starting" => /\ step >= 2 => field["qMgr"] # 0
                          /\ step = 3 => field[Middle] # 0

\* A feed that is neither durable nor told to stop is there only while the
\* connector is up or Shutdown is at its first step, and its field points to it.
FeedKnown ==
    \A x \in open : x[1] \in Feeds =>
        \/ Outlives(x)
        \/ /\ x = <<Feed, field[Feed]>>
           /\ up \/ (pc = "stopping" /\ step = 1)

\* Without a failure so far, what is open is what the calls have got to.
OpenSoFar ==
    failures = 0 => \A x \in open :
        \/ Outlives(x)
        \/ up
        \/ pc = "starting" /\ (\/ step >= 2 /\ x[1] = "qMgr"
                               \/ step = 3 /\ x[1] = Middle)
        \/ pc = "stopping" /\ (\/ x[1] = "qMgr"
                               \/ step <= 2 /\ x[1] = Middle
                               \/ step = 1)

\* LeaksOnlyAfterFailure, pair by pair.
OpenIsHeld ==
    failures = 0 => \A x \in open : x \in told \/ x = <<x[1], field[x[1]]>>

\* Without a failure so far, a connector between calls that is not up has no
\* connection in its field.
DownIsEmpty == failures = 0 /\ pc = "idle" /\ ~up => field["qMgr"] = 0

ConnectorInv ==
    /\ ConnectorOK /\ FieldsSet /\ FeedKnown /\ OpenSoFar /\ OpenIsHeld
    /\ DownIsEmpty /\ ShutdownDisconnects

-----------------------------------------------------------------------------

\* All eight connector types have that shape.
LEMMA TypesShaped == \A t \in ConnectorType : TypeShape(t)
  <1>1. TypeShape(Queue2NATS)
    BY DEF TypeShape, Feeds, Queue2NATS
  <1>2. TypeShape(Queue2Stan)
    BY DEF TypeShape, Feeds, Queue2Stan
  <1>3. TypeShape(Topic2NATS)
    BY DEF TypeShape, Feeds, Topic2NATS
  <1>4. TypeShape(Topic2Stan)
    BY DEF TypeShape, Feeds, Topic2Stan
  <1>5. TypeShape(NATS2Queue)
    BY DEF TypeShape, Feeds, NATS2Queue
  <1>6. TypeShape(NATS2Topic)
    BY DEF TypeShape, Feeds, NATS2Topic
  <1>7. TypeShape(Stan2Queue)
    BY DEF TypeShape, Feeds, Stan2Queue
  <1>8. TypeShape(Stan2Topic)
    BY DEF TypeShape, Feeds, Stan2Topic
  <1>9. QED
    BY <1>1, <1>2, <1>3, <1>4, <1>5, <1>6, <1>7, <1>8 DEF ConnectorType

\* Only types whose feed is a streaming subscription have durables.
LEMMA DurableFeed ==
    ASSUME NEW t \in ConnectorType, SubscribesStan(t)
    PROVE  t.start[3] = "stanSub"
  BY DEF SubscribesStan, Range, ConnectorType, Queue2NATS, Queue2Stan, Topic2NATS,
         Topic2Stan, NATS2Queue, NATS2Topic, Stan2Queue, Stan2Topic

\* The invariant holds initially.
LEMMA ConnectorInit == Init => ConnectorInv
  <1> SUFFICES ASSUME Init PROVE ConnectorInv
    OBVIOUS
  <1>1. TypeShape(type) /\ (durable => Feed = "stanSub")
    BY TypesShaped, DurableFeed DEF Init, Feed
  <1>2. ConnectorOK
    <2>1. field \in [Resources -> 0..serial]
          /\ open \subseteq {"qMgr", Middle, Feed} \X (1..serial)
      BY DEF Init
    <2>2. QED
      BY <1>1, <2>1 DEF Init, ConnectorOK
  <1>3. FieldsSet /\ FeedKnown /\ OpenSoFar /\ OpenIsHeld
    BY DEF Init, FieldsSet, FeedKnown, OpenSoFar, OpenIsHeld
  <1>4. DownIsEmpty /\ ShutdownDisconnects
    BY DEF Init, DownIsEmpty, ShutdownDisconnects, Resources
  <1>5. QED
    BY <1>2, <1>3, <1>4 DEF ConnectorInv

-----------------------------------------------------------------------------
(* The steps.                                                              *)

\* The kinds of resources are different from each other.
LEMMA Kinds ==
    ASSUME ConnectorOK
    PROVE  /\ Middle \in Resources /\ Feed \in Resources /\ "qMgr" \in Resources
           /\ Middle # "qMgr" /\ Middle \notin Feeds /\ "qMgr" \notin Feeds
           /\ Feed \in Feeds /\ Feed # Middle /\ Feed # "qMgr" /\ Middle # "stanSub"
  BY DEF ConnectorOK, TypeShape, Middle, Feed, Feeds, Resources

\* Start that fails at once, or a failed step of it, touches no resource.
LEMMA ReturnErrorStep ==
    ASSUME ConnectorInv, ~up, pc # "stopping", ReturnError,
           UNCHANGED <<type, durable, told>>
    PROVE  ConnectorInv'
  <1>1. ConnectorOK'
    BY DEF ConnectorInv, ConnectorOK, ReturnError, Feed, Middle
  <1>2. FieldsSet' /\ FeedKnown'
    BY DEF ConnectorInv, FieldsSet, FeedKnown, Outlives, ReturnError, Feed, Middle
  <1>3. failures' # 0
    BY DEF ConnectorInv, ConnectorOK, ReturnError
  <1>4. OpenSoFar' /\ OpenIsHeld' /\ DownIsEmpty'
    BY <1>3 DEF OpenSoFar, OpenIsHeld, DownIsEmpty
  <1>5. ShutdownDisconnects'
    BY DEF ShutdownDisconnects, ReturnError
  <1>6. QED
    BY <1>1, <1>2, <1>4, <1>5 DEF ConnectorInv

\* The beginning of Start keeps the invariant.
LEMMA StartStep == ASSUME ConnectorInv, Start PROVE ConnectorInv'
  <1>1. CASE ReturnError
    BY <1>1, ReturnErrorStep DEF Start, config
  <1>2. CASE ~ReturnError
    <2>1. /\ pc = "idle" /\ pc' = "starting" /\ step' = 1 /\ ~up
          /\ UNCHANGED <<type, durable, field, open, told, serial, up, last, failures>>
      BY <1>2 DEF Start, config
    <2>2. ConnectorOK'
      BY <2>1 DEF ConnectorInv, ConnectorOK, Feed, Middle
    <2>3. FieldsSet' /\ FeedKnown' /\ OpenSoFar' /\ OpenIsHeld'
      BY <2>1 DEF ConnectorInv, FieldsSet, FeedKnown, OpenSoFar, OpenIsHeld, Outlives,
                  Feed, Middle
    <2>4. DownIsEmpty' /\ ShutdownDisconnects'
      BY <2>1 DEF DownIsEmpty, ShutdownDisconnects
    <2>5. QED
      BY <2>2, <2>3, <2>4 DEF ConnectorInv
  <1>3. QED
    BY <1>1, <1>2

\* So does a step of Start that fails.
LEMMA AcquireFailsStep == ASSUME ConnectorInv, AcquireFails PROVE ConnectorInv'
  <1>1. ~up /\ pc # "stopping"
    BY DEF AcquireFails, ConnectorInv, ConnectorOK
  <1>2. QED
    BY <1>1, ReturnErrorStep DEF AcquireFails, config

\* The resource that is acquired is a new one.
LEMMA AcquireStep == ASSUME ConnectorInv, Acquire PROVE ConnectorInv'
  <1> DEFINE r == type.start[step]
  <1> USE Kinds
  <1>1. /\ pc = "starting" /\ ~up /\ step \in 1..3 /\ r \in Resources
        /\ step = 1 => r = "qMgr"
        /\ step = 2 => r = Middle
        /\ step = 3 => r = Feed
    BY DEF Acquire, ConnectorInv, ConnectorOK, TypeShape, Feed, Middle
  <1>2. /\ serial' = serial + 1 /\ field' = [field EXCEPT ![r] = serial + 1]
        /\ open' = open \cup {<<r, serial + 1>>} /\ ~Refused(r)
        /\ UNCHANGED <<type, durable, told, failures>>
    BY DEF Acquire, config
  <1>3. \/ step < 3 /\ step' = step + 1 /\ UNCHANGED <<pc, up, last>>
        \/ step = 3 /\ pc' = "idle" /\ up' = TRUE /\ last' = "start"
    BY <1>1 DEF Acquire, ConnectorInv, ConnectorOK, TypeShape
  <1>4. Middle' = Middle /\ Feed' = Feed
    BY <1>2 DEF Middle, Feed
  <1>5. serial \in Nat /\ serial + 1 # 0
    BY DEF ConnectorInv, ConnectorOK
  <1>6. ConnectorOK'
    <2>1. field' \in [Resources -> 0..serial']
      BY <1>1, <1>2, <1>5 DEF ConnectorInv, ConnectorOK
    <2>7. open' \subseteq {"qMgr", Middle', Feed'} \X (1..serial')
      BY <1>1, <1>2, <1>4, <1>5 DEF ConnectorInv, ConnectorOK
    <2>2. pc' \in {"starting", "stopping"} => step' \in 1..3 /\ ~up'
      BY <1>1, <1>3
    <2>3. pc' \in {"idle", "starting", "stopping"} /\ serial' \in Nat
      BY <1>1, <1>2, <1>3, <1>5
    <2>8. up' \in BOOLEAN
      <3>1. up \in BOOLEAN
        BY DEF ConnectorInv, ConnectorOK
      <3>2. up' = up \/ up' = TRUE
        BY <1>3
      <3>3. QED
        BY <3>1, <3>2, Zenon
    <2>4. /\ TypeShape(type)' /\ durable' \in BOOLEAN /\ failures' \in Nat
          /\ \A x \in told' : x[1] = "listener"
      BY <1>2 DEF ConnectorInv, ConnectorOK
    <2>5. durable' => Feed' = "stanSub"
      BY <1>2, <1>4 DEF ConnectorInv, ConnectorOK
    <2>6. QED
      BY <2>1, <2>2, <2>3, <2>4, <2>5, <2>7, <2>8 DEF ConnectorOK
  <1>7. FieldsSet'
    BY <1>1, <1>2, <1>3, <1>4, <1>5 DEF ConnectorInv, ConnectorOK, FieldsSet
  <1>8. FeedKnown'
    <2> SUFFICES ASSUME NEW x \in open', x[1] \in Feeds, ~Outlives(x)
                 PROVE  x = <<Feed, field'[Feed]>> /\ up'
      BY <1>2, <1>4 DEF FeedKnown, Outlives
    <2>1. x \notin open
      BY <1>1 DEF ConnectorInv, FeedKnown
    <2>2. x = <<r, serial + 1>> /\ r \in Feeds
      BY <2>1, <1>2
    <2>3. step = 3 /\ r = Feed
      BY <2>2, <1>1 DEF ConnectorInv
    <2>4. field'[Feed] = serial + 1
      BY <1>2, <2>3 DEF ConnectorInv, ConnectorOK
    <2>5. QED
      BY <2>2, <2>3, <2>4, <1>3
  <1>9. OpenSoFar'
    <2>1. CASE step = 3
      BY <2>1, <1>3 DEF OpenSoFar
    <2>2. CASE step < 3
      <3> SUFFICES ASSUME failures = 0, NEW x \in open', ~Outlives(x)
                   PROVE  \/ step' >= 2 /\ x[1] = "qMgr"
                          \/ step' = 3 /\ x[1] = Middle
        BY <1>1, <1>2, <1>3, <1>4, <2>2 DEF OpenSoFar, Outlives
      <3>1. CASE x \in open
        BY <1>1, <1>3, <2>2, <3>1 DEF ConnectorInv, OpenSoFar
      <3>2. CASE x = <<r, serial + 1>>
        <4>1. x[1] = r
          BY <3>2
        <4>2. \/ step = 1 /\ r = "qMgr" /\ step' = 2
              \/ step = 2 /\ r = Middle /\ step' = 3
          BY <1>1, <1>3, <2>2
        <4>3. QED
          BY <4>1, <4>2
      <3>3. QED
        BY <1>2, <3>1, <3>2
    <2>3. QED
      BY <1>1, <2>1, <2>2
  <1>10. OpenIsHeld'
    <2> SUFFICES ASSUME failures = 0, NEW x \in open, x[1] = r, x \notin told
                 PROVE  FALSE
      BY <1>1, <1>2 DEF ConnectorInv, ConnectorOK, OpenIsHeld
    <2>1. r = "stanSub" /\ durable
      BY <1>1 DEF ConnectorInv, OpenSoFar, Outlives
    <2>2. x = <<r, x[2]>> /\ x[2] \in 1..serial
      BY DEF ConnectorInv, ConnectorOK
    <2>3. QED
      BY <1>2, <2>1, <2>2 DEF Refused
  <1>11. DownIsEmpty' /\ ShutdownDisconnects'
    BY <1>1, <1>3 DEF DownIsEmpty, ShutdownDisconnects
  <1>12. QED
    BY <1>6, <1>7, <1>8, <1>9, <1>10, <1>11 DEF ConnectorInv

\* Shutdown called: a connector that is up does not return early.
LEMMA ShutdownCall == ASSUME ConnectorInv, Shutdown PROVE ConnectorInv'
  <1> USE Kinds
  <1>1. /\ pc = "idle" /\ up' = FALSE
        /\ UNCHANGED <<type, durable, field, open, told, serial, failures>>
    BY DEF Shutdown, config
  <1>2. Middle' = Middle /\ Feed' = Feed
    BY <1>1 DEF Middle, Feed
  <1>3. \/ NothingHeld /\ last' = "shutdown" /\ pc' = "idle"
        \/ ~NothingHeld /\ pc' = "stopping" /\ step' = 1
    BY DEF Shutdown
  <1>4. NothingHeld => ~up
    BY DEF ConnectorInv, ConnectorOK, TypeShape, FieldsSet, NothingHeld, Middle
  <1>5. ConnectorOK'
    <2>1. pc' \in {"starting", "stopping"} => step' \in 1..3 /\ ~up'
      BY <1>1, <1>3
    <2>2. pc' \in {"idle", "starting", "stopping"} /\ up' \in BOOLEAN
      BY <1>1, <1>3
    <2>3. QED
      BY <1>1, <1>2, <2>1, <2>2 DEF ConnectorInv, ConnectorOK
  <1>6. FieldsSet'
    BY <1>1, <1>3 DEF FieldsSet
  <1>7. FeedKnown'
    BY <1>1, <1>2, <1>3, <1>4 DEF ConnectorInv, FeedKnown, Outlives
  <1>8. OpenSoFar'
    BY <1>1, <1>2, <1>3, <1>4 DEF ConnectorInv, OpenSoFar, Outlives
  <1>9. OpenIsHeld'
    BY <1>1 DEF ConnectorInv, OpenIsHeld
  <1>10. DownIsEmpty'
    BY <1>1, <1>3, <1>4 DEF ConnectorInv, DownIsEmpty
  <1>11. ShutdownDisconnects'
    <2>1. failures \in Nat
      BY DEF ConnectorInv, ConnectorOK
    <2>2. QED
      BY <1>1, <1>3, <1>4, <2>1 DEF ConnectorInv, DownIsEmpty, ShutdownDisconnects, NothingHeld
  <1>12. QED
    BY <1>5, <1>6, <1>7, <1>8, <1>9, <1>10, <1>11 DEF ConnectorInv

\* A step of Shutdown closes the resource of a field, or tells it to stop.
Dropped    == open' = open \ {<<ShutdownStep, field[ShutdownStep]>>}
TurnedAway == open' = open /\ told' = told \cup {<<ShutdownStep, field[ShutdownStep]>>}

\* A step of Shutdown, and the resource it is about.
LEMMA ReleaseFacts ==
    ASSUME ConnectorInv, Release
    PROVE  /\ pc = "stopping" /\ ~up /\ step \in 1..3 /\ ShutdownStep \in Resources
           /\ step = 1 => ShutdownStep = Feed
           /\ step = 2 => ShutdownStep = Middle
           /\ step = 3 => ShutdownStep = "qMgr"
           /\ UNCHANGED <<type, durable, serial, up, failures>>
           /\ \/ step < 3 /\ step' = step + 1 /\ UNCHANGED <<pc, last>>
              \/ step = 3 /\ pc' = "idle" /\ last' = "shutdown"
           /\ \/ /\ field[ShutdownStep] = 0 \/ Kept(ShutdownStep)
                 /\ UNCHANGED <<field, open, told>>
              \/ /\ field' = [field EXCEPT ![ShutdownStep] = 0]
                 /\ \/ Dropped /\ told' = told
                    \/ TurnedAway /\ ShutdownStep = "listener"
  <1>1. pc = "stopping" /\ ~up /\ step \in 1..3
    BY DEF Release, ConnectorInv, ConnectorOK
  <1>2. /\ step = 1 => ShutdownStep = Feed
        /\ step = 2 => ShutdownStep = Middle
        /\ step = 3 => ShutdownStep = "qMgr"
    BY <1>1 DEF ConnectorInv, ConnectorOK, TypeShape, ShutdownStep, Feed, Middle
  <1>3. ShutdownStep \in Resources
    BY <1>1, <1>2, Kinds DEF ConnectorInv
  <1>4. UNCHANGED <<type, durable, serial, up, failures>>
    BY DEF Release, config
  <1>5. \/ step < 3 /\ step' = step + 1 /\ UNCHANGED <<pc, last>>
        \/ step = 3 /\ pc' = "idle" /\ last' = "shutdown"
    BY <1>1 DEF Release, ConnectorInv, ConnectorOK, TypeShape
  <1>6. \/ /\ field[ShutdownStep] = 0 \/ Kept(ShutdownStep)
           /\ UNCHANGED <<field, open, told>>
        \/ /\ field' = [field EXCEPT ![ShutdownStep] = 0]
           /\ \/ Dropped /\ told' = told
              \/ TurnedAway /\ ShutdownStep = "listener"
    BY DEF Release, Closed, OnlyTold, Dropped, TurnedAway
  <1>7. QED
    BY <1>1, <1>2, <1>3, <1>4, <1>5, <1>6

\* What is left of a kind after its step: nothing that a field pointed to,
\* durables and pollers told to stop excepted.
LEMMA ReleaseRemoves ==
    ASSUME ConnectorInv, Release, NEW x \in open', x[1] = ShutdownStep,
           ~(x[1] = "stanSub" /\ durable), x \notin told'
    PROVE  x # <<ShutdownStep, field[ShutdownStep]>>
  <1>1. x \in open /\ x[2] \in 1..serial /\ serial \in Nat
    BY ReleaseFacts DEF ConnectorInv, ConnectorOK, Dropped, TurnedAway
  <1>2. SUFFICES ASSUME x = <<ShutdownStep, field[ShutdownStep]>>
                 PROVE  FALSE
    OBVIOUS
  <1>3. field[ShutdownStep] # 0
    BY <1>1, <1>2
  <1>4. ~Kept(ShutdownStep)
    BY DEF Kept
  <1>5. open' = open \ {<<ShutdownStep, field[ShutdownStep]>>}
    BY <1>2, <1>3, <1>4, ReleaseFacts DEF Dropped, TurnedAway
  <1>6. QED
    BY <1>2, <1>5

\* So does a step of Shutdown.
LEMMA ReleaseKeeps == ASSUME ConnectorInv, Release PROVE ConnectorInv'
  <1> USE Kinds, ReleaseFacts
  <1>1. Middle' = Middle /\ Feed' = Feed
    BY DEF Middle, Feed
  <1>2. open' \subseteq open /\ told \subseteq told'
    BY DEF Dropped, TurnedAway
  <1>3. ConnectorOK'
    <2>1. field' \in [Resources -> 0..serial']
      BY DEF ConnectorInv, ConnectorOK
    <2>2. open' \subseteq {"qMgr", Middle', Feed'} \X (1..serial')
      BY <1>1, <1>2 DEF ConnectorInv, ConnectorOK
    <2>3. pc' \in {"starting", "stopping"} => step' \in 1..3 /\ ~up'
      OBVIOUS
    <2>4. pc' \in {"idle", "starting", "stopping"}
      OBVIOUS
    <2>5. TypeShape(type)' /\ (durable' => Feed' = "stanSub")
      BY <1>1 DEF ConnectorInv, ConnectorOK
    <2>6. /\ durable' \in BOOLEAN /\ up' \in BOOLEAN
          /\ failures' \in Nat /\ serial' \in Nat
      BY DEF ConnectorInv, ConnectorOK
    <2>7. \A x \in told' : x[1] = "listener"
      BY DEF ConnectorInv, ConnectorOK, TurnedAway
    <2>8. QED
      BY <2>1, <2>2, <2>3, <2>4, <2>5, <2>6, <2>7 DEF ConnectorOK
  <1>4. FieldsSet'
    BY DEF FieldsSet
  <1>5. FeedKnown'
    <2> SUFFICES ASSUME NEW x \in open', x[1] \in Feeds, ~Outlives(x)'
                 PROVE  FALSE
      BY DEF FeedKnown
    <2>1. ~(x[1] = "stanSub" /\ durable) /\ x \notin told' /\ ~Outlives(x)
      BY <1>2 DEF Outlives
    <2>2. x = <<Feed, field[Feed]>> /\ step = 1
      BY <1>2, <2>1 DEF ConnectorInv, FeedKnown
    <2>3. QED
      BY <2>1, <2>2, ReleaseRemoves
  <1>6. OpenSoFar'
    <2> SUFFICES ASSUME failures = 0, NEW x \in open', ~Outlives(x)'
                 PROVE  step # 3 /\ (x[1] = "qMgr" \/ (step' <= 2 /\ x[1] = Middle))
      BY <1>1 DEF OpenSoFar
    <2>0. ~(x[1] = "stanSub" /\ durable) /\ x \notin told' /\ ~Outlives(x)
      BY <1>2 DEF Outlives
    <2>1. x[1] # ShutdownStep
      BY <1>2, <2>0, ReleaseRemoves DEF ConnectorInv, OpenIsHeld
    <2>2. x \in open /\ x[1] \in {"qMgr", Middle, Feed}
      BY <1>2 DEF ConnectorInv, ConnectorOK
    <2>3. \/ x[1] = "qMgr"
          \/ step <= 2 /\ x[1] = Middle
          \/ step = 1
      BY <2>2, <2>0 DEF ConnectorInv, OpenSoFar
    <2>4. QED
      BY <2>1, <2>2, <2>3
  <1>7. OpenIsHeld'
    <2> SUFFICES ASSUME failures = 0, NEW x \in open', x \notin told'
                 PROVE  x = <<x[1], field'[x[1]]>>
      BY DEF OpenIsHeld
    <2>1. x = <<x[1], field[x[1]]>> /\ x[1] \in Resources
      BY <1>2 DEF ConnectorInv, ConnectorOK, OpenIsHeld
    <2>2. CASE UNCHANGED <<field, open>>
      BY <2>1, <2>2
    <2>3. CASE field' = [field EXCEPT ![ShutdownStep] = 0] /\ (Dropped \/ TurnedAway)
      <3>1. x[1] # ShutdownStep
        BY <2>1, <2>3 DEF Dropped, TurnedAway
      <3>2. field'[x[1]] = field[x[1]]
        BY <2>1, <2>3, <3>1 DEF ConnectorInv, ConnectorOK
      <3>3. QED
        BY <2>1, <3>2
    <2>4. QED
      BY <2>2, <2>3
  <1>8. DownIsEmpty' /\ ShutdownDisconnects'
    <2>1. CASE step = 3
      <3>1. ~Kept("qMgr")
        BY DEF Kept
      <3>2. field'["qMgr"] = 0
        BY <2>1, <3>1 DEF ConnectorInv, ConnectorOK
      <3>3. QED
        BY <3>2 DEF DownIsEmpty, ShutdownDisconnects
    <2>2. CASE step # 3
      BY <2>2 DEF DownIsEmpty, ShutdownDisconnects
    <2>3. QED
      BY <2>1, <2>2
  <1>9. QED
    BY <1>3, <1>4, <1>5, <1>6, <1>7, <1>8 DEF ConnectorInv

\* Subscriptions and pollers that go away, and steps that change nothing.
LEMMA OutsideStep ==
    ASSUME ConnectorInv, PollerEnds \/ StanGone \/ UNCHANGED vars
    PROVE  ConnectorInv'
  <1>1. /\ open' \subseteq open /\ told' \subseteq told
        /\ \A x \in open' : x \in told => x \in told'
        /\ UNCHANGED <<type, durable, field, serial, pc, step, up, last, failures>>
    BY DEF PollerEnds, StanGone, vars, config
  <1>2. Middle' = Middle /\ Feed' = Feed
    BY <1>1 DEF Middle, Feed
  <1>3. ConnectorOK'
    BY <1>1, <1>2 DEF ConnectorInv, ConnectorOK
  <1>4. \A x \in open' : Outlives(x) => Outlives(x)'
    BY <1>1 DEF Outlives
  <1>5. FieldsSet' /\ FeedKnown' /\ OpenSoFar'
    BY <1>1, <1>2, <1>4 DEF ConnectorInv, FieldsSet, FeedKnown, OpenSoFar
  <1>6. OpenIsHeld' /\ DownIsEmpty' /\ ShutdownDisconnects'
    BY <1>1 DEF ConnectorInv, OpenIsHeld, DownIsEmpty, ShutdownDisconnects
  <1>7. QED
    BY <1>3, <1>5, <1>6 DEF ConnectorInv

\* Every step keeps the invariant.
LEMMA ConnectorStep == ConnectorInv /\ [Next]_vars => ConnectorInv'
  BY StartStep, AcquireStep, AcquireFailsStep, ShutdownCall, ReleaseKeeps, OutsideStep
     DEF Next, Rest

\* So it always holds.
LEMMA ConnectorInvariant == Spec => []ConnectorInv
  BY ConnectorInit, ConnectorStep, PTL DEF Spec

-----------------------------------------------------------------------------
(* The theorems.                                                           *)

\* Between calls, whatever failed before, nothing feeds a connector that is not
\* up but a durable subscription, or a poller whose done channel is closed
\* (Start and Shutdown of the *2*.go files).
THEOREM ConnectorIsQuiet == Spec => []QuietWhenDown
  <1>1. ConnectorInv => QuietWhenDown
    BY DEF ConnectorInv, FeedKnown, QuietWhenDown
  <1>2. QED
    BY <1>1, ConnectorInvariant, PTL

\* As long as no Start has failed, every open resource is one that a field of
\* the connector points to, or a poller told to stop: Shutdown and Start leak
\* only after a failure.
THEOREM ConnectorLeaksNone == Spec => []LeaksOnlyAfterFailure
  <1>1. ConnectorInv => LeaksOnlyAfterFailure
    <2> SUFFICES ASSUME ConnectorInv, failures = 0, NEW x \in open, x \notin told
                 PROVE  x \in Held
      BY DEF LeaksOnlyAfterFailure
    <2>1. x = <<x[1], field[x[1]]>>
      BY DEF ConnectorInv, OpenIsHeld
    <2>2. x[1] \in Resources /\ x[2] \in 1..serial /\ serial \in Nat
      BY Kinds DEF ConnectorInv, ConnectorOK
    <2>3. field[x[1]] # 0
      BY <2>1, <2>2
    <2>4. QED
      BY <2>1, <2>2, <2>3 DEF Held
  <1>2. QED
    BY <1>1, ConnectorInvariant, PTL

\* Shutdown leaves no queue manager in the field, unless it returned early for
\* a reader of a topic after a failed Start.
THEOREM ConnectorDisconnects == Spec => []ShutdownDisconnects
  BY ConnectorInvariant, PTL DEF ConnectorInv

\* Only the last step of Shutdown cuts a connection, and by then the listener
\* or the subscription that uses it is gone or, if it polls, told to stop.
THEOREM ConnectorClosesFeedFirst == Spec => FeedClosedFirst
  <1> DEFINE Fed == \A x \in open \ open' : x[1] = "qMgr" =>
                       \A y \in open : y[1] \in Feeds => Outlives(y)
  <1>1. ConnectorInv /\ [Next]_vars => [Fed]_vars
    <2> SUFFICES ASSUME ConnectorInv, Next,
                        NEW x \in open \ open', x[1] = "qMgr",
                        NEW y \in open, y[1] \in Feeds
                 PROVE  Outlives(y)
      OBVIOUS
    <2>0. ~PollerEnds
      BY DEF PollerEnds, ConnectorInv, ConnectorOK
    <2>1. Release
      BY <2>0 DEF Next, Start, ReturnError, Acquire, AcquireFails, Shutdown, StanGone,
                  Rest, vars
    <2>2. x = <<ShutdownStep, field[ShutdownStep]>>
      BY <2>1, ReleaseFacts DEF Dropped, TurnedAway
    <2>3. step = 3
      BY <2>1, <2>2, ReleaseFacts, Kinds DEF ConnectorInv
    <2>4. QED
      BY <2>1, <2>3, ReleaseFacts DEF ConnectorInv, FeedKnown
  <1>2. QED
    BY <1>1, ConnectorInvariant, PTL DEF Spec, FeedClosedFirst

=============================================================================
