----------------------------- MODULE RelayProofs -----------------------------
(***************************************************************************)
(* Two connectors in a row, for any number of messages, starts, failures   *)
(* and outages: the first puts in order, its puts and the steps of the     *)
(* second are together a listener, and what was put comes out in order.    *)
(***************************************************************************)
EXTENDS Relay, ListenerProofs, SequenceTheorems, FiniteSetTheorems

\* The types of the first connector; its MQ object is that of its
\* subscription, and a subscription that was not made has no callback.
InType ==
    /\ next \in 0..Cardinality(Messages)
    /\ inStarts \in 0..InStarts /\ sub \in 0..inStarts /\ dest \in {0, sub}
    /\ pending \in Seq(1..next) /\ placed \in Seq(1..next)
    /\ cb \in [In!Epochs -> 0..next]
    /\ sub = 0 => pending = <<>>
    /\ \A e \in In!Epochs : e > inStarts => cb[e] = 0

Increasing(s) == \A i, j \in 1..Len(s) : i < j => s[i] < s[j]

\* The messages on their way are in order: those that were put, the one in
\* the callback of the subscription, those the client holds.
InLine ==
    /\ Increasing(pending)
    /\ \A i \in 1..Len(placed), j \in 1..Len(pending) : placed[i] < pending[j]
    /\ sub # 0 => \A j \in 1..Len(pending) : cb[sub] < pending[j]
    /\ (sub # 0 /\ cb[sub] # 0) => \A i \in 1..Len(placed) : placed[i] < cb[sub]

\* What was put is in order, so no message is further on than its number.
PlacesBounded == \A i \in 1..Len(placed) : i <= placed[i]

InInv == InType /\ InLine /\ PutInOrder /\ PlacesBounded

-----------------------------------------------------------------------------
(* Sequences.                                                              *)

\* The elements of a sequence with one appended.
LEMMA AppendElements ==
    ASSUME NEW S, NEW s \in Seq(S), NEW x \in S
    PROVE  /\ Append(s, x) \in Seq(S) /\ Len(s) \in Nat
           /\ Len(Append(s, x)) = Len(s) + 1
           /\ 1..Len(Append(s, x)) = 1..Len(s) \cup {Len(s) + 1}
           /\ \A i \in 1..Len(s) : Append(s, x)[i] = s[i]
           /\ Append(s, x)[Len(s) + 1] = x
  OBVIOUS

\* A larger element at the end keeps a sequence increasing.
LEMMA AppendIncreasing ==
    ASSUME NEW n \in Nat, NEW s \in Seq(1..n), NEW x \in Nat, Increasing(s),
           \A i \in 1..Len(s) : s[i] < x
    PROVE  Increasing(Append(s, x))
  <1> DEFINE t == Append(s, x)
  <1>1. s \in Seq(Nat)
    OBVIOUS
  <1>2. /\ 1..Len(t) = 1..Len(s) \cup {Len(s) + 1} /\ t[Len(s) + 1] = x
        /\ \A i \in 1..Len(s) : t[i] = s[i]
    BY <1>1, AppendElements
  <1>3. Len(s) \in Nat
    BY <1>1, AppendElements
  <1> HIDE DEF t
  <1> SUFFICES ASSUME NEW i \in 1..Len(t), NEW j \in 1..Len(t), i < j
               PROVE  t[i] < t[j]
    BY DEF Increasing, t
  <1>4. i \in 1..Len(s)
    BY <1>2, <1>3
  <1>5. CASE j = Len(s) + 1
    BY <1>2, <1>4, <1>5
  <1>6. CASE j \in 1..Len(s)
    BY <1>2, <1>4, <1>6 DEF Increasing
  <1>7. QED
    BY <1>2, <1>5, <1>6

-----------------------------------------------------------------------------

\* The invariant of the first connector holds initially.
LEMMA InInit == In!Init => InInv
  BY RelayAssumption
     DEF In!Init, InInv, InType, InLine, PutInOrder, In!PutInOrder, PlacesBounded, In!Epochs, Increasing

-----------------------------------------------------------------------------
(* The steps of the first connector.                                       *)

\* A message published on NATS goes to the end of the line.
LEMMA NatsPublishStep == ASSUME InInv, In!NatsPublish PROVE InInv'
  <1> USE RelayAssumption DEF InInv, InType
  <1>1. /\ next' = next + 1 /\ next' \in 0..Cardinality(Messages)
        /\ UNCHANGED <<sub, cb, dest, placed, inStarts>>
    BY DEF In!NatsPublish
  <1>2. pending' = pending \/ (sub # 0 /\ pending' = Append(pending, next + 1))
    BY DEF In!NatsPublish
  <1>3. placed' \in Seq(1..next') /\ cb' \in [In!Epochs -> 0..next']
    BY <1>1
  <1>4. CASE pending' = pending
    <2>1. InType'
      BY <1>1, <1>3, <1>4 DEF In!Epochs
    <2>2. InLine' /\ PutInOrder' /\ PlacesBounded'
      BY <1>1, <1>4 DEF InLine, PutInOrder, In!PutInOrder, PlacesBounded
    <2>3. QED
      BY <2>1, <2>2
  <1>5. CASE sub # 0 /\ pending' = Append(pending, next + 1)
    <2>1. /\ pending \in Seq(1..next') /\ next + 1 \in 1..next'
          /\ next \in Nat /\ next' \in Nat
      BY <1>1
    <2>2. /\ pending' \in Seq(1..next')
          /\ 1..Len(pending') = 1..Len(pending) \cup {Len(pending) + 1}
          /\ \A j \in 1..Len(pending) : pending'[j] = pending[j]
          /\ pending'[Len(pending) + 1] = next + 1
      BY <1>5, <2>1, AppendElements
    <2>3. InType'
      BY <1>1, <1>3, <1>5, <2>2 DEF In!Epochs
    <2>4. /\ \A j \in 1..Len(pending) : pending[j] < next + 1
          /\ \A i \in 1..Len(placed) : placed[i] < next + 1
      OBVIOUS
    <2>8. cb[sub] < next + 1
      BY <1>5 DEF In!Epochs
    <2>5. InLine'
      <3> HIDE DEF InType
      <3>1. Increasing(pending')
        BY <1>5, <2>1, <2>4, AppendIncreasing DEF InLine
      <3>2. \A i \in 1..Len(placed), j \in 1..Len(pending') : placed[i] < pending'[j]
        BY <2>2, <2>4 DEF InLine
      <3>3. \A j \in 1..Len(pending') : cb[sub] < pending'[j]
        BY <1>5, <2>2, <2>8 DEF InLine
      <3>4. QED
        BY <1>1, <1>5, <3>1, <3>2, <3>3 DEF InLine
    <2>6. PutInOrder' /\ PlacesBounded'
      BY <1>1 DEF PutInOrder, In!PutInOrder, PlacesBounded
    <2>7. QED
      BY <2>3, <2>5, <2>6
  <1>6. QED
    BY <1>2, <1>4, <1>5

\* Start of the subscriber begins with an empty line.
LEMMA InStartStep == ASSUME InInv, In!Start PROVE InInv'
  <1> USE RelayAssumption DEF InInv, InType, In!Start
  <1>1. InType'
    BY DEF In!Epochs
  <1>2. cb'[sub'] = 0 /\ pending' = <<>>
    BY DEF In!Epochs
  <1>3. InLine' /\ PutInOrder' /\ PlacesBounded'
    BY <1>2 DEF InLine, PutInOrder, In!PutInOrder, PlacesBounded, Increasing
  <1>4. QED
    BY <1>1, <1>3

\* Shutdown, an outage and what leaves the first connector alone.
LEMMA InQuietStep ==
    ASSUME InInv,
           \/ In!NatsGone \/ In!NatsBack \/ In!MqGone \/ In!Shutdown
           \/ UNCHANGED inVars
    PROVE  InInv'
  <1> USE RelayAssumption DEF InInv, InType
  <1>1. /\ UNCHANGED <<next, cb, placed, inStarts>>
        /\ (UNCHANGED <<sub, pending>> /\ dest' \in {0, dest})
           \/ (sub' = 0 /\ dest' = 0 /\ pending' = <<>>)
    BY DEF In!NatsGone, In!NatsBack, In!MqGone, In!Shutdown, inVars
  <1>2. InType'
    <2>1. CASE UNCHANGED <<sub, pending>> /\ dest' \in {0, dest}
      BY <1>1, <2>1 DEF In!Epochs
    <2>2. CASE sub' = 0 /\ dest' = 0 /\ pending' = <<>>
      BY <1>1, <2>2 DEF In!Epochs
    <2>3. QED
      BY <1>1, <2>1, <2>2
  <1>3. InLine' /\ PutInOrder' /\ PlacesBounded'
    BY <1>1 DEF InLine, PutInOrder, In!PutInOrder, PlacesBounded, Increasing
  <1>4. QED
    BY <1>2, <1>3

\* The client hands the head of the line to the callback.
LEMMA DispatchStep == ASSUME InInv, In!Dispatch PROVE InInv'
  <1> USE RelayAssumption DEF InInv, InType
  <1>1. /\ sub \in In!Epochs /\ pending # <<>> /\ cb[sub] = 0
        /\ cb' = [cb EXCEPT ![sub] = Head(pending)] /\ pending' = Tail(pending)
        /\ UNCHANGED <<next, sub, dest, placed, inStarts>>
    BY DEF In!Dispatch, In!Epochs
  <1>2. Head(pending) \in 1..next /\ Head(pending) = pending[1] /\ Len(pending) >= 1
    BY <1>1
  <1>3. /\ pending' \in Seq(1..next) /\ Len(pending') = Len(pending) - 1
        /\ \A i \in 1..Len(pending') : pending'[i] = pending[i + 1]
    BY <1>1, HeadTailProperties
  <1>4. InType'
    BY <1>1, <1>2, <1>3 DEF In!Epochs
  <1>5. cb'[sub] = pending[1]
    BY <1>1, <1>2
  <1>6. InLine'
    <2> DEFINE later(i) == i + 1
    <2>0. \A i \in 1..Len(pending') :
             /\ later(i) \in 1..Len(pending) /\ 1 < later(i)
             /\ pending'[i] = pending[later(i)]
      BY <1>3
    <2>6. 1 \in 1..Len(pending)
      BY <1>2
    <2>1. Increasing(pending')
      <3> SUFFICES ASSUME NEW i \in 1..Len(pending'), NEW j \in 1..Len(pending'), i < j
                   PROVE  pending[later(i)] < pending[later(j)]
        BY <2>0 DEF Increasing
      <3>1. later(i) < later(j)
        OBVIOUS
      <3> HIDE DEF later
      <3>2. QED
        BY <2>0, <3>1 DEF InLine, Increasing
    <2> HIDE DEF later
    <2>2. \A i \in 1..Len(placed), j \in 1..Len(pending') : placed[i] < pending'[j]
      BY <2>0 DEF InLine
    <2>3. \A j \in 1..Len(pending') : cb'[sub] < pending'[j]
      BY <2>0, <2>6, <1>5 DEF InLine, Increasing
    <2>4. \A i \in 1..Len(placed) : placed[i] < cb'[sub]
      BY <2>6, <1>5 DEF InLine
    <2>5. QED
      BY <1>1, <2>1, <2>2, <2>3, <2>4 DEF InLine
  <1>7. PutInOrder' /\ PlacesBounded'
    BY <1>1 DEF PutInOrder, In!PutInOrder, PlacesBounded
  <1>8. QED
    BY <1>4, <1>6, <1>7

\* A Put is one of the current subscription, and its message goes behind all
\* that were put; its place is one of the queue's.
LEMMA PutStep ==
    ASSUME InInv, NEW e \in In!Epochs, In!Put(e)
    PROVE  InInv' /\ Len(placed) + 1 \in Messages /\ DOMAIN placed' = DOMAIN placed \cup {Len(placed) + 1}
  <1> USE RelayAssumption DEF InInv, InType
  <1>1. /\ cb[e] # 0 /\ sub = e /\ sub # 0
        /\ placed' = Append(placed, cb[e]) /\ cb' = [cb EXCEPT ![e] = 0]
        /\ UNCHANGED <<next, sub, pending, dest, inStarts>>
    BY DEF In!Put, In!CanPut, In!Epochs
  <1>2. cb[e] \in 1..next /\ next \in Nat
    BY <1>1
  <1>3. /\ placed' \in Seq(1..next) /\ Len(placed) \in Nat
        /\ 1..Len(placed') = 1..Len(placed) \cup {Len(placed) + 1}
        /\ \A i \in 1..Len(placed) : placed'[i] = placed[i]
        /\ placed'[Len(placed) + 1] = cb[e]
    BY <1>1, <1>2, AppendElements
  <1>4. \A i \in 1..Len(placed) : placed[i] \in 1..next /\ placed[i] < cb[e] /\ i <= placed[i]
    BY <1>1 DEF InLine, PlacesBounded
  <1>5. Len(placed) + 1 <= cb[e]
    <2>1. CASE Len(placed) = 0
      BY <1>2, <2>1
    <2>2. CASE Len(placed) # 0
      <3> HIDE DEF InType
      <3>1. Len(placed) \in 1..Len(placed)
        BY <1>3, <2>2
      <3>2. /\ Len(placed) <= placed[Len(placed)] /\ placed[Len(placed)] < cb[e]
            /\ placed[Len(placed)] \in 1..next
        BY <1>4, <3>1
      <3>3. Len(placed) \in Nat
        BY <1>3
      <3>4. QED
        BY <1>2, <3>2, <3>3
    <2>3. QED
      BY <2>1, <2>2
  <1>6. InType'
    BY <1>1, <1>3 DEF In!Epochs
  <1>7. InLine'
    <2>1. \A i \in 1..Len(placed'), j \in 1..Len(pending) : placed'[i] < pending[j]
      BY <1>1, <1>3 DEF InLine
    <2>2. \A j \in 1..Len(pending) : 0 < pending[j]
      OBVIOUS
    <2>3. cb'[sub] = 0
      BY <1>1
    <2>4. QED
      BY <1>1, <2>1, <2>2, <2>3 DEF InLine
  <1>8. PutInOrder'
    <2>1. Increasing(placed)
      BY DEF PutInOrder, In!PutInOrder, Increasing
    <2>2. Increasing(placed')
      <3> HIDE DEF InType
      <3>1. placed \in Seq(1..next) /\ cb[e] \in Nat /\ \A i \in 1..Len(placed) : placed[i] < cb[e]
        BY <1>2, <1>4 DEF InType
      <3>2. Increasing(Append(placed, cb[e]))
        BY <1>2, <2>1, <3>1, AppendIncreasing
      <3>3. QED
        BY <1>1, <3>2
    <2>3. QED
      BY <2>2 DEF PutInOrder, In!PutInOrder, Increasing
  <1>9. PlacesBounded'
    <2> HIDE DEF InType
    <2>1. \A i \in 1..Len(placed') : i <= placed'[i]
      BY <1>3, <1>4, <1>5
    <2>2. QED
      BY <2>1 DEF PlacesBounded
  <1>10. Len(placed) + 1 \in Messages
    BY <1>2, <1>3, <1>5
  <1>11. DOMAIN placed' = DOMAIN placed \cup {Len(placed) + 1}
    <2>1. DOMAIN placed' = 1..Len(placed') /\ DOMAIN placed = 1..Len(placed)
      BY <1>3
    <2>2. QED
      BY <1>3, <2>1
  <1>12. QED
    BY <1>6, <1>7, <1>8, <1>9, <1>10, <1>11

\* A Put that fails drops the message in hand.
LEMMA PutFailsStep ==
    ASSUME InInv, NEW e \in In!Epochs, In!PutFails(e)
    PROVE  InInv'
  <1> USE RelayAssumption DEF InInv, InType
  <1>1. /\ cb' = [cb EXCEPT ![e] = 0]
        /\ UNCHANGED <<next, sub, pending, dest, placed, inStarts>>
    BY DEF In!PutFails
  <1>2. InType'
    BY <1>1 DEF In!Epochs
  <1>3. InLine'
    <2>1. \A j \in 1..Len(pending) : 0 < pending[j]
      OBVIOUS
    <2>2. sub # 0 => (cb'[sub] = cb[sub] \/ cb'[sub] = 0)
      BY <1>1 DEF In!Epochs
    <2>3. QED
      BY <1>1, <2>1, <2>2 DEF InLine
  <1>4. PutInOrder' /\ PlacesBounded'
    BY <1>1 DEF PutInOrder, In!PutInOrder, PlacesBounded
  <1>5. QED
    BY <1>2, <1>3, <1>4

-----------------------------------------------------------------------------
(* The two connectors together.                                            *)

\* The second connector has been sent what the first has put.
RelayInv == InInv /\ arrived = DOMAIN placed

\* The invariant of both holds initially.
LEMMA RelayStarts == RelayInit => RelayInv
  <1> SUFFICES ASSUME RelayInit PROVE RelayInv
    OBVIOUS
  <1>1. InInv
    BY InInit DEF RelayInit
  <1>2. arrived = {} /\ placed = <<>>
    BY DEF RelayInit, Init, In!Init
  <1>3. QED
    BY <1>1, <1>2 DEF RelayInv

\* A step of the first connector is a Put, or leaves what was put alone.
LEMMA InKeeps == ASSUME RelayInv, InStep PROVE RelayInv' /\ UNCHANGED vars
  <1>1. InInv /\ UNCHANGED vars
    BY DEF InStep, RelayInv
  <1>2. \/ In!NatsPublish \/ In!Start \/ In!Dispatch
        \/ In!NatsBack \/ In!MqGone \/ In!Shutdown
        \/ \E e \in In!Epochs : In!PutFails(e)
    BY DEF InStep
  <1>3. InInv'
    BY <1>1, <1>2, NatsPublishStep, InStartStep, DispatchStep, InQuietStep, PutFailsStep
  <1>4. placed' = placed
    BY <1>2 DEF In!NatsPublish, In!Start, In!Dispatch, In!NatsBack, In!MqGone,
                In!Shutdown, In!PutFails
  <1>5. QED
    BY <1>1, <1>3, <1>4 DEF RelayInv, vars

\* A Put of the first connector is an arrival for the second.
LEMMA PutArrivesKeeps ==
    ASSUME RelayInv, NEW e \in In!Epochs, PutArrives(e)
    PROVE  RelayInv' /\ Next
  <1>1. InInv' /\ Len(placed) + 1 \in Messages /\ DOMAIN placed' = DOMAIN placed \cup {Len(placed) + 1}
    BY PutStep DEF PutArrives, RelayInv
  <1>2. arrived' = arrived \cup {Len(placed) + 1}
    BY DEF PutArrives, Arrive
  <1>3. Next
    BY <1>1 DEF PutArrives, Next
  <1>4. QED
    BY <1>1, <1>2, <1>3 DEF RelayInv

\* The steps of the second connector other than an arrival.
LEMMA OutKeeps ==
    ASSUME RelayInv, UNCHANGED inVars, arrived' = arrived
    PROVE  RelayInv'
  BY InQuietStep DEF RelayInv, inVars

\* Every step of the two is a step of the listener, or one that it does not see.
LEMMA RelayStep == ASSUME RelayInv, [RelayNext]_relayVars PROVE RelayInv' /\ [Next]_vars
  <1>1. CASE InStep
    BY <1>1, InKeeps
  <1>2. ASSUME NEW e \in In!Epochs, PutArrives(e)
        PROVE  RelayInv' /\ Next
    BY <1>2, PutArrivesKeeps
  <1>3. CASE OutStarts
    BY <1>3, OutKeeps DEF OutStarts, Start, Next
  <1>4. CASE OutStep
    <2>1. Next /\ UNCHANGED inVars
      BY <1>4 DEF OutStep, Next, ReaderStep
    <2>2. arrived' = arrived
      BY <1>4 DEF OutStep, ShutdownLocks, ShutdownEnds, Break, Ends, PublishFails, Commit,
                  Back, Get
    <2>3. QED
      BY <2>1, <2>2, OutKeeps
  <1>5. ASSUME NEW e \in Epochs, HandOver(e)
        PROVE  RelayInv' /\ Next
    <2>1. Next /\ UNCHANGED inVars /\ arrived' = arrived
      BY <1>5 DEF HandOver, Publish, Next, ReaderStep
    <2>2. QED
      BY <2>1, OutKeeps
  <1>6. CASE Flush \/ GivesUp \/ UNCHANGED relayVars
    <2>1. UNCHANGED inVars /\ UNCHANGED vars
      BY <1>6 DEF Flush, GivesUp, relayVars
    <2>2. QED
      BY <2>1, OutKeeps DEF vars
  <1>7. CASE NatsBreaks
    <2>1. InInv' /\ UNCHANGED <<vars, placed>>
      BY <1>7, InQuietStep DEF NatsBreaks, RelayInv, In!NatsGone
    <2>2. QED
      BY <2>1 DEF RelayInv, vars
  <1>8. QED
    BY <1>1, <1>2, <1>3, <1>4, <1>5, <1>6, <1>7 DEF RelayNext

\* The invariant of both always holds.
LEMMA RelayInvariant == RelaySpec => []RelayInv
  BY RelayStarts, RelayStep, PTL DEF RelaySpec

\* The first connector puts the messages of its subject in their order, and
\* none twice, with callbacks of earlier subscriptions still waiting for the
\* lock (subscribeToNATS, Shutdown and Start).
THEOREM RelayPutsInOrder == RelaySpec => []PutInOrder
  <1>1. RelayInv => PutInOrder
    BY DEF RelayInv, InInv
  <1>2. QED
    BY <1>1, RelayInvariant, PTL

\* Two connectors in a row behave, for the second one and its queue, as that
\* connector alone with some program putting to the queue: what was shown of a
\* listener holds of it here.
THEOREM RelayIsListener == RelaySpec => Spec
  <1>1. RelayInit => Init
    BY DEF RelayInit
  <1>2. RelayInv /\ [RelayNext]_relayVars => [Next]_vars
    BY RelayStep
  <1>3. QED
    BY <1>1, <1>2, RelayInvariant, PTL DEF RelaySpec, Spec

\* In particular MQ gives up what the first connector has put only after the
\* second one has published it.
THEOREM RelayDelivers == ~Polling /\ RelaySpec => ImplementsDelivery
  BY RelayIsListener, CallbackDelivers, PTL

-----------------------------------------------------------------------------
(* What comes out.                                                         *)

\* Everything that came to tock or is on its way there, in order.
Out == tock \o outbox

OutType == tock \in Seq(Messages) /\ outbox \in Seq(Messages)

\* What was published is there or was dropped by the NATS client, and each
\* message is behind all that were put before it and not dropped.
OutInOrder ==
    /\ Range(Out) \cup lost = published
    /\ \A i \in DOMAIN Out : \A k \in DOMAIN placed :
          k < Out[i] => k \in lost \/ \E j \in 1..i : Out[j] = k

OutInv == OutType /\ OutInOrder

\* What holds of both connectors and of the client between them and tock.
WholeInv == RelayInv /\ ListenerInv /\ OrderInv /\ OutInv

\* A single message is sent as it is.
LEMMA SingleToSeq ==
    ASSUME NEW m \in Messages
    PROVE  SetToSeq({m}) = <<m>>
  <1>1. Cardinality({m}) = 1
    BY FS_Singleton
  <1>2. <<m>> \in [1..1 -> {m}] /\ IsInjective(<<m>>)
    BY DEF IsInjective
  <1>3. \A f \in [1..1 -> {m}] : f = <<m>>
    OBVIOUS
  <1>4. QED
    BY <1>1, <1>2, <1>3 DEF SetToSeq

\* Nothing has been handed to the NATS client initially.
LEMMA OutInitially == RelayInit => OutInv
  BY DEF RelayInit, Init, OutInv, OutType, OutInOrder, Out, Range

\* Handing a message over puts it behind the rest.
LEMMA HandOverOut ==
    ASSUME WholeInv, NEW e \in Epochs, HandOver(e)
    PROVE  OutInv'
  <1>1. PICK m \in Messages : hand[e] = {m}
    BY DEF WholeInv, ListenerInv, HandAtSource, HandOver, Publish
  <1>2. /\ outbox' = outbox \o <<m>> /\ tock' = tock /\ published' = published \cup {m}
        /\ lost' = lost /\ placed' = placed
    BY <1>1, SingleToSeq DEF HandOver, Publish, inVars
  <1>3. OutType'
    BY <1>2 DEF WholeInv, OutInv, OutType
  <1>4. Out \in Seq(Messages) /\ Out' = Append(Out, m)
    <2>1. Out \in Seq(Messages) /\ <<m>> \in Seq(Messages)
      BY DEF WholeInv, OutInv, OutType, Out
    <2>2. Out' = Out \o <<m>>
      BY <1>2, ConcatAssociative DEF WholeInv, OutInv, OutType, Out
    <2>3. QED
      BY <2>1, <2>2
  <1>5. /\ DOMAIN Out' = DOMAIN Out \cup {Len(Out) + 1} /\ DOMAIN Out = 1..Len(Out)
        /\ \A i \in DOMAIN Out : Out'[i] = Out[i]
        /\ Out'[Len(Out) + 1] = m /\ Len(Out) \in Nat
    <2>1. Out' \in Seq(Messages)
      BY <1>4
    <2>2. DOMAIN Out' = 1..Len(Out') /\ DOMAIN Out = 1..Len(Out)
      BY <1>4, <2>1
    <2>3. QED
      BY <1>4, <2>2, AppendElements
  <1>6. /\ Range(Out) \cup lost = published
        /\ \A i \in DOMAIN Out : \A k \in DOMAIN placed :
              k < Out[i] => k \in lost \/ \E j \in 1..i : Out[j] = k
    BY DEF WholeInv, OutInv, OutInOrder
  <1>7. Range(Out') \cup lost = published'
    BY <1>2, <1>5, <1>6 DEF Range
  <1>8. ASSUME NEW i \in DOMAIN Out', NEW k \in DOMAIN placed, k < Out'[i], k \notin lost
        PROVE  \E j \in 1..i : Out'[j] = k
    <2>1. CASE i \in DOMAIN Out
      <3>1. PICK j \in 1..i : Out[j] = k
        BY <1>5, <1>6, <1>8, <2>1
      <3>2. j \in DOMAIN Out
        BY <1>5, <2>1
      <3>3. QED
        BY <1>5, <3>1, <3>2
    <2>2. CASE i = Len(Out) + 1
      <3>1. k \in arrived /\ k < m
        BY <1>5, <1>8, <2>2 DEF WholeInv, RelayInv
      <3>2. k \in published
        BY <1>1, <3>1 DEF WholeInv, OrderInv, OlderPublished, HandOver, Publish
      <3>3. PICK j \in DOMAIN Out : Out[j] = k
        BY <1>6, <1>8, <3>2 DEF Range
      <3>4. j \in 1..i
        BY <1>5, <2>2
      <3>5. QED
        BY <1>5, <3>3, <3>4
    <2>3. QED
      BY <1>5, <1>8, <2>1, <2>2
  <1>9. QED
    BY <1>2, <1>3, <1>7, <1>8 DEF OutInv, OutInOrder

\* Sending the first message of the outbox moves it to the end of tock.
LEMMA FlushOut == ASSUME WholeInv, Flush PROVE OutInv'
  <1>1. /\ outbox # <<>> /\ tock' = Append(tock, Head(outbox)) /\ outbox' = Tail(outbox)
        /\ UNCHANGED <<lost, published, placed>>
    BY DEF Flush, vars, inVars
  <1>2. tock \in Seq(Messages) /\ outbox \in Seq(Messages)
    BY DEF WholeInv, OutInv, OutType
  <1>3. OutType'
    BY <1>1, <1>2 DEF OutType
  <1>4. Out' = Out
    <2>1. /\ Tail(outbox) \in Seq(Messages) /\ Head(outbox) \in Messages
          /\ outbox = <<Head(outbox)>> \o Tail(outbox)
      BY <1>1, <1>2
    <2>2. Append(tock, Head(outbox)) = tock \o <<Head(outbox)>>
      BY <1>2, <2>1
    <2>3. (tock \o <<Head(outbox)>>) \o Tail(outbox) = tock \o (<<Head(outbox)>> \o Tail(outbox))
      BY <1>2, <2>1, ConcatAssociative
    <2>4. QED
      BY <1>1, <2>1, <2>2, <2>3 DEF Out
  <1>5. QED
    BY <1>1, <1>3, <1>4 DEF WholeInv, OutInv, OutInOrder

\* What the NATS client drops was at the end of what is out.
LEMMA DropOut ==
    ASSUME WholeInv, DropOutbox, UNCHANGED <<published, placed>>
    PROVE  OutInv'
  <1>1. tock \in Seq(Messages) /\ outbox \in Seq(Messages)
    BY DEF WholeInv, OutInv, OutType
  <1>2. /\ tock' = tock /\ outbox' = <<>> /\ lost' = lost \cup Range(outbox)
        /\ Out' = tock
    BY <1>1 DEF DropOutbox, Out
  <1>3. /\ Len(tock) \in Nat /\ Len(outbox) \in Nat
        /\ DOMAIN tock = 1..Len(tock) /\ DOMAIN outbox = 1..Len(outbox)
        /\ DOMAIN Out = 1..(Len(tock) + Len(outbox))
        /\ \A i \in 1..Len(tock) : Out[i] = tock[i]
        /\ \A i \in 1..Len(outbox) : Out[Len(tock) + i] = outbox[i]
    BY <1>1 DEF Out
  <1>4. Range(Out) = Range(tock) \cup Range(outbox)
    <2>1. Range(Out) \subseteq Range(tock) \cup Range(outbox)
      <3> SUFFICES ASSUME NEW i \in DOMAIN Out
                   PROVE  Out[i] \in Range(tock) \cup Range(outbox)
        BY DEF Range
      <3>1. CASE i \in 1..Len(tock)
        BY <1>3, <3>1 DEF Range
      <3>2. CASE i \notin 1..Len(tock)
        <4>1. i - Len(tock) \in 1..Len(outbox) /\ i = Len(tock) + (i - Len(tock))
          BY <1>3, <3>2
        <4>2. QED
          BY <1>3, <4>1 DEF Range
      <3>3. QED
        BY <3>1, <3>2
    <2>2. Range(tock) \subseteq Range(Out)
      <3>1. \A i \in 1..Len(tock) : i \in DOMAIN Out
        BY <1>3
      <3>2. QED
        BY <1>3, <3>1 DEF Range
    <2>3. Range(outbox) \subseteq Range(Out)
      <3>1. \A i \in 1..Len(outbox) : Len(tock) + i \in DOMAIN Out
        BY <1>3
      <3>2. QED
        BY <1>3, <3>1 DEF Range
    <2>4. QED
      BY <2>1, <2>2, <2>3
  <1>5. Range(Out)' \cup lost' = published'
    BY <1>2, <1>4 DEF WholeInv, OutInv, OutInOrder, Range
  <1>6. ASSUME NEW i \in DOMAIN tock, NEW k \in DOMAIN placed, k < tock[i], k \notin lost
        PROVE  \E j \in 1..i : tock[j] = k
    <2>1. i \in DOMAIN Out /\ Out[i] = tock[i]
      BY <1>3
    <2>2. PICK j \in 1..i : Out[j] = k
      BY <1>6, <2>1 DEF WholeInv, OutInv, OutInOrder
    <2>3. QED
      BY <1>3, <2>2
  <1>7. OutType'
    BY <1>1, <1>2 DEF OutType
  <1>8. QED
    BY <1>2, <1>5, <1>6, <1>7 DEF OutInv, OutInOrder

\* A new message is behind all that were published.
LEMMA PutArrivesOut ==
    ASSUME WholeInv, NEW e \in In!Epochs, PutArrives(e)
    PROVE  OutInv'
  <1>1. /\ UNCHANGED <<lost, outbox, tock, published>>
        /\ DOMAIN placed' = DOMAIN placed \cup {Len(placed) + 1}
    BY PutStep DEF PutArrives, natsSide, Arrive, WholeInv, RelayInv
  <1>2. OutType' /\ Out' = Out
    BY <1>1 DEF WholeInv, OutInv, OutType, Out
  <1>3. ASSUME NEW i \in DOMAIN Out, NEW k \in DOMAIN placed', k < Out[i]
        PROVE  k \in DOMAIN placed
    <2>1. Out[i] \in published
      BY <1>3 DEF WholeInv, OutInv, OutInOrder, Range
    <2>2. Out[i] \in 1..Len(placed)
      BY <2>1 DEF WholeInv, RelayInv, ListenerInv, ListenerType, InInv, InType
    <2>3. Len(placed) \in Nat
      BY DEF WholeInv, RelayInv, InInv, InType
    <2>4. QED
      BY <1>1, <1>3, <2>2, <2>3
  <1>4. QED
    BY <1>1, <1>2, <1>3 DEF WholeInv, OutInv, OutInOrder

\* Every step of the relay keeps the whole invariant.
LEMMA WholeStep ==
    ASSUME ~Polling, WholeInv, [RelayNext]_relayVars
    PROVE  WholeInv'
  <1>1. RelayInv' /\ [Next]_vars
    BY RelayStep DEF WholeInv
  <1>2. ListenerInv' /\ OrderInv'
    BY <1>1, ListenerStep, OrderStep DEF WholeInv
  <1>3. ASSUME UNCHANGED <<natsSide, published, placed>>
        PROVE  OutInv'
    BY <1>3 DEF WholeInv, OutInv, OutType, OutInOrder, Out, natsSide
  <1>4. OutInv'
    <2>1. CASE InStep
      <3>1. UNCHANGED <<natsSide, published>>
        BY <2>1 DEF InStep, vars
      <3>2. placed' = placed
        BY <2>1 DEF InStep, In!NatsPublish, In!Start, In!Dispatch, In!NatsBack,
                    In!MqGone, In!Shutdown, In!PutFails
      <3>3. QED
        BY <1>3, <3>1, <3>2
    <2>2. CASE OutStarts \/ OutStep
      <3>1. UNCHANGED <<natsSide, placed>>
        BY <2>2 DEF OutStarts, OutStep, inVars
      <3>2. published' = published
        BY <2>2 DEF OutStarts, OutStep, Start, ShutdownLocks, ShutdownEnds, Break, Ends,
                    PublishFails, Commit, Back, Get
      <3>3. QED
        BY <1>3, <3>1, <3>2
    <2>3. CASE Flush
      BY <2>3, FlushOut
    <2>4. CASE GivesUp \/ NatsBreaks
      BY <2>4, DropOut DEF GivesUp, NatsBreaks, In!NatsGone, vars, inVars
    <2>5. ASSUME NEW e \in In!Epochs, PutArrives(e)
          PROVE  OutInv'
      BY <2>5, PutArrivesOut
    <2>6. ASSUME NEW e \in Epochs, HandOver(e)
          PROVE  OutInv'
      BY <2>6, HandOverOut
    <2>7. CASE UNCHANGED relayVars
      BY <1>3, <2>7 DEF relayVars, vars, inVars
    <2>8. QED
      BY <2>1, <2>2, <2>3, <2>4, <2>5, <2>6, <2>7 DEF RelayNext
  <1>5. QED
    BY <1>1, <1>2, <1>4 DEF WholeInv

\* All that the first connector put comes out at tock in order, but for
\* repetitions, and without a gap, or is still on MQ or with the NATS client,
\* whatever fails, breaks or is restarted on the way; the only messages missing
\* are those the client held when its connection broke or was given up.
THEOREM RelayKeepsOrder == ~Polling /\ RelaySpec => []RelayedInOrder
  <1>1. RelayInit => WholeInv
    <2>1. Init => OrderInv
      BY DEF Init, OrderInv, NoMessageLost, OlderPublished, PublishedInOrder
    <2>2. QED
      BY <2>1, RelayStarts, ListenerInit, OutInitially DEF RelayInit, WholeInv
  <1>2. WholeInv => RelayedInOrder
    BY DEF WholeInv, RelayInv, OrderInv, NoMessageLost, OutInv, OutInOrder, Out,
           RelayedInOrder
  <1>3. CASE ~Polling
    <2>1. WholeInv /\ [RelayNext]_relayVars => WholeInv'
      BY <1>3, WholeStep
    <2>2. QED
      BY <1>1, <1>2, <2>1, PTL DEF RelaySpec
  <1>4. QED
    BY <1>3

=============================================================================
