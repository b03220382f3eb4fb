------------------------ MODULE StanSubscriberProofs ------------------------
(***************************************************************************)
(* A streaming subscription implements Delivery, durable or not, for any   *)
(* number of messages, starts, failures and outages and for every start    *)
(* position.                                                               *)
(***************************************************************************)
EXTENDS StanSubscriber, TLAPS

\* The types the argument needs.
SubscriberType ==
    /\ position \in Positions
    /\ last \in 0..N /\ base \in Nat
    /\ acked \subseteq Messages /\ placed \subseteq Messages /\ inbox \subseteq Messages
    /\ live \in 0..MaxStarts /\ starts \in 0..MaxStarts /\ lock \in 0..MaxStarts
    /\ cb \in [Epochs -> 0..N]

\* Only messages that are on MQ are acknowledged.
AckedPlaced == acked \subseteq placed

\* The callback that is past its Put has its message on MQ.
LockPlaced == lock # 0 => cb[lock] \in placed

\* Before the first subscription nothing was acknowledged.
NoBaseNoAck == base = 0 => live = 0 /\ acked = {}

SubscriberInv == SubscriberType /\ AckedPlaced /\ LockPlaced /\ NoBaseNoAck

-----------------------------------------------------------------------------

\* A new subscription starts at a message.
LEMMA FirstPositive ==
    ASSUME SubscriberType
    PROVE  First \in Nat \ {0}
  BY SubscriberAssumption DEF First, SubscriberType

\* The invariant holds initially.
LEMMA SubscriberInit == Init => SubscriberInv
  BY SubscriberAssumption
     DEF Init, SubscriberInv, SubscriberType, AckedPlaced, LockPlaced, NoBaseNoAck,
         Epochs, Messages

\* Every step keeps it.
LEMMA SubscriberStep ==
    ASSUME SubscriberInv, [Next]_vars
    PROVE  SubscriberInv'
  <1> USE SubscriberAssumption
          DEF SubscriberInv, SubscriberType, AckedPlaced, LockPlaced, NoBaseNoAck,
              Epochs, Messages, config
  <1>1. CASE ChannelPublish
    BY <1>1 DEF ChannelPublish
  <1>2. CASE StanGone
    BY <1>2 DEF StanGone
  <1>3. CASE MqGone
    BY <1>3 DEF MqGone
  <1>4. CASE Start
    <2>1. First \in Nat \ {0}
      BY FirstPositive
    <2>2. \/ base' = base /\ acked' = acked /\ base # 0
          \/ base' \in Nat \ {0} /\ acked' = {}
      BY <1>4, <2>1 DEF Start
    <2>3. /\ lock = 0 /\ starts' \in 0..MaxStarts /\ live' \in 0..MaxStarts
          /\ UNCHANGED <<position, last, inbox, cb, lock, placed>>
      BY <1>4 DEF Start
    <2>4. QED
      BY <2>2, <2>3
  <1>5. CASE Shutdown
    BY <1>5 DEF Shutdown
  <1>6. ASSUME NEW m \in Messages, Send(m)
        PROVE  SubscriberInv'
    BY <1>6 DEF Send
  <1>7. ASSUME NEW m \in Messages, Dispatch(m)
        PROVE  SubscriberInv'
    BY <1>7 DEF Dispatch
  <1>8. ASSUME NEW e \in Epochs, Put(e)
        PROVE  SubscriberInv'
    <2>1. cb[e] \in Messages /\ lock' = e /\ placed' = placed \cup {cb[e]}
      BY <1>8 DEF Put
    <2>2. UNCHANGED <<position, last, base, acked, live, inbox, cb, starts>>
      BY <1>8 DEF Put
    <2>3. e \in 0..MaxStarts
      OBVIOUS
    <2> HIDE DEF Messages, Epochs
    <2>4. SubscriberType'
      BY <2>1, <2>2, <2>3
    <2>5. AckedPlaced' /\ NoBaseNoAck'
      BY <2>1, <2>2
    <2>6. LockPlaced'
      BY <2>1, <2>2
    <2>7. QED
      BY <2>4, <2>5, <2>6
  <1>9. ASSUME NEW e \in Epochs, PutFails(e)
        PROVE  SubscriberInv'
    BY <1>9 DEF PutFails
  <1>10. ASSUME NEW e \in Epochs, Ack(e)
         PROVE  SubscriberInv'
    <2>1. cb[e] \in placed
      BY <1>10 DEF Ack, MayAck
    <2>2. /\ acked' = acked \cup {cb[e]} /\ lock' = 0 /\ cb' \in [Epochs -> 0..N]
          /\ UNCHANGED <<position, last, base, live, inbox, placed, starts>>
      BY <1>10 DEF Ack
    <2>3. base # 0
      BY <1>10 DEF Ack
    <2> HIDE DEF Messages, Epochs
    <2>4. SubscriberType'
      BY <2>1, <2>2
    <2>5. AckedPlaced' /\ LockPlaced' /\ NoBaseNoAck'
      BY <2>1, <2>2, <2>3
    <2>6. QED
      BY <2>4, <2>5
  <1>11. ASSUME NEW e \in Epochs, AckLost(e)
         PROVE  SubscriberInv'
    BY <1>11 DEF AckLost
  <1>12. CASE UNCHANGED vars
    BY <1>12 DEF vars
  <1>13. QED
    BY <1>1, <1>2, <1>3, <1>4, <1>5, <1>6, <1>7, <1>8, <1>9, <1>10, <1>11, <1>12
       DEF Next, Callback

-----------------------------------------------------------------------------
(* The refinement.                                                         *)

\* The initial states are initial states of Delivery.
LEMMA DeliveryInit == Init => Abstract!Init
  BY DEF Init, Abstract!Init

\* Every step is a step of Delivery or leaves the acknowledged and the placed
\* messages as they are.  A new subscription offers everything again.
LEMMA DeliveryStep ==
    ASSUME SubscriberInv, [Next]_vars
    PROVE  [Abstract!Next]_(Abstract!vars)
  <1> USE DEF Abstract!vars
  <1>1. CASE ChannelPublish \/ StanGone \/ MqGone
    BY <1>1 DEF ChannelPublish, StanGone, MqGone
  <1>2. CASE Start
    <2>1. placed' = placed /\ (acked' = acked \/ acked' = {})
      BY <1>2 DEF Start
    <2>2. CASE acked' = acked
      BY <2>1, <2>2
    <2>3. CASE acked' = {}
      <3>1. (Messages \ acked)' = (Messages \ acked) \cup acked
        BY <2>3 DEF Messages, SubscriberInv, SubscriberType
      <3>2. Abstract!Offer(acked) /\ acked \in SUBSET Messages
        BY <2>1, <3>1 DEF Abstract!Offer, SubscriberInv, SubscriberType
      <3>3. QED
        BY <3>2 DEF Abstract!Next
    <2>4. QED
      BY <2>1, <2>2, <2>3
  <1>3. CASE Shutdown
    BY <1>3 DEF Shutdown
  <1>4. ASSUME NEW m \in Messages, Send(m) \/ Dispatch(m)
        PROVE  UNCHANGED Abstract!vars
    BY <1>4 DEF Send, Dispatch
  <1>5. ASSUME NEW e \in Epochs, Put(e)
        PROVE  [Abstract!Next]_(Abstract!vars)
    <2>1. cb[e] \in Messages /\ placed' = placed \cup {cb[e]} /\ acked' = acked
      BY <1>5, SubscriberAssumption DEF Put, SubscriberInv, SubscriberType, Messages
    <2>2. CASE cb[e] \in acked
      BY <2>1, <2>2 DEF SubscriberInv, AckedPlaced
    <2>3. CASE cb[e] \notin acked
      BY <2>1, <2>3 DEF Abstract!Next, Abstract!Deliver
    <2>4. QED
      BY <2>2, <2>3
  <1>6. ASSUME NEW e \in Epochs, Ack(e)
        PROVE  [Abstract!Next]_(Abstract!vars)
    <2>1. cb[e] \in placed /\ placed' = placed /\ acked' = acked \cup {cb[e]}
      BY <1>6, SubscriberAssumption
         DEF Ack, MayAck, SubscriberInv, LockPlaced, Epochs
    <2> DEFINE M == {cb[e]} \ acked
    <2>2. M \in SUBSET Messages /\ M \subseteq (Messages \ acked) \cap placed
      BY <2>1 DEF SubscriberInv, SubscriberType
    <2>3. (Messages \ acked)' = (Messages \ acked) \ M
      BY <2>1 DEF Messages
    <2>4. Abstract!Remove(M)
      BY <2>1, <2>2, <2>3 DEF Abstract!Remove
    <2>5. QED
      BY <2>2, <2>4 DEF Abstract!Next
  <1>7. ASSUME NEW e \in Epochs, PutFails(e) \/ AckLost(e)
        PROVE  UNCHANGED Abstract!vars
    BY <1>7 DEF PutFails, AckLost
  <1>8. CASE UNCHANGED vars
    BY <1>8 DEF vars
  <1>9. QED
    BY <1>1, <1>2, <1>3, <1>4, <1>5, <1>6, <1>7, <1>8 DEF Next, Callback

\* A connector with a streaming subscription implements Delivery: the channel
\* gives a message up only after the message was put to MQ, whatever fails.
THEOREM SubscriberDelivers == Spec => ImplementsDelivery
  <1>1. SubscriberInv /\ [Next]_vars => SubscriberInv'
    BY SubscriberStep
  <1>2. SubscriberInv /\ [Next]_vars => [Abstract!Next]_(Abstract!vars)
    BY DeliveryStep
  <1>3. QED
    BY <1>1, <1>2, SubscriberInit, DeliveryInit, PTL
       DEF Spec, ImplementsDelivery, Abstract!Spec

-----------------------------------------------------------------------------
(* The start position.                                                     *)

\* A subscription begins no later than the configured position, also after
\* restarts.
BaseAtPosition == \A m \in Nat : base > m /\ m > 0 => Excluded(m)

\* A new subscription leaves out only what the configuration excludes.
LEMMA FirstExcludes ==
    ASSUME SubscriberType, NEW m \in Nat, First > m, m > 0, base' = First,
           position' = position
    PROVE  Excluded(m)'
  BY SubscriberAssumption DEF First, Excluded, SubscriberType

\* Only Start moves the position.
LEMMA BaseStep ==
    ASSUME SubscriberInv, BaseAtPosition, [Next]_vars
    PROVE  BaseAtPosition'
  <1>1. position' = position /\ (base' = base \/ base' = First)
    BY DEF Next, vars, config, Callback, ChannelPublish, StanGone, MqGone, Start, Shutdown,
           Send, Dispatch, Put, PutFails, Ack, AckLost
  <1>2. CASE base' = base
    BY <1>1, <1>2 DEF BaseAtPosition, Excluded
  <1>3. CASE base' = First
    BY <1>1, <1>3, FirstExcludes DEF BaseAtPosition, SubscriberInv
  <1>4. QED
    BY <1>1, <1>2, <1>3

\* What was acknowledged is on MQ, and everything else from the position on
\* is owed.
LEMMA NothingBetween ==
    ASSUME SubscriberInv, BaseAtPosition
    PROVE  NoneSkipped
  <1> SUFFICES ASSUME base > 0, NEW m \in 1..last, m \notin Owed, ~Excluded(m)
               PROVE  m \in placed
    BY DEF NoneSkipped
  <1>1. m \in Nat /\ m > 0 /\ base \in Nat
    BY SubscriberAssumption DEF SubscriberInv, SubscriberType
  <1>2. m >= base
    BY <1>1 DEF BaseAtPosition
  <1>3. m \in acked
    BY <1>2 DEF Owed
  <1>4. QED
    BY <1>3 DEF SubscriberInv, AckedPlaced

\* No restart, outage or lost acknowledgement makes a subscription pass over a
\* message from its start position on, whatever that position is.
THEOREM SubscriberSkipsNone == Spec => []NoneSkipped
  <1>1. Init => BaseAtPosition
    BY DEF Init, BaseAtPosition
  <1>2. SubscriberInv /\ [Next]_vars => SubscriberInv'
    BY SubscriberStep
  <1>3. SubscriberInv /\ BaseAtPosition /\ [Next]_vars => BaseAtPosition'
    BY BaseStep
  <1>4. SubscriberInv /\ BaseAtPosition => NoneSkipped
    BY NothingBetween
  <1>5. QED
    BY <1>1, <1>2, <1>3, <1>4, SubscriberInit, PTL DEF Spec

=============================================================================
