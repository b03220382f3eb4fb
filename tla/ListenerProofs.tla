--------------------------- MODULE ListenerProofs ---------------------------
(***************************************************************************)
(* A listener that uses callbacks implements Delivery, for every set of    *)
(* messages and any number of starts, shutdowns, failures and broken       *)
(* connections.                                                            *)
(***************************************************************************)
EXTENDS Listener, TLAPS

ReaderState == {"none", "idle", "got", "published", "failed", "ended"}

\* The reader has a message and has not returned from its callback.
Busy(e) == reader[e] \in {"got", "published", "failed"}

\* The types the argument needs.
ListenerType ==
    /\ arrived \subseteq Messages
    /\ queue \subseteq arrived
    /\ published \subseteq arrived
    /\ uow \in [Epochs -> SUBSET arrived]
    /\ hand \in [Epochs -> SUBSET arrived]
    /\ reader \in [Epochs -> ReaderState]
    /\ starts \in 0..MaxStarts /\ qMgr \in 0..MaxStarts

\* Only the reader of the current connection can be in its callback:
\* MQOP_STOP has waited for the others.
OnlyCurrentBusy == \A e \in Epochs : Busy(e) => qMgr = e

\* The only connection that can work is the current one, and Shutdown has one.
OnlyCurrentAlive == alive \subseteq {qMgr} \ {0} /\ (lock = "shutdown" => qMgr # 0)

\* A unit of work holds no more than the message in the hand of its reader.
UowInHand == \A e \in Epochs : uow[e] \subseteq hand[e] /\ (~Busy(e) => uow[e] = {})

\* MQ still has a message that is being published: it is in the unit of work,
\* or a broken connection has put it back on the queue.
HandAtSource ==
    \A e \in Epochs : reader[e] = "got" =>
        \E m \in Messages : hand[e] = {m} /\ m \in queue \cup uow[e]

\* Past the publish, what is in the reader's hand has been published.
HandPublished == \A e \in Epochs : reader[e] = "published" => hand[e] \subseteq published

ListenerInv ==
    /\ ListenerType /\ OnlyCurrentAlive /\ OnlyCurrentBusy
    /\ UowInHand /\ HandAtSource /\ HandPublished

-----------------------------------------------------------------------------

\* The invariant holds initially.
LEMMA ListenerInit == Init => ListenerInv
  BY ListenerAssumption
     DEF Init, ListenerInv, ListenerType, OnlyCurrentAlive, OnlyCurrentBusy, UowInHand,
         HandAtSource, HandPublished, Busy, ReaderState, Epochs

\* Every step of a listener with callbacks keeps the invariant.
LEMMA ListenerStep ==
    ASSUME ~Polling, ListenerInv, [Next]_vars
    PROVE  ListenerInv'
  <1> USE ListenerAssumption
          DEF ListenerInv, ListenerType, OnlyCurrentAlive, OnlyCurrentBusy, UowInHand,
              HandAtSource, HandPublished, Busy, ReaderState, Epochs
  <1>1. CASE Start
    BY <1>1 DEF Start
  <1>2. CASE ShutdownLocks
    BY <1>2 DEF ShutdownLocks
  <1>3. CASE ShutdownEnds
    <2>1. qMgr \in Epochs /\ ~Busy(qMgr)
      BY <1>3 DEF ShutdownEnds, StopReturns
    <2>2. /\ uow[qMgr] = {} /\ queue' = queue /\ uow' = uow
          /\ UNCHANGED <<arrived, published, starts, reader, hand>>
      BY <1>3, <2>1 DEF ShutdownEnds, BackOut
    <2>3. qMgr' = 0 /\ lock' = "free" /\ alive' = alive \ {qMgr}
      BY <1>3 DEF ShutdownEnds
    <2>4. QED
      BY <2>1, <2>2, <2>3
  <1>4. ASSUME NEW e \in Epochs, Break(e)
        PROVE  ListenerInv'
    BY <1>4 DEF Break, BackOut
  <1>5. ASSUME NEW e \in Epochs, NEW m \in Messages, Get(e, m)
        PROVE  ListenerInv'
    BY <1>5 DEF Get
  <1>6. ASSUME NEW e \in Epochs, Publish(e)
        PROVE  ListenerInv'
    BY <1>6 DEF Publish
  <1>7. ASSUME NEW e \in Epochs, PublishFails(e)
        PROVE  ListenerInv'
    BY <1>7 DEF PublishFails
  <1>8. ASSUME NEW e \in Epochs, Commit(e)
        PROVE  ListenerInv'
    <2>1. qMgr = e /\ e # 0 /\ reader[e] = "published"
      BY <1>8 DEF Commit, Commits
    <2>2. /\ uow' = [uow EXCEPT ![e] = {}] /\ hand' = [hand EXCEPT ![e] = {}]
          /\ reader' = [reader EXCEPT ![e] = "idle"] /\ lock' = "free"
          /\ UNCHANGED <<arrived, queue, published, qMgr, starts, alive>>
      BY <1>8, <2>1 DEF Commit, CallbackReturns
    <2>3. QED
      BY <2>1, <2>2
  <1>9. ASSUME NEW e \in Epochs, Back(e)
         PROVE  ListenerInv'
    <2>1. qMgr = e /\ e # 0 /\ reader[e] = "failed"
      BY <1>9 DEF Back
    <2>2. /\ queue' = queue \cup uow[e]
          /\ uow' = [uow EXCEPT ![e] = {}] /\ hand' = [hand EXCEPT ![e] = {}]
          /\ reader' = [reader EXCEPT ![e] = "idle"] /\ lock' = "free"
          /\ UNCHANGED <<arrived, published, qMgr, starts, alive>>
      BY <1>9, <2>1 DEF Back, BackOut, CallbackReturns
    <2>3. QED
      BY <2>1, <2>2
  <1>10. ASSUME NEW e \in Epochs, Ends(e)
         PROVE  ListenerInv'
    BY <1>10 DEF Ends
  <1>11. ASSUME NEW m \in Messages, Arrive(m)
         PROVE  ListenerInv'
    BY <1>11 DEF Arrive
  <1>12. CASE UNCHANGED vars
    BY <1>12 DEF vars
  <1>13. QED
    BY <1>1, <1>2, <1>3, <1>4, <1>5, <1>6, <1>7, <1>8, <1>9, <1>10, <1>11, <1>12
       DEF Next, ReaderStep

-----------------------------------------------------------------------------
(* The refinement.                                                         *)

\* What MQ has, when a unit of work goes back to the queue, is what it had.
LEMMA BackOutKeepsSource ==
    ASSUME NEW e \in Epochs, ListenerType, BackOut(e)
    PROVE  Source' = Source
  <1> USE DEF BackOut, ListenerType, Source
  <1>1. ASSUME NEW x \in Source'
        PROVE  x \in Source
    BY <1>1
  <1>2. ASSUME NEW x \in Source
        PROVE  x \in Source'
    BY <1>2
  <1>3. QED
    BY <1>1, <1>2

\* A callback-driven listener starts where Delivery starts.
LEMMA DeliveryInit == Init => Abstract!Init
  BY DEF Init, Abstract!Init, Source, Epochs

\* Every step of a listener with callbacks is a step of Delivery or leaves
\* what MQ has and what was published as they are.
LEMMA DeliveryStep ==
    ASSUME ~Polling, ListenerInv, [Next]_vars
    PROVE  [Abstract!Next]_(Abstract!vars)
  <1> USE DEF Abstract!vars
  <1>1. CASE Start
    BY <1>1 DEF Start, Source
  <1>2. CASE ShutdownLocks
    BY <1>2 DEF ShutdownLocks, Source
  <1>3. CASE ShutdownEnds
    <2>1. qMgr \in Epochs /\ BackOut(qMgr) /\ published' = published
      BY <1>3, ListenerAssumption
         DEF ShutdownEnds, ListenerInv, ListenerType, OnlyCurrentAlive, Epochs
    <2>2. QED
      BY <2>1, BackOutKeepsSource DEF ListenerInv
  <1>4. ASSUME NEW e \in Epochs, Break(e)
        PROVE  UNCHANGED Abstract!vars
    BY <1>4, BackOutKeepsSource DEF Break, ListenerInv
  <1>5. ASSUME NEW e \in Epochs, NEW m \in Messages, Get(e, m)
        PROVE  UNCHANGED Abstract!vars
    <2> USE DEF Get, ListenerInv, ListenerType, Source
    <2>1. ASSUME NEW x \in Source'
          PROVE  x \in Source
      BY <1>5, <2>1
    <2>2. ASSUME NEW x \in Source
          PROVE  x \in Source'
      BY <1>5, <2>2
    <2>3. QED
      BY <1>5, <2>1, <2>2
  <1>6. ASSUME NEW e \in Epochs, Publish(e)
        PROVE  Abstract!Next
    <2>1. PICK m \in Messages : hand[e] = {m} /\ m \in queue \cup uow[e]
      BY <1>6 DEF Publish, ListenerInv, HandAtSource
    <2>2. m \in Source
      BY <2>1 DEF Source
    <2>3. published' = published \cup {m} /\ Source' = Source
      BY <1>6, <2>1 DEF Publish, Source
    <2>4. QED
      BY <2>2, <2>3 DEF Abstract!Next, Abstract!Deliver
  <1>7. ASSUME NEW e \in Epochs, PublishFails(e)
        PROVE  UNCHANGED Abstract!vars
    BY <1>7 DEF PublishFails, Source
  <1>8. ASSUME NEW e \in Epochs, Commit(e)
        PROVE  Abstract!Next
    <2>1. qMgr = e /\ uow[e] \subseteq hand[e] /\ hand[e] \subseteq published
      BY <1>8 DEF Commit, Commits, ListenerInv, OnlyCurrentBusy, UowInHand,
                  HandPublished, Busy
    <2>2. uow' = [uow EXCEPT ![e] = {}] /\ queue' = queue /\ published' = published
      BY <1>8, <2>1 DEF Commit, CallbackReturns, Epochs
    <2> DEFINE M == Source \ Source'
    <2>3. Source' \subseteq Source
      BY <2>2 DEF Source, ListenerInv, ListenerType
    <2>4. M \subseteq uow[e]
      BY <2>2 DEF Source, ListenerInv, ListenerType
    <2>5. M \in SUBSET Messages /\ M \subseteq Source \cap published
      BY <2>1, <2>4 DEF ListenerInv, ListenerType
    <2>6. Source' = Source \ M
      BY <2>3
    <2>7. Abstract!Remove(M)
      BY <2>2, <2>5, <2>6 DEF Abstract!Remove
    <2>8. QED
      BY <2>5, <2>7 DEF Abstract!Next
  <1>9. ASSUME NEW e \in Epochs, Back(e)
         PROVE  UNCHANGED Abstract!vars
    <2>1. qMgr = e
      BY <1>9 DEF Back, ListenerInv, OnlyCurrentBusy, Busy
    <2>2. QED
      BY <1>9, <2>1, BackOutKeepsSource DEF Back, CallbackReturns, ListenerInv, Epochs
  <1>10. ASSUME NEW e \in Epochs, Ends(e)
         PROVE  UNCHANGED Abstract!vars
    BY <1>10 DEF Ends, Source
  <1>11. ASSUME NEW m \in Messages, Arrive(m)
         PROVE  Abstract!Next
    <2>1. Source' = Source \cup {m} /\ published' = published
      BY <1>11 DEF Arrive, Source
    <2>2. Abstract!Offer({m})
      BY <2>1 DEF Abstract!Offer
    <2>3. QED
      BY <2>2 DEF Abstract!Next
  <1>12. CASE UNCHANGED vars
    BY <1>12 DEF vars, Source
  <1>13. QED
    BY <1>1, <1>2, <1>3, <1>4, <1>5, <1>6, <1>7, <1>8, <1>9, <1>10, <1>11, <1>12
       DEF Next, ReaderStep

\* The callback always ends the unit of work of the connection its message
\* came from (createMQCallback uses mq.qMgr, which Shutdown may replace).
THEOREM OwnUnitOfWork == ~Polling /\ Spec => []EndsOwnUnitOfWork
  <1>1. ListenerInv => EndsOwnUnitOfWork
    BY DEF ListenerInv, OnlyCurrentBusy, EndsOwnUnitOfWork, Busy
  <1>2. CASE ~Polling
    <2>1. ListenerInv /\ [Next]_vars => ListenerInv'
      BY <1>2, ListenerStep
    <2>2. QED
      BY <1>1, <2>1, ListenerInit, PTL DEF Spec
  <1>3. QED
    BY <1>2

\* A listener with callbacks implements Delivery: through failed publishes,
\* broken connections and restarts, MQ gives a message up only after it was
\* published.
THEOREM CallbackDelivers == ~Polling /\ Spec => ImplementsDelivery
  <1>1. CASE ~Polling
    <2>1. ListenerInv /\ [Next]_vars => ListenerInv'
      BY <1>1, ListenerStep
    <2>2. ListenerInv /\ [Next]_vars => [Abstract!Next]_(Abstract!vars)
      BY <1>1, DeliveryStep
    <2>3. QED
      BY <2>1, <2>2, ListenerInit, DeliveryInit, PTL
         DEF Spec, ImplementsDelivery, Abstract!Spec
  <1>2. QED
    BY <1>1

-----------------------------------------------------------------------------
(* The order of publication.                                               *)

\* All that is older than the message a reader is about to publish has been
\* published.
OlderPublished ==
    \A e \in Epochs : reader[e] = "got" =>
        \A m \in hand[e], k \in arrived : k < m => k \in published

OrderInv == NoMessageLost /\ OlderPublished /\ PublishedInOrder

\* The history of arrivals grows by Arrive only.
LEMMA OnlyArriveAdds ==
    ASSUME [Next]_vars
    PROVE  arrived' = arrived \/ \E m \in Messages : Arrive(m)
  BY DEF Next, vars, ReaderStep, Start, ShutdownLocks, ShutdownEnds, Break, Get, Publish,
         PublishFails, Commit, Back, Ends

\* No message leaves MQ unpublished, in any step.
LEMMA NoneLostStep ==
    ASSUME ~Polling, ListenerInv, NoMessageLost, [Next]_vars
    PROVE  NoMessageLost'
  <1>1. ASSUME NEW m \in Messages, Arrive(m)
        PROVE  NoMessageLost'
    BY <1>1 DEF Arrive, NoMessageLost, Source
  <1>2. CASE arrived' = arrived
    <2>1. [Abstract!Next]_(Abstract!vars)
      BY DeliveryStep
    <2>2. QED
      BY <1>2, <2>1 DEF NoMessageLost, Abstract!Next, Abstract!vars, Abstract!Deliver,
                        Abstract!Remove, Abstract!Offer
  <1>3. QED
    BY <1>1, <1>2, OnlyArriveAdds

\* A message that a reader gets is the oldest that is not published.
LEMMA OldestIsGot ==
    ASSUME ListenerInv, NoMessageLost, NEW e \in Epochs, NEW m \in Messages, Get(e, m),
           NEW k \in arrived, k < m
    PROVE  k \in published
  <1>1. k \notin queue
    BY ListenerAssumption DEF Get, ListenerInv, ListenerType
  <1>2. ASSUME NEW f \in Epochs, k \in uow[f]
        PROVE  FALSE
    <2>1. Busy(f) /\ qMgr = f
      BY <1>2 DEF ListenerInv, UowInHand, OnlyCurrentBusy
    <2>2. qMgr = e /\ ~Busy(e)
      BY DEF Get, ListenerInv, OnlyCurrentAlive, Busy
    <2>3. QED
      BY <2>1, <2>2
  <1>3. QED
    BY <1>1, <1>2 DEF NoMessageLost, Source

\* Every step of a listener with callbacks keeps the order of publication.
LEMMA OrderStep ==
    ASSUME ~Polling, ListenerInv, OrderInv, [Next]_vars
    PROVE  OrderInv'
  <1> USE ListenerAssumption
          DEF ListenerInv, ListenerType, OrderInv, OlderPublished, PublishedInOrder,
              ReaderState, Epochs
  <1>1. NoMessageLost'
    BY NoneLostStep
  <1>2. ASSUME NEW m \in Messages, Arrive(m)
        PROVE  (OlderPublished /\ PublishedInOrder)'
    BY <1>2 DEF Arrive
  <1>3. ASSUME NEW e \in Epochs, NEW m \in Messages, Get(e, m)
        PROVE  (OlderPublished /\ PublishedInOrder)'
    <2>1. \A k \in arrived : k < m => k \in published
      BY <1>3, OldestIsGot
    <2>2. QED
      BY <1>3, <2>1 DEF Get
  <1>4. ASSUME NEW e \in Epochs, Publish(e)
        PROVE  (OlderPublished /\ PublishedInOrder)'
    BY <1>4 DEF Publish
  <1>5. ASSUME NEW e \in Epochs, PublishFails(e)
        PROVE  (OlderPublished /\ PublishedInOrder)'
    BY <1>5 DEF PublishFails
  <1>6. ASSUME NEW e \in Epochs, Commit(e) \/ Back(e)
        PROVE  (OlderPublished /\ PublishedInOrder)'
    BY <1>6 DEF Commit, Back, CallbackReturns
  <1>7. ASSUME NEW e \in Epochs, Break(e) \/ Ends(e)
        PROVE  (OlderPublished /\ PublishedInOrder)'
    BY <1>7 DEF Break, Ends
  <1>8. CASE Start \/ ShutdownLocks \/ ShutdownEnds
    BY <1>1, <1>8 DEF Start, ShutdownLocks, ShutdownEnds
  <1>9. CASE UNCHANGED vars
    BY <1>1, <1>9 DEF vars
  <1>10. QED
    BY <1>1, <1>2, <1>3, <1>4, <1>5, <1>6, <1>7, <1>8, <1>9 DEF Next, ReaderStep

\* With callbacks no message leaves MQ unpublished, and none is published before
\* an older one was.
LEMMA OrderKept == ~Polling /\ Spec => []OrderInv
  <1>1. Init => OrderInv
    BY DEF Init, OrderInv, NoMessageLost, OlderPublished, PublishedInOrder
  <1>2. CASE ~Polling
    <2>1. ListenerInv /\ [Next]_vars => ListenerInv'
      BY <1>2, ListenerStep
    <2>2. ListenerInv /\ OrderInv /\ [Next]_vars => OrderInv'
      BY <1>2, OrderStep
    <2>3. QED
      BY <1>1, <2>1, <2>2, ListenerInit, PTL DEF Spec
  <1>3. QED
    BY <1>2

\* No message leaves MQ unpublished with callbacks; for pollers the run
\* poller_loss shows the opposite.
THEOREM CallbackLosesNothing == ~Polling /\ Spec => []NoMessageLost
  <1>1. OrderInv => NoMessageLost
    BY DEF OrderInv
  <1>2. QED
    BY <1>1, OrderKept, PTL

\* With callbacks the messages of a queue are first published in the order they
\* came to it, through failed publishes, broken connections and restarts.
THEOREM CallbackKeepsOrder == ~Polling /\ Spec => []PublishedInOrder
  <1>1. OrderInv => PublishedInOrder
    BY DEF OrderInv
  <1>2. QED
    BY <1>1, OrderKept, PTL

=============================================================================
