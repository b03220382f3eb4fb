--------------------------- MODULE ConnectorTypes ---------------------------
(***************************************************************************)
(* The eight connector types of the bridge (src/nats-mq/core/*2*.go).      *)
(*                                                                         *)
(* The Start, Shutdown and CheckConnections methods of the eight types are *)
(* the same program over different resources, so a type is described here  *)
(* by what its three methods do and in which order:                        *)
(*                                                                         *)
(*   requires   the connection Start and CheckConnections insist on        *)
(*              (CheckNATS or CheckStan);                                  *)
(*   start      the resources Start acquires, in order; a failure returns  *)
(*              at once and releases nothing;                              *)
(*   shutdown   the resources Shutdown releases, in order;                 *)
(*   onlyIf     the resource without which Shutdown returns early ("none"  *)
(*              when there is no such early return);                       *)
(*   durables   whether a configured DurableName makes Shutdown keep the   *)
(*              subscription.                                              *)
(*                                                                         *)
(* A "mqSub" comes with its "topic" in the single MQSUB call of            *)
(* subscribeToTopic.                                                       *)
(***************************************************************************)
EXTENDS Sequences, Functions

\* MQ queue -> NATS subject.
Queue2NATS == [requires |-> "nats",
               start    |-> <<"qMgr", "queue", "listener">>,
               shutdown |-> <<"listener", "queue", "qMgr">>,
               onlyIf   |-> "none", durables |-> FALSE]

\* MQ queue -> streaming channel.
Queue2Stan == [requires |-> "stan",
               start    |-> <<"qMgr", "queue", "listener">>,
               shutdown |-> <<"listener", "queue", "qMgr">>,
               onlyIf   |-> "none", durables |-> FALSE]

\* MQ topic -> NATS subject.
Topic2NATS == [requires |-> "nats",
               start    |-> <<"qMgr", "mqSub", "listener">>,
               shutdown |-> <<"listener", "mqSub", "qMgr">>,
               onlyIf   |-> "mqSub", durables |-> FALSE]

\* MQ topic -> streaming channel.
Topic2Stan == [requires |-> "stan",
               start    |-> <<"qMgr", "mqSub", "listener">>,
               shutdown |-> <<"listener", "mqSub", "qMgr">>,
               onlyIf   |-> "mqSub", durables |-> FALSE]

\* NATS subject -> MQ queue.
NATS2Queue == [requires |-> "nats",
               start    |-> <<"qMgr", "queue", "natsSub">>,
               shutdown |-> <<"natsSub", "queue", "qMgr">>,
               onlyIf   |-> "none", durables |-> FALSE]

\* NATS subject -> MQ topic.
NATS2Topic == [requires |-> "nats",
               start    |-> <<"qMgr", "topic", "natsSub">>,
               shutdown |-> <<"natsSub", "topic", "qMgr">>,
               onlyIf   |-> "none", durables |-> FALSE]

\* Streaming channel -> MQ queue.
Stan2Queue == [requires |-> "stan",
               start    |-> <<"qMgr", "queue", "stanSub">>,
               shutdown |-> <<"stanSub", "queue", "qMgr">>,
               onlyIf   |-> "none", durables |-> TRUE]

\* Streaming channel -> MQ topic.
Stan2Topic == [requires |-> "stan",
               start    |-> <<"qMgr", "topic", "stanSub">>,
               shutdown |-> <<"stanSub", "topic", "qMgr">>,
               onlyIf   |-> "none", durables |-> TRUE]

\* The types CreateConnector can build; any other type string is an error.
ConnectorType == {Queue2NATS, Queue2Stan, Topic2NATS, Topic2Stan,
                  NATS2Queue, NATS2Topic, Stan2Queue, Stan2Topic}

-----------------------------------------------------------------------------
NeedsStan(t)      == t.requires = "stan"
ReadsMQ(t)        == "listener" \in Range(t.start)
SubscribesStan(t) == "stanSub" \in Range(t.start)

=============================================================================
