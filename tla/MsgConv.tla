------------------------------- MODULE MsgConv -------------------------------
(***************************************************************************)
(* Message conversion and request-reply mapping                            *)
(* (src/nats-mq/core/msgconv.go, RegisterReplyInfo and CreateConnector).   *)
(*                                                                         *)
(* Connectors are created one after the other, each registers where        *)
(* replies go; then messages are converted.  Of a message the model keeps  *)
(* one byte-array field (MsgId stands for CorrelId, AccountingToken and    *)
(* GroupId as well), where replies are to go and one typed property (see   *)
(* Property); its body is never looked at.  All connectors have the same   *)
(* queue manager; a message may name another one, or none.  "" is an       *)
(* absent name.  NATS2Topic and Stan2Topic register under a description    *)
(* (T:topic) that is never looked up and are left out.                     *)
(***************************************************************************)
EXTENDS Property, Sequences, SequencesExt

CONSTANTS Subjects, Channels, Queues,   \* names in the configuration
          MaxConnectors,                \* bound: connectors of the bridge
          IdLength,                     \* MQ_MSG_ID_LENGTH
          Bytes,                        \* what an id is made of
          MQValues,                     \* properties MQ applications set
          ClientValues                  \* properties NATS clients set

ASSUME MsgConvAssumption ==
    /\ IdLength \in Nat \ {0} /\ Bytes \subseteq Nat /\ 0 \in Bytes
    /\ \A v \in MQValues \cup ClientValues : IsGoValue(v)

Ids  == [1..IdLength -> Bytes]
NoId == [i \in 1..IdLength |-> 0]    \* as in a new MQMD

\* The queue manager of the connectors, and another one.
QueueManager == "QM1"
QueueManagers == {QueueManager, "QM2"}

\* The messages MQ applications send: id, reply-to and property are converted
\* apart from each other, so it is enough that each of their values occurs.
Messages ==
    [id : {NoId}, replyQ : Queues \cup {""}, replyQMgr : QueueManagers \cup {""},
     value : {Absent}] \cup
    [id : Ids, replyQ : {""}, replyQMgr : {""}, value : {Absent}] \cup
    [id : {NoId}, replyQ : {""}, replyQMgr : {""}, value : MQValues]

\* The configurations of a connector; a topic's has no Queue.
ToNATS   == [type : {"Queue2NATS"}, subject : Subjects, channel : {""}, queue : Queues,
             excludeHeaders : BOOLEAN]
ToStan   == [type : {"Queue2Stan"}, subject : {""}, channel : Channels, queue : Queues,
             excludeHeaders : BOOLEAN]
FromNATS == [type : {"NATS2Queue"}, subject : Subjects, channel : {""}, queue : Queues,
             excludeHeaders : BOOLEAN]
FromStan == [type : {"Stan2Queue"}, subject : {""}, channel : Channels, queue : Queues,
             excludeHeaders : BOOLEAN]
TopicToNATS == [type : {"Topic2NATS"}, subject : Subjects, channel : {""}, queue : {""},
                excludeHeaders : {FALSE}]
TopicToStan == [type : {"Topic2Stan"}, subject : {""}, channel : Channels, queue : {""},
                excludeHeaders : {FALSE}]
Configs == ToNATS \cup ToStan \cup FromNATS \cup FromStan \cup TopicToNATS \cup TopicToStan

VARIABLES
    connectors,    \* bridge.connectors: their configurations
    replyToInfo,   \* bridge.replyToInfo, a partial function
    wire,          \* the last message that went out, in <<>> or <<message>>
    put            \* the last message that came in, in <<>> or <<message>>

vars == <<connectors, replyToInfo, wire, put>>

Init == connectors = <<>> /\ replyToInfo = <<>> /\ wire = <<>> /\ put = <<>>

-----------------------------------------------------------------------------
(* Registration.                                                           *)

\* Mutant: the description is taken from the names that are set, whatever the
\* direction of the connector.
ReplyKeyAny(c) ==
    IF c.subject # "" THEN <<"S", c.subject>> ELSE <<"Q", <<c.queue, QueueManager>>>>

\* The description a connector is registered under: where it sends to.
ReplyKey(c) ==
    CASE c.type \in {"Queue2NATS", "Topic2NATS"} -> <<"S", c.subject>>
      [] c.type \in {"Queue2Stan", "Topic2Stan"} -> <<"C", c.channel>>
      [] c.type \in {"NATS2Queue", "Stan2Queue"} -> <<"Q", <<c.queue, QueueManager>>>>

CreateConnector(c) ==
    /\ wire = <<>>    \* Start has created them all when the first message comes
    /\ Len(connectors) < MaxConnectors
    /\ connectors' = Append(connectors, c)
    /\ replyToInfo' = [k \in DOMAIN replyToInfo \cup {ReplyKey(c)} |->
                          IF k = ReplyKey(c) THEN c ELSE replyToInfo[k]]
    /\ UNCHANGED <<wire, put>>

\* What is registered under a description; nothing has no names.
None == [type |-> "", subject |-> "", channel |-> "", queue |-> "", excludeHeaders |-> FALSE]
Lookup(k) == IF k \in DOMAIN replyToInfo THEN replyToInfo[k] ELSE None

-----------------------------------------------------------------------------
(* Byte arrays.                                                            *)

\* bytes.Trim of zeros, on both sides.
copyByteArray(id) ==
    LET Set   == {i \in DOMAIN id : id[i] # 0}
        first == CHOOSE i \in Set : \A j \in Set : i <= j
        end   == CHOOSE i \in Set : \A j \in Set : j <= i
    IN  IF Set = {} THEN <<>> ELSE SubSeq(id, first, end)

\* Mutant: the bytes go to the end of the field.
PaddedLeft(data) ==
    [i \in 1..IdLength |-> IF i > IdLength - Len(data)
                           THEN data[i - (IdLength - Len(data))] ELSE 0]

\* Padded with zeros; the default of a new MQMD is all zeros too.
copyByteArrayIfNotEmpty(data) ==
    [i \in 1..IdLength |-> IF i <= Len(data) THEN data[i] ELSE 0]

-----------------------------------------------------------------------------
(* Conversion.                                                             *)

\* The fields of an MQMD in the header of a bridge message, and back; a new
\* MQMD has neither an id nor a reply-to queue.
mapMQMDToHeader(mqmd) ==
    [id |-> copyByteArray(mqmd.id), replyQ |-> mqmd.replyQ, replyQMgr |-> mqmd.replyQMgr]
mapHeaderToMQMD(header) ==
    [id |-> copyByteArrayIfNotEmpty(header.id), replyQ |-> header.replyQ,
     replyQMgr |-> header.replyQMgr]
NoHeader == [id |-> <<>>, replyQ |-> "", replyQMgr |-> ""]
NewMQMD == mapHeaderToMQMD(NoHeader)

\* The property of the handle into the message, and the decoded one into a
\* new handle; a property that cannot be read fails the conversion.
copyMessageProperties(v) == IF v = Absent THEN NoProperty ELSE SetProperty(NoProperty, v)
mapPropertiesToHandle(p) ==
    IF p = NoProperty THEN [ok |-> TRUE, value |-> Absent] ELSE GetTypedProperty(Decoded(p))

\* MQToNATSMessage and the publish of connector c: message m leaves MQ, unless
\* SetProperty refuses its property.  Stan's Publish has no reply.
MQToNATSMessage(c, m) ==
    /\ wire = <<>>    \* bound: one message
    /\ c.type \in {"Queue2NATS", "Queue2Stan", "Topic2NATS", "Topic2Stan"}
    /\ c.excludeHeaders \/ Supported(m.value.go)
    /\ LET to == IF m.replyQ = "" \/ m.replyQMgr = "" THEN None
                 ELSE Lookup(<<"Q", <<m.replyQ, m.replyQMgr>>>>)
           value == IF c.excludeHeaders THEN Absent ELSE m.value
       IN
       wire' = <<[sent |-> m, encoded |-> ~c.excludeHeaders,
                  header |-> mapMQMDToHeader(m), prop |-> copyMessageProperties(value),
                  set |-> value, client |-> "none",
                  replySubject |-> IF c.type \in {"Queue2Stan", "Topic2Stan"} THEN ""
                                   ELSE to.subject,
                  replyChannel |-> IF c.excludeHeaders \/ to.subject # ""
                                   THEN "" ELSE to.channel]>>
    /\ UNCHANGED <<connectors, replyToInfo, put>>

\* A client sends a message of its own: NewBridgeMessage, SetProperty, Encode.
\* A value that is refused leaves it without a property.
ClientCreates(v) ==
    /\ wire = <<>> /\ connectors # <<>>
    /\ wire' = <<[sent |-> [id |-> NewMQMD.id, replyQ |-> "", replyQMgr |-> "",
                           value |-> Absent],
                  encoded |-> TRUE, header |-> NoHeader,
                  prop |-> SetProperty(NoProperty, v),
                  set |-> IF Supported(v.go) THEN v ELSE Absent, client |-> "done",
                  replySubject |-> "", replyChannel |-> ""]>>
    /\ UNCHANGED <<connectors, replyToInfo, put>>

\* A client has decoded the message and will send it on.  Bound: once; what it
\* overwrites does not matter.
ClientHas ==
    /\ wire # <<>> /\ put = <<>>
    /\ wire[1].encoded /\ wire[1].client = "none" /\ wire[1].set \in {Absent, Nil}

\* DecodeBridgeMessage, SetProperty, Encode.  Without a property the decoded
\* map is nil and SetProperty panics, unless it refuses the value.
ClientSetProperty(v) ==
    /\ ClientHas
    /\ wire' = IF wire[1].prop = NoProperty /\ Supported(v.go)
               THEN <<[wire[1] EXCEPT !.client = "panicked"]>>
               ELSE <<[wire[1] EXCEPT !.client = "done", !.prop = SetProperty(@, v),
                                      !.set = IF Supported(v.go) THEN v ELSE @]>>
    /\ UNCHANGED <<connectors, replyToInfo, put>>

\* DecodeBridgeMessage, DeleteProperty, Encode.
ClientDeleteProperty ==
    /\ ClientHas
    /\ wire' = <<[wire[1] EXCEPT !.client = "done", !.prop = NoProperty, !.set = Absent]>>
    /\ UNCHANGED <<connectors, replyToInfo, put>>

\* Mutant: the channel of the header is looked up among the subjects.
ReplyQueueOfSubject(replyTo, channel) ==
    LET named == IF replyTo = "" THEN None ELSE Lookup(<<"S", replyTo>>)
        byChannel == IF channel = "" THEN None ELSE Lookup(<<"S", channel>>)
    IN  IF byChannel.queue # "" THEN byChannel.queue ELSE named.queue

\* The queue for replies to a NATS reply subject or, stronger, a channel of
\* the header.
ReplyQueue(replyTo, channel) ==
    LET named == IF replyTo = "" THEN None
                 ELSE IF <<"S", replyTo>> \in DOMAIN replyToInfo
                      THEN Lookup(<<"S", replyTo>>)
                      ELSE Lookup(<<"C", replyTo>>)
        byChannel == IF channel = "" THEN None ELSE Lookup(<<"C", channel>>)
    IN  IF byChannel.queue # "" THEN byChannel.queue ELSE named.queue

\* NATSToMQMessage for connector c: the message that went out last comes in
\* again, as its receiver forwards it, with a reply subject of its own and
\* perhaps another channel in its header.  Stan's messages have no reply.
NATSToMQMessage(c, replyTo, channel) ==
    /\ put = <<>>    \* bound: one message
    /\ c.type \in {"NATS2Queue", "Stan2Queue"}
    /\ c.type = "Stan2Queue" => replyTo = ""
    /\ wire # <<>> /\ wire[1].client # "panicked"
    /\ \/ c.excludeHeaders /\ channel = ""
       \/ /\ ~c.excludeHeaders /\ wire[1].encoded    \* anything else fails to decode
          /\ mapPropertiesToHandle(wire[1].prop).ok
    /\ LET mapped == ReplyQueue(replyTo, channel)
           mqmd   == IF c.excludeHeaders THEN NewMQMD
                     ELSE mapHeaderToMQMD(wire[1].header)
       IN  put' = <<[replyTo |-> replyTo, channel |-> channel,
                     relayed |-> ~c.excludeHeaders, mapped |-> mapped, id |-> mqmd.id,
                     replyQ |-> IF mapped # "" THEN mapped ELSE mqmd.replyQ,
                     replyQMgr |-> IF mapped # "" THEN QueueManager ELSE mqmd.replyQMgr,
                     value |-> IF c.excludeHeaders THEN Absent
                               ELSE mapPropertiesToHandle(wire[1].prop).value]>>
    /\ UNCHANGED <<connectors, replyToInfo, wire>>

Next ==
    \/ \E c \in Configs : CreateConnector(c)
    \/ \E c \in ToSet(connectors), m \in Messages : MQToNATSMessage(c, m)
    \/ \E c \in ToSet(connectors), s \in Subjects \cup {""}, h \in Channels \cup {""} :
           NATSToMQMessage(c, s, h)
    \/ \E v \in ClientValues : ClientCreates(v) \/ ClientSetProperty(v)
    \/ ClientDeleteProperty

Spec == Init /\ [][Next]_vars

-----------------------------------------------------------------------------
(* Properties.                                                             *)

Has(Test(_)) == \E i \in DOMAIN connectors : Test(connectors[i])

\* A reply subject or channel the bridge gives out leads back: a message sent
\* there is put to the queue the MQ application waits on.
ReplyLeadsBack ==
    wire # <<>> =>
        LET w == wire[1] IN
        /\ w.replySubject # "" =>
             Has(LAMBDA c : c.type = "NATS2Queue" /\ c.subject = w.replySubject
                                /\ c.queue = w.sent.replyQ)
        /\ w.replyChannel # "" =>
             Has(LAMBDA c : c.type = "Stan2Queue" /\ c.channel = w.replyChannel
                                /\ c.queue = w.sent.replyQ)

\* A reply queue the bridge gives to an MQ application is read by a connector
\* that sends to the subject or channel the requester named.
AnswerIsForwarded ==
    put # <<>> /\ put[1].mapped # "" =>
        LET p == put[1] IN
        Has(LAMBDA c : /\ c.type \in {"Queue2NATS", "Queue2Stan"} /\ c.queue = p.mapped
                       /\ \/ c.subject \in {p.replyTo} \ {""}
                          \/ c.channel \in {p.replyTo, p.channel} \ {""})

\* A message that passes the bridge twice with its header keeps its id, if
\* that does not begin with a zero byte, and its reply-to queue and queue
\* manager, if the bridge knows no other ones for the replies.
HeaderSurvives ==
    put # <<>> /\ put[1].relayed =>
        /\ wire[1].sent.id[1] # 0 => put[1].id = wire[1].sent.id
        /\ put[1].mapped = "" => /\ put[1].replyQ = wire[1].sent.replyQ
                                 /\ put[1].replyQMgr = wire[1].sent.replyQMgr

\* What the comments of SetProperty promise: unsigned integers and int become
\* int64, a byte an int8, by Go's conversion, which takes an unsigned number
\* that is too large for a negative one; everything else stays what it is.
Converted(t, n) == [go |-> t, n |-> IF n < Half[t] THEN n ELSE n - 2 * Half[t]]
Promised(v) ==
    CASE v.go = "byte" -> Converted("int8", v.n)
      [] v.go \in {"uint16", "uint32", "uint64", "int"} -> Converted("int64", v.n)
      [] OTHER -> v

\* A message that reaches MQ with its header has the property that was last set
\* on it without an error, by an MQ application or by a NATS client that made
\* or changed the message, of the promised type and value: the codec widens
\* every number, and the stored type is what narrows it again.
PropertiesSurvive ==
    put # <<>> /\ put[1].relayed => put[1].value = Promised(wire[1].set)

=============================================================================
