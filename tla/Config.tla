------------------------------- MODULE Config -------------------------------
(***************************************************************************)
(* The configuration and how it is read: the structs of                    *)
(* src/nats-mq/conf/conf.go, their defaults, and parse.go, which fills a   *)
(* struct from what the file's parser returns.                             *)
(*                                                                         *)
(* A parsed value is <<kind, value>>.  A section of the file is a function *)
(* from keys to values; a key is a field's name and how it is spelled:     *)
(* "exact", "lower" for all lower case, "other" for anything else.  A text *)
(* is a model string; Atoi gives the numbers among them.  Only what        *)
(* BridgeConfig uses of parse.go is here: no floats, maps or host-ports,   *)
(* and never strict.                                                       *)
(***************************************************************************)
EXTENDS Integers, Sequences, SequencesExt, TLC

-----------------------------------------------------------------------------
(* The structs: sequences of fields, in their order.                       *)

BoolT       == <<"bool">>
IntT        == <<"int">>
StringT     == <<"string">>
StringsT    == <<"strings">>
StructT(F)  == <<"struct", F>>
StructsT(F) == <<"structs", F>>

Each(type, names) == [i \in DOMAIN names |-> [name |-> names[i], type |-> type]]

LoggingConfig == Each(BoolT, <<"Time", "Debug", "Trace", "Colors", "PID">>)

TLSConf == Each(StringT, <<"Key", "Cert", "Root">>)

MonitoringConfig ==
    Each(StringT, <<"HTTPHost">>) \o Each(IntT, <<"HTTPPort", "HTTPSPort">>)
        \o Each(StructT(TLSConf), <<"TLS">>)

MQConfig ==
    Each(StringT, <<"ConnectionName", "ChannelName", "QueueManager", "UserName",
                    "Password", "KeyRepository", "CertificateLabel", "SSLPeerName">>)

NATSConfig ==
    Each(StringsT, <<"Servers">>)
        \o Each(IntT, <<"ConnectTimeout", "ReconnectWait", "MaxReconnects">>)
        \o Each(StructT(TLSConf), <<"TLS">>)
        \o Each(StringT, <<"Username", "Password", "CredsFile">>)

NATSStreamingConfig ==
    Each(StringT, <<"ClusterID", "ClientID">>) \o Each(IntT, <<"PubAckWait">>)
        \o Each(StringT, <<"DiscoverPrefix">>)
        \o Each(IntT, <<"MaxPubAcksInflight", "ConnectWait">>)

ConnectorConfig ==
    Each(StringT, <<"ID", "Type", "Channel", "DurableName">>)
        \o Each(IntT, <<"StartAtSequence", "StartAtTime">>)
        \o Each(StringT, <<"Subject", "NatsQueue">>)
        \o Each(StructT(MQConfig), <<"MQ">>) \o Each(StringT, <<"Topic", "Queue">>)
        \o Each(BoolT, <<"UsePolling">>)
        \o Each(IntT, <<"IncomingBufferSize", "IncomingMessageWait">>)
        \o Each(BoolT, <<"ExcludeHeaders">>)

BridgeConfig ==
    Each(IntT, <<"ReconnectInterval">>)
        \o Each(StructT(NATSConfig), <<"NATS">>)
        \o Each(StructT(NATSStreamingConfig), <<"STAN">>)
        \o Each(StructT(LoggingConfig), <<"Logging">>)
        \o Each(StructT(MonitoringConfig), <<"Monitoring">>)
        \o Each(StructsT(ConnectorConfig), <<"Connect">>)

Names(F)    == {F[i].name : i \in DOMAIN F}
Field(F, n) == F[CHOOSE i \in DOMAIN F : F[i].name = n]
Type(F, n)  == Field(F, n).type

Structs ==
    {LoggingConfig, TLSConf, MonitoringConfig, MQConfig, NATSConfig, NATSStreamingConfig,
     ConnectorConfig, BridgeConfig}

\* The zero value of each struct.
Zero[F \in Structs] ==
    [n \in Names(F) |->
        LET type == Type(F, n) IN
        CASE type = BoolT       -> FALSE
          [] type = IntT        -> 0
          [] type = StringT     -> ""
          [] type[1] = "struct" -> Zero[type[2]]
          [] OTHER              -> <<>>]

EmptyConfig == Zero[BridgeConfig]

DefaultBridgeConfig ==
    [EmptyConfig EXCEPT
        !.ReconnectInterval = 5000,
        !.Logging.Colors = TRUE, !.Logging.Time = TRUE,
        !.STAN.PubAckWait = 5000, !.STAN.ConnectWait = 2000,
        !.STAN.DiscoverPrefix = "_STAN.discover", !.STAN.MaxPubAcksInflight = 16384]

-----------------------------------------------------------------------------
(* parse.go                                                                *)

Atoi  == ("0" :> 0) @@ ("7" :> 7) @@ ("-1" :> -1)
Trues == {"true", "True", "TRUE"}    \* what strings.ToLower makes "true" of

Ok(x)      == [ok |-> TRUE, val |-> x]
Fail(old)  == [ok |-> FALSE, val |-> old]
Nil        == <<"nil">>

parseBoolean(v, old) ==
    CASE v[1] = "bool"   -> Ok(v[2])
      [] v[1] = "string" -> Ok(v[2] \in Trues)
      [] OTHER           -> Fail(old)

parseInt(v, old) ==
    CASE v[1] = "int"                                 -> Ok(v[2])
      [] v[1] = "string" /\ v[2] \in DOMAIN Atoi      -> Ok(Atoi[v[2]])
      [] OTHER                                        -> Fail(old)

parseString(v, old) == IF v[1] = "string" THEN Ok(v[2]) ELSE Fail(old)

\* An array, or a single value that stands for an array of one.
Elements(v) == IF v[1] = "array" THEN v[2] ELSE <<v>>

\* reflect's Convert to string: an integer becomes the character of that code.
AsText(v) == IF v[1] = "int" THEN <<"rune", v[2]>> ELSE <<"text", v[2]>>

parsePrimitiveArray(v, old) ==
    IF \A i \in DOMAIN Elements(v) : Elements(v)[i][1] \in {"string", "int"}
    THEN Ok([i \in DOMAIN Elements(v) |-> AsText(Elements(v)[i])])
    ELSE Fail(old)

\* The field's name as it is, or in lower case; no other spelling.
get(data, n) ==
    IF <<n, "exact">> \in DOMAIN data THEN data[<<n, "exact">>]
    ELSE IF <<n, "lower">> \in DOMAIN data THEN data[<<n, "lower">>] ELSE Nil

\* A list of structs, from what its elements became: all of them or an error.
parseStructs(parsed, old) ==
    IF \A i \in DOMAIN parsed : parsed[i].ok
    THEN Ok([i \in DOMAIN parsed |-> parsed[i].val])
    ELSE Fail(old)

Primitives == {BoolT, IntT, StringT, StringsT}

parsePrimitive(type, v, old) ==
    CASE type = BoolT    -> parseBoolean(v, old)
      [] type = IntT     -> parseInt(v, old)
      [] type = StringT  -> parseString(v, old)
      [] type = StringsT -> parsePrimitiveArray(v, old)

\* The switch of parseStruct.  ParseStruct is the call it makes for a struct in
\* the struct.  A struct of a list starts from its zero value: there are no
\* defaults for it.
parseField(type, v, old, ParseStruct(_, _, _)) ==
    IF type \in Primitives THEN parsePrimitive(type, v, old)
    ELSE IF type[1] = "structs"
         THEN parseStructs([i \in DOMAIN Elements(v) |->
                               IF Elements(v)[i][1] = "map"
                               THEN ParseStruct(type[2], Elements(v)[i][2], Zero[type[2]])
                               ELSE Fail(<<>>)], old)
         ELSE IF v[1] = "map" THEN ParseStruct(type[2], v[2], old) ELSE Fail(old)

\* The loop of parseStruct returns at the first field that is refused, with
\* what it has set so far left in the struct.
Loop(F, config, parsed) ==
    LET refused == {i \in DOMAIN F : ~parsed[F[i].name].ok}
        reached == {i \in DOMAIN F : \A j \in refused : i <= j}
    IN  [ok |-> refused = {},
         val |-> [n \in Names(F) |-> IF \E i \in reached : F[i].name = n
                                    THEN parsed[n].val ELSE config[n]]]

\* A field that the section does not set is left as it is.
ParseFields(F, data, config, ParseStruct(_, _, _)) ==
    Loop(F, config,
         [n \in Names(F) |->
             IF get(data, n) = Nil THEN Ok(config[n])
             ELSE parseField(Type(F, n), get(data, n), config[n], ParseStruct)])

\* The structs of BridgeConfig nest three deep, and so do the calls: for a
\* struct without structs, with such structs, and with those.
NoParse(F, data, config)     == Fail(config)
parseFlat(F, data, config)   == ParseFields(F, data, config, NoParse)
parseNested(F, data, config) == ParseFields(F, data, config, parseFlat)
parseStruct(F, data, config) == ParseFields(F, data, config, parseNested)

\* LoadConfigFromFile: what is in the struct afterwards, and whether it
\* succeeded.  A file is "missing", "garbage" to its parser, or a map.
LoadConfigFromFile(file, config) ==
    IF file[1] = "map" THEN parseStruct(BridgeConfig, file[2], config) ELSE Fail(config)

-----------------------------------------------------------------------------
(* What a file means: every setting on its own, whatever the others are.   *)

\* The setting for field n: under its name, or else under that in lower case.
\* The parser has no nil; it would be no setting.
Spelled(data, n) == {s \in {"exact", "lower"} : <<n, s>> \in DOMAIN data}
Setting(data, n) == data[<<n, IF "exact" \in Spelled(data, n) THEN "exact" ELSE "lower">>]
Given(data, n)   == Spelled(data, n) # {} /\ Setting(data, n) # Nil

\* The value v fits a field of that type.
FieldFits(type, v, StructFits(_, _)) ==
    IF type \in Primitives THEN parsePrimitive(type, v, <<>>).ok
    ELSE IF type[1] = "structs"
         THEN \A i \in DOMAIN Elements(v) :
                 Elements(v)[i][1] = "map" /\ StructFits(type[2], Elements(v)[i][2])
         ELSE v[1] = "map" /\ StructFits(type[2], v[2])

\* The section data fits the struct F: each setting in it fits its field.
FieldsFit(F, data, StructFits(_, _)) ==
    \A n \in Names(F) :
        Given(data, n) => FieldFits(Type(F, n), Setting(data, n), StructFits)

NoFit(F, data)      == FALSE
FitsFlat(F, data)   == FieldsFit(F, data, NoFit)
FitsNested(F, data) == FieldsFit(F, data, FitsFlat)
Fits(F, data)       == FieldsFit(F, data, FitsNested)

\* The field x of that type, with base before, has the value v.
FieldMeans(type, v, base, x, StructMeans(_, _, _, _)) ==
    IF type \in Primitives THEN x = parsePrimitive(type, v, base).val
    ELSE IF type[1] = "structs"
         THEN /\ DOMAIN x = DOMAIN Elements(v)
              /\ \A i \in DOMAIN x :
                    StructMeans(type[2], Elements(v)[i][2], Zero[type[2]], x[i])
         ELSE StructMeans(type[2], v[2], base, x)

\* config has, in each field, what data says or else what base has.
FieldsMean(F, data, base, config, StructMeans(_, _, _, _)) ==
    \A n \in Names(F) :
        IF Given(data, n)
        THEN FieldMeans(Type(F, n), Setting(data, n), base[n], config[n], StructMeans)
        ELSE config[n] = base[n]

NoMeaning(F, data, base, config)   == FALSE
MeansFlat(F, data, base, config)   == FieldsMean(F, data, base, config, NoMeaning)
MeansNested(F, data, base, config) == FieldsMean(F, data, base, config, MeansFlat)
Means(F, data, base, config)       == FieldsMean(F, data, base, config, MeansNested)

=============================================================================
