------------------------------- MODULE MCMain -------------------------------
(***************************************************************************)
(* Configuration files for Main: each setting alone, with values of every  *)
(* kind and in every spelling, one setting in two spellings, and a good    *)
(* setting followed or preceded by one that does not fit.                  *)
(***************************************************************************)
EXTENDS Main

\* A setting somewhere in the file: the sections on the way, then the field.
Paths ==
    {<<"ReconnectInterval">>, <<"NATS", "Servers">>, <<"NATS", "MaxReconnects">>,
     <<"NATS", "TLS", "Cert">>, <<"STAN", "PubAckWait">>, <<"STAN", "DiscoverPrefix">>,
     <<"Logging", "Colors">>, <<"Logging", "Debug">>, <<"Monitoring", "HTTPPort">>,
     <<"Monitoring", "HTTPSPort">>, <<"Connect", "Type">>, <<"Connect", "MQ", "QueueManager">>,
     <<"Connect", "UsePolling">>, <<"NATS">>, <<"Connect">>}

Values ==
    {<<"bool", FALSE>>, <<"int", 7>>, <<"float", 7>>, <<"string", "True">>, <<"string", "-1">>,
     <<"string", "Queue2NATS">>, <<"array", <<<<"string", "a">>, <<"int", 7>>>>>>,
     <<"array", <<<<"map", <<>>>>, <<"map", <<>>>>>>>>, <<"array", <<<<"bool", FALSE>>>>>>,
     <<"map", <<>>>>}

\* The map of a file with one setting.
RECURSIVE Section(_, _, _)
Section(path, spelling, v) ==
    <<path[1], spelling>> :> IF Len(path) = 1 THEN v
                             ELSE <<"map", Section(Tail(path), spelling, v)>>

File(path, spelling, v) == <<"map", Section(path, spelling, v)>>

Good == File(<<"Connect", "Type">>, "lower", <<"string", "Queue2NATS">>)

\* Two settings in different sections.
Both(p, v, q, w) == <<"map", Section(p, "lower", v) @@ Section(q, "exact", w)>>

\* One setting in both spellings.
Twice(p, v, w) == <<"map", Section(p, "exact", v) @@ Section(p, "lower", w)>>

MCFiles ==
    {<<"missing">>, <<"garbage">>, <<"map", <<>>>>}
        \cup {File(p, s, v) : p \in Paths, s \in {"exact", "lower", "other"}, v \in Values}
        \cup {Both(p, v, q, w) : p \in {<<"ReconnectInterval">>, <<"STAN", "PubAckWait">>},
                                 v \in {<<"int", 7>>, <<"float", 7>>},
                                 q \in {<<"Logging", "Colors">>, <<"Connect", "Type">>},
                                 w \in {<<"int", 7>>, <<"string", "Queue2NATS">>}}
        \cup {Twice(p, v, w) : p \in {<<"ReconnectInterval">>, <<"Logging", "Colors">>},
                               v \in {<<"int", 7>>, <<"string", "-1">>},
                               w \in {<<"int", 7>>, <<"string", "-1">>, <<"float", 7>>}}

MCEdits == {<<"missing">>, Good}

=============================================================================
