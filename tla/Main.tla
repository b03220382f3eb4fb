-------------------------------- MODULE Main --------------------------------
(***************************************************************************)
(* The process: main and its signal goroutine (src/nats-mq/main.go), with  *)
(* the loading of the configuration (core/bridge.go, conf/), over bridges  *)
(* whose life is reduced to a status (Bridge.tla has it).                  *)
(*                                                                         *)
(* The variable server of main is the one its signal goroutine captures;   *)
(* the bridge a SIGHUP starts is held by a variable of the branch only.    *)
(* The variable err is shared by the two.  Start and Stop hold the         *)
(* bridge's runningLock throughout and are one step each.                  *)
(***************************************************************************)
EXTENDS Config

CONSTANTS
    Files,         \* what the configuration file may hold
    Edits,         \* what it may hold, and be changed to, while signals arrive
    MaxEdits,      \* bound: changes of the file
    MaxSignals     \* bound: signals sent

ASSUME MainAssumption == MaxEdits \in Nat /\ MaxSignals \in Nat

VARIABLES
    file,       \* the configuration file
    bridges,    \* every BridgeServer
    server,     \* main's variable: an index of bridges, 0 for nil
    branch,     \* the branch's server: an index of bridges
    err,        \* main's variable err is not nil
    main,       \* "create", "load", "start", "check", "done"
    handler,    \* the goroutine: "notify", "wait", "stop", "exit", "create",
                \* "load", "start", "check"
    taken,      \* the signal it is handling
    sigChan,    \* <<>> or <<signal>>
    process,    \* "up", "exited", "panicked", "killed"
    signals,    \* spent bound
    asked       \* history: the file's count of changes at the last SIGHUP

mainVars    == <<server, main>>
handlerVars == <<branch, handler, taken, sigChan>>
vars == <<file, bridges, mainVars, err, handlerVars, process, signals, asked>>

Signals == {"interrupt", "hup"}

\* A file after n changes, with what LoadConfigFromFile makes of it, which
\* depends on nothing else.
Written(text, n) ==
    [text |-> text, changes |-> n, filled |-> LoadConfigFromFile(text, DefaultBridgeConfig)]

\* Signals and changes are for the files of Edits; for the others the bounds
\* are spent, and main loads them.
Init ==
    /\ \/ \E f \in Edits : file = Written(f, 0) /\ signals = 0
       \/ \E f \in Files : file = Written(f, MaxEdits) /\ signals = MaxSignals
    /\ bridges = <<>> /\ server = 0 /\ branch = 0 /\ err = FALSE
    /\ main = "create" /\ handler = "notify" /\ taken = "none" /\ sigChan = <<>>
    /\ process = "up" /\ asked = 0

-----------------------------------------------------------------------------
(* A bridge server.                                                        *)

\* NewBridgeServer: the configuration is its zero value.
\* (read: history, the file it has tried to load, <<>> before that)
NewBridgeServer == [status |-> "new", config |-> EmptyConfig, read |-> <<>>]

\* Mutant: the file is parsed into bridge.config itself.
LoadInPlace(b) ==
    [b EXCEPT !.config = file.filled.val,
              !.read = <<[text |-> file.text, changes |-> file.changes]>>]

\* LoadConfigFile: a configuration that could be filled is kept.  Nobody looks
\* at the error it returns otherwise.
LoadConfigFile(b) ==
    [b EXCEPT !.config = IF file.filled.ok THEN file.filled.val ELSE @,
              !.read = <<[text |-> file.text, changes |-> file.changes]>>]

\* The types CreateConnector knows.
ConnectorTypeNames ==
    {"Queue2NATS", "Queue2Stan", "NATS2Queue", "Stan2Queue",
     "Topic2NATS", "Topic2Stan", "NATS2Topic", "Stan2Topic"}

\* What initializeConnectors and startMonitoring refuse.
Refuses(config) ==
    LET m == config.Monitoring IN
    \/ \E i \in DOMAIN config.Connect : config.Connect[i].Type \notin ConnectorTypeNames
    \/ m.HTTPPort # 0 /\ m.HTTPSPort # 0
    \/ m.HTTPSPort # 0 /\ (m.TLS.Cert = "" \/ m.TLS.Key = "")

\* Start, which sets running at once; it may always fail for want of a server.
Starts(b) ==
    \/ /\ ~Refuses(bridges[b].config)
       /\ bridges' = [bridges EXCEPT ![b].status = "running"] /\ err' = FALSE
    \/ bridges' = [bridges EXCEPT ![b].status = "failed"] /\ err' = TRUE

\* Stop returns at once when the bridge is not running.
Stops(b) ==
    bridges' = [bridges EXCEPT ![b].status = IF @ \in {"running", "failed"} THEN "stopped"
                                                                         ELSE @]

-----------------------------------------------------------------------------
(* main.                                                                   *)

\* server = core.NewBridgeServer()
MainCreates ==
    /\ process = "up" /\ main = "create"
    /\ bridges' = Append(bridges, NewBridgeServer) /\ server' = Len(bridges) + 1
    /\ main' = "load"
    /\ UNCHANGED <<file, err, handlerVars, process, signals, asked>>

MainLoads ==
    /\ process = "up" /\ main = "load"
    /\ bridges' = [bridges EXCEPT ![server] = LoadConfigFile(@)]
    /\ main' = "start"
    /\ UNCHANGED <<file, server, err, handlerVars, process, signals, asked>>

MainStarts ==
    /\ process = "up" /\ main = "start"
    /\ Starts(server)
    /\ main' = "check"
    /\ UNCHANGED <<file, server, handlerVars, process, signals, asked>>

\* if err != nil: Stop and os.Exit, else main ends and the goroutines stay.
MainChecks ==
    /\ process = "up" /\ main = "check"
    /\ IF err THEN Stops(server) /\ process' = "exited"
              ELSE UNCHANGED <<bridges, process>>
    /\ main' = "done"
    /\ UNCHANGED <<file, server, err, handlerVars, signals, asked>>

-----------------------------------------------------------------------------
(* The signal goroutine.                                                   *)

\* sigChan is made and registered; before that a signal ends the process.
HandlerNotifies ==
    /\ process = "up" /\ handler = "notify"
    /\ handler' = "wait"
    /\ UNCHANGED <<file, bridges, mainVars, err, branch, taken, sigChan, process, signals, asked>>

\* Mutant: a channel without a buffer takes a signal only from a reader.
Unbuffered(s) == IF sigChan = <<>> /\ handler = "wait" THEN <<s>> ELSE sigChan

\* sigChan has room for one signal; another one is dropped meanwhile.
Notify(s) == IF sigChan = <<>> THEN <<s>> ELSE sigChan

\* The user sends a signal.
Signal(s) ==
    /\ process = "up" /\ signals < MaxSignals
    /\ signals' = signals + 1
    /\ IF handler = "notify"
       THEN process' = "killed" /\ UNCHANGED sigChan
       ELSE sigChan' = Notify(s) /\ UNCHANGED process
    /\ asked' = IF s = "hup" THEN file.changes ELSE asked
    /\ UNCHANGED <<file, bridges, mainVars, err, branch, handler, taken>>

\* The goroutine takes a signal and looks for the server's logger.
HandlerTakes ==
    /\ process = "up" /\ handler = "wait" /\ sigChan # <<>>
    /\ sigChan' = <<>> /\ taken' = sigChan[1]
    /\ IF server = 0
       THEN process' = "panicked" /\ UNCHANGED handler
       ELSE handler' = "stop" /\ UNCHANGED process
    /\ UNCHANGED <<file, bridges, mainVars, err, branch, signals, asked>>

\* Mutant: no os.Exit after an interrupt's Stop.
StaysUp == IF taken = "hup" THEN "create" ELSE "wait"

AfterStop == IF taken = "hup" THEN "create" ELSE "exit"

\* server.Stop(), of main's server.
HandlerStops ==
    /\ process = "up" /\ handler = "stop"
    /\ Stops(server)
    /\ handler' = AfterStop
    /\ UNCHANGED <<file, mainVars, err, branch, taken, sigChan, process, signals, asked>>

HandlerExits ==
    /\ process = "up" /\ handler = "exit"
    /\ process' = "exited"
    /\ UNCHANGED <<file, bridges, mainVars, err, handlerVars, signals, asked>>

\* server := core.NewBridgeServer()
HandlerCreates ==
    /\ process = "up" /\ handler = "create"
    /\ bridges' = Append(bridges, NewBridgeServer) /\ branch' = Len(bridges) + 1
    /\ handler' = "load"
    /\ UNCHANGED <<file, mainVars, err, taken, sigChan, process, signals, asked>>

HandlerLoads ==
    /\ process = "up" /\ handler = "load"
    /\ bridges' = [bridges EXCEPT ![branch] = LoadConfigFile(@)]
    /\ handler' = "start"
    /\ UNCHANGED <<file, mainVars, err, branch, taken, sigChan, process, signals, asked>>

HandlerStarts ==
    /\ process = "up" /\ handler = "start"
    /\ Starts(branch)
    /\ handler' = "check"
    /\ UNCHANGED <<file, mainVars, branch, taken, sigChan, process, signals, asked>>

\* if err != nil: Stop and os.Exit, else wait for the next signal.
HandlerChecks ==
    /\ process = "up" /\ handler = "check"
    /\ IF err THEN Stops(branch) /\ process' = "exited"
              ELSE UNCHANGED <<bridges, process>>
    /\ handler' = "wait"
    /\ UNCHANGED <<file, mainVars, err, branch, taken, sigChan, signals, asked>>

-----------------------------------------------------------------------------
(* The environment.                                                        *)

\* NATS gives up after its last reconnect: natsClosed stops the bridge.
NatsClosed(b) ==
    /\ process = "up" /\ b \in DOMAIN bridges /\ bridges[b].status = "running"
    /\ Stops(b)
    /\ UNCHANGED <<file, mainVars, err, handlerVars, process, signals, asked>>

\* The user writes the configuration file anew.
EditFile(f) ==
    /\ process = "up" /\ file.changes < MaxEdits
    /\ file' = Written(f, file.changes + 1)
    /\ UNCHANGED <<bridges, mainVars, err, handlerVars, process, signals, asked>>

Main == MainCreates \/ MainLoads \/ MainStarts \/ MainChecks

Handler ==
    \/ HandlerNotifies \/ HandlerTakes \/ HandlerStops \/ HandlerExits
    \/ HandlerCreates \/ HandlerLoads \/ HandlerStarts \/ HandlerChecks

Next ==
    \/ Main \/ Handler
    \/ \E s \in Signals : Signal(s)
    \/ \E b \in 1..(MaxSignals + 1) : NatsClosed(b)
    \/ \E f \in Edits : EditFile(f)

\* Both goroutines run on.
Spec == Init /\ [][Next]_vars /\ WF_vars(Main) /\ WF_vars(Handler)

-----------------------------------------------------------------------------
(* Properties.                                                             *)

\* Every bridge has the settings of the file it read, each of them, and the
\* defaults for what the file leaves out (LoadConfigFile, parseStruct); or the
\* zero configuration, when the file cannot be read or one setting does not
\* fit its field.  It never has a part of a file.
LoadedAsWritten ==
    \A b \in DOMAIN bridges :
        LET c == bridges[b].config  f == bridges[b].read[1].text IN
        IF bridges[b].read = <<>> \/ f[1] # "map" THEN c = EmptyConfig
        ELSE IF Fits(BridgeConfig, f[2])
             THEN Means(BridgeConfig, f[2], DefaultBridgeConfig, c)
             ELSE c = EmptyConfig

\* A change of the file takes effect: after a SIGHUP that follows it, also one
\* that was dropped because sigChan was full, some bridge loads the file as it
\* is then or later, unless the process ends first.
EditTakesEffect ==
    \A n \in 1..MaxEdits :
        asked >= n ~> \/ process # "up"
                      \/ \E b \in DOMAIN bridges : \E f \in Range(bridges[b].read) :
                             f.changes >= n

\* An interrupt that got into sigChan ends the process, whatever the goroutine
\* and main are doing.
InterruptEnds == sigChan = <<"interrupt">> ~> process # "up"

-----------------------------------------------------------------------------
(* What the documentation says and the code does not do.                   *)

Running == {b \in DOMAIN bridges : bridges[b].status = "running"}

\* Violated: reloading the configuration replaces the bridge that runs.
OneBridgeRuns == \A b, c \in Running : b = c

=============================================================================
