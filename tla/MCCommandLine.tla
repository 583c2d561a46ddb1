--------------------------- MODULE MCCommandLine ---------------------------
(***************************************************************************)
(* The invocations of CommandLine: every command with its options, used    *)
(* well and badly, and one report and one mutation under every level of    *)
(* the settings.                                                           *)
(***************************************************************************)
EXTENDS CommandLine, TLC

Plain ==
    [connectFile |-> FALSE, noTakler |-> FALSE, host |-> "", port |-> "", transport |-> "",
     name |-> "/f/t", attempt |-> "uuid", pass |-> "password", ca |-> "", serverName |-> "",
     secretFile |-> "", user |-> "me"]
OverHttp == [Plain EXCEPT !.transport = "http"]
WithFile == [Plain EXCEPT !.connectFile = TRUE, !.host = "env", !.port = "env port"]

NoFlags == <<>>
Call(command, args, flags) == [command |-> command, args |-> args, flags |-> flags]
Scenario(inv_, env_, files_) == [inv |-> inv_, env |-> env_, files |-> files_]

GoodCalls ==
    {Call("init", <<>>, "task-id" :> "17"),
     Call("complete", <<>>, "node-path" :> "/f/u"),
     Call("abort", <<>>, "reason" :> "trap"),
     Call("event", <<>>, "event-name" :> "e"),
     Call("event", <<>>, "event-name" :> "e" @@ "source-task-path" :> "/f/s"),
     Call("meter", <<>>, "meter-name" :> "m" @@ "meter-value" :> "5" @@ "node-path" :> "/f/u"),
     Call("begin", <<>>, NoFlags), Call("begin", <<"f">>, "force" :> "true"),
     Call("run", <<"/f/t", "/f/u">>, "force" :> "true"), Call("run", <<"/f/t">>, NoFlags),
     Call("force", <<"complete", "/f/t">>, "recursive" :> "false"),
     Call("force", <<"unknown", "/f/t", "/f/t">>, NoFlags),
     Call("free-dep", <<"/f/t">>, "dep-type" :> "time"), Call("free-dep", <<"/f/t">>, NoFlags),
     Call("load", <<"flow.json">>, NoFlags), Call("replace", <<"/f", "flow.json">>, NoFlags),
     Call("show", <<>>, "show-all" :> "true"),
     Call("show", <<>>, "scope" :> "/f" @@ "depth" :> "0" @@ "show-meter" :> "true"),
     Call("sync", <<>>, "flow" :> "f" @@ "polls" :> "2")}
    \cup {Call(c, <<"/f/t">>, NoFlags) : c \in {"requeue", "suspend", "resume"}}
    \cup {Call(c, <<>>, NoFlags) : c \in {"ping", "coroutine"} \cup ServerStateCommands}

BadCalls ==
    {Call("init", <<>>, NoFlags), Call("meter", <<>>, "meter-name" :> "m"),
     Call("complete", <<>>, "task-id" :> "17"),
     Call("requeue", <<>>, NoFlags), Call("force", <<"complete">>, NoFlags),
     Call("begin", <<"f", "g">>, NoFlags), Call("server-halt", <<"now">>, NoFlags),
     Call("replace", <<"/f">>, NoFlags),
     Call("complete", <<>>, "attempt-id" :> "no uuid"),
     Call("force", <<"bogus", "/f/t">>, NoFlags), Call("free-dep", <<"/f/t">>, "dep-type" :> "bogus"),
     Call("load", <<"bad">>, NoFlags), Call("replace", <<"/f", "bad">>, NoFlags),
     Call("show", <<>>, "scope" :> "/f" @@ "flow" :> "f"),
     Call("show", <<>>, "scope" :> "not a path"), Call("sync", <<>>, "depth" :> "-1"),
     Call("sync", <<>>, "polls" :> "0"), Call("sync", <<>>, "interval" :> "-1s")}

EveryCommand ==
    {Scenario(c, e, <<NoConfig>>) : c \in GoodCalls \cup BadCalls,
                                    e \in {Plain, OverHttp}}
    \cup {Scenario(c, [Plain EXCEPT !.noTakler = TRUE, !.attempt = "", !.ca = "bad"], <<NoConfig>>) :
             c \in {g \in GoodCalls \cup BadCalls : g.command \in {"init", "complete", "ping"}}}
    \cup {Scenario(Call("abort", <<>>, NoFlags), [Plain EXCEPT !.attempt = a, !.pass = p], <<NoConfig>>) :
             a \in {"", "no uuid", "uuid"}, p \in {"", " "}}

\* A report and a mutation, with or without options for the address.
Probes ==
    {Call(c, args, flags) : c \in {"complete", "load"},
                            args \in {<<"flow.json">>},
                            flags \in {NoFlags, "host" :> "opt", "host" :> "opt" @@ "port" :> "opt port"}}

File == [NoConfig EXCEPT !.host = "file", !.port = "file port", !.ca = "ca", !.secretFile = "secret"]
Moved == [File EXCEPT !.host = "moved", !.port = "moved port", !.httpPort = "moved http", !.ca = "new ca",
                      !.secretFile = "new secret"]
Files ==
    {[File EXCEPT !.transport = t, !.httpPort = h] : t \in {"", " HTTP ", "bogus"}, h \in {"", "file http"}}
    \cup {NoConfig, [File EXCEPT !.host = "", !.ca = ""], [NoConfig EXCEPT !.readable = FALSE]}

EveryTarget ==
    {Scenario(c, [Plain EXCEPT !.host = h, !.transport = t], <<NoConfig>>) :
        c \in Probes, h \in {"", "env"}, t \in {" gRPC ", "http", "bogus"}}
    \cup {Scenario(c, [WithFile EXCEPT !.transport = t], <<f>> \o later) :
            c \in Probes, t \in {"", "http"}, f \in Files, later \in {<<>>, <<Moved>>}}

EverySecurity ==
    {Scenario(Call(c, <<"flow.json">>, flags),
              [WithFile EXCEPT !.ca = ca, !.serverName = name, !.secretFile = secret, !.transport = t],
              <<[File EXCEPT !.ca = cca, !.secretFile = csecret]>>) :
        c \in {"complete", "load"},
        flags \in {NoFlags, "tls-ca" :> "opt ca" @@ "tls-server-name" :> "opt name", "secret-file" :> "opt secret"},
        ca \in {"", " ", "bad", "env ca"}, name \in {"", "env name"},
        secret \in {" ", "bad", "no secret line"}, t \in {"", "http"},
        cca \in {"", "ca"}, csecret \in {"", "secret"}}

MCScenarios == EveryCommand \cup EveryTarget \cup EverySecurity
MCFlags == {0, 10, 31, 40, 77}
=============================================================================
