---------------------------- MODULE ServerTarget ----------------------------
(***************************************************************************)
(* Where a command's settings come from (cmd/util.go, cmd/options.go,      *)
(* common/transport.go, common/tlsconfig.go): its own options, the         *)
(* environment, the connect file and the defaults.  Settings are texts;    *)
(* "" is an absent one and " " one that is only white space.               *)
(***************************************************************************)
EXTENDS Naturals, Sequences

\* The first of the given texts that is not to be skipped, "" without one.
FirstOf(texts, skipped) ==
    LET kept == {i \in DOMAIN texts : texts[i] \notin skipped}
    IN  IF kept = {} THEN "" ELSE texts[CHOOSE i \in kept : \A j \in kept : i <= j]

Absent == {""}
Blank == {"", " "}

\* TLS and credential settings: option, then environment, then connect file.
ResolveWithEnv(flag, env, config) == FirstOf(<<flag, env, config>>, Blank)

\* Mutant: an unknown name is taken as it is.
NormalizeTransportNameOrText(text) ==
    CASE text \in {"grpc", " gRPC "} -> "grpc"
      [] text \in {"http", " HTTP "} -> "http"
      [] OTHER -> text

\* Case and white space do not matter, and any other name counts as absent.
NormalizeTransportName(text) ==
    CASE text \in {"grpc", " gRPC "} -> "grpc"
      [] text \in {"http", " HTTP "} -> "http"
      [] OTHER -> ""

ResolveTransport(config, env) ==
    FirstOf(<<NormalizeTransportName(config), NormalizeTransportName(env), "grpc">>, Absent)

DefaultHost == "localhost"
DefaultPort == "33083"

\* What a connect file says; an absent server.http section is httpPort "".
ConnectFiles ==
    [readable : BOOLEAN, host : STRING, port : STRING, httpPort : STRING, transport : STRING,
     ca : STRING, serverName : STRING, secretFile : STRING]

\* TAKLER_CONNECT_FILE is not set: the accessors of a nil *ConnectConfig.
NoConfig ==
    [readable |-> TRUE, host |-> "", port |-> "", httpPort |-> "", transport |-> "",
     ca |-> "", serverName |-> "", secretFile |-> ""]

\* The address below the command's own options: a connect file replaces both
\* parts of what the environment says, also by nothing.
Address(env, config) ==
    IF env.connectFile
    THEN [host |-> config.host, port |-> config.port]
    ELSE [host |-> FirstOf(<<env.host, DefaultHost>>, Absent),
          port |-> FirstOf(<<env.port, DefaultPort>>, Absent)]

\* host and port are the command's options.
ResolveServerTarget(host, port, env, config) ==
    LET address   == Address(env, config)
        transport == ResolveTransport(config.transport, env.transport)
        httpPort  == IF transport = "http" THEN config.httpPort ELSE ""
    IN  [host      |-> FirstOf(<<host, address.host>>, Absent),
         port      |-> FirstOf(<<port, httpPort, address.port>>, Absent),
         transport |-> transport]
=============================================================================
