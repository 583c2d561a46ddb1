---------------------------- MODULE CommandLine ----------------------------
(***************************************************************************)
(* One process of takler_client, from its arguments to its exit code: the  *)
(* checks in their order, the server it picks, its credentials, the        *)
(* request on either transport and the report of the answer.  The attempts *)
(* of the call are CallWrapper's: here a call sends its request and is     *)
(* answered, or fails.                                                     *)
(*                                                                         *)
(* Meanwhile the server may move, which rewrites the connect file, and a   *)
(* proxy may hand an HTTP client the answer to a request of another one.   *)
(***************************************************************************)
EXTENDS Requests, ExitCodes

CONSTANTS
    Scenarios,  \* the invocations with their environment and connect files
    Flags       \* the Error_Codes a server answer may carry

\* An environment: TAKLER_HOST and so on, and the user's name.  connectFile tells
\* whether TAKLER_CONNECT_FILE is set, noTakler whether NO_TAKLER is.
Environments ==
    [connectFile : BOOLEAN, noTakler : BOOLEAN, host : STRING, port : STRING, transport : STRING,
     name : STRING, attempt : STRING, pass : STRING, ca : STRING, serverName : STRING,
     secretFile : STRING, user : STRING]

\* files are the contents the connect file has one after the other.
ASSUME CommandLineAssumption ==
    /\ \A s \in Scenarios :
          /\ s.inv.command \in AllCommands
          /\ s.env \in Environments
          /\ s.files \in Seq(ConnectFiles) /\ s.files # <<>>
          /\ ~s.env.connectFile => s.files = <<NoConfig>>
    /\ Flags \subseteq Nat

VARIABLES
    inv, env, files,  \* the scenario
    version,          \* which of files is on the disk
    pc,               \* how far the process has come
    client,           \* NewTaklerServiceClient: the target and the config level of security
    message,          \* the request message
    channel,          \* the TLS settings of the open transport
    metadata,         \* Credential_Metadata
    wire,             \* the requests that left the process
    answers,          \* what may reach the process as an answer
    accepted,         \* the traces of the requests the server carried out
    response,         \* the flag of the answer the client took
    out,              \* what it printed of the outcome
    exit              \* the exit code

inputs == <<inv, env, files>>
server == <<answers, accepted>>
vars == <<inputs, version, pc, client, message, channel, metadata, wire, server, response, out, exit>>

IsChild == inv.command \in ChildCommands
Ignored == IsChild /\ env.noTakler

NoClient == [host |-> "", port |-> "", transport |-> "grpc", ca |-> "", serverName |-> "", secretFile |-> ""]
NoMessage == [nothing |-> TRUE]
Plaintext == [ca |-> "", serverName |-> ""]
NoMetadata == [pass |-> "", user |-> "", secret |-> ""]

Mine == "mine"
Foreign == "foreign"

Init ==
    /\ \E s \in Scenarios : inv = s.inv /\ env = s.env /\ files = s.files
    /\ version = 1
    /\ pc = "start"
    /\ client = NoClient
    /\ message = NoMessage
    /\ channel = Plaintext
    /\ metadata = NoMetadata
    /\ wire = {}
    /\ answers = {}
    /\ accepted = {}
    /\ response = 0
    /\ out = "nothing"
    /\ exit = ExitOK

----------------------------------------------------------------------------
(***************************************************************************)
(* Up to the open connection                                               *)
(***************************************************************************)

\* RunE returns, and Execute ends the process.
Stop(code) == pc' = "done" /\ exit' = code

Parse ==
    /\ pc = "start"
    /\ IF UsageError(inv) THEN Stop(ExitRequestError) ELSE pc' = "parsed" /\ UNCHANGED exit
    /\ UNCHANGED <<inputs, version, client, message, channel, metadata, wire, server, response, out>>

Ignore ==
    /\ pc = "parsed" /\ Ignored
    /\ Stop(ExitOK)
    /\ out' = "ignored"
    /\ UNCHANGED <<inputs, version, client, message, channel, metadata, wire, server, response>>

\* A child command checks its attempt before it looks at any setting.
CheckAttempt ==
    /\ pc = "parsed" /\ ~Ignored
    /\ IF IsChild /\ ~ValidAttemptID(AttemptID(inv, env))
       THEN Stop(ExitRequestError)
       ELSE pc' = "checked" /\ UNCHANGED exit
    /\ UNCHANGED <<inputs, version, client, message, channel, metadata, wire, server, response, out>>

ClientOf(config) ==
    ResolveServerTarget(Text(inv, "host"), Text(inv, "port"), env, config)

\* newClient: one read of the connect file gives the target and the lowest level
\* of the security settings.
NewClient ==
    LET config == files[version]
        target == ClientOf(config)
    IN  /\ pc = "checked"
        /\ config.readable
        /\ pc' = "client"
        /\ client' = [host |-> target.host, port |-> target.port, transport |-> target.transport,
                      ca |-> config.ca, serverName |-> config.serverName,
                      secretFile |-> config.secretFile]
        /\ UNCHANGED <<inputs, version, message, channel, metadata, wire, server, response, out, exit>>

NewClientFails ==
    /\ pc = "checked"
    /\ ~files[version].readable
    /\ Stop(ExitRequestError)
    /\ UNCHANGED <<inputs, version, client, message, channel, metadata, wire, server, response, out>>

\* The method of TaklerServiceClient: its own checks, then the request.
BuildRequest ==
    /\ pc = "client"
    /\ IF ArgumentsOK(inv)
       THEN pc' = "built" /\ message' = Message(inv, env) /\ UNCHANGED exit
       ELSE Stop(ExitRequestError) /\ UNCHANGED message
    /\ UNCHANGED <<inputs, version, client, channel, metadata, wire, server, response, out>>

\* Mutant: the lowest level, the connect file, is not looked at.
CaFileOfOptions(ca) == ResolveWithEnv(Text(inv, "tls-ca"), env.ca, "")

CaFile(ca) == ResolveWithEnv(Text(inv, "tls-ca"), env.ca, ca)
ServerName(name) == ResolveWithEnv(Text(inv, "tls-server-name"), env.serverName, name)

\* Mutant: a certificate that cannot be read is none.
OpenAnyway ==
    /\ pc = "built"
    /\ pc' = "open"
    /\ channel' = IF CaFile(client.ca) = "" \/ ~Readable(CaFile(client.ca)) THEN Plaintext
                  ELSE [ca |-> CaFile(client.ca), serverName |-> ServerName(client.serverName)]
    /\ UNCHANGED <<inputs, version, client, message, metadata, wire, server, response, out, exit>>

\* Without a CA certificate the connection is plaintext, whatever the name.
Open ==
    LET ca == CaFile(client.ca)
    IN  /\ pc = "built"
        /\ IF Readable(ca)
           THEN /\ pc' = "open"
                /\ channel' = IF ca = "" THEN Plaintext
                              ELSE [ca |-> ca, serverName |-> ServerName(client.serverName)]
                /\ UNCHANGED exit
           ELSE Stop(ExitRequestError) /\ UNCHANGED channel
        /\ UNCHANGED <<inputs, version, client, message, metadata, wire, server, response, out>>

\* grpc.NewClient may refuse the target.
OpenRefused ==
    /\ pc = "built" /\ client.transport = "grpc" /\ Readable(CaFile(client.ca))
    /\ Stop(ExitUnreachable)
    /\ UNCHANGED <<inputs, version, client, message, channel, metadata, wire, server, response, out>>

----------------------------------------------------------------------------
(***************************************************************************)
(* The call                                                                *)
(***************************************************************************)

SecretFile(path) == ResolveWithEnv(Text(inv, "secret-file"), env.secretFile, path)

\* The first line that is neither blank nor a comment; a file may have none.
SecretIn(path) == IF path \in {"", "no secret line"} THEN "" ELSE path

\* Mutant: every command is an operator's.
BuildMetadataOfOperator(secretFile) ==
    [pass |-> env.pass, user |-> env.user, secret |-> SecretIn(SecretFile(secretFile))]

\* A child carries the job's password, everyone else the operator's credentials.
BuildMetadata(secretFile) ==
    IF IsChild
    THEN [NoMetadata EXCEPT !.pass = IF env.pass \in Blank THEN "" ELSE env.pass]
    ELSE [NoMetadata EXCEPT !.user = env.user, !.secret = SecretIn(SecretFile(secretFile))]

CredentialsOK(secretFile) == IsChild \/ Readable(SecretFile(secretFile))

\* Mutant: the connect file is read a second time.
AuthenticateFromFile ==
    LET secretFile == files[version].secretFile
    IN  /\ pc = "open"
        /\ IF SelectionOK(inv) /\ CredentialsOK(secretFile)
           THEN pc' = "ready" /\ metadata' = BuildMetadata(secretFile) /\ UNCHANGED exit
           ELSE Stop(ExitRequestError) /\ UNCHANGED metadata
        /\ UNCHANGED <<inputs, version, client, message, channel, wire, server, response, out>>

Authenticate ==
    /\ pc = "open"
    /\ IF SelectionOK(inv) /\ CredentialsOK(client.secretFile)
       THEN pc' = "ready" /\ metadata' = BuildMetadata(client.secretFile) /\ UNCHANGED exit
       ELSE Stop(ExitRequestError) /\ UNCHANGED metadata
    /\ UNCHANGED <<inputs, version, client, message, channel, wire, server, response, out>>

Request ==
    [host |-> client.host, port |-> client.port, transport |-> client.transport,
     ca |-> channel.ca, serverName |-> channel.serverName, metadata |-> metadata,
     body |-> Body(inv.command, client.transport, message)]

Send ==
    /\ pc = "ready"
    /\ pc' = "waiting"
    /\ wire' = wire \cup {Request}
    /\ UNCHANGED <<inputs, version, client, message, channel, metadata, server, response, out, exit>>

\* The transport cannot make a request of it: net/http refuses the URL or a header,
\* grpc the metadata or the message.  Nothing has left the process.
SendRefused ==
    /\ pc = "ready"
    /\ Stop(IF client.transport = "http" THEN ExitRequestError ELSE ExitUnreachable)
    /\ UNCHANGED <<inputs, version, client, message, channel, metadata, wire, server, response, out>>

Registered == {0, 1, 10, 11, 12, 13, 14, 15, 16, 20, 30, 31, 32, 33, 40, 41, 42, 43, 99}

\* Mutant: the ids of the envelope are not compared.
DecodeWireOfAny(answer) == answer.wellFormed /\ answer.flag \in Registered

\* The envelope of an HTTP answer: the request's command and trace id, and a
\* payload with exactly the fields of its schema, a known Error_Code among them.
DecodeWire(answer) ==
    /\ answer.wellFormed
    /\ answer.command = inv.command
    /\ answer.trace = Mine
    /\ answer.flag \in Registered

\* gRPC answers the call itself; a page of show or sync names no request, and is
\* taken for what was asked on either transport.
Acceptable(answer) ==
    IF client.transport = "http" /\ inv.command \notin QueryViews
    THEN DecodeWire(answer)
    ELSE answer.wellFormed

Receive ==
    /\ pc = "waiting"
    /\ \E answer \in answers :
          IF Acceptable(answer)
          THEN pc' = "answered" /\ response' = answer.flag /\ UNCHANGED exit
          ELSE Stop(ExitServerError) /\ UNCHANGED response
    /\ UNCHANGED <<inputs, version, client, message, channel, metadata, wire, server, out>>

\* CallWrapper and, for a batch command, BatchCall say when and with which code.
CallFails ==
    /\ pc = "waiting"
    /\ \E code \in ExitCodes \ {ExitOK} : Stop(code)
    /\ UNCHANGED <<inputs, version, client, message, channel, metadata, wire, server, response, out>>

----------------------------------------------------------------------------
(***************************************************************************)
(* The report                                                              *)
(***************************************************************************)

\* ping and coroutine have answers without a flag.
Flagless == {"ping", "coroutine"}

\* reportCommandResponse
ReportCommand ==
    /\ pc = "answered" /\ inv.command \notin ServerStateCommands \cup QueryViews \cup Flagless
    /\ out' = IF response = 0 THEN "success" ELSE "nothing"
    /\ Stop(ExitCodeForErrorCode(response))
    /\ UNCHANGED <<inputs, version, client, message, channel, metadata, wire, server, response>>

\* The status is printed first, also when the flag makes the command fail.
ReportServerState ==
    /\ pc = "answered" /\ inv.command \in ServerStateCommands
    /\ out' = "status"
    /\ Stop(ExitCodeForErrorCode(response))
    /\ UNCHANGED <<inputs, version, client, message, channel, metadata, wire, server, response>>

ReportQuery ==
    /\ pc = "answered" /\ inv.command \in Flagless
    /\ out' = "result"
    /\ Stop(ExitOK)
    /\ UNCHANGED <<inputs, version, client, message, channel, metadata, wire, server, response>>

\* A failure document, or a later read that fails, ends show and sync with one of
\* the codes; otherwise they print the view.
ReportView ==
    /\ pc = "answered" /\ inv.command \in QueryViews
    /\ \/ response = 0 /\ out' = "result" /\ Stop(ExitOK)
       \/ out' = "nothing" /\ \E code \in ExitCodes \ {ExitOK} : Stop(code)
    /\ UNCHANGED <<inputs, version, client, message, channel, metadata, wire, server, response>>

Client ==
    \/ Parse \/ Ignore \/ CheckAttempt \/ NewClient \/ NewClientFails \/ BuildRequest
    \/ Open \/ OpenRefused \/ Authenticate \/ Send \/ SendRefused \/ Receive \/ CallFails
    \/ ReportCommand \/ ReportServerState \/ ReportQuery \/ ReportView

----------------------------------------------------------------------------
(***************************************************************************)
(* The server and the way to it                                            *)
(***************************************************************************)

AnswerOf(trace, command, flag, wellFormed) ==
    [trace |-> trace, command |-> command, flag |-> flag, wellFormed |-> wellFormed]

\* Flag 0 says that the request was carried out.
ServerAnswers ==
    /\ wire # {} /\ answers = {}
    /\ \E flag \in IF inv.command \in Flagless THEN {0} ELSE Flags :
       \E wellFormed \in BOOLEAN :
          /\ answers' = {AnswerOf(Mine, inv.command, flag, wellFormed)}
          /\ accepted' = IF flag = 0 THEN accepted \cup {Mine} ELSE accepted
    /\ UNCHANGED <<inputs, version, pc, client, message, channel, metadata, wire, response, out, exit>>

\* A proxy or cache answers with what belongs to a request of someone else.
ProxyAnswers ==
    /\ wire # {} /\ answers = {} /\ client.transport = "http"
    /\ \E command \in {inv.command, "ping"} :
          answers' = {AnswerOf(Foreign, command, 0, TRUE)}
    /\ UNCHANGED <<inputs, version, pc, client, message, channel, metadata, wire, accepted, response, out, exit>>

\* The server moves, and its connect file is written anew.
ServerMoves ==
    /\ version < Len(files)
    /\ version' = version + 1
    /\ UNCHANGED <<inputs, pc, client, message, channel, metadata, wire, server, response, out, exit>>

Next == Client \/ ServerAnswers \/ ProxyAnswers \/ ServerMoves

Spec == Init /\ [][Next]_vars

----------------------------------------------------------------------------
(***************************************************************************)
(* Properties                                                              *)
(***************************************************************************)

Stages == {"start", "parsed", "checked", "client", "built", "open", "ready", "waiting", "answered", "done"}

TypeOK ==
    /\ inv.command \in AllCommands /\ env \in Environments /\ files \in Seq(ConnectFiles)
    /\ version \in DOMAIN files
    /\ pc \in Stages
    /\ client.transport \in {"grpc", "http"}
    /\ \A answer \in answers : answer.flag \in Nat
    /\ accepted \subseteq {Mine}
    /\ response \in Nat
    /\ out \in {"nothing", "ignored", "success", "status", "result"}
    /\ exit \in ExitCodes

\* What is wrong with the command before any server is asked, when the connect
\* file is config.
Mistake(config) ==
    \/ UsageError(inv)
    \/ IsChild /\ ~ValidAttemptID(AttemptID(inv, env))
    \/ ~config.readable
    \/ ~ArgumentsOK(inv) \/ ~SelectionOK(inv)
    \/ ~Readable(CaFile(config.ca))
    \/ ~CredentialsOK(config.secretFile)

\* A command with a mistake the client can see sends nothing and fails; but for a
\* usage error, whose code is not looked at here, it exits 1, or 4 when grpc has
\* refused the target before the mistake could be noticed.  Without one, a command
\* that ends without having sent its request was stopped by the transport, which
\* refused the target or the request: 1 over HTTP, 4 over gRPC.  NO_TAKLER makes a
\* well formed child command exit 0 and send nothing, whatever else is wrong.
MistakesStayLocal ==
    LET ignored == Ignored /\ ~UsageError(inv)
        RefusedByGrpc == exit = ExitUnreachable /\ client.transport = "grpc"
    IN  /\ ignored => wire = {} /\ exit = ExitOK
        /\ ~ignored /\ (\A v \in DOMAIN files : Mistake(files[v]))
              => /\ wire = {}
                 /\ pc = "done" => IF UsageError(inv) THEN exit # ExitOK
                                   ELSE exit = ExitRequestError \/ RefusedByGrpc
        /\ ~ignored /\ (\A v \in DOMAIN files : ~Mistake(files[v])) /\ pc = "done"
              => \/ wire # {}
                 \/ RefusedByGrpc
                 \/ exit = ExitRequestError /\ client.transport = "http"

\* Everything a request takes from the connect file is of one version of it, the
\* port is the one that version has for the transport in use, and with a connect
\* file nothing of the address comes from the environment.
OneServerConfiguration ==
    \A r \in wire : \E v \in DOMAIN files :
        LET config == files[v]
        IN  /\ r.host = IF Text(inv, "host") # "" THEN Text(inv, "host")
                        ELSE IF env.connectFile THEN config.host
                        ELSE FirstOf(<<env.host, DefaultHost>>, Absent)
            /\ Text(inv, "port") = "" /\ env.connectFile =>
                  r.port = IF r.transport = "http" /\ config.httpPort # ""
                           THEN config.httpPort ELSE config.port
            /\ r.ca = CaFile(config.ca)
            /\ ~IsChild => r.metadata.secret = SecretIn(SecretFile(config.secretFile))

\* The server is asked the same on both transports: every field of the message
\* that gRPC carries is in the HTTP payload and means the same there.
SameRequestOnEitherTransport ==
    \A r \in wire :
        IF r.transport = "http" /\ inv.command \notin QueryViews
        THEN SameRequest(Message(inv, env), r.body)
        ELSE r.body = Message(inv, env)

\* The password of the job goes with the job's reports only and the operator's
\* secret never does; when a CA certificate is configured on any level, option,
\* environment or every version of the connect file, nothing is sent over a
\* connection without one.
CredentialsFitTheKind ==
    \A r \in wire :
        /\ IF IsChild THEN r.metadata.user = "" /\ r.metadata.secret = ""
                      ELSE r.metadata.pass = ""
        /\ \/ r.ca \notin Blank
           \/ /\ {Text(inv, "tls-ca"), env.ca} \subseteq Blank
              /\ \E v \in DOMAIN files : files[v].ca \in Blank

\* Exit code 0 means that the server carried out this very request, not one whose
\* answer went astray (the pages of show and sync over HTTP cannot tell), or that
\* NO_TAKLER is set and the server was not asked; and success is printed only by a
\* process that exits 0.
SuccessMeansAccepted ==
    /\ pc = "done" /\ exit = ExitOK =>
          \/ Ignored /\ wire = {}
          \/ accepted = {Mine}
          \/ client.transport = "http" /\ inv.command \in QueryViews
    /\ out \in {"success", "result"} => exit = ExitOK
=============================================================================
