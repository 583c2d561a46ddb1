------------------------ MODULE CommandLine_proofs -------------------------
(***************************************************************************)
(* One process of takler_client, for every invocation, environment and     *)
(* sequence of connect files.                                              *)
(***************************************************************************)
EXTENDS CommandLine, SequenceTheorems, TLAPS

\* The stages up to, and from, the request.
Silent == {"start", "parsed", "checked", "client", "built", "open", "ready"}
Asked == {"waiting", "answered", "done"}
WithClient == {"client", "built", "open", "ready", "waiting", "answered"}
WithChannel == {"open", "ready", "waiting", "answered"}
WithMetadata == {"ready", "waiting", "answered"}

\* The scenario is one of those assumed.
ScenarioInv ==
    /\ inv.command \in AllCommands
    /\ env \in Environments
    /\ files \in Seq(ConnectFiles) /\ files # <<>>
    /\ version \in DOMAIN files

\* The client is made from one version of the connect file.
ClientFrom(v) ==
    LET config == files[v]
        target == ClientOf(config)
    IN  client = [host |-> target.host, port |-> target.port, transport |-> target.transport,
                  ca |-> config.ca, serverName |-> config.serverName,
                  secretFile |-> config.secretFile]

\* What has been settled when the process has come so far.
StageInv ==
    /\ pc \in Silent \cup Asked
    /\ pc \in WithClient => \E v \in DOMAIN files : files[v].readable /\ ClientFrom(v)
    /\ pc \in WithChannel => channel.ca = CaFile(client.ca)
    /\ pc \in WithMetadata => metadata = BuildMetadata(client.secretFile)
    /\ client.transport \in {"grpc", "http"}

\* Nothing is sent before its time, and one request at most.
WireInv ==
    /\ pc \in Silent => wire = {} /\ exit = ExitOK
    /\ pc \in {"waiting", "answered"} => wire = {Request}
    /\ wire # {} => /\ wire = {Request}
                    /\ \E v \in DOMAIN files : ClientFrom(v)
                    /\ channel.ca = CaFile(client.ca)
                    /\ metadata = BuildMetadata(client.secretFile)
    /\ wire = {} => answers = {} /\ accepted = {}

\* The request was carried out, or the answer cannot be told from another one's.
CarriedOut ==
    \/ accepted = {Mine}
    \/ client.transport = "http" /\ inv.command \in QueryViews

\* The server's own answer says whether it carried the request out, and one that
\* went astray comes over HTTP.
TrueAnswer(answer) ==
    /\ answer.flag \in Nat
    /\ answer.trace \in {Mine, Foreign}
    /\ answer.trace = Foreign => client.transport = "http"
    /\ answer.trace = Mine /\ answer.flag = 0 => accepted = {Mine}
    /\ inv.command \in Flagless => answer.flag = 0

AnswerInv ==
    /\ \A answer \in answers : TrueAnswer(answer)
    /\ accepted \subseteq {Mine}

\* What the client makes of the answer it took.
ResponseInv ==
    /\ response \in Nat
    /\ pc = "answered" /\ response = 0 => CarriedOut
    /\ pc = "answered" /\ inv.command \in Flagless => response = 0

\* What a process that has ended says.
ReportInv ==
    /\ exit \in ExitCodes
    /\ out \in {"nothing", "ignored", "success", "status", "result"}
    /\ pc # "done" => out = "nothing"
    /\ out \in {"success", "result"} => exit = ExitOK
    /\ pc = "done" /\ exit = ExitOK => (Ignored /\ wire = {}) \/ CarriedOut

\* What has been checked when the process has come so far, and why it stopped.
LocalInv ==
    /\ pc \notin {"start", "done"} => ~UsageError(inv)
    /\ Ignored /\ ~UsageError(inv) =>
          wire = {} /\ exit = ExitOK /\ pc \in {"start", "parsed", "done"}
    /\ pc \in {"checked"} \cup WithClient => ~IsChild \/ ValidAttemptID(AttemptID(inv, env))
    /\ pc \in {"built", "open", "ready"} => ArgumentsOK(inv)
    /\ pc \in {"open", "ready"} => Readable(CaFile(client.ca))
    /\ pc = "ready" => SelectionOK(inv) /\ CredentialsOK(client.secretFile)
    /\ wire # {} => \E v \in DOMAIN files : ~Mistake(files[v])
    /\ pc = "done" /\ wire = {} =>
          \/ Ignored /\ ~UsageError(inv)
          \/ exit = ExitRequestError /\ \E v \in DOMAIN files : Mistake(files[v])
          \/ exit = ExitUnreachable /\ client.transport = "grpc"
          \/ exit = ExitRequestError /\ client.transport = "http"

IInv == ScenarioInv /\ StageInv /\ WireInv /\ AnswerInv /\ ResponseInv /\ ReportInv /\ LocalInv

----------------------------------------------------------------------------
(***************************************************************************)
(* The settings                                                            *)
(***************************************************************************)

\* The positions of three texts, and the first of those that are kept.
LEMMA Triple ==
    ASSUME NEW a, NEW b, NEW c
    PROVE  /\ DOMAIN <<a, b, c>> = 1 .. 3
           /\ <<a, b, c>>[1] = a /\ <<a, b, c>>[2] = b /\ <<a, b, c>>[3] = c
OBVIOUS

LEMMA Lowest ==
    ASSUME NEW kept \in SUBSET (1 .. 3), NEW i \in kept, \A j \in kept : i <= j
    PROVE  (CHOOSE k \in kept : \A j \in kept : k <= j) = i
<1> DEFINE low == CHOOSE k \in kept : \A j \in kept : k <= j
<1>1. low \in kept /\ \A j \in kept : low <= j OBVIOUS
<1>2. low \in 1 .. 3 /\ i \in 1 .. 3 BY <1>1
<1> HIDE DEF low
<1>3. i <= low /\ low <= i BY <1>1
<1>4. low = i BY <1>2, <1>3
<1> QED BY <1>4 DEF low

\* Of three texts the first that is kept is taken.
LEMMA FirstOfThree ==
    ASSUME NEW a, NEW b, NEW c, NEW skipped
    PROVE  FirstOf(<<a, b, c>>, skipped) = IF a \notin skipped THEN a
                                           ELSE IF b \notin skipped THEN b
                                           ELSE IF c \notin skipped THEN c ELSE ""
<1> DEFINE texts == <<a, b, c>>
           kept == {i \in DOMAIN texts : texts[i] \notin skipped}
           first == CHOOSE i \in kept : \A j \in kept : i <= j
<1>1. /\ DOMAIN texts = 1 .. 3
      /\ texts[1] = a /\ texts[2] = b /\ texts[3] = c
  BY Triple
<1>2. /\ kept \in SUBSET (1 .. 3)
      /\ 1 \in kept <=> a \notin skipped
      /\ 2 \in kept <=> b \notin skipped
      /\ 3 \in kept <=> c \notin skipped
  BY <1>1
<1>3. FirstOf(texts, skipped) = IF kept = {} THEN "" ELSE texts[first] BY DEF FirstOf
<1> HIDE DEF kept, texts
<1>4. CASE a \notin skipped
  <2>1. 1 \in kept /\ \A j \in kept : 1 <= j BY <1>2, <1>4
  <2>2. first = 1 BY <2>1, <1>2, Lowest
  <2> QED BY <1>1, <1>3, <1>4, <2>1, <2>2 DEF texts
<1>5. CASE a \in skipped /\ b \notin skipped
  <2>1. 2 \in kept /\ \A j \in kept : 2 <= j BY <1>2, <1>5
  <2>2. first = 2 BY <2>1, <1>2, Lowest
  <2> QED BY <1>1, <1>3, <1>5, <2>1, <2>2 DEF texts
<1>6. CASE a \in skipped /\ b \in skipped /\ c \notin skipped
  <2>1. 3 \in kept /\ \A j \in kept : 3 <= j BY <1>2, <1>6
  <2>2. first = 3 BY <2>1, <1>2, Lowest
  <2> QED BY <1>1, <1>3, <1>6, <2>1, <2>2 DEF texts
<1>7. CASE a \in skipped /\ b \in skipped /\ c \in skipped
  <2>1. \A i \in 1 .. 3 : i = 1 \/ i = 2 \/ i = 3 OBVIOUS
  <2>2. kept = {} BY <1>2, <1>7, <2>1
  <2> QED BY <1>3, <1>7, <2>2 DEF texts
<1> QED BY <1>4, <1>5, <1>6, <1>7

LEMMA FirstOfTwo ==
    ASSUME NEW a, NEW b, NEW skipped
    PROVE  FirstOf(<<a, b>>, skipped) = IF a \notin skipped THEN a
                                        ELSE IF b \notin skipped THEN b ELSE ""
<1> DEFINE texts == <<a, b>>
           kept == {i \in DOMAIN texts : texts[i] \notin skipped}
           first == CHOOSE i \in kept : \A j \in kept : i <= j
<1>1. DOMAIN texts = 1 .. 2 /\ texts[1] = a /\ texts[2] = b OBVIOUS
<1>2. /\ kept \in SUBSET (1 .. 2) /\ kept \in SUBSET (1 .. 3)
      /\ 1 \in kept <=> a \notin skipped
      /\ 2 \in kept <=> b \notin skipped
  BY <1>1
<1>3. FirstOf(texts, skipped) = IF kept = {} THEN "" ELSE texts[first] BY DEF FirstOf
<1> HIDE DEF kept, texts
<1>4. CASE a \notin skipped
  <2>1. 1 \in kept /\ \A j \in kept : 1 <= j BY <1>2, <1>4
  <2>2. first = 1 BY <2>1, <1>2, Lowest
  <2> QED BY <1>1, <1>3, <1>4, <2>1, <2>2 DEF texts
<1>5. CASE a \in skipped /\ b \notin skipped
  <2>1. 2 \in kept /\ \A j \in kept : 2 <= j BY <1>2, <1>5
  <2>2. first = 2 BY <2>1, <1>2, Lowest
  <2> QED BY <1>1, <1>3, <1>5, <2>1, <2>2 DEF texts
<1>6. CASE a \in skipped /\ b \in skipped
  <2>1. \A i \in 1 .. 2 : i = 1 \/ i = 2 OBVIOUS
  <2>2. kept = {} BY <1>2, <1>6, <2>1
  <2> QED BY <1>3, <1>6, <2>2 DEF texts
<1> QED BY <1>4, <1>5, <1>6

\* There is no third transport, whatever the connect file and the environment say.
LEMMA TransportKnown ==
    ASSUME NEW config, NEW text
    PROVE  ResolveTransport(config, text) \in {"grpc", "http"}
<1> DEFINE a == NormalizeTransportName(config)
           b == NormalizeTransportName(text)
<1>1. a \in {"grpc", "http", ""} /\ b \in {"grpc", "http", ""}
  BY DEF NormalizeTransportName
<1> HIDE DEF a, b
<1>2. \A c : FirstOf(<<a, b, c>>, Absent) = IF a \notin Absent THEN a
                                          ELSE IF b \notin Absent THEN b
                                          ELSE IF c \notin Absent THEN c ELSE ""
  BY FirstOfThree
<1>3. ResolveTransport(config, text) = FirstOf(<<a, b, "grpc">>, Absent)
  BY DEF ResolveTransport, a, b
<1>4. \A c : c # "" => FirstOf(<<a, b, c>>, Absent) \in {a, b, c} \ {""}
  BY <1>2 DEF Absent
<1>5. FirstOf(<<a, b, "grpc">>, Absent) \in {a, b, "grpc"} \ {""} BY <1>4
<1> QED BY <1>1, <1>3, <1>5
----------------------------------------------------------------------------
(***************************************************************************)
(* Every action keeps the invariant                                        *)
(***************************************************************************)

\* A process that ends changes nothing but what it says.
LEMMA EndKeeps ==
    ASSUME IInv, pc' = "done", UNCHANGED <<inputs, version, client, message, channel, metadata, wire, server, response>>
    PROVE  ScenarioInv' /\ StageInv' /\ WireInv' /\ AnswerInv' /\ ResponseInv'
<1> USE DEF IInv, inputs, server, Silent, Asked, WithClient, WithChannel, WithMetadata
<1>1. ScenarioInv' BY DEF ScenarioInv
<1>2. StageInv' BY DEF StageInv
<1>3. WireInv'
  <2>1. Request' = Request BY DEF Request
  <2>2. \A v : ClientFrom(v)' <=> ClientFrom(v) BY DEF ClientFrom, ClientOf
  <2>3. CaFile(client.ca)' = CaFile(client.ca) BY DEF CaFile
  <2>4. BuildMetadata(client.secretFile)' = BuildMetadata(client.secretFile)
    BY DEF BuildMetadata, IsChild, SecretFile
  <2> QED BY <2>1, <2>2, <2>3, <2>4 DEF WireInv
<1>4. AnswerInv' BY DEF AnswerInv, TrueAnswer
<1>5. ResponseInv' BY DEF ResponseInv
<1> QED BY <1>1, <1>2, <1>3, <1>4, <1>5

\* One that fails says nothing.
LEMMA FailureKeeps ==
    ASSUME ReportInv, pc # "done", pc' = "done", exit' \in ExitCodes \ {ExitOK}, out' = out
    PROVE  ReportInv'
<1>1. out' = "nothing" BY DEF ReportInv
<1>2. out' \notin {"success", "result"} BY <1>1
<1>3. exit' # ExitOK OBVIOUS
<1>4. exit' \in ExitCodes OBVIOUS
<1>5. pc' = "done" OBVIOUS
<1> QED BY <1>1, <1>2, <1>3, <1>4, <1>5 DEF ReportInv

\* The settings of the client are those of one readable connect file.
LEMMA ClientKnown ==
    ASSUME StageInv, pc \in WithClient
    PROVE  \E v \in DOMAIN files : /\ files[v].readable
                                  /\ client.ca = files[v].ca
                                  /\ client.secretFile = files[v].secretFile
BY DEF StageInv, ClientFrom

\* One that ends because of a mistake.
LEMMA MistakeKeeps ==
    ASSUME IInv, UNCHANGED <<inputs, client, wire>>, pc \notin {"start", "parsed", "done"}, wire = {},
           pc' = "done", exit' = ExitRequestError, \E v \in DOMAIN files : Mistake(files[v])
    PROVE  LocalInv'
<1>1. ~UsageError(inv) /\ ~Ignored BY DEF IInv, LocalInv
<1>2. UNCHANGED <<inv, env, files, client, wire>> BY DEF inputs
<1>3. \A v : Mistake(files[v])' <=> Mistake(files[v])
  BY <1>2 DEF Mistake, IsChild, CaFile, CredentialsOK, SecretFile
<1>4. \E v \in DOMAIN files' : Mistake(files[v])' BY <1>2, <1>3
<1>5. ~Ignored' BY <1>1, <1>2 DEF Ignored, IsChild
<1>6. wire' = {} /\ pc' = "done" /\ exit' = ExitRequestError BY <1>2
<1> QED BY <1>4, <1>5, <1>6 DEF LocalInv, WithClient

\* One that has sent its request had made no mistake.
LEMMA SentKeeps ==
    ASSUME IInv, UNCHANGED <<inputs, wire>>, wire # {}, pc \in Asked, pc' \in Asked
    PROVE  LocalInv'
<1>1. (\E v \in DOMAIN files : ~Mistake(files[v])) /\ ~(Ignored /\ ~UsageError(inv))
  BY DEF IInv, LocalInv
<1>2. UNCHANGED <<inv, env, files, wire>> BY DEF inputs
<1>3. ~UsageError(inv) BY <1>1 DEF Mistake
<1>4. ~Ignored' BY <1>1, <1>2, <1>3 DEF Ignored, IsChild
<1>5. \A v : Mistake(files[v])' <=> Mistake(files[v])
  BY <1>2 DEF Mistake, IsChild, CaFile, CredentialsOK, SecretFile
<1>6. \E v \in DOMAIN files' : ~Mistake(files[v])' BY <1>1, <1>2, <1>5
<1>7. ~IsChild' \/ ValidAttemptID(AttemptID(inv, env))' BY <1>1, <1>2 DEF Mistake, IsChild
<1>8. ~UsageError(inv)' /\ wire' # {} BY <1>2, <1>3
<1> QED BY <1>4, <1>6, <1>7, <1>8 DEF LocalInv, Asked

\* A step before the request that leaves the client and the channel alone.
LEMMA SilentKeeps ==
    ASSUME IInv, pc \in Silent, pc' \in Silent,
           UNCHANGED <<inputs, version, client, channel, metadata, wire, server, response, out, exit>>
    PROVE  ScenarioInv' /\ WireInv' /\ AnswerInv' /\ ResponseInv' /\ ReportInv'
<1> USE DEF IInv, inputs, server, Silent
<1>1. ScenarioInv' BY DEF ScenarioInv
<1>2. WireInv' BY DEF WireInv
<1>3. AnswerInv' BY DEF AnswerInv, TrueAnswer
<1>4. ResponseInv' BY DEF ResponseInv
<1>5. ReportInv' BY DEF ReportInv
<1> QED BY <1>1, <1>2, <1>3, <1>4, <1>5

LEMMA ParseKeeps == ASSUME IInv, Parse PROVE IInv'
<1>1. CASE UsageError(inv)
  <2>1. /\ pc = "start" /\ pc' = "done" /\ exit' = ExitRequestError
        /\ UNCHANGED <<inputs, version, client, message, channel, metadata, wire, server, response, out>>
    BY <1>1 DEF Parse, Stop
  <2>2. ScenarioInv' /\ StageInv' /\ WireInv' /\ AnswerInv' /\ ResponseInv' BY <2>1, EndKeeps
  <2>3. ReportInv' BY <2>1, FailureKeeps DEF IInv, ExitCodes, ExitOK, ExitRequestError, ExitUnreachable, ExitServerError
  <2>4. LocalInv'
    <3>1. version \in DOMAIN files' /\ Mistake(files[version])'
      BY <1>1, <2>1 DEF IInv, ScenarioInv, Mistake, inputs
    <3>2. ~(Ignored /\ ~UsageError(inv))' /\ wire' = {} BY <1>1, <2>1 DEF IInv, WireInv, Silent, inputs
    <3> QED BY <2>1, <3>1, <3>2 DEF LocalInv, WithClient
  <2> QED BY <2>2, <2>3, <2>4 DEF IInv
<1>2. CASE ~UsageError(inv)
  <2>1. /\ pc = "start" /\ pc' = "parsed"
        /\ UNCHANGED <<inputs, version, client, message, channel, metadata, wire, server, response, out, exit>>
    BY <1>2 DEF Parse
  <2>2. ScenarioInv' /\ WireInv' /\ AnswerInv' /\ ResponseInv' /\ ReportInv'
    BY <2>1, SilentKeeps DEF Silent
  <2>3. StageInv' BY <2>1 DEF IInv, StageInv, Silent, WithClient, WithChannel, WithMetadata
  <2>4. LocalInv'
    <3>1. ~UsageError(inv)' BY <1>2, <2>1 DEF inputs
    <3>2. wire = {} /\ wire' = {} /\ exit' = ExitOK BY <2>1 DEF IInv, WireInv, Silent
    <3> QED BY <2>1, <3>1, <3>2 DEF LocalInv, WithClient
  <2> QED BY <2>2, <2>3, <2>4 DEF IInv
<1> QED BY <1>1, <1>2

LEMMA IgnoreKeeps == ASSUME IInv, Ignore PROVE IInv'
<1>1. /\ pc = "parsed" /\ Ignored /\ pc' = "done" /\ exit' = ExitOK /\ out' = "ignored"
      /\ UNCHANGED <<inputs, version, client, message, channel, metadata, wire, server, response>>
  BY DEF Ignore, Stop
<1>2. ScenarioInv' /\ StageInv' /\ WireInv' /\ AnswerInv' /\ ResponseInv' BY <1>1, EndKeeps
<1>3. Ignored' /\ wire' = {} /\ ~UsageError(inv)'
  BY <1>1 DEF IInv, WireInv, LocalInv, Silent, Ignored, IsChild, inputs
<1>4. ReportInv'
  <2>1. exit' \in ExitCodes BY <1>1 DEF ExitCodes
  <2> QED BY <1>1, <1>3, <2>1 DEF ReportInv
<1>5. LocalInv' BY <1>1, <1>3 DEF LocalInv, WithClient
<1> QED BY <1>2, <1>4, <1>5 DEF IInv

LEMMA CheckAttemptKeeps == ASSUME IInv, CheckAttempt PROVE IInv'
<1> DEFINE wrong == IsChild /\ ~ValidAttemptID(AttemptID(inv, env))
<1>1. CASE wrong
  <2>1. /\ pc = "parsed" /\ ~Ignored /\ pc' = "done" /\ exit' = ExitRequestError
        /\ UNCHANGED <<inputs, version, client, message, channel, metadata, wire, server, response, out>>
    BY <1>1 DEF CheckAttempt, Stop
  <2>2. ScenarioInv' /\ StageInv' /\ WireInv' /\ AnswerInv' /\ ResponseInv' BY <2>1, EndKeeps
  <2>3. ReportInv' BY <2>1, FailureKeeps DEF IInv, ExitCodes, ExitOK, ExitRequestError, ExitUnreachable, ExitServerError
  <2>4. LocalInv'
    <3>1. version \in DOMAIN files' /\ Mistake(files[version])'
      BY <1>1, <2>1 DEF IInv, ScenarioInv, Mistake, IsChild, inputs
    <3>2. ~Ignored' /\ wire' = {} BY <2>1 DEF IInv, WireInv, Silent, Ignored, IsChild, inputs
    <3> QED BY <2>1, <3>1, <3>2 DEF LocalInv, WithClient
  <2> QED BY <2>2, <2>3, <2>4 DEF IInv
<1>2. CASE ~wrong
  <2>1. /\ pc = "parsed" /\ ~Ignored /\ pc' = "checked"
        /\ UNCHANGED <<inputs, version, client, message, channel, metadata, wire, server, response, out, exit>>
    BY <1>2 DEF CheckAttempt
  <2>2. ScenarioInv' /\ WireInv' /\ AnswerInv' /\ ResponseInv' /\ ReportInv'
    BY <2>1, SilentKeeps DEF Silent
  <2>3. StageInv' BY <2>1 DEF IInv, StageInv, Silent, WithClient, WithChannel, WithMetadata
  <2>4. LocalInv'
    <3>1. ~UsageError(inv)' BY <2>1 DEF IInv, LocalInv, inputs
    <3>2. ~Ignored' /\ (~IsChild \/ ValidAttemptID(AttemptID(inv, env)))'
      BY <1>2, <2>1 DEF Ignored, IsChild, inputs
    <3>3. wire' = {} BY <2>1 DEF IInv, WireInv, Silent
    <3> QED BY <2>1, <3>1, <3>2, <3>3 DEF LocalInv
  <2> QED BY <2>2, <2>3, <2>4 DEF IInv
<1> QED BY <1>1, <1>2

LEMMA NewClientKeeps == ASSUME IInv, NewClient PROVE IInv'
<1> DEFINE config == files[version]
           target == ClientOf(config)
<1>1. /\ pc = "checked" /\ pc' = "client" /\ config.readable
      /\ client' = [host |-> target.host, port |-> target.port, transport |-> target.transport,
                    ca |-> config.ca, serverName |-> config.serverName,
                    secretFile |-> config.secretFile]
      /\ UNCHANGED <<inv, env, files, version, wire, answers, accepted, response, out, exit>>
  BY DEF NewClient, inputs, server
<1>2. version \in DOMAIN files /\ wire = {} /\ exit = ExitOK
  BY <1>1 DEF IInv, ScenarioInv, WireInv, Silent
<1>3. ScenarioInv' BY <1>1 DEF IInv, ScenarioInv
<1>4. StageInv'
  <2>1. ClientFrom(version)' BY <1>1 DEF ClientFrom, ClientOf
  <2>2. target.transport \in {"grpc", "http"} BY TransportKnown DEF ClientOf, ResolveServerTarget
  <2>3. client'.transport \in {"grpc", "http"} BY <1>1, <2>2
  <2> QED BY <1>1, <1>2, <2>1, <2>3 DEF StageInv, Silent, WithChannel, WithMetadata
<1>5. WireInv' BY <1>1, <1>2 DEF IInv, WireInv
<1>6. AnswerInv' BY <1>1, <1>2 DEF IInv, AnswerInv, WireInv
<1>7. ResponseInv' BY <1>1 DEF IInv, ResponseInv
<1>8. ReportInv' BY <1>1 DEF IInv, ReportInv
<1>9. LocalInv' BY <1>1, <1>2 DEF IInv, LocalInv, Ignored, IsChild
<1> QED BY <1>3, <1>4, <1>5, <1>6, <1>7, <1>8, <1>9 DEF IInv

LEMMA NewClientFailsKeeps == ASSUME IInv, NewClientFails PROVE IInv'
<1>1. ScenarioInv' /\ StageInv' /\ WireInv' /\ AnswerInv' /\ ResponseInv' BY EndKeeps DEF NewClientFails, Stop
<1>2. ReportInv' BY FailureKeeps DEF IInv, NewClientFails, Stop, ExitCodes, ExitOK,
      ExitRequestError, ExitUnreachable, ExitServerError
<1>3. LocalInv'
  <2>1. version \in DOMAIN files /\ Mistake(files[version]) BY DEF NewClientFails, IInv,
        ScenarioInv, Mistake
  <2>2. /\ pc = "checked" /\ pc' = "done" /\ exit' = ExitRequestError
        /\ UNCHANGED <<inputs, client, wire>> BY DEF NewClientFails, Stop
  <2>3. wire = {} BY <2>2 DEF IInv, WireInv, Silent
  <2>4. pc \notin {"start", "parsed", "done"} BY <2>2
  <2> QED BY <2>1, <2>2, <2>3, <2>4, MistakeKeeps
<1> QED BY <1>1, <1>2, <1>3 DEF IInv

LEMMA BuildRequestKeeps == ASSUME IInv, BuildRequest PROVE IInv'
<1>1. CASE ArgumentsOK(inv)
  <2>1. /\ pc = "client" /\ pc' = "built"
        /\ UNCHANGED <<inputs, version, client, channel, metadata, wire, server, response, out, exit>>
    BY <1>1 DEF BuildRequest
  <2>2. ScenarioInv' /\ WireInv' /\ AnswerInv' /\ ResponseInv' /\ ReportInv'
    BY <2>1, SilentKeeps DEF Silent
  <2>3. StageInv'
    BY <2>1 DEF IInv, StageInv, ClientFrom, ClientOf, Silent, WithClient, WithChannel, WithMetadata, inputs
  <2>4. LocalInv'
    <3>1. wire' = {} BY <2>1 DEF IInv, WireInv, Silent
    <3> QED BY <1>1, <2>1, <3>1 DEF IInv, LocalInv, WithClient, Ignored, IsChild, inputs
  <2> QED BY <2>2, <2>3, <2>4 DEF IInv
<1>2. CASE ~ArgumentsOK(inv)
  <2>1. /\ pc = "client" /\ pc' = "done" /\ exit' = ExitRequestError
        /\ UNCHANGED <<inputs, version, client, message, channel, metadata, wire, server, response, out>>
    BY <1>2 DEF BuildRequest, Stop
  <2>2. ScenarioInv' /\ StageInv' /\ WireInv' /\ AnswerInv' /\ ResponseInv' BY <2>1, EndKeeps
  <2>3. ReportInv' BY <2>1, FailureKeeps DEF IInv, ExitCodes, ExitOK, ExitRequestError, ExitUnreachable, ExitServerError
  <2>4. version \in DOMAIN files /\ Mistake(files[version]) BY <1>2 DEF IInv, ScenarioInv, Mistake
  <2>5. LocalInv'
    <3>1. wire = {} BY <2>1 DEF IInv, WireInv, Silent
    <3>2. pc \notin {"start", "parsed", "done"} BY <2>1
    <3> QED BY <2>1, <2>4, <3>1, <3>2, MistakeKeeps
  <2> QED BY <2>2, <2>3, <2>5 DEF IInv
<1> QED BY <1>1, <1>2

LEMMA OpenKeeps == ASSUME IInv, Open PROVE IInv'
<1> DEFINE ca == CaFile(client.ca)
<1>1. CASE Readable(ca)
  <2>1. /\ pc = "built" /\ pc' = "open"
        /\ channel' = IF ca = "" THEN Plaintext ELSE [ca |-> ca, serverName |-> ServerName(client.serverName)]
        /\ UNCHANGED <<inv, env, files, version, client, wire, answers, accepted, response, out, exit>>
    BY <1>1 DEF Open, inputs, server
  <2>2. channel'.ca = ca BY <2>1 DEF Plaintext
  <2>3. CaFile(client.ca)' = ca BY <2>1 DEF CaFile
  <2>4. ScenarioInv' BY <2>1 DEF IInv, ScenarioInv
  <2>5. StageInv'
    BY <2>1, <2>2, <2>3 DEF IInv, StageInv, ClientFrom, ClientOf, Silent, Asked, WithClient,
          WithChannel, WithMetadata
  <2>6. WireInv' BY <2>1 DEF IInv, WireInv, Silent
  <2>7. AnswerInv' /\ ResponseInv' BY <2>1 DEF IInv, AnswerInv, TrueAnswer, ResponseInv
  <2>8. ReportInv' BY <2>1 DEF IInv, ReportInv
  <2>9. LocalInv'
    BY <1>1, <2>1, <2>3, <2>6 DEF IInv, LocalInv, WireInv, Ignored, IsChild, Silent, WithClient
  <2> QED BY <2>4, <2>5, <2>6, <2>7, <2>8, <2>9 DEF IInv
<1>2. CASE ~Readable(ca)
  <2>1. /\ pc = "built" /\ pc' = "done" /\ exit' = ExitRequestError
        /\ UNCHANGED <<inputs, version, client, message, channel, metadata, wire, server, response, out>>
    BY <1>2 DEF Open, Stop
  <2>2. ScenarioInv' /\ StageInv' /\ WireInv' /\ AnswerInv' /\ ResponseInv' BY <2>1, EndKeeps
  <2>3. ReportInv' BY <2>1, FailureKeeps DEF IInv, ExitCodes, ExitOK, ExitRequestError,
        ExitUnreachable, ExitServerError
  <2>4. \E v \in DOMAIN files : client.ca = files[v].ca BY <2>1, ClientKnown DEF IInv,
        WithClient
  <2>5. \E v \in DOMAIN files : Mistake(files[v]) BY <1>2, <2>4 DEF Mistake
  <2>6. LocalInv'
    <3>1. wire = {} BY <2>1 DEF IInv, WireInv, Silent
    <3>2. pc \notin {"start", "parsed", "done"} BY <2>1
    <3> QED BY <2>1, <2>5, <3>1, <3>2, MistakeKeeps
  <2> QED BY <2>2, <2>3, <2>6 DEF IInv
<1> QED BY <1>1, <1>2

LEMMA OpenRefusedKeeps == ASSUME IInv, OpenRefused PROVE IInv'
<1>1. ScenarioInv' /\ StageInv' /\ WireInv' /\ AnswerInv' /\ ResponseInv' BY EndKeeps DEF OpenRefused, Stop
<1>2. ReportInv' BY FailureKeeps DEF IInv, OpenRefused, Stop, ExitCodes, ExitOK,
      ExitRequestError, ExitUnreachable, ExitServerError
<1>3. LocalInv'
  BY DEF IInv, OpenRefused, Stop, LocalInv, WireInv, ScenarioInv, StageInv, ReportInv,
        Mistake, IsChild, Ignored,
         CaFile, CredentialsOK, SecretFile, inputs, server, Silent, Asked, WithClient,
         WithChannel, WithMetadata,
         ExitCodes, ExitOK, ExitRequestError, ExitUnreachable, ExitServerError
<1> QED BY <1>1, <1>2, <1>3 DEF IInv

LEMMA SendRefusedKeeps == ASSUME IInv, SendRefused PROVE IInv'
<1>1. ScenarioInv' /\ StageInv' /\ WireInv' /\ AnswerInv' /\ ResponseInv' BY EndKeeps DEF SendRefused, Stop
<1>2. ReportInv' BY FailureKeeps DEF IInv, SendRefused, Stop, ExitCodes, ExitOK,
      ExitRequestError, ExitUnreachable, ExitServerError
<1>3. client.transport \in {"grpc", "http"} BY DEF IInv, StageInv
<1>4. LocalInv'
  BY <1>3 DEF IInv, SendRefused, Stop, LocalInv, WireInv, ScenarioInv, StageInv, ReportInv,
        Mistake, IsChild, Ignored,
         CaFile, CredentialsOK, SecretFile, inputs, server, Silent, Asked, WithClient,
         WithChannel, WithMetadata,
         ExitCodes, ExitOK, ExitRequestError, ExitUnreachable, ExitServerError
<1> QED BY <1>1, <1>2, <1>4 DEF IInv

LEMMA AuthenticateKeeps == ASSUME IInv, Authenticate PROVE IInv'
<1> DEFINE fine == SelectionOK(inv) /\ CredentialsOK(client.secretFile)
<1>1. CASE fine
  <2>1. /\ pc = "open" /\ pc' = "ready"
        /\ metadata' = BuildMetadata(client.secretFile)
        /\ UNCHANGED <<inv, env, files, version, client, channel, wire, answers, accepted, response, out, exit>>
    BY <1>1 DEF Authenticate, inputs, server
  <2>2. CaFile(client.ca)' = CaFile(client.ca) BY <2>1 DEF CaFile
  <2>3. BuildMetadata(client.secretFile)' = BuildMetadata(client.secretFile)
    BY <2>1 DEF BuildMetadata, IsChild, SecretFile
  <2>4. ScenarioInv' BY <2>1 DEF IInv, ScenarioInv
  <2>5. StageInv'
    BY <2>1, <2>2, <2>3 DEF IInv, StageInv, ClientFrom, ClientOf, Silent, Asked, WithClient,
          WithChannel, WithMetadata
  <2>6. WireInv' BY <2>1 DEF IInv, WireInv, Silent
  <2>7. AnswerInv' /\ ResponseInv' BY <2>1 DEF IInv, AnswerInv, TrueAnswer, ResponseInv
  <2>8. ReportInv' BY <2>1 DEF IInv, ReportInv
  <2>9. LocalInv'
    <3>1. CredentialsOK(client.secretFile)' BY <1>1, <2>1 DEF CredentialsOK, IsChild, SecretFile
    <3> QED BY <1>1, <2>1, <2>2, <2>6, <3>1 DEF IInv, LocalInv, WireInv, Ignored, IsChild,
          Silent, WithClient
  <2> QED BY <2>4, <2>5, <2>6, <2>7, <2>8, <2>9 DEF IInv
<1>2. CASE ~fine
  <2>1. /\ pc = "open" /\ pc' = "done" /\ exit' = ExitRequestError
        /\ UNCHANGED <<inputs, version, client, message, channel, metadata, wire, server, response, out>>
    BY <1>2 DEF Authenticate, Stop
  <2>2. ScenarioInv' /\ StageInv' /\ WireInv' /\ AnswerInv' /\ ResponseInv' BY <2>1, EndKeeps
  <2>3. ReportInv' BY <2>1, FailureKeeps DEF IInv, ExitCodes, ExitOK, ExitRequestError,
        ExitUnreachable, ExitServerError
  <2>4. \E v \in DOMAIN files : client.secretFile = files[v].secretFile BY <2>1, ClientKnown
        DEF IInv, WithClient
  <2>5. \E v \in DOMAIN files : Mistake(files[v]) BY <1>2, <2>4 DEF Mistake
  <2>6. LocalInv'
    <3>1. wire = {} BY <2>1 DEF IInv, WireInv, Silent
    <3>2. pc \notin {"start", "parsed", "done"} BY <2>1
    <3> QED BY <2>1, <2>5, <3>1, <3>2, MistakeKeeps
  <2> QED BY <2>2, <2>3, <2>6 DEF IInv
<1> QED BY <1>1, <1>2

LEMMA SendKeeps == ASSUME IInv, Send PROVE IInv'
<1>1. /\ pc = "ready" /\ pc' = "waiting"
      /\ wire' = wire \cup {Request}
      /\ UNCHANGED <<inv, env, files, version, client, message, channel, metadata, answers, accepted, response, out, exit>>
  BY DEF Send, inputs, server
<1>2. wire = {} BY <1>1 DEF IInv, WireInv, Silent
<1>3. /\ Request' = Request
      /\ CaFile(client.ca)' = CaFile(client.ca)
      /\ BuildMetadata(client.secretFile)' = BuildMetadata(client.secretFile)
  BY <1>1 DEF Request, CaFile, BuildMetadata, IsChild, SecretFile
<1>4. wire' = {Request'} BY <1>1, <1>2, <1>3
<1>5. PICK v \in DOMAIN files : files[v].readable /\ ClientFrom(v)
  BY <1>1 DEF IInv, StageInv, WithClient
<1>6. ClientFrom(v)' BY <1>1, <1>5 DEF ClientFrom, ClientOf
<1>7. ScenarioInv' BY <1>1 DEF IInv, ScenarioInv
<1>8. StageInv'
  BY <1>1, <1>3, <1>5, <1>6 DEF IInv, StageInv, Silent, Asked, WithClient, WithChannel,
        WithMetadata
<1>9. WireInv'
  BY <1>1, <1>3, <1>4, <1>6 DEF IInv, StageInv, WireInv, Silent, WithChannel, WithMetadata
<1>10. AnswerInv' /\ ResponseInv' BY <1>1 DEF IInv, AnswerInv, TrueAnswer, ResponseInv
<1>11. ReportInv' BY <1>1 DEF IInv, ReportInv
<1>12. LocalInv'
  <2>1. /\ ~UsageError(inv) /\ ~Ignored
        /\ ~IsChild \/ ValidAttemptID(AttemptID(inv, env))
        /\ ArgumentsOK(inv) /\ SelectionOK(inv)
        /\ Readable(CaFile(client.ca)) /\ CredentialsOK(client.secretFile)
    BY <1>1 DEF IInv, LocalInv, WithClient
  <2>2. client.ca = files[v].ca /\ client.secretFile = files[v].secretFile BY <1>5 DEF
        ClientFrom
  <2>3. ~Mistake(files[v]) BY <1>5, <2>1, <2>2 DEF Mistake
  <2>4. ~Mistake(files[v])' BY <1>1, <2>3 DEF Mistake, IsChild, CaFile, CredentialsOK,
        SecretFile
  <2>5. /\ ~UsageError(inv)' /\ ~Ignored'
        /\ ~IsChild' \/ ValidAttemptID(AttemptID(inv, env))'
    BY <1>1, <2>1 DEF Ignored, IsChild
  <2> QED BY <1>1, <1>4, <2>4, <2>5 DEF LocalInv
<1> QED BY <1>7, <1>8, <1>9, <1>10, <1>11, <1>12 DEF IInv

LEMMA ReceiveKeeps == ASSUME IInv, Receive PROVE IInv'
<1>1. PICK answer \in answers :
          IF Acceptable(answer)
          THEN pc' = "answered" /\ response' = answer.flag /\ UNCHANGED exit
          ELSE Stop(ExitServerError) /\ UNCHANGED response
  BY DEF Receive
<1>2. /\ pc = "waiting"
      /\ UNCHANGED <<inv, env, files, version, client, message, channel, metadata, wire, answers, accepted, out>>
  BY DEF Receive, inputs, server
<1>3. wire # {} BY <1>2 DEF IInv, WireInv
<1>4. CASE Acceptable(answer)
  <2>1. pc' = "answered" /\ response' = answer.flag /\ exit' = exit BY <1>1, <1>4
  <2>2. /\ Request' = Request
        /\ CaFile(client.ca)' = CaFile(client.ca)
        /\ BuildMetadata(client.secretFile)' = BuildMetadata(client.secretFile)
        /\ \A v : ClientFrom(v)' <=> ClientFrom(v)
    BY <1>2 DEF Request, CaFile, BuildMetadata, IsChild, SecretFile, ClientFrom, ClientOf
  <2>3. ScenarioInv' BY <1>2 DEF IInv, ScenarioInv
  <2>4. StageInv'
    BY <1>2, <2>1, <2>2 DEF IInv, StageInv, Silent, Asked, WithClient, WithChannel, WithMetadata
  <2>5. WireInv' BY <1>2, <1>3, <2>1, <2>2 DEF IInv, WireInv, Silent
  <2>6. AnswerInv' BY <1>2 DEF IInv, AnswerInv, TrueAnswer
  <2>7. ResponseInv'
    <3>1. TrueAnswer(answer) BY DEF IInv, AnswerInv
    <3>2. answer.trace = Foreign => CarriedOut
      <4>1. Foreign # Mine BY DEF Foreign, Mine
      <4>2. answer.trace = Foreign => client.transport = "http" BY <3>1, <4>1 DEF TrueAnswer
      <4> QED BY <1>4, <4>1, <4>2 DEF Acceptable, DecodeWire, CarriedOut
    <3>3. answer.trace # Foreign => answer.trace = Mine BY <3>1 DEF TrueAnswer
    <3>4. answer.trace = Mine /\ answer.flag = 0 => CarriedOut BY <3>1 DEF TrueAnswer,
          CarriedOut
    <3>5. answer.flag = 0 => CarriedOut BY <3>2, <3>3, <3>4
    <3>6. answer.flag \in Nat /\ (inv.command \in Flagless => answer.flag = 0) BY <3>1 DEF
          TrueAnswer
    <3>7. CarriedOut' <=> CarriedOut BY <1>2 DEF CarriedOut
    <3> QED BY <1>2, <2>1, <3>5, <3>6, <3>7 DEF ResponseInv
  <2>8. ReportInv' BY <1>2, <2>1 DEF IInv, ReportInv
  <2>9. LocalInv' BY <1>2, <1>3, <2>1, SentKeeps DEF Asked, inputs
  <2> QED BY <2>3, <2>4, <2>5, <2>6, <2>7, <2>8, <2>9 DEF IInv
<1>5. CASE ~Acceptable(answer)
  <2>1. pc' = "done" /\ exit' = ExitServerError /\ response' = response BY <1>1, <1>5 DEF Stop
  <2>2. ScenarioInv' /\ StageInv' /\ WireInv' /\ AnswerInv' /\ ResponseInv'
    BY <1>2, <2>1, EndKeeps DEF inputs, server
  <2>3. ReportInv'
    BY <1>2, <2>1, FailureKeeps DEF IInv, ExitCodes, ExitOK, ExitRequestError,
          ExitUnreachable, ExitServerError
  <2>4. LocalInv' BY <1>2, <1>3, <2>1, SentKeeps DEF Asked, inputs
  <2> QED BY <2>2, <2>3, <2>4 DEF IInv
<1> QED BY <1>4, <1>5

LEMMA CallFailsKeeps == ASSUME IInv, CallFails PROVE IInv'
<1>1. ScenarioInv' /\ StageInv' /\ WireInv' /\ AnswerInv' /\ ResponseInv' BY EndKeeps DEF CallFails, Stop
<1>2. ReportInv' BY FailureKeeps DEF IInv, CallFails, Stop, ExitCodes, ExitOK,
      ExitRequestError, ExitUnreachable, ExitServerError
<1>3. LocalInv'
  <2>1. /\ pc \in {"waiting", "answered"} /\ pc' = "done" /\ UNCHANGED <<inputs, wire>>
    BY DEF CallFails, Stop
  <2>2. wire # {} BY <2>1 DEF IInv, WireInv
  <2> QED BY <2>1, <2>2, SentKeeps DEF Asked
<1> QED BY <1>1, <1>2, <1>3 DEF IInv

LEMMA ReportCommandKeeps == ASSUME IInv, ReportCommand PROVE IInv'
<1>1. ScenarioInv' /\ StageInv' /\ WireInv' /\ AnswerInv' /\ ResponseInv' BY EndKeeps DEF ReportCommand, Stop
<1>2. ReportInv'
  <2>1. /\ pc = "answered" /\ pc' = "done" /\ exit' = ExitCodeForErrorCode(response)
        /\ CarriedOut' <=> CarriedOut
    BY DEF ReportCommand, Stop, inputs, server, CarriedOut
  <2>2. exit' \in ExitCodes /\ (exit' = ExitOK <=> response = 0)
    BY <2>1 DEF ExitCodeForErrorCode, IInv, ResponseInv, ExitCodes, ExitOK, ExitRequestError,
          ExitUnreachable, ExitServerError
  <2>3. exit' = ExitOK => CarriedOut' BY <2>1, <2>2 DEF IInv, ResponseInv
  <2>4. out' = IF response = 0 THEN "success" ELSE "nothing" BY DEF ReportCommand
  <2>5. out' \in {"success", "result"} => exit' = ExitOK BY <2>2, <2>4
  <2>6. out' \in {"nothing", "ignored", "success", "status", "result"} BY <2>4
  <2> QED BY <2>1, <2>2, <2>3, <2>5, <2>6 DEF ReportInv
<1>3. LocalInv'
  <2>1. /\ pc \in {"waiting", "answered"} /\ pc' = "done" /\ UNCHANGED <<inputs, wire>>
    BY DEF ReportCommand, Stop
  <2>2. wire # {} BY <2>1 DEF IInv, WireInv
  <2> QED BY <2>1, <2>2, SentKeeps DEF Asked
<1> QED BY <1>1, <1>2, <1>3 DEF IInv

LEMMA ReportServerStateKeeps == ASSUME IInv, ReportServerState PROVE IInv'
<1>1. ScenarioInv' /\ StageInv' /\ WireInv' /\ AnswerInv' /\ ResponseInv' BY EndKeeps DEF ReportServerState, Stop
<1>2. ReportInv'
  <2>1. /\ pc = "answered" /\ pc' = "done" /\ exit' = ExitCodeForErrorCode(response)
        /\ CarriedOut' <=> CarriedOut
    BY DEF ReportServerState, Stop, inputs, server, CarriedOut
  <2>2. exit' \in ExitCodes /\ (exit' = ExitOK <=> response = 0)
    BY <2>1 DEF ExitCodeForErrorCode, IInv, ResponseInv, ExitCodes, ExitOK, ExitRequestError,
          ExitUnreachable, ExitServerError
  <2>3. exit' = ExitOK => CarriedOut' BY <2>1, <2>2 DEF IInv, ResponseInv
  <2>4. out' = "status" BY DEF ReportServerState
  <2>5. out' \in {"success", "result"} => exit' = ExitOK BY <2>2, <2>4
  <2>6. out' \in {"nothing", "ignored", "success", "status", "result"} BY <2>4
  <2> QED BY <2>1, <2>2, <2>3, <2>5, <2>6 DEF ReportInv
<1>3. LocalInv'
  <2>1. /\ pc \in {"waiting", "answered"} /\ pc' = "done" /\ UNCHANGED <<inputs, wire>>
    BY DEF ReportServerState, Stop
  <2>2. wire # {} BY <2>1 DEF IInv, WireInv
  <2> QED BY <2>1, <2>2, SentKeeps DEF Asked
<1> QED BY <1>1, <1>2, <1>3 DEF IInv

LEMMA ReportQueryKeeps == ASSUME IInv, ReportQuery PROVE IInv'
<1>1. ScenarioInv' /\ StageInv' /\ WireInv' /\ AnswerInv' /\ ResponseInv' BY EndKeeps DEF ReportQuery, Stop
<1>2. ReportInv'
  <2>1. CarriedOut
    <3>1. pc = "answered" /\ inv.command \in Flagless BY DEF ReportQuery
    <3>2. response = 0 BY <3>1 DEF IInv, ResponseInv
    <3> QED BY <3>1, <3>2 DEF IInv, ResponseInv
  <2>2. CarriedOut' BY <2>1 DEF CarriedOut, ReportQuery, inputs, server
  <2>3. pc' = "done" /\ exit' = ExitOK /\ exit' \in ExitCodes BY DEF ReportQuery, Stop,
        ExitCodes
  <2>4. out' \in {"nothing", "ignored", "success", "status", "result"} BY DEF ReportQuery
  <2> QED BY <2>2, <2>3, <2>4 DEF ReportInv
<1>3. LocalInv'
  <2>1. /\ pc \in {"waiting", "answered"} /\ pc' = "done" /\ UNCHANGED <<inputs, wire>>
    BY DEF ReportQuery, Stop
  <2>2. wire # {} BY <2>1 DEF IInv, WireInv
  <2> QED BY <2>1, <2>2, SentKeeps DEF Asked
<1> QED BY <1>1, <1>2, <1>3 DEF IInv

LEMMA ReportViewKeeps == ASSUME IInv, ReportView PROVE IInv'
<1>1. ScenarioInv' /\ StageInv' /\ WireInv' /\ AnswerInv' /\ ResponseInv' BY EndKeeps DEF ReportView, Stop
<1>2. ReportInv'
  <2>1. CASE response = 0 /\ out' = "result" /\ Stop(ExitOK)
    <3>1. CarriedOut' BY <2>1 DEF IInv, ResponseInv, CarriedOut, ReportView, inputs, server
    <3>2. pc' = "done" /\ exit' = ExitOK /\ exit' \in ExitCodes BY <2>1 DEF Stop, ExitCodes
    <3>3. out' \in {"nothing", "ignored", "success", "status", "result"} BY <2>1
    <3> QED BY <3>1, <3>2, <3>3 DEF ReportInv
  <2>2. CASE out' = "nothing" /\ \E code \in ExitCodes \ {ExitOK} : Stop(code)
    <3>1. pc = "answered" /\ pc' = "done" /\ exit' \in ExitCodes \ {ExitOK} BY <2>2 DEF
          ReportView, Stop
    <3>2. out' = out BY <2>2, <3>1 DEF IInv, ReportInv
    <3>3. pc # "done" BY <3>1
    <3> QED BY <3>1, <3>2, <3>3, FailureKeeps DEF IInv
  <2> QED BY <2>1, <2>2 DEF ReportView
<1>3. LocalInv'
  <2>1. /\ pc \in {"waiting", "answered"} /\ pc' = "done" /\ UNCHANGED <<inputs, wire>>
    BY DEF ReportView, Stop
  <2>2. wire # {} BY <2>1 DEF IInv, WireInv
  <2> QED BY <2>1, <2>2, SentKeeps DEF Asked
<1> QED BY <1>1, <1>2, <1>3 DEF IInv

LEMMA ServerAnswersKeeps == ASSUME IInv, ServerAnswers PROVE IInv'
<1>1. PICK flag \in IF inv.command \in Flagless THEN {0} ELSE Flags, wellFormed \in BOOLEAN :
          /\ answers' = {AnswerOf(Mine, inv.command, flag, wellFormed)}
          /\ accepted' = IF flag = 0 THEN accepted \cup {Mine} ELSE accepted
  BY DEF ServerAnswers
<1>2. wire # {} /\ UNCHANGED <<inv, env, files, version, pc, client, message, channel, metadata, wire, response, out, exit>>
  BY DEF ServerAnswers, inputs
<1>3. accepted' \subseteq {Mine} /\ (accepted = {Mine} => accepted' = {Mine})
  BY <1>1 DEF IInv, AnswerInv
<1>4. CarriedOut => CarriedOut' BY <1>2, <1>3 DEF CarriedOut
<1>5. ScenarioInv' BY <1>2 DEF IInv, ScenarioInv
<1>6. StageInv'
  BY <1>2 DEF IInv, StageInv, ClientFrom, ClientOf, CaFile, BuildMetadata, IsChild, SecretFile
<1>7. WireInv'
  <2>1. /\ Request' = Request
        /\ CaFile(client.ca)' = CaFile(client.ca)
        /\ BuildMetadata(client.secretFile)' = BuildMetadata(client.secretFile)
        /\ \A v : ClientFrom(v)' <=> ClientFrom(v)
    BY <1>2 DEF Request, CaFile, BuildMetadata, IsChild, SecretFile, ClientFrom, ClientOf
  <2> QED BY <1>2, <2>1 DEF IInv, WireInv
<1>8. AnswerInv'
  <2>1. inv.command \in Flagless => flag = 0 OBVIOUS
  <2>2. flag = 0 \/ flag \in Flags OBVIOUS
  <2>3. flag \in Nat BY <2>2, CommandLineAssumption
  <2>4. flag = 0 => accepted' = {Mine} BY <1>1 DEF IInv, AnswerInv
  <2>5. \A answer \in answers' : answer.flag = flag /\ answer.trace = Mine BY <1>1 DEF AnswerOf
  <2>6. ASSUME NEW answer \in answers' PROVE TrueAnswer(answer)'
    <3>1. Foreign # Mine BY DEF Foreign, Mine
    <3> QED BY <1>2, <2>1, <2>3, <2>4, <2>5, <3>1 DEF TrueAnswer
  <2> QED BY <1>3, <2>6 DEF AnswerInv
<1>9. ResponseInv' BY <1>2, <1>4 DEF IInv, ResponseInv
<1>10. ReportInv' BY <1>2, <1>4 DEF IInv, ReportInv, Ignored, IsChild
<1>11. LocalInv'
  BY <1>2 DEF IInv, LocalInv, Mistake, Ignored, IsChild, CaFile, CredentialsOK, SecretFile
<1> QED BY <1>5, <1>6, <1>7, <1>8, <1>9, <1>10, <1>11 DEF IInv

LEMMA ProxyAnswersKeeps == ASSUME IInv, ProxyAnswers PROVE IInv'
<1>1. PICK command \in {inv.command, "ping"} : answers' = {AnswerOf(Foreign, command, 0, TRUE)}
  BY DEF ProxyAnswers
<1>2. /\ wire # {} /\ client.transport = "http"
      /\ UNCHANGED <<inv, env, files, version, pc, client, message, channel, metadata, wire, accepted, response, out, exit>>
  BY DEF ProxyAnswers, inputs
<1>3. ScenarioInv' BY <1>2 DEF IInv, ScenarioInv
<1>4. StageInv'
  BY <1>2 DEF IInv, StageInv, ClientFrom, ClientOf, CaFile, BuildMetadata, IsChild, SecretFile
<1>5. WireInv'
  <2>1. /\ Request' = Request
        /\ CaFile(client.ca)' = CaFile(client.ca)
        /\ BuildMetadata(client.secretFile)' = BuildMetadata(client.secretFile)
        /\ \A v : ClientFrom(v)' <=> ClientFrom(v)
    BY <1>2 DEF Request, CaFile, BuildMetadata, IsChild, SecretFile, ClientFrom, ClientOf
  <2> QED BY <1>2, <2>1 DEF IInv, WireInv
<1>6. AnswerInv'
  <2>1. \A answer \in answers' : answer.flag = 0 /\ answer.trace = Foreign BY <1>1 DEF AnswerOf
  <2>2. ASSUME NEW answer \in answers' PROVE TrueAnswer(answer)'
    <3>1. Foreign # Mine BY DEF Foreign, Mine
    <3> QED BY <1>2, <2>1, <3>1 DEF TrueAnswer
  <2> QED BY <1>2, <2>2 DEF IInv, AnswerInv
<1>7. ResponseInv' BY <1>2 DEF IInv, ResponseInv, CarriedOut
<1>8. ReportInv' BY <1>2 DEF IInv, ReportInv, CarriedOut, Ignored, IsChild
<1>9. LocalInv'
  BY <1>2 DEF IInv, LocalInv, Mistake, Ignored, IsChild, CaFile, CredentialsOK, SecretFile
<1> QED BY <1>3, <1>4, <1>5, <1>6, <1>7, <1>8, <1>9 DEF IInv

LEMMA ServerMovesKeeps == ASSUME IInv, ServerMoves PROVE IInv'
<1>1. /\ version < Len(files) /\ version' = version + 1
      /\ UNCHANGED <<inv, env, files, pc, client, message, channel, metadata, wire, answers, accepted, response, out, exit>>
  BY DEF ServerMoves, inputs, server
<1>2. ScenarioInv' BY <1>1 DEF IInv, ScenarioInv
<1>3. StageInv'
  BY <1>1 DEF IInv, StageInv, ClientFrom, ClientOf, CaFile, BuildMetadata, IsChild, SecretFile
<1>4. WireInv'
  <2>1. /\ Request' = Request
        /\ CaFile(client.ca)' = CaFile(client.ca)
        /\ BuildMetadata(client.secretFile)' = BuildMetadata(client.secretFile)
        /\ \A v : ClientFrom(v)' <=> ClientFrom(v)
    BY <1>1 DEF Request, CaFile, BuildMetadata, IsChild, SecretFile, ClientFrom, ClientOf
  <2> QED BY <1>1, <2>1 DEF IInv, WireInv
<1>5. AnswerInv' BY <1>1 DEF IInv, AnswerInv, TrueAnswer
<1>6. ResponseInv' BY <1>1 DEF IInv, ResponseInv, CarriedOut
<1>7. ReportInv' BY <1>1 DEF IInv, ReportInv, CarriedOut, Ignored, IsChild
<1>8. LocalInv'
  BY <1>1 DEF IInv, LocalInv, Mistake, Ignored, IsChild, CaFile, CredentialsOK, SecretFile
<1> QED BY <1>2, <1>3, <1>4, <1>5, <1>6, <1>7, <1>8 DEF IInv

LEMMA StutterKeeps == ASSUME IInv, UNCHANGED vars PROVE IInv'
<1> USE DEF IInv, vars, inputs, server
<1>1. ScenarioInv' BY DEF ScenarioInv
<1>2. StageInv'
  BY DEF StageInv, ClientFrom, ClientOf, CaFile, BuildMetadata, IsChild, SecretFile
<1>3. WireInv'
  <2>1. Request' = Request /\ CaFile(client.ca)' = CaFile(client.ca) BY DEF Request, CaFile
  <2>2. BuildMetadata(client.secretFile)' = BuildMetadata(client.secretFile)
    BY DEF BuildMetadata, IsChild, SecretFile
  <2>3. \A v : ClientFrom(v)' <=> ClientFrom(v) BY DEF ClientFrom, ClientOf
  <2> QED BY <2>1, <2>2, <2>3 DEF WireInv
<1>4. AnswerInv' BY DEF AnswerInv, TrueAnswer
<1>5. ResponseInv' BY DEF ResponseInv, CarriedOut
<1>6. ReportInv' BY DEF ReportInv, CarriedOut, Ignored, IsChild
<1>7. LocalInv'
  BY DEF LocalInv, Mistake, Ignored, IsChild, CaFile, CredentialsOK, SecretFile
<1> QED BY <1>1, <1>2, <1>3, <1>4, <1>5, <1>6, <1>7

LEMMA InitIInv == Init => IInv
<1> SUFFICES ASSUME Init PROVE IInv OBVIOUS
<1>1. PICK s \in Scenarios : inv = s.inv /\ env = s.env /\ files = s.files BY DEF Init
<1>2. /\ version = 1 /\ pc = "start" /\ client = NoClient
      /\ wire = {} /\ answers = {} /\ accepted = {}
      /\ response = 0 /\ out = "nothing" /\ exit = ExitOK
  BY DEF Init
<1>3. ScenarioInv
  <2>1. /\ inv.command \in AllCommands /\ env \in Environments
        /\ files \in Seq(ConnectFiles) /\ files # <<>>
    BY <1>1, CommandLineAssumption
  <2>2. 1 \in DOMAIN files BY <2>1
  <2> QED BY <1>2, <2>1, <2>2 DEF ScenarioInv
<1>4. StageInv
  <2>1. client.transport \in {"grpc", "http"} BY <1>2 DEF NoClient
  <2> QED BY <1>2, <2>1 DEF StageInv, Silent, WithClient, WithChannel, WithMetadata
<1>5. WireInv BY <1>2 DEF WireInv
<1>6. AnswerInv /\ ResponseInv BY <1>2 DEF AnswerInv, ResponseInv
<1>7. ReportInv BY <1>2 DEF ReportInv, ExitCodes
<1>8. LocalInv BY <1>2 DEF LocalInv, WithClient
<1> QED BY <1>3, <1>4, <1>5, <1>6, <1>7, <1>8 DEF IInv

----------------------------------------------------------------------------
(***************************************************************************)
(* Theorems                                                                *)
(***************************************************************************)

\* However a process goes, from any scenario: what it has settled so far is of one
\* version of the connect file, and what it says at the end is explained.
THEOREM CommandLineSafe == Spec => []IInv
<1>1. Init => IInv BY InitIInv
<1>2. IInv /\ [Next]_vars => IInv'
  <2> SUFFICES ASSUME IInv, [Next]_vars PROVE IInv' OBVIOUS
  <2>1. CASE Client
    BY <2>1, ParseKeeps, IgnoreKeeps, CheckAttemptKeeps, NewClientKeeps, NewClientFailsKeeps,
       BuildRequestKeeps, OpenKeeps, OpenRefusedKeeps, AuthenticateKeeps, SendKeeps,
       SendRefusedKeeps, ReceiveKeeps,
       CallFailsKeeps, ReportCommandKeeps, ReportServerStateKeeps, ReportQueryKeeps, ReportViewKeeps
    DEF Client
  <2>2. CASE ServerAnswers \/ ProxyAnswers \/ ServerMoves
    BY <2>2, ServerAnswersKeeps, ProxyAnswersKeeps, ServerMovesKeeps
  <2>3. CASE UNCHANGED vars BY <2>3, StutterKeeps
  <2> QED BY <2>1, <2>2, <2>3 DEF Next
<1> QED BY <1>1, <1>2, PTL DEF Spec

\* The variables have their types.
THEOREM CommandLineTypeCorrect == Spec => []TypeOK
<1>1. IInv => TypeOK
  <2> SUFFICES ASSUME IInv PROVE TypeOK OBVIOUS
  <2>1. inv.command \in AllCommands /\ env \in Environments /\ files \in Seq(ConnectFiles) /\ version \in DOMAIN files
    BY DEF IInv, ScenarioInv
  <2>2. pc \in Stages BY DEF IInv, StageInv, Silent, Asked, Stages
  <2>3. client.transport \in {"grpc", "http"} BY DEF IInv, StageInv
  <2>4. (\A answer \in answers : answer.flag \in Nat) /\ accepted \subseteq {Mine} /\ response \in Nat
    BY DEF IInv, AnswerInv, TrueAnswer, ResponseInv
  <2>5. exit \in ExitCodes BY DEF IInv, ReportInv
  <2>6. out \in {"nothing", "ignored", "success", "status", "result"} BY DEF IInv, ReportInv
  <2> QED BY <2>1, <2>2, <2>3, <2>4, <2>5, <2>6 DEF TypeOK
<1> QED BY <1>1, CommandLineSafe, PTL

\* Exit code 0 is never the report of a command the server did not carry out, but
\* for an ignored child command and the pages of show and sync over HTTP.
THEOREM SuccessIsTrue == Spec => []SuccessMeansAccepted
<1>1. IInv => SuccessMeansAccepted BY DEF IInv, ReportInv, CarriedOut, SuccessMeansAccepted
<1> QED BY <1>1, CommandLineSafe, PTL

\* A mistake the client can see is noticed before anything is sent, whatever the
\* connect files say; without one, only the transport's own refusal of the target or
\* of the request stops a command before its request is sent.
THEOREM MistakesAreLocal == Spec => []MistakesStayLocal
<1>1. IInv => MistakesStayLocal
  <2> SUFFICES ASSUME IInv PROVE MistakesStayLocal OBVIOUS
  <2> DEFINE ignored == Ignored /\ ~UsageError(inv)
             byGrpc == exit = ExitUnreachable /\ client.transport = "grpc"
             byHttp == exit = ExitRequestError /\ client.transport = "http"
  <2>1. ignored => wire = {} /\ exit = ExitOK BY DEF IInv, LocalInv
  <2>2. pc = "done" /\ wire = {} /\ ~ignored =>
           \/ exit = ExitRequestError /\ \E v \in DOMAIN files : Mistake(files[v])
           \/ byGrpc
           \/ byHttp
    BY DEF IInv, LocalInv
  <2>3. (\A v \in DOMAIN files : Mistake(files[v])) => wire = {} BY DEF IInv, LocalInv
  <2>4. ExitRequestError # ExitOK /\ ExitUnreachable # ExitOK
    BY DEF ExitRequestError, ExitOK, ExitUnreachable
  <2> QED BY <2>1, <2>2, <2>3, <2>4 DEF MistakesStayLocal
<1> QED BY <1>1, CommandLineSafe, PTL

\* The password goes with a job's reports and the secret with an operator's
\* commands, and a CA certificate given by option, environment or every version of
\* the connect file is used.
THEOREM CredentialsFit == Spec => []CredentialsFitTheKind
<1>1. IInv => CredentialsFitTheKind
  <2> SUFFICES ASSUME IInv, NEW r \in wire
               PROVE  /\ IF IsChild THEN r.metadata.user = "" /\ r.metadata.secret = ""
                                    ELSE r.metadata.pass = ""
                      /\ \/ r.ca \notin Blank
                         \/ /\ {Text(inv, "tls-ca"), env.ca} \subseteq Blank
                            /\ \E v \in DOMAIN files : files[v].ca \in Blank
    BY DEF CredentialsFitTheKind
  <2>1. /\ r = Request
        /\ metadata = BuildMetadata(client.secretFile)
        /\ channel.ca = CaFile(client.ca)
    BY DEF IInv, WireInv
  <2>2. r.metadata = BuildMetadata(client.secretFile) /\ r.ca = CaFile(client.ca)
    BY <2>1 DEF Request
  <2>3. IsChild => r.metadata.user = "" /\ r.metadata.secret = ""
    <3> DEFINE pass == IF env.pass \in Blank THEN "" ELSE env.pass
    <3> HIDE DEF pass
    <3>1. IsChild => r.metadata = [NoMetadata EXCEPT !.pass = pass] BY <2>2 DEF BuildMetadata,
          pass
    <3> QED BY <3>1 DEF NoMetadata
  <2>4. ~IsChild => r.metadata.pass = ""
    <3> DEFINE secret == SecretIn(SecretFile(client.secretFile))
    <3> HIDE DEF secret
    <3>1. ~IsChild => r.metadata = [NoMetadata EXCEPT !.user = env.user, !.secret = secret]
      BY <2>2 DEF BuildMetadata, secret
    <3> QED BY <3>1 DEF NoMetadata
  <2>5. PICK v \in DOMAIN files : client.ca = files[v].ca
    BY DEF IInv, WireInv, ClientFrom
  <2>6. r.ca \in Blank => {Text(inv, "tls-ca"), env.ca} \subseteq Blank /\ files[v].ca \in Blank
    <3> DEFINE flag == Text(inv, "tls-ca")
    <3>1. r.ca = FirstOf(<<flag, env.ca, client.ca>>, Blank) BY <2>2 DEF CaFile, ResolveWithEnv
    <3> HIDE DEF flag
    <3>2. FirstOf(<<flag, env.ca, client.ca>>, Blank) = IF flag \notin Blank THEN flag
                                                       ELSE IF env.ca \notin Blank THEN env.ca
                                                       ELSE IF client.ca \notin Blank THEN client.ca ELSE ""
      BY FirstOfThree
    <3>3. r.ca \in Blank => flag \in Blank /\ env.ca \in Blank /\ client.ca \in Blank
      BY <3>1, <3>2
    <3>4. r.ca \in Blank => {flag, env.ca} \subseteq Blank /\ files[v].ca \in Blank BY <3>3, <2>5
    <3> QED BY <3>4 DEF flag
  <2> QED BY <2>3, <2>4, <2>6
<1> QED BY <1>1, CommandLineSafe, PTL

\* Address, certificate and secret of a request are of one version of the connect
\* file, and the port fits the transport.
THEOREM OneConfiguration == Spec => []OneServerConfiguration
<1>1. IInv => OneServerConfiguration
  <2> SUFFICES ASSUME IInv, NEW r \in wire
               PROVE  \E v \in DOMAIN files :
                        LET config == files[v]
                        IN  /\ r.host = IF Text(inv, "host") # "" THEN Text(inv, "host")
                                        ELSE IF env.connectFile THEN config.host
                                        ELSE FirstOf(<<env.host, DefaultHost>>, Absent)
                            /\ Text(inv, "port") = "" /\ env.connectFile =>
                                  r.port = IF r.transport = "http" /\ config.httpPort # ""
                                           THEN config.httpPort ELSE config.port
                            /\ r.ca = CaFile(config.ca)
                            /\ ~IsChild => r.metadata.secret = SecretIn(SecretFile(config.secretFile))
    BY DEF OneServerConfiguration
  <2>1. /\ r = Request
        /\ metadata = BuildMetadata(client.secretFile)
        /\ channel.ca = CaFile(client.ca)
    BY DEF IInv, WireInv
  <2>2. PICK v \in DOMAIN files : ClientFrom(v) BY DEF IInv, WireInv
  <2> DEFINE config == files[v]
             target == ClientOf(config)
             address == Address(env, config)
             transport == ResolveTransport(config.transport, env.transport)
             httpPort == IF transport = "http" THEN config.httpPort ELSE ""
  <2>3. /\ client.host = target.host /\ client.port = target.port /\ client.transport = target.transport
        /\ client.ca = config.ca /\ client.secretFile = config.secretFile
    BY <2>2 DEF ClientFrom
  <2>4. /\ target.host = FirstOf(<<Text(inv, "host"), address.host>>, Absent)
        /\ target.port = FirstOf(<<Text(inv, "port"), httpPort, address.port>>, Absent)
        /\ target.transport = transport
    BY DEF ClientOf, ResolveServerTarget
  <2>5. /\ r.host = target.host /\ r.port = target.port /\ r.transport = target.transport
        /\ r.ca = CaFile(config.ca) /\ r.metadata = BuildMetadata(config.secretFile)
    BY <2>1, <2>3 DEF Request
  <2>6. r.host = IF Text(inv, "host") # "" THEN Text(inv, "host") ELSE address.host
    <3> DEFINE host == Text(inv, "host")
               host2 == address.host
    <3>1. r.host = FirstOf(<<host, host2>>, Absent) BY <2>4, <2>5
    <3> HIDE DEF host, host2
    <3>2. FirstOf(<<host, host2>>, Absent) = IF host \notin Absent THEN host
                                             ELSE IF host2 \notin Absent THEN host2 ELSE ""
      BY FirstOfTwo
    <3>3. r.host = IF host # "" THEN host ELSE host2 BY <3>1, <3>2 DEF Absent
    <3> QED BY <3>3 DEF host, host2
  <2>7. address.host = IF env.connectFile THEN config.host ELSE FirstOf(<<env.host, DefaultHost>>, Absent)
    BY DEF Address
  <2>8. env.connectFile => address.port = config.port BY DEF Address
  <2>9. Text(inv, "port") = "" => r.port = IF httpPort # "" THEN httpPort ELSE address.port
    <3> DEFINE port == Text(inv, "port")
               port3 == address.port
    <3>1. r.port = FirstOf(<<port, httpPort, port3>>, Absent) BY <2>4, <2>5
    <3> HIDE DEF httpPort, port, port3
    <3>2. FirstOf(<<port, httpPort, port3>>, Absent) =
              IF port \notin Absent THEN port
              ELSE IF httpPort \notin Absent THEN httpPort
              ELSE IF port3 \notin Absent THEN port3 ELSE ""
      BY FirstOfThree
    <3>3. port = "" => r.port = IF httpPort # "" THEN httpPort ELSE port3 BY <3>1, <3>2 DEF
          Absent
    <3> QED BY <3>3 DEF port, port3
  <2>10. ~IsChild => r.metadata.secret = SecretIn(SecretFile(config.secretFile))
    <3> DEFINE secret == SecretIn(SecretFile(config.secretFile))
    <3> HIDE DEF secret
    <3>1. ~IsChild => r.metadata = [NoMetadata EXCEPT !.user = env.user, !.secret = secret]
      BY <2>5 DEF BuildMetadata, secret
    <3>2. ~IsChild => r.metadata.secret = secret BY <3>1 DEF NoMetadata
    <3> QED BY <3>2 DEF secret
  <2>11. r.host = IF Text(inv, "host") # "" THEN Text(inv, "host")
                  ELSE IF env.connectFile THEN config.host
                  ELSE FirstOf(<<env.host, DefaultHost>>, Absent)
    BY <2>6, <2>7
  <2>12. Text(inv, "port") = "" /\ env.connectFile =>
            r.port = IF r.transport = "http" /\ config.httpPort # "" THEN config.httpPort ELSE config.port
    BY <2>4, <2>5, <2>8, <2>9
  <2> QED BY <2>5, <2>10, <2>11, <2>12
<1> QED BY <1>1, CommandLineSafe, PTL

----------------------------------------------------------------------------
(***************************************************************************)
(* The message on either transport                                         *)
(***************************************************************************)

\* A name of an enumeration is found again by its number.
LEMMA NameOfNumber ==
    ASSUME NEW enum, \A i \in DOMAIN enum : i \in Int, NEW name \in Names(enum)
    PROVE  enum[NumberOf(enum, name) + 1] = name
<1> DEFINE pos == CHOOSE i \in DOMAIN enum : enum[i] = name
<1>1. \E i \in DOMAIN enum : enum[i] = name BY DEF Names
<1>2. pos \in DOMAIN enum /\ enum[pos] = name BY <1>1
<1>3. pos \in Int BY <1>2
<1> HIDE DEF pos
<1>4. (pos - 1) + 1 = pos BY <1>3
<1> QED BY <1>2, <1>4 DEF NumberOf, pos

\* The payload of a command without fields is the empty one.
LEMMA Nothing ==
    ASSUME NEW c, PayloadFields(c) = {}, NEW m
    PROVE  Payload(c, m) = <<>>
<1> DEFINE p == Payload(c, m)
<1>1. p \in [{} -> {}] BY DEF Payload
<1>2. 1 .. 0 = {} /\ 0 \in Nat OBVIOUS
<1>3. p \in [1 .. 0 -> {}] BY <1>1, <1>2
<1> HIDE DEF p
<1>4. p \in Seq({}) BY <1>2, <1>3, SeqDef
<1>5. Len(p) = 0 BY <1>2, <1>3, <1>4, LenProperties
<1> QED BY <1>4, <1>5, EmptySeq DEF p

\* The child options arrive unflattened, with no source path unless the command has one.
LEMMA SameOptions ==
    ASSUME NEW c \in ChildCommands, NEW m, NEW n, NEW a, NEW s,
           m.child_options = [node_path |-> n, attempt_id |-> a, source_task_path |-> s],
           c \notin {"event", "meter"} => s = ""
    PROVE  ReadAs(m, Payload(c, m), "child_options")
<1> DEFINE p == Payload(c, m)
<1>1. /\ {"node_path", "attempt_id"} \subseteq DOMAIN p
      /\ "source_task_path" \in DOMAIN p <=> c \in {"event", "meter"}
  BY DEF Payload, PayloadFields, ChildPayload, ChildCommands
<1>2. \A f \in DOMAIN p \cap {"node_path", "attempt_id", "source_task_path"} : p[f] = m.child_options[f]
  BY DEF Payload
<1> HIDE DEF p
<1> DEFINE o == m.child_options
<1>3. o = [node_path |-> n, attempt_id |-> a, source_task_path |-> s] OBVIOUS
<1> HIDE DEF o
<1>4. o["node_path"] = n /\ o["attempt_id"] = a /\ o["source_task_path"] = s BY <1>3
<1>5. p["node_path"] = n /\ p["attempt_id"] = a BY <1>1, <1>2, <1>4 DEF o
<1>6. "source_task_path" \in DOMAIN p => p["source_task_path"] = s BY <1>2, <1>4 DEF o
<1>7. Child(p) = [node_path |-> n, attempt_id |-> a, source_task_path |-> s]
  BY <1>1, <1>5, <1>6 DEF Child
<1> QED BY <1>1, <1>7 DEF ReadAs, p

\* The fields that travel as they are.
Plainly ==
    {"task_id", "reason", "event_name", "meter_name", "meter_value", "force", "recursive", "flow_type",
     "target_path", "flow_name"}

\* They arrive unchanged.
LEMMA SamePlainly ==
    ASSUME NEW c, NEW m, NEW f \in Plainly \cap PayloadFields(c)
    PROVE  ReadAs(m, Payload(c, m), f)
BY DEF ReadAs, Payload, Plainly

\* Lists of paths are renamed and arrive unchanged.
LEMMA SamePaths ==
    ASSUME NEW c, NEW m
    PROVE  /\ "node_paths" \in PayloadFields(c) => ReadAs(m, Payload(c, m), "node_path")
           /\ "paths" \in PayloadFields(c) => ReadAs(m, Payload(c, m), "path")
BY DEF ReadAs, Payload

\* File contents travel in base64 and arrive unchanged.
LEMMA SameContent ==
    ASSUME NEW c, NEW m, "flow_bytes" \in PayloadFields(c)
    PROVE  ReadAs(m, Payload(c, m), "flow")
BY DEF ReadAs, Payload, Base64, FromBase64

\* A state travels as its name and is read back as its number.
LEMMA SameState ==
    ASSUME NEW c, NEW m, "state" \in PayloadFields(c), NEW name \in Names(ForceStates),
           m.state = NumberOf(ForceStates, name)
    PROVE  ReadAs(m, Payload(c, m), "state")
<1>1. \A i \in DOMAIN ForceStates : i \in Int BY DEF ForceStates
<1>2. ForceStates[m.state + 1] = name BY <1>1, NameOfNumber
<1> QED BY <1>2 DEF ReadAs, Payload

\* So does the kind of a dependency.
LEMMA SameDepType ==
    ASSUME NEW c, NEW m, "dep_type" \in PayloadFields(c), NEW name \in Names(DepTypes),
           m.dep_type = NumberOf(DepTypes, name)
    PROVE  ReadAs(m, Payload(c, m), "dep_type")
<1>1. \A i \in DOMAIN DepTypes : i \in Int BY DEF DepTypes
<1>2. DepTypes[m.dep_type + 1] = name BY <1>1, NameOfNumber
<1> QED BY <1>2 DEF ReadAs, Payload

\* A child command whose other fields travel as they are is read as it was meant.
LEMMA SameReport ==
    ASSUME NEW c \in ChildCommands, NEW m, NEW source,
           m.child_options = ChildOptions(inv, env, source),
           c \notin {"event", "meter"} => source = "",
           \A f \in DOMAIN m : f = "child_options" \/ f \in Plainly \cap PayloadFields(c)
    PROVE  SameRequest(m, Payload(c, m))
<1> SUFFICES ASSUME NEW f \in DOMAIN m PROVE ReadAs(m, Payload(c, m), f) BY DEF SameRequest
<1>1. CASE f = "child_options" BY <1>1, SameOptions DEF ChildOptions
<1>2. CASE f \in Plainly \cap PayloadFields(c) BY <1>2, SamePlainly
<1> QED BY <1>1, <1>2

\* Every child command arrives as it was meant.
LEMMA SameChild ==
    ASSUME inv.command \in ChildCommands
    PROVE  SameRequest(Message(inv, env), Payload(inv.command, Message(inv, env)))
<1> DEFINE c == inv.command
           m == Message(inv, env)
           own == ChildOptions(inv, env, "")
           source == ChildOptions(inv, env, SourceTaskPath(inv, env))
<1>1. m = ChildMessage(inv, env) BY DEF Message, ChildCommands, BatchCommands
<1> HIDE DEF m
<1>2. CASE c = "init"
  <2>1. m = [child_options |-> own, task_id |-> Text(inv, "task-id")]
    BY <1>1, <1>2 DEF ChildMessage
  <2>2. m.child_options = own BY <2>1
  <2>3. \A f \in DOMAIN m : f = "child_options" \/ f \in Plainly \cap PayloadFields(c)
    BY <1>2, <2>1 DEF Plainly, PayloadFields
  <2> QED BY <1>2, <2>2, <2>3, SameReport DEF ChildCommands, m
<1>3. CASE c = "complete"
  <2>1. m = [child_options |-> own]
    BY <1>1, <1>3 DEF ChildMessage
  <2>2. m.child_options = own BY <2>1
  <2>3. \A f \in DOMAIN m : f = "child_options" \/ f \in Plainly \cap PayloadFields(c)
    BY <1>3, <2>1 DEF Plainly, PayloadFields
  <2> QED BY <1>3, <2>2, <2>3, SameReport DEF ChildCommands, m
<1>4. CASE c = "abort"
  <2>1. m = [child_options |-> own, reason |-> Text(inv, "reason")]
    BY <1>1, <1>4 DEF ChildMessage
  <2>2. m.child_options = own BY <2>1
  <2>3. \A f \in DOMAIN m : f = "child_options" \/ f \in Plainly \cap PayloadFields(c)
    BY <1>4, <2>1 DEF Plainly, PayloadFields
  <2> QED BY <1>4, <2>2, <2>3, SameReport DEF ChildCommands, m
<1>5. CASE c = "event"
  <2>1. m = [child_options |-> source, event_name |-> Text(inv, "event-name")]
    BY <1>1, <1>5 DEF ChildMessage
  <2>2. m.child_options = source BY <2>1
  <2>3. \A f \in DOMAIN m : f = "child_options" \/ f \in Plainly \cap PayloadFields(c)
    BY <1>5, <2>1 DEF Plainly, PayloadFields
  <2> QED BY <1>5, <2>2, <2>3, SameReport DEF ChildCommands, m
<1>6. CASE c = "meter"
  <2>1. m = [child_options |-> source, meter_name |-> Text(inv, "meter-name"),
             meter_value |-> Text(inv, "meter-value")]
    BY <1>1, <1>6 DEF ChildMessage
  <2>2. m.child_options = source BY <2>1
  <2>3. \A f \in DOMAIN m : f = "child_options" \/ f \in Plainly \cap PayloadFields(c)
    BY <1>6, <2>1 DEF Plainly, PayloadFields
  <2> QED BY <1>6, <2>2, <2>3, SameReport DEF ChildCommands, m
<1> QED BY <1>2, <1>3, <1>4, <1>5, <1>6 DEF ChildCommands

\* So does every command on nodes whose arguments are accepted,
LEMMA SameNode ==
    ASSUME inv.command \in BatchCommands \ {"begin"}, ArgumentsOK(inv)
    PROVE  SameRequest(Message(inv, env), Payload(inv.command, Message(inv, env)))
<1> DEFINE c == inv.command
           m == Message(inv, env)
           p == Payload(c, m)
<1>1. m = NodeMessage(inv) BY DEF Message, BatchCommands, ChildCommands
<1> SUFFICES ASSUME NEW f \in DOMAIN m PROVE ReadAs(m, p, f) BY DEF SameRequest
<1>2. CASE c \in {"requeue", "suspend", "resume"}
  <2>1. f = "node_path" /\ "node_paths" \in PayloadFields(c) BY <1>1, <1>2 DEF NodeMessage, PayloadFields
  <2> QED BY <2>1, SamePaths
<1>3. CASE c = "run"
  <2>1. f \in {"node_path", "force"} /\ {"node_paths", "force"} = PayloadFields(c)
    BY <1>1, <1>3 DEF NodeMessage, PayloadFields
  <2> QED BY <2>1, SamePaths, SamePlainly DEF Plainly
<1>4. CASE c = "force"
  <2>1. f \in {"path", "state", "recursive"} /\ {"paths", "state", "recursive"} = PayloadFields(c)
    BY <1>1, <1>4 DEF NodeMessage, PayloadFields
  <2>2. m.state = NumberOf(ForceStates, inv.args[1]) BY <1>1, <1>4 DEF NodeMessage
  <2>3. inv.args[1] \in Names(ForceStates) BY <1>4 DEF ArgumentsOK
  <2> HIDE DEF m
  <2> QED BY <2>1, <2>2, <2>3, SamePaths, SamePlainly, SameState DEF Plainly
<1>5. CASE c = "free-dep"
  <2>1. f \in {"path", "dep_type"} /\ {"paths", "dep_type"} = PayloadFields(c)
    BY <1>1, <1>5 DEF NodeMessage, PayloadFields
  <2>2. m.dep_type = NumberOf(DepTypes, DepType(inv)) BY <1>1, <1>5 DEF NodeMessage
  <2>3. DepType(inv) \in Names(DepTypes) BY <1>5 DEF ArgumentsOK
  <2> HIDE DEF m
  <2> QED BY <2>1, <2>2, <2>3, SamePaths, SameDepType
<1> QED BY <1>2, <1>3, <1>4, <1>5 DEF BatchCommands

\* every command on flows,
LEMMA SameFlow ==
    ASSUME inv.command \in {"load", "begin", "replace"}
    PROVE  SameRequest(Message(inv, env), Payload(inv.command, Message(inv, env)))
<1> DEFINE c == inv.command
           m == Message(inv, env)
           p == Payload(c, m)
<1>1. m = FlowMessage(inv) BY DEF Message, ChildCommands, BatchCommands
<1> SUFFICES ASSUME NEW f \in DOMAIN m PROVE ReadAs(m, p, f) BY DEF SameRequest
<1>2. \/ f = "flow" /\ "flow_bytes" \in PayloadFields(c)
      \/ f \in Plainly \cap PayloadFields(c)
  <2>1. CASE c = "load" BY <1>1, <2>1 DEF FlowMessage, Plainly, PayloadFields
  <2>2. CASE c = "begin" BY <1>1, <2>2 DEF FlowMessage, Plainly, PayloadFields
  <2>3. CASE c = "replace" BY <1>1, <2>3 DEF FlowMessage, Plainly, PayloadFields
  <2> QED BY <2>1, <2>2, <2>3
<1> HIDE DEF m
<1> QED BY <1>2, SameContent, SamePlainly

\* and every command without a message.
LEMMA SameNothing ==
    ASSUME inv.command \in {"ping", "coroutine", "server-status", "server-halt", "server-resume"}
    PROVE  SameRequest(Message(inv, env), Payload(inv.command, Message(inv, env)))
<1>1. Message(inv, env) = [nothing |-> TRUE] BY DEF Message, ChildCommands, BatchCommands
<1>2. PayloadFields(inv.command) = {} BY DEF PayloadFields
<1> QED BY <1>1, <1>2, Nothing DEF SameRequest, ReadAs

\* From the moment it is built, and as long as a request is out, the message is
\* the one of the invocation.
MessageInv ==
    /\ pc \in {"built", "open", "ready", "waiting", "answered"} => message = Message(inv, env)
    /\ wire # {} => message = Message(inv, env)

\* No step changes the message once it is built, or the invocation.
LEMMA MessageKept == Spec => []MessageInv
<1>1. Init => MessageInv BY DEF Init, MessageInv
<1>2. IInv /\ MessageInv /\ [Next]_vars => MessageInv'
  <2> SUFFICES ASSUME IInv, MessageInv, [Next]_vars PROVE MessageInv' OBVIOUS
  <2>1. CASE BuildRequest
    <3>1. wire' = {} /\ inv' = inv /\ env' = env 
      BY <2>1 DEF BuildRequest, inputs, IInv, WireInv, Silent
    <3>2. pc' = "done" \/ message' = Message(inv, env) BY <2>1 DEF BuildRequest, Stop
    <3> QED BY <3>1, <3>2 DEF MessageInv
  <2>2. CASE Parse \/ Ignore \/ CheckAttempt \/ NewClient \/ NewClientFails
    <3>1. wire' = {} /\ pc' \notin {"built", "open", "ready", "waiting", "answered"}
      BY <2>2 DEF Parse, Ignore, CheckAttempt, NewClient, NewClientFails, Stop, IInv, WireInv, Silent
    <3> QED BY <3>1 DEF MessageInv
  <2>3. CASE Open \/ OpenRefused \/ Authenticate \/ Send \/ SendRefused \/ Receive \/ CallFails
             \/ ReportCommand \/ ReportServerState \/ ReportQuery \/ ReportView
    <3>1. message' = message /\ inv' = inv /\ env' = env
      BY <2>3 DEF Open, OpenRefused, Authenticate, Send, SendRefused, Receive, CallFails, ReportCommand,
         ReportServerState, ReportQuery, ReportView, inputs
    <3>2. pc \in {"built", "open", "ready", "waiting", "answered"}
      BY <2>3 DEF Open, OpenRefused, Authenticate, Send, SendRefused, Receive, CallFails, ReportCommand,
         ReportServerState, ReportQuery, ReportView
    <3> QED BY <3>1, <3>2 DEF MessageInv
  <2>4. CASE ServerAnswers \/ ProxyAnswers \/ ServerMoves \/ UNCHANGED vars
    <3>1. UNCHANGED <<message, inv, env, pc, wire>>
      BY <2>4 DEF ServerAnswers, ProxyAnswers, ServerMoves, vars, inputs
    <3> QED BY <3>1 DEF MessageInv
  <2> QED BY <2>1, <2>2, <2>3, <2>4 DEF Next, Client
<1> QED BY <1>1, <1>2, CommandLineSafe, PTL DEF Spec

\* Whatever the command and its arguments, the server reads the same request from
\* the HTTP payload as from the gRPC message.
THEOREM SameOnEitherTransport == Spec => []SameRequestOnEitherTransport
<1>1. IInv /\ MessageInv => SameRequestOnEitherTransport
  <2> SUFFICES ASSUME IInv, MessageInv, NEW r \in wire
               PROVE  IF r.transport = "http" /\ inv.command \notin QueryViews
                      THEN SameRequest(Message(inv, env), r.body)
                      ELSE r.body = Message(inv, env)
    BY DEF SameRequestOnEitherTransport
  <2>1. r = Request /\ message = Message(inv, env) BY DEF IInv, WireInv, MessageInv
  <2>2. r.transport = client.transport /\ r.body = Body(inv.command, client.transport, Message(inv, env))
    BY <2>1 DEF Request
  <2>3. ArgumentsOK(inv) /\ inv.command \in AllCommands
    BY DEF IInv, LocalInv, Mistake, ScenarioInv
  <2>4. CASE r.transport = "http" /\ inv.command \notin QueryViews
    <3>1. r.body = Payload(inv.command, Message(inv, env)) BY <2>2, <2>4 DEF Body
    <3>2. \/ inv.command \in ChildCommands
          \/ inv.command \in BatchCommands \ {"begin"}
          \/ inv.command \in {"load", "begin", "replace"}
          \/ inv.command \in {"ping", "coroutine", "server-status", "server-halt", "server-resume"}
      BY <2>3, <2>4 DEF AllCommands, ControlCommands
    <3>3. SameRequest(Message(inv, env), Payload(inv.command, Message(inv, env)))
      BY <2>3, <3>2, SameChild, SameNode, SameFlow, SameNothing
    <3> QED BY <2>4, <3>1, <3>3
  <2>5. CASE ~(r.transport = "http" /\ inv.command \notin QueryViews)
    BY <2>2, <2>5 DEF Body
  <2> QED BY <2>4, <2>5
<1> QED BY <1>1, CommandLineSafe, MessageKept, PTL
=============================================================================
