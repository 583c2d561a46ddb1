---------------------------- MODULE CallWrapper ----------------------------
(***************************************************************************)
(* The Call_Wrapper: one logical call of one command, from opening the     *)
(* transport to the error the command returns (common/call.go,             *)
(* common/retry.go, common/exitcode.go and the Classify function of each   *)
(* transport).  The network and the takler server are the environment: a   *)
(* request may be executed, refused, lost, or executed after the client    *)
(* has already given up on it.                                             *)
(*                                                                         *)
(* Time is counted in whole seconds since the first attempt.               *)
(***************************************************************************)
EXTENDS Naturals, ExitCodes, Commands

CONSTANTS
    Commands,        \* the command names of this instance
    Transports,      \* subset of {"grpc", "http"}
    Settings,        \* the values TAKLER_TIMEOUT may have, see SettingType
    Flags,           \* the Error_Codes a server answer may carry
    SingleTimeout,   \* DefaultSingleTimeout, 10 in the code
    AttemptSeconds,  \* how long one attempt may take
    SleepSlack,      \* by how much time.Sleep may oversleep
    GarbledAnswers   \* TRUE: an HTTP answer may be broken below the envelope

----------------------------------------------------------------------------
(***************************************************************************)
(* Retry window and backoff                                                *)
(***************************************************************************)

\* TAKLER_TIMEOUT: unset, a string that is no second count (empty, signed,
\* non digits, or overflowing a time.Duration), or a number of seconds.
SettingType == [form : {"unset", "invalid"}] \cup [form : {"seconds"}, seconds : Nat]

DefaultRetryWindow(kind) == IF kind = "child" THEN 86400 ELSE 60

ResolveRetryWindow(kind, setting) ==
    IF setting.form = "seconds" THEN setting.seconds ELSE DefaultRetryWindow(kind)

\* Mutant: mutations are retried as well.
EffectiveWindowOfAny(name, setting) == ResolveRetryWindow(KindOf(name), setting)

\* The window RunWithRetry works with: callWith zeroes it for every command
\* that is not read only.
EffectiveWindow(name, setting) ==
    IF ReadOnlyCommand(name) THEN ResolveRetryWindow(KindOf(name), setting) ELSE 0

MaxBackoff == 60

\* Mutant: no exponential growth.
ConstantBackoff(n) == 1

BackoffSeconds(n) ==
    CASE n >= 7 -> MaxBackoff
      [] n < 1 -> 1
      [] OTHER -> <<1, 2, 4, 8, 16, 32>>[n]

\* Mutants: the window is never used up; the last wait must fit whole.
RetryForever(window, elapsed) == TRUE
RetryWhileMaxBackoffFits(window, elapsed) == elapsed + MaxBackoff < window

\* NextDelay answers (0, false) once the window is used up.
MayRetry(window, elapsed) == elapsed < window
\* Mutant: the wait is not clipped to the window.
UnclippedDelay(window, n, elapsed) == BackoffSeconds(n)

NextDelay(window, n, elapsed) ==
    IF BackoffSeconds(n) > window - elapsed THEN window - elapsed ELSE BackoffSeconds(n)

----------------------------------------------------------------------------
(***************************************************************************)
(* Failures of an attempt and their verdicts                               *)
(***************************************************************************)

RetryableStatusCodes ==
    {"Unavailable", "DeadlineExceeded", "ResourceExhausted", "Unknown"}
RequestErrorStatusCodes ==
    {"InvalidArgument", "NotFound", "PermissionDenied", "Unauthenticated"}
OtherStatusCodes ==
    {"Canceled", "AlreadyExists", "FailedPrecondition", "Aborted", "OutOfRange",
     "Unimplemented", "Internal", "DataLoss"}
GrpcFailures ==
    RetryableStatusCodes \cup RequestErrorStatusCodes \cup OtherStatusCodes \cup {"TLS"}

RetryableHttpStatuses == {"408", "429", "500", "502", "503", "504"}
RequestErrorHttpStatuses == {"400", "401", "403", "404", "405", "413", "415", "422"}
\* "302" stands for every status in neither table, "envelope" for an
\* httpResponseError, "connection" for a net.Error or an early EOF, "plain" for
\* any other error of net/http.
HttpFailures ==
    RetryableHttpStatuses \cup RequestErrorHttpStatuses
      \cup {"302", "envelope", "TLS", "connection", "plain"}

FailuresOf(t) == IF t = "grpc" THEN GrpcFailures ELSE HttpFailures

Verdict(retryable, code) == [retryable |-> retryable, exitCode |-> code]

ExitCodeForStatus(code) ==
    IF code \in RequestErrorStatusCodes THEN ExitRequestError ELSE ExitUnreachable

ClassifyGrpcError(f) ==
    IF f = "TLS" THEN Verdict(FALSE, ExitRequestError)
    ELSE Verdict(f \in RetryableStatusCodes, ExitCodeForStatus(f))

\* The exit code of a retryable HTTP verdict is left at its zero value.
ClassifyHttpError(f) ==
    CASE f \in RequestErrorHttpStatuses \cup {"TLS", "plain"} -> Verdict(FALSE, ExitRequestError)
      [] f \in RetryableHttpStatuses \cup {"connection"} -> Verdict(TRUE, ExitOK)
      [] f = "envelope" -> Verdict(FALSE, ExitServerError)
      [] OTHER -> Verdict(FALSE, ExitUnreachable)

Classify(t, f) == IF t = "grpc" THEN ClassifyGrpcError(f) ELSE ClassifyHttpError(f)

\* Mutant: only a retryable failure is announced.
OutcomeUnknownIfRetryable(name, verdict) == ~ReadOnlyCommand(name) /\ verdict.retryable

\* Whether callWith appends "outcome unknown; query server state before
\* retrying" to the verdict's name.
OutcomeUnknown(name, verdict) ==
    /\ ~ReadOnlyCommand(name)
    /\ verdict.retryable \/ verdict.exitCode # ExitRequestError

----------------------------------------------------------------------------
ASSUME CallAssumption ==
    /\ Commands \subseteq ChildCommands \cup ControlCommands \cup QueryCommands
    /\ Transports \subseteq {"grpc", "http"}
    /\ Settings \subseteq SettingType
    /\ Flags \subseteq Nat
    /\ SingleTimeout \in Nat
    /\ AttemptSeconds \subseteq 0..SingleTimeout
    /\ SleepSlack \in Nat
    /\ GarbledAnswers \in BOOLEAN

VARIABLES
    cmd,        \* the command's name
    transport,  \* the selected transport
    setting,    \* TAKLER_TIMEOUT
    phase,      \* how far the call has come
    attempt,    \* attemptNumber: attempts made so far
    elapsed,    \* seconds since the first attempt
    window,     \* policy.RetryWindow
    delay,      \* the wait before the next attempt
    failure,    \* how the last attempt failed
    result,     \* what the call returned
    request,    \* the current attempt's request, as the server sees it
    stray,      \* abandoned mutating requests that may still be delivered
    effects     \* how often the server executed the mutation

clientVars == <<phase, attempt, elapsed, window, delay, failure, result>>
inputVars == <<cmd, transport, setting>>
serverVars == <<request, stray, effects>>
vars == <<inputVars, clientVars, serverVars>>

Phases == {"idle", "open", "attempting", "waiting", "failed", "sleeping", "done"}

\* by: who decided the result -- nobody yet, a step before the first attempt, an
\* accepted answer, validateBatch, a non-retryable verdict, or the window.
Results ==
    [by : {"none", "local", "answer", "batch", "verdict", "window"},
     code : ExitCodes, unknown : BOOLEAN]
NoResult == [by |-> "none", code |-> ExitOK, unknown |-> FALSE]
Returned(who, exitCode, ambiguous) == [by |-> who, code |-> exitCode, unknown |-> ambiguous]

NoFailure == "none"

Init ==
    /\ cmd \in Commands
    /\ transport \in Transports
    /\ setting \in Settings
    /\ phase = "idle"
    /\ attempt = 0
    /\ elapsed = 0
    /\ window = 0
    /\ delay = 0
    /\ failure = NoFailure
    /\ result = NoResult
    /\ request = "none"
    /\ stray = 0
    /\ effects = 0

----------------------------------------------------------------------------
(***************************************************************************)
(* The client                                                              *)
(***************************************************************************)

Finish(r) == phase' = "done" /\ result' = r

OpenTransport ==
    /\ phase = "idle"
    /\ phase' = "open"
    /\ UNCHANGED <<inputVars, attempt, elapsed, window, delay, failure, result, serverVars>>

\* Unreadable TLS material is a request error; grpc.NewClient refusing the
\* target is reported as unreachable.
OpenFails ==
    /\ phase = "idle"
    /\ \E code \in {ExitRequestError} \cup
                   (IF transport = "grpc" THEN {ExitUnreachable} ELSE {}) :
          Finish(Returned("local", code, FALSE))
    /\ UNCHANGED <<inputVars, attempt, elapsed, window, delay, failure, serverVars>>

\* callWith up to RunWithRetry: the policy, then the credentials.
Prepare ==
    /\ phase = "open"
    /\ phase' = "attempting"
    /\ window' = EffectiveWindow(cmd, setting)
    /\ UNCHANGED <<inputVars, attempt, elapsed, delay, failure, result, serverVars>>

\* Only control and query calls read the operator secret file.
CredentialsFail ==
    /\ phase = "open"
    /\ KindOf(cmd) # "child"
    /\ window' = EffectiveWindow(cmd, setting)
    /\ Finish(Returned("local", ExitRequestError, FALSE))
    /\ UNCHANGED <<inputVars, attempt, elapsed, delay, failure, serverVars>>

StartAttempt ==
    /\ phase = "attempting"
    /\ phase' = "waiting"
    /\ attempt' = attempt + 1
    /\ request' = "sent"
    /\ UNCHANGED <<inputVars, elapsed, window, delay, failure, result, stray, effects>>

\* The server answers.  Any flag is a successful call; its exit code is decided
\* by reportCommandResponse, a batch command's answer by validateBatch first.
AttemptAnswered ==
    /\ phase = "waiting"
    /\ request \in {"executed", "refused"}
    /\ \E d \in AttemptSeconds : elapsed' = elapsed + d
    /\ \/ \E flag \in Flags :
             /\ flag = 0 => request = "executed"
             /\ Finish(Returned("answer", ExitCodeForErrorCode(flag), FALSE))
       \/ /\ cmd \in BatchCommands
          /\ Finish(Returned("batch", ExitServerError, FALSE))
    /\ UNCHANGED <<inputVars, attempt, window, delay, failure, serverVars>>

\* The attempt fails with f.  Which failures are possible depends on what became
\* of the request: a request error is the server's answer to a request it did
\* not execute, a TLS failure precedes the request, a plain net/http error is a
\* request that could not be built or, with GarbledAnswers, an answer that could
\* not be parsed.  Every other failure says nothing about the request.
PossibleFailure(f) ==
    CASE f \in RequestErrorStatusCodes \cup RequestErrorHttpStatuses -> request = "refused"
      [] f = "TLS" -> request = "sent"
      [] f = "plain" -> request = "sent" \/ (GarbledAnswers /\ request = "executed")
      [] OTHER -> TRUE

AttemptFails ==
    /\ phase = "waiting"
    /\ phase' = "failed"
    /\ \E d \in AttemptSeconds : elapsed' = elapsed + d
    /\ \E f \in FailuresOf(transport) :
          /\ PossibleFailure(f)
          /\ failure' = f
          /\ stray' = IF request = "sent" /\ f \notin {"TLS", "plain"} /\ ~ReadOnlyCommand(cmd)
                      THEN stray + 1 ELSE stray
    /\ request' = "none"
    /\ UNCHANGED <<inputVars, attempt, window, delay, result, effects>>

\* The three decisions of RunWithRetry on a failed attempt, in its order.
LastVerdict == Classify(transport, failure)

StopOnVerdict ==
    /\ phase = "failed"
    /\ ~LastVerdict.retryable
    /\ Finish(Returned("verdict", LastVerdict.exitCode, OutcomeUnknown(cmd, LastVerdict)))
    /\ UNCHANGED <<inputVars, attempt, elapsed, window, delay, failure, serverVars>>

\* Mutant: the instant at which the window ends belongs to nobody.
StopAfterWindow ==
    /\ phase = "failed"
    /\ LastVerdict.retryable
    /\ elapsed > window
    /\ Finish(Returned("window", ExitUnreachable, OutcomeUnknown(cmd, LastVerdict)))
    /\ UNCHANGED <<inputVars, attempt, elapsed, window, delay, failure, serverVars>>

StopOnWindow ==
    /\ phase = "failed"
    /\ LastVerdict.retryable
    /\ ~MayRetry(window, elapsed)
    /\ Finish(Returned("window", ExitUnreachable, OutcomeUnknown(cmd, LastVerdict)))
    /\ UNCHANGED <<inputVars, attempt, elapsed, window, delay, failure, serverVars>>

ScheduleRetry ==
    /\ phase = "failed"
    /\ LastVerdict.retryable
    /\ MayRetry(window, elapsed)
    /\ phase' = "sleeping"
    /\ delay' = NextDelay(window, attempt, elapsed)
    /\ UNCHANGED <<inputVars, attempt, elapsed, window, failure, result, serverVars>>

Wake ==
    /\ phase = "sleeping"
    /\ phase' = "attempting"
    /\ \E s \in 0..SleepSlack : elapsed' = elapsed + delay + s
    /\ UNCHANGED <<inputVars, attempt, window, delay, failure, result, serverVars>>

Client ==
    \/ OpenTransport \/ OpenFails
    \/ Prepare \/ CredentialsFail
    \/ StartAttempt \/ AttemptAnswered \/ AttemptFails
    \/ StopOnVerdict \/ StopOnWindow \/ ScheduleRetry \/ Wake

----------------------------------------------------------------------------
(***************************************************************************)
(* The network and the server                                              *)
(***************************************************************************)

Effect == IF ReadOnlyCommand(cmd) THEN effects ELSE effects + 1

ServerExecutes ==
    /\ request = "sent"
    /\ request' = "executed"
    /\ effects' = Effect
    /\ UNCHANGED <<inputVars, clientVars, stray>>

ServerRefuses ==
    /\ request = "sent"
    /\ request' = "refused"
    /\ UNCHANGED <<inputVars, clientVars, stray, effects>>

\* A request the client gave up on arrives after all, or is dropped.
LateDelivery ==
    /\ stray > 0
    /\ stray' = stray - 1
    /\ effects' \in {effects, Effect}
    /\ UNCHANGED <<inputVars, clientVars, request>>

Server == ServerExecutes \/ ServerRefuses \/ LateDelivery

Next == Client \/ Server

\* Every client step is local or bounded by the per-attempt deadline, so the
\* client does not stop half way.  Nothing is assumed of the server.
Spec == Init /\ [][Next]_vars /\ WF_vars(Client)

----------------------------------------------------------------------------
(***************************************************************************)
(* Properties                                                              *)
(***************************************************************************)

TypeOK ==
    /\ cmd \in Commands
    /\ transport \in Transports
    /\ setting \in Settings
    /\ phase \in Phases
    /\ attempt \in Nat
    /\ elapsed \in Nat
    /\ window \in Nat
    /\ delay \in Nat
    /\ failure \in GrpcFailures \cup HttpFailures \cup {NoFailure}
    /\ result \in Results
    /\ request \in {"none", "sent", "executed", "refused"}
    /\ stray \in Nat
    /\ effects \in Nat

Mutation == ~ReadOnlyCommand(cmd)

\* A mutation takes effect at most once, counting a request the network may
\* still deliver after the call has returned (call.go zeroes the retry window of
\* every command that is not read only).
MutationAtMostOnce == Mutation => effects + stray <= 1

\* When a failed mutation may have taken effect, or may still do so, the error
\* says that the outcome is unknown.
AmbiguityAnnounced ==
    /\ phase = "done"
    /\ result.by \in {"verdict", "window"}
    /\ Mutation
    /\ effects + stray > 0
    => result.unknown

\* A call is reported unreachable only after its whole effective window.
UnreachableOnlyAfterWindow ==
    result.by = "window" => elapsed >= EffectiveWindow(cmd, setting)

\* The window bounds the whole call: no attempt starts later than the window
\* (plus one oversleep), so the call ends at most one attempt after that.
CallIsBounded ==
    /\ phase \in {"attempting", "waiting"} => elapsed <= window + SleepSlack
    /\ elapsed <= window + SleepSlack + SingleTimeout

\* Attempts keep the exponential distance: unless the window cut the last wait
\* short, attempt n + 1 starts no earlier than the sum of the first n backoffs.
CumulativeBackoff(n) ==
    IF n <= 6 THEN <<0, 1, 3, 7, 15, 31, 63>>[n + 1] ELSE 63 + MaxBackoff * (n - 6)

AttemptsAreSpaced ==
    phase = "waiting" =>
        \/ elapsed >= CumulativeBackoff(attempt - 1)
        \/ elapsed >= window

\* Every call ends, whatever the server does (the retry loop has no other exit
\* than an answer, a verdict or the window).
Terminates == <>(phase = "done")

\* The call keeps the promise of AtMostOnce: what the caller is told is read off
\* the returned error, a mutation that returns an error without the "outcome
\* unknown" remark counting as refused.
ReportedOutcome ==
    IF result.by \in {"answer", "batch"}
    THEN IF result.by = "answer" /\ result.code = ExitOK THEN "applied" ELSE "answered"
    ELSE IF result.unknown THEN "unknown" ELSE "refused"

Outcome ==
    IF ReadOnlyCommand(cmd) THEN "exempt"
    ELSE IF phase = "done" THEN ReportedOutcome ELSE "pending"

Contract == INSTANCE AtMostOnce WITH effects <- effects, outcome <- Outcome
KeepsContract == Contract!Spec

\* What has become of a mutation's request, whether its attempt is still open,
\* has given up on it or has an answer.
RequestSoFar ==
    CASE ~Mutation \/ attempt = 0 -> "none"
      [] Mutation /\ attempt > 0 /\ effects > 0 -> "executed"
      [] Mutation /\ attempt > 0 /\ effects = 0 /\ (request = "sent" \/ stray > 0) -> "sent"
      [] OTHER -> "refused"

\* A mutation is one request, sent once, and the caller is told what may be told
\* of it: "answered" only of a request the server is done with, "refused" only of
\* one it did not and will not execute, or whose HTTP answer was garbled.
MayGarble == GarbledAnswers /\ transport = "http"
Call == INSTANCE ReportCall
            WITH garbles <- MayGarble, request <- RequestSoFar, outcome <- Outcome
IsReportCall == Call!Spec

----------------------------------------------------------------------------
(***************************************************************************)
(* The inductive strengthening of the properties above (proved in          *)
(* CallWrapper_proofs)                                                     *)
(***************************************************************************)

\* Where the call stands: nothing is sent before the first attempt, a request is
\* open only while the client waits or an answer has ended the call, and nothing
\* is returned before the end.
ProgressInv ==
    /\ attempt = 0 => request = "none" /\ effects = 0 /\ stray = 0
    /\ phase \in {"idle", "open"} => attempt = 0 /\ elapsed = 0
    /\ phase = "attempting" /\ attempt = 0 => elapsed = 0
    /\ phase \in {"waiting", "failed", "sleeping"} => attempt >= 1
    /\ phase = "waiting" => request # "none"
    /\ phase \notin {"waiting", "done"} => request = "none"
    /\ phase = "done" => request # "sent"
    /\ phase # "done" => result = NoResult
    /\ phase \notin {"idle", "open"} /\ result.by # "local" => window = EffectiveWindow(cmd, setting)
    /\ phase = "done" => result.by # "none"

\* A mutation never comes to a second attempt, so all it can do to the server is
\* what its single request does.
MutationInv ==
    Mutation =>
        /\ attempt <= 1
        /\ phase = "attempting" => attempt = 0
        /\ phase # "sleeping"
        /\ effects + stray <= 1
        /\ request = "sent" => effects + stray = 0
        /\ request = "executed" => effects = 1 /\ stray = 0
        /\ request = "refused" => effects + stray = 0
        /\ phase = "done" /\ result.by \in {"answer", "batch"} => stray = 0
        /\ phase = "done" /\ result.by = "answer" /\ result.code = ExitOK => effects = 1
        /\ phase = "done" /\ result.by = "local" => effects + stray = 0

ReadInv == ~Mutation => effects = 0 /\ stray = 0

\* The last failure is not one that hides an answer below the envelope.
Parsed == GarbledAnswers => failure # "plain"

\* A failed attempt whose verdict is a request error left nothing behind, unless
\* its answer could not be parsed.
RefusalInv ==
    /\ phase = "failed"
    /\ Parsed
    /\ Mutation
    /\ ~LastVerdict.retryable
    /\ LastVerdict.exitCode = ExitRequestError
    => effects + stray = 0

\* What the clock shows in each phase.
ClockInv ==
    /\ phase \in {"attempting", "waiting"} => elapsed <= window + SleepSlack
    /\ phase = "sleeping" => delay >= 1 /\ elapsed + delay <= window
    /\ elapsed <= window + SleepSlack + SingleTimeout
    /\ result.by = "window" => elapsed >= window

\* How far the backoff has brought the call in each phase.
BackoffInv ==
    /\ phase = "attempting" => elapsed >= CumulativeBackoff(attempt) \/ elapsed >= window
    /\ phase \in {"waiting", "failed"} =>
          elapsed >= CumulativeBackoff(attempt - 1) \/ elapsed >= window
    /\ phase = "sleeping" =>
          elapsed + delay >= CumulativeBackoff(attempt) \/ elapsed + delay >= window

\* The failures are those of the selected transport.
FailureInv == failure \in FailuresOf(transport) \cup {NoFailure}

SafetyInv ==
    TypeOK /\ ProgressInv /\ MutationInv /\ ReadInv /\ ClockInv /\ BackoffInv

----------------------------------------------------------------------------
(***************************************************************************)
(* What documentation and messages say, and the code does not do           *)
(***************************************************************************)

\* What retry.go says of child commands: losing a status update would
\* desynchronize the server, so a child call is given up as unreachable only
\* after its own day long window.
ChildKeepsRetrying ==
    /\ result.by = "window"
    /\ KindOf(cmd) = "child"
    => elapsed >= ResolveRetryWindow(KindOf(cmd), setting)

\* What classifyHttpError says of an error it cannot place: "request could not
\* be sent", so the server has not executed the command.
PlainFailureMeansNotSent ==
    phase = "done" /\ failure = "plain" => effects = 0

\* What exitcode.go says of every status code outside the four request errors:
\* it is retried until the window is exhausted, and only that ends as exit 4.
UnreachableStatusIsRetried ==
    /\ phase = "done"
    /\ failure \in GrpcFailures
    /\ result.by = "verdict"
    => result.code # ExitUnreachable
=============================================================================
