# takler-client in TLA+

A verification development beside `cemc-oper/takler-client`, the Go command line
client of the takler workflow server. Paths below are relative to the repository.

## 1. Inventory

| Component | Source | State it keeps | Operations | Modelled in |
|---|---|---|---|---|
| Call_Wrapper and retry loop | `common/call.go`, `common/retry.go` | of one call: window, attempt number, start time, last failure | open, attempt, classify, wait, return | `CallWrapper`, contracts `AtMostOnce` and `ReportCall` |
| Failure classification, exit codes | `common/exitcode.go`, `errorcode.go`, `grpc_transport.go`, `http_transport.go` | none (tables) | `Classify`, `ExitCodeForStatus`, `ExitCodeForErrorCode` | `ExitCodes`, `CallWrapper` |
| Batch commands | `common/batch.go`, `cmd/client.go` | none on the client; the server's per target results | `validateBatch`, `reportCommandResponse` | `BatchCall` |
| Query view | `common/query_client.go`, `common/query_since.go` | `queryCurrent` (the published view), `queryMu`, and per read the page loop's state | `ReadQuerySnapshot`, `ReadQuerySince`, `SyncQuery` | `QueryView`, contract `Replica` |
| Query detail and blobs | `common/query_client.go` 326-503 | of one read: groups, pointers seen, blob bytes so far | `ReadQueryDetail`, chunk loop | `DetailRead` |
| Tree rendering | `common/query_show.go` | a staged temporary file | `RunInitialQueryShow`, `RunQuerySyncShow` | `DetailRead` |
| Query document codec | `common/query_v1.go` | none | strict decoding | what it lets through, in `QueryView` and `DetailRead` |
| Transport session | `common/client.go`, `transport.go` | the connection of the transport | `withTransport`, `Open`, `Close` | `Open` in `CallWrapper` and `CommandLine` |
| Server target, transport choice | `cmd/util.go`, `common/transport.go` | none | precedence of option, file, environment | `ServerTarget`, used by `CommandLine` |
| Credentials, TLS | `common/credentials.go`, `tlsconfig.go` | none (files are read per call) | `BuildMetadata`, `BuildTransportCredentials` | `ServerTarget`, `CommandLine`; their failure in `CallWrapper` |
| Command methods, wire format | `common/client_*.go`, `wire.go` | none | one request message per command, its HTTP payload, the envelope of the answer | `Requests`, `CommandLine` |
| Command line | `cmd/*` | none | options and arguments, one call per process, exit code | `Commands`, `Requests`, `CommandLine`; the batch report in `BatchCall` |
| Job script protocol | `README.md` "Job script integration" | the script's progress | init, meter, event, complete, trap with abort | `JobScript` |
| Generated code, scripts | `takler_protocol/`, `scripts/` | | | not modelled |

**Interaction.** A command of `cmd` builds one client and makes one call. The
client opens its transport (`withTransport`), the Call_Wrapper runs attempts on it
and asks the transport to classify a failure, and the answer goes back through
`validateBatch` (batch commands) to `reportCommandResponse`. A query read is a
sequence of such calls, one per page, under `queryMu`; it publishes the view it
built by setting `queryCurrent`. `show` reads a summary in the same way and then,
still under `queryMu` and on the same connection, one detail per node and the
chunks of its large fields; `sync` prints the view its polls ended with.
`ReadQueryDetail` works on a view that the caller kept, without the lock.
A job script is a sequence of child commands, each a process of its own, tied
together by `set -e` and a trap: what one of them exits with decides whether the
next one runs. A command reads its settings from its options, the environment and
the connect file, which the server writes when it starts.

**Hard behaviours.** A request that fails may have been executed, or may be
executed later; a read is retried inside a window of time; the state of the
server changes between two pages of one read; pages are repeated, lost, or come
from another capture, batch or server session; goroutines share the cached view;
a read that fails half way leaves a view behind; details are samples of a tree
that is no longer the one of the summary; a batch fails for some
targets only; the connect file changes while a command runs; a proxy gives one
client the answer of another; a signal or a lost answer reaches a job script
between two reports. `PROJECT.json` lists them as hazards, each with its line.

**What makes each component correct.**

- Call_Wrapper: a mutation takes effect at most once; an error that may hide an
  effect says so; "unreachable" means that the window was spent; attempts keep the
  backoff; every call ends.
- Batch: the printed lines are what the server did; exit code 0 means that
  everything was done; a refusal by the server touched nothing.
- Query view: what is published is one revision of the server, apart from scopes
  that are called stale; what `sync` prints has no stale part; the watermark never
  goes back; the failure of a read that has begun is visible; memory is bounded;
  every read ends.
- Command line and target: a mistake in the command reaches no server, and a request
  that never left says so by its exit code; all of a
  request is of one version of the connect file; the same request goes out on
  either transport; each kind of command carries its own credentials; exit code 0
  is earned by this very request.
- Job script: the server executes the reports in their order; a completed task is
  reported as aborted only when nobody could know better; a report that another one
  overtakes is one the script was told it knows nothing of; a task whose end stays
  unreported has an explanation; the end is reported in the end.
- Details and rendering: a row shows the node of the view, with fields of one
  moment; the output has every row or none; the number of requests is bounded
  whatever the server answers.

## 2. Modules

| Module | Contents |
|---|---|
| `ExitCodes` | exit codes and the Error_Code mapping |
| `Commands` | the commands, their kinds, which of them only read |
| `ServerTarget` | the precedence of settings, the target, the port of HTTP |
| `Requests` | options and arguments, request messages, HTTP payloads |
| `CommandLine`, `MCCommandLine`, `CommandLine_proofs` | one process of `takler_client` |
| `JobScript`, `MCJobScript`, `JobScript_proofs` | the job script of one attempt of a task |
| `AtMostOnce` | the abstract promise of a call of a mutating command |
| `ReportCall` | the same call with the fate of its request, as a job script sees it |
| `CallWrapper`, `MCCallWrapper`, `CallWrapper_proofs` | one call and the fate of its requests |
| `Replica` | the abstract promise of `SyncQuery` on a shared client |
| `QueryView`, `MCQueryView`, `QueryView_proofs`, `QueryContents_proofs`, `QueryTree_proofs` | the cached view, `SyncQuery` and the server's tree |
| `BatchCall`, `MCBatchCall`, `BatchCall_proofs` | a batch command, its answer, its report |
| `DetailRead`, `MCDetailRead`, `DetailRead_proofs` | details, blobs and the printed tree |

Operators whose comment starts with "Mutant" are the wrong variants of the
definition that follows them; no specification uses them. They document which
bug each property notices (`PROJECT.json`, "mutants").

### CallWrapper

State of the client: `phase` ("idle", "open", "attempting", "waiting", "failed",
"sleeping", "done"), `attempt`, `elapsed`, `window`, `delay`, `failure`, `result`.
State of the environment: `request` (the request of the present attempt),
`stray` (requests given up and still on their way), `effects` (how often the
command took effect). `cmd`, `transport` and `setting` (TAKLER_TIMEOUT) are chosen
at the start.

| Action | Code |
|---|---|
| `OpenTransport`, `OpenFails` | `withTransport`, `Open` of both transports |
| `Prepare`, `CredentialsFail` | `callWith`: policy, window, credentials |
| `StartAttempt` | `callOnce` |
| `AttemptAnswered` | the attempt returns, `CallCommand` takes the answer |
| `AttemptFails` | the attempt returns an error, which is classified |
| `StopOnVerdict`, `StopOnWindow`, `ScheduleRetry`, `Wake` | the body of `RunWithRetry` |
| `ServerExecutes`, `ServerRefuses`, `LateDelivery` | the server and the network |

A failure is a status code, an HTTP status, or a kind of connection error, one for
every branch of `classifyGrpcError` and `classifyHttpError`. Time is in whole
seconds. A request has left the client when an attempt fails with a status, a
time out or a lost connection; a "plain" error of net/http has not, unless
`GarbledAnswers` lets an answer be broken below the envelope. `ReportCall` carries that
possibility as `garbles`, so that what it says of a call holds on both transports.

### QueryView

`hist` is the server: per session (a restart begins a new one) a sequence of
trees, with flow generations and the change that made each. `current` is
`queryCurrent`, `mutex` is `queryMu`, `lastId` numbers the views, so that equal
numbers are equal pointers. `job[w]` is goroutine w's `SyncQuery`.

| Action | Code |
|---|---|
| `BeginSnapshot`, `ReadSnapshotPage`, `SnapshotCallFails` | `ReadQuerySnapshot`: lock, one page per step with all of its checks, publish, unlock |
| `BeginSince`, `RefuseSince`, `SinceNotBegun` | `ReadQuerySince`: lock; the tests on the view, and the transport that does not open or a view without a revision, which end the read before its mark is deferred and leave the view as it is |
| `ReadSincePage` | one page of a batch: replay, accept, refuse; after the last one apply, publish and unlock, after which `SyncQuery` goes on without the lock |
| `SinceReset` | a reset document: `markQueryStale`, unlock, a new snapshot |
| `SinceCallFails` | any error once the mark is deferred, with the deferred `markQueryStale` |
| `SyncReturns` | `SyncQuery` returns the view of its last read, without the lock |
| `ServerUpdates`, `ServerAdds`, `ServerRemoves`, `ServerReplaces`, `ServerRestarts` | the server |

One page is one step because the client holds `queryMu` and touches shared state
only when it publishes, while server steps come between any two pages. The server
answers with pages that are well formed documents (`DecodeQueryV1`) of states it
really had, but not with the page asked for: of this or another capture, in any
split, out of place, repeated, complete or not.

`Replica` is what goroutines that share a client may rely on, without pages, locks
and views: one copy that moves to the same or a later revision and shows its tree
where it claims to know it, and results of `SyncQuery` that are that copy, all of
it known, as the caller took it (`Take`). The result is given later (`Give`): the lock
is free in between, another goroutine may move the copy on, and two callers may be
given their results in the other order. `QueryView` implements it with `SharedCopy`
(the published view without its stale scopes), `Taken` (the view of each call whose
last read has ended) and `Results` (that of each call that has returned it). A call
that fails has no result, and no promise but `FailureIsVisible`, which is about reads
that have begun: one that fails before its first call leaves a view that is as fresh,
or as stale, as it was.

Simplifications: a summary is a status; sizes are counted in nodes instead of
bytes (`Size` keeps the code's form: base map plus overrides, old view plus new);
`TotalNodes` and `BaseRevision` are always sent; the capabilities call is part of
`SinceCallFails`; page identity (`AsOf`, `ExpiresAt`, ids) is the pair of session
and revision.

### BatchCall

The server executes `targets` one after another (`ExecuteItem`), answers
(`SendAnswer`) or refuses the request (`RefuseRequest`); the answer may be faulty
in one place (`DamageAnswer`); the client validates, prints and exits
(`ReceiveAnswer`), or its attempt fails (`CallFails`): then the outcome is unknown,
or the error says that the request could not be sent, which net/http's answer to a
response it cannot parse is turned into as well. `told` is what the caller is told, and
`RefusalTouchesNothing` leaves that last error out; what it hides is shown by
`call_wrapper_garbled`. `named` is FALSE for `begin`
without a flow name, for which the client has no list to compare with. Faulty
answers are what `validateBatch` exists for; one whose item flags are wrong cannot
be told from a right one, and is not produced.

### DetailRead

`hist` is the server from the summary on: flow generations, attempts and the
content of each node, per session. `view` is the summary, `plan` the rows to be
printed with the groups of their details, `staged` the temporary file, `output`
what the caller has. `detail` and `data` are the detail and the blob under way.
`entry` is the function called.

| Action | Code |
|---|---|
| `BeginShow` | `RunInitialQueryShow` up to the limit on targets in `renderQueryShow` |
| `BeginSyncShow` | `RunQuerySyncShow` after `SyncQuery` |
| `BeginDetail` | `ReadQueryDetail`, with the tests before its request |
| `BeginFails` | the summary or the temporary file fails |
| `PrintSummary` | one turn of the loop of `renderQueryShow` without groups |
| `ReadDetail`, `DetailCallFails` | `readQueryDetail`: request, identity, groups |
| `RefuseRef` | the tests on a blob's pointer and size |
| `ReadChunk`, `ChunkCallFails` | one turn of the loop of `readQueryBlob`, the digest, the field that is set |
| `StagingFails`, `Copy`, `CopyFails` | the temporary file and the copy |
| `ServerUpdates`, `ServerStartsAttempt`, `ServerReplaces`, `ServerRestarts` | the server |

A detail or a chunk is any document that `DecodeQueryV1` lets through: of another
node, query or blob, with pointers that repeat or lead nowhere, with bytes of
another field. Whether such a document is refused is left to the client's tests.
Identities are compared with the server's state at the moment of the answer.

Simplifications: a field is the pair of group and content version, one per group,
and its JSON has at least a byte; its digest is the field itself, so that equal
digests are equal bytes; a pointer is a group, so that the spelling of pointers
and pointers into lists or into a resolved blob are left out; the header of a row
and its detail are staged in one step, since nothing reads the file in between;
the summary is complete, which `QueryView` is about; the nodes of a flow change
only with its generation.

### CommandLine, Requests, ServerTarget

One process, from its arguments to its exit code. `inv`, `env` and `files` are the
command, the environment and the contents the connect file has one after the
other; `version` says which of them is on the disk. `pc` is how far the process
has come; `client`, `message`, `channel` and `metadata` are what the code builds
on the way; `wire` is what left the process, `answers` what may come back,
`accepted` what the server carried out.

| Action | Code |
|---|---|
| `Parse` | cobra: known and required options, number of arguments (`cmd_*.go`) |
| `Ignore` | `NO_TAKLER` in the `RunE` of the child commands |
| `CheckAttempt` | `resolveAttemptID`, `ValidateAttemptID` |
| `NewClient`, `NewClientFails` | `newClient`, `loadConnectConfig`, `ResolveServerTarget` |
| `BuildRequest` | the method of `TaklerServiceClient` up to its call |
| `Open`, `OpenRefused` | `withTransport`, `BuildTransportCredentials`, `Open` of both transports |
| `Authenticate` | the selection of `show` and `sync`, `BuildMetadata` |
| `Send` | `callOnce` |
| `SendRefused` | a request the transport cannot make: a URL or a header net/http refuses, metadata or a message grpc refuses; nothing has left the process |
| `Receive`, `CallFails` | the decoding of the answer (`wire.go`); every other end of the call |
| `ReportCommand`, `ReportServerState`, `ReportQuery`, `ReportView` | the end of each `RunE` and `Execute` |
| `ServerAnswers`, `ProxyAnswers`, `ServerMoves` | the server, what is between, the connect file |

`Requests` holds the tables of the commands (options, arguments, message fields,
payload fields) and `SameRequest`, the server's reading of a payload;
`ServerTarget` the rules of precedence.

Simplifications: texts are compared and never taken apart; "" is an absent text
and " " one of white space only; a file that cannot be read, parsed or used is one
of `UnreadableFiles`, and what is in another is a function of its path; an answer
is well formed or not; at most one answer comes. The attempts of the call and the
exit codes of its failures are `CallWrapper`'s, so that `CallFails` may take any of
them.

### JobScript

The script of `README.md`, "Job script integration". `pc`, `next` and `aborts` say
where it is, `outcome[r]` what it learnt of report r, `request[r]` what became of
the report's request, which may arrive when its process is gone. `http` is the
transport of its reports; `current` is FALSE when the task has been given another
attempt.

| Action | Code |
|---|---|
| `StartReport`, `ReportReturns` | one `takler_client` line under `set -e`; its exit code |
| `InstallTraps` | the trap lines after `init` |
| `WorkFails` | any other line that fails |
| `CallAbort`, `AbortReturns` | `ERROR` |
| `Leave` | `trap 0`, `exit 0` |
| `HandleSignal`, `Signal`, `Kill` | the trap of the signals; a signal that finds no trap; SIGKILL |
| `Send`, `Execute`, `Refuse`, `Lose`, `Supersede` | the client's request, the server and the network |

What a report may learn of its request is `ReportCall`'s `MayReport`, with `garbles`
given by `http`; `CallWrapper` implements that module on either transport
(`ImplementsReportCall`): "applied" only after execution, "answered" after an answer of
either sort, "refused" without an effect or, over HTTP, when the answer to an executed
report was garbled, "unknown" always. So a script is told here whatever the client may
tell it. `README.md` has scripts run unchanged over HTTP, so the properties hold for
both transports; the one that has to say so is `AbortAfterCompleteIsExplained`, since a
garbled answer to `complete` ends in an abort. `OvertakenIsUnknown` is about the order of
requests: set -e, the traps and a signal that waits for the running client keep a report
from being overtaken unless its call ended without an answer. Whether bash runs the trap
of a signal inside the trap of that same signal is left open.

## 3. Runs

| Run | Question | Bounds | Result |
|---|---|---|---|
| `call_wrapper` | does a call keep every promise, the contract `AtMostOnce` and the finer `ReportCall`, which a job script is given? | one command per kind (child, batch, other control, query, page read), both transports, TAKLER_TIMEOUT unset, invalid, 0 and 9; attempts of 0, 3 and 10 s; oversleep of 1 s | holds |
| `call_wrapper_child` | do child reports retry for a day? | `complete` | violated |
| `call_wrapper_garbled` | does "could not be sent" mean not sent? | HTTP | violated |
| `call_wrapper_status` | is every other status retried? | gRPC, a read | violated |
| `query_view` | is the view one revision, in budget, honest about the failure of a read that has begun? | a flow, a container, a task; 3 revisions, 2 polls, a budget of twice the view | holds |
| `query_view_shared` | do two goroutines on one client share one `Replica`, also when one publishes between the other's unlock and its return, and does each call return? | 2 revisions, 1 poll each, with liveness | holds |
| `query_view_restart` | a server that restarts, a root scope cut at a depth | 2 sessions of 2 revisions | holds |
| `query_view_subtree` | a scope below its flow | 3 revisions | violated |
| `batch_call` | do lines and exit code tell what happened, also when the answer is lost or cannot be parsed? | up to 3 targets of 2 paths, so that one repeats; one item error, two refusals | holds |
| `command_line` | does every command send what it says, where it says, and report what happened? | every command well used (27 forms) and badly used (18) over both transports; every level of the target and of the security settings, connect files of one or two versions; answers with Error_Codes 0, 10, 31, 40 and the unknown 77 | holds |
| `job_script` | is the task's end reported, only once it is so, and which reports may another one overtake? | two reports between `init` and `complete`, two signals, both transports | holds |
| `detail_read` | is the output all or nothing, each row one sample of the right node, the work bounded? | "/", a flow, a task; 2 groups; a field of 2 and one of 3 bytes, chunks of at most 2, a budget of 2; a limit of 1 target; 2 changes of the server | holds |

The windows and backoffs of `CallWrapper` are the code's own; 9 s is long enough
for backoffs of 1, 2 and 4 s, the last of them cut, and the default of 60 s
reaches the backoff's ceiling.
A since batch of `QueryView` needs three revisions to meet a view that has already
been changed once, and a repeated page needs a batch of two operations, which
three revisions give. A third goroutine adds nothing to two: they meet only in
the lock and the published view, and the lock is proved for any number.
In `BatchCall` a position matters only when a target is repeated, hence three
targets of two paths.
In `CommandLine` the scenarios are the product of the levels that meet in one rule
(options, environment and file for the target; the same for the certificate and
the secret), with one report and one mutation, because a rule asks only for the
kind; that every command builds the right request needs one scenario per form. Two
versions of the connect file are enough to mix them.
In `JobScript` two progress reports are the fewest for which a report follows, and
one precedes, another report of the same sort; a second signal is one that
interrupts `ERROR`.
In `DetailRead` the view and two changes are enough for a field of a group to be
sampled before a change, fetched after it, and meet a field of the same group from
a third state; a field of two chunks is the shortest that can be mixed; one
content is over the budget, and a scope of two targets over the limit.

`CHECK_DEADLOCK FALSE` is in every cfg: calls end, and the server may rest.

**Fairness.** `CallWrapper` has weak fairness of the client's steps: each is
local or bounded by the attempt's deadline (`callOnce`). Nothing is assumed of the
server. `QueryView` has weak fairness per goroutine: a call ends at its window, and
Go's mutex goes to a waiter; every goroutine makes a bounded number of reads, so
that it finds the lock free in the end.
`JobScript` has weak fairness of the script: bash goes on, the work between reports
ends, and every call returns, which is `Terminates` of `CallWrapper`. `BatchCall`,
`CommandLine` and `DetailRead` have no liveness property; of `DetailRead`,
`CallsAreBounded` bounds the number of requests, each of which is a call that ends.

**What the violated runs show.**

1. `call_wrapper_child`: the comment in `retry.go` promises that a child command
   "keeps retrying for a day"; `callWith` sets the window of every command that is
   not read only to zero. The user documentation (`README.md:134`) agrees with the
   code, so the comment and the table of defaults are out of date.
2. `call_wrapper_garbled`: an HTTP answer that net/http cannot parse falls into the
   branch "request could not be sent", exit code 1, without "outcome unknown",
   after the command was executed.
3. `call_wrapper_status`: a comment in `exitcode.go` says that every other status
   is retried until the window is exhausted; four codes are.
4. `query_view_subtree`: with a scope below its flow, a batch that removes a node
   drops the flow's generation, and the next update ends the sync with "query
   delta flow identity changed".

## 4. Proofs

Checked by TLAPS, for every value of the constants allowed by the named
assumptions (`CallAssumption`, `QueryAssumption`, `BatchAssumption`, `DetailAssumption`,
`CommandLineAssumption`, `RequestsAssumption`, `JobScriptAssumption`).

**CallWrapper_proofs.** `SafetyInv` is inductive (`CallSafe`): `TypeOK`, where the
call stands (`ProgressInv`), what a mutation's only request has done
(`MutationInv`), the clock (`ClockInv`) and the backoff (`BackoffInv`). "At most
once" is not inductive by itself: it holds because a mutation has a window of zero,
so that no attempt follows a failed one, so that `effects + stray` comes from one
request; `ProgressInv` carries the window, `MutationInv` the request. The clock
properties need that a wait is cut to the rest of the window (`NextDelayFits`).
From it: `TypeCorrect`, `MutationOnce`, `WindowSpent`, `CallBounded`,
`AttemptsSpaced`.

What hides an effect is a garbled HTTP answer and nothing else: `OnlyGarbledIsSilent`
proves that every call none of whose failures was one (`Parsed`) announces its
ambiguity, whatever `GarbledAnswers` allows. For that `RefusalInv` says that a failure
of a mutation whose verdict is a request error has left nothing behind, and `FailureInv`
that a failure is one the call's transport can have. `AmbiguityIsAnnounced` and the
refinement `ImplementsAtMostOnce` follow where no such answer can come, on gRPC or
without `GarbledAnswers`; `ParsedCallKeepsContract` is the same for single calls where
it can. The run `call_wrapper_garbled` shows that a hypothesis of the kind is needed.
`ImplementsReportCall` needs none: `ReportCall` lets a call whose answers can be garbled
end as "refused" when its request was executed, and nothing else. It says what
`AtMostOnce` leaves open and a job script depends on: that an answer is the answer to
this call's one request, and that what is refused by an answer has no effect.

`FewAttempts` bounds the attempts: attempt n is made only if the first n - 2 backoffs
fit into the window; `DefaultQueryAttempts` instantiates it to seven attempts of a
query when TAKLER_TIMEOUT is not set. `CallApproachesItsEnd` is the safety half of
`Terminates`: `StepsLeft`, four times what is left of the window and the rank of the
phase in an attempt, is a natural number that every client step lowers and no step
of the server or the network raises. It needs that no wait is empty
(`BackoffInv`).

**QueryView_proofs.** `ReadsExclude`: `queryMu` keeps reads apart and the view a
since read works on stays the published one. The argument classifies every step
of a goroutine as one that enters a read, continues it, leaves it or is outside of
reads (`WorkerLockStep`), and shows that each keeps `LockInv` (`LockStepKeeps`).

**QueryContents_proofs.** What the lock is for. `ContentsSafe` says of the published
view, of each goroutine's own and of what it has read so far where they come from:
sessions and revisions only grow (`HistInv`), so that every watermark stays one the
server had; numbers of views are fresh, so that a view with the number of the published
one is that view (`OwnView`); the nodes of a snapshot count against the budget beside
the old view (`SnapshotInv`), and the pages of a snapshot or batch are of one revision,
at or after the view's (`SinceInv`). From it `TypeCorrect`, `MemoryBounded`,
`ViewAdvances` and, with `FailureFails`, `FailureVisible`, which is about reads that
failed with their mark deferred. `SyncApproachesItsEnd` is the safety half of
`EverySyncReturns`: each step of a call is one of eight kinds (`Nearer`,
`WorkerNearer`), and each kind lowers `Left`, a natural number. A page that is not the
last has a path, or an operation, that no page before it had, and there are finitely
many of them (`LessLeft`); a replay uses up one of two; a reset or a stale view begins a
snapshot within the same poll; a poll is one of `Polls`; and a call that has its view
has its return left. What the server sends appears nowhere else, so it cannot keep a
call going.

**QueryTree_proofs.** What the view shows. Three things are needed beside
`ContentsSafe` (`TreeSafe` is the invariant of all of them).
`StoryInv`: what may differ between any two revisions of a session, told by the
changes between them (`Stretch`): a node that appeared was added, one that is gone
was removed with something above it, a new status or generation has its update,
replacement or addition. It is carried along as an invariant of the growing
history (`StoryGrows`), so that no induction over revisions is needed.
`BatchShows`: all of the operations from r to t, applied to the tree of r, show that
of t wherever the view is fresh afterwards. What hides there is a node removed and
added again: the argument takes the topmost removed node above a path (`Least`),
and finds that had it come back, an `invalidate_scope` above it would have survived.
`SnapshotWhole`: nodes of one capture, each with its parent, the root among them and
as many as `TotalNodes`, are all of the nodes. `TreeInv` then says that the
published view is whole (`Whole`), that since reads start from a view with nothing
stale, that pages so far are of one capture (`Captured`) and operations so far keep
the flows they are for. From it `ViewTrue`, `SyncTrue` and, with the lock and the
watermark of the modules before, `ImplementsReplica`.
Two consequences for goroutines that compare what they were given: `ResultsAgree`, that
views of one revision are one tree, and `SyncsMoveOn`, that a call whose last read ends
later is given no older view, whichever of the two returns first. The second needs that
no view a call has been given is newer than the published one (`ResultsAreOld`,
`ResultsSafe`), which holds because the last read of a call ends with the published view
itself (`LastReadTakesCopy`). That is also where the mapping has `Take`; the return
is `Give`, a step that touches nothing shared.
`IdentityTrue` assumes that the scope is "/" or a flow: then the view knows the
generation of a flow exactly when it holds the flow (`FlowsKnown`, part of `Whole`), so
an operation that disagrees with the view tells of a flow added or replaced since
(`StrangeFlow`). The run `query_view_subtree` shows that below a flow the statement is
false, so the assumption is needed. `IdentityExplained` says for any scope what else it
can be: the view of a scope below its flow has forgotten the flow (`FlowForgotten`), for
while it knows it the operations are compared with the right generation
(`StrangeFlowBelow`). So the defect of that run is the only one of its kind.

**BatchCall_proofs.** `ExitZeroIsComplete`, `RefusedIsUntouched`: the invariant says
that after one damage either the flag or the results still tell whether an item failed
(`Traceable`). A refusal is one the server gave; the error that a request could not be
sent is left out of the second, because it is not always true. `LinesAreTrue`: a result
that was moved, renamed or lost no longer agrees with the place or the count that
`validateBatch` compares (`PrintInv`, with `TypeCorrect`). `NoFalseAlarm` is the other
direction, and is not a property of the run: an answer that arrives as it was sent is a
refusal or has one result per target, in order (`ServerInOrder`) and with a known effect
(`EffectsKnown`), so `validateBatch` accepts it, also when a target is repeated or an
item failed. It rests on the server answering as `ExecuteItem` and `SendAnswer` say,
which is external to this repository.

**DetailRead_proofs.** `OutputIsAllOrNothing` needs only where the read stands
(`StagingInv`: output is given out by `Copy` and `CopyFails`, which run when every
row is staged). `EveryRowIsASample` is inductive with `TypeOK` and two facts
(`SampleInv`): `PlaceInv` says that the plan has a row for the detail under way,
and which groups it has; `BlobInv` that its fields, read or pending, and the refs
that are left all come from one state of `hist` in which the node is the one of the
view, and that a pending field has its ref. A resolved field joins them because its
bytes are those of the ref (`DigestRight`), and no two fields have the same bytes
(`DecodedText`). `hist` only grows, so that a witness stays one. `WorkIsBounded`
charges the calls to the rows: every staged row at most `Cost`, the one under way what
it has (`Paid`: the detail, `FieldBudget` for each ref taken, a call for each byte of
the present one, `CallsInv`), and rows with details are at most the limit and the root,
because the root is in the order once (`RowsAreFew`).

**CommandLine_proofs.** `CommandLineSafe`: what the process has built is at every stage
the function of its inputs that the code computes (`StageInv`); what is on the wire is
what was built, from one version of the file (`WireInv`); an answer is of this request
or foreign (`AnswerInv`), the response was taken from one that fits (`ResponseInv`), and
out and exit code follow from it (`ReportInv`). `LocalInv` says which of the checks have
passed at each stage, and where a process stopped without having sent anything, which is
what `MistakesAreLocal` turns on: without a mistake only the transport's refusal of the
target or the request stops a command before its request has left. The rules of
precedence are lemmas (`FirstOfThree`, `FirstOfTwo`, `TransportKnown`).
`SameOnEitherTransport`: what goes out is the message of the invocation (`MessageKept`),
and the server reads the same request from its payload, family of commands by family
(`SameChild`, `SameNode`, `SameFlow`, `SameNothing`): each field of the message is in
the payload plainly, under another name, by the name of its number, encoded, or, for the
child options, one level higher. The scenarios are any set, so that
`CommandLineTypeCorrect`, `SuccessIsTrue`, `MistakesAreLocal`, `CredentialsFit`,
`OneConfiguration` and `SameOnEitherTransport` hold for every command, environment and
history of the connect file.

**JobScript_proofs.** `ScriptSafe`, for any number of reports and signals: before
`next` every report has succeeded, after it none has been started, and the
same for the aborts; a request is sent only for a report that was started; a script
that has turned to `ERROR` has a reason; what was learnt of a report fits what became
of its request, then and ever after. From it `PrefixExecuted`, `LateAbortExplained`,
`LostTaskExplained`, `EndNotMissed` and `OvertakenReportsAreUnknown`. The last takes two
facts about the place of a report: the one under way is that of the script's last step
(`PendingIsLastStep`), so that none has followed it, and an abort with an outcome was
called (`AbortsCalledStep`). `ScriptApproachesItsEnd` is the safety half of `EndIsReported`:
every step of the script lowers `StepsLeft`, and no signal, kill, client or server
raises it.

**Only model-checked.** The liveness properties `Terminates`, `EverySyncReturns` and
`EndIsReported`: that a fair client does take the steps of which the theorems
`CallApproachesItsEnd`, `SyncApproachesItsEnd` and `ScriptApproachesItsEnd` say that only
finitely many are left is a matter of ENABLED and fairness, out of the prover's reach.

## 5. Not modelled

The codec's field checks, the layout of printed trees and diagnostics, the
contents of certificates: data without control. The contents of generated code and
of the development scripts. `Close`, handshakes, and cobra's own help and version
commands. A client shared by operations that
do not hold `queryMu` (`ReadQueryDetail` beside a sync): the transport's
connection is then shared without a lock; no document allows it, and it is listed
as a hazard.

Two things a reader of the command line may trip over, which no run is about:
`README.md:144` lists "`2` command line usage error", where `Execute`
(`cmd_root.go:120`) exits 1, which is what `Parse` does; `MistakesStayLocal` asks of a
usage error only that it sends nothing and fails, and so leaves the code open. And a
connect file without a host or port replaces what the environment says by nothing,
instead of falling through to it (`Address`).

## 6. Plan

Done: `CallWrapper` with `AtMostOnce`, `QueryView` with `Replica`, `BatchCall`,
`DetailRead`, `CommandLine` with its tables, and `JobScript`, with the proofs above.
Every safety property of a passing run is proved, and the three refinements are
(`AtMostOnce`, `ReportCall`, `Replica`); of the
liveness properties the part that no step may undo is proved, and the rest is left to
TLC. Open: the safety halves' counterparts for `BatchCall` and `CommandLine`, which are
short pipelines without a loop.
