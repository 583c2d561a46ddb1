----------------------------- MODULE BatchCall -----------------------------
(***************************************************************************)
(* One batch command (requeue, suspend, resume, run, force, free-dep,      *)
(* begin): the server executes the targets in order, a failed one does not *)
(* stop the others, and answers one result per target; on the way the      *)
(* answer may be damaged, or lost; the client checks its shape             *)
(* (validateBatch), prints the results and picks the exit code             *)
(* (reportCommandResponse).  CallWrapper models the attempt itself.        *)
(***************************************************************************)
EXTENDS Naturals, Sequences, ExitCodes

CONSTANTS
    Targets,     \* node paths
    MaxTargets,  \* the longest request
    ItemErrors,  \* Error_Codes of a failed item
    Refusals     \* Error_Codes of a refused request

ASSUME BatchAssumption ==
    /\ MaxTargets \in Nat \ {0}
    /\ ItemErrors \subseteq Nat \ {0}
    /\ Refusals \subseteq Nat \ {0, 16}

BatchFailed == 16
Sources == {"nothing", "answer", "outcome unknown", "not sent"}
Effects == {"none", "applied", "partial", "unknown"}

\* Requests with one to MaxTargets targets, repetitions allowed.
TargetLists == UNION {[1..n -> Targets] : n \in 1..MaxTargets}

VARIABLES
    targets,   \* the targets of the request
    named,     \* the client named them: FALSE for begin without a flow name
    executed,  \* the results of the targets executed so far
    answer,    \* what is on its way to the client
    damaged,   \* the answer is not the one the server sent
    phase,     \* "waiting" or "done"
    printed,   \* the result lines on standard output
    exit,      \* the exit code
    told       \* what the line on standard error is about

vars == <<targets, named, executed, answer, damaged, phase, printed, exit, told>>

NoAnswer == [flag |-> 0, results |-> <<>>, sent |-> FALSE]
Answer(flag, results) == [flag |-> flag, results |-> results, sent |-> TRUE]

Init ==
    /\ targets \in TargetLists
    /\ named \in BOOLEAN
    /\ executed = <<>>
    /\ answer = NoAnswer
    /\ damaged = FALSE
    /\ phase = "waiting"
    /\ printed = <<>>
    /\ exit = ExitOK
    /\ told = "nothing"

----------------------------------------------------------------------------
(***************************************************************************)
(* The server and the way back                                             *)
(***************************************************************************)

Item(i, flag, effect) == [index |-> i - 1, target |-> targets[i], flag |-> flag, effect |-> effect]

\* The next target is executed; it may fail, whatever came of it by then.
ExecuteItem ==
    /\ ~answer.sent
    /\ Len(executed) < Len(targets)
    /\ \E flag \in {0} \cup ItemErrors, effect \in Effects :
          /\ flag = 0 => effect \in {"none", "applied"}
          /\ executed' = Append(executed, Item(Len(executed) + 1, flag, effect))
    /\ UNCHANGED <<targets, named, answer, damaged, phase, printed, exit, told>>

AnyFailed(results) == \E i \in DOMAIN results : results[i].flag # 0
BatchFlag(results) == IF AnyFailed(results) THEN BatchFailed ELSE 0

SendAnswer ==
    /\ ~answer.sent
    /\ Len(executed) = Len(targets)
    /\ answer' = Answer(BatchFlag(executed), executed)
    /\ UNCHANGED <<targets, named, executed, damaged, phase, printed, exit, told>>

\* A request that is refused as a whole (permissions, a malformed request).
RefuseRequest ==
    /\ ~answer.sent
    /\ executed = <<>>
    /\ \E flag \in Refusals : answer' = Answer(flag, <<>>)
    /\ UNCHANGED <<targets, named, executed, damaged, phase, printed, exit, told>>

Without(s, i) == SubSeq(s, 1, i - 1) \o SubSeq(s, i + 1, Len(s))
Swapped(s, i, j) == [s EXCEPT ![i] = s[j], ![j] = s[i]]

Renamed(s, i, t) == [s EXCEPT ![i] = [@ EXCEPT !.target = t]]
Blurred(s, i) == [s EXCEPT ![i] = [@ EXCEPT !.effect = "other"]]

\* What validateBatch guards against: an answer of a server or a proxy at fault,
\* one thing wrong in it.  A result is missing, or all are, two are swapped, one
\* names another target or no effect, or the batch has another flag.
DamageResults ==
    \/ answer' = Answer(answer.flag, <<>>)
    \/ \E i \in DOMAIN answer.results :
          \/ answer' = Answer(answer.flag, Without(answer.results, i))
          \/ \E j \in DOMAIN answer.results : answer' = Answer(answer.flag, Swapped(answer.results, i, j))
          \/ \E t \in Targets : answer' = Answer(answer.flag, Renamed(answer.results, i, t))
          \/ answer' = Answer(answer.flag, Blurred(answer.results, i))

DamageFlag ==
    \E flag \in {0, BatchFailed} \cup Refusals : answer' = Answer(flag, answer.results)

DamageAnswer ==
    /\ answer.sent /\ answer.results # <<>> /\ ~damaged
    /\ DamageResults \/ DamageFlag
    /\ damaged' = TRUE
    /\ UNCHANGED <<targets, named, executed, phase, printed, exit, told>>

----------------------------------------------------------------------------
(***************************************************************************)
(* The client                                                              *)
(***************************************************************************)

\* Mutant: every flag of an empty answer is a refusal.
IsRefusalByAnyFlag(a) == a.results = <<>> /\ a.flag # 0

\* validateBatch: an answer without results is a refusal of the whole request,
\* unless its flag says that the batch ran; otherwise there is one result per
\* target the client named, each in its place, and the flag sums them up.
IsRefusal(a) == a.results = <<>> /\ a.flag \notin {0, BatchFailed}
CountMatches(a) == named => Len(a.results) = Len(targets)

\* Mutant: positions are not compared.
ItemValidAnywhere(a, i) ==
    /\ named /\ i \in DOMAIN targets => a.results[i].target = targets[i]
    /\ a.results[i].effect \in Effects

ItemValid(a, i) ==
    /\ a.results[i].index = i - 1
    /\ named => a.results[i].target = targets[i]
    /\ a.results[i].effect \in Effects

\* Mutant: the flag is believed.
AnyFlag(a) == TRUE

FlagMatches(a) == a.flag = BatchFlag(a.results)

ValidBatch(a) ==
    \/ IsRefusal(a)
    \/ CountMatches(a) /\ (\A i \in DOMAIN a.results : ItemValid(a, i)) /\ FlagMatches(a)

\* Mutant: the flag is the exit code.
ReceiveAnswerRaw ==
    /\ phase = "waiting" /\ answer.sent
    /\ phase' = "done"
    /\ printed' = answer.results /\ exit' = answer.flag /\ told' = "answer"
    /\ UNCHANGED <<targets, named, executed, answer, damaged>>

\* CallCommand returns the answer, and reportCommandResponse prints the results
\* before it looks at the flag; an invalid answer prints nothing.
ReceiveAnswer ==
    /\ phase = "waiting" /\ answer.sent
    /\ phase' = "done"
    /\ IF ValidBatch(answer)
       THEN printed' = answer.results /\ exit' = ExitCodeForErrorCode(answer.flag)
       ELSE printed' = <<>> /\ exit' = ExitServerError
    /\ told' = "answer"
    /\ UNCHANGED <<targets, named, executed, answer, damaged>>

\* The only attempt fails without an answer that can be decoded, and the server
\* may go on: the outcome is unknown (OutcomeUnknown of CallWrapper), or, of an HTTP
\* answer net/http cannot parse as of a request it cannot build, "request could not
\* be sent" (classifyHttpError).  A call the server refuses by its status is left to
\* CallWrapper.
CallFails ==
    /\ phase = "waiting"
    /\ phase' = "done"
    /\ \/ exit' \in {ExitUnreachable, ExitServerError} /\ told' = "outcome unknown"
       \/ exit' = ExitRequestError /\ told' = "not sent"
    /\ UNCHANGED <<targets, named, executed, answer, damaged, printed>>

Next ==
    \/ ExecuteItem \/ SendAnswer \/ RefuseRequest \/ DamageAnswer
    \/ ReceiveAnswer \/ CallFails

Spec == Init /\ [][Next]_vars

----------------------------------------------------------------------------
(***************************************************************************)
(* Properties                                                              *)
(***************************************************************************)

Results == [index : Nat, target : Targets, flag : {0} \cup ItemErrors, effect : Effects \cup {"other"}]

TypeOK ==
    /\ targets \in TargetLists
    /\ named \in BOOLEAN
    /\ executed \in Seq(Results)
    /\ answer.flag \in Nat /\ answer.results \in Seq(Results) /\ answer.sent \in BOOLEAN
    /\ damaged \in BOOLEAN
    /\ phase \in {"waiting", "done"}
    /\ printed \in Seq(Results)
    /\ exit \in ExitCodes
    /\ told \in Sources

\* For a request that names its targets, the lines printed are what the server
\* did: each under its own target and position, none missing and none doubled,
\* whatever result was lost, moved or renamed on the way.
PrintedIsWhatHappened ==
    phase = "done" /\ named /\ exit \in {ExitOK, ExitRequestError} /\ printed # <<>>
        => /\ Len(printed) = Len(executed)
           /\ \A i \in DOMAIN printed : /\ printed[i].target = executed[i].target
                                        /\ printed[i].flag = executed[i].flag

\* Exit code 0 means that every target of the request was executed and that none
\* failed, even when the client does not know the targets and cannot count the
\* results (begin without a flow name).
SuccessIsComplete ==
    phase = "done" /\ exit = ExitOK
        => /\ Len(executed) = Len(targets)
           /\ ~AnyFailed(executed)

\* A command that exits 1 without a result line was refused as a whole and touched
\* nothing, unless it says that its request could not be sent, which is not true of
\* every such request.
RefusalTouchesNothing ==
    /\ phase = "done" /\ exit = ExitRequestError /\ printed = <<>>
    /\ told # "not sent"
    => executed = <<>>

\* validateBatch raises no false alarm: the answer the server sent is accepted,
\* also where a target is named twice, an item failed, or the request was refused.
HonestAnswerAccepted ==
    answer.sent /\ ~damaged => ValidBatch(answer)
=============================================================================
