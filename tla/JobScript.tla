----------------------------- MODULE JobScript -----------------------------
(***************************************************************************)
(* One attempt of a task, as its job script reports it (the script of      *)
(* README.md, "Job script integration"): init before any trap is set, then *)
(* event and meter reports, then complete; set -e and the traps lead every *)
(* failure and signal to ERROR, which sends abort and exits 0.             *)
(*                                                                         *)
(* Each report is one process of takler_client, and what it may report is  *)
(* taken from ReportCall, which CallWrapper implements: exit code 0 is     *)
(* "applied" or, under NO_TAKLER, "ignored"; any other code ends the call  *)
(* as "answered", "refused" or "unknown".  Over HTTP, "refused" may hide   *)
(* an executed report whose answer was garbled.  A request may outlive the *)
(* process that sent it, and the process the script.                       *)
(***************************************************************************)
EXTENDS Naturals

CONSTANTS
    Progress,   \* the number of event and meter reports between init and complete
    MaxSignals  \* bound: how many signals the script is sent

ASSUME JobScriptAssumption == Progress \in Nat /\ MaxSignals \in Nat

InitReport == 1
Complete == Progress + 2
Program == 1 .. Complete

\* The reports of the program in their order, then those ERROR sends.
Aborts == Complete + 1 .. Complete + 1 + MaxSignals
Reports == Program \cup Aborts

VARIABLES
    noTakler,  \* NO_TAKLER is set
    http,      \* the reports go over HTTP
    pc,        \* where the script is
    next,      \* the next report of the program
    aborts,    \* how often abort was called
    signals,   \* how many signals the script has been sent
    signalled, \* a signal waits for its trap
    outcome,   \* what the script learnt of each report
    request,   \* what became of each report's request
    current    \* the attempt is the task's current one

script == <<pc, next, aborts, signals, signalled>>
vars == <<noTakler, http, script, outcome, request, current>>

\* "start" runs init, "untrapped" has its success but no traps yet, "leaving" is
\* on the way to exit 0.
Running == {"start", "call", "untrapped", "main", "error", "abort", "leaving"}
Over == {"ended", "killed"}
Outcomes == {"none", "pending", "applied", "ignored", "answered", "refused", "unknown"}
Requests == {"none", "sent", "executed", "refused", "lost"}

Init ==
    /\ noTakler \in BOOLEAN
    /\ http \in BOOLEAN
    /\ pc = "start"
    /\ next = InitReport
    /\ aborts = 0
    /\ signals = 0
    /\ signalled = FALSE
    /\ outcome = [r \in Reports |-> "none"]
    /\ request = [r \in Reports |-> "none"]
    /\ current = TRUE

\* bash has installed the traps.
Trapped ==
    \/ pc \in {"main", "error", "abort", "leaving"}
    \/ pc = "call" /\ next # InitReport

----------------------------------------------------------------------------
(***************************************************************************)
(* The script                                                              *)
(***************************************************************************)

\* A signal that came during a command is taken care of before the next one.
StartReport ==
    /\ pc \in {"start", "main"} /\ next \in Program /\ ~signalled
    /\ pc' = "call"
    /\ outcome' = [outcome EXCEPT ![next] = "pending"]
    /\ UNCHANGED <<noTakler, http, next, aborts, signals, signalled, request, current>>

InstallTraps ==
    /\ pc = "untrapped"
    /\ pc' = "main"
    /\ UNCHANGED <<noTakler, http, next, aborts, signals, signalled, outcome, request, current>>

\* Mutant: without set -e.
AfterReportGoesOn(success) ==
    CASE next = InitReport -> "untrapped"
      [] next = Complete   -> "leaving"
      [] OTHER             -> "main"

\* Mutant: the traps are for signals only.
AfterReportUntrapped(success) ==
    CASE ~success             -> "ended"
      [] next = InitReport    -> "untrapped"
      [] next = Complete      -> "leaving"
      [] OTHER                -> "main"

\* Where the script goes on after a report: set -e ends it, by way of the trap if
\* there is one.
AfterReport(success) ==
    CASE ~success /\ next = InitReport -> "ended"
      [] ~success /\ next # InitReport -> "error"
      [] success /\ next = InitReport  -> "untrapped"
      [] success /\ next = Complete    -> "leaving"
      [] OTHER                         -> "main"

Success(o) == o \in {"applied", "ignored"}

\* What a call may report of its request; NO_TAKLER alone makes it "ignored".
Call(r) == INSTANCE ReportCall WITH garbles <- http, request <- request[r], outcome <- outcome[r]

MayReport(r, o) == Call(r)!MayReport(o) /\ (o = "ignored" => noTakler)

ReportReturns ==
    /\ pc = "call"
    /\ \E o \in Outcomes :
          /\ MayReport(next, o)
          /\ outcome' = [outcome EXCEPT ![next] = o]
          /\ pc' = AfterReport(Success(o))
          /\ next' = IF pc' \in {"untrapped", "main", "leaving"} THEN next + 1 ELSE next
    /\ UNCHANGED <<noTakler, http, aborts, signals, signalled, request, current>>

WorkFails ==
    /\ pc = "main"
    /\ pc' = "error"
    /\ UNCHANGED <<noTakler, http, next, aborts, signals, signalled, outcome, request, current>>

\* ERROR: set +e, wait, abort.
CallAbort ==
    /\ pc = "error"
    /\ pc' = "abort"
    /\ aborts' = aborts + 1
    /\ outcome' = [outcome EXCEPT ![Complete + aborts + 1] = "pending"]
    /\ UNCHANGED <<noTakler, http, next, signals, signalled, request, current>>

AbortReturns ==
    /\ pc = "abort"
    /\ \E o \in Outcomes :
          /\ MayReport(Complete + aborts, o)
          /\ outcome' = [outcome EXCEPT ![Complete + aborts] = o]
    /\ pc' = "leaving"
    /\ UNCHANGED <<noTakler, http, next, aborts, signals, signalled, request, current>>

\* Mutant: complete is not followed by trap 0.
LeaveTrapped ==
    /\ pc = "leaving"
    /\ pc' = IF aborts = 0 THEN "error" ELSE "ended"
    /\ UNCHANGED <<noTakler, http, next, aborts, signals, signalled, outcome, request, current>>

\* trap 0 and exit 0.
Leave ==
    /\ pc = "leaving"
    /\ pc' = "ended"
    /\ UNCHANGED <<noTakler, http, next, aborts, signals, signalled, outcome, request, current>>

\* Mutant: the trap of the signals is the end of the script.
HandleSignalQuietly ==
    /\ pc \in {"main", "error", "leaving"} /\ signalled
    /\ pc' = "leaving"
    /\ signalled' = FALSE
    /\ UNCHANGED <<noTakler, http, next, aborts, signals, outcome, request, current>>

\* Mutant: the signal is sent again.
HandleSignalAgain ==
    /\ pc \in {"main", "error", "leaving"} /\ signalled
    /\ pc' = "error"
    /\ UNCHANGED <<noTakler, http, next, aborts, signals, signalled, outcome, request, current>>

\* Mutant: the trap does not wait for the client that runs.
HandleSignalAtOnce ==
    /\ pc \in {"call", "main", "error", "leaving"} /\ Trapped /\ signalled
    /\ pc' = "error"
    /\ signalled' = FALSE
    /\ UNCHANGED <<noTakler, http, next, aborts, signals, outcome, request, current>>

\* trap 0 and ERROR, also when ERROR is what was interrupted, unless bash holds
\* back the trap of a signal inside itself.
HandleSignal ==
    /\ pc \in {"main", "error", "leaving"} /\ signalled
    /\ pc' = "error"
    /\ signalled' = FALSE
    /\ UNCHANGED <<noTakler, http, next, aborts, signals, outcome, request, current>>

Script ==
    \/ StartReport \/ InstallTraps \/ ReportReturns \/ WorkFails
    \/ CallAbort \/ AbortReturns \/ Leave \/ HandleSignal

----------------------------------------------------------------------------
(***************************************************************************)
(* Around the script                                                       *)
(***************************************************************************)

\* One of the signals the script traps.
Signal ==
    /\ pc \in Running /\ signals < MaxSignals
    /\ signals' = signals + 1
    /\ IF Trapped THEN signalled' = TRUE /\ UNCHANGED pc
                  ELSE pc' = "killed" /\ UNCHANGED signalled
    /\ UNCHANGED <<noTakler, http, next, aborts, outcome, request, current>>

\* SIGKILL, or the machine is lost.  A client that runs may survive.
Kill ==
    /\ pc \in Running
    /\ pc' = "killed"
    /\ UNCHANGED <<noTakler, http, next, aborts, signals, signalled, outcome, request, current>>

Becomes(r, status) ==
    /\ request' = [request EXCEPT ![r] = status]
    /\ UNCHANGED <<noTakler, http, script, outcome, current>>

\* A client sends its request once (MutationAtMostOnce).
Send(r) == outcome[r] = "pending" /\ ~noTakler /\ request[r] = "none" /\ Becomes(r, "sent")

\* A request may arrive late, when its call is over.
Execute(r) == request[r] = "sent" /\ current /\ Becomes(r, "executed")
Refuse(r) == request[r] = "sent" /\ Becomes(r, "refused")
Lose(r) == request[r] = "sent" /\ Becomes(r, "lost")

\* The task is requeued and gets another attempt.
Supersede ==
    /\ current
    /\ current' = FALSE
    /\ UNCHANGED <<noTakler, http, script, outcome, request>>

Deliver(r) == Send(r) \/ Execute(r) \/ Refuse(r) \/ Lose(r)

Next == Script \/ Signal \/ Kill \/ Supersede \/ \E r \in Reports : Deliver(r)

\* bash goes on, the work between two reports ends, and every call returns
\* (CallWrapper's Terminates).
Spec == Init /\ [][Next]_vars /\ WF_vars(Script)

----------------------------------------------------------------------------
(***************************************************************************)
(* Properties                                                              *)
(***************************************************************************)

TypeOK ==
    /\ noTakler \in BOOLEAN /\ http \in BOOLEAN /\ signalled \in BOOLEAN /\ current \in BOOLEAN
    /\ pc \in Running \cup Over
    /\ next \in 1 .. Complete + 1
    /\ aborts \in 0 .. MaxSignals + 1
    /\ signals \in 0 .. MaxSignals
    /\ outcome \in [Reports -> Outcomes]
    /\ request \in [Reports -> Requests]

\* The server never executes a report of the program before the ones that come
\* before it: set -e sends no report after one that did not succeed, and a request
\* that arrives late is the last one of the program.
ServerSeesAPrefix ==
    \A r, s \in Program : r < s /\ request[s] = "executed" => request[r] = "executed"

\* A task is reported as aborted after its completion was executed only when the
\* script could not know (the answer of complete was lost, bad or garbled) or when a
\* signal came before the script was gone.
AbortAfterCompleteIsExplained ==
    request[Complete] = "executed" /\ aborts > 0 =>
        \/ outcome[Complete] \in {"answered", "unknown"}
        \/ http /\ outcome[Complete] = "refused"
        \/ signals > 0

\* The end of a task whose init was executed stays unreported for ever only when
\* the script was killed, when init itself did not report success (no trap is set
\* then), or when abort did not get through.
LostTasksAreExplained ==
    /\ pc = "ended"
    /\ request[InitReport] = "executed"
    /\ \A r \in Aborts \cup {Complete} : request[r] \notin {"sent", "executed"}
    => \/ outcome[InitReport] # "applied"
       \/ \E r \in Aborts : outcome[r] \in {"answered", "refused", "unknown"}

\* A script whose init succeeded completes, calls abort or is killed.
EndIsReported ==
    outcome[InitReport] = "applied" ~>
        outcome[Complete] = "applied" \/ aborts > 0 \/ pc = "killed"

\* A report the server executes after a later one, an abort above all, is one the
\* script was told it knows nothing of: no report is sent while an earlier one is
\* still under way, and what was refused, answered or garbled is not on its way.
OvertakenIsUnknown ==
    [][\A r, s \in Reports :
           /\ r < s /\ request[s] = "executed"
           /\ request[r] # "executed" /\ request'[r] = "executed"
           => outcome[r] = "unknown"]_vars
=============================================================================
