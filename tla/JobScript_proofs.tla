-------------------------- MODULE JobScript_proofs --------------------------
(***************************************************************************)
(* What a job script reports, for any number of progress reports and any   *)
(* number of signals.                                                      *)
(***************************************************************************)
EXTENDS JobScript, TLAPS

Returned == {"applied", "ignored", "answered", "refused", "unknown"}

\* Every abort but the first takes a signal of its own.
AbortsCounted ==
    /\ aborts + (IF signalled THEN 1 ELSE 0) <= signals + (IF pc = "error" THEN 0 ELSE 1)
    /\ signalled => signals > 0
    /\ pc = "abort" => aborts > 0

\* Where the program stands: all before next has succeeded, nothing after it has
\* been called.
ReportsInOrder ==
    /\ pc = "start" => next = InitReport
    /\ pc \in {"start", "call", "untrapped", "main"} => next \in Program /\ aborts = 0
    /\ \A r \in Program :
          /\ r < next => Success(outcome[r])
          /\ r > next => outcome[r] = "none"
          /\ r = next /\ pc \in {"start", "untrapped", "main"} => outcome[r] = "none"

\* What the outcome of a report says of its request.
OutcomesFit ==
    \A r \in Reports :
        /\ outcome[r] = "none" => request[r] = "none"
        /\ noTakler => request[r] = "none"
        /\ outcome[r] = "ignored" => noTakler
        /\ outcome[r] = "applied" => request[r] = "executed"
        /\ outcome[r] = "answered" => request[r] \in {"executed", "refused"}
        /\ outcome[r] = "refused" =>
              request[r] \in {"none", "refused"} \/ (http /\ request[r] = "executed")

\* Which reports wait for their outcome, and which are still to come.
CallsInOrder ==
    /\ pc = "call" => outcome[next] = "pending"
    /\ pc = "abort" => outcome[Complete + aborts] = "pending"
    /\ \A r \in Aborts : r > Complete + aborts => outcome[r] = "none"

\* What brings a script to ERROR, and what to its end.
EndIsExplained ==
    /\ aborts > 0 \/ pc = "error" =>
          signals > 0 \/ outcome[Complete] \in {"none", "answered", "refused", "unknown"}
    /\ pc = "leaving" => Success(outcome[Complete]) \/ \E r \in Aborts : outcome[r] \in Returned
    /\ pc = "ended" => \/ outcome[InitReport] \in {"answered", "refused", "unknown"}
                       \/ Success(outcome[Complete])
                       \/ \E r \in Aborts : outcome[r] \in Returned

IInv ==
    TypeOK /\ AbortsCounted /\ ReportsInOrder /\ OutcomesFit /\ CallsInOrder /\ EndIsExplained

----------------------------------------------------------------------------
\* The numbers of the reports.
LEMMA Numbers ==
    /\ Complete \in Nat /\ Complete >= 2
    /\ Program \subseteq Reports /\ Aborts \subseteq Reports
    /\ InitReport \in Program /\ Complete \in Program
    /\ \A r \in Reports : r \in Nat
    /\ \A r \in Aborts : r \notin Program
    /\ \A n \in 1 .. MaxSignals + 1 : Complete + n \in Aborts
BY JobScriptAssumption DEF Complete, Program, Aborts, Reports, InitReport

LEMMA InitIInv == Init => IInv
<1> SUFFICES ASSUME Init PROVE IInv OBVIOUS
<1> USE Numbers DEF Init
<1>1. TypeOK
  <2>1. noTakler \in BOOLEAN /\ http \in BOOLEAN /\ signalled \in BOOLEAN /\ current \in BOOLEAN OBVIOUS
  <2>2. /\ pc \in Running \cup Over
        /\ next \in 1 .. Complete + 1
        /\ aborts \in 0 .. MaxSignals + 1
        /\ signals \in 0 .. MaxSignals
        /\ outcome \in [Reports -> Outcomes]
        /\ request \in [Reports -> Requests]
    BY JobScriptAssumption DEF Running, Outcomes, Requests, InitReport
  <2> QED BY <2>1, <2>2 DEF TypeOK
<1>2. AbortsCounted
  <2>1. aborts = 0 /\ signals = 0 /\ ~signalled OBVIOUS
  <2> QED BY <2>1 DEF AbortsCounted
<1>3. ReportsInOrder BY DEF ReportsInOrder, InitReport, Program
<1>4. OutcomesFit BY DEF OutcomesFit
<1>5. EndIsExplained BY DEF EndIsExplained
<1>6. CallsInOrder BY DEF CallsInOrder, Program
<1> QED BY <1>1, <1>2, <1>3, <1>4, <1>5, <1>6 DEF IInv

\* An outcome a call may report fits its request.
LEMMA MayReportFits ==
    ASSUME OutcomesFit, NEW r \in Reports, NEW o \in Outcomes, MayReport(r, o)
    PROVE  /\ o \in Returned
           /\ o = "ignored" => noTakler
           /\ o = "applied" => request[r] = "executed"
           /\ o = "answered" => request[r] \in {"executed", "refused"}
           /\ o = "refused" =>
                 request[r] \in {"none", "refused"} \/ (http /\ request[r] = "executed")
BY DEF MayReport, Call!MayReport, Returned, OutcomesFit, Outcomes

LEMMA StartReportKeeps == ASSUME IInv, StartReport PROVE IInv'
<1> USE Numbers DEF IInv, StartReport
<1>1. TypeOK' BY DEF TypeOK, Running, Outcomes
<1>2. AbortsCounted' BY DEF AbortsCounted
<1>3. ReportsInOrder' BY DEF ReportsInOrder, TypeOK, Success
<1>4. OutcomesFit' BY DEF OutcomesFit, TypeOK
<1>5. EndIsExplained' BY DEF EndIsExplained, ReportsInOrder, TypeOK
<1>6. CallsInOrder' BY DEF CallsInOrder, ReportsInOrder, TypeOK
<1> QED BY <1>1, <1>2, <1>3, <1>4, <1>5, <1>6

LEMMA InstallTrapsKeeps == ASSUME IInv, InstallTraps PROVE IInv'
<1> USE Numbers DEF IInv, InstallTraps
<1>1. TypeOK' BY DEF TypeOK, Running
<1>2. AbortsCounted' BY DEF AbortsCounted
<1>3. ReportsInOrder' BY DEF ReportsInOrder, TypeOK
<1>4. OutcomesFit' BY DEF OutcomesFit
<1>5. EndIsExplained' BY DEF EndIsExplained
<1>6. CallsInOrder' BY DEF CallsInOrder
<1> QED BY <1>1, <1>2, <1>3, <1>4, <1>5, <1>6

LEMMA ReportReturnsKeeps == ASSUME IInv, ReportReturns PROVE IInv'
<1> USE Numbers DEF IInv
<1>1. PICK o \in Outcomes :
          /\ MayReport(next, o)
          /\ outcome' = [outcome EXCEPT ![next] = o]
          /\ pc' = AfterReport(Success(o))
          /\ next' = IF pc' \in {"untrapped", "main", "leaving"} THEN next + 1 ELSE next
  BY DEF ReportReturns
<1>2. /\ pc = "call" /\ next \in Program /\ aborts = 0
      /\ UNCHANGED <<noTakler, http, aborts, signals, signalled, request, current>>
  BY DEF ReportReturns, ReportsInOrder
<1>3. /\ o \in Returned
      /\ o = "ignored" => noTakler
      /\ o = "applied" => request[next] = "executed"
      /\ o = "answered" => request[next] \in {"executed", "refused"}
      /\ o = "refused" =>
            \/ request[next] \in {"none", "refused"}
            \/ http /\ request[next] = "executed"
  BY <1>1, <1>2, MayReportFits
<1>4. \/ ~Success(o) /\ next = InitReport /\ pc' = "ended" /\ next' = next
      \/ ~Success(o) /\ next # InitReport /\ pc' = "error" /\ next' = next
      \/ Success(o) /\ next = InitReport /\ pc' = "untrapped" /\ next' = next + 1
      \/ Success(o) /\ next = Complete /\ pc' = "leaving" /\ next' = next + 1
      \/ Success(o) /\ next # Complete /\ pc' = "main" /\ next' = next + 1
  BY <1>1, <1>2 DEF AfterReport, InitReport
<1>5. TypeOK'
  BY <1>1, <1>2, <1>4 DEF TypeOK, Running, Over, Program
<1>6. AbortsCounted' BY <1>2, <1>4 DEF AbortsCounted, TypeOK
<1>7. ReportsInOrder'
  <2>1. (pc \in {"start", "call", "untrapped", "main"} => next \in Program /\ aborts = 0)'
    BY <1>2, <1>4 DEF Program, InitReport
  <2>2. (\A r \in Program :
          /\ r < next => Success(outcome[r])
          /\ r > next => outcome[r] = "none"
          /\ r = next /\ pc \in {"start", "untrapped", "main"} => outcome[r] = "none")'
    BY <1>1, <1>2, <1>4 DEF ReportsInOrder, TypeOK, Success, Program
  <2> QED BY <1>4, <2>1, <2>2 DEF ReportsInOrder
<1>8. OutcomesFit' BY <1>1, <1>2, <1>3 DEF OutcomesFit, TypeOK, Returned
<1>9. EndIsExplained'
  BY <1>1, <1>2, <1>3, <1>4 DEF EndIsExplained, ReportsInOrder, TypeOK, Success, Returned, Program
<1>10. CallsInOrder' BY <1>1, <1>2, <1>4 DEF CallsInOrder, TypeOK
<1> QED BY <1>5, <1>6, <1>7, <1>8, <1>9, <1>10

LEMMA WorkFailsKeeps == ASSUME IInv, WorkFails PROVE IInv'
<1> USE Numbers DEF IInv, WorkFails
<1>1. TypeOK' BY DEF TypeOK, Running
<1>2. AbortsCounted' BY DEF AbortsCounted, ReportsInOrder, TypeOK
<1>3. ReportsInOrder' BY DEF ReportsInOrder
<1>4. OutcomesFit' BY DEF OutcomesFit
<1>5. EndIsExplained' BY DEF EndIsExplained, ReportsInOrder, Program
<1>6. CallsInOrder' BY DEF CallsInOrder
<1> QED BY <1>1, <1>2, <1>3, <1>4, <1>5, <1>6

LEMMA CallAbortKeeps == ASSUME IInv, CallAbort PROVE IInv'
<1> USE Numbers DEF IInv, CallAbort
<1>1. aborts \in Nat /\ aborts + 1 \in 1 .. MaxSignals + 1
  BY JobScriptAssumption DEF AbortsCounted, TypeOK
<1>2. Complete + aborts + 1 \in Aborts BY <1>1
<1>3. TypeOK' BY <1>1, <1>2 DEF TypeOK, Running, Outcomes
<1>4. AbortsCounted' BY <1>1 DEF AbortsCounted, TypeOK
<1>5. ReportsInOrder' BY <1>2 DEF ReportsInOrder, TypeOK
<1>6. OutcomesFit' BY <1>2 DEF OutcomesFit, TypeOK
<1>7. EndIsExplained' BY <1>1, <1>2 DEF EndIsExplained, TypeOK
<1>8. CallsInOrder' BY <1>1, <1>2 DEF CallsInOrder, TypeOK
<1> QED BY <1>3, <1>4, <1>5, <1>6, <1>7, <1>8

LEMMA AbortReturnsKeeps == ASSUME IInv, AbortReturns PROVE IInv'
<1> USE Numbers DEF IInv
<1>1. PICK o \in Outcomes :
          /\ MayReport(Complete + aborts, o)
          /\ outcome' = [outcome EXCEPT ![Complete + aborts] = o]
  BY DEF AbortReturns
<1>2. /\ pc = "abort" /\ pc' = "leaving"
      /\ UNCHANGED <<noTakler, http, next, aborts, signals, signalled, request, current>>
  BY DEF AbortReturns
<1>3. Complete + aborts \in Aborts BY <1>2, JobScriptAssumption DEF TypeOK, AbortsCounted
<1>4. /\ o \in Returned
      /\ o = "ignored" => noTakler
      /\ o = "applied" => request[Complete + aborts] = "executed"
      /\ o = "answered" => request[Complete + aborts] \in {"executed", "refused"}
      /\ o = "refused" =>
            \/ request[Complete + aborts] \in {"none", "refused"}
            \/ http /\ request[Complete + aborts] = "executed"
  BY <1>1, <1>3, MayReportFits
<1>5. TypeOK' BY <1>1, <1>2, <1>3 DEF TypeOK, Running
<1>6. AbortsCounted' BY <1>2 DEF AbortsCounted
<1>7. ReportsInOrder' BY <1>1, <1>2, <1>3 DEF ReportsInOrder, TypeOK
<1>8. OutcomesFit' BY <1>1, <1>2, <1>3, <1>4 DEF OutcomesFit, TypeOK, Returned
<1>9. EndIsExplained' BY <1>1, <1>2, <1>3, <1>4 DEF EndIsExplained, TypeOK
<1>10. CallsInOrder' BY <1>1, <1>2, <1>3 DEF CallsInOrder, TypeOK
<1> QED BY <1>5, <1>6, <1>7, <1>8, <1>9, <1>10

LEMMA LeaveKeeps == ASSUME IInv, Leave PROVE IInv'
<1> USE Numbers DEF IInv, Leave
<1>1. TypeOK' BY DEF TypeOK, Over
<1>2. AbortsCounted' BY DEF AbortsCounted
<1>3. ReportsInOrder' BY DEF ReportsInOrder
<1>4. OutcomesFit' BY DEF OutcomesFit
<1>5. EndIsExplained' BY DEF EndIsExplained
<1>6. CallsInOrder' BY DEF CallsInOrder
<1> QED BY <1>1, <1>2, <1>3, <1>4, <1>5, <1>6

LEMMA HandleSignalKeeps == ASSUME IInv, HandleSignal PROVE IInv'
<1> USE Numbers DEF IInv, HandleSignal
<1>1. TypeOK' BY DEF TypeOK, Running
<1>2. AbortsCounted' BY DEF AbortsCounted, TypeOK
<1>3. ReportsInOrder' BY DEF ReportsInOrder
<1>4. OutcomesFit' BY DEF OutcomesFit
<1>5. EndIsExplained' BY DEF EndIsExplained, AbortsCounted
<1>6. CallsInOrder' BY DEF CallsInOrder
<1> QED BY <1>1, <1>2, <1>3, <1>4, <1>5, <1>6

LEMMA SignalKeeps == ASSUME IInv, Signal PROVE IInv'
<1> USE Numbers DEF IInv
<1>1. /\ pc \in Running /\ signals < MaxSignals /\ signals' = signals + 1
      /\ UNCHANGED <<noTakler, http, next, aborts, outcome, request, current>>
      /\ \/ signalled' = TRUE /\ pc' = pc
         \/ signalled' = signalled /\ pc' = "killed"
  BY DEF Signal
<1>2. TypeOK'
  <2>1. signalled' \in BOOLEAN BY <1>1 DEF TypeOK
  <2>2. (pc \in Running \cup Over)' BY <1>1 DEF TypeOK, Over
  <2>3. (signals \in 0 .. MaxSignals)' BY <1>1, JobScriptAssumption DEF TypeOK
  <2> QED BY <1>1, <2>1, <2>2, <2>3 DEF TypeOK
<1>3. AbortsCounted' BY <1>1 DEF AbortsCounted, TypeOK
<1>4. ReportsInOrder' BY <1>1 DEF ReportsInOrder
<1>5. OutcomesFit' BY <1>1 DEF OutcomesFit
<1>6. EndIsExplained' BY <1>1 DEF EndIsExplained, TypeOK
<1>7. CallsInOrder' BY <1>1 DEF CallsInOrder
<1> QED BY <1>2, <1>3, <1>4, <1>5, <1>6, <1>7

LEMMA KillKeeps == ASSUME IInv, Kill PROVE IInv'
<1> USE Numbers DEF IInv, Kill
<1>1. TypeOK' BY DEF TypeOK, Over
<1>2. AbortsCounted' BY DEF AbortsCounted, TypeOK
<1>3. ReportsInOrder' BY DEF ReportsInOrder
<1>4. OutcomesFit' BY DEF OutcomesFit
<1>5. EndIsExplained' BY DEF EndIsExplained
<1>6. CallsInOrder' BY DEF CallsInOrder
<1> QED BY <1>1, <1>2, <1>3, <1>4, <1>5, <1>6

LEMMA SupersedeKeeps == ASSUME IInv, Supersede PROVE IInv'
<1>1. /\ UNCHANGED <<noTakler, http, pc, next, aborts, signals, signalled, outcome, request>>
      /\ current' = FALSE
  BY DEF Supersede, script
<1> USE DEF IInv
<1>2. TypeOK' BY <1>1 DEF TypeOK
<1>3. AbortsCounted' BY <1>1 DEF AbortsCounted
<1>4. ReportsInOrder' BY <1>1 DEF ReportsInOrder
<1>5. OutcomesFit' BY <1>1 DEF OutcomesFit
<1>6. CallsInOrder' BY <1>1 DEF CallsInOrder
<1>7. EndIsExplained' BY <1>1 DEF EndIsExplained
<1> QED BY <1>2, <1>3, <1>4, <1>5, <1>6, <1>7

LEMMA DeliverKeeps == ASSUME IInv, NEW q \in Reports, Deliver(q) PROVE IInv'
<1> USE Numbers DEF IInv
<1>1. PICK status \in Requests : Becomes(q, status)
  BY DEF Deliver, Send, Execute, Refuse, Lose, Requests
<1>2. \/ outcome[q] = "pending" /\ ~noTakler
      \/ request[q] = "sent"
  BY DEF Deliver, Send, Execute, Refuse, Lose
<1>3. /\ request' = [request EXCEPT ![q] = status]
      /\ UNCHANGED <<noTakler, http, pc, next, aborts, signals, signalled, outcome, current>>
  BY <1>1 DEF Becomes, script
<1>4. TypeOK' BY <1>3 DEF TypeOK
<1>5. AbortsCounted' BY <1>3 DEF AbortsCounted
<1>6. ReportsInOrder' BY <1>3 DEF ReportsInOrder
<1>7. OutcomesFit' BY <1>2, <1>3 DEF OutcomesFit, TypeOK
<1>8. EndIsExplained' BY <1>3 DEF EndIsExplained
<1>9. CallsInOrder' BY <1>3 DEF CallsInOrder
<1> QED BY <1>4, <1>5, <1>6, <1>7, <1>8, <1>9

LEMMA IInvStep == ASSUME IInv, [Next]_vars PROVE IInv'
<1>1. CASE StartReport BY <1>1, StartReportKeeps
<1>2. CASE InstallTraps BY <1>2, InstallTrapsKeeps
<1>3. CASE ReportReturns BY <1>3, ReportReturnsKeeps
<1>4. CASE WorkFails BY <1>4, WorkFailsKeeps
<1>5. CASE CallAbort BY <1>5, CallAbortKeeps
<1>6. CASE AbortReturns BY <1>6, AbortReturnsKeeps 
<1>7. CASE Leave BY <1>7, LeaveKeeps
<1>8. CASE HandleSignal BY <1>8, HandleSignalKeeps
<1>9. CASE Signal BY <1>9, SignalKeeps
<1>10. CASE Kill BY <1>10, KillKeeps
<1>11. CASE Supersede BY <1>11, SupersedeKeeps
<1>12. ASSUME NEW q \in Reports, Deliver(q) PROVE IInv' BY <1>12, DeliverKeeps
<1>13. CASE UNCHANGED vars
  <2>1. UNCHANGED <<noTakler, http, pc, next, aborts, signals, signalled, outcome, request, current>>
    BY <1>13 DEF vars, script
  <2> USE DEF IInv
  <2>2. TypeOK' BY <2>1 DEF TypeOK
  <2>3. AbortsCounted' BY <2>1 DEF AbortsCounted
  <2>4. ReportsInOrder' BY <2>1 DEF ReportsInOrder
  <2>5. OutcomesFit' BY <2>1 DEF OutcomesFit
  <2>6. CallsInOrder' BY <2>1 DEF CallsInOrder
  <2>7. EndIsExplained' BY <2>1 DEF EndIsExplained
  <2> QED BY <2>2, <2>3, <2>4, <2>5, <2>6, <2>7
<1> QED
  BY <1>1, <1>2, <1>3, <1>4, <1>5, <1>6, <1>7, <1>8, <1>9, <1>10, <1>11, <1>12, <1>13
  DEF Next, Script

----------------------------------------------------------------------------
\* The invariant behind the theorems below.
THEOREM ScriptSafe == Spec => []IInv
<1> QED BY InitIInv, IInvStep, PTL DEF Spec

\* Every variable stays in its type: in particular ERROR sends no more aborts than
\* one and one for every signal.
THEOREM TypeCorrect == Spec => []TypeOK
<1>1. IInv => TypeOK BY DEF IInv
<1> QED BY <1>1, ScriptSafe, PTL

\* However long the program, whatever becomes of its requests: what the server
\* executes is a prefix of it.
THEOREM PrefixExecuted == Spec => []ServerSeesAPrefix
<1>1. IInv => ServerSeesAPrefix
  <2> SUFFICES ASSUME IInv, NEW r \in Program, NEW s \in Program, r < s, request[s] = "executed"
               PROVE  request[r] = "executed"
    BY DEF ServerSeesAPrefix
  <2>1. ~noTakler /\ outcome[s] # "none" BY Numbers DEF IInv, OutcomesFit
  <2>2. s <= next BY <2>1, Numbers DEF IInv, ReportsInOrder, TypeOK, Program
  <2>3. Success(outcome[r]) BY <2>2, Numbers DEF IInv, ReportsInOrder, TypeOK, Program
  <2> QED BY <2>1, <2>3, Numbers DEF IInv, OutcomesFit, Success
<1> QED BY <1>1, ScriptSafe, PTL

\* An abort after an executed complete has one of the explanations named, for any
\* number of signals.
THEOREM LateAbortExplained == Spec => []AbortAfterCompleteIsExplained
<1>1. IInv => AbortAfterCompleteIsExplained
  BY Numbers DEF IInv, OutcomesFit, EndIsExplained, TypeOK, AbortAfterCompleteIsExplained
<1> QED BY <1>1, ScriptSafe, PTL

\* A task is left without an end only for one of the reasons named.
THEOREM LostTaskExplained == Spec => []LostTasksAreExplained
<1>1. IInv => LostTasksAreExplained
  <2> SUFFICES ASSUME IInv, pc = "ended", request[InitReport] = "executed",
                      \A r \in Aborts \cup {Complete} : request[r] \notin {"sent", "executed"},
                      outcome[InitReport] = "applied"
               PROVE  \E r \in Aborts : outcome[r] \in {"answered", "refused", "unknown"}
    BY DEF LostTasksAreExplained
  <2>1. ~noTakler BY Numbers DEF IInv, OutcomesFit
  <2>2. ~Success(outcome[Complete]) BY <2>1, Numbers DEF IInv, OutcomesFit, Success
  <2>3. PICK r \in Aborts : outcome[r] \in Returned BY <2>2 DEF IInv, EndIsExplained
  <2>4. outcome[r] \notin {"applied", "ignored"} BY <2>1, Numbers DEF IInv, OutcomesFit
  <2> QED BY <2>3, <2>4 DEF Returned
<1> QED BY <1>1, ScriptSafe, PTL

----------------------------------------------------------------------------
(***************************************************************************)
(* Reports that overtake each other                                        *)
(***************************************************************************)

\* The aborts that were called are those that have an outcome.
AbortsCalled == \A r \in Aborts : outcome[r] # "none" => aborts > 0

\* A report waits for its outcome only while it is the last one called, and only in
\* a script that waits with it or was killed.
PendingIsLast ==
    \A r \in Reports : outcome[r] = "pending" =>
        /\ pc \in {"call", "abort", "killed"}
        /\ \A s \in Reports : s > r => outcome[s] = "none"

\* An abort has an outcome only when it was called.
LEMMA AbortsCalledStep ==
    ASSUME IInv, AbortsCalled, [Next]_vars
    PROVE  AbortsCalled'
<1> USE Numbers DEF IInv, AbortsCalled
<1>1. CASE StartReport  BY <1>1 DEF StartReport, TypeOK
<1>2. CASE ReportReturns
  <2>1. next \in Program /\ aborts' = aborts  BY <1>2 DEF ReportReturns, ReportsInOrder
  <2>2. \A r \in Aborts : outcome'[r] = outcome[r]  BY <1>2, <2>1 DEF ReportReturns, TypeOK
  <2> QED BY <2>1, <2>2
<1>3. CASE CallAbort  BY <1>3 DEF CallAbort, TypeOK
<1>4. CASE AbortReturns  BY <1>4 DEF AbortReturns, AbortsCounted
<1>5. CASE outcome' = outcome /\ aborts' = aborts  BY <1>5
<1> QED
  BY <1>1, <1>2, <1>3, <1>4, <1>5
  DEF Next, Script, InstallTraps, WorkFails, Leave, HandleSignal, Signal, Kill, Supersede,
      Deliver, Send, Execute, Refuse, Lose, Becomes, script, vars

LEMMA PendingIsLastStep ==
    ASSUME IInv, AbortsCalled, PendingIsLast, [Next]_vars
    PROVE  PendingIsLast'
<1> USE Numbers DEF IInv, PendingIsLast
<1>1. CASE StartReport
  <2>1. /\ pc' = "call" /\ next \in Program /\ aborts = 0
        /\ outcome' = [outcome EXCEPT ![next] = "pending"]
        /\ \A r \in Reports : outcome[r] # "pending"
    BY <1>1 DEF StartReport, ReportsInOrder
  <2>2. \A s \in Reports : s > next => outcome[s] = "none"
    <3>1. \A s \in Aborts : outcome[s] = "none"  BY <2>1 DEF AbortsCalled
    <3> QED BY <3>1 DEF ReportsInOrder, Reports
  <2> QED BY <2>1, <2>2 DEF TypeOK
<1>2. CASE ReportReturns
  <2>1. PICK o \in Outcomes : MayReport(next, o) /\ outcome' = [outcome EXCEPT ![next] = o]
    BY <1>2 DEF ReportReturns
  <2>2. next \in Reports /\ outcome[next] = "pending"
    BY <1>2 DEF ReportReturns, ReportsInOrder, CallsInOrder
  <2>3. o # "pending"  BY <2>1, <2>2, MayReportFits DEF Returned
  <2>4. \A r \in Reports : r # next => outcome[r] # "pending"
    <3> SUFFICES ASSUME NEW r \in Reports, r # next, outcome[r] = "pending" PROVE FALSE
      OBVIOUS
    <3>1. r > next \/ next > r  BY <2>2
    <3> QED BY <2>2, <3>1
  <2> QED BY <2>1, <2>2, <2>3, <2>4 DEF TypeOK
<1>3. CASE CallAbort
  <2>1. /\ pc' = "abort"
        /\ outcome' = [outcome EXCEPT ![Complete + aborts + 1] = "pending"]
        /\ \A r \in Reports : outcome[r] # "pending"
    BY <1>3 DEF CallAbort
  <2>2. aborts \in Nat  BY DEF TypeOK
  <2>3. \A s \in Reports : s > Complete + aborts + 1 => outcome[s] = "none"
    BY <2>2 DEF CallsInOrder, Reports, Program
  <2> QED BY <2>1, <2>2, <2>3 DEF TypeOK
<1>4. CASE AbortReturns
  <2>1. PICK o \in Outcomes : /\ MayReport(Complete + aborts, o)
                              /\ outcome' = [outcome EXCEPT ![Complete + aborts] = o]
    BY <1>4 DEF AbortReturns
  <2>2. Complete + aborts \in Reports /\ outcome[Complete + aborts] = "pending"
    BY <1>4, JobScriptAssumption DEF AbortReturns, AbortsCounted, CallsInOrder, TypeOK
  <2>3. o # "pending"  BY <2>1, <2>2, MayReportFits DEF Returned
  <2>4. \A r \in Reports : r # Complete + aborts => outcome[r] # "pending"
    <3> SUFFICES ASSUME NEW r \in Reports, r # Complete + aborts, outcome[r] = "pending"
                 PROVE  FALSE
      OBVIOUS
    <3>1. r \in Nat /\ aborts \in Nat  BY DEF TypeOK
    <3>2. r > Complete + aborts \/ Complete + aborts > r  BY <3>1
    <3> QED BY <2>2, <3>2
  <2> QED BY <2>1, <2>2, <2>3, <2>4 DEF TypeOK
<1>5. CASE outcome' = outcome /\ (pc \in {"call", "abort", "killed"} => pc' = pc \/ pc' = "killed")
  BY <1>5
<1> QED
  BY <1>1, <1>2, <1>3, <1>4, <1>5
  DEF Next, Script, InstallTraps, WorkFails, Leave, HandleSignal, Signal, Kill, Supersede,
      Deliver, Send, Execute, Refuse, Lose, Becomes, script, vars

\* However the script, its signals and the network interleave: what the server
\* executes behind an abort, or behind any later report, is a report of which the
\* script was told that its outcome is unknown, never one that was refused, answered
\* or still under way.
THEOREM OvertakenReportsAreUnknown == Spec => OvertakenIsUnknown
<1>1. Init => AbortsCalled /\ PendingIsLast
  BY Numbers DEF Init, AbortsCalled, PendingIsLast
<1>2. IInv /\ AbortsCalled /\ PendingIsLast /\ [Next]_vars => AbortsCalled' /\ PendingIsLast'
  BY AbortsCalledStep, PendingIsLastStep
<1>3. ASSUME IInv, PendingIsLast, [Next]_vars, NEW r \in Reports, NEW s \in Reports,
             r < s, request[s] = "executed", request[r] # "executed", request'[r] = "executed"
      PROVE  outcome[r] = "unknown"
  <2>1. PICK q \in Reports : Deliver(q)
    BY <1>3
    DEF Next, Script, StartReport, InstallTraps, ReportReturns, WorkFails, CallAbort,
        AbortReturns, Leave, HandleSignal, Signal, Kill, Supersede, vars
  <2>2. request[r] = "sent"
    BY <1>3, <2>1 DEF Deliver, Send, Execute, Refuse, Lose, Becomes, IInv, TypeOK
  <2>3. outcome[s] # "none"  BY <1>3 DEF IInv, OutcomesFit
  <2>4. outcome[r] # "pending"
    <3>1. s > r  BY <1>3, Numbers
    <3> QED BY <1>3, <2>3, <3>1 DEF PendingIsLast
  <2> QED BY <1>3, <2>2, <2>4 DEF IInv, TypeOK, OutcomesFit, Outcomes
<1>4. IInv /\ PendingIsLast /\ [Next]_vars =>
        [\A r, s \in Reports :
           /\ r < s /\ request[s] = "executed"
           /\ request[r] # "executed" /\ request'[r] = "executed"
           => outcome[r] = "unknown"]_vars
  BY <1>3
<1> QED BY <1>1, <1>2, <1>4, ScriptSafe, PTL DEF Spec, OvertakenIsUnknown

----------------------------------------------------------------------------
(***************************************************************************)
(* The script comes to its end                                             *)
(***************************************************************************)

\* A script that ended by itself after a successful init has completed or has
\* called abort: the state EndIsReported leads to.
EndReached ==
    outcome[InitReport] = "applied" /\ pc = "ended" =>
        outcome[Complete] = "applied" \/ aborts > 0

\* No script ends by itself between a successful init and a reported end.
THEOREM EndNotMissed == Spec => []EndReached
<1>1. Init => AbortsCalled  BY Numbers DEF Init, AbortsCalled
<1>2. IInv /\ AbortsCalled /\ [Next]_vars => AbortsCalled'  BY AbortsCalledStep
<1>3. IInv /\ AbortsCalled => EndReached
  <2> SUFFICES ASSUME IInv, AbortsCalled, outcome[InitReport] = "applied", pc = "ended",
                      aborts = 0
               PROVE  outcome[Complete] = "applied"
    BY DEF EndReached, IInv, TypeOK
  <2>1. ~noTakler  BY Numbers DEF IInv, OutcomesFit
  <2>2. \A r \in Aborts : outcome[r] = "none"  BY DEF AbortsCalled
  <2>3. Success(outcome[Complete])  BY <2>2 DEF IInv, EndIsExplained, Returned
  <2> QED BY <2>1, <2>3, Numbers DEF IInv, OutcomesFit, Success
<1> QED BY <1>1, <1>2, <1>3, ScriptSafe, PTL DEF Spec

\* How many steps the script has before it at p with report n as its next, when
\* no signal comes.
Rank(p, n) ==
    IF p \in {"start", "main"} THEN 4 * (Complete + 1 - n) + 4
    ELSE IF p = "call" THEN 4 * (Complete + 1 - n) + 3
    ELSE IF p = "untrapped" THEN 4 * (Complete + 1 - n) + 5
    ELSE IF p = "error" THEN 4
    ELSE IF p = "abort" THEN 3
    ELSE IF p = "leaving" THEN 2
    ELSE 0

\* A signal, sent (s) and waiting for its trap (w) or still to come, may cost a
\* turn through ERROR.
Steps(p, n, s, w) == 5 * (MaxSignals - s) + (IF w THEN 5 ELSE 0) + Rank(p, n)

StepsLeft == Steps(pc, next, signals, signalled)

\* A step of the script brings it nearer to its end, and nothing around it takes it
\* away from there.
ScriptProgresses == [][(Script => StepsLeft' < StepsLeft) /\ StepsLeft' <= StepsLeft]_vars

\* How the script moves in a step of its own ...
ScriptMoves(p, n, w) ==
    \/ pc \in {"start", "main"} /\ p = "call" /\ n = next /\ w = signalled
    \/ pc = "untrapped" /\ p = "main" /\ n = next /\ w = signalled
    \/ pc = "call" /\ p \in {"untrapped", "main", "leaving"} /\ n = next + 1 /\ w = signalled
    \/ pc = "call" /\ p \in {"error", "ended"} /\ n = next /\ w = signalled
    \/ pc = "main" /\ p = "error" /\ n = next /\ w = signalled
    \/ pc = "error" /\ p = "abort" /\ n = next /\ w = signalled
    \/ pc = "abort" /\ p = "leaving" /\ n = next /\ w = signalled
    \/ pc = "leaving" /\ p = "ended" /\ n = next /\ w = signalled
    \/ pc \in {"main", "error", "leaving"} /\ p = "error" /\ n = next /\ signalled /\ ~w

\* What each step of the script does to the four values its measure is made of.
LEMMA ScriptStepMoves ==
    ASSUME IInv, Script
    PROVE  ScriptMoves(pc', next', signalled') /\ signals' = signals
<1>1. CASE StartReport  BY <1>1 DEF StartReport, ScriptMoves
<1>2. CASE InstallTraps  BY <1>2 DEF InstallTraps, ScriptMoves
<1>3. CASE ReportReturns
  <2>1. PICK o \in Outcomes :
            /\ pc' = AfterReport(Success(o))
            /\ next' = IF pc' \in {"untrapped", "main", "leaving"} THEN next + 1 ELSE next
    BY <1>3 DEF ReportReturns
  <2>2. pc = "call" /\ signalled' = signalled /\ signals' = signals
    BY <1>3 DEF ReportReturns
  <2>3. pc' \in {"ended", "error", "untrapped", "leaving", "main"}
    BY <2>1 DEF AfterReport
  <2> QED BY <2>1, <2>2, <2>3 DEF ScriptMoves
<1>4. CASE WorkFails  BY <1>4 DEF WorkFails, ScriptMoves
<1>5. CASE CallAbort  BY <1>5 DEF CallAbort, ScriptMoves
<1>6. CASE AbortReturns  BY <1>6 DEF AbortReturns, ScriptMoves
<1>7. CASE Leave  BY <1>7 DEF Leave, ScriptMoves
<1>8. CASE HandleSignal  BY <1>8 DEF HandleSignal, ScriptMoves
<1> QED BY <1>1, <1>2, <1>3, <1>4, <1>5, <1>6, <1>7, <1>8 DEF Script

\* ... and what that costs.
LEMMA MoveCosts ==
    ASSUME IInv, NEW p, NEW n, NEW w \in BOOLEAN, ScriptMoves(p, n, w)
    PROVE  Steps(p, n, signals, w) < StepsLeft /\ Steps(p, n, signals, w) <= StepsLeft
<1>1. /\ Complete \in Nat /\ MaxSignals \in Nat /\ next \in Nat
      /\ signals \in Nat /\ signals <= MaxSignals
      /\ pc \in {"start", "call", "untrapped", "main"} => next <= Complete
  BY Numbers, JobScriptAssumption DEF IInv, TypeOK, ReportsInOrder, Program
<1>2. PICK m \in Nat : m = MaxSignals - signals  BY <1>1
<1>3. CASE pc \in {"start", "call", "untrapped", "main"}
  <2>1. PICK k \in Nat : k >= 1 /\ k = Complete + 1 - next  BY <1>1, <1>3
  <2>2. Complete + 1 - (next + 1) = k - 1  BY <1>1, <2>1
  <2> QED BY <1>2, <1>3, <2>1, <2>2 DEF ScriptMoves, StepsLeft, Steps, Rank
<1>4. CASE pc \notin {"start", "call", "untrapped", "main"}
  BY <1>2, <1>4 DEF ScriptMoves, StepsLeft, Steps, Rank
<1> QED BY <1>3, <1>4

\* The steps around the script: signals cost it at most what was set aside for
\* them.
LEMMA AroundCosts ==
    ASSUME IInv, NEW p, NEW s \in Nat, NEW w \in BOOLEAN,
           \/ p = pc /\ s = signals /\ w = signalled
           \/ p = pc /\ s = signals + 1 /\ s <= MaxSignals /\ w
           \/ p = "killed" /\ (s = signals \/ (s = signals + 1 /\ s <= MaxSignals)) /\ w = signalled
    PROVE  Steps(p, next, s, w) <= StepsLeft
<1>1. /\ Complete \in Nat /\ MaxSignals \in Nat /\ next \in Nat
      /\ signals \in Nat /\ signals <= MaxSignals /\ next <= Complete + 1
  BY Numbers, JobScriptAssumption DEF IInv, TypeOK
<1>2. PICK k \in Nat : k = Rank(pc, next)
  <2>1. PICK j \in Nat : j = Complete + 1 - next  BY <1>1
  <2>2. Rank(pc, next) \in Nat  BY <2>1 DEF Rank
  <2> QED BY <2>2
<1>3. Rank("killed", next) = 0  BY DEF Rank
<1>4. CASE p = pc  BY <1>1, <1>2, <1>4 DEF StepsLeft, Steps
<1>5. CASE p = "killed"  BY <1>1, <1>2, <1>3, <1>5 DEF StepsLeft, Steps
<1> QED BY <1>4, <1>5

\* What is left is a number of steps.
LEMMA StepsType == IInv => StepsLeft \in Nat
<1> SUFFICES ASSUME IInv PROVE StepsLeft \in Nat  OBVIOUS
<1>1. /\ Complete \in Nat /\ MaxSignals \in Nat /\ next \in Nat
      /\ signals \in Nat /\ signals <= MaxSignals /\ next <= Complete + 1
  BY Numbers, JobScriptAssumption DEF IInv, TypeOK
<1>2. PICK m \in Nat : m = MaxSignals - signals  BY <1>1
<1>3. PICK j \in Nat : j = Complete + 1 - next  BY <1>1
<1>4. Rank(pc, next) \in Nat  BY <1>3 DEF Rank
<1> QED BY <1>2, <1>4 DEF StepsLeft, Steps

\* However long the program, and however its reports end: every step of the script
\* brings it closer to its end, so it takes no more steps than were left at first.
THEOREM ScriptApproachesItsEnd == Spec => [](StepsLeft \in Nat) /\ ScriptProgresses
<1>1. ASSUME IInv, IInv', [Next]_vars
      PROVE  [(Script => StepsLeft' < StepsLeft) /\ StepsLeft' <= StepsLeft]_vars
  <2> USE <1>1
  <2>1. PICK p, n, s, w : p = pc' /\ n = next' /\ s = signals' /\ w = signalled'
    OBVIOUS
  <2>2. s \in Nat /\ w \in BOOLEAN
    BY <2>1, JobScriptAssumption DEF IInv, TypeOK
  <2>3. StepsLeft' = Steps(p, n, s, w)  BY <2>1 DEF StepsLeft, Steps, Rank
  <2>4. ASSUME Script PROVE Steps(p, n, s, w) < StepsLeft /\ Steps(p, n, s, w) <= StepsLeft
    BY <2>1, <2>2, <2>4, ScriptStepMoves, MoveCosts
  <2>5. Steps(p, n, s, w) <= StepsLeft
    <3>1. CASE Script  BY <2>4, <3>1
    <3>2. CASE ~Script
      <4>1. /\ n = next
            /\ \/ p = pc /\ s = signals /\ w = signalled
               \/ p = pc /\ s = signals + 1 /\ s <= MaxSignals /\ w
               \/ p = "killed" /\ s = signals + 1 /\ s <= MaxSignals /\ w = signalled
               \/ p = "killed" /\ s = signals /\ w = signalled
        BY <2>1, <3>2
        DEF Next, Signal, Kill, Supersede, Deliver, Send, Execute, Refuse, Lose, Becomes,
            script, vars, IInv, TypeOK
      <4> QED BY <2>2, <4>1, AroundCosts
    <3> QED BY <3>1, <3>2
  <2> QED BY <2>3, <2>4, <2>5
<1> QED BY <1>1, ScriptSafe, StepsType, PTL DEF Spec, ScriptProgresses
=============================================================================
