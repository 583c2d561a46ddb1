------------------------- MODULE CallWrapper_proofs ------------------------
(***************************************************************************)
(* Proofs about CallWrapper for every set of commands, every TAKLER_TIMEOUT*)
(* value, every single timeout and every oversleep.                        *)
(***************************************************************************)
EXTENDS CallWrapper, TLAPS

\* What an answer, a verdict or a window can put into result is a Results
\* record.
LEMMA ReturnedType ==
    ASSUME NEW who \in {"none", "local", "answer", "batch", "verdict", "window"},
           NEW code \in ExitCodes, NEW ambiguous \in BOOLEAN
    PROVE  Returned(who, code, ambiguous) \in Results
BY DEF Returned, Results

LEMMA EffectiveWindowType ==
    ASSUME NEW name, NEW s \in SettingType
    PROVE  EffectiveWindow(name, s) \in Nat
BY DEF EffectiveWindow, ResolveRetryWindow, DefaultRetryWindow, SettingType

LEMMA BackoffType ==
    ASSUME NEW n \in Nat
    PROVE  BackoffSeconds(n) \in Nat /\ BackoffSeconds(n) >= 1
<1>1. CASE n >= 7  BY <1>1 DEF BackoffSeconds, MaxBackoff
<1>2. CASE n < 1   BY <1>2 DEF BackoffSeconds, MaxBackoff
<1>3. CASE n \in 1..6
  <2>1. n = 1 \/ n = 2 \/ n = 3 \/ n = 4 \/ n = 5 \/ n = 6  BY <1>3
  <2> QED BY <2>1 DEF BackoffSeconds, MaxBackoff
<1> QED BY <1>1, <1>2, <1>3

\* While the window is not used up, the next wait is positive and ends inside
\* the window.
LEMMA NextDelayFits ==
    ASSUME NEW w \in Nat, NEW e \in Nat, NEW n \in Nat, MayRetry(w, e)
    PROVE  /\ NextDelay(w, n, e) \in Nat
           /\ NextDelay(w, n, e) >= 1
           /\ e + NextDelay(w, n, e) <= w
BY BackoffType DEF NextDelay, MayRetry

LEMMA VerdictType ==
    ASSUME NEW t, NEW f
    PROVE  /\ Classify(t, f).retryable \in BOOLEAN
           /\ Classify(t, f).exitCode \in ExitCodes
<1> USE DEF ExitCodes, ExitOK, ExitRequestError, ExitServerError, ExitUnreachable
<1>1. ASSUME NEW r \in BOOLEAN, NEW c \in ExitCodes
      PROVE  Verdict(r, c).retryable \in BOOLEAN /\ Verdict(r, c).exitCode \in ExitCodes
  BY <1>1 DEF Verdict
<1>2. CASE t = "grpc"
  <2>1. CASE f = "TLS"
    BY <1>2, <2>1, <1>1 DEF Classify, ClassifyGrpcError
  <2>2. CASE f # "TLS"
    <3>1. (f \in RetryableStatusCodes) \in BOOLEAN  OBVIOUS
    <3>2. ExitCodeForStatus(f) \in ExitCodes  BY DEF ExitCodeForStatus
    <3> QED BY <1>2, <2>2, <3>1, <3>2, <1>1 DEF Classify, ClassifyGrpcError
  <2> QED BY <2>1, <2>2
<1>3. CASE t # "grpc"
  <2>1. Classify(t, f) = ClassifyHttpError(f)  BY <1>3 DEF Classify
  <2>2. CASE f \in RequestErrorHttpStatuses \cup {"TLS", "plain"}
    BY <2>1, <2>2, <1>1
    DEF ClassifyHttpError, RetryableHttpStatuses, RequestErrorHttpStatuses
  <2>3. CASE f \in RetryableHttpStatuses \cup {"connection"}
    BY <2>1, <2>3, <1>1
    DEF ClassifyHttpError, RetryableHttpStatuses, RequestErrorHttpStatuses
  <2>4. CASE f = "envelope"
    BY <2>1, <2>4, <1>1
    DEF ClassifyHttpError, RetryableHttpStatuses, RequestErrorHttpStatuses
  <2>5. CASE /\ f \notin RequestErrorHttpStatuses \cup {"TLS", "plain"}
             /\ f \notin RetryableHttpStatuses \cup {"connection"}
             /\ f # "envelope"
    BY <2>1, <2>5, <1>1 DEF ClassifyHttpError
  <2> QED BY <2>2, <2>3, <2>4, <2>5
<1> QED BY <1>2, <1>3

LEMMA ErrorCodeType ==
    ASSUME NEW flag
    PROVE  ExitCodeForErrorCode(flag) \in ExitCodes
BY DEF ExitCodeForErrorCode, ExitCodes, ExitOK, ExitRequestError, ExitServerError,
       ExitUnreachable

----------------------------------------------------------------------------
\* Type correctness.
THEOREM TypeCorrect == Spec => []TypeOK
<1>1. Init => TypeOK
  BY DEF Init, TypeOK, Phases, Results, NoResult, NoFailure, ExitCodes, ExitOK
<1>2. TypeOK /\ [Next]_vars => TypeOK'
  <2> SUFFICES ASSUME TypeOK, [Next]_vars PROVE TypeOK'
    OBVIOUS
  <2> USE DEF TypeOK, inputVars, clientVars, serverVars
  <2>1. CASE OpenTransport  BY <2>1 DEF OpenTransport, Phases
  <2>2. CASE OpenFails
    BY <2>2, ReturnedType
    DEF OpenFails, Finish, Phases, ExitCodes, ExitRequestError, ExitUnreachable
  <2>3. CASE Prepare
    <3>1. EffectiveWindow(cmd, setting) \in Nat
      BY EffectiveWindowType, CallAssumption
    <3> QED BY <2>3, <3>1 DEF Prepare, Phases
  <2>4. CASE CredentialsFail
    <3>1. EffectiveWindow(cmd, setting) \in Nat
      BY EffectiveWindowType, CallAssumption
    <3> QED BY <2>4, <3>1, ReturnedType
        DEF CredentialsFail, Finish, Phases, ExitCodes, ExitRequestError
  <2>5. CASE StartAttempt  BY <2>5 DEF StartAttempt, Phases
  <2>6. CASE AttemptAnswered
    <3>1. elapsed' \in Nat  BY <2>6, CallAssumption DEF AttemptAnswered
    <3>2. result' \in Results /\ phase' \in Phases
      BY <2>6, ReturnedType, ErrorCodeType
      DEF AttemptAnswered, Finish, Phases, ExitCodes, ExitServerError
    <3> QED BY <2>6, <3>1, <3>2 DEF AttemptAnswered
  <2>7. CASE AttemptFails
    <3>1. elapsed' \in Nat  BY <2>7, CallAssumption DEF AttemptFails
    <3>2. failure' \in GrpcFailures \cup HttpFailures
      BY <2>7 DEF AttemptFails, FailuresOf
    <3>3. stray' \in Nat  BY <2>7 DEF AttemptFails
    <3> QED BY <2>7, <3>1, <3>2, <3>3 DEF AttemptFails, Phases
  <2>8. CASE StopOnVerdict
    <3>1. OutcomeUnknown(cmd, LastVerdict) \in BOOLEAN
      BY DEF OutcomeUnknown
    <3>2. result' \in Results
      BY <2>8, <3>1, ReturnedType, VerdictType DEF StopOnVerdict, Finish, LastVerdict
    <3> QED BY <2>8, <3>2 DEF StopOnVerdict, Finish, Phases
  <2>9. CASE StopOnWindow
    <3>1. OutcomeUnknown(cmd, LastVerdict) \in BOOLEAN
      BY DEF OutcomeUnknown
    <3>2. result' \in Results
      BY <2>9, <3>1, ReturnedType DEF StopOnWindow, Finish, ExitCodes, ExitUnreachable
    <3> QED BY <2>9, <3>2 DEF StopOnWindow, Finish, Phases
  <2>10. CASE ScheduleRetry
    BY <2>10, NextDelayFits DEF ScheduleRetry, Phases
  <2>11. CASE Wake
    <3>1. elapsed' \in Nat  BY <2>11, CallAssumption DEF Wake
    <3> QED BY <2>11, <3>1 DEF Wake, Phases
  <2>12. CASE Server
    BY <2>12 DEF Server, ServerExecutes, ServerRefuses, LateDelivery, Effect
  <2>13. CASE UNCHANGED vars  BY <2>13 DEF vars
  <2> QED
    BY <2>1, <2>2, <2>3, <2>4, <2>5, <2>6, <2>7, <2>8, <2>9, <2>10, <2>11, <2>12, <2>13
    DEF Next, Client
<1> QED BY <1>1, <1>2, PTL DEF Spec

----------------------------------------------------------------------------
(***************************************************************************)
(* The inductive invariant                                                 *)
(***************************************************************************)

\* A call's place in the protocol: nothing sent before the first attempt,
\* nothing returned before the end, the window fixed once and for all.
LEMMA ProgressStep ==
    ASSUME TypeOK, ProgressInv, [Next]_vars
    PROVE  ProgressInv'
<1> USE DEF TypeOK, ProgressInv, inputVars, clientVars, serverVars, Returned, NoResult
<1>1. CASE OpenTransport  BY <1>1 DEF OpenTransport
<1>2. CASE OpenFails  BY <1>2 DEF OpenFails, Finish
<1>3. CASE Prepare  BY <1>3 DEF Prepare
<1>4. CASE CredentialsFail  BY <1>4 DEF CredentialsFail, Finish
<1>5. CASE StartAttempt  BY <1>5 DEF StartAttempt
<1>6. CASE AttemptAnswered  BY <1>6 DEF AttemptAnswered, Finish
<1>7. CASE AttemptFails  BY <1>7 DEF AttemptFails
<1>8. CASE StopOnVerdict  BY <1>8 DEF StopOnVerdict, Finish
<1>9. CASE StopOnWindow  BY <1>9 DEF StopOnWindow, Finish
<1>10. CASE ScheduleRetry  BY <1>10 DEF ScheduleRetry
<1>11. CASE Wake  BY <1>11 DEF Wake
<1>12. CASE ServerExecutes  BY <1>12 DEF ServerExecutes, Effect
<1>13. CASE ServerRefuses  BY <1>13 DEF ServerRefuses
<1>14. CASE LateDelivery  BY <1>14 DEF LateDelivery, Effect
<1>15. CASE UNCHANGED vars  BY <1>15 DEF vars
<1> QED
  BY <1>1, <1>2, <1>3, <1>4, <1>5, <1>6, <1>7, <1>8, <1>9, <1>10, <1>11, <1>12,
     <1>13, <1>14, <1>15 DEF Next, Client, Server

\* A retry needs a window, which only a read only command has.
LEMMA OnlyReadsRetry ==
    ASSUME TypeOK, ProgressInv, phase = "failed", MayRetry(window, elapsed)
    PROVE  ReadOnlyCommand(cmd)
BY DEF TypeOK, ProgressInv, NoResult, MayRetry, EffectiveWindow

\* The commands are told apart once and for all.
LEMMA MutationFixed ==
    ASSUME [Next]_vars
    PROVE  Mutation' <=> Mutation
<1>1. cmd' = cmd
  BY DEF Next, Client, Server, vars, inputVars, OpenTransport, OpenFails, Prepare,
         CredentialsFail, StartAttempt, AttemptAnswered, AttemptFails, StopOnVerdict,
         StopOnWindow, ScheduleRetry, Wake, ServerExecutes, ServerRefuses, LateDelivery
<1> QED BY <1>1 DEF Mutation

\* One request of a mutation, and what it has done, through every step.
LEMMA MutationStep ==
    ASSUME TypeOK, ProgressInv, MutationInv, [Next]_vars
    PROVE  MutationInv'
<1> SUFFICES ASSUME Mutation PROVE MutationInv'
  BY MutationFixed DEF MutationInv
<1> USE DEF TypeOK, MutationInv, ProgressInv, NoResult, Returned,
            inputVars, clientVars, serverVars
<1>1. CASE OpenTransport  BY <1>1 DEF OpenTransport
<1>2. CASE OpenFails  BY <1>2 DEF OpenFails, Finish
<1>3. CASE Prepare  BY <1>3 DEF Prepare
<1>4. CASE CredentialsFail  BY <1>4 DEF CredentialsFail, Finish
<1>5. CASE StartAttempt  BY <1>5 DEF StartAttempt
<1>6. CASE AttemptAnswered
  <2>1. ASSUME NEW flag \in Flags, ExitCodeForErrorCode(flag) = ExitOK PROVE flag = 0
    BY <2>1 DEF ExitCodeForErrorCode, ExitOK, ExitRequestError, ExitServerError, ExitUnreachable
  <2> QED BY <1>6, <2>1 DEF AttemptAnswered, Finish, ExitOK, ExitServerError
<1>7. CASE AttemptFails  BY <1>7 DEF AttemptFails
<1>8. CASE StopOnVerdict  BY <1>8 DEF StopOnVerdict, Finish
<1>9. CASE StopOnWindow  BY <1>9 DEF StopOnWindow, Finish
<1>10. CASE ScheduleRetry
  BY <1>10, OnlyReadsRetry DEF ScheduleRetry, Mutation
<1>11. CASE Wake  BY <1>11 DEF Wake
<1>12. CASE ServerExecutes  BY <1>12 DEF ServerExecutes, Effect, Mutation
<1>13. CASE ServerRefuses  BY <1>13 DEF ServerRefuses
<1>14. CASE LateDelivery
  <2>1. stray = 1 /\ effects = 0 /\ request = "none"
    BY <1>14 DEF LateDelivery
  <2>2. ~(phase = "done" /\ result.by \in {"answer", "batch", "local"})
    BY <2>1
  <2>3. stray' = 0 /\ (effects' = 0 \/ effects' = 1)
    BY <1>14, <2>1 DEF LateDelivery, Effect
  <2>4. effects' + stray' <= 1  BY <2>3
  <2>5. /\ phase' = phase /\ result' = result
        /\ attempt' = attempt /\ request' = "none"
    BY <1>14, <2>1 DEF LateDelivery
  <2> QED BY <2>2, <2>4, <2>5
<1>15. CASE UNCHANGED vars  BY <1>15 DEF vars
<1> QED
  BY <1>1, <1>2, <1>3, <1>4, <1>5, <1>6, <1>7, <1>8, <1>9, <1>10, <1>11, <1>12,
     <1>13, <1>14, <1>15 DEF Next, Client, Server

\* A read only command leaves no trace on the server.
LEMMA ReadStep ==
    ASSUME TypeOK, ReadInv, [Next]_vars
    PROVE  ReadInv'
<1> SUFFICES ASSUME ~Mutation PROVE effects' = 0 /\ stray' = 0
  BY MutationFixed DEF ReadInv
<1> USE DEF ReadInv, inputVars, clientVars, serverVars
<1>1. CASE Client
  BY <1>1 DEF Client, OpenTransport, OpenFails, Prepare, CredentialsFail, StartAttempt,
       AttemptAnswered, AttemptFails, StopOnVerdict, StopOnWindow, ScheduleRetry, Wake,
       Mutation
<1>2. CASE Server
  BY <1>2 DEF Server, ServerExecutes, ServerRefuses, LateDelivery, Effect, Mutation
<1>3. CASE UNCHANGED vars  BY <1>3 DEF vars
<1> QED BY <1>1, <1>2, <1>3 DEF Next

\* The verdicts that end as a request error without a retry.
LEMMA RequestErrorVerdict ==
    ASSUME NEW t, NEW f,
           ~Classify(t, f).retryable, Classify(t, f).exitCode = ExitRequestError
    PROVE  f \in RequestErrorStatusCodes \cup RequestErrorHttpStatuses \cup {"TLS", "plain"}
<1> SUFFICES ASSUME f \notin RequestErrorStatusCodes \cup RequestErrorHttpStatuses,
                    f \notin {"TLS", "plain"}
             PROVE  FALSE
  OBVIOUS
<1> USE DEF Verdict, ExitOK, ExitRequestError, ExitServerError, ExitUnreachable
<1>1. CASE t = "grpc"
  <2>1. Classify(t, f) = Verdict(f \in RetryableStatusCodes, ExitUnreachable)
    BY <1>1 DEF Classify, ClassifyGrpcError, ExitCodeForStatus
  <2> QED BY <2>1
<1>2. CASE t # "grpc"
  <2>1. Classify(t, f) = ClassifyHttpError(f)  BY <1>2 DEF Classify
  <2>2. CASE f \in RetryableHttpStatuses \cup {"connection"}
    <3>1. Classify(t, f) = Verdict(TRUE, ExitOK)
      BY <2>1, <2>2 DEF ClassifyHttpError, RetryableHttpStatuses
    <3> QED BY <3>1
  <2>3. CASE f = "envelope"
    <3>1. Classify(t, f) = Verdict(FALSE, ExitServerError)
      BY <2>1, <2>3 DEF ClassifyHttpError, RetryableHttpStatuses
    <3> QED BY <3>1
  <2>4. CASE f \notin RetryableHttpStatuses \cup {"connection", "envelope"}
    <3>1. Classify(t, f) = Verdict(FALSE, ExitUnreachable)
      BY <2>1, <2>4 DEF ClassifyHttpError
    <3> QED BY <3>1
  <2> QED BY <2>2, <2>3, <2>4
<1> QED BY <1>1, <1>2

\* A verdict of request error leaves nothing behind, through every step.
LEMMA RefusalStep ==
    ASSUME TypeOK, ProgressInv, MutationInv, RefusalInv, [Next]_vars
    PROVE  RefusalInv'
<1> SUFFICES ASSUME phase' = "failed", Parsed', Mutation, ~LastVerdict'.retryable,
                    LastVerdict'.exitCode = ExitRequestError
             PROVE  (effects + stray)' = 0
  BY MutationFixed DEF RefusalInv
<1>1. CASE AttemptFails
  <2>1. failure' \in RequestErrorStatusCodes \cup RequestErrorHttpStatuses \cup {"TLS", "plain"}
    BY RequestErrorVerdict DEF LastVerdict
  <2>2. PICK f \in FailuresOf(transport) :
          /\ PossibleFailure(f)
          /\ failure' = f
          /\ stray' = IF request = "sent" /\ f \notin {"TLS", "plain"} /\ ~ReadOnlyCommand(cmd)
                      THEN stray + 1 ELSE stray
    BY <1>1 DEF AttemptFails
  <2>3. CASE f \in RequestErrorStatusCodes \cup RequestErrorHttpStatuses
    <3>1. request = "refused"
      BY <2>2, <2>3 DEF PossibleFailure, RequestErrorStatusCodes, RequestErrorHttpStatuses
    <3> QED BY <1>1, <2>2, <3>1 DEF AttemptFails, MutationInv
  <2>4. CASE f \in {"TLS", "plain"}
    <3>1. f \notin RequestErrorStatusCodes \cup RequestErrorHttpStatuses
      BY <2>4 DEF RequestErrorStatusCodes, RequestErrorHttpStatuses
    <3>2. request = "sent"  BY <2>2, <2>4, <3>1 DEF PossibleFailure, Parsed
    <3> QED BY <1>1, <2>2, <2>4, <3>2 DEF AttemptFails, MutationInv
  <2> QED BY <2>1, <2>2, <2>3, <2>4
<1>2. CASE LateDelivery
  <2>1. effects + stray = 0
    BY <1>2 DEF LateDelivery, RefusalInv, LastVerdict, Parsed, clientVars, inputVars
  <2> QED BY <1>2, <2>1 DEF LateDelivery, TypeOK
<1>3. CASE ServerExecutes \/ ServerRefuses
  BY <1>3 DEF ServerExecutes, ServerRefuses, clientVars, ProgressInv
<1>4. CASE UNCHANGED vars
  BY <1>4 DEF vars, serverVars, clientVars, inputVars, RefusalInv, LastVerdict, Parsed
<1> QED
  BY <1>1, <1>2, <1>3, <1>4
  DEF Next, Client, Server, OpenTransport, OpenFails, Prepare, CredentialsFail,
      StartAttempt, AttemptAnswered, StopOnVerdict, StopOnWindow, ScheduleRetry, Wake,
      Finish

\* A failure is one of the transport the call began with.
LEMMA FailureStep ==
    ASSUME FailureInv, [Next]_vars
    PROVE  FailureInv'
<1> USE DEF FailureInv, inputVars, clientVars
<1>1. CASE AttemptFails  BY <1>1 DEF AttemptFails
<1>2. CASE failure' = failure /\ transport' = transport  BY <1>2
<1> QED
  BY <1>1, <1>2
  DEF Next, Client, Server, vars, OpenTransport, OpenFails, Prepare, CredentialsFail,
      StartAttempt, AttemptAnswered, StopOnVerdict, StopOnWindow, ScheduleRetry, Wake,
      ServerExecutes, ServerRefuses, LateDelivery

----------------------------------------------------------------------------
(***************************************************************************)
(* Time                                                                    *)
(***************************************************************************)

\* The clock, through every step.
LEMMA ClockStep ==
    ASSUME TypeOK, ProgressInv, ClockInv, [Next]_vars
    PROVE  ClockInv'
<1> USE CallAssumption DEF TypeOK, ClockInv, inputVars, clientVars, serverVars, Returned
<1>1. CASE OpenTransport  BY <1>1 DEF OpenTransport
<1>2. CASE OpenFails  BY <1>2 DEF OpenFails, Finish
<1>3. CASE Prepare
  <2>1. EffectiveWindow(cmd, setting) \in Nat  BY EffectiveWindowType
  <2> QED BY <1>3, <2>1 DEF Prepare, ProgressInv, NoResult
<1>4. CASE CredentialsFail
  <2>1. EffectiveWindow(cmd, setting) \in Nat  BY EffectiveWindowType
  <2> QED BY <1>4, <2>1 DEF CredentialsFail, Finish, ProgressInv
<1>5. CASE StartAttempt  BY <1>5 DEF StartAttempt
<1>6. CASE AttemptAnswered
  <2>1. PICK d \in 0..SingleTimeout : elapsed' = elapsed + d
    BY <1>6 DEF AttemptAnswered
  <2> QED BY <1>6, <2>1 DEF AttemptAnswered, Finish
<1>7. CASE AttemptFails
  <2>1. PICK d \in 0..SingleTimeout : elapsed' = elapsed + d
    BY <1>7 DEF AttemptFails
  <2> QED BY <1>7, <2>1 DEF AttemptFails, ProgressInv, NoResult
<1>8. CASE StopOnVerdict  BY <1>8 DEF StopOnVerdict, Finish
<1>9. CASE StopOnWindow  BY <1>9 DEF StopOnWindow, Finish, MayRetry
<1>10. CASE ScheduleRetry
  BY <1>10, NextDelayFits DEF ScheduleRetry, ProgressInv, NoResult
<1>11. CASE Wake
  <2>1. PICK s \in 0..SleepSlack : elapsed' = elapsed + delay + s
    BY <1>11 DEF Wake
  <2> QED BY <1>11, <2>1 DEF Wake, ProgressInv, NoResult
<1>12. CASE Server
  BY <1>12 DEF Server, ServerExecutes, ServerRefuses, LateDelivery
<1>13. CASE UNCHANGED vars  BY <1>13 DEF vars
<1> QED
  BY <1>1, <1>2, <1>3, <1>4, <1>5, <1>6, <1>7, <1>8, <1>9, <1>10, <1>11, <1>12, <1>13
  DEF Next, Client

\* CumulativeBackoff sums the backoffs.
LEMMA CumulativeStep ==
    ASSUME NEW n \in Nat
    PROVE  /\ CumulativeBackoff(n) \in Nat
           /\ CumulativeBackoff(n + 1) = CumulativeBackoff(n) + BackoffSeconds(n + 1)
<1> USE DEF CumulativeBackoff, BackoffSeconds, MaxBackoff
<1>1. CASE n >= 7  BY <1>1
<1>2. CASE n \in 0..6
  <2>1. n = 0 \/ n = 1 \/ n = 2 \/ n = 3 \/ n = 4 \/ n = 5 \/ n = 6  BY <1>2
  <2> QED BY <2>1
<1> QED BY <1>1, <1>2

\* The backoff, through every step.
LEMMA BackoffStep ==
    ASSUME TypeOK, ProgressInv, ClockInv, BackoffInv, [Next]_vars
    PROVE  BackoffInv'
<1> USE CallAssumption DEF TypeOK, BackoffInv, inputVars, clientVars, serverVars
<1>1. CASE Prepare
  <2>1. CumulativeBackoff(0) = 0  BY DEF CumulativeBackoff
  <2> QED BY <1>1, <2>1 DEF Prepare, ProgressInv
<1>2. CASE StartAttempt  BY <1>2 DEF StartAttempt
<1>3. CASE AttemptFails
  <2>1. PICK d \in 0..SingleTimeout : elapsed' = elapsed + d
    BY <1>3 DEF AttemptFails
  <2>2. attempt - 1 \in Nat  BY <1>3 DEF AttemptFails, ProgressInv
  <2>3. CumulativeBackoff(attempt - 1) \in Nat  BY <2>2, CumulativeStep
  <2> QED BY <1>3, <2>1, <2>3 DEF AttemptFails
<1>4. CASE ScheduleRetry
  <2>1. attempt - 1 \in Nat  BY <1>4 DEF ScheduleRetry, ProgressInv
  <2>2. /\ CumulativeBackoff(attempt - 1) \in Nat
        /\ CumulativeBackoff(attempt) = CumulativeBackoff(attempt - 1) + BackoffSeconds(attempt)
    <3>1. (attempt - 1) + 1 = attempt  BY DEF TypeOK
    <3> QED BY <2>1, <3>1, CumulativeStep
  <2>3. elapsed >= CumulativeBackoff(attempt - 1)
    BY <1>4, <2>2 DEF ScheduleRetry, MayRetry
  <2>4. BackoffSeconds(attempt) \in Nat  BY BackoffType
  <2>5. \/ elapsed + delay' = window
        \/ delay' = BackoffSeconds(attempt)
    BY <1>4, <2>4 DEF ScheduleRetry, NextDelay, MayRetry
  <2>6. \/ elapsed + delay' >= CumulativeBackoff(attempt)
        \/ elapsed + delay' >= window
    BY <2>2, <2>3, <2>4, <2>5
  <2> QED BY <1>4, <2>6 DEF ScheduleRetry
<1>5. CASE Wake
  <2>1. PICK s \in 0..SleepSlack : elapsed' = elapsed + delay + s
    BY <1>5 DEF Wake
  <2>2. CumulativeBackoff(attempt) \in Nat  BY CumulativeStep
  <2> QED BY <1>5, <2>1, <2>2 DEF Wake
<1>6. CASE Server
  BY <1>6 DEF Server, ServerExecutes, ServerRefuses, LateDelivery
<1>7. CASE UNCHANGED vars  BY <1>7 DEF vars
<1>8. CASE \/ OpenTransport \/ OpenFails \/ CredentialsFail \/ AttemptAnswered
           \/ StopOnVerdict \/ StopOnWindow
  BY <1>8 DEF OpenTransport, OpenFails, CredentialsFail, AttemptAnswered, StopOnVerdict,
       StopOnWindow, Finish
<1> QED
  BY <1>1, <1>2, <1>3, <1>4, <1>5, <1>6, <1>7, <1>8 DEF Next, Client

----------------------------------------------------------------------------
(***************************************************************************)
(* The theorems                                                            *)
(***************************************************************************)

\* The strengthening is inductive.
THEOREM CallSafe == Spec => []SafetyInv
<1>1. Init => SafetyInv
  <2> SUFFICES ASSUME Init PROVE SafetyInv
    OBVIOUS
  <2> USE DEF Init, NoResult
  <2>1. TypeOK
    BY DEF TypeOK, Phases, Results, NoFailure, ExitCodes, ExitOK
  <2>2. ProgressInv /\ MutationInv /\ ReadInv
    BY DEF ProgressInv, MutationInv, ReadInv
  <2>3. ClockInv  BY CallAssumption DEF ClockInv
  <2>4. BackoffInv  BY DEF BackoffInv
  <2> QED BY <2>1, <2>2, <2>3, <2>4 DEF SafetyInv
<1>2. TypeOK /\ TypeOK' /\ SafetyInv /\ [Next]_vars => SafetyInv'
  BY ProgressStep, MutationStep, ReadStep, ClockStep, BackoffStep DEF SafetyInv
<1> QED BY <1>1, <1>2, TypeCorrect, PTL DEF Spec

\* Whatever the network does, a child report or an operator mutation takes
\* effect at most once.
THEOREM MutationOnce == Spec => []MutationAtMostOnce
<1>1. SafetyInv => MutationAtMostOnce
  BY DEF SafetyInv, MutationInv, MutationAtMostOnce
<1> QED BY <1>1, CallSafe, PTL

\* No call is reported unreachable before its window is over.
THEOREM WindowSpent == Spec => []UnreachableOnlyAfterWindow
<1>1. SafetyInv => UnreachableOnlyAfterWindow
  <2> SUFFICES ASSUME SafetyInv, result.by = "window"
               PROVE  elapsed >= EffectiveWindow(cmd, setting)
    BY DEF UnreachableOnlyAfterWindow
  <2>1. phase = "done"
    BY DEF SafetyInv, ProgressInv, NoResult
  <2> QED BY <2>1 DEF SafetyInv, ProgressInv, ClockInv
<1> QED BY <1>1, CallSafe, PTL

\* The window and one attempt bound the whole call.
THEOREM CallBounded == Spec => []CallIsBounded
<1>1. SafetyInv => CallIsBounded
  BY DEF SafetyInv, ClockInv, CallIsBounded
<1> QED BY <1>1, CallSafe, PTL

\* Attempts keep the exponential distance for every window.
THEOREM AttemptsSpaced == Spec => []AttemptsAreSpaced
<1>1. SafetyInv => AttemptsAreSpaced
  BY DEF SafetyInv, BackoffInv, AttemptsAreSpaced
<1> QED BY <1>1, CallSafe, PTL

----------------------------------------------------------------------------
\* What a request error verdict says holds of every call.
LEMMA RefusalAlways == Spec => []RefusalInv
<1>1. Init => RefusalInv  BY DEF Init, RefusalInv
<1>2. SafetyInv /\ RefusalInv /\ [Next]_vars => RefusalInv'
  BY RefusalStep DEF SafetyInv
<1> QED BY <1>1, <1>2, CallSafe, PTL DEF Spec

\* Answers can be told apart below the envelope wherever they are never garbled,
\* and on gRPC in any case.
LEMMA ParsedAlways ==
    ASSUME ~GarbledAnswers \/ "http" \notin Transports
    PROVE  Spec => []Parsed
<1>1. Init => FailureInv  BY DEF Init, FailureInv
<1>2. FailureInv /\ [Next]_vars => FailureInv'  BY FailureStep
<1>3. TypeOK /\ FailureInv => Parsed
  <2> SUFFICES ASSUME TypeOK, FailureInv, GarbledAnswers PROVE failure # "plain"
    BY DEF Parsed
  <2>1. transport = "grpc"  BY CallAssumption DEF TypeOK
  <2> QED
    BY <2>1
    DEF FailureInv, FailuresOf, GrpcFailures, RetryableStatusCodes, RequestErrorStatusCodes,
        OtherStatusCodes, NoFailure
<1> QED BY <1>1, <1>2, <1>3, TypeCorrect, PTL DEF Spec

\* A verdict that is not announced as ambiguous left no trace on the server.
LEMMA UnannouncedVerdict ==
    ASSUME SafetyInv, RefusalInv, Parsed, phase = "failed", Mutation, ~LastVerdict.retryable,
           ~OutcomeUnknown(cmd, LastVerdict)
    PROVE  effects + stray = 0
BY DEF OutcomeUnknown, Mutation, RefusalInv

LEMMA RetryableIsUnknown ==
    ASSUME Mutation, LastVerdict.retryable
    PROVE  OutcomeUnknown(cmd, LastVerdict)
BY DEF OutcomeUnknown, Mutation

\* Every failed mutation that may have happened, or may still happen, says so,
\* with one exception: an HTTP answer broken below the envelope.
THEOREM OnlyGarbledIsSilent == Spec => [](Parsed => AmbiguityAnnounced)
<1>1. Init => (Parsed => AmbiguityAnnounced)  BY DEF Init, AmbiguityAnnounced
<1>2. ASSUME SafetyInv, RefusalInv, Parsed => AmbiguityAnnounced, [Next]_vars, Parsed'
      PROVE  AmbiguityAnnounced'
  <2> SUFFICES ASSUME phase' = "done", result'.by \in {"verdict", "window"}, Mutation,
                      (effects + stray)' > 0
               PROVE  result'.unknown
    BY <1>2, MutationFixed DEF AmbiguityAnnounced
  <2> USE <1>2 DEF Returned
  <2>1. CASE StopOnVerdict
    <3>1. effects + stray > 0 /\ Parsed
      BY <2>1 DEF StopOnVerdict, serverVars, Parsed
    <3>2. OutcomeUnknown(cmd, LastVerdict)
      BY <2>1, <3>1, UnannouncedVerdict DEF StopOnVerdict
    <3>3. OutcomeUnknown(cmd, LastVerdict) = TRUE
      BY <3>2 DEF OutcomeUnknown
    <3> QED BY <2>1, <3>3 DEF StopOnVerdict, Finish
  <2>2. CASE StopOnWindow
    <3>1. OutcomeUnknown(cmd, LastVerdict) = TRUE
      BY <2>2, RetryableIsUnknown DEF StopOnWindow, OutcomeUnknown
    <3> QED BY <2>2, <3>1 DEF StopOnWindow, Finish
  <2>3. CASE LateDelivery
    <3>1. effects + stray > 0  BY <2>3 DEF LateDelivery, SafetyInv, TypeOK
    <3>2. Parsed  BY <2>3 DEF LateDelivery, clientVars, Parsed
    <3> QED BY <2>3, <3>1, <3>2 DEF LateDelivery, clientVars, AmbiguityAnnounced
  <2>4. CASE ServerExecutes
    BY <2>4 DEF ServerExecutes, clientVars, SafetyInv, ProgressInv
  <2>5. CASE ServerRefuses
    BY <2>5 DEF ServerRefuses, clientVars, AmbiguityAnnounced, Parsed
  <2>6. CASE UNCHANGED vars
    BY <2>6 DEF vars, clientVars, serverVars, AmbiguityAnnounced, Parsed
  <2>7. CASE OpenFails \/ CredentialsFail \/ AttemptAnswered
    BY <2>7 DEF OpenFails, CredentialsFail, AttemptAnswered, Finish
  <2>8. CASE \/ OpenTransport \/ Prepare \/ StartAttempt \/ AttemptFails
             \/ ScheduleRetry \/ Wake
    BY <2>8 DEF OpenTransport, Prepare, StartAttempt, AttemptFails, ScheduleRetry, Wake
  <2> QED
    BY <2>1, <2>2, <2>3, <2>4, <2>5, <2>6, <2>7, <2>8 DEF Next, Client, Server
<1> QED BY <1>1, <1>2, CallSafe, RefusalAlways, PTL DEF Spec

\* So on gRPC, and on HTTP unless an answer is garbled, it always says so.
THEOREM AmbiguityIsAnnounced ==
    ASSUME ~GarbledAnswers \/ "http" \notin Transports
    PROVE  Spec => []AmbiguityAnnounced
<1> QED BY OnlyGarbledIsSilent, ParsedAlways, PTL

----------------------------------------------------------------------------
(***************************************************************************)
(* The Call_Wrapper implements AtMostOnce                                  *)
(***************************************************************************)

\* A returned mutation reports exactly what AtMostOnce allows it to report.
LEMMA ReportStep ==
    ASSUME SafetyInv, RefusalInv, Parsed, [Next]_vars, Mutation, phase # "done", phase' = "done"
    PROVE  Contract!Report
<1> USE DEF Returned, inputVars, clientVars, serverVars
<1>1. ~ReadOnlyCommand(cmd) /\ Outcome = "pending"
  BY DEF Outcome, ReportedOutcome, Mutation
<1>2. CASE OpenFails \/ CredentialsFail
  <2>1. effects = 0 /\ effects' = effects
    BY <1>2 DEF OpenFails, CredentialsFail, SafetyInv, ProgressInv
  <2>2. cmd' = cmd /\ result'.by = "local" /\ result'.unknown = FALSE
    BY <1>2 DEF OpenFails, CredentialsFail, Finish
  <2>3. Outcome' = "refused"  BY <1>1, <2>2 DEF Outcome, ReportedOutcome
  <2> QED BY <1>1, <2>1, <2>3 DEF Contract!Report
<1>3. CASE AttemptAnswered
  <2>1. effects' = effects /\ cmd' = cmd  BY <1>3 DEF AttemptAnswered
  <2>2. CASE result'.by = "answer" /\ result'.code = ExitOK
    <3>1. effects' = 1
      BY <2>2, MutationStep, MutationFixed DEF SafetyInv, MutationInv
    <3>2. Outcome' = "applied"  BY <1>1, <2>1, <2>2 DEF Outcome, ReportedOutcome
    <3> QED BY <1>1, <2>1, <3>1, <3>2 DEF Contract!Report
  <2>3. CASE ~(result'.by = "answer" /\ result'.code = ExitOK)
    <3>1. result'.by \in {"answer", "batch"}
      BY <1>3 DEF AttemptAnswered, Finish
    <3>2. Outcome' = "answered"
      <4>1. ~ReadOnlyCommand(cmd')  BY <1>1, <2>1
      <4> QED BY <4>1, <2>3, <3>1 DEF Outcome, ReportedOutcome
    <3> QED BY <1>1, <2>1, <3>2 DEF Contract!Report
  <2> QED BY <2>2, <2>3
<1>4. CASE StopOnVerdict \/ StopOnWindow
  <2>1. effects' = effects /\ cmd' = cmd /\ stray' = stray
    BY <1>4 DEF StopOnVerdict, StopOnWindow
  <2>2. result'.by \in {"verdict", "window"}
    BY <1>4 DEF StopOnVerdict, StopOnWindow, Finish
  <2>3. result'.unknown = OutcomeUnknown(cmd, LastVerdict)
    BY <1>4 DEF StopOnVerdict, StopOnWindow, Finish
  <2>4. CASE OutcomeUnknown(cmd, LastVerdict)
    <3>1. Outcome' = "unknown"  BY <1>1, <2>1, <2>2, <2>3, <2>4 DEF Outcome, ReportedOutcome
    <3> QED BY <1>1, <2>1, <3>1 DEF Contract!Report
  <2>5. CASE ~OutcomeUnknown(cmd, LastVerdict)
    <3>1. phase = "failed" /\ ~LastVerdict.retryable
      BY <1>4, <2>5, RetryableIsUnknown DEF StopOnVerdict, StopOnWindow
    <3>2. effects = 0
      BY <2>5, <3>1, UnannouncedVerdict DEF SafetyInv, TypeOK
    <3>3. Outcome' = "refused"  BY <1>1, <2>1, <2>2, <2>3, <2>5 DEF Outcome, ReportedOutcome
    <3> QED BY <1>1, <2>1, <3>2, <3>3 DEF Contract!Report
  <2> QED BY <2>4, <2>5
<1> QED
  BY <1>2, <1>3, <1>4
  DEF Next, Client, Server, vars, OpenTransport, Prepare, StartAttempt, AttemptFails,
      ScheduleRetry, Wake, ServerExecutes, ServerRefuses, LateDelivery

\* The server's steps are the only ones that change effects.
LEMMA ClientLeavesEffects ==
    ASSUME Client PROVE effects' = effects
BY DEF Client, OpenTransport, OpenFails, Prepare, CredentialsFail, StartAttempt,
   AttemptAnswered, AttemptFails, StopOnVerdict, StopOnWindow, ScheduleRetry, Wake,
   serverVars

LEMMA EffectStep ==
    ASSUME SafetyInv, AmbiguityAnnounced, Mutation, Server
    PROVE  Contract!TakeEffect \/ UNCHANGED <<effects, Outcome>>
<1> USE DEF inputVars, clientVars
<1>1. UNCHANGED Outcome
  BY DEF Server, ServerExecutes, ServerRefuses, LateDelivery, Outcome, ReportedOutcome
<1>2. CASE effects' = effects  BY <1>1, <1>2
<1>3. CASE ServerExecutes
  <2>1. effects = 0
    BY <1>3 DEF ServerExecutes, SafetyInv, MutationInv, TypeOK
  <2>2. effects' = 1  BY <1>3, <2>1 DEF ServerExecutes, Effect, Mutation
  <2>3. phase # "done"  BY <1>3 DEF ServerExecutes, SafetyInv, ProgressInv
  <2>4. Outcome = "pending"  BY <2>3 DEF Outcome, ReportedOutcome, Mutation
  <2> QED BY <1>1, <2>1, <2>2, <2>4 DEF Contract!TakeEffect
<1>4. CASE LateDelivery /\ effects' # effects
  <2>1. stray = 1 /\ effects = 0
    BY <1>4 DEF LateDelivery, SafetyInv, MutationInv, TypeOK
  <2>2. effects' = 1  BY <1>4, <2>1 DEF LateDelivery, Effect
  <2>3. CASE phase # "done"
    <3>1. Outcome = "pending"  BY <2>3 DEF Outcome, ReportedOutcome, Mutation
    <3> QED BY <1>1, <2>1, <2>2, <3>1 DEF Contract!TakeEffect
  <2>4. CASE phase = "done"
    <3>1. result.by \notin {"none", "local", "answer", "batch"}
      BY <2>1, <2>4 DEF SafetyInv, ProgressInv, MutationInv
    <3>2. result.by \in {"verdict", "window"}
      BY <3>1 DEF SafetyInv, TypeOK, Results
    <3>3. result.unknown
      BY <2>1, <2>4, <3>2 DEF AmbiguityAnnounced
    <3>4. Outcome = "unknown"  BY <2>4, <3>2, <3>3 DEF Outcome, ReportedOutcome, Mutation
    <3> QED BY <1>1, <2>1, <2>2, <3>4 DEF Contract!TakeEffect
  <2> QED BY <2>3, <2>4
<1> QED BY <1>2, <1>3, <1>4 DEF Server, ServerRefuses

\* A call ends once: nothing changes the client after that.
LEMMA DoneIsFinal ==
    ASSUME [Next]_vars, phase = "done"
    PROVE  UNCHANGED <<inputVars, clientVars>>
BY DEF Next, Client, Server, vars, OpenTransport, OpenFails, Prepare, CredentialsFail,
   StartAttempt, AttemptAnswered, AttemptFails, StopOnVerdict, StopOnWindow,
   ScheduleRetry, Wake, ServerExecutes, ServerRefuses, LateDelivery

\* A call whose answers can be parsed is, as the code makes it, an at-most-once
\* call as AtMostOnce promises it.
THEOREM ParsedCallKeepsContract == Spec /\ []Parsed => KeepsContract
<1>1. Init => Contract!Init
  BY DEF Init, Contract!Init, Outcome, ReportedOutcome
<1>2. ASSUME SafetyInv, RefusalInv, Parsed, AmbiguityAnnounced, [Next]_vars
      PROVE  [Contract!Next]_(Contract!vars)
  <2> USE <1>2
  <2>1. cmd' = cmd
    BY DEF Next, Client, Server, vars, inputVars, OpenTransport, OpenFails, Prepare,
           CredentialsFail, StartAttempt, AttemptAnswered, AttemptFails, StopOnVerdict,
           StopOnWindow, ScheduleRetry, Wake, ServerExecutes, ServerRefuses, LateDelivery
  <2>2. CASE ~Mutation
    <3>1. effects' = effects  BY <2>2, ReadStep, MutationFixed DEF SafetyInv, ReadInv
    <3>2. Outcome' = Outcome  BY <2>1, <2>2 DEF Outcome, ReportedOutcome, Mutation
    <3> QED BY <3>1, <3>2 DEF Contract!vars
  <2>3. CASE Mutation /\ phase # "done" /\ phase' = "done"
    BY <2>3, ReportStep DEF Contract!Next
  <2>4. CASE Mutation /\ Server
    BY <2>4, EffectStep DEF Contract!Next, Contract!vars
  <2>5. CASE Mutation /\ ~Server /\ ~(phase # "done" /\ phase' = "done")
    <3>1. effects' = effects
      BY <2>5, ClientLeavesEffects DEF Next, vars, serverVars
    <3>2. Outcome' = Outcome
      <4>1. CASE phase = "done"
        BY <4>1, DoneIsFinal DEF Outcome, ReportedOutcome, inputVars, clientVars
      <4>2. CASE phase # "done" /\ phase' # "done"
        BY <2>1, <4>2 DEF Outcome, ReportedOutcome
      <4> QED BY <2>5, <4>1, <4>2
    <3> QED BY <3>1, <3>2 DEF Contract!vars
  <2> QED BY <2>2, <2>3, <2>4, <2>5
<1> QED
  BY <1>1, <1>2, CallSafe, RefusalAlways, OnlyGarbledIsSilent, PTL
  DEF Spec, KeepsContract, Contract!Spec

\* Every gRPC call does, and every HTTP call unless an answer is garbled.
THEOREM ImplementsAtMostOnce ==
    ASSUME ~GarbledAnswers \/ "http" \notin Transports
    PROVE  Spec => KeepsContract
<1> QED BY ParsedCallKeepsContract, ParsedAlways, PTL

----------------------------------------------------------------------------
(***************************************************************************)
(* The Call_Wrapper implements ReportCall                                  *)
(***************************************************************************)

\* A mutation's request, by what the server has of it.
LEMMA RequestOfMutation ==
    ASSUME TypeOK, Mutation
    PROVE  /\ attempt = 0 => RequestSoFar = "none"
           /\ attempt > 0 /\ effects > 0 => RequestSoFar = "executed"
           /\ attempt > 0 /\ effects = 0 /\ (request = "sent" \/ stray > 0) =>
                  RequestSoFar = "sent"
           /\ attempt > 0 /\ effects = 0 /\ request # "sent" /\ stray = 0 =>
                  RequestSoFar = "refused"
BY DEF RequestSoFar, TypeOK

\* The attempt sends the request.
LEMMA SendStep ==
    ASSUME TypeOK, TypeOK', SafetyInv, Mutation, Mutation', MayGarble' = MayGarble, StartAttempt
    PROVE  Call!Send
<1>1. attempt = 0 /\ effects = 0
  BY DEF StartAttempt, SafetyInv, ProgressInv, MutationInv
<1>2. RequestSoFar = "none"  BY <1>1, RequestOfMutation
<1>3. attempt' > 0 /\ effects' = 0 /\ request' = "sent"  BY <1>1 DEF StartAttempt
<1>4. RequestSoFar' = "sent"
  BY <1>3 DEF RequestSoFar, TypeOK
<1>5. Outcome = "pending" /\ Outcome' = "pending"
  BY DEF StartAttempt, Outcome, ReportedOutcome, Mutation
<1> QED BY <1>2, <1>4, <1>5 DEF Call!Send, Call!Becomes

\* A failed attempt leaves its request where it is, or it has refused it before
\* it was sent.
LEMMA FailStep ==
    ASSUME TypeOK, TypeOK', SafetyInv, Mutation, Mutation', MayGarble' = MayGarble, AttemptFails
    PROVE  Call!Refuse \/ UNCHANGED <<RequestSoFar, Outcome>>
<1>1. Outcome' = Outcome
  BY DEF AttemptFails, Outcome, ReportedOutcome, Mutation
<1>2. attempt > 0 /\ attempt' = attempt /\ effects' = effects /\ request' = "none"
  BY DEF AttemptFails, SafetyInv, ProgressInv, TypeOK
<1>3. request \in {"sent", "executed", "refused"}
  BY DEF AttemptFails, SafetyInv, ProgressInv, TypeOK
<1>4. CASE effects > 0
  BY <1>1, <1>2, <1>4 DEF RequestSoFar
<1>5. CASE effects = 0 /\ request = "sent"
  <2>1. stray = 0  BY <1>5 DEF SafetyInv, MutationInv, TypeOK
  <2>2. RequestSoFar = "sent"  BY <1>2, <1>5, RequestOfMutation
  <2>3. stray' = 1 \/ stray' = 0  BY <1>5, <2>1 DEF AttemptFails
  <2>4. RequestSoFar' = "sent" \/ RequestSoFar' = "refused"
    BY <1>2, <1>5, <2>3 DEF RequestSoFar
  <2> QED BY <1>1, <2>2, <2>4 DEF Call!Refuse, Call!Becomes
<1>6. CASE effects = 0 /\ request = "refused"
  <2>1. stray = 0 /\ stray' = 0  BY <1>6 DEF AttemptFails, SafetyInv, MutationInv, TypeOK
  <2> QED BY <1>1, <1>2, <1>6, <2>1 DEF RequestSoFar
<1>7. effects > 0 \/ (effects = 0 /\ request \in {"sent", "refused"})
  BY <1>3 DEF SafetyInv, MutationInv, TypeOK
<1> QED BY <1>4, <1>5, <1>6, <1>7

\* What the server or the network does to a request is what may become of it.
LEMMA ServerStep ==
    ASSUME TypeOK, TypeOK', SafetyInv, Mutation, Mutation', MayGarble' = MayGarble, Server
    PROVE  Call!Execute \/ Call!Refuse
<1>1. UNCHANGED Outcome
  BY DEF Server, ServerExecutes, ServerRefuses, LateDelivery, Outcome, ReportedOutcome,
         inputVars, clientVars
<1>2. effects = 0 /\ ((request = "sent" /\ stray = 0) \/ (request # "sent" /\ stray = 1))
  BY DEF Server, ServerExecutes, ServerRefuses, LateDelivery, SafetyInv, MutationInv, TypeOK
<1>3. attempt > 0 /\ attempt' = attempt
  <2>1. attempt' = attempt
    BY DEF Server, ServerExecutes, ServerRefuses, LateDelivery, clientVars
  <2> QED BY <1>2, <2>1 DEF SafetyInv, ProgressInv, TypeOK
<1>4. RequestSoFar = "sent"  BY <1>2, <1>3, RequestOfMutation
<1>5. \/ effects' = 1
      \/ effects' = 0 /\ request' # "sent" /\ stray' = 0
  BY <1>2 DEF Server, ServerExecutes, ServerRefuses, LateDelivery, Effect, Mutation, TypeOK
<1>6. RequestSoFar' = "executed" \/ RequestSoFar' = "refused"
  BY <1>3, <1>5 DEF RequestSoFar
<1> QED BY <1>1, <1>4, <1>6 DEF Call!Execute, Call!Refuse, Call!Becomes

\* A request that net/http could not build, or whose answer it could not parse, has
\* nothing on its way to the server.
PlainInv == phase = "failed" /\ Mutation /\ failure = "plain" => stray = 0

LEMMA PlainStep ==
    ASSUME TypeOK, SafetyInv, PlainInv, [Next]_vars
    PROVE  PlainInv'
<1> SUFFICES ASSUME phase' = "failed", Mutation, failure' = "plain" PROVE stray' = 0
  BY MutationFixed DEF PlainInv
<1>1. CASE AttemptFails
  <2>1. request \in {"sent", "executed", "refused"} /\ stray \in Nat
    BY <1>1 DEF AttemptFails, SafetyInv, ProgressInv, TypeOK
  <2>2. stray = 0  BY <2>1 DEF SafetyInv, MutationInv, TypeOK
  <2>3. stray' = stray  BY <1>1 DEF AttemptFails
  <2> QED BY <2>2, <2>3
<1>2. CASE LateDelivery
  <2>1. stray = 0 /\ stray > 0  BY <1>2 DEF LateDelivery, clientVars, PlainInv
  <2> QED BY <2>1
<1>3. CASE ServerExecutes \/ ServerRefuses \/ UNCHANGED vars
  BY <1>3 DEF ServerExecutes, ServerRefuses, vars, clientVars, serverVars, inputVars, PlainInv
<1> QED
  BY <1>1, <1>2, <1>3
  DEF Next, Client, Server, OpenTransport, OpenFails, Prepare, CredentialsFail,
      StartAttempt, AttemptAnswered, StopOnVerdict, StopOnWindow, ScheduleRetry, Wake, Finish

\* Only an HTTP answer is ever garbled.
LEMMA UnparsedIsGarbled ==
    ASSUME TypeOK, FailureInv, ~Parsed
    PROVE  MayGarble /\ failure = "plain"
<1>1. GarbledAnswers /\ failure = "plain"  BY CallAssumption DEF Parsed
<1>2. transport \in {"grpc", "http"}  BY CallAssumption DEF TypeOK
<1>3. transport # "grpc"
  BY <1>1
  DEF FailureInv, FailuresOf, GrpcFailures, RetryableStatusCodes, RequestErrorStatusCodes,
      OtherStatusCodes, NoFailure
<1> QED BY <1>1, <1>2, <1>3 DEF MayGarble

\* An attempt that ended the call without the remark that its outcome is unknown.
LEMMA RefusalOfStop ==
    ASSUME TypeOK, SafetyInv, RefusalInv, FailureInv, PlainInv, Mutation, phase = "failed",
           ~LastVerdict.retryable, ~OutcomeUnknown(cmd, LastVerdict)
    PROVE  RequestSoFar = "refused" \/ (MayGarble /\ RequestSoFar = "executed")
<1>1. attempt > 0 /\ request # "sent"  BY DEF SafetyInv, ProgressInv, TypeOK
<1>2. effects \in Nat /\ stray \in Nat  BY DEF TypeOK
<1>3. CASE Parsed
  <2>1. effects + stray = 0  BY <1>3, UnannouncedVerdict
  <2>2. effects = 0 /\ stray = 0  BY <1>2, <2>1
  <2> QED BY <1>1, <2>2, RequestOfMutation
<1>4. CASE ~Parsed
  <2>1. MayGarble /\ failure = "plain"  BY <1>4, UnparsedIsGarbled
  <2>2. stray = 0  BY <2>1 DEF PlainInv
  <2>3. effects = 0 \/ effects > 0  BY <1>2
  <2> QED BY <1>1, <2>1, <2>2, <2>3, RequestOfMutation
<1> QED BY <1>3, <1>4

\* What a returned mutation reports is what may be reported of its request.
LEMMA ReturnStep ==
    ASSUME TypeOK, TypeOK', SafetyInv, RefusalInv, FailureInv, PlainInv, [Next]_vars,
           Mutation, Mutation', phase # "done", phase' = "done"
    PROVE  Call!Report
<1> USE DEF Returned, inputVars, clientVars, serverVars
<1>1. /\ OpenFails \/ CredentialsFail \/ AttemptAnswered \/ StopOnVerdict \/ StopOnWindow
      /\ UNCHANGED <<cmd, transport, attempt, request, stray, effects>>
  BY DEF Next, Client, Server, vars, OpenTransport, OpenFails, Prepare, CredentialsFail,
         StartAttempt, AttemptAnswered, AttemptFails, StopOnVerdict, StopOnWindow,
         ScheduleRetry, Wake, ServerExecutes, ServerRefuses, LateDelivery
<1>2. UNCHANGED <<MayGarble, RequestSoFar>>  BY <1>1 DEF RequestSoFar, Mutation, MayGarble
<1>3. Outcome = "pending" /\ Outcome' = ReportedOutcome'
  BY DEF Outcome, Mutation
<1>4. ReportedOutcome' \in {"applied", "refused", "answered", "unknown"}
  BY DEF ReportedOutcome
<1>5. CASE OpenFails \/ CredentialsFail
  <2>1. attempt = 0  BY <1>5 DEF OpenFails, CredentialsFail, SafetyInv, ProgressInv
  <2>2. RequestSoFar = "none"  BY <2>1, RequestOfMutation
  <2>3. ReportedOutcome' = "refused"
    BY <1>5 DEF OpenFails, CredentialsFail, Finish, ReportedOutcome
  <2> QED BY <1>2, <1>3, <1>4, <2>2, <2>3 DEF Call!Report, Call!MayReport
<1>6. CASE AttemptAnswered
  <2>1. request # "sent" /\ stray = 0 /\ attempt > 0
    BY <1>6 DEF AttemptAnswered, SafetyInv, MutationInv, ProgressInv, TypeOK
  <2>2. effects > 0 \/ effects = 0  BY DEF TypeOK
  <2>3. RequestSoFar \in {"executed", "refused"}  BY <2>1, <2>2, RequestOfMutation
  <2>4. ReportedOutcome' \in {"applied", "answered"}
    BY <1>6 DEF AttemptAnswered, Finish, ReportedOutcome
  <2>5. ReportedOutcome' = "applied" => RequestSoFar = "executed"
    <3>1. SUFFICES ASSUME result'.by = "answer" /\ result'.code = ExitOK
                   PROVE  RequestSoFar = "executed"
      BY <2>4 DEF ReportedOutcome
    <3>2. effects' = 1  BY <3>1, MutationStep, MutationFixed DEF SafetyInv, MutationInv
    <3> QED BY <1>1, <2>1, <3>2, RequestOfMutation
  <2> QED BY <1>2, <1>3, <2>3, <2>4, <2>5 DEF Call!Report, Call!MayReport
<1>7. CASE StopOnVerdict \/ StopOnWindow
  <2>1. /\ result'.unknown = OutcomeUnknown(cmd, LastVerdict)
        /\ result'.by \in {"verdict", "window"}
    BY <1>7 DEF StopOnVerdict, StopOnWindow, Finish
  <2>2. CASE OutcomeUnknown(cmd, LastVerdict)
    <3>1. ReportedOutcome' = "unknown"  BY <2>1, <2>2 DEF ReportedOutcome
    <3> QED BY <1>2, <1>3, <3>1 DEF Call!Report, Call!MayReport
  <2>3. CASE ~OutcomeUnknown(cmd, LastVerdict)
    <3>1. ReportedOutcome' = "refused"  BY <2>1, <2>3 DEF ReportedOutcome
    <3>2. phase = "failed" /\ ~LastVerdict.retryable
      BY <1>7, <2>3, RetryableIsUnknown DEF StopOnVerdict, StopOnWindow
    <3>3. RequestSoFar = "refused" \/ (MayGarble /\ RequestSoFar = "executed")
      BY <2>3, <3>2, RefusalOfStop
    <3> QED BY <1>2, <1>3, <3>1, <3>3 DEF Call!Report, Call!MayReport
  <2> QED BY <2>2, <2>3
<1> QED BY <1>1, <1>5, <1>6, <1>7

\* Whatever the network does to it, and on either transport: a mutation is one
\* request, sent once, and its outcome fits what became of it.  A job script is told
\* of its reports no more than this.
THEOREM ImplementsReportCall == Spec => IsReportCall
<1>1. Init => Call!Init
  BY CallAssumption DEF Init, Call!Init, Outcome, ReportedOutcome, RequestSoFar, MayGarble
<1>2. ASSUME TypeOK, TypeOK', SafetyInv, RefusalInv, FailureInv, PlainInv, [Next]_vars
      PROVE  [Call!Next]_(Call!vars)
  <2> USE <1>2
  <2>1. cmd' = cmd /\ transport' = transport /\ MayGarble' = MayGarble
    BY DEF Next, Client, Server, vars, inputVars, OpenTransport, OpenFails, Prepare,
           CredentialsFail, StartAttempt, AttemptAnswered, AttemptFails, StopOnVerdict,
           StopOnWindow, ScheduleRetry, Wake, ServerExecutes, ServerRefuses, LateDelivery,
           MayGarble
  <2>2. CASE ~Mutation
    BY <2>1, <2>2 DEF RequestSoFar, Outcome, ReportedOutcome, Mutation, Call!vars
  <2>3. ASSUME Mutation PROVE [Call!Next]_(Call!vars)
    <3> USE <2>3
    <3>1. Mutation'  BY MutationFixed
    <3>2. CASE StartAttempt  BY <2>1, <3>1, <3>2, SendStep DEF Call!Next
    <3>3. CASE AttemptFails  BY <2>1, <3>1, <3>3, FailStep DEF Call!Next, Call!vars
    <3>4. CASE Server  BY <2>1, <3>1, <3>4, ServerStep DEF Call!Next
    <3>5. CASE phase # "done" /\ phase' = "done"
      BY <3>1, <3>5, ReturnStep DEF Call!Next
    <3>6. CASE OpenTransport \/ Prepare \/ ScheduleRetry \/ Wake
      BY <2>1, <3>1, <3>6
      DEF OpenTransport, Prepare, ScheduleRetry, Wake, RequestSoFar, Outcome,
          ReportedOutcome, serverVars, Call!vars
    <3>7. CASE UNCHANGED vars
      BY <2>1, <3>7 DEF vars, inputVars, clientVars, serverVars, RequestSoFar, Outcome,
                  ReportedOutcome, Mutation, Call!vars
    <3>8. \/ OpenTransport \/ Prepare \/ ScheduleRetry \/ Wake
          \/ StartAttempt \/ AttemptFails \/ Server \/ UNCHANGED vars
          \/ (phase # "done" /\ phase' = "done")
      BY DEF Next, Client, OpenFails, CredentialsFail, AttemptAnswered, StopOnVerdict,
             StopOnWindow, Finish
    <3> QED BY <3>2, <3>3, <3>4, <3>5, <3>6, <3>7, <3>8
  <2> QED BY <2>2, <2>3
<1>3. Init => FailureInv /\ PlainInv  BY DEF Init, FailureInv, PlainInv
<1>4. TypeOK /\ SafetyInv /\ FailureInv /\ PlainInv /\ [Next]_vars => FailureInv' /\ PlainInv'
  BY FailureStep, PlainStep
<1> QED
  BY <1>1, <1>2, <1>3, <1>4, CallSafe, TypeCorrect, RefusalAlways, PTL
  DEF Spec, IsReportCall, Call!Spec

----------------------------------------------------------------------------
(***************************************************************************)
(* How long the retry loop can go on                                       *)
(***************************************************************************)

WindowOfCall == EffectiveWindow(cmd, setting)

\* Each retry starts when the backoffs of the attempts before it have passed
\* inside the window.
FewAttemptsInv ==
    /\ phase = "attempting" /\ attempt >= 1 => CumulativeBackoff(attempt - 1) < WindowOfCall
    /\ phase = "sleeping" => CumulativeBackoff(attempt - 1) < WindowOfCall
    /\ attempt >= 2 => CumulativeBackoff(attempt - 2) < WindowOfCall

\* A call makes an attempt only if the backoffs of all attempts but the last fit
\* into its window.
AttemptsAreFew == attempt >= 2 => CumulativeBackoff(attempt - 2) < WindowOfCall

\* The inputs of a call are fixed.
LEMMA InputsFixed ==
    ASSUME [Next]_vars
    PROVE  UNCHANGED inputVars
BY DEF Next, Client, Server, vars, inputVars, OpenTransport, OpenFails, Prepare,
       CredentialsFail, StartAttempt, AttemptAnswered, AttemptFails, StopOnVerdict,
       StopOnWindow, ScheduleRetry, Wake, ServerExecutes, ServerRefuses, LateDelivery

\* An attempt begins after a wait that fitted into the window.
LEMMA FewAttemptsStep ==
    ASSUME SafetyInv, FewAttemptsInv, [Next]_vars
    PROVE  FewAttemptsInv'
<1>1. WindowOfCall' = WindowOfCall  BY InputsFixed DEF inputVars, WindowOfCall
<1>2. attempt \in Nat  BY DEF SafetyInv, TypeOK
<1> USE DEF FewAttemptsInv
<1>3. CASE StartAttempt
  <2>1. attempt' = attempt + 1 /\ phase = "attempting" /\ phase' = "waiting"
    BY <1>3 DEF StartAttempt
  <2>2. attempt' - 2 = attempt - 1  BY <1>2, <2>1
  <2> QED BY <1>1, <1>2, <2>1, <2>2
<1>4. CASE ScheduleRetry
  <2>1. /\ attempt' = attempt /\ attempt >= 1
        /\ phase = "failed" /\ phase' = "sleeping" /\ elapsed < window
        /\ window = WindowOfCall
    BY <1>4 DEF ScheduleRetry, MayRetry, SafetyInv, ProgressInv, NoResult, WindowOfCall
  <2>2. CumulativeBackoff(attempt - 1) \in Nat
    BY <1>2, <2>1, CumulativeStep
  <2>3. CumulativeBackoff(attempt - 1) < WindowOfCall
    BY <2>1, <2>2 DEF SafetyInv, BackoffInv, TypeOK
  <2> QED BY <1>1, <2>1, <2>3
<1>5. CASE Prepare
  <2>1. attempt = 0 /\ attempt' = 0  BY <1>5 DEF Prepare, SafetyInv, ProgressInv
  <2> QED BY <1>5, <2>1 DEF Prepare
<1>6. CASE Wake  BY <1>1, <1>6 DEF Wake
<1>7. CASE \/ OpenTransport \/ OpenFails \/ CredentialsFail \/ AttemptAnswered \/ AttemptFails
           \/ StopOnVerdict \/ StopOnWindow
  BY <1>1, <1>7
  DEF OpenTransport, OpenFails, CredentialsFail, AttemptAnswered, AttemptFails,
      StopOnVerdict, StopOnWindow, Finish
<1>8. CASE phase' = phase /\ attempt' = attempt  BY <1>1, <1>8
<1> QED
  BY <1>3, <1>4, <1>5, <1>6, <1>7, <1>8
  DEF Next, Client, Server, vars, clientVars, ServerExecutes, ServerRefuses, LateDelivery

\* The backoff bounds the attempts of a call by its window, however fast they
\* fail: a call without a window makes one.
THEOREM FewAttempts == Spec => []AttemptsAreFew
<1>1. Init => FewAttemptsInv  BY DEF Init, FewAttemptsInv
<1>2. SafetyInv /\ FewAttemptsInv /\ [Next]_vars => FewAttemptsInv'  BY FewAttemptsStep
<1>3. FewAttemptsInv => AttemptsAreFew  BY DEF FewAttemptsInv, AttemptsAreFew
<1> QED BY <1>1, <1>2, <1>3, CallSafe, PTL DEF Spec

\* In the sixty seconds a query has by default it makes seven attempts at most.
THEOREM DefaultQueryAttempts ==
    Spec => [](KindOf(cmd) # "child" /\ setting.form = "unset" => attempt <= 7)
<1>1. ASSUME SafetyInv, AttemptsAreFew, KindOf(cmd) # "child", setting.form = "unset",
             attempt > 7
      PROVE  FALSE
  <2>1. WindowOfCall <= 60
    BY <1>1
    DEF WindowOfCall, EffectiveWindow, ResolveRetryWindow, DefaultRetryWindow
  <2>2. attempt \in Nat  BY <1>1 DEF SafetyInv, TypeOK
  <2>3. CumulativeBackoff(attempt - 2) >= 63
    BY <1>1, <2>2 DEF CumulativeBackoff, MaxBackoff
  <2>4. WindowOfCall \in Nat
    BY <1>1, CallAssumption, EffectiveWindowType DEF WindowOfCall, SafetyInv, TypeOK
  <2>5. CumulativeBackoff(attempt - 2) < WindowOfCall
    BY <1>1, <2>2 DEF AttemptsAreFew
  <2>6. attempt - 2 \in Nat  BY <1>1, <2>2
  <2>7. CumulativeBackoff(attempt - 2) \in Nat  BY <2>6, CumulativeStep
  <2> QED BY <2>1, <2>3, <2>4, <2>5, <2>7
<1>2. SafetyInv /\ AttemptsAreFew =>
         (KindOf(cmd) # "child" /\ setting.form = "unset" => attempt <= 7)
  BY <1>1 DEF SafetyInv, TypeOK
<1> QED BY <1>2, CallSafe, FewAttempts, PTL

\* What is left of the window.
Remaining == IF elapsed <= WindowOfCall THEN WindowOfCall - elapsed ELSE 0

\* How many steps an attempt has before it, when it is the last one.
Rank ==
    IF phase = "idle" THEN 7
    ELSE IF phase = "open" THEN 6
    ELSE IF phase = "attempting" THEN 5
    ELSE IF phase = "waiting" THEN 4
    ELSE IF phase = "failed" THEN 3
    ELSE IF phase = "sleeping" THEN 2
    ELSE 0

\* No more than this many client steps are to come.
StepsLeft == 4 * Remaining + Rank

\* A client step brings the call nearer to its end, and the server cannot take it
\* away from there.
CallProgresses == [][(Client => StepsLeft' < StepsLeft) /\ StepsLeft' <= StepsLeft]_vars

\* What is left of the window is a number of seconds.
LEMMA RemainingType ==
    SafetyInv => WindowOfCall \in Nat /\ Remaining \in Nat /\ Rank \in Nat /\ StepsLeft \in Nat
<1> SUFFICES ASSUME SafetyInv
             PROVE  WindowOfCall \in Nat /\ Remaining \in Nat /\ Rank \in Nat /\ StepsLeft \in Nat
  OBVIOUS
<1>1. WindowOfCall \in Nat
  BY CallAssumption, EffectiveWindowType DEF WindowOfCall, SafetyInv, TypeOK
<1>2. Remaining \in Nat  BY <1>1 DEF Remaining, SafetyInv, TypeOK
<1>3. Rank \in Nat  BY DEF Rank
<1> QED BY <1>1, <1>2, <1>3 DEF StepsLeft

\* The clock only goes forward.
LEMMA RemainingStep ==
    ASSUME SafetyInv, [Next]_vars
    PROVE  Remaining' <= Remaining
<1>1. WindowOfCall' = WindowOfCall  BY InputsFixed DEF inputVars, WindowOfCall
<1>2. elapsed \in Nat /\ delay \in Nat /\ WindowOfCall \in Nat
  BY RemainingType DEF SafetyInv, TypeOK
<1>3. elapsed' \in Nat /\ elapsed' >= elapsed
  <2>1. CASE AttemptAnswered \/ AttemptFails
    <3>1. PICK d \in 0 .. SingleTimeout : elapsed' = elapsed + d
      BY <2>1, CallAssumption DEF AttemptAnswered, AttemptFails
    <3> QED BY <1>2, <3>1, CallAssumption
  <2>2. CASE Wake
    <3>1. PICK s \in 0 .. SleepSlack : elapsed' = elapsed + delay + s  BY <2>2 DEF Wake
    <3> QED BY <1>2, <3>1, CallAssumption
  <2>3. CASE elapsed' = elapsed  BY <1>2, <2>3
  <2> QED
    BY <2>1, <2>2, <2>3
    DEF Next, Client, Server, vars, clientVars, OpenTransport, OpenFails, Prepare,
        CredentialsFail, StartAttempt, StopOnVerdict, StopOnWindow, ScheduleRetry,
        ServerExecutes, ServerRefuses, LateDelivery
<1>4. PICK e \in Nat : e = elapsed' /\ e >= elapsed  BY <1>3
<1>5. Remaining' = IF e <= WindowOfCall THEN WindowOfCall - e ELSE 0
  BY <1>1, <1>4 DEF Remaining
<1>6. (IF e <= WindowOfCall THEN WindowOfCall - e ELSE 0) <= Remaining
  <2>1. e >= elapsed /\ elapsed \in Nat /\ WindowOfCall \in Nat  BY <1>2, <1>4
  <2> QED BY <2>1 DEF Remaining
<1> QED BY <1>5, <1>6

\* A wait uses up a second of the window at least.
LEMMA WakeSpends ==
    ASSUME SafetyInv, Wake
    PROVE  Remaining' + 1 <= Remaining
<1>1. WindowOfCall' = WindowOfCall  BY DEF Wake, inputVars, WindowOfCall
<1>2. /\ elapsed \in Nat /\ delay \in Nat /\ WindowOfCall \in Nat
      /\ delay >= 1 /\ elapsed + delay <= WindowOfCall
  BY RemainingType DEF Wake, SafetyInv, TypeOK, ClockInv, ProgressInv, NoResult, WindowOfCall
<1>3. PICK s \in 0 .. SleepSlack : elapsed' = elapsed + delay + s  BY DEF Wake
<1> QED BY <1>1, <1>2, <1>3, CallAssumption DEF Remaining

\* Every other client step leads to a later phase of the attempt.
LEMMA ClientGoesOn ==
    ASSUME Client, ~Wake
    PROVE  \/ phase = "idle" /\ phase' \in {"open", "done"}
           \/ phase = "open" /\ phase' \in {"attempting", "done"}
           \/ phase = "attempting" /\ phase' = "waiting"
           \/ phase = "waiting" /\ phase' \in {"failed", "done"}
           \/ phase = "failed" /\ phase' \in {"sleeping", "done"}
BY DEF Client, OpenTransport, OpenFails, Prepare, CredentialsFail, StartAttempt,
       AttemptAnswered, AttemptFails, StopOnVerdict, StopOnWindow, ScheduleRetry, Finish

\* However many attempts fail, and whatever the server does: every step of the
\* client brings the call closer to its end.
THEOREM CallApproachesItsEnd == Spec => [](StepsLeft \in Nat) /\ CallProgresses
<1>1. ASSUME SafetyInv, SafetyInv', [Next]_vars
      PROVE  [(Client => StepsLeft' < StepsLeft) /\ StepsLeft' <= StepsLeft]_vars
  <2> USE <1>1
  <2>1. Remaining \in Nat /\ Rank \in Nat  BY RemainingType
  <2>2. PICK k \in Nat : k = Rank'
    <3>1. Rank' \in Nat  BY DEF Rank
    <3> QED BY <3>1
  <2>3. PICK r \in Nat : r = Remaining' /\ r <= Remaining
    <3>1. WindowOfCall' = WindowOfCall  BY InputsFixed DEF inputVars, WindowOfCall
    <3>2. WindowOfCall \in Nat  BY RemainingType
    <3>3. PICK e \in Nat : e = elapsed'  BY DEF SafetyInv, TypeOK
    <3>4. Remaining' = IF e <= WindowOfCall THEN WindowOfCall - e ELSE 0
      BY <3>1, <3>3 DEF Remaining
    <3>5. Remaining' \in Nat  BY <3>2, <3>4
    <3> QED BY <3>5, RemainingStep
  <2>4. StepsLeft' = 4 * r + k  BY <2>2, <2>3 DEF StepsLeft
  <2>5. ASSUME Client PROVE 4 * r + k < StepsLeft
    <3>1. CASE Wake
      <4>1. Rank = 2 /\ k = 5  BY <2>2, <3>1 DEF Wake, Rank
      <4>2. r + 1 <= Remaining  BY <2>3, <3>1, WakeSpends
      <4> QED BY <2>1, <4>1, <4>2 DEF StepsLeft
    <3>2. CASE ~Wake
      <4>1. k < Rank  BY <2>2, <2>5, <3>2, ClientGoesOn DEF Rank
      <4>2. r <= Remaining  BY <2>3
      <4> QED BY <2>1, <4>1, <4>2 DEF StepsLeft
    <3> QED BY <3>1, <3>2
  <2>6. 4 * r + k <= StepsLeft
    <3>1. CASE Client  BY <2>1, <2>5, <3>1 DEF StepsLeft
    <3>2. CASE ~Client
      <4>1. phase' = phase
        BY <3>2 DEF Next, Server, vars, ServerExecutes, ServerRefuses, LateDelivery, clientVars
      <4>2. k = Rank  BY <2>2, <4>1 DEF Rank
      <4>3. r <= Remaining  BY <2>3
      <4> QED BY <2>1, <4>2, <4>3 DEF StepsLeft
    <3> QED BY <3>1, <3>2
  <2> QED BY <2>4, <2>5, <2>6
<1>2. SafetyInv => StepsLeft \in Nat  BY RemainingType
<1> QED BY <1>1, <1>2, CallSafe, PTL DEF Spec, CallProgresses
=============================================================================
