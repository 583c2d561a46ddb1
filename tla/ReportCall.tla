----------------------------- MODULE ReportCall ----------------------------
(***************************************************************************)
(* One call of a mutating command with what becomes of its one request:    *)
(* finer than AtMostOnce, which does not see a request before it takes     *)
(* effect.  CallWrapper implements it on either transport, and a job       *)
(* script (JobScript) is told of a report what MayReport allows.           *)
(***************************************************************************)

VARIABLES
    garbles,  \* an answer of the transport may be broken below the envelope
    request,  \* what became of the call's request
    outcome   \* what the caller has been told

vars == <<garbles, request, outcome>>

\* "exempt" is a read only call, whose requests leave nothing behind.
Init == garbles \in BOOLEAN /\ request = "none" /\ outcome \in {"exempt", "pending"}

Becomes(status) == request' = status /\ UNCHANGED <<garbles, outcome>>

Send == outcome = "pending" /\ request = "none" /\ Becomes("sent")

\* A request may be executed, refused or lost when its call is over.
Execute == request = "sent" /\ Becomes("executed")
Refuse == request = "sent" /\ Becomes("refused")
Lose == request = "sent" /\ Becomes("lost")

\* "ignored" is what NO_TAKLER makes of a call.  "refused" is an error that does
\* not say the outcome is unknown: true, but for an answer that was garbled.
MayReport(o) ==
    \/ o = "ignored" /\ request = "none"
    \/ o = "applied" /\ request = "executed"
    \/ o = "answered" /\ request \in {"executed", "refused"}
    \/ o = "refused" /\ (request \in {"none", "refused"} \/ (garbles /\ request = "executed"))
    \/ o = "unknown"

Report ==
    /\ outcome = "pending"
    /\ outcome' \in {"ignored", "applied", "answered", "refused", "unknown"}
    /\ MayReport(outcome')
    /\ UNCHANGED <<garbles, request>>

Next == Send \/ Execute \/ Refuse \/ Lose \/ Report

Spec == Init /\ [][Next]_vars
=============================================================================
