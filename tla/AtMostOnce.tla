---------------------------- MODULE AtMostOnce -----------------------------
(***************************************************************************)
(* What one call of a mutating command promises a job script or an         *)
(* operator, whatever the transport does: the command takes effect at most *)
(* once; a call that reports a refusal never takes effect, not even later; *)
(* a call that reports success took effect before it returned; and only a  *)
(* call whose outcome is reported as unknown may take effect afterwards.   *)
(***************************************************************************)
EXTENDS Naturals

VARIABLES
    effects,  \* how often the command has taken effect
    outcome   \* what the caller has been told

vars == <<effects, outcome>>

\* "exempt" is a read only call: it has no effect to promise anything about.
\* "answered" is the server's own account of the call: a non-zero Error_Code or
\* a batch answer, which may name effects of its own.
Outcomes == {"exempt", "pending", "applied", "answered", "refused", "unknown"}

Init == effects = 0 /\ outcome \in {"exempt", "pending"}

TakeEffect ==
    /\ outcome \in {"pending", "unknown"}
    /\ effects = 0
    /\ effects' = 1
    /\ UNCHANGED outcome

Report ==
    /\ outcome = "pending"
    /\ \/ outcome' = "applied" /\ effects = 1
       \/ outcome' = "refused" /\ effects = 0
       \/ outcome' \in {"answered", "unknown"}
    /\ UNCHANGED effects

Next == TakeEffect \/ Report

Spec == Init /\ [][Next]_vars
=============================================================================
