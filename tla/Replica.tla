------------------------------ MODULE Replica ------------------------------
(***************************************************************************)
(* What a TaklerServiceClient promises the goroutines that share it: one   *)
(* copy of the selected part of the server's tree, which moves from a      *)
(* revision to a later one and shows, of the revision it is at, all but    *)
(* the parts it does not know; and to each caller of SyncQuery that is     *)
(* given a result, the copy as it was, with all parts known, when the      *)
(* caller took it.  The copy may move before the caller is given it.       *)
(***************************************************************************)
EXTENDS Naturals

CONSTANTS
    Selected, \* the paths in the selected scope and depth
    Callers,  \* the goroutines that call SyncQuery
    Nothing   \* no copy and no result: revision 0 of session 0

VARIABLES
    history,  \* history[s][r]: the status of every path, in session s at revision r
    copy,     \* the copy that the goroutines share
    taken,    \* the copy each caller took
    result    \* what each caller was given

vars == <<history, copy, taken, result>>

\* The copy at revision r of session s, of which the paths in known are known.
Of(s, r, known) == [session |-> s, revision |-> r, shown |-> [p \in known |-> history[s][r][p]]]
IsCopy(c) ==
    /\ c.session \in DOMAIN history /\ c.revision \in DOMAIN history[c.session]
    /\ DOMAIN c.shown \subseteq Selected
    /\ c = Of(c.session, c.revision, DOMAIN c.shown)

NotBefore(c, d) == c.session > d.session \/ (c.session = d.session /\ c.revision >= d.revision)

Init ==
    /\ DOMAIN history = {1} /\ DOMAIN history[1] = {1}
    /\ copy = Nothing
    /\ taken = [c \in Callers |-> Nothing]
    /\ result = [c \in Callers |-> Nothing]

\* The server goes on; what was a revision remains one.
Change ==
    /\ \A s \in DOMAIN history : \A r \in DOMAIN history[s] :
          s \in DOMAIN history' /\ r \in DOMAIN history'[s] /\ history'[s][r] = history[s][r]
    /\ UNCHANGED <<copy, taken, result>>

\* To a later revision, or to more or less of the same one.
Move == IsCopy(copy') /\ NotBefore(copy', copy) /\ UNCHANGED history

Refresh == Move /\ UNCHANGED <<taken, result>>

\* A caller takes the copy where it has got to: two callers take it in the order
\* of its revisions.
Take(c) ==
    /\ Move
    /\ DOMAIN copy'.shown = Selected
    /\ taken[c] = Nothing
    /\ taken' = [taken EXCEPT ![c] = copy']
    /\ UNCHANGED result

Give(c) ==
    /\ taken[c] # Nothing /\ result[c] = Nothing
    /\ result' = [result EXCEPT ![c] = taken[c]]
    /\ UNCHANGED <<history, copy, taken>>

Next == Change \/ Refresh \/ \E c \in Callers : Take(c) \/ Give(c)

Spec == Init /\ [][Next]_vars
=============================================================================
