------------------------------ MODULE Commands ------------------------------
(***************************************************************************)
(* The commands as the Call_Wrapper knows them: their kinds, and which of  *)
(* them only read.                                                         *)
(***************************************************************************)
ChildCommands == {"init", "complete", "abort", "event", "meter"}
BatchCommands ==
    {"requeue", "suspend", "resume", "run", "force", "free-dep", "begin"}
ControlCommands ==
    BatchCommands \cup {"load", "replace", "server-halt", "server-resume"}
QueryDocuments ==
    {"query capabilities_request", "query page_request",
     "query detail_request", "query chunk_request", "query since_request"}
QueryCommands == {"ping", "coroutine", "server-status"} \cup QueryDocuments

KindOf(name) ==
    CASE name \in ChildCommands -> "child"
      [] name \in ControlCommands -> "control"
      [] OTHER -> "query"

ReadOnlyCommand(name) ==
    name \in {"ping", "coroutine", "server-status"} \cup QueryDocuments
=============================================================================
