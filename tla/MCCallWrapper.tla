--------------------------- MODULE MCCallWrapper ---------------------------
(***************************************************************************)
(* Instances of CallWrapper for TLC.  One command per kind of behaviour:   *)
(* a child report, a batch command, another mutation, a query that reads   *)
(* no node and a page read.  Attempts answer at once, after three seconds  *)
(* or at the deadline; the windows and backoffs are the code's own.        *)
(***************************************************************************)
EXTENDS CallWrapper

MCCommands == {"complete", "requeue", "load", "ping", "query page_request"}
MCReads == {"ping"}
MCChild == {"complete"}
MCBoth == {"grpc", "http"}
MCGrpc == {"grpc"}
MCHttp == {"http"}
MCUnset == [form |-> "unset"]
MCSettings ==
    {MCUnset, [form |-> "invalid"],
     [form |-> "seconds", seconds |-> 0], [form |-> "seconds", seconds |-> 9]}
MCDefaultWindow == {MCUnset}
\* success, node_not_found, batch_failed, job_submission, transport, unregistered
MCFlags == {0, 10, 16, 30, 40, 77}
MCAttemptSeconds == {0, 3, 10}
=============================================================================
