---------------------------- MODULE MCBatchCall ----------------------------
(***************************************************************************)
(* Two targets, requests of up to three, so that a target may be repeated. *)
(***************************************************************************)
EXTENDS BatchCall

\* node_not_found
MCItemErrors == {10}
\* server_halted, permission_denied
MCRefusals == {33, 43}
=============================================================================
