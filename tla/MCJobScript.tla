---------------------------- MODULE MCJobScript ----------------------------
(***************************************************************************)
(* JobScript with two progress reports and two signals.                    *)
(***************************************************************************)
EXTENDS JobScript
=============================================================================
