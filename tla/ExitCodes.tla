----------------------------- MODULE ExitCodes -----------------------------
(***************************************************************************)
(* The process exit codes and the mapping of a server answer's Error_Code  *)
(* (common/exitcode.go).                                                   *)
(***************************************************************************)

ExitOK == 0
ExitRequestError == 1
ExitServerError == 3
ExitUnreachable == 4
ExitCodes == {ExitOK, ExitRequestError, ExitServerError, ExitUnreachable}

ExitCodeForErrorCode(flag) ==
    CASE flag = 0 -> ExitOK
      [] flag \in {1, 10, 11, 12, 13, 14, 15, 16, 20, 32, 33, 43} -> ExitRequestError
      [] flag \in {40, 41} -> ExitUnreachable
      [] OTHER -> ExitServerError
=============================================================================
