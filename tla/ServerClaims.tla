---------------------------- MODULE ServerClaims ---------------------------
(***************************************************************************)
(* What a comment of the server says and the retry loop does not do.  The  *)
(* claim is checked by a run of its own, which ends in a counterexample.   *)
(***************************************************************************)
EXTENDS Server

(* "Success or non-retryable failure -> send response"                     *)
(* (http_server.go:116).  A request whose last attempt ended so has that   *)
(* response's status.  The recorder passed the status of the first attempt *)
(* on, and a status line is sent once.                                     *)
SuccessIsSent ==
  \A r \in Requests :
    At(r, "done") /\ call[r].status = "final" => call[r].reply = "final"
=============================================================================
