--------------------------- MODULE MCRunnerStatus ---------------------------
(* Three requests, so that one may spawn, one share and one come late; the  *)
(* clock runs past an expiry.  A run is not lacking: at most one starts per *)
(* request.                                                                 *)
EXTENDS RunnerStatus
=============================================================================
