-------------------------- MODULE MCResourceTracker --------------------------
(* ResourceTracker with three launchers on a machine of five "bytes" and    *)
(* three CPUs, a MB being two bytes: the total is not a whole number of MBs,  *)
(* two requests fit together in some combinations only, and one size is     *)
(* impossible.                                                              *)
EXTENDS ResourceTracker, TLC

=============================================================================
