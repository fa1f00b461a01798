------------------------------ MODULE MCLBAgent ------------------------------
(* Two calls, one of them detached and perhaps without a body, over two    *)
(* runners, with two pooled buffers.                                       *)
EXTENDS LBAgent
CONSTANTS c1, c2, r1, r2
MCRunnerSeq == <<r1, r2>>
=============================================================================
