--------------------------- MODULE MCTokenBucket ---------------------------
(* Small instances of TokenBucket for TLC.                                 *)
EXTENDS TokenBucket

CONSTANTS th1, th2, acc1, acc2
=============================================================================
