--------------------------- MODULE MCPoolManager ----------------------------
(* PoolManager for TLC: two processes on one account.                      *)
EXTENDS PoolManager, TLC

CONSTANTS p1, p2, a1
=============================================================================
