---------------------------- MODULE MCTurnTasks -----------------------------
(* TurnTasks for TLC: three turns and one request of each kind.            *)
EXTENDS TurnTasks, TLC

CONSTANTS p, m, n, o

=============================================================================
