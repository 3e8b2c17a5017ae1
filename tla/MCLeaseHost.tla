---------------------------- MODULE MCLeaseHost -----------------------------
(* LeaseHost for TLC: a root and two children.             *)
EXTENDS LeaseHost, TLC

CONSTANTS root, c1, c2

=============================================================================
