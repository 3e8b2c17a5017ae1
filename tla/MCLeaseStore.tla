---------------------------- MODULE MCLeaseStore ----------------------------
(* Model values and bounds for checking LeaseStore with TLC.               *)
EXTENDS LeaseStore, TLC

CONSTANTS a1, a2, p1, p2, h1, h2, codex

(* Accounts and holders are interchangeable: no definition names one.      *)
Symmetry == Permutations(Accounts) \cup Permutations(Holders)
=============================================================================
