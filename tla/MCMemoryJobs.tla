---------------------------- MODULE MCMemoryJobs ----------------------------
(* Instances of MemoryJobs for model checking.                             *)
EXTENDS MemoryJobs, TLC

CONSTANTS t, u, v, w

WorkerSymmetry == Permutations(Workers)
=============================================================================
