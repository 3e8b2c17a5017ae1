--------------------------- MODULE MCRegistration ---------------------------
(* Instances of Registration for model checking.                           *)
EXTENDS Registration, TLC

CONSTANTS p, q, t
=============================================================================
