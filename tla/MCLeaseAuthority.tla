-------------------------- MODULE MCLeaseAuthority --------------------------
(* Model values and bounds for checking LeaseAuthority with TLC.           *)
EXTENDS LeaseAuthority, TLC

CONSTANTS r1, r2, r3, t1, t2

(* Two requests of one collaboration tree and one of another.              *)
MCTree == [r \in Requests |-> IF r = r3 THEN t2 ELSE t1]
=============================================================================
