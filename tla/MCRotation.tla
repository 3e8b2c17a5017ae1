----------------------------- MODULE MCRotation -----------------------------
(* Instances of Rotation for model checking: an account whose own family   *)
(* is the one startups look at, and one registered for ChatGPT.            *)
EXTENDS Rotation, TLC

CONSTANTS a, b

MCFamily == [x \in {a, b} |-> IF x = a THEN "codex" ELSE "chatgpt"]
=============================================================================
