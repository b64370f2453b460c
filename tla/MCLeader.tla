----------------------------- MODULE MCLeader -----------------------------
(* Leader for TLC: one source and a stage of one or two tasks. *)
EXTENDS Leader, TLC

CONSTANTS src, w1, w2

TwoWorkers == {w1, w2}
OneSource == {src}
NoSource == {}
Symmetry == Permutations(Workers)
============================================================================
