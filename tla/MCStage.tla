----------------------------- MODULE MCStage ------------------------------
(* Stage for TLC: one or two sources. *)
EXTENDS Stage, TLC

CONSTANTS s1, s2

OneSource == {s1}
TwoSources == {s1, s2}
Symmetry == Permutations(Sources)

OnTime == {}
LateAcks == {"ack"}
LateHandlers == {"handler"}
LateSources == {"source"}
============================================================================
