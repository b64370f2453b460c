------------------------------- MODULE MCEmit -------------------------------
(* A task with two sources, whose only target is joined by another.          *)
EXTENDS Emit

OneTarget == <<1>>
Rescaled == {<<1, 2>>}
============================================================================
