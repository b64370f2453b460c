----------------------------- MODULE MCGossip -----------------------------
(* Gossip for TLC: two or three hosts, a the introducer. *)
EXTENDS Gossip, TLC

CONSTANTS a, b, c

TwoHosts == {a, b}
ThreeHosts == {a, b, c}

NoHost == {}
OnlyB == {b}

\* Nobody comes back.
OneLife == [h \in Hosts |-> 1]

\* b restarts or rejoins once, a stays in its first life.
PeerRejoins == (a :> 1) @@ (b :> 2)

\* a, the introducer, does so too.
BothRejoin == (a :> 2) @@ (b :> 2)
============================================================================
