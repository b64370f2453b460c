-------------------------------- MODULE Ring --------------------------------
(***************************************************************************)
(* The consistent-hashing ring (pkg/hashing/ring.go): the successors of a  *)
(* point h among the ids S of the Alive members. Sorting the ids, starting *)
(* at the first one not below h and wrapping around puts them in the order *)
(* Before; the code cuts that order off after n ids.                       *)
(***************************************************************************)
EXTENDS Naturals, FiniteSets

Before(h, i, j) == IF (i >= h) = (j >= h) THEN i < j ELSE i >= h

\* How many ids of S come before id.
Rank(h, S, id) == Cardinality({i \in S : Before(h, i, id)})

\* The ids GetSuccessors returns, as a set; all of S if there are fewer than n.
Successors(h, S, n) == {id \in S : Rank(h, S, id) < n}

\* ... and in ring order.
GetSuccessors(h, S, n) ==
  [k \in 1..Cardinality(Successors(h, S, n)) |-> CHOOSE id \in S : Rank(h, S, id) = k - 1]

\* successors[0], for a non-empty S.
Primary(h, S) == CHOOSE id \in S : Rank(h, S, id) = 0
============================================================================
