--------------------------- MODULE MCMemberList ---------------------------
(* MemberList for TLC; ids are interchangeable. *)
EXTENDS MemberList

Symmetry == Permutations(ID)
============================================================================
