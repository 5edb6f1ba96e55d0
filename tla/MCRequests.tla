----------------------------- MODULE MCRequests -----------------------------
(* Small instances of Requests for TLC. *)
EXTENDS Requests, TLC

CONSTANTS c1, c2, n1, n2

CallSymmetry == Permutations(Calls) \union Permutations(Nodes)
=============================================================================
