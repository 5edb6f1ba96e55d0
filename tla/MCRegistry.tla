----------------------------- MODULE MCRegistry -----------------------------
(* Small instances of Registry for TLC. *)
EXTENDS Registry, TLC

CONSTANTS n1, n2

ActionsOnly == <<"actions">>
ActionsAndEvents == <<"actions", "events">>

NodeSymmetry == Permutations(Nodes)
=============================================================================
