----------------------------- MODULE MCDiscovery ----------------------------
(* Small instances of Discovery for TLC. *)
EXTENDS Discovery, TLC

CONSTANTS b1, b2, s1

\* One broker that offers all services, and one that offers none.
OneSided == (b1 :> Services) @@ (b2 :> {})
=============================================================================
