--------------------------- MODULE MCEventRouting ---------------------------
(* Small instances of EventRouting for TLC. *)
EXTENDS EventRouting

CONSTANTS self, n1, n2, orders, billing, mail, g1, g2

\* Two services share a group, the third has its own.
MCGroupOf == (orders :> g1) @@ (billing :> g1) @@ (mail :> g2)
=============================================================================
