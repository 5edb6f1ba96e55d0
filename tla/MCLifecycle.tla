---------------------------- MODULE MCLifecycle -----------------------------
(* Small instances of Lifecycle for TLC: two services that need each other. *)
EXTENDS Lifecycle

CONSTANTS s1, s2, p1, p2

MCPublishedBy == s1 :> p1 @@ s2 :> p2
MCDependencies == s1 :> {s2} @@ s2 :> {s1}
=============================================================================
