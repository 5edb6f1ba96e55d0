------------------------------ MODULE MCEmitter -----------------------------
(* Small instances of Emitter for TLC. *)
EXTENDS Emitter

CONSTANTS info1, info2, added, started, e1, e2

\* As in the program: info1 and info2 are closures of one literal, which is
\* registered with Once only.
LiteralOf == (info1 :> "discoverHandler") @@ (info2 :> "discoverHandler")
               @@ (added :> "notifyServiceAdded") @@ (started :> "onBrokerStarted")
=============================================================================
