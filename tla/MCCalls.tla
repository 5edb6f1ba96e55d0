------------------------------ MODULE MCCalls -------------------------------
(* Small instances of Calls for TLC: three nodes, two callers on n1.         *)
EXTENDS Calls, TLC

CONSTANTS n1, n2, n3, r1, r2, l1, l2,
  near, hub, ping, pong, pung, moved, relay, spread, single

\* n2 no longer has moved, but n1 still asks it.
MCOffers == n1 :> {near, hub, pong} @@ n2 :> {ping, pung, relay, spread, single} @@ n3 :> {moved, spread}
MCKnown ==
  LET none == [x \in Actions |-> <<>>]
  IN  n1 :> (ping :> <<n2>> @@ relay :> <<n2>> @@ moved :> <<n2>> @@ spread :> <<n2, n3>> @@ single :> <<n2>> @@ none)
      @@ n2 :> (pong :> <<n1>> @@ moved :> <<n3>> @@ none)
      @@ n3 :> none

\* A chain n1 - n2 - n1 - n2, a handler that panics, and results that pass two nodes.
MCSubcall == hub :> spread @@ ping :> pong @@ pong :> pung @@ relay :> moved @@ [x \in Actions |-> None]
MCResult == moved :> "errorMap" @@ spread :> "panic" @@ single :> "function" @@ [x \in Actions |-> "data"]
MCSignature ==
  LET reflected(n) == [known |-> FALSE, args |-> n, returns |-> TRUE]
      template == [known |-> TRUE, args |-> 0, returns |-> TRUE]
  IN  near :> reflected(2) @@ single :> reflected(1) @@ pung :> [template EXCEPT !.returns = FALSE]
      @@ [x \in Actions |-> template]

One == [kind |-> "single", len |-> 1, valid |-> TRUE]
Two == [kind |-> "list", len |-> 2, valid |-> TRUE]
Bad == [kind |-> "list", len |-> 2, valid |-> FALSE]
To(action, params) == [action |-> action, pin |-> None, params |-> params]
Plain(call) == [node |-> n1, mcall |-> FALSE, calls |-> l1 :> call]
Many(calls) == [node |-> n1, mcall |-> TRUE, calls |-> calls]

MCScripts == {
  r1 :> Plain(To(ping, One)) @@ r2 :> Plain(To(near, Bad)),
  r1 :> Plain(To(spread, One)) @@ r2 :> Plain(To(single, One)),
  r1 :> Plain(To(hub, One)) @@ r2 :> Plain(To(single, Bad)),
  r1 :> Plain(To(relay, One)) @@ r2 :> Plain([To(spread, One) EXCEPT !.pin = n1]),
  r1 :> Plain(To(moved, One)) @@ r2 :> Many(NoCalls),
  r1 :> Many(l1 :> [To(spread, One) EXCEPT !.pin = n3] @@ l2 :> To(near, Two)) @@ r2 :> Plain(To(near, One))}
=============================================================================
