--------------------------- MODULE NatsTransport ----------------------------
(***************************************************************************)
(* The nats and stan transporters (transit/nats/nats.go, stan.go).  The    *)
(* client library runs the handler of a subscription for one message after *)
(* the other, and may give the connection up without a word.               *)
(***************************************************************************)
EXTENDS SequencesExt

CONSTANTS Topics, Order

VARIABLES
  status, taken,
  asked,          \* how many subscriptions the transit asked for
  stan,           \* which of the two it is
  up,             \* whether the library still has the connection
  subscriptions,  \* those of the connection
  panicked        \* a panic nobody recovers from

natsVars == <<status, taken, asked, stan, up, subscriptions, panicked>>

NatsInit == asked = 0 /\ stan \in BOOLEAN /\ up = FALSE /\ subscriptions = {} /\ panicked = FALSE

Become(from, to) ==
  /\ status = from /\ status' = to
  /\ UNCHANGED <<taken, asked, stan, panicked>>

Connect == Become("new", "connecting") /\ UNCHANGED <<up, subscriptions>>
Connected == Become("connecting", "on") /\ up' = TRUE /\ UNCHANGED subscriptions
ConnectFails == Become("connecting", "failed") /\ UNCHANGED <<up, subscriptions>>

\* No reconnects, or one too many.
GiveUp ==
  /\ up /\ up' = FALSE
  /\ UNCHANGED <<status, taken, asked, stan, subscriptions, panicked>>

\* A subscription that is refused is logged by nats; stan panics.
Subscribe ==
  /\ status = "on" /\ asked < Len(Order)
  /\ subscriptions' = subscriptions \union (IF up THEN {Order[asked + 1]} ELSE {})
  /\ asked' = asked + 1 /\ panicked' = (stan /\ ~up)
  /\ UNCHANGED <<status, taken, stan, up>>

\* A message that cannot be published is a panic, in the goroutine of the
\* heartbeat too.
PublishFails ==
  /\ status # "new" /\ asked = Len(Order) /\ ~up /\ panicked' = TRUE
  /\ UNCHANGED <<status, taken, asked, stan, up, subscriptions>>

Take(t) ==
  /\ up /\ t \in subscriptions /\ t \notin taken
  /\ taken' = taken \union {t}
  /\ UNCHANGED <<status, asked, stan, up, subscriptions, panicked>>

Handled(t) ==
  /\ t \in taken /\ taken' = taken \ {t}
  /\ UNCHANGED <<status, asked, stan, up, subscriptions, panicked>>

Disconnect == asked = Len(Order) /\ Become("on", "stopping") /\ UNCHANGED <<up, subscriptions>>

Unsubscribe ==
  /\ status = "stopping"
  /\ \E t \in subscriptions : subscriptions' = subscriptions \ {t}
  /\ UNCHANGED <<status, taken, asked, stan, up, panicked>>

\* nats closes what it has; stan answers with the error of a connection it lost.
Close ==
  /\ subscriptions = {} /\ Become("stopping", IF stan /\ ~up THEN "broken" ELSE "stopped")
  /\ up' = FALSE /\ UNCHANGED subscriptions

NatsNext ==
  /\ ~panicked
  /\ \/ Connect \/ Connected \/ ConnectFails \/ GiveUp \/ Subscribe \/ PublishFails
     \/ (\E t \in Topics : Take(t) \/ Handled(t))
     \/ Disconnect \/ Unsubscribe \/ Close

NatsFairness ==
  /\ WF_natsVars(~panicked /\ (Connected \/ ConnectFails)) /\ WF_natsVars(~panicked /\ Subscribe)
  /\ WF_natsVars(~panicked /\ (Unsubscribe \/ Close))

\* Connect and Disconnect answer, unless the process ends.
NatsReturns ==
  /\ [](status = "connecting" => <>(status \in {"on", "failed"}))
  /\ [](status = "stopping" => <>(panicked \/ status \in {"stopped", "broken"}))

\* Every topic is subscribed, as long as the library keeps the connection.
NatsServes == <>[](status = "on" /\ up => \A t \in ToSet(Order) : t \in subscriptions)
=============================================================================
