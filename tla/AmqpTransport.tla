--------------------------- MODULE AmqpTransport ----------------------------
(***************************************************************************)
(* The amqp transporter (transit/amqp/amqp.go): the goroutine of Connect,  *)
(* which dials, connects again after a loss and subscribes again, beside   *)
(* the transit, which subscribes, publishes and disconnects.  A server is  *)
(* modelled by what the transporter sees of it: a connection comes up or   *)
(* not, and is lost; the queues keep what was published.                   *)
(***************************************************************************)
EXTENDS SequencesExt

CONSTANTS
  Topics,
  Order,         \* Seq(Topics): the subscriptions of the transit
  MaxLosses,     \* bound: losses of the connection
  MaxFailures    \* bound: failed attempts to connect

VARIABLES
  status, taken,
  reconnects,    \* ~DisableReconnect
  loop,          \* where the goroutine of Connect is
  isConnected,   \* its flag
  link,          \* whether the connection is up
  channel,       \* whether t.channel is set
  recovering, disconnecting,  \* the flags connectionRecovering, connectionDisconnecting
  subscribers,   \* t.subscribers
  todo,          \* those the recovery has yet to subscribe
  consumers,     \* [Topics -> Nat], the consumers of the connection
  subscribing,   \* how many subscriptions the transit began
  closing,       \* where the goroutine of Disconnect is
  publisher,     \* [{"app", "stop"} -> STRING], goroutines inside Publish
  late,          \* history: the first attempt to connect failed
  losses, failures

Loop == <<loop, isConnected, todo, failures, late>>
Flags == <<reconnects, recovering, disconnecting>>
Server == <<link, channel, consumers, losses>>
Transit == <<subscribers, subscribing, closing, publisher>>
amqpVars == <<status, taken, Loop, Flags, Server, Transit>>

AmqpInit ==
  /\ reconnects \in BOOLEAN /\ loop = "off" /\ isConnected = FALSE
  /\ link = FALSE /\ channel = FALSE /\ recovering = FALSE /\ disconnecting = FALSE
  /\ subscribers = <<>> /\ todo = <<>> /\ consumers = [t \in Topics |-> 0]
  /\ subscribing = 0 /\ closing = "no" /\ publisher = [p \in {"app", "stop"} |-> "idle"]
  /\ late = FALSE /\ losses = 0 /\ failures = 0

-----------------------------------------------------------------------------
(* The goroutine of Connect *)

Connect ==
  /\ status = "new"
  /\ status' = "connecting" /\ loop' = "dial"
  /\ UNCHANGED <<taken, isConnected, todo, failures, late, Flags, Server, Transit>>

Dial ==
  /\ loop = "dial"
  /\ link' = TRUE /\ channel' = TRUE
  /\ IF isConnected THEN loop' = "recover" /\ todo' = subscribers
                    ELSE loop' = "announce" /\ UNCHANGED todo
  /\ UNCHANGED <<status, taken, isConnected, failures, late, Flags, consumers, losses, Transit>>

\* It did not connect, or was closed.
TryAgain ==
  IF reconnects THEN loop' = "sleep" /\ recovering' = TRUE
                ELSE loop' = "ended" /\ UNCHANGED recovering

DialFails ==
  /\ loop = "dial" /\ failures < MaxFailures
  /\ failures' = failures + 1 /\ late' = (late \/ ~isConnected)
  /\ TryAgain
  /\ UNCHANGED <<status, taken, isConnected, todo, reconnects, disconnecting, Server, Transit>>

\* The transit is told, once; connectionRecovering stays as it is.
Announce ==
  /\ loop = "announce" /\ status = "connecting"
  /\ isConnected' = TRUE /\ status' = "on" /\ loop' = "listen"
  /\ UNCHANGED <<taken, todo, failures, late, Flags, Server, Transit>>

\* subscribeInternal: a consumer, as long as the connection is up.
Consume(t) == consumers' = IF channel /\ link THEN [consumers EXCEPT ![t] = @ + 1] ELSE consumers

\* Mutant: the subscribers are not subscribed again.
RecoverSubscriber_Skip ==
  /\ loop = "recover" /\ todo # <<>>
  /\ todo' = Tail(todo)
  /\ UNCHANGED <<status, taken, loop, isConnected, failures, late, Flags, Server, Transit>>

RecoverSubscriber ==
  /\ loop = "recover" /\ todo # <<>>
  /\ Consume(Head(todo)) /\ todo' = Tail(todo)
  /\ UNCHANGED <<status, taken, loop, isConnected, failures, late, Flags, link, channel, losses, Transit>>

\* Mutant: the flag of the recovery stays.
Recovered_StillRecovering ==
  /\ loop = "recover" /\ todo = <<>>
  /\ loop' = "listen"
  /\ UNCHANGED <<status, taken, isConnected, todo, failures, late, Flags, Server, Transit>>

Recovered ==
  /\ loop = "recover" /\ todo = <<>>
  /\ recovering' = FALSE /\ loop' = "listen"
  /\ UNCHANGED <<status, taken, isConnected, todo, failures, late, reconnects, disconnecting,
                 Server, Transit>>

LinkLost ==
  /\ link /\ losses < MaxLosses
  /\ link' = FALSE /\ consumers' = [t \in Topics |-> 0] /\ losses' = losses + 1
  /\ UNCHANGED <<status, taken, Loop, Flags, channel, Transit>>

\* NotifyClose: the connection is closed, gracefully or not.
Closed ==
  /\ loop = "listen" /\ ~link
  /\ IF disconnecting THEN loop' = "ended" /\ UNCHANGED recovering ELSE TryAgain
  /\ UNCHANGED <<status, taken, isConnected, todo, failures, late, reconnects, disconnecting,
                 Server, Transit>>

Wake ==
  /\ loop = "sleep" /\ loop' = "dial"
  /\ UNCHANGED <<status, taken, isConnected, todo, failures, late, Flags, Server, Transit>>

-----------------------------------------------------------------------------
(* Subscribe and the consumers *)

\* The subscriber is saved before it is subscribed: a recovery may come between.
SaveSubscriber ==
  /\ status = "on" /\ subscribing < Len(Order) /\ Len(subscribers) = subscribing
  /\ subscribers' = Append(subscribers, Order[subscribing + 1])
  /\ UNCHANGED <<status, taken, Loop, Flags, Server, subscribing, closing, publisher>>

SubscribeInternal ==
  /\ status = "on" /\ Len(subscribers) = subscribing + 1
  /\ Consume(Order[subscribing + 1]) /\ subscribing' = subscribing + 1
  /\ UNCHANGED <<status, taken, Loop, Flags, link, channel, losses, subscribers, closing, publisher>>

\* A consumer runs the handler, then takes the next message.
Take(t) ==
  /\ consumers[t] > 0 /\ t \notin taken
  /\ taken' = taken \union {t}
  /\ UNCHANGED <<status, Loop, Flags, Server, Transit>>

Handled(t) ==
  /\ t \in taken /\ taken' = taken \ {t}
  /\ UNCHANGED <<status, Loop, Flags, Server, Transit>>

-----------------------------------------------------------------------------
(* Publish: of the application, and of the DISCONNECT that comes before the *)
(* transit disconnects                                                      *)

Goto(p, at) ==
  /\ publisher' = [publisher EXCEPT ![p] = at]
  /\ UNCHANGED <<status, taken, Loop, Flags, Server, subscribers, subscribing, closing>>

Publish(p) ==
  /\ publisher[p] = "idle" /\ status # "new" /\ subscribing = Len(Order)
  /\ Goto(p, IF ~channel THEN "panicked" ELSE IF recovering THEN "waiting" ELSE "put")

WaitForRecovering(p) == publisher[p] = "waiting" /\ ~recovering /\ Goto(p, "put")

\* What is published on a lost connection is lost, with a warning.
Put(p) == publisher[p] = "put" /\ Goto(p, IF channel THEN "done" ELSE "panicked")

-----------------------------------------------------------------------------
(* Disconnect *)

Disconnect ==
  /\ status = "on" /\ publisher["stop"] = "done"
  /\ status' = "stopping" /\ disconnecting' = TRUE /\ closing' = "unbind"
  /\ UNCHANGED <<taken, Loop, reconnects, recovering, Server, subscribers, subscribing, publisher>>

Unbind ==
  /\ closing = "unbind"
  /\ subscribers' = <<>> /\ closing' = "channel"
  /\ UNCHANGED <<status, taken, Loop, Flags, Server, subscribing, publisher>>

\* Closing what is lost is an error: Disconnect returns it and goes no further,
\* while the goroutine of Connect goes on.
CloseFails ==
  /\ closing \in {"channel", "connection"} /\ ~link
  /\ status' = "broken" /\ closing' = "no"
  /\ UNCHANGED <<taken, Loop, Flags, Server, subscribers, subscribing, publisher>>

CloseChannel ==
  /\ closing = "channel" /\ link
  /\ channel' = FALSE /\ closing' = "connection"
  /\ UNCHANGED <<status, taken, Loop, Flags, link, consumers, losses, subscribers, subscribing, publisher>>

CloseConnection ==
  /\ closing = "connection" /\ link
  /\ link' = FALSE /\ consumers' = [t \in Topics |-> 0]
  /\ status' = "stopped" /\ closing' = "no"
  /\ UNCHANGED <<taken, Loop, Flags, channel, losses, subscribers, subscribing, publisher>>

-----------------------------------------------------------------------------
AmqpLoop ==
  \/ Dial \/ DialFails \/ Announce \/ RecoverSubscriber \/ Recovered \/ Closed \/ Wake
AmqpDisconnect == Unbind \/ CloseFails \/ CloseChannel \/ CloseConnection
AmqpPublish(p) == WaitForRecovering(p) \/ Put(p)

AmqpNext ==
  \/ Connect \/ AmqpLoop \/ LinkLost
  \/ SaveSubscriber \/ SubscribeInternal
  \/ (\E t \in Topics : Take(t) \/ Handled(t))
  \/ (\E p \in DOMAIN publisher : Publish(p) \/ AmqpPublish(p))
  \/ Disconnect \/ AmqpDisconnect

\* The loop runs, the transit subscribes, and goroutines in Publish and
\* Disconnect go on.
AmqpFairness ==
  /\ WF_amqpVars(AmqpLoop) /\ WF_amqpVars(SaveSubscriber \/ SubscribeInternal)
  /\ WF_amqpVars(AmqpDisconnect)
  /\ \A p \in {"app", "stop"} : WF_amqpVars(AmqpPublish(p))

\* Connect, Publish and Disconnect return, however often the connection is lost;
\* but where the first attempt failed Connect waits for ever without reconnects,
\* and every Publish does with them.
AmqpReturns ==
  /\ [](status = "connecting" => <>(status = "on" \/ (late /\ ~reconnects)))
  /\ [](status = "stopping" => <>(status \in {"stopped", "broken"}))
  /\ \A p \in {"app", "stop"} : []<>(publisher[p] \in {"idle", "done", "panicked"} \/ late)

\* A transporter that is connected, and reconnects, consumes all its topics again,
\* whenever it lost the connection, also while it was subscribing.
AmqpServes == <>[](status = "on" /\ reconnects => \A t \in ToSet(Order) : consumers[t] > 0)
=============================================================================
