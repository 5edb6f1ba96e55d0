--------------------------- MODULE KafkaTransport ---------------------------
(***************************************************************************)
(* The kafka transporter (transit/kafka/kafka.go).  Every subscription has *)
(* two goroutines: one reads the topic, the other, the consumer, runs the  *)
(* handler; they and Disconnect meet on unbuffered channels.               *)
(***************************************************************************)
EXTENDS SequencesExt

CONSTANTS Topics, Order

VARIABLES
  status, taken,
  subscribed,   \* how many subscriptions the transit made
  reader,       \* [Topics -> STRING], where the goroutine that reads is
  consumer,     \* [Topics -> STRING], where the consumer is
  left          \* the subscriptions Disconnect has yet to tell

kafkaVars == <<status, taken, subscribed, reader, consumer, left>>

KafkaInit ==
  /\ subscribed = 0 /\ left = <<>>
  /\ reader = [t \in Topics |-> "off"] /\ consumer = [t \in Topics |-> "off"]

Become(from, to) ==
  /\ status = from /\ status' = to
  /\ UNCHANGED <<taken, subscribed, reader, consumer>>

Connect == Become("new", "connecting") /\ UNCHANGED left
Connected == Become("connecting", "on") /\ UNCHANGED left
ConnectFails == Become("connecting", "failed") /\ UNCHANGED left

Subscribe ==
  /\ status = "on" /\ subscribed < Len(Order)
  /\ LET t == Order[subscribed + 1]
     IN /\ reader' = [reader EXCEPT ![t] = "top"]
        /\ consumer' = [consumer EXCEPT ![t] = "select"]
  /\ subscribed' = subscribed + 1
  /\ UNCHANGED <<status, taken, left>>

-----------------------------------------------------------------------------
Read(t, from, to) ==
  /\ reader[t] = from /\ reader' = [reader EXCEPT ![t] = to]
  /\ UNCHANGED <<status, subscribed, left>>

\* It stops only where it finds the consumer waiting to stop it, which closes
\* the reader then; otherwise it fetches.
Stopped(t) ==
  /\ consumer[t] = "stop" /\ consumer' = [consumer EXCEPT ![t] = "ended"]
  /\ Read(t, "top", "ended") /\ UNCHANGED taken
Fetch(t) == consumer[t] # "stop" /\ Read(t, "top", "fetch") /\ UNCHANGED <<taken, consumer>>
Fetched(t) == Read(t, "fetch", "send") /\ UNCHANGED <<taken, consumer>>
FetchFails(t) == Read(t, "fetch", "error") /\ UNCHANGED <<taken, consumer>>

\* What it has it hands to a consumer that listens, and blocks on until then.
Take(t) ==
  /\ consumer[t] = "select" /\ consumer' = [consumer EXCEPT ![t] = "handle"]
  /\ Read(t, "send", "top") /\ taken' = taken \union {t}
TakeError(t) == consumer[t] = "select" /\ Read(t, "error", "top") /\ UNCHANGED <<taken, consumer>>

Handled(t) ==
  /\ consumer[t] = "handle" /\ consumer' = [consumer EXCEPT ![t] = "select"]
  /\ taken' = taken \ {t} /\ UNCHANGED <<status, subscribed, reader, left>>

-----------------------------------------------------------------------------
Disconnect == subscribed = Len(Order) /\ Become("on", "stopping") /\ left' = Order

\* Mutant: a consumer that runs a handler is not waited for.
Tell_NoWait ==
  /\ status = "stopping" /\ left # <<>>
  /\ consumer' = [consumer EXCEPT ![Head(left)] = IF @ = "select" THEN "stop" ELSE @]
  /\ left' = Tail(left) /\ UNCHANGED <<status, taken, subscribed, reader>>

\* The consumers are told in turn, each as soon as its handler is done.
Tell ==
  /\ status = "stopping" /\ left # <<>> /\ consumer[Head(left)] = "select"
  /\ consumer' = [consumer EXCEPT ![Head(left)] = "stop"]
  /\ left' = Tail(left) /\ UNCHANGED <<status, taken, subscribed, reader>>

Disconnected == left = <<>> /\ Become("stopping", "stopped") /\ UNCHANGED left

Goroutines(t) ==
  \/ Stopped(t) \/ Fetch(t) \/ Fetched(t) \/ FetchFails(t) \/ Take(t) \/ TakeError(t) \/ Handled(t)

KafkaNext ==
  \/ Connect \/ Connected \/ ConnectFails \/ Subscribe
  \/ (\E t \in Topics : Goroutines(t))
  \/ Disconnect \/ Tell \/ Disconnected

\* Handlers return, and a consumer that may be told is not passed over for ever
\* for its messages: a select takes one of the cases that are ready at random.
KafkaFairness ==
  /\ WF_kafkaVars(Connected \/ ConnectFails) /\ WF_kafkaVars(Subscribe)
  /\ SF_kafkaVars(Tell) /\ WF_kafkaVars(Disconnected)
  /\ \A t \in Topics : WF_kafkaVars(Handled(t))

\* Connect and Disconnect answer.
KafkaReturns ==
  /\ [](status = "connecting" => <>(status \in {"on", "failed"}))
  /\ [](status = "stopping" => <>(status = "stopped"))

\* Every topic keeps its consumer.
KafkaServes == <>[](status = "on" => \A t \in ToSet(Order) : consumer[t] \in {"select", "handle"})
=============================================================================
