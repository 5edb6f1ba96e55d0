---------------------------- MODULE Transports ------------------------------
(***************************************************************************)
(* The transporter the transit creates (createTransport of                 *)
(* transit/pubsub/pubsub.go) is one of five kinds; each is shown to do     *)
(* what the transit expects (Transport).                                   *)
(***************************************************************************)
EXTENDS Naturals, Sequences

CONSTANTS Topics, Order, MaxLosses, MaxFailures

\* The transit subscribes each topic once.
ASSUME OrderAssumption ==
  Order \in Seq(Topics) /\ \A i, j \in DOMAIN Order : Order[i] = Order[j] => i = j

VARIABLES
  kind, status, taken,
  reconnects, loop, isConnected, link, channel, recovering, disconnecting, subscribers, todo,
  consumers, subscribing, closing, publisher, late, losses, failures,
  subscribed, reader, consumer, left,
  inMemory, handlers, copy, copying, raced,
  asked, stan, up, subscriptions, panicked

Amqp == INSTANCE AmqpTransport
Kafka == INSTANCE KafkaTransport
Memory == INSTANCE MemoryTransport
Nats == INSTANCE NatsTransport
T == INSTANCE Transport

amqpOwn ==
  <<reconnects, loop, isConnected, link, channel, recovering, disconnecting, subscribers, todo,
    consumers, subscribing, closing, publisher, late, losses, failures>>
kafkaOwn == <<subscribed, reader, consumer, left>>
memoryOwn == <<inMemory, handlers, copy, copying, raced>>
natsOwn == <<asked, stan, up, subscriptions, panicked>>
vars == <<kind, status, taken, amqpOwn, kafkaOwn, memoryOwn, natsOwn>>

\* The amqp transporter comes from a TransporterFactory; the configuration names
\* the others, and what it does not know is memory.
Kinds == {"amqp", "kafka", "memory", "nats"}

Init ==
  /\ kind \in Kinds /\ T!Init
  /\ Amqp!AmqpInit /\ Kafka!KafkaInit /\ Memory!MemoryInit /\ Nats!NatsInit
  /\ kind # "amqp" => ~reconnects
  /\ kind # "nats" => ~stan

AmqpStep == kind = "amqp" /\ Amqp!AmqpNext /\ UNCHANGED <<kind, kafkaOwn, memoryOwn, natsOwn>>
KafkaStep == kind = "kafka" /\ Kafka!KafkaNext /\ UNCHANGED <<kind, amqpOwn, memoryOwn, natsOwn>>
MemoryStep == kind = "memory" /\ Memory!MemoryNext /\ UNCHANGED <<kind, amqpOwn, kafkaOwn, natsOwn>>
NatsStep == kind = "nats" /\ Nats!NatsNext /\ UNCHANGED <<kind, amqpOwn, kafkaOwn, memoryOwn>>

Next == AmqpStep \/ KafkaStep \/ MemoryStep \/ NatsStep

Spec ==
  /\ Init /\ [][Next]_vars
  /\ kind = "amqp" => Amqp!AmqpFairness
  /\ kind = "kafka" => Kafka!KafkaFairness
  /\ kind = "memory" => Memory!MemoryFairness
  /\ kind = "nats" => Nats!NatsFairness

-----------------------------------------------------------------------------
(* Properties *)

\* Every transporter implements what the transit expects: Connect and Disconnect
\* answer once, nothing is handed to the transit before Connect answered or after
\* Disconnect answered that all went well, whatever the consumers, the recovery
\* and the other brokers were doing.
ImplementsTransport == T!Spec

\* What the transit begins comes back: Connect, Disconnect and, where a
\* connection is recovered, Publish.
OperationsReturn ==
  /\ kind = "amqp" => Amqp!AmqpReturns
  /\ kind = "kafka" => Kafka!KafkaReturns
  /\ kind = "memory" => Memory!MemoryReturns
  /\ kind = "nats" => Nats!NatsReturns

\* A transporter that stays connected ends up with every topic of the transit
\* consumed, across losses and recoveries that overlap with the subscriptions.
SubscriptionsAreServed ==
  /\ kind = "amqp" => Amqp!AmqpServes
  /\ kind = "kafka" => Kafka!KafkaServes
  /\ kind = "memory" => Memory!MemoryServes
  /\ kind = "nats" => Nats!NatsServes
=============================================================================
