-------------------------- MODULE TransportsProofs --------------------------
(***************************************************************************)
(* Proofs about Transports, for any topics and any bounds: each of the     *)
(* four kinds of transporter implements Transport.  The invariant says of  *)
(* each kind why nothing is taken before Connect or after Disconnect       *)
(* answered.                                                               *)
(***************************************************************************)
EXTENDS Transports, TLAPS

tvars == <<status, taken>>

\* amqp: the goroutine of Connect has no connection to consume from, or, once
\* Disconnect closed the channel, it is on its way out.
AmqpInv ==
  /\ consumers \in [Topics -> Nat]
  /\ status \in {"new", "connecting", "on", "stopping", "stopped", "broken"}
  /\ loop \in {"off", "dial", "announce", "recover", "listen", "sleep", "ended"}
  /\ closing \in {"no", "unbind", "channel", "connection"}
  /\ isConnected \in BOOLEAN
  /\ isConnected <=> status \notin {"new", "connecting"}
  /\ status = "new" <=> loop = "off"
  /\ loop = "announce" => ~isConnected
  /\ loop \in {"recover", "listen"} => isConnected
  /\ loop \in {"off", "dial", "sleep"} => ~link
  /\ closing # "no" <=> status = "stopping"
  /\ closing # "no" => disconnecting
  /\ closing = "connection" \/ status = "stopped" =>
       ~channel /\ disconnecting /\ loop \in {"recover", "listen", "ended"}
  /\ status \in {"new", "connecting", "stopped"} => \A t \in Topics : consumers[t] = 0

\* kafka: the consumers that may still take a message are those that Disconnect
\* has yet to tell.
KafkaInv ==
  /\ status \in {"new", "connecting", "failed", "on", "stopping", "stopped"}
  /\ consumer \in [Topics -> {"off", "select", "handle", "stop", "ended"}]
  /\ taken = {t \in Topics : consumer[t] = "handle"}
  /\ subscribed \in 0..Len(Order) /\ left \in Seq(Topics)
  /\ \A t \in Topics : consumer[t] # "off" => \E i \in 1..subscribed : Order[i] = t
  /\ status \in {"new", "connecting", "failed"} => subscribed = 0
  /\ status \in {"stopping", "stopped"} =>
       \A t \in Topics : consumer[t] \in {"select", "handle"} => \E i \in DOMAIN left : left[i] = t
  /\ status = "stopped" => left = <<>>

\* memory: neither the memory nor the copy of the other transporter has a
\* handler of this one.
HasNone(hs) == \A t \in Topics : <<"self", t>> \notin hs

MemoryInv ==
  /\ status \in {"new", "connecting", "on", "stopping", "stopped", "broken"}
  /\ DOMAIN copy = {"self", "peer"}
  /\ HasNone(copy["self"])
  /\ "peer" \notin copying => copy["peer"] = {}
  /\ "self" \in copying <=> status = "stopping"
  /\ status \in {"new", "connecting", "stopped"} => HasNone(handlers) /\ HasNone(copy["peer"])

\* nats and stan: the library has no connection.
NatsInv ==
  /\ status \in {"new", "connecting", "failed", "on", "stopping", "stopped", "broken"}
  /\ status \notin {"on", "stopping"} => ~up

Inv ==
  /\ kind \in Kinds
  /\ kind = "amqp" => AmqpInv
  /\ kind = "kafka" => KafkaInv
  /\ kind = "memory" => MemoryInv
  /\ kind = "nats" => NatsInv

\* Every kind starts with its invariant.
LEMMA InitInv == Init => Inv
<1> SUFFICES ASSUME Init PROVE Inv
  OBVIOUS
<1> USE DEF Init, T!Init
<1>1. AmqpInv
  BY DEF AmqpInv, Amqp!AmqpInit
<1>2. KafkaInv
  BY OrderAssumption DEF KafkaInv, Kafka!KafkaInit
<1>3. MemoryInv
  BY DEF MemoryInv, Memory!MemoryInit, Memory!Transporters, HasNone
<1>4. NatsInv
  BY DEF NatsInv, Nats!NatsInit
<1>5. QED
  BY <1>1, <1>2, <1>3, <1>4 DEF Inv

-----------------------------------------------------------------------------
(* nats *)

\* A step of nats keeps its invariant and is one of Transport.
LEMMA NatsSteps ==
  ASSUME NatsInv, Nats!NatsNext
  PROVE  NatsInv' /\ [T!Next]_tvars
<1> USE DEF NatsInv, tvars, T!Become, Nats!Become
<1>1. CASE Nats!Connect
  BY <1>1 DEF Nats!Connect, T!Next, T!Connect
<1>2. CASE Nats!Connected
  BY <1>2 DEF Nats!Connected, T!Next, T!Connected
<1>3. CASE Nats!ConnectFails
  BY <1>3 DEF Nats!ConnectFails, T!Next, T!ConnectFails
<1>4. CASE Nats!GiveUp \/ Nats!Subscribe \/ Nats!PublishFails \/ Nats!Unsubscribe
  BY <1>4 DEF Nats!GiveUp, Nats!Subscribe, Nats!PublishFails, Nats!Unsubscribe
<1>5. ASSUME NEW t \in Topics, Nats!Take(t) PROVE NatsInv' /\ [T!Next]_tvars
  BY <1>5 DEF Nats!Take, T!Next, T!Take
<1>6. ASSUME NEW t \in Topics, Nats!Handled(t) PROVE NatsInv' /\ [T!Next]_tvars
  BY <1>6 DEF Nats!Handled, T!Next, T!Handled
<1>7. CASE Nats!Disconnect
  BY <1>7 DEF Nats!Disconnect, T!Next, T!Disconnect
<1>8. CASE Nats!Close
  BY <1>8 DEF Nats!Close, T!Next, T!Disconnected, T!DisconnectFails
<1>9. QED
  BY <1>1, <1>2, <1>3, <1>4, <1>5, <1>6, <1>7, <1>8 DEF Nats!NatsNext

-----------------------------------------------------------------------------
(* memory *)

\* A step of memory keeps its invariant and is one of Transport.
LEMMA MemorySteps ==
  ASSUME MemoryInv, Memory!MemoryNext
  PROVE  MemoryInv' /\ [T!Next]_tvars
<1> USE DEF MemoryInv, HasNone, tvars, T!Become, Memory!Become
<1>1. CASE Memory!Connect
  BY <1>1 DEF Memory!Connect, T!Next, T!Connect
<1>2. CASE Memory!Connected
  BY <1>2 DEF Memory!Connected, T!Next, T!Connected
<1>3. CASE Memory!Subscribe
  BY <1>3 DEF Memory!Subscribe
<1>4. ASSUME NEW t \in Topics, Memory!PeerSubscribes(t) PROVE MemoryInv' /\ [T!Next]_tvars
  BY <1>4 DEF Memory!PeerSubscribes
<1>5. ASSUME NEW t \in Topics, Memory!Take(t) PROVE MemoryInv' /\ [T!Next]_tvars
  BY <1>5 DEF Memory!Take, T!Next, T!Take
<1>6. ASSUME NEW t \in Topics, Memory!Handled(t) PROVE MemoryInv' /\ [T!Next]_tvars
  BY <1>6 DEF Memory!Handled, T!Next, T!Handled
<1>7. CASE Memory!Disconnect
  BY <1>7 DEF Memory!Disconnect, Memory!Copy, T!Next, T!Disconnect
<1>8. CASE Memory!Disconnected
  BY <1>8 DEF Memory!Disconnected, Memory!Store, T!Next, T!Disconnected, T!DisconnectFails
<1>9. CASE Memory!PeerDisconnects
  BY <1>9 DEF Memory!PeerDisconnects, Memory!Copy
<1>10. CASE Memory!PeerDisconnected
  BY <1>10 DEF Memory!PeerDisconnected, Memory!Store
<1>11. QED
  BY <1>1, <1>2, <1>3, <1>4, <1>5, <1>6, <1>7, <1>8, <1>9, <1>10 DEF Memory!MemoryNext

-----------------------------------------------------------------------------
(* kafka *)

\* The next subscription is the first of its topic.
LEMMA FirstOfItsTopic ==
  ASSUME KafkaInv, subscribed < Len(Order)
  PROVE  /\ Order[subscribed + 1] \in Topics
         /\ consumer[Order[subscribed + 1]] = "off"
<1>1. subscribed + 1 \in DOMAIN Order /\ Order[subscribed + 1] \in Topics
  BY OrderAssumption DEF KafkaInv
<1>2. \A i \in 1..subscribed : Order[i] # Order[subscribed + 1]
  BY <1>1, OrderAssumption DEF KafkaInv
<1>3. QED
  BY <1>1, <1>2 DEF KafkaInv

\* What Disconnect has yet to tell after it told the first.
LEMMA LeftAfterTell ==
  ASSUME left \in Seq(Topics), left # <<>>
  PROVE  /\ Tail(left) \in Seq(Topics) /\ Head(left) \in Topics
         /\ \A i \in DOMAIN left :
              left[i] # Head(left) => \E j \in DOMAIN Tail(left) : Tail(left)[j] = left[i]
<1>1. Tail(left) \in Seq(Topics) /\ Head(left) \in Topics
  OBVIOUS
<1>2. ASSUME NEW i \in DOMAIN left, left[i] # Head(left)
      PROVE  \E j \in DOMAIN Tail(left) : Tail(left)[j] = left[i]
  <2>1. i # 1 /\ i - 1 \in DOMAIN Tail(left)
    BY <1>2
  <2>2. Tail(left)[i - 1] = left[i]
    BY <1>2, <2>1
  <2>3. QED
    BY <2>1, <2>2
<1>3. QED
  BY <1>1, <1>2

\* A step of kafka keeps its invariant and is one of Transport.
LEMMA KafkaSteps ==
  ASSUME KafkaInv, Kafka!KafkaNext
  PROVE  KafkaInv' /\ [T!Next]_tvars
<1> USE DEF KafkaInv, tvars, T!Become, Kafka!Become
<1>1. CASE Kafka!Connect
  BY <1>1 DEF Kafka!Connect, T!Next, T!Connect
<1>2. CASE Kafka!Connected
  BY <1>2 DEF Kafka!Connected, T!Next, T!Connected
<1>3. CASE Kafka!ConnectFails
  BY <1>3 DEF Kafka!ConnectFails, T!Next, T!ConnectFails
<1>4. CASE Kafka!Subscribe
  <2> DEFINE t == Order[subscribed + 1]
  <2>1. t \in Topics /\ consumer[t] = "off" /\ subscribed' = subscribed + 1
    BY <1>4, FirstOfItsTopic DEF Kafka!Subscribe
  <2>2. consumer' = [consumer EXCEPT ![t] = "select"] /\ UNCHANGED <<status, taken, left>>
    BY <1>4 DEF Kafka!Subscribe
  <2>3. subscribed' \in 0..Len(Order)
    BY <1>4, OrderAssumption DEF Kafka!Subscribe
  <2>4. taken' = {u \in Topics : consumer'[u] = "handle"}
    BY <2>1, <2>2
  <2>5. \A u \in Topics : consumer'[u] # "off" => \E i \in 1..subscribed' : Order[i] = u
    BY <2>1, <2>2
  <2>6. status = "on"
    BY <1>4 DEF Kafka!Subscribe
  <2>7. QED
    BY <2>1, <2>2, <2>3, <2>4, <2>5, <2>6
<1>5. ASSUME NEW t \in Topics, Kafka!Goroutines(t) PROVE KafkaInv' /\ [T!Next]_tvars
  <2>1. CASE Kafka!Fetch(t) \/ Kafka!Fetched(t) \/ Kafka!FetchFails(t) \/ Kafka!TakeError(t)
    BY <2>1 DEF Kafka!Fetch, Kafka!Fetched, Kafka!FetchFails, Kafka!TakeError, Kafka!Read
  <2>2. CASE Kafka!Stopped(t)
    BY <2>2 DEF Kafka!Stopped, Kafka!Read
  <2>3. CASE Kafka!Take(t)
    <3>1. status \in {"on", "stopping"} /\ t \notin taken
      BY <2>3 DEF Kafka!Take
    <3>2. KafkaInv'
      BY <2>3 DEF Kafka!Take, Kafka!Read
    <3>3. QED
      BY <2>3, <3>1, <3>2 DEF Kafka!Take, Kafka!Read, T!Next, T!Take
  <2>4. CASE Kafka!Handled(t)
    BY <2>4 DEF Kafka!Handled, T!Next, T!Handled
  <2>5. QED
    BY <1>5, <2>1, <2>2, <2>3, <2>4 DEF Kafka!Goroutines
<1>6. CASE Kafka!Disconnect
  BY <1>6, OrderAssumption DEF Kafka!Disconnect, T!Next, T!Disconnect
<1>7. CASE Kafka!Tell
  <2> DEFINE t == Head(left)
  <2>1. status = "stopping" /\ consumer[t] = "select" /\ UNCHANGED <<status, taken, subscribed>>
    BY <1>7 DEF Kafka!Tell
  <2>2. consumer' = [consumer EXCEPT ![t] = "stop"] /\ left' = Tail(left)
    BY <1>7 DEF Kafka!Tell
  <2>3. t \in Topics /\ left' \in Seq(Topics)
    BY <1>7, <2>2, LeftAfterTell DEF Kafka!Tell
  <2>4. ASSUME NEW u \in Topics, consumer'[u] \in {"select", "handle"}
        PROVE  \E i \in DOMAIN left' : left'[i] = u
    BY <1>7, <2>1, <2>2, <2>3, <2>4, LeftAfterTell DEF Kafka!Tell
  <2>5. taken' = {u \in Topics : consumer'[u] = "handle"}
    BY <2>1, <2>2, <2>3
  <2>6. QED
    BY <2>1, <2>2, <2>3, <2>4, <2>5
<1>8. CASE Kafka!Disconnected
  BY <1>8 DEF Kafka!Disconnected, T!Next, T!Disconnected
<1>9. QED
  BY <1>1, <1>2, <1>3, <1>4, <1>5, <1>6, <1>7, <1>8 DEF Kafka!KafkaNext

-----------------------------------------------------------------------------
(* amqp *)

\* Consume counts a consumer, and only while the channel is there.
LEMMA ConsumeCounts ==
  ASSUME NEW t, consumers \in [Topics -> Nat], Amqp!Consume(t)
  PROVE  consumers' \in [Topics -> Nat] /\ (~channel => consumers' = consumers)
<1>1. CASE channel /\ link
  <2>1. consumers' = [consumers EXCEPT ![t] = consumers[t] + 1]
    BY <1>1 DEF Amqp!Consume
  <2>2. t \in Topics => consumers[t] + 1 \in Nat
    OBVIOUS
  <2>3. consumers' \in [Topics -> Nat]
    BY <2>1, <2>2
  <2>4. QED
    BY <1>1, <2>3
<1>2. CASE ~(channel /\ link)
  BY <1>2 DEF Amqp!Consume
<1>3. QED
  BY <1>1, <1>2

\* The goroutine of Connect keeps the invariant.
LEMMA AmqpLoopSteps ==
  ASSUME AmqpInv, Amqp!AmqpLoop
  PROVE  AmqpInv' /\ [T!Next]_tvars
<1> USE DEF AmqpInv, tvars, T!Become, Amqp!Loop, Amqp!Flags, Amqp!Server, Amqp!Transit
<1>1. CASE Amqp!Dial
  BY <1>1 DEF Amqp!Dial
<1>2. CASE Amqp!DialFails
  BY <1>2 DEF Amqp!DialFails, Amqp!TryAgain
<1>3. CASE Amqp!Announce
  BY <1>3 DEF Amqp!Announce, T!Next, T!Connected
<1>4. CASE Amqp!RecoverSubscriber
  <2>1. consumers' \in [Topics -> Nat] /\ (~channel => consumers' = consumers)
    BY <1>4, ConsumeCounts DEF Amqp!RecoverSubscriber
  <2>2. isConnected
    BY <1>4 DEF Amqp!RecoverSubscriber
  <2>3. QED
    BY <1>4, <2>1, <2>2 DEF Amqp!RecoverSubscriber
<1>5. CASE Amqp!Recovered
  BY <1>5 DEF Amqp!Recovered
<1>6. CASE Amqp!Closed
  BY <1>6 DEF Amqp!Closed, Amqp!TryAgain
<1>7. CASE Amqp!Wake
  BY <1>7 DEF Amqp!Wake
<1>8. QED
  BY <1>1, <1>2, <1>3, <1>4, <1>5, <1>6, <1>7 DEF Amqp!AmqpLoop

\* The transit, the consumers and the goroutines in Publish keep it.
LEMMA AmqpTransitSteps ==
  ASSUME AmqpInv,
         \/ Amqp!Connect \/ Amqp!LinkLost \/ Amqp!SaveSubscriber \/ Amqp!SubscribeInternal
         \/ \E t \in Topics : Amqp!Take(t) \/ Amqp!Handled(t)
         \/ \E p \in DOMAIN publisher : Amqp!Publish(p) \/ Amqp!AmqpPublish(p)
  PROVE  AmqpInv' /\ [T!Next]_tvars
<1> USE DEF AmqpInv, tvars, T!Become, Amqp!Loop, Amqp!Flags, Amqp!Server, Amqp!Transit
<1>1. CASE Amqp!Connect
  BY <1>1 DEF Amqp!Connect, T!Next, T!Connect
<1>2. CASE Amqp!LinkLost
  <2>1. consumers' = [t \in Topics |-> 0]
    BY <1>2 DEF Amqp!LinkLost
  <2>2. consumers' \in [Topics -> Nat] /\ \A t \in Topics : consumers'[t] = 0
    BY <2>1
  <2>3. ~link'
    BY <1>2 DEF Amqp!LinkLost
  <2>4. UNCHANGED <<status, taken, loop, closing, isConnected, channel, disconnecting>>
    BY <1>2 DEF Amqp!LinkLost
  <2>5. QED
    BY <2>2, <2>3, <2>4
<1>3. CASE Amqp!SaveSubscriber
  BY <1>3 DEF Amqp!SaveSubscriber
<1>4. CASE Amqp!SubscribeInternal
  <2>1. consumers' \in [Topics -> Nat] /\ status = "on"
    BY <1>4, ConsumeCounts DEF Amqp!SubscribeInternal
  <2>2. QED
    BY <1>4, <2>1 DEF Amqp!SubscribeInternal
<1>5. ASSUME NEW t \in Topics, Amqp!Take(t) PROVE AmqpInv' /\ [T!Next]_tvars
  <2>1. status \in {"on", "stopping", "broken"} /\ t \notin taken
    BY <1>5 DEF Amqp!Take
  <2>2. QED
    BY <1>5, <2>1 DEF Amqp!Take, T!Next, T!Take
<1>6. ASSUME NEW t \in Topics, Amqp!Handled(t) PROVE AmqpInv' /\ [T!Next]_tvars
  BY <1>6 DEF Amqp!Handled, T!Next, T!Handled
<1>7. ASSUME NEW p, Amqp!Publish(p) \/ Amqp!AmqpPublish(p) PROVE AmqpInv' /\ [T!Next]_tvars
  BY <1>7 DEF Amqp!Publish, Amqp!AmqpPublish, Amqp!WaitForRecovering, Amqp!Put, Amqp!Goto
<1>8. QED
  BY <1>1, <1>2, <1>3, <1>4, <1>5, <1>6, <1>7

\* Disconnect keeps it.
LEMMA AmqpDisconnectSteps ==
  ASSUME AmqpInv, Amqp!Disconnect \/ Amqp!AmqpDisconnect
  PROVE  AmqpInv' /\ [T!Next]_tvars
<1> USE DEF AmqpInv, tvars, T!Become, Amqp!Loop, Amqp!Flags, Amqp!Server, Amqp!Transit
<1>1. CASE Amqp!Disconnect
  BY <1>1 DEF Amqp!Disconnect, T!Next, T!Disconnect
<1>2. CASE Amqp!Unbind
  BY <1>2 DEF Amqp!Unbind
<1>3. CASE Amqp!CloseFails
  BY <1>3 DEF Amqp!CloseFails, T!Next, T!DisconnectFails
<1>4. CASE Amqp!CloseChannel
  BY <1>4 DEF Amqp!CloseChannel
<1>5. CASE Amqp!CloseConnection
  BY <1>5 DEF Amqp!CloseConnection, T!Next, T!Disconnected
<1>6. QED
  BY <1>1, <1>2, <1>3, <1>4, <1>5 DEF Amqp!AmqpDisconnect

-----------------------------------------------------------------------------
\* A step of Transports is one of its kind, and keeps the invariant.
LEMMA NextSteps ==
  ASSUME Inv, [Next]_vars
  PROVE  Inv' /\ [T!Next]_tvars
<1> USE DEF Inv
<1>1. CASE AmqpStep
  BY <1>1, AmqpLoopSteps, AmqpTransitSteps, AmqpDisconnectSteps DEF AmqpStep, Amqp!AmqpNext, Kinds
<1>2. CASE KafkaStep
  BY <1>2, KafkaSteps DEF KafkaStep, Kinds
<1>3. CASE MemoryStep
  BY <1>3, MemorySteps DEF MemoryStep, Kinds
<1>4. CASE NatsStep
  BY <1>4, NatsSteps DEF NatsStep, Kinds
<1>5. CASE UNCHANGED vars
  BY <1>5 DEF vars, tvars, amqpOwn, kafkaOwn, memoryOwn, natsOwn, Kinds,
              AmqpInv, KafkaInv, MemoryInv, NatsInv, HasNone
<1>6. QED
  BY <1>1, <1>2, <1>3, <1>4, <1>5 DEF Next

\* The invariant of the kind holds throughout.
THEOREM TransportersAreSound == Spec => []Inv
<1>1. Inv /\ [Next]_vars => Inv'
  BY NextSteps
<1>2. QED
  BY InitInv, <1>1, PTL DEF Spec

\* Each kind of transporter (amqp, kafka, memory, nats and stan) does what the
\* transit expects, for any topics and however often its connection is lost:
\* Connect and Disconnect answer once, and the transit is handed a message only
\* in between, or after a Disconnect that failed.
THEOREM TransportersImplement == Spec => ImplementsTransport
<1>1. Init => T!Init
  BY DEF Init
<1>2. Inv /\ [Next]_vars => [T!Next]_tvars
  BY NextSteps
<1>3. QED
  BY <1>1, <1>2, TransportersAreSound, PTL DEF Spec, ImplementsTransport, T!Spec, tvars
=============================================================================
