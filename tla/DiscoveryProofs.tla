-------------------------- MODULE DiscoveryProofs ---------------------------
(***************************************************************************)
(* Proofs about Discovery, for any brokers, services and offers: what a    *)
(* broker is told of another is true, and services that are published late *)
(* arrive without anybody asking.                                          *)
(***************************************************************************)
EXTENDS Discovery, TLAPS

Infos(a, b) == {m \in messages : m.type = "INFO" /\ m.from = b /\ m.to = a}

\* Nobody but a broker that has emitted $broker.started speaks of itself, and who
\* knows another has not only itself for company.
Begun ==
  /\ \A b \in Brokers : announcing[b] # "none" => phase[b] = "emitted"
  /\ \A b \in brokerStarted : announcing[b] = "done"
  /\ \A b, a \in Brokers : asked[b][a] = "answering" => phase[b] = "emitted"
  /\ \A a, b \in Brokers : b \in known[a] => a # b /\ phase[a] # "off"

\* What is on its way and what has arrived is what the sender has published, and
\* all that it had at its start.
Told ==
  /\ \A b \in Brokers : early[b] \subseteq Published(b)
  /\ \A a, b \in Brokers : view[a][b] \subseteq Published(b)
  /\ \A m \in messages : m.type = "INFO" =>
       /\ phase[m.from] = "emitted"
       /\ early[m.from] \subseteq m.services
       /\ m.services \subseteq Published(m.from)
  /\ OnlyTheStarted

\* A late service that was handled has arrived, or is on its way, at all that know
\* its broker or will.
Arriving ==
  \A b \in Brokers : \A s \in late[b] :
    /\ b \in brokerStarted /\ svc[b][s] # "none"
    /\ svc[b][s] = "done" =>
         \A a \in Brokers : b \in known[a] \/ Infos(a, b) # {} =>
           s \in view[a][b] \/ \E m \in Infos(a, b) : s \in m.services

IInv == TypeOK /\ Begun /\ Told /\ Arriving

-----------------------------------------------------------------------------
(* Types *)

\* The parts of a message.
LEMMA MessageParts ==
  ASSUME NEW m \in Messages
  PROVE  /\ m.from \in Brokers /\ m.to \in Brokers /\ m.services \subseteq Services
         /\ m.type \in {"DISCOVER", "HEARTBEAT", "INFO"}
<1>1. PICK a \in Brokers, b \in Brokers : m \in Message(a, b)
  BY DEF Messages
<1>2. QED
  BY <1>1 DEF Message

\* What is sent to brokers that listen are messages, and none to the sender.
LEMMA SentOK ==
  ASSUME NEW type \in {"DISCOVER", "HEARTBEAT", "INFO"}, NEW b \in Brokers,
         NEW bs \in SUBSET Brokers, NEW offered \in SUBSET Services,
         NEW m \in Sent(type, b, bs, offered)
  PROVE  /\ m \in Messages /\ m.type = type /\ m.from = b /\ m.services = offered
         /\ m.to \in bs /\ m.to # b /\ phase[m.to] # "off"
<1>1. PICK x \in bs : /\ x # b /\ phase[x] # "off"
                      /\ m = [type |-> type, from |-> b, to |-> x, services |-> offered]
  BY DEF Sent
<1>2. m \in Message(b, x)
  BY <1>1 DEF Message
<1>3. QED
  BY <1>1, <1>2 DEF Messages

\* The other way round: who listens is sent to.
LEMMA SentAll ==
  ASSUME NEW type, NEW b, NEW bs, NEW offered, NEW a \in bs, a # b, phase[a] # "off"
  PROVE  \E m \in Sent(type, b, bs, offered) :
           m.type = type /\ m.from = b /\ m.to = a /\ m.services = offered
<1> DEFINE m == [type |-> type, from |-> b, to |-> a, services |-> offered]
<1>1. m \in Sent(type, b, bs, offered)
  BY DEF Sent
<1>2. QED
  BY <1>1

\* Messages that are sent keep the type.
LEMMA MessagesGrow ==
  ASSUME TypeOK, NEW type \in {"DISCOVER", "HEARTBEAT", "INFO"}, NEW b \in Brokers,
         NEW bs \in SUBSET Brokers, NEW offered \in SUBSET Services,
         messages' \subseteq messages \union Sent(type, b, bs, offered), phase' = phase
  PROVE  /\ messages' \subseteq Messages
         /\ \A m \in messages' : m.from # m.to /\ phase'[m.to] # "off"
<1>1. \A m \in Sent(type, b, bs, offered) : m \in Messages /\ m.from # m.to /\ phase[m.to] # "off"
  BY SentOK
<1>2. \A m \in messages : m \in Messages /\ m.from # m.to /\ phase[m.to] # "off"
  BY DEF TypeOK
<1>3. QED
  BY <1>1, <1>2

\* What a broker has published are services.
LEMMA PublishedOK == \A b \in Brokers : Published(b) \subseteq Services
BY DEF Published

\* The types.
LEMMA TypeStep == TypeOK /\ [Next]_vars => TypeOK'
<1> SUFFICES ASSUME TypeOK, [Next]_vars PROVE TypeOK'
  OBVIOUS
<1>1. ASSUME NEW b \in Brokers, Connect(b) PROVE TypeOK'
  BY <1>1 DEF Connect, TypeOK, Phases, ServiceStates, AskStates, history, registry, Go, Move,
     Published
<1>2. ASSUME NEW b \in Brokers, DiscoverNodes(b) PROVE TypeOK'
  <2>1. \A x \in Sent("DISCOVER", b, Brokers, {}) : x \in Messages /\ x.from # x.to /\ phase[x.to] # "off"
    BY SentOK
  <2>2. phase' = [phase EXCEPT ![b] = "waiting"] /\ messages' = messages \union Sent("DISCOVER", b, Brokers, {})
    BY <1>2 DEF DiscoverNodes, Go
  <2>3. \A x \in Messages : phase[x.to] # "off" => phase'[x.to] # "off"
    BY <2>2, MessageParts DEF TypeOK
  <2>4. /\ messages' \subseteq Messages
        /\ \A x \in messages' : x.from # x.to /\ phase'[x.to] # "off"
    BY <2>1, <2>2, <2>3 DEF TypeOK
  <2>5. QED
    BY <1>2, <2>4 DEF DiscoverNodes, TypeOK, Go, history, registry, Phases
<1>3. ASSUME NEW b \in Brokers, WaitForNeighbours(b) PROVE TypeOK'
  BY <1>3 DEF WaitForNeighbours, TypeOK, Phases, ServiceStates, AskStates, history, registry, Go,
     Move, Published
<1>4. ASSUME NEW b \in Brokers, Started(b) PROVE TypeOK'
  BY <1>4 DEF Started, TypeOK, Phases, ServiceStates, AskStates, history, registry, Go, Move,
     Published
<1>5. ASSUME NEW b \in Brokers, EmitBrokerStarted(b) PROVE TypeOK'
  BY <1>5 DEF EmitBrokerStarted, TypeOK, Phases, ServiceStates, AskStates, history, registry, Go,
     Move, Published
<1>6. ASSUME NEW b \in Brokers, OnBrokerStarted(b) PROVE TypeOK'
  <2>1. messages' \subseteq messages \union Sent("INFO", b, Brokers, Published(b)) /\ phase' = phase
    BY <1>6 DEF OnBrokerStarted, NodeInfo
  <2>2. /\ messages' \subseteq Messages
        /\ \A x \in messages' : x.from # x.to /\ phase'[x.to] # "off"
    BY <2>1, MessagesGrow, PublishedOK
  <2>3. QED
    BY <1>6, <2>2 DEF OnBrokerStarted, TypeOK, history, registry, Move, ServiceStates, AskStates
<1>7. ASSUME NEW b \in Brokers, SetBrokerStarted(b) PROVE TypeOK'
  BY <1>7 DEF SetBrokerStarted, TypeOK, Phases, ServiceStates, AskStates, history, registry, Go,
     Move, Published
<1>8. ASSUME NEW b \in Brokers, NEW s \in Services, NotifyServiceAdded(b, s) PROVE TypeOK'
  BY <1>8 DEF NotifyServiceAdded, TypeOK, Phases, ServiceStates, AskStates, history, registry, Go,
     Move, Published
<1>9. ASSUME NEW b \in Brokers, NEW s \in Services, DeferNotification(b, s) PROVE TypeOK'
  BY <1>9 DEF DeferNotification, TypeOK, Phases, ServiceStates, AskStates, history, registry, Go,
     Move, Published
<1>10. ASSUME NEW b \in Brokers, NEW s \in Services, OnServiceAdded(b, s) PROVE TypeOK'
  <2>1. messages' \subseteq messages \union Sent("INFO", b, Brokers, Published(b)) /\ phase' = phase
    BY <1>10 DEF OnServiceAdded, NodeInfo
  <2>2. /\ messages' \subseteq Messages
        /\ \A x \in messages' : x.from # x.to /\ phase'[x.to] # "off"
    BY <2>1, MessagesGrow, PublishedOK
  <2>3. QED
    BY <1>10, <2>2 DEF OnServiceAdded, TypeOK, history, registry, Move, ServiceStates, AskStates
<1>11. ASSUME NEW b \in Brokers, NEW a \in Brokers, DeferAnswer(b, a) PROVE TypeOK'
  BY <1>11 DEF DeferAnswer, TypeOK, Phases, ServiceStates, AskStates, history, registry, Go, Move,
     Published
<1>12. ASSUME NEW b \in Brokers, NEW a \in Brokers, Answer(b, a) PROVE TypeOK'
  <2>1. messages' \subseteq messages \union Sent("INFO", b, {a}, Published(b)) /\ phase' = phase
    BY <1>12 DEF Answer, NodeInfo
  <2>2. /\ messages' \subseteq Messages
        /\ \A x \in messages' : x.from # x.to /\ phase'[x.to] # "off"
    BY <2>1, MessagesGrow, PublishedOK
  <2>3. QED
    BY <1>12, <2>2 DEF Answer, TypeOK, history, registry, Move, ServiceStates, AskStates
<1>13. ASSUME NEW b \in Brokers, SendHeartbeat(b) PROVE TypeOK'
  <2>1. messages' \subseteq messages \union Sent("HEARTBEAT", b, {x \in Brokers : b \notin known[x]}, {}) /\ phase' = phase
    BY <1>13 DEF SendHeartbeat
  <2>2. {x \in Brokers : b \notin known[x]} \in SUBSET Brokers /\ {} \in SUBSET Services
    OBVIOUS
  <2>3. /\ messages' \subseteq Messages
        /\ \A x \in messages' : x.from # x.to /\ phase'[x.to] # "off"
    BY <2>2, <2>1, MessagesGrow
  <2>4. QED
    BY <1>13, <2>3 DEF SendHeartbeat, TypeOK, history, registry, Move, ServiceStates, AskStates
<1>14. ASSUME NEW b \in Brokers, NEW s \in Services, AddLocalService(b, s) PROVE TypeOK'
  BY <1>14 DEF AddLocalService, TypeOK, Phases, ServiceStates, AskStates, history, registry, Go,
     Move, Published
<1>15. ASSUME NEW m \in messages, DiscoverHandler(m) PROVE TypeOK'
  <2>1. m.from \in Brokers /\ m.to \in Brokers /\ m.services \subseteq Services
    BY <1>15, MessageParts DEF TypeOK
  <2>2. messages' \subseteq messages \union Sent("INFO", m.to, {m.from}, Published(m.to)) /\ phase' = phase
    BY <1>15, <2>1 DEF DiscoverHandler, NodeInfo
  <2>3. /\ messages' \subseteq Messages
        /\ \A x \in messages' : x.from # x.to /\ phase'[x.to] # "off"
    BY <2>2, MessagesGrow, PublishedOK, <2>1
  <2>4. asked' \in [Brokers -> [Brokers -> AskStates]]
    <3> DEFINE b == m.to
               a == m.from
    <3>1. b \in Brokers /\ a \in Brokers
      BY <2>1
    <3>2. PICK d \in AskStates : asked' = asked \/ asked' = [asked EXCEPT ![b][a] = d]
      <4> DEFINE d == IF asked[b][a] = "none" THEN "deferring" ELSE asked[b][a]
      <4>1. d \in AskStates
        BY <3>1 DEF TypeOK, AskStates
      <4>2. asked' = asked \/ asked' = [asked EXCEPT ![b][a] = d]
        BY <1>15 DEF DiscoverHandler
      <4>3. QED
        BY <4>1, <4>2
    <3> HIDE DEF a, b
    <3>3. asked \in [Brokers -> [Brokers -> AskStates]]
      BY DEF TypeOK
    <3>4. QED
      BY <3>1, <3>2, <3>3
  <2>5. QED
    BY <1>15, <2>1, <2>3, <2>4 DEF DiscoverHandler, TypeOK, history, registry
<1>16. ASSUME NEW m \in messages, HeartbeatMessageReceived(m) PROVE TypeOK'
  <2>1. m.from \in Brokers /\ m.to \in Brokers /\ m.services \subseteq Services
    BY <1>16, MessageParts DEF TypeOK
  <2>2. messages' \subseteq messages \union Sent("DISCOVER", m.to, {m.from}, {}) /\ phase' = phase
    BY <1>16, <2>1 DEF HeartbeatMessageReceived, NodeInfo
  <2>3. /\ messages' \subseteq Messages
        /\ \A x \in messages' : x.from # x.to /\ phase'[x.to] # "off"
    BY <2>2, MessagesGrow, <2>1
  <2>4. QED
    BY <1>16, <2>3, <2>1 DEF HeartbeatMessageReceived, TypeOK, history, registry, Move,
       ServiceStates, AskStates
<1>17. ASSUME NEW m \in messages, RemoteNodeInfoReceived(m) PROVE TypeOK'
  <2>1. m.from \in Brokers /\ m.to \in Brokers /\ m.services \subseteq Services
    BY <1>17, MessageParts DEF TypeOK
  <2>2. QED
    BY <1>17, <2>1 DEF RemoteNodeInfoReceived, TypeOK, history
<1>18. CASE UNCHANGED vars
  BY <1>18 DEF vars, TypeOK, Phases, ServiceStates, AskStates, history, registry, Go, Move,
     Published
<1>19. QED
BY <1>1, <1>2, <1>3, <1>4, <1>5, <1>6, <1>7, <1>8, <1>9, <1>10, <1>11, <1>12, <1>13, <1>14,
    <1>15, <1>16, <1>17, <1>18 DEF Next, Step, StartStep, Listener, Notify, Receive

-----------------------------------------------------------------------------
(* What a step does *)

\* Nobody unlearns anything, and nothing that is published is withdrawn.
Grows ==
  /\ \A b \in Brokers : /\ phase[b] = "emitted" => phase'[b] = "emitted" /\ early'[b] = early[b]
                        /\ phase[b] # "off" => phase'[b] # "off"
                        /\ Published(b) \subseteq Published(b)'
  /\ brokerStarted \subseteq brokerStarted'

\* An INFO says what its sender has published, which has emitted $broker.started.
InfosSent ==
  \A m \in messages' : m.type = "INFO" =>
    \/ m \in messages
    \/ m.from \in Brokers /\ phase[m.from] = "emitted" /\ m.services = Published(m.from)

\* Brokers learn from an INFO, and its receiver learns all that it says.
Learns ==
  /\ \A a, b \in Brokers :
       \/ (b \in known'[a] <=> b \in known[a]) /\ view'[a][b] = view[a][b]
       \/ \E m \in Infos(a, b) : b \in known'[a] /\ view'[a][b] = view[a][b] \union m.services
  /\ \A m \in messages : m.type = "INFO" =>
       m \in messages' \/ (m.from \in known'[m.to] /\ m.services \subseteq view'[m.to][m.from])

\* A broker forgets nothing, and no message is taken back.
LEMMA GrowsStep == TypeOK /\ [Next]_vars => Grows
<1> SUFFICES ASSUME TypeOK, [Next]_vars PROVE Grows
  OBVIOUS
<1>1. CASE UNCHANGED <<phase, early, svc, brokerStarted>>
  BY <1>1 DEF Grows, Published
<1>2. ASSUME NEW b \in Brokers, Connect(b) \/ StartStep(b) PROVE Grows
  <2>1. UNCHANGED brokerStarted
    BY <1>2 DEF Connect, StartStep, DiscoverNodes, WaitForNeighbours, Started, EmitBrokerStarted
  <2>2. \A x \in Brokers : Published(x) = Published(x)'
    <3>1. svc' = svc \/ EmitBrokerStarted(b)
      BY <1>2 DEF Connect, StartStep, DiscoverNodes, WaitForNeighbours, Started
    <3>2. ASSUME NEW x \in Brokers, NEW s \in Services, EmitBrokerStarted(b)
          PROVE  svc'[x][s] = "none" <=> svc[x][s] = "none"
      BY <3>2 DEF EmitBrokerStarted, TypeOK
    <3>3. QED
      BY <3>1, <3>2 DEF Published
  <2>3. PICK to \in {"connected", "waiting", "starting", "started", "emitted"} :
          phase[b] # "emitted" /\ phase' = [phase EXCEPT ![b] = to]
    BY <1>2 DEF Connect, StartStep, DiscoverNodes, WaitForNeighbours, Started, EmitBrokerStarted, Go
  <2>4. early' = early \/ early' = [early EXCEPT ![b] = Published(b)]
    BY <1>2 DEF Connect, StartStep, DiscoverNodes, WaitForNeighbours, Started, EmitBrokerStarted,
       history
  <2>5. QED
    BY <2>1, <2>2, <2>3, <2>4 DEF Grows, TypeOK
<1>3. ASSUME NEW b \in Brokers, SetBrokerStarted(b) PROVE Grows
  BY <1>3 DEF SetBrokerStarted, Grows, history, Published
<1>4. ASSUME NEW b \in Brokers, NEW s \in Services, Notify(b, s) \/ AddLocalService(b, s) PROVE Grows
  <2>1. UNCHANGED <<phase, early, brokerStarted>>
    BY <1>4 DEF Notify, NotifyServiceAdded, DeferNotification, OnServiceAdded, AddLocalService,
       history
  <2>2. PICK to \in ServiceStates \ {"none"} : svc' = [svc EXCEPT ![b][s] = to]
    BY <1>4 DEF Notify, NotifyServiceAdded, DeferNotification, OnServiceAdded, AddLocalService,
       Move,
       ServiceStates
  <2>3. QED
    BY <2>1, <2>2 DEF Grows, TypeOK, Published
<1>5. QED
  BY <1>1, <1>2, <1>3, <1>4 DEF Next, Step, Listener, OnBrokerStarted, DeferAnswer, Answer,
     SendHeartbeat, Receive, DiscoverHandler, HeartbeatMessageReceived, RemoteNodeInfoReceived,
     history, vars

\* An INFO is sent by a broker that begins or has begun to start.
LEMMA InfosSentStep == TypeOK /\ Begun /\ [Next]_vars => InfosSent
<1> SUFFICES ASSUME TypeOK, Begun, [Next]_vars PROVE InfosSent
  OBVIOUS
<1>1. CASE messages' \subseteq messages
  BY <1>1 DEF InfosSent
<1>2. ASSUME NEW b \in Brokers, NEW bs \in SUBSET Brokers, phase[b] = "emitted",
             messages' \subseteq messages \union NodeInfo(b, bs)
      PROVE  InfosSent
  BY <1>2, SentOK, PublishedOK DEF InfosSent, NodeInfo
<1>3. ASSUME NEW b \in Brokers, NEW bs \in SUBSET Brokers, NEW type \in {"DISCOVER", "HEARTBEAT"},
             messages' \subseteq messages \union Sent(type, b, bs, {})
      PROVE  InfosSent
  <2>1. \A m \in Sent(type, b, bs, {}) : m.type = type
    BY SentOK
  <2>2. QED
    BY <1>3, <2>1 DEF InfosSent
<1>4. \A b \in brokerStarted : phase[b] = "emitted"
  BY DEF Begun, TypeOK
<1>5. ASSUME NEW b \in Brokers, OnBrokerStarted(b) PROVE InfosSent
  BY <1>2, <1>5 DEF OnBrokerStarted, Begun
<1>6. ASSUME NEW b \in Brokers, NEW s \in Services, OnServiceAdded(b, s) PROVE InfosSent
  BY <1>1, <1>2, <1>4, <1>6 DEF OnServiceAdded
<1>7. ASSUME NEW b \in Brokers, NEW a \in Brokers, Answer(b, a) PROVE InfosSent
  BY <1>2, <1>7 DEF Answer, Begun
<1>8. ASSUME NEW b \in Brokers, DiscoverNodes(b) \/ SendHeartbeat(b) PROVE InfosSent
  BY <1>3, <1>8 DEF DiscoverNodes, SendHeartbeat
<1>9. ASSUME NEW m \in messages, Receive(m) PROVE InfosSent
  <2>1. m.from \in Brokers /\ m.to \in Brokers
    BY MessageParts DEF TypeOK
  <2>2. CASE DiscoverHandler(m)
    BY <1>1, <1>2, <1>4, <2>1, <2>2 DEF DiscoverHandler
  <2>3. CASE HeartbeatMessageReceived(m)
    BY <1>1, <1>3, <2>1, <2>3 DEF HeartbeatMessageReceived
  <2>4. CASE RemoteNodeInfoReceived(m)
    BY <1>1, <2>4 DEF RemoteNodeInfoReceived
  <2>5. QED
    BY <1>9, <2>2, <2>3, <2>4 DEF Receive
<1>10. QED
  BY <1>1, <1>5, <1>6, <1>7, <1>8, <1>9 DEF Next, Step, StartStep, Listener, Notify, Connect,
     WaitForNeighbours, Started, EmitBrokerStarted, SetBrokerStarted, NotifyServiceAdded,
     DeferNotification, DeferAnswer, AddLocalService, vars

\* What a broker learns of another is in an INFO.
LEMMA LearnsStep == TypeOK /\ [Next]_vars => Learns
<1> SUFFICES ASSUME TypeOK, [Next]_vars PROVE Learns
  OBVIOUS
<1>1. CASE registry' = registry /\ \A m \in messages \ messages' : m.type # "INFO"
  BY <1>1 DEF Learns, registry
<1>2. ASSUME NEW m \in messages, RemoteNodeInfoReceived(m) PROVE Learns
  <2>1. m.from \in Brokers /\ m.to \in Brokers /\ m.type = "INFO" /\ m \in Infos(m.to, m.from)
    BY <1>2, MessageParts DEF TypeOK, RemoteNodeInfoReceived, Infos
  <2>2. /\ m.from \in known'[m.to] /\ view'[m.to][m.from] = view[m.to][m.from] \union m.services
        /\ \A a, b \in Brokers : a # m.to \/ b # m.from =>
             (b \in known'[a] <=> b \in known[a]) /\ view'[a][b] = view[a][b]
    BY <1>2, <2>1 DEF RemoteNodeInfoReceived, TypeOK
  <2>3. messages' = messages \ {m}
    BY <1>2 DEF RemoteNodeInfoReceived
  <2>4. QED
    BY <2>1, <2>2, <2>3 DEF Learns
<1>3. QED
  BY <1>1, <1>2 DEF Next, Step, StartStep, Listener, Notify, Connect, DiscoverNodes,
     WaitForNeighbours, Started, EmitBrokerStarted, OnBrokerStarted, SetBrokerStarted,
     NotifyServiceAdded, DeferNotification, OnServiceAdded, DeferAnswer, Answer, SendHeartbeat,
     AddLocalService, Receive, DiscoverHandler, HeartbeatMessageReceived, registry, vars

-----------------------------------------------------------------------------
(* The invariant *)

\* Whoever has told of itself has begun to start.
LEMMA BegunStep == TypeOK /\ Begun /\ [Next]_vars => Begun'
<1> SUFFICES ASSUME TypeOK, Begun, [Next]_vars PROVE Begun'
  OBVIOUS
<1>1. TypeOK' /\ Grows /\ Learns
  BY TypeStep, GrowsStep, LearnsStep
<1>2. ASSUME NEW a \in Brokers, NEW b \in Brokers, b \in known'[a] PROVE a # b /\ phase'[a] # "off"
  <2>1. b \in known[a] \/ Infos(a, b) # {}
    BY <1>1, <1>2 DEF Learns
  <2>2. Infos(a, b) # {} => a # b /\ phase[a] # "off"
    BY DEF Infos, TypeOK
  <2>3. QED
    BY <1>1, <2>1, <2>2 DEF Begun, Grows
<1>3. ASSUME NEW b \in Brokers
      PROVE  /\ announcing'[b] # "none" => phase'[b] = "emitted"
             /\ b \in brokerStarted' => announcing'[b] = "done"
  <2>1. CASE announcing'[b] = announcing[b] /\ (b \in brokerStarted' => b \in brokerStarted)
    BY <1>1, <2>1 DEF Begun, Grows
  <2>2. CASE EmitBrokerStarted(b)
    BY <2>2 DEF EmitBrokerStarted, Go, Begun, TypeOK
  <2>3. CASE Listener(b)
    BY <2>3 DEF Listener, OnBrokerStarted, SetBrokerStarted, Begun, TypeOK
  <2>4. ASSUME NEW c \in Brokers, EmitBrokerStarted(c) \/ Listener(c), c # b
        PROVE  announcing'[b] = announcing[b] /\ (b \in brokerStarted' => b \in brokerStarted)
    BY <2>4 DEF EmitBrokerStarted, Listener, OnBrokerStarted, SetBrokerStarted, TypeOK
  <2>5. QED
    BY <2>1, <2>2, <2>3, <2>4 DEF Next, Step, StartStep, Notify, Connect, DiscoverNodes,
       WaitForNeighbours, Started, NotifyServiceAdded, DeferNotification, OnServiceAdded,
       DeferAnswer, Answer, SendHeartbeat, AddLocalService, Receive, DiscoverHandler,
       HeartbeatMessageReceived, RemoteNodeInfoReceived, vars
<1>4. ASSUME NEW b \in Brokers, NEW a \in Brokers, asked'[b][a] = "answering"
      PROVE  phase'[b] = "emitted"
  <2>1. CASE asked'[b][a] = asked[b][a]
    BY <1>1, <1>4, <2>1 DEF Begun, Grows
  <2>2. CASE EmitBrokerStarted(b)
    BY <2>2 DEF EmitBrokerStarted, Go, TypeOK
  <2>3. ASSUME NEW c \in Brokers, EmitBrokerStarted(c), c # b PROVE asked'[b][a] = asked[b][a]
    BY <2>3 DEF EmitBrokerStarted, TypeOK
  <2>4. ASSUME NEW c \in Brokers, NEW d \in Brokers, NEW to, to # "answering",
               asked' = [asked EXCEPT ![c][d] = to]
        PROVE  asked'[b][a] = asked[b][a]
    <3>1. asked \in [Brokers -> [Brokers -> AskStates]]
      BY DEF TypeOK
    <3>2. QED
      BY <1>4, <2>4, <3>1
  <2>5. ASSUME NEW c \in Brokers, NEW d \in Brokers, DeferAnswer(c, d) \/ Answer(c, d)
        PROVE  asked'[b][a] = asked[b][a]
    BY <2>4, <2>5 DEF DeferAnswer, Answer
  <2>6. ASSUME NEW m \in messages, DiscoverHandler(m) PROVE asked'[b][a] = asked[b][a]
    <3>1. m.from \in Brokers /\ m.to \in Brokers
      BY MessageParts DEF TypeOK
    <3>2. CASE asked[m.to][m.from] = "none"
      BY <2>4, <2>6, <3>1, <3>2 DEF DiscoverHandler
    <3>3. CASE asked[m.to][m.from] # "none"
      BY <2>6, <3>1, <3>3 DEF DiscoverHandler, TypeOK
    <3>4. QED
      BY <3>2, <3>3
  <2>7. QED
    BY <2>1, <2>2, <2>3, <2>5, <2>6 DEF Next, Step, StartStep, Listener, Notify, Connect,
       DiscoverNodes, WaitForNeighbours, Started, OnBrokerStarted, SetBrokerStarted,
       NotifyServiceAdded, DeferNotification, OnServiceAdded, SendHeartbeat, AddLocalService,
       Receive, HeartbeatMessageReceived, RemoteNodeInfoReceived, vars
<1>5. QED
  BY <1>1, <1>2, <1>3, <1>4 DEF Begun, TypeOK

\* A message tells what its sender had published.
LEMMA ToldStep == TypeOK /\ Begun /\ Told /\ [Next]_vars => Told'
<1> SUFFICES ASSUME TypeOK, Begun, Told, [Next]_vars PROVE Told'
  OBVIOUS
<1>1. TypeOK' /\ Grows /\ InfosSent /\ Learns
  BY TypeStep, GrowsStep, InfosSentStep, LearnsStep
<1>2. \A b \in Brokers : early'[b] \subseteq Published(b)'
  <2>1. ASSUME NEW b \in Brokers PROVE early'[b] = early[b] \/ early'[b] = Published(b)
    <3>1. early' = early \/ \E c \in Brokers : EmitBrokerStarted(c)
      BY DEF Next, Step, StartStep, Listener, Notify, Connect, DiscoverNodes, WaitForNeighbours,
         Started, OnBrokerStarted, SetBrokerStarted, NotifyServiceAdded, DeferNotification,
         OnServiceAdded, DeferAnswer, Answer, SendHeartbeat, AddLocalService, Receive,
         DiscoverHandler, HeartbeatMessageReceived, RemoteNodeInfoReceived, history, vars
    <3>2. QED
      BY <3>1 DEF EmitBrokerStarted, TypeOK
  <2>2. QED
    BY <1>1, <2>1 DEF Grows, Told
<1>3. \A a, b \in Brokers : \A m \in Infos(a, b) :
        /\ phase[b] = "emitted" /\ early[b] \subseteq m.services
        /\ m.services \subseteq Published(b)
  BY DEF Infos, Told
<1>4. \A a, b \in Brokers : view'[a][b] \subseteq Published(b)'
  BY <1>1, <1>3 DEF Grows, Learns, Told
<1>5. \A m \in messages' : m.type = "INFO" => /\ phase'[m.from] = "emitted"
                                              /\ early'[m.from] \subseteq m.services
                                              /\ m.services \subseteq Published(m.from)'
  <2>1. SUFFICES ASSUME NEW m \in messages', m.type = "INFO"
                 PROVE  /\ phase'[m.from] = "emitted" /\ early'[m.from] \subseteq m.services
                        /\ m.services \subseteq Published(m.from)'
    OBVIOUS
  <2>2. m.from \in Brokers
    BY <1>1, MessageParts DEF TypeOK
  <2>3. /\ phase[m.from] = "emitted" /\ early[m.from] \subseteq m.services
        /\ m.services \subseteq Published(m.from)
    BY <1>1, <2>1 DEF InfosSent, Told
  <2>4. QED
    BY <1>1, <2>2, <2>3 DEF Grows
<1>6. OnlyTheStarted'
  <2>1. SUFFICES ASSUME NEW a \in Brokers, NEW b \in known'[a]
                 PROVE  phase'[b] = "emitted" /\ early'[b] \subseteq view'[a][b]
    BY <1>1, <1>4 DEF OnlyTheStarted, TypeOK
  <2>2. b \in Brokers
    BY <1>1, <2>1 DEF TypeOK
  <2>3. CASE b \in known[a] /\ view'[a][b] = view[a][b]
    BY <1>1, <2>2, <2>3 DEF Grows, Told, OnlyTheStarted
  <2>4. CASE \E m \in Infos(a, b) : view'[a][b] = view[a][b] \union m.services
    BY <1>1, <1>3, <2>2, <2>4 DEF Grows
  <2>5. QED
    BY <1>1, <2>2, <2>3, <2>4 DEF Learns
<1>7. QED
  BY <1>2, <1>4, <1>5, <1>6 DEF Told

\* What was published late is known, on its way, or still to be sent.
LEMMA ArrivingStep == IInv /\ [Next]_vars => Arriving'
<1> SUFFICES ASSUME IInv, [Next]_vars PROVE Arriving'
  OBVIOUS
<1>1. TypeOK /\ Begun /\ Told /\ Arriving
  BY DEF IInv
<1>2. TypeOK' /\ Begun' /\ Grows /\ InfosSent /\ Learns
  BY <1>1, TypeStep, BegunStep, GrowsStep, InfosSentStep, LearnsStep
<1>3. SUFFICES ASSUME NEW b \in Brokers, NEW s \in late'[b]
               PROVE  /\ b \in brokerStarted' /\ svc'[b][s] # "none"
                      /\ svc'[b][s] = "done" =>
                           \A a \in Brokers : b \in known'[a] \/ Infos(a, b)' # {} =>
                             s \in view'[a][b] \/ \E m \in Infos(a, b)' : s \in m.services
  BY DEF Arriving
<1>4. s \in Services
  BY <1>2 DEF TypeOK
<1>5. s \notin late[b] => b \in brokerStarted' /\ svc'[b][s] = "added"
  <2>1. ASSUME NEW c \in Brokers, NEW t \in Services, AddLocalService(c, t), s \notin late[b]
        PROVE  b \in brokerStarted' /\ svc'[b][s] = "added"
    BY <1>1, <1>3, <2>1 DEF AddLocalService, Move, TypeOK
  <2>2. late' = late \/ \E c \in Brokers, t \in Services : AddLocalService(c, t)
    BY DEF Next, Step, StartStep, Listener, Notify, Connect, DiscoverNodes, WaitForNeighbours,
       Started, EmitBrokerStarted, OnBrokerStarted, SetBrokerStarted, NotifyServiceAdded,
       DeferNotification, OnServiceAdded, DeferAnswer, Answer, SendHeartbeat, Receive,
       DiscoverHandler, HeartbeatMessageReceived, RemoteNodeInfoReceived, history, vars
  <2>3. QED
    BY <1>3, <2>1, <2>2
<1>6. s \in late[b] => b \in brokerStarted' /\ svc'[b][s] # "none" /\ s \in Published(b)
  BY <1>1, <1>2, <1>4 DEF Arriving, Grows, Published
<1>7. svc'[b][s] = "done" /\ svc[b][s] # "done" => OnServiceAdded(b, s)
  <2>1. ASSUME NEW c \in Brokers, NEW t \in Services, NEW to,
               svc' = [svc EXCEPT ![c][t] = to], svc'[b][s] = "done", svc[b][s] # "done"
        PROVE  c = b /\ t = s /\ to = "done"
    <3>1. svc \in [Brokers -> [Services -> ServiceStates]]
      BY <1>1 DEF TypeOK
    <3>2. QED
      BY <1>4, <2>1, <3>1
  <2>2. ASSUME NEW c \in Brokers, NEW t \in Services, Notify(c, t) \/ AddLocalService(c, t),
               svc'[b][s] = "done", svc[b][s] # "done"
        PROVE  OnServiceAdded(b, s)
    <3>1. PICK to : svc' = [svc EXCEPT ![c][t] = to] /\ (to = "done" => OnServiceAdded(c, t))
      BY <2>2 DEF Notify, NotifyServiceAdded, DeferNotification, OnServiceAdded, AddLocalService,
         Move
    <3>2. QED
      BY <2>1, <2>2, <3>1
  <2>3. ASSUME NEW c \in Brokers, EmitBrokerStarted(c), svc'[b][s] = "done"
        PROVE  svc[b][s] = "done"
    BY <1>1, <1>4, <2>3 DEF EmitBrokerStarted, TypeOK
  <2>4. QED
    BY <2>2, <2>3 DEF Next, Step, StartStep, Listener, Connect, DiscoverNodes, WaitForNeighbours,
       Started, OnBrokerStarted, SetBrokerStarted, DeferAnswer, Answer, SendHeartbeat, Receive,
       DiscoverHandler, HeartbeatMessageReceived, RemoteNodeInfoReceived, vars
<1>8. ASSUME svc'[b][s] = "done", NEW a \in Brokers, b \in known'[a] \/ Infos(a, b)' # {}
      PROVE  s \in view'[a][b] \/ \E m \in Infos(a, b)' : s \in m.services
  <2>1. s \in late[b]
    BY <1>5, <1>8
  <2>2. CASE OnServiceAdded(b, s)
    <3>1. a # b /\ phase[a] # "off"
      <4>1. Infos(a, b)' # {} => a # b /\ phase'[a] # "off"
        BY <1>2 DEF Infos, TypeOK
      <4>2. QED
        BY <1>2, <1>8, <2>2, <4>1 DEF Begun, OnServiceAdded
    <3>2. PICK m \in NodeInfo(b, Brokers) : m.type = "INFO" /\ m.from = b /\ m.to = a
                                            /\ m.services = Published(b)
      BY <3>1, SentAll DEF NodeInfo
    <3>3. b \in brokerStarted
      BY <1>1, <2>1 DEF Arriving
    <3>4. m \in Infos(a, b)'
      BY <2>2, <3>2, <3>3 DEF OnServiceAdded, Infos
    <3>5. QED
      BY <1>6, <2>1, <3>2, <3>4
  <2>3. CASE svc[b][s] = "done"
    <3>1. CASE b \in known[a] \/ Infos(a, b) # {}
      <4>1. CASE s \in view[a][b]
        BY <1>2, <4>1 DEF Learns
      <4>2. ASSUME NEW m \in Infos(a, b), s \in m.services
            PROVE  s \in view'[a][b] \/ m \in Infos(a, b)'
        BY <1>2, <4>2 DEF Learns, Infos
      <4>3. QED
        BY <1>1, <2>1, <2>3, <3>1, <4>1, <4>2 DEF Arriving
    <3>2. CASE b \notin known[a] /\ Infos(a, b) = {}
      <4>1. PICK m \in Infos(a, b)' : m \notin messages
        BY <1>2, <1>8, <3>2 DEF Learns, Infos
      <4>2. m.services = Published(b)
        BY <1>2, <4>1 DEF InfosSent, Infos
      <4>3. QED
        BY <1>6, <2>1, <4>1, <4>2
    <3>3. QED
      BY <3>1, <3>2
  <2>4. QED
    BY <1>7, <1>8, <2>2, <2>3
<1>9. QED
  BY <1>5, <1>6, <1>8

\* The invariant holds before any broker starts.
LEMMA InitInv == Init => IInv
<1> SUFFICES ASSUME Init PROVE IInv
  OBVIOUS
<1>1. TypeOK
  BY DEF Init, TypeOK, Phases, ServiceStates, AskStates
<1>2. QED
  BY <1>1 DEF Init, IInv, Begun, Told, OnlyTheStarted, Arriving, Published

\* Every step keeps the invariant.
LEMMA NextInv == IInv /\ [Next]_vars => IInv'
BY TypeStep, BegunStep, ToldStep, ArrivingStep DEF IInv

-----------------------------------------------------------------------------
(* The theorems *)

\* The inductive invariant, for any brokers, services and offers, in whatever
\* order messages arrive and listeners run (pubsub.go:46-64, 595-640).
THEOREM Invariance == Spec => []IInv
<1>1. Init => IInv
  BY InitInv
<1>2. IInv /\ [Next]_vars => IInv'
  BY NextInv
<1>3. QED
  BY <1>1, <1>2, PTL DEF Spec

\* The types of the state.
THEOREM Types == Spec => []TypeOK
<1>1. IInv => TypeOK
  BY DEF IInv
<1>2. QED
  BY <1>1, Invariance, PTL

\* No broker is told of a service that is not published, nor of a broker whose
\* start has not come to its end, and who is told of a broker is told of all that
\* it had at its start (discoverHandler and onBrokerStarted of pubsub.go).
THEOREM ToldByTheStarted == Spec => []OnlyTheStarted
<1>1. IInv => OnlyTheStarted
  BY DEF IInv, Told
<1>2. QED
  BY <1>1, Invariance, PTL

\* A service published once brokerStarted is set reaches every broker that knows
\* its node, without anybody asking, whatever INFO overtakes another
\* (notifyServiceAdded, pubsub.go:46-64).
THEOREM LateServices == Spec => []LateServicesArrive
<1>1. IInv => LateServicesArrive
  <2>1. SUFFICES ASSUME IInv, Settled, NEW a \in Brokers, NEW b \in known[a], NEW s \in late[b]
                 PROVE  s \in view[a][b]
    BY DEF LateServicesArrive
  <2>2. TypeOK /\ Arriving /\ b \in Brokers
    BY <2>1 DEF IInv, TypeOK
  <2>3. s \in Services /\ svc[b][s] = "done"
    BY <2>1, <2>2 DEF TypeOK, Settled, Arriving
  <2>4. Infos(a, b) = {}
    BY <2>1 DEF Settled, Infos
  <2>5. QED
    BY <2>1, <2>2, <2>3, <2>4 DEF Arriving
<1>2. QED
  BY <1>1, Invariance, PTL
=============================================================================
