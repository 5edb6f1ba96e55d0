------------------------------ MODULE Discovery ------------------------------
(***************************************************************************)
(* How starting brokers find each other and learn of each other's          *)
(* services: Start of src/broker/main.go, AddLocalService of               *)
(* src/registry/registry.go, and DISCOVER and INFO in                      *)
(* src/transit/pubsub/pubsub.go.                                           *)
(*                                                                         *)
(* $broker.started is emitted once per start.  Its listeners run in        *)
(* goroutines of their own: onBrokerStarted broadcasts an INFO and only    *)
(* then sets brokerStarted; the one-time listeners of discoverHandler and  *)
(* notifyServiceAdded run only if they were registered before the bus took *)
(* its snapshot.  Both test whether the broker has started and register    *)
(* afterwards, without a lock.                                             *)
(*                                                                         *)
(* Brokers do not stop here, and no message to a connected broker is lost: *)
(* what happens to one broker's view then is the subject of Registry.      *)
(***************************************************************************)
EXTENDS FiniteSets

CONSTANTS
  Brokers,     \* the nodes
  Services,    \* the services
  Offers       \* [Brokers -> SUBSET Services], what each of them may publish

ASSUME OffersAssumption == Offers \in [Brokers -> SUBSET Services]

VARIABLES
  phase,          \* [Brokers -> Phases], how far Start has come
  brokerStarted,  \* the brokers whose pubsub.brokerStarted is set
  announcing,     \* [Brokers -> ...], the goroutine of onBrokerStarted
  svc,            \* [Brokers -> [Services -> ServiceStates]]
  asked,          \* [Brokers -> [Brokers -> AskStates]], the goroutine of
                  \* discoverHandler for a DISCOVER of the second broker
  early,          \* [Brokers -> SUBSET Services], published before the
                  \* emission of $broker.started (history)
  late,           \* [Brokers -> SUBSET Services], published when
                  \* brokerStarted was set (history)
  messages,       \* the messages in flight
  known,          \* [Brokers -> SUBSET Brokers], the NodeCatalog of each
  view            \* [Brokers -> [Brokers -> SUBSET Services]], the services
                  \* of the others in the ServiceCatalog of each

vars == <<phase, brokerStarted, announcing, svc, asked, early, late, messages,
          known, view>>
history == <<early, late>>
registry == <<known, view>>

\* "off", connected and subscribed, waiting for neighbours, starting the
\* services, IsStarted(), and $broker.started emitted
Phases == {"off", "connected", "waiting", "starting", "started", "emitted"}
\* AddLocalService: in localNode.services; found the broker not started;
\* registered for $broker.started; $registry.service.added emitted; handled
ServiceStates == {"none", "added", "deferring", "deferred", "notified", "done"}
AskStates == {"none", "deferring", "deferred", "answering"}

Message(a, b) == [type : {"DISCOVER", "HEARTBEAT", "INFO"}, from : {a},
                  to : {b}, services : SUBSET Services]
Messages == UNION {Message(a, b) : a \in Brokers, b \in Brokers}

TypeOK ==
  /\ phase \in [Brokers -> Phases]
  /\ brokerStarted \subseteq Brokers
  /\ announcing \in [Brokers -> {"none", "pending", "sent", "done"}]
  /\ svc \in [Brokers -> [Services -> ServiceStates]]
  /\ asked \in [Brokers -> [Brokers -> AskStates]]
  /\ early \in [Brokers -> SUBSET Services]
  /\ late \in [Brokers -> SUBSET Services]
  /\ messages \subseteq Messages
  /\ \A m \in messages : m.from # m.to /\ phase[m.to] # "off"
  /\ known \in [Brokers -> SUBSET Brokers]
  /\ view \in [Brokers -> [Brokers -> SUBSET Services]]

Init ==
  /\ phase = [b \in Brokers |-> "off"]
  /\ brokerStarted = {}
  /\ announcing = [b \in Brokers |-> "none"]
  /\ svc = [b \in Brokers |-> [s \in Services |-> "none"]]
  /\ asked = [b \in Brokers |-> [a \in Brokers |-> "none"]]
  /\ early = [b \in Brokers |-> {}]
  /\ late = [b \in Brokers |-> {}]
  /\ messages = {}
  /\ known = [b \in Brokers |-> {}]
  /\ view = [b \in Brokers |-> [a \in Brokers |-> {}]]

Published(b) == {s \in Services : svc[b][s] # "none"}

\* What Publish puts on the wire for the brokers bs: nobody else listens, and
\* a broker's own INFOs are discarded (filterMessages).
Sent(type, from, bs, services) ==
  {[type |-> type, from |-> from, to |-> b, services |-> services] :
     b \in {x \in bs : x # from /\ phase[x] # "off"}}

\* broadcastNodeInfo, to one broker or to all.
NodeInfo(b, bs) == Sent("INFO", b, bs, Published(b))

-----------------------------------------------------------------------------
(* Start.                                                                  *)

Go(b, from, to) == phase[b] = from /\ phase' = [phase EXCEPT ![b] = to]

Connect(b) ==
  /\ Go(b, "off", "connected")
  /\ UNCHANGED <<brokerStarted, announcing, svc, asked, history, messages,
                 registry>>

DiscoverNodes(b) ==
  /\ Go(b, "connected", "waiting")
  /\ messages' = messages \union Sent("DISCOVER", b, Brokers, {})
  /\ UNCHANGED <<brokerStarted, announcing, svc, asked, history, registry>>

\* waitForNeighbours ends when enough neighbours are known, or times out.
WaitForNeighbours(b) ==
  /\ Go(b, "waiting", "starting")
  /\ UNCHANGED <<brokerStarted, announcing, svc, asked, history, messages,
                 registry>>

\* broker.started = true
Started(b) ==
  /\ Go(b, "starting", "started")
  /\ UNCHANGED <<brokerStarted, announcing, svc, asked, history, messages,
                 registry>>

\* The bus takes its snapshot of the listeners of $broker.started.
EmitBrokerStarted(b) ==
  /\ Go(b, "started", "emitted")
  /\ announcing' = [announcing EXCEPT ![b] = "pending"]
  /\ svc' = [svc EXCEPT ![b] = [s \in Services |->
               IF @[s] = "deferred" THEN "notified" ELSE @[s]]]
  /\ asked' = [asked EXCEPT ![b] = [a \in Brokers |->
                 IF @[a] = "deferred" THEN "answering" ELSE @[a]]]
  /\ early' = [early EXCEPT ![b] = Published(b)]
  /\ UNCHANGED <<brokerStarted, late, messages, registry>>

\* onBrokerStarted broadcasts the node ...
OnBrokerStarted(b) ==
  /\ announcing[b] = "pending"
  /\ announcing' = [announcing EXCEPT ![b] = "sent"]
  /\ messages' = messages \union NodeInfo(b, Brokers)
  /\ UNCHANGED <<phase, brokerStarted, svc, asked, history, registry>>

\* ... and then lets the other handlers know.
SetBrokerStarted(b) ==
  /\ announcing[b] = "sent"
  /\ announcing' = [announcing EXCEPT ![b] = "done"]
  /\ brokerStarted' = brokerStarted \union {b}
  /\ UNCHANGED <<phase, svc, asked, history, messages, registry>>

-----------------------------------------------------------------------------
(* Publishing a service.                                                   *)

Move(b, s, from, to) ==
  svc[b][s] = from /\ svc' = [svc EXCEPT ![b][s] = to]

\* By Start, or by PublishServices of a broker that is starting or started.
AddLocalService(b, s) ==
  /\ s \in Offers[b] /\ phase[b] # "off"
  /\ Move(b, s, "none", "added")
  /\ late' = IF b \in brokerStarted THEN [late EXCEPT ![b] = @ \union {s}]
             ELSE late
  /\ UNCHANGED <<phase, brokerStarted, announcing, asked, early, messages,
                 registry>>

NotifyServiceAdded(b, s) ==
  /\ Move(b, s, "added", IF phase[b] \in {"started", "emitted"}
                         THEN "notified" ELSE "deferring")
  /\ UNCHANGED <<phase, brokerStarted, announcing, asked, history, messages,
                 registry>>

\* Once("$broker.started", ...); after the emission it has no effect.
DeferNotification(b, s) ==
  /\ Move(b, s, "deferring", "deferred")
  /\ UNCHANGED <<phase, brokerStarted, announcing, asked, history, messages,
                 registry>>

\* Mutant of OnServiceAdded: the other brokers are not told.
OnServiceAdded_Silent(b, s) ==
  /\ Move(b, s, "notified", "done")
  /\ UNCHANGED <<phase, brokerStarted, announcing, asked, history, messages,
                 registry>>

OnServiceAdded(b, s) ==
  /\ Move(b, s, "notified", "done")
  /\ messages' = IF b \in brokerStarted
                 THEN messages \union NodeInfo(b, Brokers) ELSE messages
  /\ UNCHANGED <<phase, brokerStarted, announcing, asked, history, registry>>

-----------------------------------------------------------------------------
(* Messages.                                                               *)

\* Mutant of DiscoverHandler: it does not wait for the start.
DiscoverHandler_AtOnce(m) ==
  /\ m.type = "DISCOVER"
  /\ messages' = (messages \ {m}) \union NodeInfo(m.to, {m.from})
  /\ UNCHANGED <<phase, brokerStarted, announcing, svc, asked, history, registry>>

\* discoverHandler answers, or finds that the broker has not started ...
DiscoverHandler(m) ==
  /\ m.type = "DISCOVER"
  /\ IF m.to \in brokerStarted
     THEN /\ messages' = (messages \ {m}) \union NodeInfo(m.to, {m.from})
          /\ UNCHANGED asked
     ELSE /\ messages' = messages \ {m}
          /\ asked' = [asked EXCEPT ![m.to][m.from] =
                         IF @ = "none" THEN "deferring" ELSE @]
  /\ UNCHANGED <<phase, brokerStarted, announcing, svc, history, registry>>

\* ... and registers for $broker.started, which may have been emitted.
DeferAnswer(b, a) ==
  /\ asked[b][a] = "deferring"
  /\ asked' = [asked EXCEPT ![b][a] = "deferred"]
  /\ UNCHANGED <<phase, brokerStarted, announcing, svc, history, messages,
                 registry>>

Answer(b, a) ==
  /\ asked[b][a] = "answering"
  /\ asked' = [asked EXCEPT ![b][a] = "none"]
  /\ messages' = messages \union NodeInfo(b, {a})
  /\ UNCHANGED <<phase, brokerStarted, announcing, svc, history, registry>>

\* The heartbeats start with the services, before the broker is started.
\* Those that reach a broker which knows the sender change nothing here.
SendHeartbeat(b) ==
  /\ phase[b] \in {"starting", "started", "emitted"}
  /\ messages' = messages \union
       Sent("HEARTBEAT", b, {a \in Brokers : b \notin known[a]}, {})
  /\ UNCHANGED <<phase, brokerStarted, announcing, svc, asked, history, registry>>

\* Mutant of HeartbeatMessageReceived: the unknown sender is not asked.
HeartbeatMessageReceived_Ignored(m) ==
  /\ m.type = "HEARTBEAT"
  /\ messages' = messages \ {m}
  /\ UNCHANGED <<phase, brokerStarted, announcing, svc, asked, history, registry>>

HeartbeatMessageReceived(m) ==
  /\ m.type = "HEARTBEAT"
  /\ messages' = (messages \ {m}) \union
       (IF m.from \in known[m.to] THEN {}
        ELSE Sent("DISCOVER", m.to, {m.from}, {}))
  /\ UNCHANGED <<phase, brokerStarted, announcing, svc, asked, history, registry>>

\* remoteNodeInfoReceived adds what is new, and takes nothing away.
RemoteNodeInfoReceived(m) ==
  /\ m.type = "INFO"
  /\ messages' = messages \ {m}
  /\ known' = [known EXCEPT ![m.to] = @ \union {m.from}]
  /\ view' = [view EXCEPT ![m.to][m.from] = @ \union m.services]
  /\ UNCHANGED <<phase, brokerStarted, announcing, svc, asked, history>>

-----------------------------------------------------------------------------
Receive(m) == \/ DiscoverHandler(m) \/ HeartbeatMessageReceived(m)
              \/ RemoteNodeInfoReceived(m)
StartStep(b) == \/ DiscoverNodes(b) \/ WaitForNeighbours(b) \/ Started(b)
                \/ EmitBrokerStarted(b)
Listener(b) == OnBrokerStarted(b) \/ SetBrokerStarted(b)
Notify(b, s) == \/ NotifyServiceAdded(b, s) \/ DeferNotification(b, s)
                \/ OnServiceAdded(b, s)

\* The goroutines of a broker that has connected, heartbeats apart.
Step(b) ==
  \/ StartStep(b) \/ Listener(b)
  \/ \E s \in Services : Notify(b, s)
  \/ \E a \in Brokers : DeferAnswer(b, a) \/ Answer(b, a)

Next ==
  \/ \E b \in Brokers : Connect(b) \/ Step(b) \/ SendHeartbeat(b)
  \/ \E b \in Brokers, s \in Services : AddLocalService(b, s)
  \/ \E m \in messages : Receive(m)

\* A broker that was told to start goes on and its goroutines run: all of them
\* take only so many steps altogether (after the emission nothing is answered
\* twice), so that none can keep another from running.  Hearts beat, and
\* messages arrive.
Fairness ==
  /\ WF_vars(\E b \in Brokers : Step(b))
  /\ \A b \in Brokers : WF_vars(SendHeartbeat(b))
  /\ \A b \in Brokers : \A a \in Brokers \ {b} :
       \A t \in {"DISCOVER", "HEARTBEAT", "INFO"} :
         WF_vars(\E m \in messages :
                   m.type = t /\ m.from = a /\ m.to = b /\ Receive(m))

Spec == Init /\ [][Next]_vars /\ Fairness

-----------------------------------------------------------------------------
(* Properties.                                                             *)

\* No broker is told of a service that is not published, nor of a broker
\* whose start has not come to its end, and who is told of a broker is told of all
\* that it had at its start.
OnlyTheStarted ==
  \A a \in Brokers : \A b \in known[a] :
    phase[b] = "emitted" /\ early[b] \subseteq view[a][b] /\ view[a][b] \subseteq Published(b)

\* Brokers that run come to know each other, whichever of them starts first:
\* also when a DISCOVER is deferred to an event that has just been emitted and
\* is never answered (pubsub.go:607-610), because the heartbeats ask again.
BrokersMeet ==
  (\A b \in Brokers : phase[b] # "off")
    ~> \A b \in Brokers : Brokers \ {b} \subseteq known[b]

\* Nothing but heartbeats is under way.
Settled ==
  /\ \A m \in messages : m.type = "HEARTBEAT"
  /\ \A b \in Brokers :
       /\ announcing[b] \in {"none", "done"}
       /\ \A s \in Services : svc[b][s] \in {"none", "done"}
       /\ \A a \in Brokers : asked[b][a] \notin {"deferring", "answering"}

\* A service published once brokerStarted is set is announced to every broker
\* that knows its node, without anybody asking (pubsub.go:46-64), whatever
\* INFO overtakes another.
LateServicesArrive ==
  Settled => \A a \in Brokers : \A b \in known[a] : late[b] \subseteq view[a][b]

\* "When a node/service/actions starts, it will announce it's presence ...
\* and that will be saved in the registry" (registry/README.md:3): brokers
\* that know each other know each other's services in the end.
ServicesAreAnnounced ==
  Settled => \A a \in Brokers : \A b \in known[a] : view[a][b] = Published(b)
=============================================================================
