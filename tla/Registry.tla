------------------------------ MODULE Registry ------------------------------
(***************************************************************************)
(* What one broker knows of the remote nodes: src/registry/registry.go     *)
(* with its catalogs of nodes, services, actions and events.               *)
(*                                                                         *)
(* Every INFO, HEARTBEAT and DISCONNECT is handled by a goroutine of its   *)
(* own (pubsub.go:617, emitter.go:184), and checkExpiredRemoteNodes runs   *)
(* in another.  INFO handlers exclude each other (nodeReceivedMutex), but  *)
(* disconnectNode takes no lock, and the catalogs are changed by a load    *)
(* and a later store of the whole list kept under a name.                  *)
(*                                                                         *)
(* Each remote node offers one service, the same on all nodes, with one    *)
(* action and one event: the entries of a catalog are then one list, and   *)
(* the list is the set of the nodes that have an entry in it.              *)
(***************************************************************************)
EXTENDS Naturals, Sequences, FiniteSets

CONSTANTS
  Nodes,        \* the remote nodes
  Catalogs,     \* the catalogs of endpoints, in the order they are updated
  MaxInfos,     \* bound: INFO messages of a node in flight
  MaxRunning    \* bound: handlers that run at the same time

ASSUME CatalogsAssumption ==
  /\ Catalogs \in Seq({"actions", "events"})
  /\ Len(Catalogs) > 0
ASSUME BoundsAssumption == MaxInfos \in Nat \ {0} /\ MaxRunning \in Nat \ {0}

VARIABLES
  up,           \* the remote nodes that run
  infos,        \* [Nodes -> Nat], INFO messages in flight, by sender
  beats,        \* the nodes with a HEARTBEAT in flight
  disconnects,  \* the nodes with a DISCONNECT in flight
  discovers,    \* the nodes that a DISCOVER is in flight to
  node,         \* [Nodes -> ...], the NodeCatalog
  stale,        \* nodes whose lastHeartBeatTime is older than the timeout
  services,     \* nodes with an entry in the ServiceCatalog
  entries,      \* for each position of Catalogs, the nodes with an entry
  info,         \* the goroutine in remoteNodeInfoReceived
  disc,         \* [{"message", "loop"} -> ...], goroutines in disconnectNode
  beat,         \* the node whose HeartBeat was found available, if any
  expired,      \* what expiredNodes() returned and the loop has yet to visit
  news,         \* $node events that were emitted, and not yet handled
  neighbours    \* the keys of pubsub.knownNeighbours

remote   == <<up, discovers>>
wire     == <<infos, beats, disconnects>>
catalogs == <<services, entries>>
neighbourhood == <<news, neighbours>>
threads  == <<info, disc, beat, expired>>
vars == <<up, infos, beats, disconnects, discovers, node, stale, services,
          entries, info, disc, beat, expired, neighbourhood>>

NoNode == "none"
Positions == 1..Len(Catalogs)
Workers == {"message", "loop"}

\* A goroutine in the middle of a handler: the step it is at, the node it is
\* about, the catalog it is updating and the list it loaded from it.
Steps == {"idle", "services", "load", "store", "last"}
Thread == [at : Steps, of : Nodes \union {NoNode}, k : Nat,
           copy : SUBSET Nodes]
Idle == [at |-> "idle", of |-> NoNode, k |-> 1, copy |-> {}]
Begin(n) == [Idle EXCEPT !.at = "services", !.of = n]

\* The next catalog, or the last step when there is none.
Advance(t) ==
  IF t.k < Len(Catalogs) THEN [t EXCEPT !.at = "load", !.k = t.k + 1, !.copy = {}]
  ELSE [t EXCEPT !.at = "last", !.copy = {}]

\* Listeners run in goroutines of their own, in no order.
Event == [name : {"$node.connected", "$node.disconnected"}, of : Nodes]
Emitted(name, n) == [name |-> name, of |-> n]

TypeOK ==
  /\ up \subseteq Nodes
  /\ infos \in [Nodes -> 0..MaxInfos]
  /\ beats \subseteq Nodes
  /\ disconnects \subseteq Nodes
  /\ discovers \subseteq Nodes
  /\ node \in [Nodes -> {"unknown", "available", "unavailable"}]
  /\ stale \subseteq Nodes
  /\ services \subseteq Nodes
  /\ entries \in [Positions -> SUBSET Nodes]
  /\ info \in [known : BOOLEAN, t : Thread]
  /\ disc \in [Workers -> Thread]
  /\ beat \in Nodes \union {NoNode}
  /\ expired \subseteq Nodes
  /\ news \subseteq Event
  /\ neighbours \subseteq Nodes
  /\ info.t.k \in Positions /\ \A w \in Workers : disc[w].k \in Positions

Init ==
  /\ up = {}
  /\ infos = [n \in Nodes |-> 0]
  /\ beats = {}
  /\ disconnects = {}
  /\ discovers = {}
  /\ node = [n \in Nodes |-> "unknown"]
  /\ stale = {}
  /\ services = {}
  /\ entries = [k \in Positions |-> {}]
  /\ info = [known |-> FALSE, t |-> Idle]
  /\ disc = [w \in Workers |-> Idle]
  /\ beat = NoNode
  /\ expired = {}
  /\ news = {}
  /\ neighbours = {}

\* The goroutines that are in the middle of a handler, or about to handle a
\* $node event.
Running ==
  Cardinality({w \in Workers : disc[w].at # "idle"})
    + (IF info.t.at # "idle" THEN 1 ELSE 0)
    + (IF beat # NoNode THEN 1 ELSE 0)
    + Cardinality(news)
MayStart == Running < MaxRunning

-----------------------------------------------------------------------------
(* The remote nodes, seen from here.                                       *)

\* A node starts: onBrokerStarted broadcasts its INFO.
Boot(n) ==
  /\ n \notin up
  /\ infos[n] < MaxInfos
  /\ up' = up \union {n}
  /\ infos' = [infos EXCEPT ![n] = @ + 1]
  /\ UNCHANGED <<beats, disconnects, discovers, node, stale, catalogs,
                 threads, neighbourhood>>

Crash(n) ==
  /\ n \in up
  /\ up' = up \ {n}
  /\ UNCHANGED <<wire, discovers, node, stale, catalogs, threads,
                 neighbourhood>>

\* A node stops: sendDisconnect, then its transport is gone.
StopRemote(n) ==
  /\ n \in up
  /\ up' = up \ {n}
  /\ disconnects' = disconnects \union {n}
  /\ UNCHANGED <<infos, beats, discovers, node, stale, catalogs, threads,
                 neighbourhood>>

SendHeartbeat(n) ==
  /\ n \in up
  /\ n \notin beats
  /\ beats' = beats \union {n}
  /\ UNCHANGED <<infos, disconnects, remote, node, stale, catalogs, threads,
                 neighbourhood>>

\* discoverHandler of the remote node.
DiscoverHandler(n) ==
  /\ n \in discovers \intersect up
  /\ infos[n] < MaxInfos
  /\ discovers' = discovers \ {n}
  /\ infos' = [infos EXCEPT ![n] = @ + 1]
  /\ UNCHANGED <<up, beats, disconnects, node, stale, catalogs, threads,
                 neighbourhood>>

\* heartbeatTimeout passes without a word from an available node.
HeartbeatTimeout(n) ==
  /\ node[n] = "available"
  /\ n \notin stale
  /\ stale' = stale \union {n}
  /\ UNCHANGED <<wire, remote, node, catalogs, threads, neighbourhood>>

-----------------------------------------------------------------------------
(* remoteNodeInfoReceived, under nodeReceivedMutex.                        *)

\* nodes.Info: the node is available from the first step on.
InfoReceived(n) ==
  /\ infos[n] > 0
  /\ info.t.at = "idle"
  /\ MayStart
  /\ infos' = [infos EXCEPT ![n] = @ - 1]
  /\ node' = [node EXCEPT ![n] = "available"]
  /\ stale' = stale \ {n}
  /\ info' = [known |-> node[n] # "unknown", t |-> Begin(n)]
  /\ UNCHANGED <<beats, disconnects, remote, catalogs, disc, beat, expired,
                 neighbourhood>>

\* updateRemote: only a service that is not in the catalog brings new
\* actions and events; one that is there already has them, it assumes.
UpdateRemote ==
  /\ info.t.at = "services"
  /\ services' = services \union {info.t.of}
  /\ info' = [info EXCEPT !.t.at = IF info.t.of \in services
                                   THEN "last" ELSE "load"]
  /\ UNCHANGED <<wire, remote, node, stale, entries, disc, beat, expired,
                 neighbourhood>>

\* ActionCatalog.Add, EventCatalog.Add: load the list ...
AddLoad ==
  /\ info.t.at = "load"
  /\ info' = [info EXCEPT !.t.at = "store", !.t.copy = entries[info.t.k]]
  /\ UNCHANGED <<wire, remote, node, stale, catalogs, disc, beat, expired,
                 neighbourhood>>

\* ... and store it with one entry more.
AddStore ==
  /\ info.t.at = "store"
  /\ entries' = [entries EXCEPT ![info.t.k] = info.t.copy \union {info.t.of}]
  /\ info' = [info EXCEPT !.t = Advance(info.t)]
  /\ UNCHANGED <<wire, remote, node, stale, services, disc, beat, expired,
                 neighbourhood>>

\* $node.connected for a node that was unknown.  A node that comes back is
\* reported as updated, as it exists in the catalog: the branch that emits
\* $node.reconnected is not reached.  Nothing listens to either of these two.
InfoDone ==
  /\ info.t.at = "last"
  /\ news' = IF info.known THEN news
             ELSE news \union {Emitted("$node.connected", info.t.of)}
  /\ info' = [known |-> FALSE, t |-> Idle]
  /\ UNCHANGED <<wire, remote, node, stale, catalogs, disc, beat, expired,
                 neighbours>>

-----------------------------------------------------------------------------
(* heartbeatMessageReceived.                                               *)

\* nodes.HeartBeat finds the node and checks that it is available ...
HeartbeatReceived(n) ==
  /\ n \in beats
  /\ node[n] = "available"
  /\ beat = NoNode
  /\ MayStart
  /\ beats' = beats \ {n}
  /\ beat' = n
  /\ UNCHANGED <<infos, disconnects, remote, node, stale, catalogs, info,
                 disc, expired, neighbourhood>>

\* ... and node.HeartBeat marks it, whatever happened in between.
HeartBeat ==
  /\ beat # NoNode
  /\ node' = [node EXCEPT ![beat] = "available"]
  /\ stale' = stale \ {beat}
  /\ beat' = NoNode
  /\ UNCHANGED <<wire, remote, catalogs, info, disc, expired, neighbourhood>>

\* Mutant of DiscoverNode: the heartbeat is ignored.
DiscoverNode_Ignored(n) ==
  /\ n \in beats
  /\ node[n] # "available"
  /\ MayStart
  /\ beats' = beats \ {n}
  /\ UNCHANGED <<infos, disconnects, remote, node, stale, catalogs, threads,
                 neighbourhood>>

\* The heartbeat of a node that is unknown or unavailable: ask it for INFO.
DiscoverNode(n) ==
  /\ n \in beats
  /\ node[n] # "available"
  /\ MayStart
  /\ beats' = beats \ {n}
  /\ discovers' = discovers \union {n}
  /\ UNCHANGED <<infos, disconnects, up, node, stale, catalogs, threads,
                 neighbourhood>>

-----------------------------------------------------------------------------
(* disconnectNode, in the goroutine of a DISCONNECT or of the loop that    *)
(* checks the heartbeats.                                                  *)

DisconnectReceived(n) ==
  /\ n \in disconnects
  /\ disc["message"].at = "idle"
  /\ MayStart
  /\ disconnects' = disconnects \ {n}
  /\ disc' = IF node[n] = "unknown" THEN disc
             ELSE [disc EXCEPT !["message"] = Begin(n)]
  /\ UNCHANGED <<infos, beats, remote, node, stale, catalogs, info, beat,
                 expired, neighbourhood>>

\* checkExpiredRemoteNodes collects the nodes first ...
CheckExpired ==
  /\ disc["loop"].at = "idle"
  /\ expired = {}
  /\ MayStart
  /\ expired' = {n \in stale : node[n] = "available"}
  /\ expired' # {}
  /\ UNCHANGED <<wire, remote, node, stale, catalogs, info, disc, beat,
                 neighbourhood>>

\* ... and disconnects them one after the other, heard from again or not.
DisconnectExpired(n) ==
  /\ n \in expired
  /\ disc["loop"].at = "idle"
  /\ MayStart
  /\ expired' = expired \ {n}
  /\ disc' = [disc EXCEPT !["loop"] = Begin(n)]
  /\ UNCHANGED <<wire, remote, node, stale, catalogs, info, beat,
                 neighbourhood>>

\* Mutant of RemoveServices: the endpoints of the services are forgotten.
RemoveServices_Only(w) ==
  /\ disc[w].at = "services"
  /\ services' = services \ {disc[w].of}
  /\ disc' = [disc EXCEPT ![w].at = "last"]
  /\ UNCHANGED <<wire, remote, node, stale, entries, info, beat, expired,
                 neighbourhood>>

\* services.RemoveByNode
RemoveServices(w) ==
  /\ disc[w].at = "services"
  /\ services' = services \ {disc[w].of}
  /\ disc' = [disc EXCEPT ![w].at = "load"]
  /\ UNCHANGED <<wire, remote, node, stale, entries, info, beat, expired,
                 neighbourhood>>

\* actions.RemoveByNode, events.RemoveByNode: Range hands over each list ...
RemoveLoad(w) ==
  /\ disc[w].at = "load"
  /\ disc' = [disc EXCEPT ![w].at = "store", ![w].copy = entries[disc[w].k]]
  /\ UNCHANGED <<wire, remote, node, stale, catalogs, info, beat, expired,
                 neighbourhood>>

\* ... and what is to be kept of it is stored.
RemoveStore(w) ==
  /\ disc[w].at = "store"
  /\ entries' = [entries EXCEPT ![disc[w].k] = disc[w].copy \ {disc[w].of}]
  /\ disc' = [disc EXCEPT ![w] = Advance(disc[w])]
  /\ UNCHANGED <<wire, remote, node, stale, services, info, beat, expired,
                 neighbourhood>>

\* Mutant of Unavailable: the node is only reported.
Unavailable_ReportOnly(w) ==
  /\ disc[w].at = "last"
  /\ news' = news \union {Emitted("$node.disconnected", disc[w].of)}
  /\ disc' = [disc EXCEPT ![w] = Idle]
  /\ UNCHANGED <<wire, remote, node, stale, catalogs, info, beat, expired,
                 neighbours>>

\* node.Unavailable() and $node.disconnected
Unavailable(w) ==
  /\ disc[w].at = "last"
  /\ node' = [node EXCEPT ![disc[w].of] = "unavailable"]
  /\ news' = news \union {Emitted("$node.disconnected", disc[w].of)}
  /\ disc' = [disc EXCEPT ![w] = Idle]
  /\ UNCHANGED <<wire, remote, stale, catalogs, info, beat, expired,
                 neighbours>>

\* onNodeConnected and the end of onNodeDisconnected of the transit.
NodeEvent(e) ==
  /\ e \in news
  /\ news' = news \ {e}
  /\ neighbours' = IF e.name = "$node.connected" THEN neighbours \union {e.of}
                   ELSE neighbours \ {e.of}
  /\ UNCHANGED <<wire, remote, node, stale, catalogs, threads>>

-----------------------------------------------------------------------------
InfoStep == UpdateRemote \/ AddLoad \/ AddStore \/ InfoDone
DisconnectStep(w) ==
  RemoveServices(w) \/ RemoveLoad(w) \/ RemoveStore(w) \/ Unavailable(w)

Next ==
  \/ \E n \in Nodes :
       \/ Boot(n) \/ Crash(n) \/ StopRemote(n) \/ SendHeartbeat(n)
       \/ DiscoverHandler(n) \/ HeartbeatTimeout(n)
       \/ InfoReceived(n) \/ HeartbeatReceived(n) \/ DiscoverNode(n)
       \/ DisconnectReceived(n) \/ DisconnectExpired(n)
  \/ InfoStep
  \/ HeartBeat
  \/ CheckExpired
  \/ \E w \in Workers : DisconnectStep(w)
  \/ \E e \in Event : NodeEvent(e)

\* The goroutines of this broker run, messages that arrive are handled, and
\* the loop keeps checking.  A running node sends heartbeats and answers a
\* DISCOVER.  Time passes: the silence of a node that is down is noticed.
Fairness ==
  /\ WF_vars(InfoStep)
  /\ WF_vars(HeartBeat)
  /\ SF_vars(CheckExpired)
  /\ \A w \in Workers : WF_vars(DisconnectStep(w))
  /\ WF_vars(\E e \in Event : NodeEvent(e))
  /\ \A n \in Nodes :
       /\ SF_vars(InfoReceived(n))
       /\ SF_vars(HeartbeatReceived(n))
       /\ SF_vars(DiscoverNode(n))
       /\ SF_vars(DisconnectExpired(n))
       /\ WF_vars(SendHeartbeat(n))
       /\ WF_vars(DiscoverHandler(n))
       /\ WF_vars(n \notin up /\ HeartbeatTimeout(n))

Spec == Init /\ [][Next]_vars /\ Fairness

-----------------------------------------------------------------------------
(* Properties.                                                             *)

Quiet == /\ Running = 0 /\ expired = {}
         /\ \A n \in Nodes : infos[n] = 0
         /\ disconnects = {} /\ discovers = {} /\ beats = {}

\* "When a node/service/actions starts, it will announce it's presence ...
\* and that will be saved in the registry" (registry/README.md:3): when
\* nothing is being handled, the endpoints of a node that runs and that is
\* known to be available can be called.
SavedInRegistry ==
  Quiet => \A n \in up : node[n] = "available" =>
             \A k \in Positions : n \in entries[k]

\* "In case of a node crash (or stop) other nodes will detect it and remove
\* the affected services from their registry.  This way the following
\* requests will be routed to live nodes" (registry/README.md:3): when
\* nothing is being handled, no call or event is routed to a node that was
\* found down.
RemovedFromRegistry ==
  Quiet => \A n \in Nodes : node[n] = "unavailable" =>
             \A k \in Positions : n \notin entries[k]

\* The registry routes to every node that lives and to none that is down.
RoutesToTheLiving == SavedInRegistry /\ RemovedFromRegistry

\* The service catalog and the catalogs of endpoints agree on every node no
\* handler is working for: updateRemote relies on it when it decides that a
\* known service brings no new actions (service-catalog.go:225-231).
CatalogsAgree ==
  \A n \in Nodes :
    (info.t.of # n /\ \A w \in Workers : disc[w].of # n) =>
      \A k \in Positions : n \in entries[k] <=> n \in services

\* "neighbours return the total number of known neighbours" (pubsub.go:577):
\* when nothing is being handled, the nodes counted, which every INFO reports
\* and waitForNeighbours expects, are those that are known to be available.
NeighboursAreKnown ==
  Quiet => neighbours = {n \in Nodes : node[n] = "available"}

\* A crash is detected: a node that stays down does not stay available,
\* however its last messages are delayed and handlers overlap.
CrashIsDetected ==
  \A n \in Nodes : <>[](n \notin up) => <>[](node[n] # "available")

\* A node that stays up is available again and again: a false alarm, a
\* reordered DISCONNECT or a lost INFO is healed by the next heartbeats.
LiveNodesReturn ==
  \A n \in Nodes : <>[](n \in up) => []<>(node[n] = "available")
=============================================================================
